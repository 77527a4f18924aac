------------------------ MODULE AuditableStoreProofs ------------------------
(***************************************************************************)
(* For any number of wrappers, triples and graphs, all written by all: the *)
(* log of a transaction is its net change of the quads no other changed    *)
(* and it did not add back, and a rollback takes exactly that back.        *)
(***************************************************************************)
EXTENDS AuditableStore, TLAPS

(* The inductive invariant.  Of a quad w has not asked for there is no     *)
(* log; what its call is about is what it asked for; and the log of a quad *)
(* nobody else changed and that was not added back is how it differs, once *)
(* the call is made, from what it was when the transaction began.          *)
CallOK(w) ==
  /\ calling[w] \in [op : {"none", "add", "remove"}, quads : SUBSET asked[w]]
  /\ calling[w].op = "none" => calling[w] = NoCall

LogAsked(w) == \A q \in Quad \ asked[w] : reverseOps[w][q] = <<>>

LogPlain(w) ==
  asked[w] # {} =>
    \A q \in Quad \ (theirs[w] \cup readded[w]) : reverseOps[w][q] = NetChange(w, q)

Transaction(w) == DOMAIN reverseOps[w] = Quad /\ CallOK(w) /\ LogAsked(w) /\ LogPlain(w)

Typed ==
  /\ content \subseteq Quad
  /\ DOMAIN reverseOps = Wrappers /\ DOMAIN calling = Wrappers
  /\ began \in [Wrappers -> SUBSET Quad] /\ asked \in [Wrappers -> SUBSET Quad]
  /\ readded \in [Wrappers -> SUBSET Quad] /\ theirs \in [Wrappers -> SUBSET Quad]

IInv == Typed /\ \A w \in Wrappers : Transaction(w)

-----------------------------------------------------------------------------
(* list.append and list.remove on lists of at most one operation.          *)
LEMMA LogsOfOne ==
  /\ AfterAdd(<<>>) = <<"remove">>
  /\ AfterRemove(<<>>) = <<"add">>
  /\ AfterRemove(<<"remove">>) = <<>>
<1>1. AfterAdd(<<>>) = <<"remove">>
  <2>1. Append(<<>>, "remove") = <<"remove">>
    OBVIOUS
  <2>2. ~ \E i \in 1..Len(<<"remove">>) : <<"remove">>[i] = "add"
    OBVIOUS
  <2> QED
    BY <2>1, <2>2 DEF AfterAdd, Ext!RemoveFirst
<1>2. AfterRemove(<<>>) = <<"add">>
  BY DEF AfterRemove, Ext!Contains
<1>3. AfterRemove(<<"remove">>) = <<>>
  <2> DEFINE s == <<"remove">>
  <2>1. \E i \in 1..Len(s) : s[i] = "remove"
    OBVIOUS
  <2>2. {i \in 1..Len(s) : s[i] = "remove"} = {1}
    OBVIOUS
  <2>3. Ext!Min({1}) = 1
    BY DEF Ext!Min
  <2>4. AfterRemove(s) = Ext!RemoveAt(s, 1)
    BY <2>1, <2>2, <2>3, Zenon DEF AfterRemove, Ext!Contains, Ext!RemoveFirst, Ext!SelectInSeq
  <2>5. Ext!RemoveAt(s, 1) = <<>>
    BY DEF Ext!RemoveAt
  <2> QED
    BY <2>4, <2>5
<1> QED
  BY <1>1, <1>2, <1>3

(* The three lists differ. *)
LEMMA LogsDiffer ==
  /\ <<"add">> # <<>> /\ <<"remove">> # <<>> /\ <<"add">> # <<"remove">>
  /\ Len(<<>>) = 0 /\ Len(<<"add">>) = 1 /\ Len(<<"remove">>) = 1
OBVIOUS

(* What the three lists of the net change are, whatever the state.         *)
LEMMA NetChanges ==
  ASSUME NEW w \in Wrappers, NEW q
  PROVE  NetChange(w, q) \in {<<>>, <<"add">>, <<"remove">>}
BY DEF NetChange

(* A step that leaves a transaction as it was, but for what it takes note  *)
(* of in theirs, preserves the part of the invariant about it: a quad that *)
(* changed is not the transaction's alone any more.                        *)
LEMMA OthersKept ==
  ASSUME NEW w \in Wrappers, Typed, Transaction(w), Typed',
         reverseOps'[w] = reverseOps[w], calling'[w] = calling[w], began'[w] = began[w],
         asked'[w] = asked[w], readded'[w] = readded[w], theirs'[w] = MetBy(w, content')
  PROVE  Transaction(w)'
<1>1. DOMAIN reverseOps'[w] = Quad /\ CallOK(w)' /\ LogAsked(w)'
  BY DEF Transaction, CallOK, LogAsked, Quad, NoCall
<1>2. LogPlain(w)'
  <2> SUFFICES ASSUME asked[w] # {}, NEW q \in Quad \ (theirs'[w] \cup readded[w])
               PROVE  reverseOps[w][q] = NetChange(w, q)'
    BY DEF LogPlain, Quad
  <2>2. q \notin theirs[w] \cup readded[w] /\ (q \in content' <=> q \in content)
    BY DEF MetBy
  <2>3. q \in Pending(w)' <=> q \in Pending(w)
    BY <2>2 DEF Pending
  <2>4. NetChange(w, q)' = NetChange(w, q)
    BY <2>3 DEF NetChange
  <2> QED
    BY <2>2, <2>4 DEF Transaction, LogPlain
<1> QED
  BY <1>1, <1>2 DEF Transaction

(* The same of a step of another wrapper that leaves the store as it is.   *)
LEMMA OthersUntouched ==
  ASSUME NEW w \in Wrappers, Typed, Transaction(w), Typed', content' = content,
         reverseOps'[w] = reverseOps[w], calling'[w] = calling[w], began'[w] = began[w],
         asked'[w] = asked[w], readded'[w] = readded[w], theirs'[w] = theirs[w]
  PROVE  Transaction(w)'
<1>1. theirs'[w] = MetBy(w, content')
  BY DEF MetBy
<1> QED
  BY <1>1, OthersKept

(* What began holds, and what Plain, once w asks for quads: the first call *)
(* of a transaction begins it.                                             *)
LEMMA Asking ==
  ASSUME NEW w \in Wrappers, Typed, Transaction(w), NEW quads \in SUBSET Quad, Asks(w, quads),
         Idle(w)
  PROVE  /\ began' \in [Wrappers -> SUBSET Quad] /\ asked' \in [Wrappers -> SUBSET Quad]
         /\ theirs' = theirs
         /\ asked'[w] = asked[w] \cup quads
         /\ \A v \in Wrappers : v # w => began'[v] = began[v] /\ asked'[v] = asked[v]
         /\ \A q \in Quad \ (theirs[w] \cup readded[w]) :
              reverseOps[w][q] = IF q \in content
                                 THEN IF q \in began'[w] THEN <<>> ELSE <<"remove">>
                                 ELSE IF q \in began'[w] THEN <<"add">> ELSE <<>>
<1>1. /\ began' \in [Wrappers -> SUBSET Quad] /\ asked' \in [Wrappers -> SUBSET Quad]
      /\ theirs' = theirs /\ asked'[w] = asked[w] \cup quads
      /\ \A v \in Wrappers : v # w => began'[v] = began[v] /\ asked'[v] = asked[v]
      /\ began'[w] = IF asked[w] = {} THEN content ELSE began[w]
  BY DEF Typed, Asks
<1>2. ASSUME NEW q \in Quad \ (theirs[w] \cup readded[w])
      PROVE  reverseOps[w][q] = IF q \in content
                                 THEN IF q \in began'[w] THEN <<>> ELSE <<"remove">>
                                 ELSE IF q \in began'[w] THEN <<"add">> ELSE <<>>
  <2>1. CASE asked[w] # {}
    <3>1. Pending(w) = content /\ began'[w] = began[w]
      BY <1>1, <2>1 DEF Pending, Idle, NoCall
    <3>2. reverseOps[w][q] = NetChange(w, q)
      BY <1>2, <2>1 DEF Transaction, LogPlain
    <3> QED
      BY <3>1, <3>2 DEF NetChange
  <2>2. CASE asked[w] = {}
    <3>1. reverseOps[w][q] = <<>> /\ began'[w] = content
      BY <1>1, <1>2, <2>2 DEF Transaction, LogAsked
    <3> QED
      BY <3>1
  <2> QED
    BY <2>1, <2>2
<1> QED
  BY <1>1, <1>2

(* add() logs that the quad is to be removed; of one that was in the store *)
(* when the transaction began the log held "add", and it is noted as added *)
(* back.                                                                   *)
LEMMA AddKept ==
  ASSUME IInv, NEW w \in Wrappers, NEW t \in Triple, NEW g \in Graphs, Add(w, t, g)
  PROVE  IInv'
<1> DEFINE q == <<t, g>>
<1>1. /\ q \in Quad /\ q \notin content /\ Idle(w) /\ Typed /\ Transaction(w) /\ content' = content
      /\ Asks(w, {q}) /\ DOMAIN reverseOps' = Wrappers /\ DOMAIN calling' = Wrappers
      /\ reverseOps'[w] = [reverseOps[w] EXCEPT ![q] = AfterAdd(@)]
      /\ calling'[w] = [op |-> "add", quads |-> {q}]
      /\ \A v \in Wrappers : v # w => reverseOps'[v] = reverseOps[v] /\ calling'[v] = calling[v]
  BY DEF Add, IInv, Typed, Quad
<1>2. /\ readded' \in [Wrappers -> SUBSET Quad] /\ readded[w] \subseteq readded'[w]
      /\ \A v \in Wrappers : v # w => readded'[v] = readded[v]
      /\ Ext!Contains(reverseOps[w][q], "add") => q \in readded'[w]
  BY <1>1 DEF Add, Typed
<1> HIDE DEF q
<1>3. /\ began' \in [Wrappers -> SUBSET Quad] /\ asked' \in [Wrappers -> SUBSET Quad]
      /\ theirs' = theirs /\ asked'[w] = asked[w] \cup {q}
      /\ \A v \in Wrappers : v # w => began'[v] = began[v] /\ asked'[v] = asked[v]
      /\ \A r \in Quad \ (theirs[w] \cup readded[w]) :
           reverseOps[w][r] = IF r \in content
                              THEN IF r \in began'[w] THEN <<>> ELSE <<"remove">>
                              ELSE IF r \in began'[w] THEN <<"add">> ELSE <<>>
  BY <1>1, Asking
<1>4. Typed'
  BY <1>1, <1>2, <1>3 DEF Typed
<1>5. \A v \in Wrappers : v # w => Transaction(v)'
  BY <1>1, <1>2, <1>3, <1>4, OthersUntouched DEF IInv
<1>6. DOMAIN reverseOps'[w] = Quad /\ CallOK(w)' /\ LogAsked(w)'
  BY <1>1, <1>3 DEF Transaction, CallOK, LogAsked, Quad, NoCall
<1>7. ASSUME NEW r \in Quad \ (theirs'[w] \cup readded'[w])
      PROVE  reverseOps'[w][r] = NetChange(w, r)'
  <2>1. Pending(w)' = content \cup {q}
    BY <1>1 DEF Pending
  <2>2. r \notin theirs[w] \cup readded[w]
    BY <1>2, <1>3, <1>7
  <2>3. CASE r = q
    <3>1. reverseOps[w][q] # <<"add">>
      <4>1. Ext!Contains(<<"add">>, "add")
        BY DEF Ext!Contains
      <4> QED
        BY <1>2, <1>7, <2>3, <4>1
    <3>2. reverseOps[w][q] = <<>> /\ q \notin began'[w]
      BY <1>1, <1>3, <2>2, <2>3, <3>1
    <3>3. reverseOps'[w][q] = <<"remove">>
      BY <1>1, <3>2, LogsOfOne DEF Transaction
    <3> QED
      BY <2>1, <2>3, <3>2, <3>3 DEF NetChange
  <2>4. CASE r # q
    <3>1. reverseOps'[w][r] = reverseOps[w][r]
      BY <1>1, <1>7, <2>4 DEF Transaction
    <3> QED
      BY <1>3, <1>7, <2>1, <2>2, <2>4, <3>1 DEF NetChange
  <2> QED
    BY <2>3, <2>4
<1>8. Transaction(w)'
  BY <1>6, <1>7 DEF Transaction, LogPlain, Quad
<1> QED
  BY <1>4, <1>5, <1>8 DEF IInv

(* remove() logs what it finds: a quad that the transaction added is not   *)
(* changed at all any more, another one is to be added again.              *)
LEMMA RemoveKept ==
  ASSUME IInv, NEW w \in Wrappers, NEW quads \in SUBSET Quad,
         LogAndCall(w, quads \cap content, quads)
  PROVE  IInv'
<1> DEFINE found == quads \cap content
<1>1. /\ Idle(w) /\ Typed /\ Transaction(w) /\ content' = content /\ readded' = readded
      /\ Asks(w, quads) /\ DOMAIN reverseOps' = Wrappers /\ DOMAIN calling' = Wrappers
      /\ reverseOps'[w] = [q \in Quad |-> IF q \in found THEN AfterRemove(reverseOps[w][q])
                                         ELSE reverseOps[w][q]]
      /\ calling'[w] = [op |-> "remove", quads |-> quads]
      /\ \A v \in Wrappers : v # w => reverseOps'[v] = reverseOps[v] /\ calling'[v] = calling[v]
  BY DEF LogAndCall, IInv, Typed
<1>3. /\ began' \in [Wrappers -> SUBSET Quad] /\ asked' \in [Wrappers -> SUBSET Quad]
      /\ theirs' = theirs /\ asked'[w] = asked[w] \cup quads
      /\ \A v \in Wrappers : v # w => began'[v] = began[v] /\ asked'[v] = asked[v]
      /\ \A r \in Quad \ (theirs[w] \cup readded[w]) :
           reverseOps[w][r] = IF r \in content
                              THEN IF r \in began'[w] THEN <<>> ELSE <<"remove">>
                              ELSE IF r \in began'[w] THEN <<"add">> ELSE <<>>
  BY <1>1, Asking
<1>4. Typed'
  BY <1>1, <1>3 DEF Typed
<1>5. \A v \in Wrappers : v # w => Transaction(v)'
  BY <1>1, <1>3, <1>4, OthersUntouched DEF IInv
<1>6. DOMAIN reverseOps'[w] = Quad /\ CallOK(w)' /\ LogAsked(w)'
  <2>1. LogAsked(w)'
    BY <1>1, <1>3 DEF Transaction, LogAsked, Quad
  <2> QED
    BY <1>1, <1>3, <2>1 DEF CallOK, NoCall
<1>7. ASSUME NEW r \in Quad \ (theirs'[w] \cup readded'[w])
      PROVE  reverseOps'[w][r] = NetChange(w, r)'
  <2>1. Pending(w)' = content \ quads
    BY <1>1 DEF Pending
  <2>2. r \in Quad \ (theirs[w] \cup readded[w])
    BY <1>1, <1>3, <1>7
  <2>3. CASE r \in found
    <3>1. reverseOps'[w][r] = AfterRemove(reverseOps[w][r])
      BY <1>1, <2>2, <2>3
    <3>2. reverseOps'[w][r] = IF r \in began'[w] THEN <<"add">> ELSE <<>>
      BY <1>3, <2>2, <2>3, <3>1, LogsOfOne
    <3> QED
      BY <2>1, <2>3, <3>2 DEF NetChange
  <2>4. CASE r \notin found
    <3>1. reverseOps'[w][r] = reverseOps[w][r]
      BY <1>1, <2>2, <2>4
    <3> QED
      BY <1>3, <2>1, <2>2, <2>4, <3>1 DEF NetChange
  <2> QED
    BY <2>3, <2>4
<1>8. Transaction(w)'
  BY <1>6, <1>7 DEF Transaction, LogPlain, Quad
<1> QED
  BY <1>4, <1>5, <1>8 DEF IInv

(* The call of the wrapped store makes what was pending so; what it        *)
(* changes the other transactions take note of.                            *)
LEMMA ApplyKept ==
  ASSUME IInv, NEW w \in Wrappers, Apply(w)
  PROVE  IInv'
<1>1. /\ Typed /\ Transaction(w) /\ ~Idle(w)
      /\ UNCHANGED <<reverseOps, began, asked, readded>>
      /\ DOMAIN calling' = Wrappers /\ calling'[w] = NoCall
      /\ \A v \in Wrappers : v # w => calling'[v] = calling[v]
      /\ theirs' = [v \in Wrappers |-> IF v = w THEN theirs[v] ELSE MetBy(v, content')]
      /\ content' = IF calling[w].op = "add" THEN content \cup calling[w].quads
                    ELSE content \ calling[w].quads
  BY DEF Apply, IInv, Typed
<1>2. calling[w].op \in {"add", "remove"} /\ calling[w].quads \subseteq Quad
  <2>1. CallOK(w)
    BY <1>1 DEF Transaction
  <2> QED
    BY <1>1, <2>1 DEF CallOK, Idle, Typed
<1>3. content' = Pending(w) /\ content' \subseteq Quad
  BY <1>1, <1>2 DEF Pending, Typed
<1>4. Typed'
  BY <1>1, <1>3 DEF Typed, MetBy, Quad
<1>5. \A v \in Wrappers : v # w => Transaction(v)'
  BY <1>1, <1>4, OthersKept DEF IInv
<1>6. Pending(w)' = Pending(w)
  BY <1>1, <1>3 DEF Pending, NoCall
<1>7. Transaction(w)'
  <2>1. \A q : NetChange(w, q)' = NetChange(w, q)
    BY <1>1, <1>6 DEF NetChange
  <2>2. theirs'[w] = theirs[w]
    BY <1>1
  <2>3. LogPlain(w)' /\ LogAsked(w)'
    BY <1>1, <2>1, <2>2 DEF Transaction, LogPlain, LogAsked, Quad
  <2>4. CallOK(w)'
    BY <1>1 DEF CallOK, NoCall
  <2> QED
    BY <1>1, <2>3, <2>4 DEF Transaction, Quad
<1> QED
  BY <1>4, <1>5, <1>7 DEF IInv

(* A transaction that ends leaves no log, and its wrapper has asked for    *)
(* nothing.                                                                *)
LEMMA EndKept ==
  ASSUME IInv, NEW w \in Wrappers, Idle(w), UNCHANGED calling, content' \subseteq Quad,
         reverseOps' = [reverseOps EXCEPT ![w] = EmptyLog], End(w, content')
  PROVE  IInv'
<1>1. Typed /\ Transaction(w)
  BY DEF IInv
<1>2. /\ DOMAIN reverseOps' = Wrappers /\ reverseOps'[w] = EmptyLog /\ asked'[w] = {}
      /\ theirs' = [v \in Wrappers |-> IF v = w THEN {} ELSE MetBy(v, content')]
      /\ \A v \in Wrappers : v # w => /\ reverseOps'[v] = reverseOps[v] /\ began'[v] = began[v]
                                     /\ asked'[v] = asked[v] /\ readded'[v] = readded[v]
  BY <1>1 DEF Typed, End
<1>3. Typed'
  BY <1>1, <1>2 DEF Typed, End, MetBy, Quad
<1>4. \A v \in Wrappers : v # w => Transaction(v)'
  BY <1>2, <1>3, OthersKept DEF IInv
<1>5. Transaction(w)'
  BY <1>2 DEF Transaction, CallOK, LogAsked, LogPlain, EmptyLog, Idle, NoCall, Quad
<1> QED
  BY <1>3, <1>4, <1>5 DEF IInv

(* The log of an idle transaction run over the store gives back what it    *)
(* held when the transaction began, and touches nothing it did not ask for. *)
LEMMA Undone ==
  ASSUME IInv, NEW w \in Wrappers, Idle(w)
  PROVE  /\ \A q \in Plain(w) : q \in Restored(reverseOps[w]) <=> q \in began[w]
         /\ \A q \in Quad \ asked[w] : q \in Restored(reverseOps[w]) <=> q \in content
<1>1. Typed /\ Transaction(w)
  BY DEF IInv
<1>2. ASSUME NEW q \in Plain(w) PROVE q \in Restored(reverseOps[w]) <=> q \in began[w]
  <2>1. q \in Quad /\ asked[w] # {} /\ q \notin theirs[w] \cup readded[w]
    BY <1>1, <1>2 DEF Plain, Typed
  <2>2. Pending(w) = content
    BY DEF Pending, Idle, NoCall
  <2>3. reverseOps[w][q] = IF q \in content THEN IF q \in began[w] THEN <<>> ELSE <<"remove">>
                           ELSE IF q \in began[w] THEN <<"add">> ELSE <<>>
    BY <1>1, <2>1, <2>2 DEF Transaction, LogPlain, NetChange
  <2>4. <<"add">>[1] = "add" /\ <<"remove">>[1] # "add"
    OBVIOUS
  <2>5. q \in Restored(reverseOps[w]) <=>
          IF reverseOps[w][q] = <<>> THEN q \in content
          ELSE reverseOps[w][q][Len(reverseOps[w][q])] = "add"
    BY <2>1 DEF Restored
  <2> QED
    BY <2>3, <2>4, <2>5, LogsDiffer
<1>3. ASSUME NEW q \in Quad \ asked[w] PROVE q \in Restored(reverseOps[w]) <=> q \in content
  BY <1>1, <1>3 DEF Transaction, LogAsked, Restored
<1> QED
  BY <1>2, <1>3

(* The inductive invariant holds at the start and is kept by every step.   *)
LEMMA StepKept == IInv /\ [Next]_vars => IInv'
<1> SUFFICES ASSUME IInv, [Next]_vars PROVE IInv'
  OBVIOUS
<1>1. ASSUME NEW w \in Wrappers, NEW t \in Triple, NEW g \in Graphs, Add(w, t, g) PROVE IInv'
  BY <1>1, AddKept
<1>2. ASSUME NEW w \in Wrappers, NEW t \in Triple, NEW g \in Graphs, RemoveExact(w, t, g)
      PROVE  IInv'
  <2>1. {<<t, g>>} \in SUBSET Quad /\ {<<t, g>>} \cap content = {<<t, g>>}
    BY <1>2 DEF RemoveExact, Quad
  <2> QED
    BY <1>2, <2>1, RemoveKept DEF RemoveExact
<1>3. ASSUME NEW w \in Wrappers, NEW pat, NEW G, Remove(w, pat, G) PROVE IInv'
  <2>1. QuadsOf(pat, G) \in SUBSET Quad
    BY DEF QuadsOf
  <2> QED
    BY <1>3, <2>1, RemoveKept DEF Remove
<1>4. ASSUME NEW w \in Wrappers, Apply(w) PROVE IInv'
  BY <1>4, ApplyKept
<1>5. ASSUME NEW w \in Wrappers, Commit(w) PROVE IInv'
  BY <1>5, EndKept DEF Commit, IInv, Typed
<1>6. ASSUME NEW w \in Wrappers, Rollback(w) PROVE IInv'
  <2>1. content' \subseteq Quad
    BY <1>6 DEF Rollback, Restored
  <2> QED
    BY <1>6, <2>1, EndKept DEF Rollback
<1>7. CASE UNCHANGED vars
  <2>1. Typed'
    BY <1>7 DEF vars, IInv, Typed, Quad
  <2> QED
    BY <1>7, <2>1, OthersUntouched DEF vars, IInv
<1> QED
  BY <1>1, <1>2, <1>3, <1>4, <1>5, <1>6, <1>7 DEF Next

LEMMA InitKept == Init => IInv
BY DEF Init, IInv, Typed, Transaction, CallOK, LogAsked, LogPlain, EmptyLog, NoCall, Quad

(* The inductive invariant, in every execution of the specification.       *)
THEOREM AuditsConsistently == Spec => []IInv
BY InitKept, StepKept, PTL DEF Spec

(* The log of AuditableStore is the net change of its transaction of every *)
(* quad that no other changed and it did not add back itself, for any      *)
(* number of transactions that share a store.                              *)
THEOREM LogAlwaysNetChange == Spec => []LogIsNetChange
<1>1. IInv => LogIsNetChange
  <2> SUFFICES ASSUME IInv, NEW w \in Wrappers, NEW q \in Plain(w)
               PROVE  reverseOps[w][q] = NetChange(w, q)
    BY DEF LogIsNetChange
  <2>1. q \in Quad /\ asked[w] # {} /\ q \notin theirs[w] \cup readded[w]
    BY DEF Plain, IInv, Typed
  <2> QED
    BY <2>1 DEF IInv, Transaction, LogPlain
<1> QED
  BY <1>1, AuditsConsistently, PTL

(* rollback() puts each of these quads back to what it was when the        *)
(* transaction began, whatever the other transactions did.                 *)
THEOREM RollbackAlwaysRestores == Spec => RollbackRestores
<1>1. IInv /\ [Next]_vars =>
        [\A w \in Wrappers : Rollback(w) =>
           \A q \in Plain(w) : q \in content' <=> q \in began[w]]_vars
  BY Undone DEF Rollback
<1> QED
  BY <1>1, AuditsConsistently, PTL DEF Spec, RollbackRestores

(* rollback() changes no quad its transaction did not ask the store to     *)
(* change, whoever reads and writes the same quads.                        *)
THEOREM RollbackAlwaysSpares == Spec => RollbackSparesOthers
<1>1. IInv /\ [Next]_vars =>
        [\A w \in Wrappers : Rollback(w) =>
           \A q \in Quad \ asked[w] : q \in content' <=> q \in content]_vars
  BY Undone DEF Rollback
<1> QED
  BY <1>1, AuditsConsistently, PTL DEF Spec, RollbackSparesOthers
=============================================================================
