--------------------------- MODULE AuditableStore ---------------------------
(***************************************************************************)
(* rdflib.plugins.stores.auditable.AuditableStore: a wrapper that logs,    *)
(* for every change it makes to the store it wraps, the operation that     *)
(* would undo it.  Several wrappers share one store, each is a transaction *)
(* used by a thread of its own and may write every quad: between the       *)
(* moment a wrapper reads the store to decide what to log and the moment   *)
(* it changes the store, the others may run.  The lock a call takes is a   *)
(* new one every time, so it excludes nobody.                              *)
(*                                                                         *)
(* Operations on different quads commute, so the list reverseOps is kept   *)
(* as one list of operations for each quad <<triple, graph>>.  Threads are *)
(* switched around a rollback and around the search for what a pattern     *)
(* matches, not within them.  Every add() names a graph, as those of Graph *)
(* do.                                                                     *)
(***************************************************************************)
EXTENDS Integers, Sequences

Ext == INSTANCE SequencesExt

CONSTANTS
  Triple, Pattern, Graphs, Any,
  Wrappers    \* the AuditableStore objects that share the store

Quad == Triple \X Graphs
NoCall == [op |-> "none", quads |-> {}]

VARIABLES
  content,     \* the quads in the wrapped store
  reverseOps,  \* reverseOps[w][q]: the logged operations on quad q, in order
  calling,     \* calling[w]: the call to the wrapped store w is about to make
  (* history, to state properties with, of the transaction w is in, which *)
  (* begins with its first call that is not without effect                *)
  began,       \* began[w]: what the store held when it began
  asked,       \* asked[w]: the quads it asked the store to change
  readded,     \* readded[w]: the quads it added again after removing them
  theirs       \* theirs[w]: the quads other wrappers changed meanwhile

vars == <<content, reverseOps, calling, began, asked, readded, theirs>>
history == <<began, asked, readded, theirs>>

Matches(t, pat) == \A i \in 1..3 : pat[i] = Any \/ pat[i] = t[i]
QuadsOf(pat, G) == {q \in Quad : q[2] \in G /\ Matches(q[1], pat)}

EmptyLog == [q \in Quad |-> <<>>]

Init ==
  /\ content \in SUBSET Quad
  /\ reverseOps = [w \in Wrappers |-> EmptyLog]
  /\ calling = [w \in Wrappers |-> NoCall]
  /\ began = [w \in Wrappers |-> {}]
  /\ asked = [w \in Wrappers |-> {}]
  /\ readded = [w \in Wrappers |-> {}]
  /\ theirs = [w \in Wrappers |-> {}]

-----------------------------------------------------------------------------
(* What add() logs of an absent triple: it appends "remove" and drops an   *)
(* "add" logged earlier.                                                   *)
AfterAdd(log) == Ext!RemoveFirst(Append(log, "remove"), "add")

(* A remove() that logs an "add" for a triple this transaction added. *)
AfterRemoveAppends(log) == Append(log, "add")

(* What remove() logs of a triple it finds: it drops a "remove" logged     *)
(* earlier, or appends "add".                                              *)
AfterRemove(log) ==
  IF Ext!Contains(log, "remove") THEN Ext!RemoveFirst(log, "remove") ELSE Append(log, "add")

Idle(w) == calling[w] = NoCall

(* The history of a call of w that asks for the quads to be changed. *)
Asks(w, quads) ==
  /\ began' = IF asked[w] = {} THEN [began EXCEPT ![w] = content] ELSE began
  /\ asked' = [asked EXCEPT ![w] = @ \cup quads]
  /\ UNCHANGED theirs

(* add(), up to its call of the wrapped store; a triple that is there is   *)
(* not added and not logged.                                               *)
Add(w, t, g) ==
  LET q == <<t, g>> IN
  /\ Idle(w)
  /\ q \notin content
  /\ reverseOps' = [reverseOps EXCEPT ![w][q] = AfterAdd(@)]
  /\ calling' = [calling EXCEPT ![w] = [op |-> "add", quads |-> {q}]]
  /\ Asks(w, {q})
  /\ readded' = IF Ext!Contains(reverseOps[w][q], "add")
                THEN [readded EXCEPT ![w] = @ \cup {q}] ELSE readded
  /\ UNCHANGED content

(* The log once remove() has found the quads, and the call it will make. *)
LogAndCall(w, found, quads) ==
  /\ Idle(w)
  /\ reverseOps' = [reverseOps EXCEPT ![w] =
                      [q \in Quad |-> IF q \in found THEN AfterRemove(@[q]) ELSE @[q]]]
  /\ calling' = [calling EXCEPT ![w] = [op |-> "remove", quads |-> quads]]
  /\ Asks(w, quads)
  /\ UNCHANGED <<content, readded>>

(* remove() of one triple in a given graph, which returns at once when the *)
(* triple is not there.                                                    *)
RemoveExact(w, t, g) ==
  /\ <<t, g>> \in content
  /\ LogAndCall(w, {<<t, g>>}, {<<t, g>>})

(* A wildcard remove() that logs the quads of one graph only. *)
RemoveFromOne(w, pat, G) ==
  LogAndCall(w, {q \in QuadsOf(pat, G) \cap content : q[2] = CHOOSE g \in G : TRUE},
             QuadsOf(pat, G))

(* remove() of what a pattern matches in the graphs G, one graph or all of *)
(* them (context None): every quad found is logged, and the wrapped store  *)
(* is asked to remove the pattern, found or not.                           *)
Remove(w, pat, G) == LogAndCall(w, QuadsOf(pat, G) \cap content, QuadsOf(pat, G))

(* The history of a step of w that leaves the store holding new: what it   *)
(* changes is, for the other transactions, changed by another.             *)
MetBy(v, new) ==
  IF asked[v] = {} THEN theirs[v] ELSE theirs[v] \cup (content \ new) \cup (new \ content)

(* The call of the wrapped store that ends add() and remove(). *)
Apply(w) ==
  LET call == calling[w]
      new == IF call.op = "add" THEN content \cup call.quads ELSE content \ call.quads
  IN  /\ ~Idle(w)
      /\ content' = new
      /\ calling' = [calling EXCEPT ![w] = NoCall]
      /\ theirs' = [v \in Wrappers |-> IF v = w THEN theirs[v] ELSE MetBy(v, new)]
      /\ UNCHANGED <<reverseOps, began, asked, readded>>

(* The transaction of w ends in a store that holds new. *)
End(w, new) ==
  /\ began' = [began EXCEPT ![w] = {}]
  /\ asked' = [asked EXCEPT ![w] = {}]
  /\ readded' = [readded EXCEPT ![w] = {}]
  /\ theirs' = [v \in Wrappers |-> IF v = w THEN {} ELSE MetBy(v, new)]

(* A commit() that keeps the log. *)
CommitKeepsLog(w) ==
  /\ Idle(w)
  /\ End(w, content)
  /\ UNCHANGED <<content, reverseOps, calling>>

Commit(w) ==
  /\ Idle(w)
  /\ reverseOps' = [reverseOps EXCEPT ![w] = EmptyLog]
  /\ End(w, content)
  /\ UNCHANGED <<content, calling>>

(* The store once the logged operations have run in order: of those on one *)
(* quad the last one decides.                                              *)
Restored(log) ==
  {q \in Quad : IF log[q] = <<>> THEN q \in content ELSE log[q][Len(log[q])] = "add"}

Rollback(w) ==
  /\ Idle(w)
  /\ content' = Restored(reverseOps[w])
  /\ reverseOps' = [reverseOps EXCEPT ![w] = EmptyLog]
  /\ End(w, content')
  /\ UNCHANGED calling

Next ==
  \E w \in Wrappers :
    \/ \E t \in Triple, g \in Graphs : Add(w, t, g) \/ RemoveExact(w, t, g)
    \/ \E pat \in Pattern : Remove(w, pat, Graphs)
    \/ \E pat \in Pattern, g \in Graphs : Any \in {pat[1], pat[2], pat[3]} /\ Remove(w, pat, {g})
    \/ Apply(w) \/ Commit(w) \/ Rollback(w)

Spec == Init /\ [][Next]_vars

-----------------------------------------------------------------------------
(* Properties. *)

(* The variables hold values of their Python types. *)
TypeOK ==
  /\ content \subseteq Quad
  /\ reverseOps \in [Wrappers -> [Quad -> Seq({"add", "remove"})]]
  /\ calling \in [Wrappers -> [op : {"none", "add", "remove"}, quads : SUBSET Quad]]
  /\ \A h \in {began, asked, readded, theirs} : h \in [Wrappers -> SUBSET Quad]

(* The quads as they will be once the call of w under way has been made. *)
Pending(w) ==
  CASE calling[w].op = "add" -> content \cup calling[w].quads
    [] calling[w].op = "remove" -> content \ calling[w].quads
    [] OTHER -> content

(* The net change of w to a quad: what its log is to say of it. *)
NetChange(w, q) ==
  IF q \in Pending(w) THEN IF q \in began[w] THEN <<>> ELSE <<"remove">>
                      ELSE IF q \in began[w] THEN <<"add">> ELSE <<>>

(* The quads the transaction alone changed and never put back itself. *)
Plain(w) == asked[w] \ (theirs[w] \cup readded[w])

(* Whatever the other transactions are at, the log of a transaction is its *)
(* net change and no more: what it added is to be removed, what it removed *)
(* is to be added, and what it added and removed again is not in the log,  *)
(* also while a call is under way.  Left out are quads another transaction *)
(* changed meanwhile, and those it added back itself: the code logs that a *)
(* quad added back is to be removed (see RollbackReturns).                 *)
LogIsNetChange ==
  \A w \in Wrappers : \A q \in Plain(w) : reverseOps[w][q] = NetChange(w, q)

(* A rollback returns every quad to what it was when the transaction       *)
(* began, whatever the transaction did to it and however the calls of      *)
(* other transactions on other quads fell in between; the same quads are   *)
(* left out as above.                                                      *)
RollbackRestores ==
  [][\A w \in Wrappers : Rollback(w) =>
       \A q \in Plain(w) : q \in content' <=> q \in began[w]]_vars

(* A rollback changes no quad but those its own transaction asked the      *)
(* store to change, also while others read and write the same quads.       *)
RollbackSparesOthers ==
  [][\A w \in Wrappers : Rollback(w) =>
       \A q \in Quad \ asked[w] : q \in content' <=> q \in content]_vars

(* "The reverse operations are executed in order to return the store to    *)
(* the state it was when the transaction began": the same with no          *)
(* exception for what the transaction added back.  The code breaks it: it  *)
(* logs that a quad removed and added back is to be removed.               *)
RollbackReturns ==
  [][\A w \in Wrappers : Rollback(w) =>
       \A q \in asked[w] \ theirs[w] : q \in content' <=> q \in began[w]]_vars
=============================================================================
