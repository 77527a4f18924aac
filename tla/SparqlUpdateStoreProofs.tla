----------------------- MODULE SparqlUpdateStoreProofs -----------------------
(***************************************************************************)
(* The edits of SPARQLUpdateStore for any triples, graphs, rules and       *)
(* readers.                                                                *)
(*                                                                         *)
(* What the caller asked for is at any time what the endpoint holds with   *)
(* the list of edits carried out on it.  A request that is carried out and *)
(* goes unheard is sent again; without a WHERE clause in it, the second    *)
(* time changes nothing, since all it does is take some quads out and put  *)
(* some in.  After is a fold over the list, and what it comes to for one   *)
(* edit more, and for the whole list again, is shown by induction on the   *)
(* length of the list, from the least one of which it were not so.         *)
(***************************************************************************)
EXTENDS SparqlUpdateStore, WellFoundedInduction, TLAPS

(* Induction over the naturals, from the least element of a set of them.   *)
Smaller == {mn \in Nat \X Nat : mn[1] < mn[2]}

(* There is no endless descent in the naturals. *)
LEMMA SmallerIsWellFounded == IsWellFoundedOn(Smaller, Nat)
BY NatLessThanWellFounded DEF OpToRel, Smaller

(* A set of naturals that is not empty has a least one. *)
LEMMA LeastExists ==
  ASSUME NEW T, T \subseteq Nat, T # {}
  PROVE  \E n \in T : \A m \in T : n <= m
<1>1. \E n \in T : \A m \in T : <<m, n>> \notin Smaller
  BY SmallerIsWellFounded, WFMin, Zenon
<1>2. \A m, n \in T : <<m, n>> \notin Smaller => n <= m
  BY DEF Smaller
<1> QED
  BY <1>1, <1>2

(* So a set that has 0, and n + 1 when it has n, has them all; *)
LEMMA Induction ==
  ASSUME NEW T, T \subseteq Nat, 0 \in T, \A n \in T : n + 1 \in T
  PROVE  T = Nat
<1>1. ASSUME NEW n \in Nat, n \notin T PROVE FALSE
  <2>1. PICK k \in Nat \ T : \A m \in Nat \ T : k <= m
    BY LeastExists, <1>1
  <2>2. k # 0 /\ k - 1 \in Nat /\ k - 1 \in T
    BY <2>1
  <2> QED
    BY <2>1, <2>2
<1> QED
  BY <1>1

(* and one that has the empty list, and a longer when it has a list. *)
LEMMA ListInduction ==
  ASSUME NEW U, NEW S, <<>> \in S,
         \A list \in Seq(U), e \in U : list \in S => Append(list, e) \in S
  PROVE  Seq(U) \subseteq S
<1> DEFINE T == {n \in Nat : \A list \in Seq(U) : Len(list) = n => list \in S}
<1>1. 0 \in T
  <2>1. \A list \in Seq(U) : Len(list) = 0 => list = <<>>
    OBVIOUS
  <2> QED
    BY <2>1
<1>2. ASSUME NEW n \in T PROVE n + 1 \in T
  <2> SUFFICES ASSUME NEW list \in Seq(U), Len(list) = n + 1 PROVE list \in S
    OBVIOUS
  <2> DEFINE front == SubSeq(list, 1, n)
  <2>1. front \in Seq(U) /\ Len(front) = n /\ list[n + 1] \in U
    OBVIOUS
  <2>2. list = Append(front, list[n + 1])
    OBVIOUS
  <2>3. front \in S
    BY <2>1
  <2> HIDE DEF front
  <2> QED
    BY <2>1, <2>2, <2>3
<1> HIDE DEF T
<1>3. T = Nat
  <2>1. T \subseteq Nat
    BY DEF T
  <2> QED
    BY <1>1, <1>2, <2>1, Induction
<1> QED
  BY <1>3 DEF T

-----------------------------------------------------------------------------
(* The fold that After is made of: a function of the sets of positions.    *)
Latest(S) == Ext!Max(S)

IsRun(Q, queue, f, n) ==
  f = [S \in SUBSET (1..n) |->
        IF S = {} THEN Q ELSE Effect(f[S \ {Latest(S)}], queue[Latest(S)])]

(* After is the last value of the fold along the list. *)
LEMMA AfterIsARun ==
  ASSUME NEW Q, NEW U, NEW queue \in Seq(U)
  PROVE  After(Q, queue) = (CHOOSE f : IsRun(Q, queue, f, Len(queue)))[1..Len(queue)]
<1>1. DOMAIN queue = 1..Len(queue)
  OBVIOUS
<1> QED
  BY <1>1 DEF After, Ext!FoldLeft, Ext!MapThenFoldSet, IsRun, Latest

(* The fold takes the highest position first. *)
LEMMA LatestIsLast ==
  ASSUME NEW n \in Nat, NEW S, S \subseteq 1..(n + 1), n + 1 \in S
  PROVE  Latest(S) = n + 1
<1>1. \A x \in S : x \in Int /\ x <= n + 1
  OBVIOUS
<1>2. \A x \in S : (\A y \in S : x >= y) => x = n + 1
  BY <1>1
<1> QED
  BY <1>1, <1>2 DEF Latest, Ext!Max

(* There is such a fold of any length, *)
LEMMA RunsExist ==
  ASSUME NEW Q, NEW queue, NEW n \in Nat
  PROVE  \E f : IsRun(Q, queue, f, n)
<1> DEFINE T == {k \in Nat : \E f : IsRun(Q, queue, f, k)}
<1>1. 0 \in T
  <2> DEFINE f == [S \in SUBSET (1..0) |-> Q]
  <2>1. \A S \in SUBSET (1..0) : S = {}
    OBVIOUS
  <2>2. IsRun(Q, queue, f, 0)
    BY <2>1 DEF IsRun
  <2> QED
    BY <2>2
<1>2. ASSUME NEW k \in T PROVE k + 1 \in T
  <2>1. PICK f : IsRun(Q, queue, f, k)
    OBVIOUS
  <2> DEFINE g == [S \in SUBSET (1..(k + 1)) |->
                    IF k + 1 \in S THEN Effect(f[S \ {k + 1}], queue[k + 1]) ELSE f[S]]
  <2>2. ASSUME NEW S \in SUBSET (1..(k + 1))
        PROVE  g[S] = IF S = {} THEN Q ELSE Effect(g[S \ {Latest(S)}], queue[Latest(S)])
    <3>1. CASE k + 1 \in S
      <4>1. Latest(S) = k + 1
        BY <3>1, LatestIsLast
      <4>2. S \ {k + 1} \in SUBSET (1..(k + 1)) /\ k + 1 \notin S \ {k + 1}
        OBVIOUS
      <4>3. g[S \ {k + 1}] = f[S \ {k + 1}] /\ g[S] = Effect(f[S \ {k + 1}], queue[k + 1])
        BY <3>1, <4>2
      <4> QED
        BY <3>1, <4>1, <4>3
    <3>2. CASE k + 1 \notin S
      <4>1. S \in SUBSET (1..k)
        BY <3>2
      <4>2. f[S] = IF S = {} THEN Q ELSE Effect(f[S \ {Latest(S)}], queue[Latest(S)])
        BY <4>1, <2>1, Zenon DEF IsRun
      <4>3. S \ {Latest(S)} \in SUBSET (1..(k + 1)) /\ k + 1 \notin S \ {Latest(S)}
        BY <3>2
      <4>4. g[S \ {Latest(S)}] = f[S \ {Latest(S)}] /\ g[S] = f[S]
        BY <3>2, <4>3
      <4> QED
        BY <4>2, <4>4, Zenon
    <3> QED
      BY <3>1, <3>2
  <2>3. IsRun(Q, queue, g, k + 1)
    BY <2>2, Zenon DEF IsRun
  <2> QED
    BY <2>3
<1> HIDE DEF T
<1>3. T = Nat
  <2>1. T \subseteq Nat
    BY DEF T
  <2> QED
    BY <1>1, <1>2, <2>1, Induction
<1> QED
  BY <1>3 DEF T

(* and a list that only goes on further has the same values up to there. *)
LEMMA RunsAgree ==
  ASSUME NEW Q, NEW queue, NEW longer, NEW n \in Nat, NEW m \in Nat, n <= m,
         \A i \in 1..n : queue[i] = longer[i],
         NEW f, IsRun(Q, queue, f, n), NEW g, IsRun(Q, longer, g, m)
  PROVE  f[1..n] = g[1..n]
<1> DEFINE T == {k \in Nat : k <= n => \A S \in SUBSET (1..k) : f[S] = g[S]}
<1>0. /\ \A S \in SUBSET (1..n) :
           f[S] = IF S = {} THEN Q ELSE Effect(f[S \ {Latest(S)}], queue[Latest(S)])
      /\ \A S \in SUBSET (1..m) :
           g[S] = IF S = {} THEN Q ELSE Effect(g[S \ {Latest(S)}], longer[Latest(S)])
  BY Zenon DEF IsRun
<1>1. 0 \in T
  <2>1. \A S \in SUBSET (1..0) : S = {}
    OBVIOUS
  <2>2. f[{}] = Q /\ g[{}] = Q
    BY <1>0
  <2> QED
    BY <2>1, <2>2
<1>2. ASSUME NEW k \in T PROVE k + 1 \in T
  <2>0. k \in Nat /\ k + 1 \in Nat /\ (k <= n => \A S \in SUBSET (1..k) : f[S] = g[S])
    OBVIOUS
  <2> HIDE DEF T
  <2> SUFFICES ASSUME k + 1 <= n, NEW S \in SUBSET (1..(k + 1)) PROVE f[S] = g[S]
    BY <2>0, Zenon DEF T
  <2>1. CASE k + 1 \in S
    <3>1. Latest(S) = k + 1
      BY <2>0, <2>1, LatestIsLast
    <3>2. S \ {k + 1} \in SUBSET (1..k) /\ S # {}
      BY <2>0, <2>1
    <3>3. f[S \ {k + 1}] = g[S \ {k + 1}]
      BY <2>0, <3>2
    <3>4. S \in SUBSET (1..n) /\ S \in SUBSET (1..m) /\ queue[k + 1] = longer[k + 1]
      BY <2>0
    <3>5. /\ f[S] = Effect(f[S \ {k + 1}], queue[k + 1])
          /\ g[S] = Effect(g[S \ {k + 1}], longer[k + 1])
      BY <1>0, <3>1, <3>2, <3>4, Zenon
    <3> QED
      BY <3>3, <3>4, <3>5, Zenon
  <2>2. CASE k + 1 \notin S
    <3>1. S \in SUBSET (1..k) /\ k <= n
      BY <2>0, <2>2
    <3> QED
      BY <2>0, <3>1
  <2> QED
    BY <2>1, <2>2
<1> HIDE DEF T
<1>3. T = Nat
  <2>1. T \subseteq Nat
    BY DEF T
  <2> QED
    BY <1>1, <1>2, <2>1, Induction
<1>4. n \in T
  BY <1>3
<1> QED
  BY <1>4 DEF T

(* What After is: nothing happens, or the last update takes effect last.   *)
LEMMA AfterNone == ASSUME NEW Q PROVE After(Q, <<>>) = Q
<1> DEFINE f == CHOOSE f : IsRun(Q, <<>>, f, 0)
<1>1. After(Q, <<>>) = f[1..0]
  <2>1. <<>> \in Seq({}) /\ Len(<<>>) = 0
    OBVIOUS
  <2> QED
    BY <2>1, AfterIsARun, Zenon
<1>2. IsRun(Q, <<>>, f, 0)
  BY RunsExist
<1>3. 1..0 = {} /\ 1..0 \in SUBSET (1..0)
  OBVIOUS
<1> HIDE DEF f
<1>4. f[1..0] = Q
  BY <1>2, <1>3, Zenon DEF IsRun
<1> QED
  BY <1>1, <1>4

(* One edit more takes effect last. *)
LEMMA AfterAppend ==
  ASSUME NEW Q, NEW U, NEW queue \in Seq(U), NEW e \in U
  PROVE  After(Q, Append(queue, e)) = Effect(After(Q, queue), e)
<1> DEFINE n == Len(queue)
           longer == Append(queue, e)
           f == CHOOSE f : IsRun(Q, queue, f, n)
           g == CHOOSE g : IsRun(Q, longer, g, n + 1)
<1>1. n \in Nat /\ longer \in Seq(U) /\ Len(longer) = n + 1 /\ longer[n + 1] = e
      /\ \A i \in 1..n : queue[i] = longer[i]
  OBVIOUS
<1>2. IsRun(Q, queue, f, n) /\ IsRun(Q, longer, g, n + 1)
  <2>1. n + 1 \in Nat
    BY <1>1
  <2>2. \E h : IsRun(Q, queue, h, n)
    BY <1>1, RunsExist, Zenon
  <2>3. \E h : IsRun(Q, longer, h, n + 1)
    BY <2>1, RunsExist, Zenon
  <2> QED
    BY <2>2, <2>3, Zenon
<1>3. After(Q, queue) = f[1..n] /\ After(Q, longer) = g[1..(n + 1)]
  <2>1. After(Q, queue) = f[1..n]
    BY AfterIsARun, Zenon
  <2>2. After(Q, longer) = g[1..Len(longer)]
    <3>1. Len(longer) = n + 1 /\ longer \in Seq(U)
      BY <1>1
    <3> HIDE DEF longer
    <3> QED
      BY <3>1, AfterIsARun, Zenon
  <2>3. Len(longer) = n + 1
    BY <1>1
  <2> HIDE DEF n, longer, f, g
  <2> QED
    BY <2>1, <2>2, <2>3, Zenon
<1> HIDE DEF n, longer, f, g
<1>4. f[1..n] = g[1..n]
  BY <1>1, <1>2, RunsAgree
<1>5. Latest(1..(n + 1)) = n + 1
  BY <1>1, LatestIsLast
<1>6. 1..(n + 1) \in SUBSET (1..(n + 1)) /\ 1..(n + 1) # {} /\ (1..(n + 1)) \ {n + 1} = 1..n
  <2>1. n + 1 \in 1..(n + 1) /\ \A i : (i \in 1..(n + 1) /\ i # n + 1) <=> i \in 1..n
    BY <1>1
  <2> QED
    BY <2>1
<1>7. g[1..(n + 1)] = Effect(g[(1..(n + 1)) \ {Latest(1..(n + 1))}], longer[Latest(1..(n + 1))])
  BY <1>2, <1>6, Zenon DEF IsRun
<1> QED
  BY <1>1, <1>3, <1>4, <1>5, <1>6, <1>7 DEF longer

Edit == [kind : {"insert", "delete", "malformed"}, where : SUBSET Quad, quads : SUBSET Quad]

(* Edits give quads. *)
LEMMA EffectTyped ==
  ASSUME NEW Q \in SUBSET Quad, NEW e \in Edit
  PROVE  Effect(Q, e) \in SUBSET Quad
BY DEF Effect, Edit

LEMMA AfterTyped ==
  ASSUME NEW Q \in SUBSET Quad, NEW queue \in Seq(Edit)
  PROVE  After(Q, queue) \in SUBSET Quad
<1> DEFINE S == {list \in Seq(Edit) : After(Q, list) \in SUBSET Quad}
<1>1. <<>> \in S
  BY AfterNone
<1>2. ASSUME NEW list \in Seq(Edit), NEW e \in Edit, list \in S
      PROVE  Append(list, e) \in S
  <2>1. After(Q, Append(list, e)) = Effect(After(Q, list), e)
    BY AfterAppend
  <2> QED
    BY <1>2, <2>1, EffectTyped
<1> HIDE DEF S
<1>3. Seq(Edit) \subseteq S
  BY <1>1, <1>2, ListInduction
<1> QED
  BY <1>3 DEF S

(* Updates that require nothing come down to the quads that are gone after *)
(* them and the quads that are there, whatever was there before.           *)
Plain(queue) == \A i \in DOMAIN queue : queue[i].where = {}

NetChange(queue) ==
  \E gone, come \in SUBSET Quad : \A Q : After(Q, queue) = (Q \ gone) \cup come

(* Edits without a WHERE clause take some quads out and put some in. *)
LEMMA PlainHasNetChange ==
  ASSUME NEW queue \in Seq(Edit), Plain(queue)
  PROVE  NetChange(queue)
<1> DEFINE S == {list \in Seq(Edit) : Plain(list) => NetChange(list)}
<1>1. <<>> \in S
  <2>1. \A Q : After(Q, <<>>) = (Q \ {}) \cup {}
    BY AfterNone
  <2>2. {} \in SUBSET Quad /\ <<>> \in Seq(Edit)
    OBVIOUS
  <2>3. NetChange(<<>>)
    BY <2>1, <2>2, Zenon DEF NetChange
  <2> QED
    BY <2>2, <2>3
<1>2. ASSUME NEW list \in Seq(Edit), NEW e \in Edit, list \in S
      PROVE  Append(list, e) \in S
  <2> SUFFICES ASSUME Plain(Append(list, e)) PROVE NetChange(Append(list, e))
    OBVIOUS
  <2>1. Plain(list) /\ e.where = {}
    <3>1. /\ \A i \in DOMAIN list : i \in DOMAIN Append(list, e) /\ Append(list, e)[i] = list[i]
          /\ Len(list) + 1 \in DOMAIN Append(list, e) /\ Append(list, e)[Len(list) + 1] = e
      OBVIOUS
    <3> QED
      BY <3>1 DEF Plain
  <2>2. PICK gone \in SUBSET Quad, come \in SUBSET Quad :
          \A Q : After(Q, list) = (Q \ gone) \cup come
    BY <1>2, <2>1 DEF NetChange
  <2>3. \A Q : After(Q, Append(list, e)) = Effect((Q \ gone) \cup come, e)
    <3>1. \A Q : After(Q, Append(list, e)) = Effect(After(Q, list), e)
      BY AfterAppend, Zenon
    <3> QED
      BY <2>2, <3>1, Zenon
  <2>4. e.quads \in SUBSET Quad
    BY DEF Edit
  <2>5. CASE e.kind = "insert"
    <3>1. \A Q : After(Q, Append(list, e)) = (Q \ gone) \cup (come \cup e.quads)
      BY <2>1, <2>3, <2>5 DEF Effect
    <3> QED
      BY <2>4, <3>1 DEF NetChange
  <2>6. CASE e.kind = "delete"
    <3>1. \A Q : After(Q, Append(list, e)) = (Q \ (gone \cup e.quads)) \cup (come \ e.quads)
      BY <2>1, <2>3, <2>6 DEF Effect
    <3> QED
      BY <2>4, <3>1 DEF NetChange
  <2>7. CASE e.kind = "malformed"
    BY <2>1, <2>2, <2>3, <2>7 DEF Effect, NetChange
  <2> QED
    BY <2>5, <2>6, <2>7 DEF Edit
<1> HIDE DEF S
<1>3. Seq(Edit) \subseteq S
  BY <1>1, <1>2, ListInduction
<1> QED
  BY <1>3 DEF S

(* What makes it harmless to send them again when an answer is lost.       *)
LEMMA PlainTwiceIsOnce ==
  ASSUME NEW Q, NEW queue \in Seq(Edit), Plain(queue)
  PROVE  After(After(Q, queue), queue) = After(Q, queue)
<1>1. PICK gone \in SUBSET Quad, come \in SUBSET Quad :
        \A R : After(R, queue) = (R \ gone) \cup come
  BY PlainHasNetChange DEF NetChange
<1>2. After(Q, queue) = (Q \ gone) \cup come
      /\ After(After(Q, queue), queue) = (After(Q, queue) \ gone) \cup come
  BY <1>1
<1> QED
  BY <1>2

-----------------------------------------------------------------------------
(* The inductive invariant.  Beside what the properties say of the list    *)
(* and of the reads that are over: a generator that has not sent its query *)
(* would, now, get an answer it may give.                                  *)
Walk ==
  [phase : {"idle", "called", "done"}, graph : Contexts, sure : BOOLEAN,
   held : SUBSET (SUBSET Quad), result : SUBSET Quad]

Types ==
  /\ config \in [autocommit : BOOLEAN, dirtyReads : BOOLEAN]
  /\ edits \in Seq(Edit) /\ Len(edits) <= MaxEdits
  /\ endpoint \in SUBSET Quad /\ asked \in SUBSET Quad
  /\ failed \in BOOLEAN /\ repeated \in BOOLEAN
  /\ reader \in [Readers -> Walk]

WalkOK(r) ==
  /\ \A q \in reader[r].result : q[2] = reader[r].graph
  /\ reader[r].phase = "called" /\ reader[r].sure =>
       InGraph(endpoint, reader[r].graph) \in reader[r].held
  /\ reader[r].phase = "done" /\ reader[r].sure => reader[r].result \in reader[r].held

IInv == Types /\ QueueCompletes /\ \A r \in Readers : WalkOK(r)

(* The properties follow from the invariant. *)
LEMMA Implied == IInv => TypeOK /\ QueueCompletes /\ ReadsOwnWrites
BY DEF IInv, Types, WalkOK, TypeOK, ReadsOwnWrites

(* It holds at the start. *)
LEMMA InitOK == Init => IInv
<1> SUFFICES ASSUME Init PROVE IInv
  OBVIOUS
<1>1. NoRead \in Walk
  BY DEF NoRead, Walk, Contexts
<1>2. Types
  <2>1. edits \in Seq(Edit) /\ Len(edits) <= MaxEdits
    BY MaxEditsIsPositive DEF Init
  <2>2. reader \in [Readers -> Walk]
    BY <1>1 DEF Init
  <2>3. /\ config \in [autocommit : BOOLEAN, dirtyReads : BOOLEAN]
        /\ endpoint \in SUBSET Quad /\ asked \in SUBSET Quad
        /\ failed \in BOOLEAN /\ repeated \in BOOLEAN
    BY DEF Init
  <2> QED
    BY <2>1, <2>2, <2>3 DEF Types
<1>3. QueueCompletes
  BY AfterNone DEF Init, QueueCompletes
<1>4. \A r \in Readers : WalkOK(r)
  BY DEF Init, NoRead, WalkOK
<1> QED
  BY <1>2, <1>3, <1>4 DEF IInv

(* What every step does to the list and the endpoint: what is asked is     *)
(* what the endpoint has whenever the endpoint changes.                    *)
ListStep ==
  /\ edits' \in Seq(Edit) /\ Len(edits') <= MaxEdits
  /\ endpoint' \in SUBSET Quad /\ asked' \in SUBSET Quad
  /\ failed' \in BOOLEAN /\ repeated' \in BOOLEAN
  /\ QueueCompletes'
  /\ ~repeated' /\ endpoint' # endpoint => asked' = endpoint'
  /\ UNCHANGED config

(* Neither the list nor the endpoint changes. *)
LEMMA SameList ==
  ASSUME IInv, UNCHANGED <<config, edits, endpoint, asked, failed, repeated>>
  PROVE  ListStep
BY DEF IInv, Types, ListStep, QueueCompletes

(* The steps, one by one: requests first, then the calls that make them. *)
LEMMA DoneStep ==
  ASSUME IInv, NEW queue \in Seq(Edit), NEW want \in SUBSET Quad,
         ~repeated => After(endpoint, queue) = want,
         Done(queue, want), UNCHANGED config
  PROVE  ListStep /\ asked' = endpoint' /\ ~repeated'
<1>1. endpoint' = After(endpoint, queue) /\ edits' = <<>> /\ ~failed' /\ ~repeated'
      /\ asked' = IF repeated THEN endpoint' ELSE want
  BY DEF Done
<1>2. endpoint' \in SUBSET Quad
  BY <1>1, AfterTyped DEF IInv, Types
<1>3. asked' = endpoint'
  BY <1>1
<1>4. After(endpoint', edits') = asked'
  BY <1>1, <1>3, AfterNone
<1>5. edits' \in Seq(Edit) /\ Len(edits') <= MaxEdits
  BY <1>1, MaxEditsIsPositive
<1>6. QueueCompletes'
  BY <1>1, <1>4 DEF QueueCompletes
<1>7. failed' \in BOOLEAN /\ repeated' \in BOOLEAN
  BY DEF Done
<1> QED
  BY <1>1, <1>2, <1>3, <1>5, <1>6, <1>7 DEF ListStep

LEMMA FailsStep ==
  ASSUME IInv, NEW queue \in Seq(Edit), Len(queue) <= MaxEdits, NEW want \in SUBSET Quad,
         ~repeated => After(endpoint, queue) = want,
         Fails(queue, want), UNCHANGED config
  PROVE  ListStep
<1>1. edits' = queue /\ asked' = want /\ failed'
  BY DEF Fails
<1>2. CASE UNCHANGED <<endpoint, repeated>>
  <2>1. QueueCompletes'
    BY <1>1, <1>2 DEF QueueCompletes
  <2> QED
    BY <1>1, <1>2, <2>1 DEF ListStep, IInv, Types, Fails
<1>3. CASE /\ endpoint' = After(endpoint, queue)
           /\ repeated' = (repeated \/ \E i \in DOMAIN queue : queue[i].where # {})
  <2>1. endpoint' \in SUBSET Quad
    BY <1>3, AfterTyped DEF IInv, Types
  <2>2. ASSUME ~repeated' PROVE After(endpoint', queue) = want /\ endpoint' = want
    <3>1. ~repeated /\ Plain(queue)
      BY <1>3, <2>2 DEF Plain
    <3>2. After(After(endpoint, queue), queue) = After(endpoint, queue)
      BY <3>1, PlainTwiceIsOnce
    <3> QED
      BY <1>3, <3>1, <3>2
  <2>3. QueueCompletes'
    BY <1>1, <2>2 DEF QueueCompletes
  <2>4. repeated' \in BOOLEAN /\ failed' \in BOOLEAN
    BY <1>3 DEF Fails
  <2> QED
    BY <1>1, <2>1, <2>2, <2>3, <2>4 DEF ListStep
<1> QED
  BY <1>2, <1>3 DEF Fails

LEMMA SendStep ==
  ASSUME IInv, NEW queue \in Seq(Edit), Len(queue) <= MaxEdits, NEW want \in SUBSET Quad,
         ~repeated => After(endpoint, queue) = want,
         Send(queue, want), UNCHANGED config
  PROVE  ListStep
BY DoneStep, FailsStep DEF Send

LEMMA WriteStep ==
  ASSUME IInv, NEW e \in Edit, Write(e)
  PROVE  ListStep /\ reader' = Noted
<1> DEFINE queue == Append(edits, e)
           want == Effect(asked, e)
<1>1. edits \in Seq(Edit) /\ endpoint \in SUBSET Quad /\ asked \in SUBSET Quad
      /\ Len(edits) < MaxEdits /\ UNCHANGED config /\ reader' = Noted
  BY DEF IInv, Types, Write
<1>2. queue \in Seq(Edit) /\ Len(queue) <= MaxEdits
  BY <1>1, MaxEditsIsPositive
<1>3. want \in SUBSET Quad
  BY <1>1, EffectTyped
<1>4. After(endpoint, queue) = Effect(After(endpoint, edits), e)
  BY <1>1, AfterAppend
<1>5. ~repeated => After(endpoint, queue) = want
  BY <1>4 DEF IInv, QueueCompletes
<1>6. \/ config.autocommit /\ Send(queue, want)
      \/ ~config.autocommit /\ edits' = queue /\ asked' = want
         /\ UNCHANGED <<endpoint, failed, repeated>>
  BY DEF Write
<1> HIDE DEF queue, want
<1>7. CASE Send(queue, want)
  BY <1>1, <1>2, <1>3, <1>5, <1>7, SendStep
<1>8. CASE ~config.autocommit /\ edits' = queue /\ asked' = want
           /\ UNCHANGED <<endpoint, failed, repeated>>
  <2>1. QueueCompletes'
    BY <1>1, <1>5, <1>8 DEF QueueCompletes
  <2> QED
    BY <1>1, <1>2, <1>3, <1>8, <2>1 DEF ListStep, IInv, Types
<1> QED
  BY <1>1, <1>6, <1>7, <1>8

(* A generator that takes note of such a step stays right.                 *)
LEMMA NotedStep ==
  ASSUME IInv, ListStep
  PROVE  /\ Noted \in [Readers -> Walk]
         /\ \A r \in Readers : reader'[r] = Noted[r] => WalkOK(r)'
<1>1. ASSUME NEW r \in Readers PROVE Noted[r] \in Walk
  <2>1. reader[r] \in Walk
    BY DEF IInv, Types
  <2>2. InGraph(asked', reader[r].graph) \in SUBSET Quad
    BY DEF ListStep, InGraph
  <2>3. reader[r].sure \in BOOLEAN /\ reader[r].held \in SUBSET (SUBSET Quad)
    BY <2>1 DEF Walk
  <2>4. (reader[r].sure /\ ~repeated') \in BOOLEAN
        /\ reader[r].held \cup {InGraph(asked', reader[r].graph)} \in SUBSET (SUBSET Quad)
    BY <2>2, <2>3
  <2> QED
    BY <2>1, <2>4 DEF Noted, Walk
<1>2. ASSUME NEW r \in Readers, reader'[r] = Noted[r] PROVE WalkOK(r)'
  <2>1. reader[r] \in Walk /\ WalkOK(r)
    BY DEF IInv, Types
  <2>2. CASE reader[r].phase = "called"
    <3> DEFINE w == reader[r]
               n == [w EXCEPT !.held = @ \cup {InGraph(asked', w.graph)},
                              !.sure = @ /\ ~repeated']
    <3>1. reader'[r] = n
      BY <1>2, <2>2 DEF Noted
    <3>2. /\ n.phase = "called" /\ n.graph = w.graph /\ n.result = w.result
          /\ n.held = w.held \cup {InGraph(asked', w.graph)}
          /\ n.sure = (w.sure /\ ~repeated')
      BY <2>1, <2>2 DEF Walk
    <3>3. ASSUME n.sure PROVE InGraph(endpoint', n.graph) \in n.held
      BY <2>1, <2>2, <3>2, <3>3 DEF WalkOK, ListStep
    <3> QED
      BY <2>1, <3>1, <3>2, <3>3 DEF WalkOK
  <2>3. CASE reader[r].phase # "called"
    <3>1. reader'[r] = reader[r]
      BY <1>2, <2>3 DEF Noted
    <3> QED
      BY <2>1, <2>3, <3>1 DEF WalkOK
  <2> QED
    BY <2>2, <2>3
<1> QED
  BY <1>1, <1>2 DEF Noted

LEMMA NotedKeeps ==
  ASSUME IInv, ListStep, reader' = Noted
  PROVE  IInv'
<1>1. reader' \in [Readers -> Walk] /\ \A r \in Readers : WalkOK(r)'
  BY NotedStep
<1> QED
  BY <1>1 DEF IInv, Types, ListStep

(* A read that begins: what it is to see is what the endpoint has.         *)
LEMMA CalledOK ==
  ASSUME IInv, NEW c \in Contexts, Prepared, UNCHANGED config
  PROVE  /\ ListStep
         /\ Called(c) \in Walk
         /\ Called(c).sure => InGraph(endpoint', Called(c).graph) \in Called(c).held
<1>1. ListStep /\ (Called(c).sure => asked' = endpoint')
  <2>1. Called(c).sure => /\ ~config.dirtyReads /\ (config.autocommit => edits = <<>>)
                          /\ ~repeated'
    BY DEF Called
  <2>2. CASE config.autocommit \/ config.dirtyReads \/ edits = <<>>
    <3>1. UNCHANGED <<config, edits, endpoint, asked, failed, repeated>>
      BY <2>2 DEF Prepared
    <3>2. ListStep
      BY <3>1, SameList
    <3>3. Called(c).sure => edits = <<>> /\ ~repeated
      BY <2>1, <2>2, <3>1
    <3>4. edits = <<>> /\ ~repeated => asked = endpoint
      BY AfterNone DEF IInv, QueueCompletes
    <3> QED
      BY <3>1, <3>2, <3>3, <3>4
  <2>3. CASE ~(config.autocommit \/ config.dirtyReads \/ edits = <<>>)
    <3>1. Done(edits, asked)
      BY <2>3 DEF Prepared
    <3> QED
      BY <3>1, DoneStep DEF IInv, Types, QueueCompletes
  <2> QED
    BY <2>2, <2>3
<1>2. Target(c) \in Contexts
  BY DEF Target, Contexts
<1>3. InGraph(asked', Target(c)) \in SUBSET Quad
  BY <1>1 DEF ListStep, InGraph
<1>4. Called(c) \in Walk
  <2>1. (~config.dirtyReads /\ (config.autocommit => edits = <<>>) /\ ~repeated') \in BOOLEAN
    OBVIOUS
  <2> QED
    BY <1>2, <1>3, <2>1 DEF Called, Walk
<1>5. Called(c).graph = Target(c) /\ Called(c).held = {InGraph(asked', Target(c))}
  BY DEF Called
<1> QED
  BY <1>1, <1>4, <1>5

LEMMA CallStep ==
  ASSUME IInv, NEW r \in Readers, NEW c \in Contexts, Call(r, c)
  PROVE  IInv'
<1>1. Prepared /\ UNCHANGED config /\ reader' = [Noted EXCEPT ![r] = Called(c)]
  BY DEF Call
<1>2. ListStep /\ Called(c) \in Walk
      /\ (Called(c).sure => InGraph(endpoint', Called(c).graph) \in Called(c).held)
  BY <1>1, CalledOK
<1>3. Noted \in [Readers -> Walk] /\ \A v \in Readers : reader'[v] = Noted[v] => WalkOK(v)'
  BY <1>2, NotedStep
<1>4. reader' \in [Readers -> Walk] /\ reader'[r] = Called(c)
      /\ \A v \in Readers : v # r => reader'[v] = Noted[v]
  BY <1>1, <1>2, <1>3
<1>5. Called(c).phase = "called" /\ Called(c).result = {}
  BY DEF Called
<1>6. WalkOK(r)'
  BY <1>2, <1>4, <1>5 DEF WalkOK
<1>7. \A v \in Readers : WalkOK(v)'
  BY <1>3, <1>4, <1>6
<1> QED
  BY <1>2, <1>4, <1>7 DEF IInv, Types, ListStep

LEMMA AnsweredOK ==
  ASSUME NEW w \in Walk, NEW Q \in SUBSET Quad
  PROVE  /\ Answered(w, Q) \in Walk
         /\ Answered(w, Q).phase = "done" /\ Answered(w, Q).graph = w.graph
         /\ Answered(w, Q).sure = w.sure /\ Answered(w, Q).held = w.held
         /\ Answered(w, Q).result = InGraph(Q, w.graph)
BY DEF Answered, Walk, InGraph

LEMMA QueryStep ==
  ASSUME IInv, NEW r \in Readers, NEW c \in Contexts, Query(r, c)
  PROVE  IInv'
<1> DEFINE a == Answered(Called(c), endpoint')
<1>1. Prepared /\ UNCHANGED config /\ reader' = [Noted EXCEPT ![r] = a]
  BY DEF Query
<1>2. ListStep /\ Called(c) \in Walk
      /\ (Called(c).sure => InGraph(endpoint', Called(c).graph) \in Called(c).held)
  BY <1>1, CalledOK
<1>3. Noted \in [Readers -> Walk] /\ \A v \in Readers : reader'[v] = Noted[v] => WalkOK(v)'
  BY <1>2, NotedStep
<1>4. endpoint' \in SUBSET Quad
  BY <1>2 DEF ListStep
<1>5. /\ a \in Walk /\ a.phase = "done" /\ a.graph = Called(c).graph
      /\ a.sure = Called(c).sure /\ a.held = Called(c).held
      /\ a.result = InGraph(endpoint', Called(c).graph)
  BY <1>2, <1>4, AnsweredOK
<1> HIDE DEF a
<1>6. reader' \in [Readers -> Walk] /\ reader'[r] = a
      /\ \A v \in Readers : v # r => reader'[v] = Noted[v]
  BY <1>1, <1>3, <1>5
<1>7. WalkOK(r)'
  BY <1>2, <1>5, <1>6 DEF WalkOK, InGraph
<1>8. \A v \in Readers : WalkOK(v)'
  BY <1>3, <1>6, <1>7
<1> QED
  BY <1>2, <1>6, <1>8 DEF IInv, Types, ListStep

LEMMA FetchStep ==
  ASSUME IInv, NEW r \in Readers, Fetch(r)
  PROVE  IInv'
<1> DEFINE a == Answered(reader[r], endpoint)
<1>1. /\ reader[r].phase = "called" /\ reader' = [reader EXCEPT ![r] = a]
      /\ UNCHANGED <<config, edits, endpoint, asked, failed, repeated>>
  BY DEF Fetch
<1>2. reader \in [Readers -> Walk] /\ endpoint \in SUBSET Quad /\ reader[r] \in Walk
  BY DEF IInv, Types
<1>3. /\ a \in Walk /\ a.phase = "done" /\ a.graph = reader[r].graph
      /\ a.sure = reader[r].sure /\ a.held = reader[r].held
      /\ a.result = InGraph(endpoint, reader[r].graph)
  BY <1>2, AnsweredOK
<1> HIDE DEF a
<1>4. reader' \in [Readers -> Walk] /\ reader'[r] = a
      /\ \A v \in Readers : v # r => reader'[v] = reader[v]
  BY <1>1, <1>2, <1>3
<1>5. WalkOK(r)'
  BY <1>1, <1>3, <1>4 DEF IInv, WalkOK, InGraph
<1>6. \A v \in Readers : v # r => WalkOK(v)'
  BY <1>1, <1>4 DEF IInv, WalkOK
<1>7. ListStep
  BY <1>1, SameList
<1> QED
  BY <1>1, <1>4, <1>5, <1>6, <1>7 DEF IInv, Types, ListStep

LEMMA CommitStep ==
  ASSUME IInv, Commit
  PROVE  IInv'
<1>1. Send(edits, asked) /\ UNCHANGED config /\ reader' = Noted
  BY DEF Commit
<1>2. ListStep
  BY <1>1, SendStep DEF IInv, Types, QueueCompletes
<1> QED
  BY <1>1, <1>2, NotedKeeps

LEMMA RollbackStep ==
  ASSUME IInv, Rollback
  PROVE  IInv'
<1>1. /\ edits' = <<>> /\ asked' = endpoint /\ ~failed' /\ ~repeated'
      /\ failed' = FALSE /\ repeated' = FALSE
      /\ UNCHANGED <<config, endpoint>> /\ reader' = Noted
  BY DEF Rollback
<1>2. After(endpoint', edits') = asked'
  BY <1>1, AfterNone
<1>3. edits' \in Seq(Edit) /\ Len(edits') <= MaxEdits
  BY <1>1, MaxEditsIsPositive
<1>4. endpoint' \in SUBSET Quad /\ asked' \in SUBSET Quad
      /\ failed' \in BOOLEAN /\ repeated' \in BOOLEAN
  BY <1>1 DEF IInv, Types
<1>5. QueueCompletes'
  BY <1>1, <1>2 DEF QueueCompletes
<1>6. ListStep
  BY <1>1, <1>3, <1>4, <1>5 DEF ListStep
<1> QED
  BY <1>1, <1>6, NotedKeeps

(* Every update that add, addN, remove and the rest make is an Edit.       *)
LEMMA EditsMade ==
  /\ \A t \in Triple, c \in Contexts : Insert({<<t, Target(c)>>}) \in Edit
  /\ \A pat \in Pattern, c \in Contexts :
       Delete({q \in Quad : q[2] = Target(c) /\ Matches(q[1], pat)}) \in Edit
  /\ \A Q \in SUBSET (Triple \X Contexts) :
       Insert({<<q[1], IF q[2] = Default THEN DefaultName ELSE q[2]>> : q \in Q}) \in Edit
  /\ Insert({}) \in Edit /\ Malformed \in Edit
  /\ \A c \in Contexts : Delete(Triple \X {c}) \in Edit
  /\ Rules \subseteq Edit
<1>1. \A Q \in SUBSET Quad : Insert(Q) \in Edit /\ Delete(Q) \in Edit
  BY DEF Insert, Delete, Edit
<1>2. \A t \in Triple, c \in Contexts : {<<t, Target(c)>>} \in SUBSET Quad
  BY DEF Target, Contexts, Quad
<1>3. \A pat \in Pattern, c \in Contexts :
        {q \in Quad : q[2] = Target(c) /\ Matches(q[1], pat)} \in SUBSET Quad
  OBVIOUS
<1>4. ASSUME NEW Q \in SUBSET (Triple \X Contexts)
      PROVE  {<<q[1], IF q[2] = Default THEN DefaultName ELSE q[2]>> : q \in Q} \in SUBSET Quad
  BY <1>4 DEF Quad
<1>5. \A c \in Contexts : Triple \X {c} \in SUBSET Quad
  BY DEF Quad
<1>6. Malformed \in Edit
  BY DEF Malformed, Edit
<1>7. Rules \subseteq Edit
  BY RulesInsertOrDelete DEF Edit
<1>8. {} \in SUBSET Quad
  OBVIOUS
<1> QED
  BY <1>1, <1>2, <1>3, <1>4, <1>5, <1>6, <1>7, <1>8

(* All of them. *)
LEMMA NextKeeps ==
  ASSUME IInv, [Next]_vars
  PROVE  IInv'
<1>0. ASSUME NEW e \in Edit, Write(e) PROVE IInv'
  <2>1. ListStep /\ reader' = Noted
    BY <1>0, WriteStep
  <2> QED
    BY <2>1, NotedKeeps
<1>1. ASSUME NEW c \in Contexts, NEW t \in Triple, Add(t, c) PROVE IInv'
  BY <1>0, <1>1, EditsMade DEF Add
<1>2. ASSUME NEW c \in Contexts, NEW pat \in Pattern, Remove(pat, c) PROVE IInv'
  BY <1>0, <1>2, EditsMade DEF Remove
<1>3. ASSUME NEW c \in Contexts, AddGraph(c) \/ RemoveGraph(c) PROVE IInv'
  BY <1>0, <1>3, EditsMade DEF AddGraph, RemoveGraph
<1>4. ASSUME NEW Q \in SUBSET (Triple \X Contexts), AddN(Q) PROVE IInv'
  BY <1>0, <1>4, EditsMade DEF AddN
<1>5. ASSUME Update PROVE IInv'
  BY <1>0, <1>5, EditsMade DEF Update
<1>6. ASSUME NEW c \in Contexts, NEW r \in Readers, Call(r, c) \/ Query(r, c) PROVE IInv'
  BY <1>6, CallStep, QueryStep
<1>7. ASSUME NEW r \in Readers, Fetch(r) PROVE IInv'
  BY <1>7, FetchStep
<1>8. ASSUME UNCHANGED vars PROVE IInv'
  BY <1>8 DEF vars, IInv, Types, QueueCompletes, WalkOK
<1> QED
  BY <1>1, <1>2, <1>3, <1>4, <1>5, <1>6, <1>7, <1>8, CommitStep, RollbackStep DEF Next

(* Every execution keeps the invariant, from which the rest follows. *)
THEOREM Inductive == Spec => []IInv
<1>1. Init => IInv
  BY InitOK
<1>2. IInv /\ [Next]_vars => IInv'
  BY NextKeeps
<1> QED
  BY <1>1, <1>2, PTL DEF Spec

(* The list holds edits, and a read yields triples of its own graph only.  *)
THEOREM ClientTyped == Spec => []TypeOK
BY Inductive, Implied, PTL

(* The edits that wait, once carried out, give what the caller asked for,  *)
(* whatever requests failed or went unheard, unless one with a WHERE       *)
(* clause may have been carried out twice.                                 *)
THEOREM QueueAlwaysCompletes == Spec => []QueueCompletes
BY Inductive, Implied, PTL

(* A read returns what the store held at one moment between the call and   *)
(* the answer, with what its caller wrote before.                          *)
THEOREM ReadsAlwaysSeeOwnWrites == Spec => []ReadsOwnWrites
BY Inductive, Implied, PTL
=============================================================================
