-------------------------- MODULE ConcurrentStore --------------------------
(***************************************************************************)
(* rdflib.plugins.stores.concurrent.ConcurrentStore: a wrapper that lets a *)
(* store be changed while generators walk it.  While any reader is at work *)
(* the changes wait in two lists; the last reader to leave applies them.   *)
(*                                                                         *)
(* A reader is a generator: it walks the wrapped store and then the list   *)
(* of waiting additions.  The object that counts it as a reader dies when  *)
(* the first of the two walks is over, or when the caller drops the        *)
(* generator during it.  Everything runs in one thread: writes come        *)
(* between the steps of generators.                                        *)
(***************************************************************************)
EXTENDS FiniteSets, Integers, Sequences

CONSTANTS
  Triple, Pattern, Any,
  Readers,      \* generators
  MaxPending    \* bound: changes that wait at the same time

ASSUME MaxPendingIsPositive == MaxPending \in Nat \ {0}
ASSUME ReadersAreFinite == IsFiniteSet(Readers)
ASSUME SomePattern == Pattern # {}

VARIABLES
  store,            \* the triples of the wrapped store
  visitCount,       \* __visit_count
  pendingRemoves,   \* __pending_removes
  pendingAdds,      \* __pending_adds
  reader,           \* reader[r]: where generator r stands
  (* history, to state properties with *)
  wanted,           \* what add() and remove() ask for, in the order of calls
  outlived,         \* triples removed while they waited to be added
  history           \* history[r]: what r yielded and what was wanted meanwhile

queueVars == <<visitCount, pendingRemoves, pendingAdds>>
asked == <<wanted, outlived>>
vars == <<store, queueVars, reader, asked, history>>

Matches(t, pat) == \A i \in 1..3 : pat[i] = Any \/ pat[i] = t[i]
Matching(T, pat) == {t \in T : Matches(t, pat)}
Elements(s) == {s[i] : i \in 1..Len(s)}

NoRead == [phase |-> "idle", pat |-> CHOOSE pat \in Pattern : TRUE, left |-> {}, next |-> 1]
NoHistory == [yielded |-> {}, seen |-> {}, stored |-> {}]

Init ==
  /\ store \in SUBSET Triple
  /\ visitCount = 0 /\ pendingRemoves = <<>> /\ pendingAdds = <<>>
  /\ reader = [r \in Readers |-> NoRead]
  /\ wanted = store /\ outlived = {}
  /\ history = [r \in Readers |-> NoHistory]

Running(r) == reader[r].phase \in {"scan", "tail"}

-----------------------------------------------------------------------------
(* What is to be in the store, and what may be, once a call of add() or    *)
(* remove() was made; removed are the triples it names for removal.        *)
Want(W, O, removed) ==
  /\ wanted' = W /\ outlived' = O
  /\ history' = [r \in Readers |->
       IF Running(r)
       THEN [history[r] EXCEPT !.seen = @ \cup W \cup O, !.stored = @ \ removed]
       ELSE history[r]]

(* The change itself, made at once or put off. *)
AddNow(t) == store' = store \cup {t} /\ UNCHANGED queueVars

AddLater(t) ==
  /\ Len(pendingAdds) < MaxPending
  /\ pendingAdds' = Append(pendingAdds, t)
  /\ UNCHANGED <<store, visitCount, pendingRemoves>>

RemoveNow(t) == store' = store \ {t} /\ UNCHANGED queueVars

RemoveLater(t) ==
  /\ Len(pendingRemoves) < MaxPending
  /\ pendingRemoves' = Append(pendingRemoves, t)
  /\ UNCHANGED <<store, visitCount, pendingAdds>>

Add(t) ==
  /\ \/ visitCount = 0 /\ AddNow(t)
     \/ visitCount # 0 /\ AddLater(t)
  /\ Want(wanted \cup {t}, outlived \ {t}, {})
  /\ UNCHANGED reader

Remove(t) ==
  /\ \/ visitCount = 0 /\ RemoveNow(t)
     \/ visitCount # 0 /\ RemoveLater(t)
  /\ Want(wanted \ {t},
          IF t \in Elements(pendingAdds) THEN outlived \cup {t} ELSE outlived \ {t}, {t})
  /\ UNCHANGED reader

(* The first next() of a generator, and __begin_read. *)
Begin(r, pat) ==
  /\ ~Running(r)
  /\ visitCount' = visitCount + 1
  /\ reader' = [reader EXCEPT ![r] = [phase |-> "scan", pat |-> pat,
                                      left |-> Matching(store, pat), next |-> 1]]
  /\ history' = [history EXCEPT ![r] =
       [yielded |-> {}, seen |-> wanted \cup outlived,
        stored |-> Matching(store, pat) \ Elements(pendingRemoves)]]
  /\ UNCHANGED <<store, pendingRemoves, pendingAdds, asked>>

(* A scan that yields what waits to be removed. *)
ScanUnfiltered(r, t) ==
  /\ reader[r].phase = "scan" /\ t \in reader[r].left
  /\ reader' = [reader EXCEPT ![r].left = @ \ {t}]
  /\ history' = [history EXCEPT ![r].yielded = @ \cup {t}]
  /\ UNCHANGED <<store, queueVars, asked>>

(* The walk comes to triple t: what waits to be removed is left out. *)
Scan(r, t) ==
  /\ reader[r].phase = "scan" /\ t \in reader[r].left
  /\ reader' = [reader EXCEPT ![r].left = @ \ {t}]
  /\ history' = [history EXCEPT ![r].yielded =
                   IF t \in Elements(pendingRemoves) THEN @ ELSE @ \cup {t}]
  /\ UNCHANGED <<store, queueVars, asked>>

(* An __end_read that makes the removals and drops the additions. *)
EndReadDropsAdds ==
  /\ visitCount' = visitCount - 1
  /\ IF visitCount' = 0
     THEN /\ store' = store \ Elements(pendingRemoves)
          /\ pendingRemoves' = <<>> /\ pendingAdds' = <<>>
     ELSE UNCHANGED <<store, pendingRemoves, pendingAdds>>

(* __end_read: the last reader makes the removals, then the additions.     *)
EndRead ==
  /\ visitCount' = visitCount - 1
  /\ IF visitCount' = 0
     THEN /\ store' = (store \ Elements(pendingRemoves)) \cup Elements(pendingAdds)
          /\ pendingRemoves' = <<>> /\ pendingAdds' = <<>>
     ELSE UNCHANGED <<store, pendingRemoves, pendingAdds>>

(* A reader that leaves before its first walk is over. *)
EndScanEarly(r) ==
  /\ reader[r].phase = "scan"
  /\ EndRead
  /\ reader' = [reader EXCEPT ![r].phase = "tail"]
  /\ UNCHANGED <<asked, history>>

(* The first walk is over, and the object that counts it dies. *)
EndScan(r) ==
  /\ reader[r].phase = "scan" /\ reader[r].left = {}
  /\ EndRead
  /\ reader' = [reader EXCEPT ![r].phase = "tail"]
  /\ UNCHANGED <<asked, history>>

(* The second walk, over the list as it is at each step. *)
Rest(r) ==
  LET i == reader[r].next IN
  /\ reader[r].phase = "tail"
  /\ IF i <= Len(pendingAdds)
     THEN /\ reader' = [reader EXCEPT ![r].next = i + 1]
          /\ history' = [history EXCEPT ![r].yielded =
                           @ \cup Matching({pendingAdds[i]}, reader[r].pat)]
     ELSE reader' = [reader EXCEPT ![r].phase = "done"] /\ UNCHANGED history
  /\ UNCHANGED <<store, queueVars, asked>>

(* The caller drops the generator. *)
Abandon(r) ==
  /\ \/ reader[r].phase = "scan" /\ EndRead
     \/ reader[r].phase = "tail" /\ UNCHANGED <<store, queueVars>>
  /\ reader' = [reader EXCEPT ![r] = NoRead]
  /\ history' = [history EXCEPT ![r] = NoHistory]
  /\ UNCHANGED asked

Read(r) ==
  \/ \E pat \in Pattern : Begin(r, pat)
  \/ \E t \in Triple : Scan(r, t)
  \/ EndScan(r) \/ Rest(r) \/ Abandon(r)

Next ==
  \/ \E r \in Readers : Read(r)
  \/ \E t \in Triple : Add(t) \/ Remove(t)

Spec == Init /\ [][Next]_vars

-----------------------------------------------------------------------------
(* Properties. *)

(* __visit_count counts the readers on their first walk, and a reader on   *)
(* its first walk has all of it in the store.                              *)
TypeOK ==
  /\ store \subseteq Triple /\ wanted \subseteq Triple /\ outlived \subseteq Triple
  /\ visitCount \in 0..Cardinality(Readers)
  /\ Elements(pendingRemoves) \cup Elements(pendingAdds) \subseteq Triple
  /\ \A r \in Readers :
       /\ reader[r].phase \in {"idle", "scan", "tail", "done"}
       /\ reader[r].phase = "scan" => visitCount > 0 /\ reader[r].left \subseteq store

(* "Allows concurrent reads and writes": when no reader is at work every   *)
(* addition and removal has taken effect that was not called back by a     *)
(* later call - but for the removal of a triple that waited to be added,   *)
(* which may be lost: what waits is applied by kind, removals first.       *)
WritesTakeEffect ==
  visitCount = 0 => wanted \subseteq store /\ store \subseteq wanted \cup outlived

(* A reader yields no triple that nobody wanted at any time since it       *)
(* began: not what a remove() before it took away, applied or waiting,     *)
(* unless that triple waited to be added when it was removed.              *)
YieldedWasWanted == \A r \in Readers : history[r].yielded \subseteq history[r].seen

(* A reader that ends has yielded every triple that was in the store when  *)
(* it began, unless its removal was asked for before or meanwhile.         *)
StoredNotMissed ==
  \A r \in Readers : reader[r].phase = "done" => history[r].stored \subseteq history[r].yielded
=============================================================================
