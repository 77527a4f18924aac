------------------------ MODULE ConcurrentStoreProofs ------------------------
(***************************************************************************)
(* The waiting changes of ConcurrentStore for any triples, patterns and    *)
(* number of readers.                                                      *)
(*                                                                         *)
(* What was wanted, with what outlived its removal, is at any time what    *)
(* the store would be if all that waits were made now, and nothing waits   *)
(* while no reader is counted. The count is that of the readers on their   *)
(* first walk, so that the store cannot change under one of them: what a   *)
(* reader still has to walk is in the store, and what it has walked it has *)
(* yielded, unless the removal was asked for.                              *)
(***************************************************************************)
EXTENDS ConcurrentStore, FiniteSetTheorems, TLAPS

-----------------------------------------------------------------------------
Phases == {"idle", "scan", "tail", "done"}
ReaderState == [phase : Phases, pat : Pattern, left : SUBSET Triple, next : Nat \ {0}]
HistoryState == [yielded : SUBSET Triple, seen : SUBSET Triple, stored : SUBSET Triple]

Types ==
  /\ store \in SUBSET Triple /\ wanted \in SUBSET Triple /\ outlived \in SUBSET Triple
  /\ visitCount \in Nat
  /\ pendingRemoves \in Seq(Triple) /\ pendingAdds \in Seq(Triple)
  /\ reader \in [Readers -> ReaderState]
  /\ history \in [Readers -> HistoryState]

Scanning == {r \in Readers : reader[r].phase = "scan"}

(* The count is that of the readers on their first walk.                   *)
Counted == visitCount = Cardinality(Scanning)

(* Nothing waits while no reader is counted.                               *)
NothingWaits == visitCount = 0 => pendingRemoves = <<>> /\ pendingAdds = <<>>

(* What is wanted or outlived its removal is what the store will be.       *)
WantedWaits == wanted \cup outlived = (store \ Elements(pendingRemoves)) \cup Elements(pendingAdds)

Queues == Types /\ Counted /\ NothingWaits /\ WantedWaits

(* What reader r has to walk, may have yielded and must have yielded, if   *)
(* it stands at w with the history h.                                      *)
InStep(w, h) ==
  /\ w.phase = "scan" => w.left \subseteq store
  /\ w.phase \in {"scan", "tail"} => wanted \cup outlived \subseteq h.seen
  /\ w.phase = "scan" => /\ h.stored \cap Elements(pendingRemoves) = {}
                         /\ h.stored \subseteq h.yielded \cup w.left
  /\ w.phase \in {"tail", "done"} => h.stored \subseteq h.yielded
  /\ h.yielded \subseteq h.seen

ReadersInStep == \A r \in Readers : InStep(reader[r], history[r])

IInv == Queues /\ ReadersInStep

-----------------------------------------------------------------------------
(* Lists of waiting triples. *)
LEMMA NothingInEmpty == Elements(<<>>) = {}
BY DEF Elements

(* The elements of a list, and of one with one more. *)
LEMMA ElementsTyped == \A s \in Seq(Triple) : Elements(s) \in SUBSET Triple
BY DEF Elements

LEMMA ElementsOfAppend ==
  ASSUME NEW s \in Seq(Triple), NEW t \in Triple
  PROVE  Append(s, t) \in Seq(Triple) /\ Elements(Append(s, t)) = Elements(s) \cup {t}
<1>1. Len(Append(s, t)) = Len(s) + 1 /\ Len(s) \in Nat OBVIOUS
<1>2. \A i \in 1..(Len(s) + 1) : Append(s, t)[i] = IF i <= Len(s) THEN s[i] ELSE t OBVIOUS
<1>3. \A x : x \in Elements(Append(s, t)) <=> \E i \in 1..(Len(s) + 1) : x = Append(s, t)[i]
  BY <1>1 DEF Elements
<1>4. \A x : x \in Elements(s) <=> \E i \in 1..Len(s) : x = s[i] BY DEF Elements
<1>5. ASSUME NEW x \in Elements(Append(s, t)) PROVE x \in Elements(s) \cup {t}
  BY <1>1, <1>2, <1>3, <1>4
<1>6. ASSUME NEW x \in Elements(s) PROVE x \in Elements(Append(s, t))
  BY <1>1, <1>2, <1>3, <1>4
<1>7. t \in Elements(Append(s, t))
  <2>1. Len(s) + 1 \in 1..(Len(s) + 1) /\ Append(s, t)[Len(s) + 1] = t BY <1>1, <1>2
  <2> QED BY <1>3, <2>1
<1> QED BY <1>5, <1>6, <1>7

(* Readers on their first walk, and how many they are.                     *)
LEMMA ScanningFinite == IsFiniteSet(Scanning) /\ Cardinality(Scanning) \in Nat
                        /\ Cardinality(Scanning) <= Cardinality(Readers)
  /\ (Cardinality(Scanning) = 0 <=> Scanning = {})
BY ReadersAreFinite, FS_Subset, FS_CardinalityType, FS_EmptySet DEF Scanning

(* Nothing waits and nobody reads at the start. *)
LEMMA InvInit == Init => IInv
<1> SUFFICES ASSUME Init PROVE IInv OBVIOUS
<1>1. NoRead \in ReaderState /\ NoRead.phase = "idle"
  BY SomePattern DEF NoRead, ReaderState, Phases
<1>2. Types BY <1>1 DEF Init, Types, NoHistory, HistoryState
<1>3. Scanning = {} BY <1>1 DEF Init, Scanning
<1>4. Counted BY <1>3, FS_EmptySet DEF Init, Counted
<1>5. WantedWaits BY NothingInEmpty DEF Init, WantedWaits
<1>6. ReadersInStep BY <1>1 DEF Init, ReadersInStep, InStep, NoHistory
<1> QED BY <1>2, <1>4, <1>5, <1>6 DEF Init, IInv, Queues, NothingWaits

-----------------------------------------------------------------------------
(* Writes.                                                                 *)

(* A call of add() or remove() keeps every reader in step, if the store    *)
(* does not change under a first walk and nothing waits to be removed but  *)
(* what the call removes.                                                  *)
LEMMA WantKeepsReaders ==
  ASSUME IInv, NEW W \in SUBSET Triple, NEW O \in SUBSET Triple, NEW removed,
         Want(W, O, removed), reader' = reader,
         Scanning # {} => store' = store,
         Elements(pendingRemoves') \subseteq Elements(pendingRemoves) \cup removed
  PROVE  ReadersInStep' /\ history' \in [Readers -> HistoryState]
<1>1. wanted' = W /\ outlived' = O BY DEF Want
<1>2. ASSUME NEW r \in Readers
      PROVE  history'[r] \in HistoryState /\ InStep(reader[r], history[r])'
  <2>1. reader[r] \in ReaderState /\ history[r] \in HistoryState /\ InStep(reader[r], history[r])
    BY DEF IInv, Queues, Types, ReadersInStep
  <2>2. CASE Running(r)
    <3>1. history'[r] = [history[r] EXCEPT !.seen = @ \cup W \cup O, !.stored = @ \ removed]
      BY <2>2 DEF Want
    <3>2. /\ history'[r] \in HistoryState
          /\ history'[r].seen = history[r].seen \cup W \cup O
          /\ history'[r].stored = history[r].stored \ removed
          /\ history'[r].yielded = history[r].yielded
      BY <2>1, <3>1 DEF HistoryState
    <3>3. reader[r].phase = "scan" => store' = store BY DEF Scanning
    <3> QED BY <1>1, <2>1, <2>2, <3>2, <3>3 DEF InStep, Running
  <2>3. CASE ~Running(r)
    <3>1. history'[r] = history[r] BY <2>3 DEF Want
    <3> QED BY <2>1, <2>3, <3>1 DEF InStep, Running
  <2> QED BY <2>2, <2>3
<1>3. history' = [r \in Readers |-> history'[r]] BY DEF Want
<1> QED BY <1>1, <1>2, <1>3 DEF ReadersInStep

(* A reader on its first walk is counted. *)
LEMMA ScanningCounted ==
  ASSUME IInv PROVE visitCount # 0 <=> Scanning # {}
BY ScanningFinite DEF IInv, Queues, Counted

(* add() and remove(), with a reader counted and without. *)
LEMMA AddKeeps ==
  ASSUME IInv, NEW t \in Triple, Add(t)
  PROVE  IInv'
<1>1. Types /\ WantedWaits /\ NothingWaits BY DEF IInv, Queues
<1>2. /\ reader' = reader /\ Want(wanted \cup {t}, outlived \ {t}, {})
      /\ wanted' = wanted \cup {t} /\ outlived' = outlived \ {t}
      /\ wanted' \in SUBSET Triple /\ outlived' \in SUBSET Triple
  BY <1>1 DEF Add, Want, Types
<1>3. Counted' BY <1>2 DEF IInv, Queues, Counted, Scanning, Add, AddNow, AddLater, queueVars
<1>4. CASE visitCount = 0 /\ AddNow(t)
  <2>1. store' = store \cup {t} /\ UNCHANGED <<visitCount, pendingRemoves, pendingAdds>>
    BY <1>4 DEF AddNow, queueVars
  <2>2. Scanning = {} BY <1>4, ScanningCounted
  <2>3. ReadersInStep' /\ history' \in [Readers -> HistoryState]
    BY <1>1, <1>2, <2>1, <2>2, WantKeepsReaders DEF Types
  <2>4. Types' BY <1>1, <1>2, <2>1, <2>3 DEF Types
  <2>5. NothingWaits' BY <1>1, <2>1 DEF NothingWaits
  <2>6. WantedWaits' BY <1>1, <1>2, <1>4, <2>1, NothingInEmpty DEF WantedWaits, NothingWaits
  <2> QED BY <1>3, <2>3, <2>4, <2>5, <2>6 DEF IInv, Queues
<1>5. CASE visitCount # 0 /\ AddLater(t)
  <2>1. pendingAdds' = Append(pendingAdds, t) /\ UNCHANGED <<store, visitCount, pendingRemoves>>
    BY <1>5 DEF AddLater
  <2>2. pendingAdds' \in Seq(Triple) /\ Elements(pendingAdds') = Elements(pendingAdds) \cup {t}
    BY <1>1, <2>1, ElementsOfAppend DEF Types
  <2>3. ReadersInStep' /\ history' \in [Readers -> HistoryState]
    BY <1>1, <1>2, <2>1, WantKeepsReaders DEF Types
  <2>4. Types' BY <1>1, <1>2, <2>1, <2>2, <2>3 DEF Types
  <2>5. NothingWaits' BY <1>5, <2>1 DEF NothingWaits
  <2>6. WantedWaits' BY <1>1, <1>2, <2>1, <2>2 DEF WantedWaits
  <2> QED BY <1>3, <2>3, <2>4, <2>5, <2>6 DEF IInv, Queues
<1> QED BY <1>4, <1>5 DEF Add

LEMMA RemoveKeeps ==
  ASSUME IInv, NEW t \in Triple, Remove(t)
  PROVE  IInv'
<1> DEFINE O == IF t \in Elements(pendingAdds) THEN outlived \cup {t} ELSE outlived \ {t}
<1>1. Types /\ WantedWaits /\ NothingWaits BY DEF IInv, Queues
<1>2. /\ reader' = reader /\ Want(wanted \ {t}, O, {t})
      /\ wanted' = wanted \ {t} /\ outlived' = O
      /\ wanted' \in SUBSET Triple /\ outlived' \in SUBSET Triple
  BY <1>1 DEF Remove, Want, Types
<1>3. Counted' BY <1>2 DEF IInv, Queues, Counted, Scanning, Remove, RemoveNow, RemoveLater, queueVars
<1>4. CASE visitCount = 0 /\ RemoveNow(t)
  <2>1. store' = store \ {t} /\ UNCHANGED <<visitCount, pendingRemoves, pendingAdds>>
    BY <1>4 DEF RemoveNow, queueVars
  <2>2. Scanning = {} BY <1>4, ScanningCounted
  <2>3. ReadersInStep' /\ history' \in [Readers -> HistoryState]
    BY <1>1, <1>2, <2>1, <2>2, WantKeepsReaders DEF Types
  <2>4. Types' BY <1>1, <1>2, <2>1, <2>3 DEF Types
  <2>5. NothingWaits' BY <1>1, <2>1 DEF NothingWaits
  <2>6. WantedWaits' BY <1>1, <1>2, <1>4, <2>1, NothingInEmpty DEF WantedWaits, NothingWaits
  <2> QED BY <1>3, <2>3, <2>4, <2>5, <2>6 DEF IInv, Queues
<1>5. CASE visitCount # 0 /\ RemoveLater(t)
  <2>1. pendingRemoves' = Append(pendingRemoves, t) /\ UNCHANGED <<store, visitCount, pendingAdds>>
    BY <1>5 DEF RemoveLater
  <2>2. /\ pendingRemoves' \in Seq(Triple)
        /\ Elements(pendingRemoves') = Elements(pendingRemoves) \cup {t}
    BY <1>1, <2>1, ElementsOfAppend DEF Types
  <2>3. ReadersInStep' /\ history' \in [Readers -> HistoryState]
    BY <1>1, <1>2, <2>1, <2>2, WantKeepsReaders DEF Types
  <2>4. Types' BY <1>1, <1>2, <2>1, <2>2, <2>3 DEF Types
  <2>5. NothingWaits' BY <1>5, <2>1 DEF NothingWaits
  <2>6. WantedWaits' BY <1>1, <1>2, <2>1, <2>2 DEF WantedWaits
  <2> QED BY <1>3, <2>3, <2>4, <2>5, <2>6 DEF IInv, Queues
<1> QED BY <1>4, <1>5 DEF Remove

-----------------------------------------------------------------------------
(* Reads.                                                                  *)

(* A step of reader r: the others stay as they are.                        *)
LEMMA StepKeepsTypes ==
  ASSUME IInv, NEW r \in Readers, NEW w \in ReaderState, NEW h \in HistoryState,
         reader' = [reader EXCEPT ![r] = w], history' = [history EXCEPT ![r] = h]
  PROVE  /\ reader' \in [Readers -> ReaderState] /\ history' \in [Readers -> HistoryState]
         /\ reader'[r] = w /\ history'[r] = h
         /\ \A q \in Readers \ {r} : reader'[q] = reader[q] /\ history'[q] = history[q]
         /\ Scanning' = IF w.phase = "scan" THEN Scanning \cup {r} ELSE Scanning \ {r}
BY DEF IInv, Queues, Types, Scanning

(* One reader moves. *)
LEMMA ReadersOf ==
  ASSUME IInv, NEW r \in Readers
  PROVE  /\ reader[r] \in ReaderState /\ history[r] \in HistoryState
         /\ InStep(reader[r], history[r])
BY DEF IInv, Queues, Types, ReadersInStep

(* A step that leaves the store and the lists alone.                       *)
LEMMA WalkKeeps ==
  ASSUME IInv, NEW r \in Readers, NEW w \in ReaderState, NEW h \in HistoryState,
         reader' = [reader EXCEPT ![r] = w], history' = [history EXCEPT ![r] = h],
         UNCHANGED <<store, pendingRemoves, pendingAdds, wanted, outlived>>,
         visitCount' = visitCount + (IF w.phase = "scan" /\ reader[r].phase # "scan" THEN 1 ELSE 0),
         w.phase # "scan" => reader[r].phase # "scan",
         InStep(w, h)
  PROVE  IInv'
<1> DEFINE begins == w.phase = "scan" /\ reader[r].phase # "scan"
<1>0. /\ reader' \in [Readers -> ReaderState] /\ history' \in [Readers -> HistoryState]
      /\ reader'[r] = w /\ history'[r] = h
      /\ \A q \in Readers \ {r} : reader'[q] = reader[q] /\ history'[q] = history[q]
      /\ Scanning' = IF w.phase = "scan" THEN Scanning \cup {r} ELSE Scanning \ {r}
  BY StepKeepsTypes
<1>1. Types' BY <1>0 DEF IInv, Queues, Types
<1>2. Counted'
  <2>1. visitCount = Cardinality(Scanning) /\ IsFiniteSet(Scanning) /\ Cardinality(Scanning) \in Nat
    BY ScanningFinite DEF IInv, Queues, Counted
  <2>2. r \in Scanning <=> reader[r].phase = "scan" BY DEF Scanning
  <2>3. CASE begins
    <3>1. Scanning' = Scanning \cup {r} /\ r \notin Scanning BY <1>0, <2>2, <2>3
    <3>2. Cardinality(Scanning') = Cardinality(Scanning) + 1 BY <2>1, <3>1, FS_AddElement
    <3> QED BY <2>1, <2>3, <3>2 DEF Counted
  <2>4. CASE ~begins
    <3>1. Scanning' = Scanning BY <1>0, <2>2, <2>4
    <3> QED BY <2>1, <2>4, <3>1 DEF Counted
  <2> QED BY <2>3, <2>4
<1>3. NothingWaits' /\ WantedWaits'
  <2>1. visitCount \in Nat BY DEF IInv, Queues, Types
  <2> QED BY <2>1 DEF IInv, Queues, NothingWaits, WantedWaits
<1>4. ASSUME NEW q \in Readers PROVE InStep(reader[q], history[q])'
  <2>1. InStep(reader[q], history[q]) BY ReadersOf
  <2>2. CASE q = r BY <1>0, <2>2 DEF InStep
  <2>3. CASE q # r BY <1>0, <2>1, <2>3 DEF InStep
  <2> QED BY <2>2, <2>3
<1> QED BY <1>1, <1>2, <1>3, <1>4 DEF IInv, Queues, ReadersInStep

(* What a reader does, from its call to its end. *)
LEMMA BeginKeeps ==
  ASSUME IInv, NEW r \in Readers, NEW pat \in Pattern, Begin(r, pat)
  PROVE  IInv'
<1> DEFINE w == [phase |-> "scan", pat |-> pat, left |-> Matching(store, pat), next |-> 1]
<1> DEFINE h == [yielded |-> {}, seen |-> wanted \cup outlived,
                 stored |-> Matching(store, pat) \ Elements(pendingRemoves)]
<1>1. Matching(store, pat) \subseteq store /\ store \in SUBSET Triple /\ wanted \cup outlived \in SUBSET Triple
  BY DEF Matching, IInv, Queues, Types
<1>2. w \in ReaderState /\ h \in HistoryState BY <1>1 DEF ReaderState, HistoryState, Phases
<1>3. InStep(w, h) BY <1>1 DEF InStep
<1>4. reader[r].phase # "scan" BY DEF Begin, Running
<1>5. /\ reader' = [reader EXCEPT ![r] = w] /\ history' = [history EXCEPT ![r] = h]
      /\ UNCHANGED <<store, pendingRemoves, pendingAdds, wanted, outlived>>
      /\ visitCount' = visitCount + 1
  BY DEF asked, Begin
<1>6. w.phase = "scan" OBVIOUS
<1> HIDE DEF w, h
<1> QED BY <1>2, <1>3, <1>4, <1>5, <1>6, WalkKeeps

LEMMA ScanKeeps ==
  ASSUME IInv, NEW r \in Readers, NEW t \in Triple, Scan(r, t)
  PROVE  IInv'
<1> DEFINE w == [reader[r] EXCEPT !.left = @ \ {t}]
<1> DEFINE h == [history[r] EXCEPT !.yielded =
                   IF t \in Elements(pendingRemoves) THEN @ ELSE @ \cup {t}]
<1>1. reader[r] \in ReaderState /\ history[r] \in HistoryState /\ InStep(reader[r], history[r])
      /\ reader[r].phase = "scan" /\ t \in reader[r].left
  BY ReadersOf DEF Scan
<1>2. /\ w \in ReaderState /\ w.phase = "scan" /\ w.left = reader[r].left \ {t}
      /\ h \in HistoryState /\ h.seen = history[r].seen /\ h.stored = history[r].stored
      /\ h.yielded = IF t \in Elements(pendingRemoves) THEN history[r].yielded
                     ELSE history[r].yielded \cup {t}
  BY <1>1 DEF ReaderState, HistoryState
<1>3. /\ reader' = [reader EXCEPT ![r] = w] /\ history' = [history EXCEPT ![r] = h]
      /\ UNCHANGED <<store, pendingRemoves, pendingAdds, wanted, outlived, visitCount>>
  BY <1>1 DEF asked, Scan, queueVars, IInv, Queues, Types
<1>4. visitCount \in Nat /\ WantedWaits BY DEF IInv, Queues, Types
<1> HIDE DEF w, h
<1>5. visitCount' = visitCount + (IF w.phase = "scan" /\ reader[r].phase # "scan" THEN 1 ELSE 0)
  BY <1>1, <1>3, <1>4
<1>6. InStep(w, h) BY <1>1, <1>2, <1>4 DEF InStep, WantedWaits
<1> QED BY <1>1, <1>2, <1>3, <1>5, <1>6, WalkKeeps

LEMMA RestKeeps ==
  ASSUME IInv, NEW r \in Readers, Rest(r)
  PROVE  IInv'
<1> DEFINE i == reader[r].next
<1>1. reader[r] \in ReaderState /\ history[r] \in HistoryState /\ InStep(reader[r], history[r])
      /\ reader[r].phase = "tail"
  BY ReadersOf DEF Rest
<1>2. UNCHANGED <<store, pendingRemoves, pendingAdds, wanted, outlived, visitCount>>
      /\ visitCount \in Nat /\ WantedWaits /\ pendingAdds \in Seq(Triple) /\ i \in Nat \ {0}
  BY <1>1 DEF asked, Rest, queueVars, IInv, Queues, Types, ReaderState
<1>3. CASE i <= Len(pendingAdds)
  <2> DEFINE w == [reader[r] EXCEPT !.next = i + 1]
  <2> DEFINE found == Matching({pendingAdds[i]}, reader[r].pat)
  <2> DEFINE h == [history[r] EXCEPT !.yielded = @ \cup found]
  <2>1. reader' = [reader EXCEPT ![r] = w] /\ history' = [history EXCEPT ![r] = h]
    BY <1>1, <1>3 DEF Rest, IInv, Queues, Types
  <2>2. found \subseteq Elements(pendingAdds)
    <3>1. i \in 1..Len(pendingAdds) BY <1>1, <1>2, <1>3 DEF ReaderState
    <3> QED BY <3>1 DEF Matching, Elements
  <2>3. found \subseteq Triple BY <1>2, <2>2, ElementsTyped
  <2> HIDE DEF found
  <2>4. /\ w \in ReaderState /\ w.phase = "tail"
        /\ h \in HistoryState /\ h.seen = history[r].seen /\ h.stored = history[r].stored
        /\ h.yielded = history[r].yielded \cup found
    <3>1. i + 1 \in Nat \ {0} BY <1>2
    <3>2. w \in ReaderState /\ w.phase = "tail"
      <4> HIDE DEF i
      <4> QED BY <1>1, <3>1 DEF ReaderState
    <3>3. /\ h \in HistoryState /\ h.seen = history[r].seen /\ h.stored = history[r].stored
          /\ h.yielded = history[r].yielded \cup found
      BY <1>1, <2>3 DEF HistoryState
    <3> QED BY <3>2, <3>3
  <2> HIDE DEF w, h
  <2>5. InStep(w, h) BY <1>1, <1>2, <2>2, <2>4 DEF InStep, WantedWaits
  <2>6. visitCount' = visitCount + (IF w.phase = "scan" /\ reader[r].phase # "scan" THEN 1 ELSE 0)
    BY <1>2, <2>4
  <2> QED BY <1>1, <1>2, <2>1, <2>4, <2>5, <2>6, WalkKeeps
<1>4. CASE ~(i <= Len(pendingAdds))
  <2> DEFINE w == [reader[r] EXCEPT !.phase = "done"]
  <2>1. reader' = [reader EXCEPT ![r] = w] /\ history' = [history EXCEPT ![r] = history[r]]
    BY <1>1, <1>4 DEF Rest, IInv, Queues, Types
  <2>2. w \in ReaderState /\ w.phase = "done" BY <1>1 DEF ReaderState, Phases
  <2> HIDE DEF w
  <2>3. InStep(w, history[r]) BY <1>1, <2>2 DEF InStep
  <2>4. visitCount' = visitCount + (IF w.phase = "scan" /\ reader[r].phase # "scan" THEN 1 ELSE 0)
    BY <1>2, <2>2
  <2> QED BY <1>1, <1>2, <2>1, <2>2, <2>3, <2>4, WalkKeeps
<1> QED BY <1>3, <1>4

(* A reader leaves: while others are on their first walk the store and the *)
(* lists stay, and what the last one applies is what was wanted.           *)
LEMMA EndReadKeeps ==
  ASSUME IInv, NEW r \in Scanning, Scanning' = Scanning \ {r}, EndRead, UNCHANGED asked
  PROVE  /\ store' \in SUBSET Triple /\ visitCount' \in Nat
         /\ pendingRemoves' \in Seq(Triple) /\ pendingAdds' \in Seq(Triple)
         /\ Counted' /\ NothingWaits' /\ WantedWaits'
         /\ Scanning' # {} => UNCHANGED <<store, pendingRemoves>>
<1>1. Types /\ Counted /\ NothingWaits /\ WantedWaits BY DEF IInv, Queues
<1>2. /\ IsFiniteSet(Scanning) /\ Cardinality(Scanning) \in Nat
      /\ Cardinality(Scanning \ {r}) = Cardinality(Scanning) - 1
      /\ IsFiniteSet(Scanning \ {r}) /\ Cardinality(Scanning \ {r}) \in Nat
      /\ Cardinality(Scanning \ {r}) = 0 <=> Scanning \ {r} = {}
  BY ScanningFinite, FS_RemoveElement, FS_CardinalityType, FS_EmptySet
<1>3. visitCount' = Cardinality(Scanning \ {r}) /\ visitCount' \in Nat
  BY <1>1, <1>2 DEF Counted, EndRead
<1>4. Counted' BY <1>3 DEF Counted
<1>5. CASE visitCount' = 0
  <2>1. /\ store' = (store \ Elements(pendingRemoves)) \cup Elements(pendingAdds)
        /\ pendingRemoves' = <<>> /\ pendingAdds' = <<>>
    BY <1>5 DEF EndRead
  <2>2. store' \in SUBSET Triple BY <1>1, <2>1, ElementsTyped DEF Types
  <2>3. WantedWaits' BY <1>1, <2>1, NothingInEmpty DEF asked, WantedWaits
  <2>4. Scanning' = {} BY <1>2, <1>3, <1>5
  <2> QED BY <1>3, <1>4, <2>1, <2>2, <2>3, <2>4 DEF NothingWaits
<1>6. CASE visitCount' # 0
  <2>1. UNCHANGED <<store, pendingRemoves, pendingAdds>> BY <1>6 DEF EndRead
  <2> QED BY <1>1, <1>3, <1>4, <1>6, <2>1 DEF asked, Types, NothingWaits, WantedWaits
<1> QED BY <1>5, <1>6

(* A reader that ends its first walk, or is dropped during it.             *)
LEMMA LeaveKeeps ==
  ASSUME IInv, NEW r \in Readers, reader[r].phase = "scan", EndRead, UNCHANGED asked,
         NEW w \in ReaderState, w.phase \in {"tail", "idle"}, NEW h \in HistoryState,
         reader' = [reader EXCEPT ![r] = w], history' = [history EXCEPT ![r] = h],
         h.yielded \subseteq h.seen,
         w.phase = "tail" => wanted \cup outlived \subseteq h.seen /\ h.stored \subseteq h.yielded
  PROVE  IInv'
<1>0. /\ reader' \in [Readers -> ReaderState] /\ history' \in [Readers -> HistoryState]
      /\ reader'[r] = w /\ history'[r] = h
      /\ \A q \in Readers \ {r} : reader'[q] = reader[q] /\ history'[q] = history[q]
      /\ Scanning' = Scanning \ {r}
  BY StepKeepsTypes
<1>1. r \in Scanning BY DEF Scanning
<1>2. /\ store' \in SUBSET Triple /\ visitCount' \in Nat
      /\ pendingRemoves' \in Seq(Triple) /\ pendingAdds' \in Seq(Triple)
      /\ Counted' /\ NothingWaits' /\ WantedWaits'
      /\ Scanning' # {} => UNCHANGED <<store, pendingRemoves>>
  BY <1>0, <1>1, EndReadKeeps
<1>3. Queues' BY <1>0, <1>2 DEF asked, IInv, Queues, Types
<1>4. ASSUME NEW q \in Readers PROVE InStep(reader[q], history[q])'
  <2>1. CASE q = r BY <1>0, <2>1 DEF asked, InStep
  <2>2. CASE q # r
    <3>1. reader'[q] = reader[q] /\ history'[q] = history[q] BY <1>0, <2>2
    <3>2. InStep(reader[q], history[q]) BY ReadersOf
    <3>3. reader'[q].phase = "scan" => Scanning' # {} BY DEF Scanning
    <3> QED BY <1>2, <3>1, <3>2, <3>3 DEF asked, InStep
  <2> QED BY <2>1, <2>2
<1> QED BY <1>3, <1>4 DEF IInv, ReadersInStep

LEMMA EndScanKeeps ==
  ASSUME IInv, NEW r \in Readers, EndScan(r)
  PROVE  IInv'
<1> DEFINE w == [reader[r] EXCEPT !.phase = "tail"]
<1>1. reader[r] \in ReaderState /\ history[r] \in HistoryState /\ InStep(reader[r], history[r])
      /\ reader[r].phase = "scan" /\ reader[r].left = {}
  BY ReadersOf DEF EndScan
<1>2. w \in ReaderState /\ w.phase = "tail" BY <1>1 DEF ReaderState, Phases
<1>3. reader' = [reader EXCEPT ![r] = w] /\ history' = [history EXCEPT ![r] = history[r]]
      /\ EndRead /\ UNCHANGED asked
  BY DEF EndScan, IInv, Queues, Types
<1>4. history[r].yielded \subseteq history[r].seen /\ wanted \cup outlived \subseteq history[r].seen
      /\ history[r].stored \subseteq history[r].yielded
  BY <1>1 DEF InStep
<1> HIDE DEF w
<1> QED BY <1>1, <1>2, <1>3, <1>4, LeaveKeeps

LEMMA AbandonKeeps ==
  ASSUME IInv, NEW r \in Readers, Abandon(r)
  PROVE  IInv'
<1>1. NoRead \in ReaderState /\ NoRead.phase = "idle"
  BY SomePattern DEF NoRead, ReaderState, Phases
<1>2. NoHistory \in HistoryState /\ NoHistory.yielded = {}
  BY DEF NoHistory, HistoryState
<1>3. reader' = [reader EXCEPT ![r] = NoRead] /\ history' = [history EXCEPT ![r] = NoHistory]
      /\ UNCHANGED asked
  BY DEF Abandon
<1>4. CASE reader[r].phase = "scan" /\ EndRead
  BY <1>1, <1>2, <1>3, <1>4, LeaveKeeps
<1>5. CASE reader[r].phase = "tail" /\ UNCHANGED <<store, queueVars>>
  <2>1. InStep(NoRead, NoHistory) BY <1>1, <1>2 DEF InStep
  <2>2. UNCHANGED <<store, pendingRemoves, pendingAdds, wanted, outlived, visitCount>> /\ visitCount \in Nat
    BY <1>3, <1>5 DEF asked, queueVars, IInv, Queues, Types
  <2>3. visitCount' = visitCount + (IF NoRead.phase = "scan" /\ reader[r].phase # "scan" THEN 1 ELSE 0)
    BY <1>1, <2>2
  <2> QED BY <1>1, <1>2, <1>3, <1>5, <2>1, <2>2, <2>3, WalkKeeps
<1> QED BY <1>4, <1>5 DEF Abandon

(* Every step keeps the invariant. *)
LEMMA InvStep == IInv /\ [Next]_vars => IInv'
<1> SUFFICES ASSUME IInv, [Next]_vars PROVE IInv' OBVIOUS
<1>1. CASE Next
  BY <1>1, AddKeeps, RemoveKeeps, BeginKeeps, ScanKeeps, EndScanKeeps, RestKeeps, AbandonKeeps
  DEF Next, Read
<1>2. CASE UNCHANGED vars
  BY <1>2 DEF vars, asked, queueVars, IInv, Queues, Types, Counted, Scanning, NothingWaits, WantedWaits,
     ReadersInStep, InStep
<1> QED BY <1>1, <1>2

-----------------------------------------------------------------------------
(* __visit_count counts readers on their first walk, which have all of it  *)
(* in the store.                                                           *)
THEOREM ReadersTyped == Spec => []TypeOK
<1>1. ASSUME IInv PROVE TypeOK
  <2>1. /\ Types /\ visitCount = Cardinality(Scanning)
    BY <1>1 DEF IInv, Queues, Counted
  <2>2. visitCount \in 0..Cardinality(Readers)
    BY <2>1, ScanningFinite, ReadersAreFinite, FS_CardinalityType
  <2>3. ASSUME NEW r \in Readers
        PROVE  /\ reader[r].phase \in {"idle", "scan", "tail", "done"}
               /\ reader[r].phase = "scan" => visitCount > 0 /\ reader[r].left \subseteq store
    <3>1. reader[r] \in ReaderState /\ InStep(reader[r], history[r]) BY <1>1, ReadersOf
    <3>2. reader[r].phase = "scan" => Scanning # {} BY DEF Scanning
    <3> QED BY <1>1, <2>1, <3>1, <3>2, ScanningCounted DEF Types, ReaderState, Phases, InStep
  <2>4. Elements(pendingRemoves) \cup Elements(pendingAdds) \subseteq Triple
    BY <2>1, ElementsTyped DEF Types
  <2> QED BY <2>1, <2>2, <2>3, <2>4 DEF TypeOK, Types
<1> QED BY <1>1, InvInit, InvStep, PTL DEF Spec

(* Once no reader is at work, the store has what the calls of add and      *)
(* remove asked for and nothing else but what outlived its removal.        *)
THEOREM WritesAlwaysTakeEffect == Spec => []WritesTakeEffect
<1>1. IInv => WritesTakeEffect
  BY NothingInEmpty DEF IInv, Queues, NothingWaits, WantedWaits, WritesTakeEffect
<1> QED BY <1>1, InvInit, InvStep, PTL DEF Spec

(* A reader yields only what was wanted, or outlived its removal, at some  *)
(* time since it began.                                                    *)
THEOREM YieldedAlwaysWanted == Spec => []YieldedWasWanted
<1>1. IInv => YieldedWasWanted BY DEF IInv, ReadersInStep, InStep, YieldedWasWanted
<1> QED BY <1>1, InvInit, InvStep, PTL DEF Spec

(* A reader that ends has yielded what was in the store when it began and  *)
(* was not asked to be removed.                                            *)
THEOREM StoredNeverMissed == Spec => []StoredNotMissed
<1>1. IInv => StoredNotMissed BY DEF IInv, ReadersInStep, InStep, StoredNotMissed
<1> QED BY <1>1, InvInit, InvStep, PTL DEF Spec
=============================================================================
