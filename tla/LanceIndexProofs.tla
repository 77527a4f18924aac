-------------------------- MODULE LanceIndexProofs --------------------------
(***************************************************************************)
(* The tables of LanceIndex for any triples, sizes of the sample and       *)
(* faults.                                                                 *)
(*                                                                         *)
(* A fingerprint stands for all graphs that have it.  Whatever happens,    *)
(* the rows of tables that were written together are those of the graph    *)
(* they were written for; another graph with its fingerprint has the same  *)
(* subjects, when the sample takes all, and need not have more in common.  *)
(***************************************************************************)
EXTENDS LanceIndex, FiniteSetTheorems, TLAPS

-----------------------------------------------------------------------------
(* The sample of a graph that has no more triples than it takes shows all  *)
(* its subjects.                                                           *)
LEMMA SampleShowsSubjects ==
  ASSUME NEW T \in SUBSET Triple, Cardinality(T) <= SampleSize
  PROVE  {x[1] : x \in Fingerprint(T).sample} = {t[1] : t \in T}
<1> DEFINE Before(s) == {t \in T : t[1] < s}
<1> DEFINE Sampled == {x[1] : x \in Fingerprint(T).sample}
<1>1. IsFiniteSet(T) /\ Cardinality(T) \in Nat
  BY FS_Subset, FS_CardinalityType, TriplesAreFinite
<1>2. ASSUME NEW t \in T
      PROVE  Cardinality(Before(t[1])) < SampleSize
  <2>0. t[1] \in Nat BY TriplesAreFinite
  <2>1. Before(t[1]) \subseteq T \ {t} BY <2>0
  <2>2. Cardinality(Before(t[1])) <= Cardinality(T \ {t}) /\ Cardinality(Before(t[1])) \in Nat
    BY <1>1, <2>1, FS_Subset, FS_RemoveElement, FS_CardinalityType
  <2>3. Cardinality(T \ {t}) = Cardinality(T) - 1 BY <1>1, FS_RemoveElement
  <2> QED BY <1>1, <2>2, <2>3, SampleIsPositive
<1> DEFINE early == {u \in T : Cardinality(Before(u[1])) < SampleSize}
<1> DEFINE n(s) == Min({Cardinality({t \in T : t[1] = s}), SampleSize - Cardinality(Before(s))})
<1>3. early = T BY <1>2
<1>4. Fingerprint(T).sample = {<<s, n(s)>> : s \in {t[1] : t \in early}} BY DEF Fingerprint
<1> HIDE DEF early, n
<1>5. \A s : s \in Sampled <=> \E x \in Fingerprint(T).sample : s = x[1] OBVIOUS
<1>6. \A x : x \in Fingerprint(T).sample <=> \E t \in early : x = <<t[1], n(t[1])>>
  BY <1>4
<1> HIDE DEF Sampled
<1>7. \A t : <<t[1], n(t[1])>>[1] = t[1] OBVIOUS
<1>8. ASSUME NEW t \in early PROVE t[1] \in Sampled BY <1>5, <1>6, <1>7
<1>9. ASSUME NEW s \in Sampled PROVE \E t \in early : s = t[1] BY <1>5, <1>6, <1>7
<1> QED BY <1>3, <1>8, <1>9 DEF Sampled

(* Graphs with one fingerprint have the same subjects, when the sample     *)
(* takes all triples of one of them.                                       *)
LEMMA FingerprintsShowSubjects ==
  ASSUME NEW S \in SUBSET Triple, NEW T \in SUBSET Triple, Fingerprint(S) = Fingerprint(T),
         Cardinality(T) <= SampleSize
  PROVE  \A t \in T : \E u \in S : u[1] = t[1]
<1>1. Cardinality(S) = Cardinality(T) BY DEF Fingerprint
<1>2. {t[1] : t \in S} = {t[1] : t \in T} BY <1>1, SampleShowsSubjects
<1> QED BY <1>2

(* Tables that were written together hold the rows and the fingerprint of  *)
(* the graph they were written for.                                        *)
WrittenFor(table, tornNow) ==
  ~tornNow /\ meta # NoTable =>
    meta = Fingerprint(written) /\ table # NoTable /\ RowsOf(written) \subseteq table

(* The rows that write() has put on disk are those of the graph. *)
WritingGraph ==
  ~Idle => writing = RowsOf(content) /\ embeddings = writing /\ torn

(* The index covers the graph also while write() is under way. *)
Covering == enabled /\ ~doubtful => RowsOf(content \ bypassed) \subseteq indexed

Disk == TypeOK /\ WrittenFor(embeddings, torn) /\ WritingGraph

-----------------------------------------------------------------------------
(* Rows of more triples are more rows. *)
LEMMA RowsGrow ==
  \A S, T : S \subseteq T => RowsOf(S) \subseteq RowsOf(T)
BY DEF RowsOf

(* The rows of a graph that is made up of two. *)
LEMMA RowsOfUnion ==
  \A S, T : RowsOf(S \cup T) = RowsOf(S) \cup RowsOf(T)
BY DEF RowsOf

(* There is no table at the start. *)
LEMMA DiskInit == Init => Disk /\ Covering
<1> SUFFICES ASSUME Init PROVE Disk /\ Covering OBVIOUS
<1>1. RowsOf({}) = {} BY DEF RowsOf
<1> QED BY <1>1 DEF Init, Disk, TypeOK, WrittenFor, WritingGraph, Covering, Idle

(* What an append or no append leaves of the directory. *)
Left(disk) ==
  /\ disk.torn \in BOOLEAN
  /\ disk.table = NoTable \/ disk.table \subseteq RowsOf(Triple)
  /\ meta # NoTable => disk.table # NoTable
  /\ WrittenFor(disk.table, disk.torn)

(* What the operations leave on disk: the tables as they were, with rows   *)
(* appended, or those that parse() adds.                                   *)
LEMMA KeptLeft == Disk => Left(Kept)
BY DEF Disk, Left, Kept, TypeOK

LEMMA AppendedLeft ==
  ASSUME Disk, NEW new \in SUBSET RowsOf(Triple), NEW o \in {"added", "replaced", "lost"}
  PROVE  Left(Appended(embeddings, new, o))
<1>1. new # NoTable BY NoTableIsNoValue
<1>2. CASE o = "lost"
  <2>1. Appended(embeddings, new, o) = [table |-> embeddings, torn |-> torn]
    BY <1>2 DEF Appended
  <2> QED BY <2>1 DEF Disk, Left, TypeOK
<1>3. CASE o # "lost" /\ (o = "added" \/ embeddings = NoTable)
  <2> DEFINE table == IF embeddings = NoTable THEN new ELSE embeddings \cup new
  <2>1. Appended(embeddings, new, o) = [table |-> table, torn |-> torn]
    BY <1>3 DEF Appended
  <2>2. table \in SUBSET RowsOf(Triple) BY DEF Disk, TypeOK
  <2>3. table # NoTable BY <2>2, NoTableIsNoValue
  <2>4. embeddings # NoTable => embeddings \subseteq table OBVIOUS
  <2> HIDE DEF table
  <2>5. WrittenFor(table, torn) BY <2>3, <2>4 DEF Disk, WrittenFor
  <2> QED BY <2>1, <2>2, <2>3, <2>5 DEF Left, Disk, TypeOK
<1>4. CASE o # "lost" /\ ~(o = "added" \/ embeddings = NoTable)
  <2>1. Appended(embeddings, new, o) = [table |-> new, torn |-> TRUE]
    BY <1>4 DEF Appended
  <2> QED BY <2>1, <1>1 DEF Left, WrittenFor
<1> QED BY <1>2, <1>3, <1>4

LEMMA ParsedLeft ==
  ASSUME Disk, NEW T \in SUBSET Triple, NEW disk \in Parsed(T)
  PROVE  Left(disk)
<1> DEFINE new == RowsOf(T) \ indexed
<1>1. new \in SUBSET RowsOf(Triple) BY RowsGrow
<1>2. \A P : new \ RowsOf(P) \in SUBSET RowsOf(Triple) BY <1>1
<1> HIDE DEF new
<1>3. CASE ~Stores(new)
  BY <1>3, KeptLeft DEF Parsed, new
<1>4. CASE Stores(new) /\ disk = Appended(embeddings, new, "added")
  BY <1>1, <1>4, AppendedLeft
<1>5. CASE \E P : disk = Appended(embeddings, new \ RowsOf(P), "replaced")
  BY <1>2, <1>5, AppendedLeft
<1>6. Stores(new) =>
        \/ disk = Appended(embeddings, new, "added")
        \/ \E P : disk = Appended(embeddings, new \ RowsOf(P), "replaced")
  BY DEF Parsed, new
<1> QED BY <1>3, <1>4, <1>5, <1>6

(* A directory that an action leaves is in order again, if its fingerprint *)
(* was not touched.                                                        *)
LEMMA LeftInOrder ==
  ASSUME NEW disk, Left(disk), embeddings' = disk.table, torn' = disk.torn, meta' = meta, written' = written
  PROVE  /\ torn' \in BOOLEAN
         /\ embeddings' = NoTable \/ embeddings' \subseteq RowsOf(Triple)
         /\ meta' # NoTable => embeddings' # NoTable
         /\ WrittenFor(embeddings, torn)'
BY DEF Left, WrittenFor

-----------------------------------------------------------------------------
(* Loading and building leave the directory in order, and an index that    *)
(* covers the graph if it was loaded from tables that belong together.     *)
LEMMA LoadKeeps ==
  ASSUME Disk, NEW T \in SUBSET Triple, NEW disk, Left(disk), Load(T, disk), Idle,
         content' = T, attached' \in BOOLEAN, meta' = meta, written' = written
  PROVE  Disk' /\ Covering'
<1>1. indexed' = disk.table /\ enabled' = TRUE /\ bypassed' = T \ written /\ doubtful' = disk.torn
      /\ embeddings' = disk.table /\ torn' = disk.torn /\ writing' = writing
      /\ meta = Fingerprint(T)
  BY DEF Load
<1>2. meta # NoTable BY <1>1, NoTableIsNoValue
<1>3. disk.table # NoTable /\ disk.table \subseteq RowsOf(Triple) BY <1>2 DEF Left
<1>4. TypeOK' BY <1>1, <1>3, LeftInOrder DEF TypeOK, Disk, Left
<1>5. WrittenFor(embeddings, torn)' BY <1>1, LeftInOrder
<1>6. WritingGraph' BY <1>1 DEF WritingGraph, Idle
<1>7. Covering'
  <2>1. SUFFICES ASSUME ~disk.torn PROVE RowsOf(T \ (T \ written)) \subseteq disk.table
    BY <1>1 DEF Covering
  <2>2. RowsOf(written) \subseteq disk.table
    BY <2>1, <1>2 DEF Left, WrittenFor
  <2> QED BY <2>2, RowsGrow
<1> QED BY <1>4, <1>5, <1>6, <1>7 DEF Disk

(* The operations, one by one. *)
LEMMA BuildKeeps ==
  ASSUME Disk, NEW T \in SUBSET Triple, NEW disk, Left(disk),
         NEW old \in SUBSET RowsOf(Triple), Build(T, disk, old), Idle,
         content' = T, attached' \in BOOLEAN, meta' = meta, written' = written, bypassed \subseteq T
  PROVE  /\ Disk'
         /\ (enabled /\ ~doubtful => RowsOf(T \ bypassed) \subseteq old) => Covering'
<1>1. CASE T = {}
  <2>1. indexed' = {} /\ enabled' = TRUE /\ bypassed' = {} /\ doubtful' = FALSE
        /\ embeddings' = disk.table /\ torn' = disk.torn /\ writing' = writing
    BY <1>1 DEF Build, IndexedAll
  <2>2. TypeOK' BY <2>1, LeftInOrder DEF TypeOK, Disk
  <2>3. WrittenFor(embeddings, torn)' BY <2>1, LeftInOrder
  <2>4. WritingGraph' BY <2>1 DEF WritingGraph, Idle
  <2>5. Covering' BY <2>1, <1>1 DEF Covering, RowsOf
  <2> QED BY <2>2, <2>3, <2>4, <2>5 DEF Disk
<1>2. CASE T # {}
  <2>1. embeddings' = RowsOf(T) /\ torn' = TRUE /\ writing' = RowsOf(T) /\ indexed' = old
        /\ UNCHANGED <<enabled, bypassed, doubtful>>
    BY <1>2 DEF Build
  <2>2. RowsOf(T) \subseteq RowsOf(Triple) /\ RowsOf(T) # NoTable
    BY RowsGrow, NoTableIsNoValue
  <2>3. TypeOK' BY <2>1, <2>2 DEF TypeOK, Disk
  <2>4. WrittenFor(embeddings, torn)' BY <2>1 DEF WrittenFor
  <2>5. WritingGraph' BY <2>1 DEF WritingGraph
  <2>6. (enabled /\ ~doubtful => RowsOf(T \ bypassed) \subseteq old) => Covering'
    BY <2>1 DEF Covering
  <2> QED BY <2>3, <2>4, <2>5, <2>6 DEF Disk
<1> QED BY <1>1, <1>2

LEMMA AppendRowsLeft ==
  ASSUME Disk, NEW new \in SUBSET RowsOf(Triple), AppendRows(new), meta' = meta
  PROVE  \E disk : Left(disk) /\ embeddings' = disk.table /\ torn' = disk.torn
<1>1. PICK disk \in IF Stores(new) THEN {Appended(embeddings, new, o) : o \in Appends} ELSE {Kept} :
        embeddings' = disk.table /\ torn' = disk.torn
  BY DEF AppendRows
<1>2. Left(disk) BY <1>1, KeptLeft, AppendedLeft, AppendsKnown
<1> QED BY <1>1, <1>2

(* What leaves rows and fingerprint on disk alone, outside write().        *)
LEMMA DiskAside ==
  ASSUME Disk, UNCHANGED <<diskVars, writing>>, Idle, TypeOK'
  PROVE  Disk'
BY DEF Disk, WrittenFor, WritingGraph, Idle, diskVars

-----------------------------------------------------------------------------
(* Every step keeps the directory in order and the graph covered.          *)
StepKeeps == Disk' /\ (Covering => Covering')

LEMMA AddKeeps ==
  ASSUME Disk, NEW t \in Triple, Add(t)
  PROVE  StepKeeps
<1>1. RowsOf({t}) \subseteq RowsOf(Triple) BY RowsGrow
<1>2. PICK disk : Left(disk) /\ embeddings' = disk.table /\ torn' = disk.torn
  BY <1>1, AppendRowsLeft DEF Add
<1>3. meta' = meta /\ written' = written /\ writing' = writing /\ Idle BY DEF Add
<1>4. TypeOK' BY <1>1, <1>2, <1>3, LeftInOrder DEF TypeOK, Disk, Add
<1>5. WrittenFor(embeddings, torn)' BY <1>2, <1>3, LeftInOrder
<1>6. WritingGraph' BY <1>3 DEF WritingGraph, Idle
<1>7. ASSUME Covering PROVE Covering'
  <2>1. (content \cup {t}) \ (bypassed \ {t}) \subseteq (content \ bypassed) \cup {t} OBVIOUS
  <2>2. RowsOf((content \cup {t}) \ (bypassed \ {t})) \subseteq RowsOf(content \ bypassed) \cup RowsOf({t})
    BY <2>1, RowsGrow, RowsOfUnion
  <2> QED BY <1>7, <2>2 DEF Covering, Add
<1> QED BY <1>4, <1>5, <1>6, <1>7 DEF StepKeeps, Disk

LEMMA RemoveKeeps ==
  ASSUME Disk, NEW t \in Triple, Remove(t)
  PROVE  StepKeeps
<1>1. TypeOK' BY DEF TypeOK, Disk, Remove, diskVars
<1>2. Disk' BY <1>1, DiskAside DEF Remove
<1>3. (content \ {t}) \ (bypassed \ {t}) \subseteq content \ bypassed OBVIOUS
<1>4. Covering => Covering' BY <1>3, RowsGrow DEF Covering, Remove
<1> QED BY <1>2, <1>4 DEF StepKeeps

LEMMA AddNKeeps ==
  ASSUME Disk, NEW T \in SUBSET Triple, AddN(T)
  PROVE  StepKeeps
<1>1. TypeOK' BY DEF TypeOK, Disk, AddN, diskVars
<1>2. Disk' BY <1>1, DiskAside DEF AddN
<1>3. (content \cup T) \ (bypassed \cup (T \ content)) \subseteq content \ bypassed OBVIOUS
<1>4. Covering => Covering' BY <1>3, RowsGrow DEF Covering, AddN
<1> QED BY <1>2, <1>4 DEF StepKeeps

LEMMA ParseKeeps ==
  ASSUME Disk, NEW T \in SUBSET Triple, Parse(T)
  PROVE  StepKeeps
<1> DEFINE whole == content \cup T
<1>1. whole \in SUBSET Triple /\ bypassed \subseteq whole BY DEF Disk, TypeOK
<1>2. content' = whole /\ Idle /\ attached' = attached /\ meta' = meta /\ written' = written
  BY DEF Parse
<1>3. CASE ~enabled
  <2>1. TypeOK' BY <1>1, <1>2, <1>3 DEF TypeOK, Disk, Parse
  <2>2. Disk' BY <1>2, <1>3, <2>1, DiskAside DEF Parse, diskVars
  <2>3. Covering' BY <1>3 DEF Covering, Parse
  <2> QED BY <2>2, <2>3 DEF StepKeeps
<1>4. CASE enabled /\ attached
  <2> DEFINE old == indexed \cup RowsOf(T)
  <2>1. PICK disk \in Parsed(T) : Load(whole, disk) \/ Build(whole, disk, old)
    BY <1>4 DEF Parse
  <2>2. Left(disk) BY ParsedLeft
  <2>3. attached' \in BOOLEAN BY <1>2 DEF Disk, TypeOK
  <2>4. CASE Load(whole, disk)
    BY <1>1, <1>2, <2>2, <2>3, <2>4, LoadKeeps DEF StepKeeps
  <2>5. CASE Build(whole, disk, old)
    <3>1. old \in SUBSET RowsOf(Triple) BY RowsGrow DEF Disk, TypeOK
    <3>2. whole \ bypassed \subseteq (content \ bypassed) \cup T OBVIOUS
    <3> HIDE DEF old, whole
    <3>3. RowsOf(whole \ bypassed) \subseteq RowsOf(content \ bypassed) \cup RowsOf(T)
      <4>1. RowsOf(whole \ bypassed) \subseteq RowsOf((content \ bypassed) \cup T)
        BY <3>2, RowsGrow
      <4> QED BY <4>1, RowsOfUnion
    <3>4. Covering => (enabled /\ ~doubtful => RowsOf(whole \ bypassed) \subseteq old)
      BY <3>3 DEF Covering, old
    <3> QED BY <1>1, <1>2, <2>2, <2>3, <2>5, <3>1, <3>4, BuildKeeps DEF StepKeeps
  <2> QED BY <2>1, <2>4, <2>5
<1>5. CASE enabled /\ ~attached
  <2>1. indexed' = RowsOf(whole) /\ enabled' = TRUE /\ bypassed' = {} /\ doubtful' = FALSE
        /\ UNCHANGED <<writing, embeddings, torn>>
    BY <1>5 DEF Parse, IndexedAll
  <2>2. TypeOK' BY <1>1, <1>2, <2>1, RowsGrow DEF TypeOK, Disk
  <2>3. Disk' BY <1>2, <2>1, <2>2, DiskAside DEF diskVars
  <2>4. Covering' BY <1>2, <2>1 DEF Covering
  <2> QED BY <2>3, <2>4 DEF StepKeeps
<1> QED BY <1>3, <1>4, <1>5 DEF Disk, TypeOK

LEMMA EnableKeeps == ASSUME Disk, EnablePersistent PROVE StepKeeps
<1>1. content \in SUBSET Triple /\ bypassed \subseteq content /\ indexed \in SUBSET RowsOf(Triple)
  BY DEF Disk, TypeOK
<1>2. content' = content /\ Idle /\ attached' \in BOOLEAN /\ meta' = meta /\ written' = written
      /\ Left(Kept)
  BY KeptLeft DEF EnablePersistent
<1>3. CASE Load(content, Kept) BY <1>1, <1>2, <1>3, LoadKeeps DEF StepKeeps
<1>4. CASE Build(content, Kept, indexed)
  BY <1>1, <1>2, <1>4, BuildKeeps DEF StepKeeps, Covering
<1> QED BY <1>3, <1>4 DEF EnablePersistent

LEMMA WriteMetaKeeps == ASSUME Disk, WriteMeta PROVE StepKeeps
<1>1. writing = RowsOf(content) /\ embeddings = writing /\ content \in SUBSET Triple
  BY DEF Disk, WritingGraph, TypeOK, WriteMeta
<1>2. RowsOf(content) \subseteq RowsOf(Triple) /\ RowsOf(content) # NoTable
  BY <1>1, RowsGrow, NoTableIsNoValue
<1>3. TypeOK' BY <1>1, <1>2 DEF Disk, TypeOK, WriteMeta, IndexedAll
<1>4. WrittenFor(embeddings, torn)' BY <1>1, <1>2 DEF WrittenFor, WriteMeta
<1>5. WritingGraph' BY DEF WritingGraph, WriteMeta, Idle
<1>6. Covering' BY <1>1 DEF Covering, WriteMeta, IndexedAll
<1> QED BY <1>3, <1>4, <1>5, <1>6 DEF StepKeeps, Disk

LEMMA WriteFailsKeeps == ASSUME Disk, WriteFails PROVE StepKeeps
<1>1. TypeOK' BY DEF Disk, TypeOK, WriteFails, processVars, diskVars
<1>2. WrittenFor(embeddings, torn)' BY DEF Disk, WrittenFor, WriteFails, diskVars
<1>3. WritingGraph' BY DEF WritingGraph, WriteFails, Idle
<1>4. Covering => Covering' BY DEF Covering, WriteFails, processVars
<1> QED BY <1>1, <1>2, <1>3, <1>4 DEF StepKeeps, Disk

LEMMA RestartKeeps == ASSUME Disk, Restart PROVE StepKeeps
<1>1. TypeOK' BY DEF Disk, TypeOK, Restart, diskVars
<1>2. WrittenFor(embeddings, torn)' BY DEF Disk, WrittenFor, Restart, diskVars
<1>3. WritingGraph' BY DEF WritingGraph, Restart, Idle
<1>4. Covering' BY DEF Covering, Restart
<1> QED BY <1>1, <1>2, <1>3, <1>4 DEF StepKeeps, Disk

LEMMA OthersKeep == ASSUME Disk, EnableInMemory \/ EnableFails PROVE StepKeeps
<1>1. CASE EnableInMemory
  <2>1. TypeOK' BY <1>1, RowsGrow DEF Disk, TypeOK, EnableInMemory, IndexedAll, diskVars
  <2>2. Disk' BY <1>1, <2>1, DiskAside DEF EnableInMemory
  <2>3. Covering' BY <1>1 DEF Covering, EnableInMemory, IndexedAll
  <2> QED BY <2>2, <2>3 DEF StepKeeps
<1>2. CASE EnableFails
  <2>1. TypeOK' BY <1>2 DEF Disk, TypeOK, EnableFails, diskVars
  <2>2. Disk' BY <1>2, <2>1, DiskAside DEF EnableFails
  <2>3. Covering => Covering' BY <1>2 DEF Covering, EnableFails
  <2> QED BY <2>2, <2>3 DEF StepKeeps
<1> QED BY <1>1, <1>2

(* All of them. *)
LEMMA EveryStepKeeps == Disk /\ [Next]_vars => StepKeeps
<1> SUFFICES ASSUME Disk, [Next]_vars PROVE StepKeeps OBVIOUS
<1>1. CASE Next
  BY <1>1, EnableKeeps, WriteMetaKeeps, WriteFailsKeeps, RestartKeeps, OthersKeep, AddKeeps,
     RemoveKeeps, ParseKeeps, AddNKeeps DEF Next
<1>2. CASE UNCHANGED vars
  <2>1. TypeOK' BY <1>2 DEF Disk, TypeOK, vars, processVars, diskVars
  <2>2. Disk' BY <1>2, <2>1 DEF Disk, WrittenFor, WritingGraph, Idle, vars, processVars, diskVars
  <2>3. Covering => Covering' BY <1>2 DEF Covering, vars, processVars
  <2> QED BY <2>2, <2>3 DEF StepKeeps
<1> QED BY <1>1, <1>2

-----------------------------------------------------------------------------
(* The variables keep their types.                                         *)
THEOREM IndexTyped == Spec => []TypeOK
<1>1. Disk /\ [Next]_vars => Disk' BY EveryStepKeeps DEF StepKeeps
<1>2. Disk => TypeOK BY DEF Disk
<1> QED BY <1>1, <1>2, DiskInit, PTL DEF Spec

(* What is_valid accepts of tables written together has, after any         *)
(* sequence of calls, appends that fail and restarts, all rows of the      *)
(* graph that was written, and those of the subjects of the graph at hand. *)
THEOREM CachedAlwaysUnlessTorn == Spec => []CachedUnlessTorn
<1>1. Disk /\ [Next]_vars => Disk' BY EveryStepKeeps DEF StepKeeps
<1>2. ASSUME Disk PROVE CachedUnlessTorn
  <2>1. SUFFICES ASSUME ~torn, IsValid
                 PROVE  /\ Fingerprint(written) = Fingerprint(content)
                        /\ RowsOf(written) \subseteq embeddings
                        /\ Cardinality(content) <= SampleSize =>
                             \A t \in content : <<1, t[1]>> \in embeddings
    BY DEF CachedUnlessTorn
  <2>2. content \in SUBSET Triple /\ written \in SUBSET Triple /\ meta = Fingerprint(content)
    BY <1>2, <2>1 DEF Disk, TypeOK, IsValid
  <2>3. meta # NoTable BY <2>2, NoTableIsNoValue
  <2>4. meta = Fingerprint(written) /\ RowsOf(written) \subseteq embeddings
    BY <1>2, <2>1, <2>3 DEF Disk, WrittenFor
  <2>5. ASSUME Cardinality(content) <= SampleSize, NEW t \in content
        PROVE  <<1, t[1]>> \in embeddings
    <3>1. PICK u \in written : u[1] = t[1] BY <2>2, <2>4, <2>5, FingerprintsShowSubjects
    <3>2. <<1, u[1]>> \in RowsOf(written) BY DEF RowsOf
    <3> QED BY <2>4, <3>1, <3>2
  <2> QED BY <2>2, <2>4, <2>5
<1> QED BY <1>1, <1>2, DiskInit, PTL DEF Spec

(* The index in memory covers the graph, but for what came in by addN or   *)
(* was not in the graph it was loaded for, unless it was loaded from a     *)
(* torn directory.                                                         *)
THEOREM IndexAlwaysCovers == Spec => []IndexCovers
<1>1. Disk /\ Covering /\ [Next]_vars => Disk' /\ Covering'
  BY EveryStepKeeps DEF StepKeeps
<1>2. Covering => IndexCovers BY DEF Covering, IndexCovers
<1> QED BY <1>1, <1>2, DiskInit, PTL DEF Spec
=============================================================================
