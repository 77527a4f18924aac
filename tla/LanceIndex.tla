----------------------------- MODULE LanceIndex -----------------------------
(***************************************************************************)
(* spicy.store.LanceStore: the vector index of a SpicyGraph kept in two    *)
(* tables on disk, "embeddings" with the rows and "meta" with a fingerprint*)
(* of the graph they were computed for.  The next process loads the rows   *)
(* instead of embedding again when the fingerprint fits its graph.         *)
(*                                                                         *)
(* One process at a time works on the directory.  write() replaces the     *)
(* tables one after the other, so a crash or an error may come between.    *)
(* A row stands for all chunks of a term: <<component, key>>.              *)
(***************************************************************************)
EXTENDS Integers, FiniteSets, FiniteSetsExt

CONSTANTS
  Triple,       \* triples; the subject is a natural number, its sort order
  SampleSize,   \* 500 in _graph_hash
  Appends,      \* how an append may end: "added", "replaced", "lost"
  Faults,       \* may write() be cut off between the two tables?
  NoTable       \* a table that was never created

ASSUME SampleIsPositive == SampleSize \in Nat \ {0}
ASSUME TriplesAreFinite == IsFiniteSet(Triple) /\ \A t \in Triple : t[1] \in Nat
ASSUME AppendsKnown == Appends \subseteq {"added", "replaced", "lost"}

VARIABLES
  content,      \* the triples of the graph
  enabled,      \* _vector_enabled
  attached,     \* _store is a LanceStore
  indexed,      \* the rows of _vector_index
  writing,      \* the rows write() has put on disk, NoTable outside write()
  embeddings,   \* the table "embeddings"
  meta,         \* the fingerprint in the table "meta"
  (* history, to state properties with *)
  written,      \* the graph for which the last write() went through
  bypassed,     \* triples addN brought in behind the index's back, and those
                \* of a graph that was taken for the one written
  torn,         \* was "embeddings" replaced and "meta" not?
  doubtful      \* was the index loaded from a torn directory?

processVars == <<content, enabled, attached, indexed, bypassed, doubtful>>
diskVars == <<embeddings, meta, written, torn>>
vars == <<processVars, writing, diskVars>>

RowsOf(T) == {<<c, t[c]>> : t \in T, c \in 1..3}

(* _graph_hash: the first SampleSize subjects in sort order, a subject as  *)
(* often as it has triples, and the number of triples.                     *)
Fingerprint(T) ==
  LET Before(s) == Cardinality({t \in T : t[1] < s})
      Of(s) == Cardinality({t \in T : t[1] = s})
  IN  [sample |-> {<<s, Min({Of(s), SampleSize - Before(s)})>> :
                     s \in {t[1] : t \in {u \in T : Before(u[1]) < SampleSize}}},
       count |-> Cardinality(T)]

ASSUME NoTableIsNoValue ==
  /\ \A R \in SUBSET RowsOf(Triple) : R # NoTable
  /\ \A T \in SUBSET Triple : Fingerprint(T) # NoTable

(* LanceStore.is_valid *)
IsValid == meta = Fingerprint(content)

Init ==
  /\ content = {} /\ enabled = FALSE /\ attached = FALSE /\ indexed = {}
  /\ writing = NoTable
  /\ embeddings = NoTable
  /\ meta = NoTable
  /\ written = {} /\ bypassed = {} /\ torn = FALSE /\ doubtful = FALSE

Idle == writing = NoTable

-----------------------------------------------------------------------------
(* What an append may leave of a table, and whether it tears the directory.*)
(* LanceStore.append replaces the table by the new rows at any error, and  *)
(* an error of the replacement reaches the caller.  A table that does not  *)
(* exist is created.                                                       *)
Appended(table, new, outcome) ==
  CASE outcome = "lost" -> [table |-> table, torn |-> torn]
    [] outcome = "added" \/ (outcome = "replaced" /\ table = NoTable) ->
         [table |-> IF table = NoTable THEN new ELSE table \cup new, torn |-> torn]
    [] OTHER -> [table |-> new, torn |-> TRUE]

(* Nothing to append, or nowhere. *)
Kept == [table |-> embeddings, torn |-> torn]

(* The index in use is one of all the triples of the graph. *)
IndexedAll(rows) ==
  /\ indexed' = rows
  /\ enabled' = TRUE
  /\ bypassed' = {}

(* enable_vector_search(path) for the triples T, disk being the table as   *)
(* it then stands.  A table with the fingerprint of T is loaded, though it *)
(* may have been written for another graph that has the same.              *)
Load(T, disk) ==
  /\ meta = Fingerprint(T)
  /\ indexed' = disk.table
  /\ enabled' = TRUE
  /\ bypassed' = T \ written
  /\ doubtful' = disk.torn
  /\ embeddings' = disk.table /\ torn' = disk.torn
  /\ UNCHANGED writing

(* Otherwise the index is built; write() returns early when it is empty,   *)
(* and otherwise replaces the rows and goes on with WriteMeta.  Until then *)
(* the graph keeps the rows old of its former index.                       *)
Build(T, disk, old) ==
  /\ meta # Fingerprint(T)
  /\ IF T = {}
     THEN /\ IndexedAll({}) /\ doubtful' = FALSE
          /\ embeddings' = disk.table /\ torn' = disk.torn
          /\ UNCHANGED writing
     ELSE /\ embeddings' = RowsOf(T) /\ torn' = TRUE
          /\ writing' = RowsOf(T)
          /\ indexed' = old
          /\ UNCHANGED <<enabled, bypassed, doubtful>>

EnablePersistent ==
  /\ Idle
  /\ attached' = TRUE
  /\ Load(content, Kept) \/ Build(content, Kept, indexed)
  /\ UNCHANGED <<content, meta, written>>

(* create_table("embeddings") raises: the store stays attached. *)
EnableFails ==
  /\ Faults /\ Idle
  /\ meta # Fingerprint(content) /\ content # {}
  /\ attached' = TRUE
  /\ UNCHANGED <<content, enabled, indexed, bypassed, doubtful, writing, diskVars>>

(* enable_vector_search() leaves the store of an earlier call attached. *)
EnableInMemory ==
  /\ Idle
  /\ IndexedAll(RowsOf(content))
  /\ doubtful' = FALSE
  /\ UNCHANGED <<content, attached, writing, diskVars>>

(* A write() that keeps a fingerprint it finds. *)
WriteMetaOnce ==
  /\ ~Idle
  /\ meta' = IF meta = NoTable THEN Fingerprint(content) ELSE meta
  /\ written' = content
  /\ writing' = NoTable /\ torn' = FALSE
  /\ IndexedAll(writing) /\ doubtful' = FALSE
  /\ UNCHANGED <<content, attached, embeddings>>

(* The second half of write(), and the return to enable_vector_search. *)
WriteMeta ==
  /\ ~Idle
  /\ meta' = Fingerprint(content)
  /\ written' = content
  /\ writing' = NoTable /\ torn' = FALSE
  /\ IndexedAll(writing) /\ doubtful' = FALSE
  /\ UNCHANGED <<content, attached, embeddings>>

(* create_table("meta") raises: the caller keeps the index it had. *)
WriteFails ==
  /\ Faults /\ ~Idle
  /\ writing' = NoTable
  /\ UNCHANGED <<processVars, diskVars>>

(* The process ends, or dies in the middle of write(); the next one starts *)
(* with an empty graph.                                                    *)
Restart ==
  /\ Idle \/ Faults
  /\ content' = {} /\ enabled' = FALSE /\ attached' = FALSE /\ indexed' = {}
  /\ bypassed' = {} /\ doubtful' = FALSE
  /\ writing' = NoTable
  /\ UNCHANGED diskVars

Stores(new) == enabled /\ attached /\ new # {}

(* add_triple: new rows go to the store, which may fail. *)
AppendRows(new) ==
  \E disk \in IF Stores(new) THEN {Appended(embeddings, new, o) : o \in Appends} ELSE {Kept} :
    embeddings' = disk.table /\ torn' = disk.torn

(* An add_triple that stores rows and forgets its own index. *)
AddUnindexed(t) ==
  /\ Idle
  /\ content' = content \cup {t}
  /\ AppendRows(RowsOf({t}) \ indexed)
  /\ bypassed' = bypassed \ {t}
  /\ UNCHANGED <<enabled, attached, indexed, doubtful, writing, meta, written>>

(* SpicyGraph.add: new rows go to the index and then to the store. *)
Add(t) ==
  /\ Idle
  /\ content' = content \cup {t}
  /\ indexed' = IF enabled THEN indexed \cup RowsOf({t}) ELSE indexed
  /\ AppendRows(RowsOf({t}) \ indexed)
  /\ bypassed' = bypassed \ {t}
  /\ UNCHANGED <<enabled, attached, doubtful, writing, meta, written>>

(* What the parser's adds of T leave on disk: all new rows are added, or   *)
(* one add replaces the table and those before it, of the triples P, are   *)
(* gone.  (An error that reaches the parser ends it: those are Adds.)      *)
Parsed(T) ==
  LET new == RowsOf(T) \ indexed IN
  IF ~Stores(new) THEN {Kept}
  ELSE {Appended(embeddings, new, "added") : o \in Appends \cap {"added"}} \cup
       {Appended(embeddings, new \ RowsOf(P), o) :
          P \in {Q \in SUBSET T : ~(new \subseteq RowsOf(Q))}, o \in Appends \cap {"replaced"}}

(* SpicyGraph.parse: every triple goes through add(), then the index is    *)
(* built anew or loaded, from the directory if one is attached.            *)
Parse(T) ==
  LET whole == content \cup T IN
  /\ Idle
  /\ content' = whole
  /\ \/ ~enabled /\ UNCHANGED <<enabled, indexed, bypassed, doubtful, writing, embeddings, torn>>
     \/ /\ enabled /\ attached
        /\ \E disk \in Parsed(T) : Load(whole, disk) \/ Build(whole, disk, indexed \cup RowsOf(T))
     \/ /\ enabled /\ ~attached
        /\ IndexedAll(RowsOf(whole)) /\ doubtful' = FALSE
        /\ UNCHANGED <<writing, embeddings, torn>>
  /\ UNCHANGED <<attached, meta, written>>

(* Graph.remove and Graph.addN, which SpicyGraph inherits. *)
Remove(t) ==
  /\ Idle /\ t \in content
  /\ content' = content \ {t}
  /\ bypassed' = bypassed \ {t}
  /\ UNCHANGED <<enabled, attached, indexed, doubtful, writing, diskVars>>

AddN(T) ==
  /\ Idle
  /\ content' = content \cup T
  /\ bypassed' = IF enabled THEN bypassed \cup (T \ content) ELSE bypassed
  /\ UNCHANGED <<enabled, attached, indexed, doubtful, writing, diskVars>>

Next ==
  \/ EnablePersistent \/ EnableInMemory \/ EnableFails
  \/ WriteMeta \/ WriteFails \/ Restart
  \/ \E t \in Triple : Add(t) \/ Remove(t)
  \/ \E T \in SUBSET Triple : Parse(T) \/ AddN(T)

Spec == Init /\ [][Next]_vars

-----------------------------------------------------------------------------
(* Properties. *)

(* The variables hold values of their Python types, and a fingerprint is   *)
(* never on disk without rows.                                             *)
TypeOK ==
  /\ content \subseteq Triple /\ bypassed \subseteq content
  /\ enabled \in BOOLEAN /\ attached \in BOOLEAN
  /\ torn \in BOOLEAN /\ doubtful \in BOOLEAN
  /\ indexed \subseteq RowsOf(Triple)
  /\ writing = NoTable \/ writing \subseteq RowsOf(Triple)
  /\ embeddings = NoTable \/ embeddings \subseteq RowsOf(Triple)
  /\ meta = NoTable \/ meta \in {Fingerprint(T) : T \in SUBSET Triple}
  /\ written \subseteq Triple
  /\ meta # NoTable => embeddings # NoTable

(* What is_valid accepts, as long as the two tables were written together: *)
(* all rows of the graph that was written are there, whatever was added,   *)
(* parsed, removed and appended since by this process or an earlier one;   *)
(* and the graph at hand is that one, or one is_valid cannot tell from it. *)
(* It cannot when graphs differ in predicates and objects only, so that    *)
(* "True if the cached index matches the current graph" is too much to     *)
(* say; but the rows of its subjects are there, if the sample takes all.   *)
CachedUnlessTorn ==
  ~torn /\ IsValid =>
    /\ Fingerprint(written) = Fingerprint(content) /\ RowsOf(written) \subseteq embeddings
    /\ Cardinality(content) <= SampleSize => \A t \in content : <<1, t[1]>> \in embeddings

(* While vector search is enabled the index in memory covers the graph: it *)
(* was built, or loaded from tables written together for this graph, and   *)
(* then "incrementally updated", also when the store failed meanwhile.  Of *)
(* a graph that is_valid took for another it covers what the two share.    *)
IndexCovers ==
  enabled /\ Idle /\ ~doubtful => RowsOf(content \ bypassed) \subseteq indexed
=============================================================================
