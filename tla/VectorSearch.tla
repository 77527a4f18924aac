---------------------------- MODULE VectorSearch ----------------------------
(***************************************************************************)
(* spicy: graphs whose SPARQL filters rank terms by embedding similarity.  *)
(*                                                                         *)
(* A SpicyGraph keeps a VectorIndex of the terms in each component of its  *)
(* triples.  The SPARQL functions are registered once for the process and  *)
(* read one global, the active index; the index caches scores, and the     *)
(* functions cache top-k sets, globally.                                   *)
(*                                                                         *)
(* An embedding is represented by the text that was embedded: a score is a *)
(* function of the query and of that text, so an index is a set of entries *)
(* <<component, key, text>>, where component is the position in a triple   *)
(* and key is str(term), by which the index knows the term.                *)
(***************************************************************************)
EXTENDS Integers, FiniteSets

CONSTANTS
  SpicyGraphs,    \* the SpicyGraph objects of one process
  Triple,         \* triples of terms
  KeyOf, TextOf,  \* str(term) and _term_text(term), functions of the term
  Asked,          \* the components queries ask about, a subset of 1..3
  Query, K,       \* query strings and sizes of top-k sets
  Similarity,     \* Similarity[q][text], the cosine of the embeddings
  NoIndex         \* _active_index before the first enable_vector_search

ASSUME AskedIsComponent == Asked \subseteq 1..3
ASSUME NoIndexIsNoGraph == NoIndex \notin SpicyGraphs

VARIABLES
  content,      \* content[g]: the triples of the graph
  enabled,      \* the graphs with _vector_enabled
  chunks,       \* chunks[g]: VectorIndex._chunks of the graph's index
  rows,         \* rows[g]: _chunk_keys and _matrices, flattened from chunks
  scoreCache,   \* scoreCache[g]: (component, query) -> the entries scored
  active,       \* the graph whose index _active_index is
  topKCache,    \* _top_k_cache: (component, query, k) -> keys
  bypassed      \* bypassed[g]: triples addN brought in behind the index's back

indexVars == <<chunks, rows, scoreCache>>
vars == <<content, enabled, indexVars, active, topKCache, bypassed>>

Component == 1..3
Entry(t, c) == <<c, KeyOf[t[c]], TextOf[t[c]]>>
EntriesOf(T) == {Entry(t, c) : t \in T, c \in Component}
KeysIn(I) == {<<e[1], e[2]>> : e \in I}

NoCache == [x \in {} |-> {}]
Put(f, k, v) == [x \in DOMAIN f \cup {k} |-> IF x = k THEN v ELSE f[x]]

(* A component has one entry for a key. *)
OneForKey(I) == \A e, f \in I : e[1] = f[1] /\ e[2] = f[2] => e = f

(* The indices build() may make of the triples T: one entry for each key   *)
(* of a component.  Two terms with one key leave the entry of whichever    *)
(* comes last, and sets have no order.                                     *)
Builds(T) ==
  {I \in SUBSET EntriesOf(T) : KeysIn(I) = KeysIn(EntriesOf(T)) /\ OneForKey(I)}

Init ==
  /\ content = [g \in SpicyGraphs |-> {}]
  /\ enabled = {}
  /\ chunks = [g \in SpicyGraphs |-> {}]
  /\ rows = [g \in SpicyGraphs |-> {}]
  /\ scoreCache = [g \in SpicyGraphs |-> NoCache]
  /\ active = NoIndex
  /\ topKCache = NoCache
  /\ bypassed = [g \in SpicyGraphs |-> {}]

-----------------------------------------------------------------------------
(* A rebuild that leaves the scores of the smaller index in the cache. *)
RebuildKeepsScores(g) == rows' = [rows EXCEPT ![g] = chunks'[g]] /\ UNCHANGED scoreCache

(* _rebuild_matrices *)
Rebuild(g) ==
  /\ rows' = [rows EXCEPT ![g] = chunks'[g]]
  /\ scoreCache' = [scoreCache EXCEPT ![g] = NoCache]

(* An enable_vector_search that keeps the top-k sets of another index. *)
ActivateKeepsTopK(g) ==
  /\ active' = g
  /\ enabled' = enabled \cup {g}
  /\ UNCHANGED topKCache

(* set_active_index, register_functions and _vector_enabled = True *)
Activate(g) ==
  /\ active' = g
  /\ topKCache' = NoCache
  /\ enabled' = enabled \cup {g}

(* enable_vector_search without a path, for the triples T of the graph. *)
EnableOn(g, T) ==
  /\ \E I \in Builds(T) : chunks' = [chunks EXCEPT ![g] = I]
  /\ Rebuild(g)
  /\ Activate(g)
  /\ bypassed' = [bypassed EXCEPT ![g] = {}]

Enable(g) == EnableOn(g, content[g]) /\ UNCHANGED content

(* An add_triple that embeds subjects and predicates only. *)
UnseenButObject(g, t) ==
  {Entry(t, c) : c \in {d \in {1, 2} : <<d, KeyOf[t[d]]>> \notin KeysIn(chunks[g])}}

(* The entries add_triple makes: a key the component has is left alone. *)
Unseen(g, t) ==
  {Entry(t, c) : c \in {d \in Component : <<d, KeyOf[t[d]]>> \notin KeysIn(chunks[g])}}

(* SpicyGraph.add *)
Add(g, t) ==
  /\ content' = [content EXCEPT ![g] = @ \cup {t}]
  /\ IF g \in enabled /\ Unseen(g, t) # {}
     THEN /\ chunks' = [chunks EXCEPT ![g] = @ \cup Unseen(g, t)]
          /\ Rebuild(g)
     ELSE UNCHANGED indexVars
  /\ bypassed' = [bypassed EXCEPT ![g] = @ \ {t}]
  /\ UNCHANGED <<enabled, active, topKCache>>

(* SpicyGraph.parse: the parser adds the triples one by one through add(), *)
(* and a new index of the whole graph then replaces what add() did.        *)
Parse(g, T) ==
  /\ content' = [content EXCEPT ![g] = @ \cup T]
  /\ IF g \in enabled
     THEN EnableOn(g, content'[g])
     ELSE UNCHANGED <<enabled, indexVars, active, topKCache, bypassed>>

(* Graph.addN and Graph.__iadd__, which SpicyGraph inherits. *)
AddN(g, T) ==
  /\ content' = [content EXCEPT ![g] = @ \cup T]
  /\ bypassed' =
       [bypassed EXCEPT ![g] = IF g \in enabled THEN @ \cup (T \ content[g]) ELSE @]
  /\ UNCHANGED <<enabled, indexVars, active, topKCache>>

(* Graph.remove, which SpicyGraph inherits. *)
RemoveTriple(g, t) ==
  /\ t \in content[g]
  /\ content' = [content EXCEPT ![g] = @ \ {t}]
  /\ bypassed' = [bypassed EXCEPT ![g] = @ \ {t}]
  /\ UNCHANGED <<enabled, indexVars, active, topKCache>>

-----------------------------------------------------------------------------
(* What get_all_scores computes for component c; every query scores the    *)
(* same entries, so the scores are those entries.                          *)
Scored(g, c) == {e \in rows[g] : e[1] = c}

(* get_all_scores: the entries it returns, and the cache it leaves. *)
Scores(g, c, q) ==
  IF <<c, q>> \in DOMAIN scoreCache[g] THEN scoreCache[g][<<c, q>>] ELSE Scored(g, c)

CacheScores(g, c, q) ==
  scoreCache' = [scoreCache EXCEPT ![g] = Put(@, <<c, q>>, Scores(g, c, q))]

(* The results top_k may have: the best k keys of the entries S.           *)
TopKSets(S, q, k) ==
  {{e[2] : e \in best} : best \in
     {B \in SUBSET S :
        /\ Cardinality(B) = IF Cardinality(S) < k THEN Cardinality(S) ELSE k
        /\ \A e \in B, d \in S \ B : Similarity[q][e[3]] >= Similarity[q][d[3]]}}

(* A filter with ext:cosine_<component>(?term, q): raises without an index *)
Cosine(c, q) ==
  /\ active # NoIndex
  /\ CacheScores(active, c, q)
  /\ UNCHANGED <<content, enabled, chunks, rows, active, topKCache, bypassed>>

(* A filter with ext:top_k_<component>(?term, q, k) *)
TopK(c, q, k) ==
  /\ active # NoIndex
  /\ IF <<c, q, k>> \in DOMAIN topKCache
     THEN UNCHANGED <<scoreCache, topKCache>>
     ELSE /\ CacheScores(active, c, q)
          /\ \E best \in TopKSets(Scores(active, c, q), q, k) :
               topKCache' = Put(topKCache, <<c, q, k>>, best)
  /\ UNCHANGED <<content, enabled, chunks, rows, active, bypassed>>

Next ==
  \/ \E g \in SpicyGraphs :
       \/ Enable(g)
       \/ \E t \in Triple : Add(g, t) \/ RemoveTriple(g, t)
       \/ \E T \in SUBSET Triple : Parse(g, T) \/ AddN(g, T)
  \/ \E c \in Asked, q \in Query : Cosine(c, q) \/ \E k \in K : TopK(c, q, k)

Spec == Init /\ [][Next]_vars

-----------------------------------------------------------------------------
(* Properties. *)

(* An index has at most one entry for a key of a component, and belongs to *)
(* a graph that was enabled; the active one does.                          *)
TypeOK ==
  /\ \A g \in SpicyGraphs :
       /\ content[g] \subseteq Triple
       /\ chunks[g] \subseteq EntriesOf(Triple)
       /\ OneForKey(chunks[g])
       /\ g \notin enabled => chunks[g] = {}
       /\ DOMAIN scoreCache[g] \subseteq Asked \X Query
  /\ enabled \subseteq SpicyGraphs
  /\ active \in enabled \cup {NoIndex}
  /\ DOMAIN topKCache \subseteq Asked \X Query \X K

(* "Caches the resulting dict": every cached score is the one the matrices *)
(* would give now, and the matrices hold what was embedded.                *)
ScoresFresh ==
  \A g \in SpicyGraphs :
    /\ rows[g] = chunks[g]
    /\ \A x \in DOMAIN scoreCache[g] : scoreCache[g][x] = Scored(g, x[1])

(* A top-k set answered for the active index names terms of that index,    *)
(* never of the one that was active before.                                *)
TopKOfActive ==
  \A x \in DOMAIN topKCache :
    \A key \in topKCache[x] : <<x[1], key>> \in KeysIn(chunks[active])

(* A term that add(), parse() or enable_vector_search brought in has a     *)
(* score in every query of its own graph's index, through the matrices or  *)
(* through the scores that were cached before it came.                     *)
KeysScored ==
  \A g \in enabled : \A t \in content[g] \ bypassed[g], c \in Asked, q \in Query :
    KeyOf[t[c]] \in {e[2] : e \in Scores(g, c, q)}
=============================================================================
