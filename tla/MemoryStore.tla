---------------------------- MODULE MemoryStore ----------------------------
(***************************************************************************)
(* rdflib.plugins.stores.memory.Memory: the default store of every Graph.  *)
(*                                                                         *)
(* A triple is kept once in three indices, and the contexts it belongs to  *)
(* are kept twice: from the triple to its contexts, and from the context   *)
(* to its triples.  The first of the two maps is compressed: the contexts  *)
(* of the first triple ever added become the default, and a triple whose   *)
(* contexts are the default has no entry at all.                           *)
(*                                                                         *)
(* The nested dictionaries spo[s][p][o], pos[p][o][s] and osp[o][s][p] are *)
(* modelled as the sets of triples they hold; a Python dictionary of       *)
(* contexts is a function whose domain is the set of its keys.             *)
(***************************************************************************)
EXTENDS FiniteSets, Integers

CONSTANTS
  Triple,     \* triples <<subject, predicate, object>>
  Pattern,    \* patterns callers remove or iterate
  Graphs,     \* asserted contexts: rdflib.graph.Graph
  Formulas,   \* quoted contexts: rdflib.graph.QuotedGraph
  Any,        \* None in a position of a pattern
  None,       \* the context key None: the conjunctive (default) graph
  NoDict      \* __defaultContexts before the first triple is added

Contexts == Graphs \cup Formulas
ContextKey == Contexts \cup {None}

All == <<Any, Any, Any>>

(* A dictionary from context keys to the quoted flag. *)
ContextDict == UNION {[K -> BOOLEAN] : K \in SUBSET ContextKey}

ASSUME KindsDisjoint == Graphs \cap Formulas = {}
ASSUME NoneIsNoContext == None \notin Contexts
ASSUME PatternHasAll == All \in Pattern
ASSUME NoDictIsNoDict == NoDict \notin ContextDict

VARIABLES
  spo, pos, osp,      \* the triples of __spo, __pos and __osp
  tripleContexts,     \* __tripleContexts: triple -> (context key -> quoted)
  defaultContexts,    \* __defaultContexts
  contextTriples,     \* __contextTriples: context key -> set of triples
  allContexts         \* __all_contexts

indexVars == <<spo, pos, osp>>
contextVars == <<tripleContexts, defaultContexts, contextTriples, allContexts>>
vars == <<spo, pos, osp, tripleContexts, defaultContexts, contextTriples, allContexts>>

Matches(t, pat) == \A i \in 1..3 : pat[i] = Any \/ pat[i] = t[i]

(* Dictionary assignment and deletion. *)
Put(f, k, v) == [x \in DOMAIN f \cup {k} |-> IF x = k THEN v ELSE f[x]]
Drop(f, K) == [x \in DOMAIN f \ K |-> f[x]]
EmptyDict == [x \in {} |-> {}]

-----------------------------------------------------------------------------
(* __get_context_for_triple, and the same lookup in __triple_has_context   *)
(* and __remove_triple_context: a triple with no entry of its own has the  *)
(* default contexts.                                                       *)
ContextsOf(t) ==
  IF t \in DOMAIN tripleContexts THEN tripleContexts[t] ELSE defaultContexts

HasContext(t, k) == k \in DOMAIN ContextsOf(t)

Unquoted(dict) == {k \in DOMAIN dict : ~dict[k]}

(* The index triples() walks: by subject if given, else by predicate,      *)
(* else by object.                                                         *)
IndexFor(pat) ==
  IF pat[1] # Any THEN spo ELSE IF pat[2] # Any THEN pos ELSE osp

(* The triples a generator run to its end without interruption yields. *)
TriplesMatching(pat, k) ==
  IF pat = All
  THEN IF k \in DOMAIN contextTriples THEN contextTriples[k] ELSE {}
  ELSE {t \in IndexFor(pat) : Matches(t, pat) /\ HasContext(t, k)}

-----------------------------------------------------------------------------
Init ==
  /\ spo = {} /\ pos = {} /\ osp = {}
  /\ tripleContexts = EmptyDict
  /\ defaultContexts = NoDict
  /\ contextTriples = [k \in {None} |-> {}]
  /\ allContexts = {}

(* The contexts of t once __add_triple_context has recorded context c. *)
AddedContexts(t, c, quoted) ==
  LET old == IF t \in spo THEN ContextsOf(t) ELSE EmptyDict
      own == Put(old, c, quoted)
  IN  IF quoted THEN own ELSE Put(own, None, FALSE)

(* An add() that records an asserted triple in its own context only. *)
AddedToOneContext(T, c, quoted) ==
  [k \in DOMAIN contextTriples \cup {c} |->
     (IF k \in DOMAIN contextTriples THEN contextTriples[k] ELSE {})
     \cup (IF k = c THEN T ELSE {})]

(* __contextTriples once the triples T are recorded in context c. *)
AddedToContext(T, c, quoted) ==
  [k \in DOMAIN contextTriples \cup {c} |->
     (IF k \in DOMAIN contextTriples THEN contextTriples[k] ELSE {})
     \cup (IF k = c \/ (k = None /\ ~quoted) THEN T ELSE {})]

(* Memory.add for each triple of T in turn.  The triples of one call do    *)
(* not affect each other: each changes only its own entries, and the       *)
(* default contexts are set once, when no triple exists yet, to what every *)
(* triple of the call gets.                                                *)
AddAll(T, c, quoted) ==
  LET fresh == T \ spo
      first == CHOOSE t \in T : TRUE
      default == IF defaultContexts = NoDict
                 THEN AddedContexts(first, c, quoted) ELSE defaultContexts
      compact == {t \in T : AddedContexts(t, c, quoted) = default}
  IN  /\ T # {}
      /\ spo' = spo \cup T
      /\ pos' = pos \cup fresh
      /\ osp' = osp \cup fresh
      /\ defaultContexts' = default
      /\ tripleContexts' =
           [t \in (DOMAIN tripleContexts \cup T) \ compact |->
              IF t \in T THEN AddedContexts(t, c, quoted) ELSE tripleContexts[t]]
      /\ contextTriples' = AddedToContext(T, c, quoted)
      /\ allContexts' = allContexts \cup {c}

(* Graph.add, and Graph.addN through Store.addN. *)
GraphAdd(T, g) == g \in Graphs /\ AddAll(T, g, FALSE)

(* QuotedGraph.add *)
QuotedAdd(t, f) == f \in Formulas /\ AddAll({t}, f, TRUE)

(* QuotedGraph.addN hands its quads to Store.addN, which calls add without *)
(* the quoted flag: the formula asserts these statements, and the default  *)
(* graph shows them.                                                       *)
QuotedAddN(T, f) == f \in Formulas /\ AddAll(T, f, FALSE)

(* A remove() that does not ask which context it was called for. *)
RemainingNowhere(t, k) == EmptyDict

(* What is left of the contexts of t after remove() dropped key k, or      *)
(* every key when k is None, and the default graph with the last asserted  *)
(* context.                                                                *)
RemainingContexts(t, k) ==
  LET kept == IF k = None THEN EmptyDict ELSE Drop(ContextsOf(t), {k})
  IN  IF Unquoted(kept) = {None} THEN Drop(kept, {None}) ELSE kept

(* The triples remove() takes out of the store altogether. *)
Gone(victims, k) == {t \in victims : DOMAIN RemainingContexts(t, k) = {}}

(* A remove() that deletes a triple from two of its three indices. *)
DeindexForgetsOsp(T) == spo' = spo \ T /\ pos' = pos \ T /\ UNCHANGED osp

(* The three del statements at the end of remove(). *)
Deindex(T) == spo' = spo \ T /\ pos' = pos \ T /\ osp' = osp \ T

(* A remove() that stores an entry equal to the default. *)
DropEntriesUncompressed(victims, k) ==
  tripleContexts' =
    [t \in (DOMAIN tripleContexts \cup victims) \ Gone(victims, k) |->
       IF t \in victims THEN RemainingContexts(t, k) ELSE tripleContexts[t]]

(* __tripleContexts after remove(): __remove_triple_context gives a triple *)
(* an entry of its own, or takes it away when it equals the default.       *)
DropEntries(victims, k) ==
  LET compact == {t \in victims : RemainingContexts(t, k) = defaultContexts}
  IN  tripleContexts' =
        [t \in (DOMAIN tripleContexts \cup victims) \ (Gone(victims, k) \cup compact) |->
           IF t \in victims THEN RemainingContexts(t, k) ELSE tripleContexts[t]]

(* __contextTriples after remove(): a context that was asked for and is    *)
(* left empty disappears, unless it is the default graph.                  *)
DropMembers(victims, k) ==
  LET Lost(key) == {t \in victims : /\ key \in DOMAIN ContextsOf(t)
                                    /\ key \notin DOMAIN RemainingContexts(t, k)}
      left == [key \in DOMAIN contextTriples |-> contextTriples[key] \ Lost(key)]
  IN  contextTriples' =
        Drop(left, {key \in DOMAIN left : key = k /\ k # None /\ left[key] = {}})

(* Memory.remove *)
Remove(pat, k) ==
  LET victims == TriplesMatching(pat, k)
  IN  /\ Deindex(Gone(victims, k))
      /\ DropEntries(victims, k)
      /\ DropMembers(victims, k)
      /\ UNCHANGED defaultContexts

(* Graph.remove passes the graph, ConjunctiveGraph.remove may pass None. *)
RemoveTriples(pat, k) == Remove(pat, k) /\ UNCHANGED allContexts

AddGraph(c) ==
  /\ allContexts' = allContexts \cup {c}
  /\ UNCHANGED <<indexVars, tripleContexts, defaultContexts, contextTriples>>

(* remove_graph *)
RemoveGraph(c) == Remove(All, c) /\ allContexts' = allContexts \ {c}

Next ==
  \/ \E T \in SUBSET Triple, g \in Graphs : GraphAdd(T, g)
  \/ \E t \in Triple, f \in Formulas : QuotedAdd(t, f)
  \/ \E T \in SUBSET Triple, f \in Formulas : QuotedAddN(T, f)
  \/ \E pat \in Pattern, k \in ContextKey : RemoveTriples(pat, k)
  \/ \E c \in Contexts : AddGraph(c) \/ RemoveGraph(c)

Spec == Init /\ [][Next]_vars

-----------------------------------------------------------------------------
(* Properties. *)

(* The variables hold values of their Python types. *)
TypeOK ==
  /\ spo \subseteq Triple /\ pos \subseteq Triple /\ osp \subseteq Triple
  /\ DOMAIN tripleContexts \subseteq Triple
  /\ \A t \in DOMAIN tripleContexts : tripleContexts[t] \in ContextDict
  /\ defaultContexts \in ContextDict \cup {NoDict}
  /\ DOMAIN contextTriples \subseteq ContextKey
  /\ \A k \in DOMAIN contextTriples : contextTriples[k] \subseteq Triple
  /\ allContexts \subseteq Contexts

(* add() skips pos and osp for a triple it finds in spo, remove() deletes  *)
(* from all three: every access path sees the same triples.                *)
IndexesAgree == pos = spo /\ osp = spo

(* The compressed map from a triple to its contexts and the map from a     *)
(* context to its triples are inverse of each other, whichever of the two  *)
(* an operation reads: len(g), g.triples((None, None, None)) and any other *)
(* pattern agree.                                                          *)
MembershipAgrees ==
  \A t \in Triple, k \in ContextKey :
    (k \in DOMAIN contextTriples /\ t \in contextTriples[k])
      <=> (t \in spo /\ HasContext(t, k))

(* No triple stays in the indices once its last context is gone, and no    *)
(* entry of __tripleContexts outlives its triple: a triple added again     *)
(* would come back with the contexts of its former life.                   *)
NoOrphans ==
  /\ DOMAIN tripleContexts \subseteq spo
  /\ \A t \in spo : DOMAIN ContextsOf(t) # {}

(* A triple whose contexts are the default has no entry of its own. *)
CompressedForm ==
  \A t \in DOMAIN tripleContexts : tripleContexts[t] # defaultContexts

(* The three indices and the two maps of contexts stay in step through any *)
(* sequence of add, addN and remove on graphs, formulas and the whole      *)
(* store, quoting or not: each of the four parts is what another operation *)
(* relies on when it finds in one dictionary what it deletes from another. *)
Consistent == IndexesAgree /\ MembershipAgrees /\ NoOrphans /\ CompressedForm

(* The conjunctive graph shows every triple that a graph holds or that a   *)
(* formula asserts, and nothing that no graph and no formula holds: as     *)
(* long as there are no formulas it is the union of the graphs.            *)
ConjunctiveIsUnion ==
  /\ \A t \in spo : Unquoted(ContextsOf(t)) # {} => t \in contextTriples[None]
  /\ \A t \in contextTriples[None] :
       \/ \E g \in Graphs : t \in TriplesMatching(All, g)
       \/ \E f \in Formulas : t \in TriplesMatching(All, f)

(* What the store implements: content, union and the pairs of a statement  *)
(* and a formula whose quoted flag addN left out.                          *)
Content ==
  [c \in Contexts |-> IF c \in DOMAIN contextTriples THEN contextTriples[c] ELSE {}]

Voiced ==
  {v \in Triple \X Formulas :
     v[1] \in spo /\ HasContext(v[1], v[2]) /\ ~ContextsOf(v[1])[v[2]]}

Quads ==
  INSTANCE QuadStore WITH content <- Content, union <- contextTriples[None], voiced <- Voiced

(* The store with all its bookkeeping is a QuadStore: an operation on one  *)
(* context leaves every other alone, and the default graph gains and loses *)
(* what the graphs, and the formulas that assert, gain and lose.           *)
ImplementsQuadStore == Quads!Spec
=============================================================================
