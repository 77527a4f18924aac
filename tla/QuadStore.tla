----------------------------- MODULE QuadStore -----------------------------
(***************************************************************************)
(* What a context-aware, formula-aware store promises to its callers, with *)
(* no index and no bookkeeping: every context (a named graph or a quoted   *)
(* formula) holds a set of triples, and the conjunctive graph -- the store *)
(* asked with context None -- shows what some context asserts.  A graph    *)
(* asserts all it holds; a formula asserts what QuotedGraph.addN gave it,  *)
(* for Store.addN leaves out that the statement is quoted.                 *)
(***************************************************************************)

EXTENDS Integers

CONSTANTS
  Triple,     \* all triples, each a tuple <<subject, predicate, object>>
  Pattern,    \* triple patterns, tuples whose members may be Any
  Graphs,     \* contexts whose statements are asserted (class Graph)
  Formulas,   \* contexts whose statements are quoted (class QuotedGraph)
  Any         \* a wildcard position of a pattern

VARIABLES
  content,    \* content[c]: the triples of context c
  union,      \* the triples of the conjunctive graph
  voiced      \* the pairs <<t, f>> of a statement and a formula asserting it

abstractVars == <<content, union, voiced>>

Contexts == Graphs \cup Formulas

Matches(t, pat) == \A i \in 1..3 : pat[i] = Any \/ pat[i] = t[i]

Init ==
  /\ content = [c \in Contexts |-> {}]
  /\ union = {} /\ voiced = {}

Holding(T, c) == content' = [content EXCEPT ![c] = @ \cup T]

(* Graph.add and addN. *)
Insert(T, g) ==
  /\ Holding(T, g)
  /\ union' = union \cup T
  /\ UNCHANGED voiced

(* QuotedGraph.add: what is only quoted is not in the conjunctive graph.   *)
(* Stores differ in whether a statement that was asserted is quoted again; *)
(* it stays in the conjunctive graph until it is removed somewhere.        *)
Quote(T, f) ==
  /\ Holding(T, f)
  /\ \E S \in SUBSET T : voiced' = voiced \ (S \X {f})
  /\ UNCHANGED union

(* QuotedGraph.addN.  Stores differ in whether it asserts what the formula *)
(* quotes already.                                                         *)
Voice(T, f) ==
  /\ Holding(T, f)
  /\ \E S \in SUBSET T :
       /\ T \ content[f] \subseteq S
       /\ voiced' = voiced \cup (S \X {f})
       /\ union' = union \cup S

(* Does a graph or a formula still assert t after the step? *)
AssertedNext(t) ==
  (\E g \in Graphs : t \in content'[g]) \/ (\E f \in Formulas : <<t, f>> \in voiced')

(* Remove what the pattern matches in one context, and nowhere else.  What *)
(* no context asserts any more leaves the conjunctive graph.               *)
Delete(pat, c) ==
  LET victims == {t \in content[c] : Matches(t, pat)} IN
  /\ content' = [content EXCEPT ![c] = @ \ victims]
  /\ voiced' = voiced \ (victims \X {c})
  /\ union' = {t \in union : t \in victims => AssertedNext(t)}

(* Remove what the pattern matches in the conjunctive graph from every     *)
(* context that asserts it; a statement that is only quoted is not visible *)
(* in the conjunctive graph and stays.  Stores differ in whether it stays  *)
(* where it is quoted while it is asserted elsewhere.                      *)
DeleteEverywhere(pat) ==
  LET victims == {t \in union : Matches(t, pat)} IN
  /\ \E kept \in SUBSET Formulas :
       content' = [c \in Contexts |->
                    IF c \in kept THEN {t \in content[c] : t \in victims => <<t, c>> \notin voiced}
                    ELSE content[c] \ victims]
  /\ voiced' = voiced \ (victims \X Formulas)
  /\ union' = union \ victims

Next ==
  \/ \E T \in SUBSET Triple, g \in Graphs : Insert(T, g)
  \/ \E T \in SUBSET Triple, f \in Formulas : Quote(T, f) \/ Voice(T, f)
  \/ \E pat \in Pattern, c \in Contexts : Delete(pat, c)
  \/ \E pat \in Pattern : DeleteEverywhere(pat)

Spec == Init /\ [][Next]_abstractVars
=============================================================================
