--------------------------- MODULE BerkeleyStore ---------------------------
(***************************************************************************)
(* rdflib.plugins.stores.berkeleydb.BerkeleyDB: three sorted tables of     *)
(* keys "c^s^p^o^", one for each rotation of the triple.  A key of a named *)
(* context has no value; the key of the empty context, which stands for    *)
(* the whole store, has the list of the contexts that assert the triple.   *)
(*                                                                         *)
(* Between two triples a generator yields its caller may change the store. *)
(* As __len__ does, the model takes a cursor to return nothing, and not to *)
(* raise, when there is no later key.  The second thread, which writes the *)
(* tables to disk, is in BerkeleySync.                                     *)
(***************************************************************************)
EXTENDS Integers

CONSTANTS
  Triple, Pattern, Any,
  Graphs, Formulas,  \* the contexts of Graph and of QuotedGraph
  Whole,             \* the empty context
  End,               \* no key
  Id,                \* Id[x]: the number under which the term x is interned
  Readers            \* generators triples() has returned

Contexts == Graphs \cup Formulas
Key == (Contexts \cup {Whole}) \X Triple

ASSUME WholeIsNoContext == Whole \notin Contexts
ASSUME GraphsAreNotFormulas == Graphs \cap Formulas = {}
ASSUME TriplesArePatterns == Triple \subseteq Pattern
ASSUME TriplesBindAll ==
  \A t, u \in Triple : (\A i \in 1..3 : t[i] = Any \/ t[i] = u[i]) => t = u
ASSUME IdsAreDistinct == \A x, y \in DOMAIN Id : Id[x] = Id[y] => x = y
ASSUME TermsAreInterned ==
  \A t \in Triple, i \in 1..3 : t[i] \in DOMAIN Id /\ Id[t[i]] \in Nat
ASSUME EndIsNoTriple == End \notin Triple

VARIABLES
  index,      \* index[i]: the table that starts with position i of a triple
  contexts,   \* the table of contexts
  reader,     \* reader[r]: where generator r stands
  history     \* history[r]: what it yielded and what was stored meanwhile

tables == <<index, contexts>>
reading == <<reader, history>>
vars == <<tables, reading>>

All == <<Any, Any, Any>>
Matches(t, pat) == \A i \in 1..3 : pat[i] = Any \/ pat[i] = t[i]

Held(i, c) == {t \in Triple : <<c, t>> \in DOMAIN index[i]}
Value(i, t) == IF <<Whole, t>> \in DOMAIN index[i] THEN index[i][<<Whole, t>>] ELSE {}

Idle == [state |-> "idle", pat |-> All, context |-> Whole, next |-> End]
NoHistory == [yielded |-> {}, stable |-> {}, removed |-> {}]

Init ==
  /\ index = [i \in 1..3 |-> [k \in {} |-> {}]]
  /\ contexts = {}
  /\ reader = [r \in Readers |-> Idle]
  /\ history = [r \in Readers |-> NoHistory]

-----------------------------------------------------------------------------
(* Keys and their order. *)

Rotated(i, j) == ((i + j - 2) % 3) + 1

(* The number of positions that are bound, from position i on. *)
Bound(pat, i) ==
  CHOOSE n \in 0..3 :
    /\ \A j \in 1..n : pat[Rotated(i, j)] # Any
    /\ n = 3 \/ pat[Rotated(i, n + 1)] = Any

(* __lookup: the table whose keys start with all that is bound; the first  *)
(* one if there are several.                                               *)
Lookup(pat) ==
  CHOOSE i \in 1..3 : \A j \in 1..3 : Bound(pat, j) < Bound(pat, i) \/
                                      (Bound(pat, j) = Bound(pat, i) /\ i <= j)

Precedes(i, t, u) ==
  \E n \in 1..3 : /\ Id[t[Rotated(i, n)]] < Id[u[Rotated(i, n)]]
                  /\ \A j \in 1..(n - 1) : t[Rotated(i, j)] = u[Rotated(i, j)]

Least(i, T) == IF T = {} THEN End ELSE CHOOSE t \in T : \A u \in T \ {t} : Precedes(i, t, u)

(* The triples of a walk: their keys start with the prefix, which has only *)
(* the positions that are bound from the first of the table on.            *)
Range(pat, c) ==
  LET i == Lookup(pat)
      prefix == {Rotated(i, n) : n \in 1..Bound(pat, i)}
  IN  {t \in Held(i, c) : \A j \in prefix : pat[j] = t[j]}

-----------------------------------------------------------------------------
(* Operations. *)

(* What a change is to the readers that are suspended.                     *)
Observed ==
  [r \in Readers |->
    LET w == reader[r]
        held == {t \in Triple : <<w.context, t>> \in DOMAIN index'[1]}
    IN  IF w.state = "open"
        THEN [history[r] EXCEPT !.stable = @ \cap held,
                                !.removed = @ \cup (Held(1, w.context) \ held)]
        ELSE history[r]]

(* The keys add() puts: that of the context and, unless it is quoted, that *)
(* of the whole store.                                                     *)
KeysPut(t, c, quoted) == {<<c, t>>} \cup (IF quoted THEN {} ELSE {<<Whole, t>>})

(* An add() that starts the list of contexts anew. *)
ListedAlone(t, c) == {c}

(* The list of the contexts that assert t, with one more. *)
Listed(t, c) == Value(1, t) \cup {c}

(* add(): what is there already is not put again, whatever quoted says.    *)
(* QuotedGraph.add passes quoted; QuotedGraph.addN, by Store.addN, does    *)
(* not.                                                                    *)
Add(t, c, quoted) ==
  /\ <<c, t>> \notin DOMAIN index[1]
  /\ contexts' = contexts \cup {c}
  /\ index' = [i \in 1..3 |->
       [k \in DOMAIN index[i] \cup KeysPut(t, c, quoted) |->
          IF k \notin KeysPut(t, c, quoted) THEN index[i][k]
          ELSE IF k = <<c, t>> THEN {} ELSE Listed(t, c)]]
  /\ UNCHANGED reader /\ history' = Observed

(* A __remove that leaves the key of the whole store with an empty list. *)
RestKept(T, c) == T

(* The triples __remove leaves in the whole store: others assert them. *)
Rest(T, c) == {t \in T : Value(1, t) \ {c} # {}}

(* A table after __remove of the triples T: the key of the context goes,   *)
(* and that of the whole store goes or has its list put anew.              *)
Without(table, T, c) ==
  [k \in (DOMAIN table \ ({c, Whole} \X T)) \cup ({Whole} \X Rest(T, c)) |->
     IF k[1] = Whole /\ k[2] \in T THEN Value(1, k[2]) \ {c} ELSE table[k]]

(* A __remove that forgets one of the tables. *)
RemoveFromTwo(T, c) ==
  index' = [index EXCEPT ![1] = Without(@, T, c), ![2] = Without(@, T, c)]

RemoveFrom(T, c) == index' = [i \in 1..3 |-> Without(index[i], T, c)]

(* remove() without a context: the keys of all listed contexts go. *)
RemoveEverywhere(T, i0) ==
  index' = [i \in 1..3 |->
    [k \in {k \in DOMAIN index[i] : ~(k[2] \in T /\ k[1] \in Value(i0, k[2]) \cup {Whole})} |->
       index[i][k]]]

(* remove() of a triple from a context: nothing happens when it is not     *)
(* there.                                                                  *)
RemoveExact(t, c) ==
  /\ t \in Held(1, c)
  /\ RemoveFrom({t}, c)
  /\ UNCHANGED contexts
  /\ UNCHANGED reader /\ history' = Observed

(* A remove() that takes a context to be empty after any range. *)
ContextsLeftAny(pat, c) == contexts \ {c}

ContextsLeft(pat, c) == IF pat = All THEN contexts \ {c} ELSE contexts

(* remove() of a range, also an empty one.                                 *)
RemoveRange(pat, c) ==
  LET victims == Range(pat, c)
  IN  /\ c = Whole \/ pat \notin Triple
      /\ IF c = Whole THEN RemoveEverywhere(victims, Lookup(pat)) ELSE RemoveFrom(victims, c)
      /\ contexts' = ContextsLeft(pat, c)
      /\ UNCHANGED reader /\ history' = Observed

(* add_graph; remove_graph is a remove(). *)
AddGraph(c) ==
  /\ contexts' = contexts \cup {c}
  /\ UNCHANGED <<index, reading>>

-----------------------------------------------------------------------------
(* triples(): one next() of reader r.  The key after the one it yields is  *)
(* read before the yield; a key that has gone when the generator comes to  *)
(* it has no value to split, and the generator raises.                     *)

(* A walk that stays at the key it has read. *)
FollowingStays(w) ==
  Least(Lookup(w.pat), {t \in Range(w.pat, w.context) : ~Precedes(Lookup(w.pat), t, w.next)})

(* A walk that reads one key too many. *)
FollowingSkips(w) ==
  LET i == Lookup(w.pat)
      later == {t \in Range(w.pat, w.context) : Precedes(i, w.next, t)}
  IN  Least(i, later \ {Least(i, later)})

Following(w) ==
  Least(Lookup(w.pat), {t \in Range(w.pat, w.context) : Precedes(Lookup(w.pat), w.next, t)})

Stepped(w) ==
  CASE w.next = End -> [Idle EXCEPT !.state = "done"]
    [] w.next \notin Range(w.pat, w.context) \cup {End} -> [Idle EXCEPT !.state = "failed"]
    [] OTHER -> [w EXCEPT !.next = Following(w)]

Advance(r, w, h) ==
  /\ reader' = [reader EXCEPT ![r] = Stepped(w)]
  /\ history' = [history EXCEPT ![r] =
       IF Stepped(w).state = "open" THEN [h EXCEPT !.yielded = @ \cup {w.next}] ELSE h]
  /\ UNCHANGED tables

Start(r, pat, c) ==
  LET found == Range(pat, c)
  IN  /\ reader[r].state # "open"
      /\ Advance(r, [state |-> "open", pat |-> pat, context |-> c, next |-> Least(Lookup(pat), found)],
                 [NoHistory EXCEPT !.stable = {t \in Held(1, c) : Matches(t, pat)}])

Resume(r) == reader[r].state = "open" /\ Advance(r, reader[r], history[r])

-----------------------------------------------------------------------------

(* The operations that announce a change to the thread. *)
Change ==
  \/ \E t \in Triple, c \in Contexts : Add(t, c, FALSE) \/ RemoveExact(t, c)
  \/ \E t \in Triple, f \in Formulas : Add(t, f, TRUE)
  \/ \E pat \in Pattern, c \in Contexts \cup {Whole} : RemoveRange(pat, c)

Read ==
  \/ \E r \in Readers, pat \in Pattern, c \in Contexts \cup {Whole} : Start(r, pat, c)
  \/ \E r \in Readers : Resume(r)

Next == Change \/ Read \/ \E c \in Graphs : AddGraph(c)

Spec == Init /\ [][Next]_vars

-----------------------------------------------------------------------------
(* Properties. *)

(* The tables hold keys with lists of contexts. *)
TypeOK ==
  /\ \A i \in 1..3 : /\ DOMAIN index[i] \subseteq Key
                      /\ \A k \in DOMAIN index[i] : index[i][k] \subseteq Contexts
  /\ contexts \subseteq Contexts

(* The three tables hold the same keys with the same values, so that every *)
(* lookup finds the same triples.                                          *)
IndexesAgree == index[1] = index[2] /\ index[2] = index[3]

(* The keys that start with the prefix of a lookup are those of the        *)
(* triples that match: three rotations are enough to put whatever is bound *)
(* first.  remove() and triples() look at nothing else.                    *)
LookupsAreExact ==
  \A pat \in Pattern, c \in Contexts \cup {Whole} :
    Range(pat, c) = {t \in Held(Lookup(pat), c) : Matches(t, pat)}

(* The key of the whole store is there exactly when some context asserts   *)
(* the triple; its list names every graph that holds the triple, and no    *)
(* context that does not: a remove() from the whole store deletes the keys *)
(* of the list and would raise for one that is missing.                    *)
ListsAreHolders ==
  \A t \in Triple :
    /\ <<Whole, t>> \in DOMAIN index[1] <=> Value(1, t) # {}
    /\ \A c \in Value(1, t) : <<c, t>> \in DOMAIN index[1]
    /\ \A g \in Graphs : <<g, t>> \in DOMAIN index[1] => g \in Value(1, t)

(* contexts() names every context that holds something. *)
ContextsListed == \A k \in DOMAIN index[1] : k[1] \in contexts \cup {Whole}

(* The three tables, the lists of contexts in the keys of the whole store  *)
(* and the table of contexts stay in step over any sequence of calls on    *)
(* single graphs, on formulas and on the whole store: each remove() finds  *)
(* in one of them what it deletes from the others.                         *)
TablesConsistent == IndexesAgree /\ ListsAreHolders /\ ContextsListed

(* A generator that ends has yielded every triple it was asked for that    *)
(* was there all the while.                                                *)
NothingStableMissed ==
  \A r \in Readers : reader[r].state = "done" => history[r].stable \subseteq history[r].yielded

(* A loop may remove what the generator has yielded: it raises only when a *)
(* triple went that it had not yielded.                                    *)
LoopsMayRemove ==
  \A r \in Readers :
    reader[r].state = "failed" => ~(history[r].removed \subseteq history[r].yielded)

(* The tables implement the abstract store, in which a formula asserts     *)
(* what lists it.                                                          *)
Content == [c \in Contexts |-> Held(1, c)]
Voiced == {v \in Triple \X Formulas : v[2] \in Value(1, v[1])}
Quads ==
  INSTANCE QuadStore WITH content <- Content, union <- Held(1, Whole), voiced <- Voiced
ImplementsQuadStore == Quads!Spec
=============================================================================
