--------------------------- MODULE BerkeleyProofs ---------------------------
(***************************************************************************)
(* The tables of BerkeleyStore for any triples, patterns and contexts, and *)
(* the flag of BerkeleySync.                                               *)
(*                                                                         *)
(* Lookups first: whatever is bound, one of the three rotations has it at  *)
(* the front.  With it the range an operation walks is what the abstract   *)
(* store deletes, and the four facts about the tables are inductive        *)
(* together.  The keys of a table have an order, so that a cursor that has *)
(* come to a key has passed those before it and still finds those after,   *)
(* whatever is put in or deleted between two of its steps.                 *)
(***************************************************************************)
EXTENDS BerkeleySync, WellFoundedInduction, TLAPS

-----------------------------------------------------------------------------
(* Lookups. *)

(* The positions of a triple from each position on. *)
LEMMA Rotations ==
  /\ Rotated(1, 1) = 1 /\ Rotated(1, 2) = 2 /\ Rotated(1, 3) = 3
  /\ Rotated(2, 1) = 2 /\ Rotated(2, 2) = 3 /\ Rotated(2, 3) = 1
  /\ Rotated(3, 1) = 3 /\ Rotated(3, 2) = 1 /\ Rotated(3, 3) = 2
BY DEF Rotated

(* n positions are bound from i on, and no more. *)
IsBound(pat, i, n) ==
  /\ \A j \in 1..n : pat[Rotated(i, j)] # Any
  /\ n = 3 \/ pat[Rotated(i, n + 1)] = Any

(* Bound counts them. *)
LEMMA BoundCounts ==
  ASSUME NEW pat, NEW i \in 1..3
  PROVE  Bound(pat, i) \in 0..3 /\ IsBound(pat, i, Bound(pat, i))
<1>1. ASSUME pat[Rotated(i, 1)] = Any PROVE IsBound(pat, i, 0)
  BY <1>1 DEF IsBound
<1>2. ASSUME pat[Rotated(i, 1)] # Any, pat[Rotated(i, 2)] = Any PROVE IsBound(pat, i, 1)
  BY <1>2 DEF IsBound
<1>3. ASSUME pat[Rotated(i, 1)] # Any, pat[Rotated(i, 2)] # Any, pat[Rotated(i, 3)] = Any
      PROVE  IsBound(pat, i, 2)
  BY <1>3 DEF IsBound
<1>4. ASSUME pat[Rotated(i, 1)] # Any, pat[Rotated(i, 2)] # Any, pat[Rotated(i, 3)] # Any
      PROVE  IsBound(pat, i, 3)
  BY <1>4 DEF IsBound
<1>5. \E n \in 0..3 : IsBound(pat, i, n) BY <1>1, <1>2, <1>3, <1>4
<1>6. Bound(pat, i) = CHOOSE n \in 0..3 : IsBound(pat, i, n) BY DEF Bound, IsBound
<1> QED BY <1>5, <1>6

(* Lookup takes a table from which as much is bound as from any other. *)
LEMMA LookupIsBest ==
  ASSUME NEW pat
  PROVE  Lookup(pat) \in 1..3 /\ \A j \in 1..3 : Bound(pat, j) <= Bound(pat, Lookup(pat))
<1> DEFINE Best(i) == \A j \in 1..3 : Bound(pat, j) < Bound(pat, i) \/
                                      (Bound(pat, j) = Bound(pat, i) /\ i <= j)
<1>1. Bound(pat, 1) \in 0..3 /\ Bound(pat, 2) \in 0..3 /\ Bound(pat, 3) \in 0..3
  BY BoundCounts
<1>2. Best(1) \/ Best(2) \/ Best(3) BY <1>1
<1>3. Lookup(pat) \in 1..3 /\ Best(Lookup(pat)) BY <1>2 DEF Lookup
<1> QED BY <1>1, <1>3

(* The prefix holds every position that is bound, and no other. *)
LEMMA PrefixIsBound ==
  ASSUME NEW pat, NEW p \in 1..3
  PROVE  pat[p] # Any <=> p \in {Rotated(Lookup(pat), n) : n \in 1..Bound(pat, Lookup(pat))}
<1> DEFINE i == Lookup(pat)
<1> DEFINE n(j) == Bound(pat, j)
<1>1. i \in 1..3 /\ n(1) <= n(i) /\ n(2) <= n(i) /\ n(3) <= n(i) BY LookupIsBest
<1>2. \A j \in 1..3 : n(j) \in 0..3 /\ IsBound(pat, j, n(j)) BY BoundCounts
<1> HIDE DEF i, n
<1>3. SUFFICES pat[p] # Any <=> \E m \in 1..n(i) : p = Rotated(i, m) BY DEF i, n
<1>4. CASE n(i) = 0
  BY <1>1, <1>2, <1>4, Rotations DEF IsBound
<1>5. CASE n(i) = 1
  BY <1>1, <1>2, <1>5, Rotations DEF IsBound
<1>6. CASE n(i) = 2
  BY <1>1, <1>2, <1>6, Rotations DEF IsBound
<1>7. CASE n(i) = 3
  BY <1>1, <1>2, <1>7, Rotations DEF IsBound
<1> QED BY <1>1, <1>2, <1>4, <1>5, <1>6, <1>7

(* A range is what the pattern matches. *)
LEMMA RangeIsMatches ==
  ASSUME NEW pat, NEW c
  PROVE  Range(pat, c) = {t \in Held(Lookup(pat), c) : Matches(t, pat)}
<1> DEFINE prefix == {Rotated(Lookup(pat), n) : n \in 1..Bound(pat, Lookup(pat))}
<1>1. \A p \in 1..3 : pat[p] # Any <=> p \in prefix BY PrefixIsBound
<1>2. prefix \subseteq 1..3
  <2>1. Lookup(pat) \in 1..3 /\ Bound(pat, Lookup(pat)) \in 0..3 BY LookupIsBest, BoundCounts
  <2> QED BY <2>1, Rotations DEF Rotated
<1> HIDE DEF prefix
<1>3. \A t : Matches(t, pat) <=> \A j \in prefix : pat[j] = t[j] BY <1>1, <1>2 DEF Matches
<1> QED BY <1>3 DEF Range, prefix

-----------------------------------------------------------------------------
(* Tables. *)

IndexShape == index = [i \in 1..3 |-> index[i]]

Tables == TypeOK /\ IndexShape /\ IndexesAgree /\ ListsAreHolders /\ ContextsListed

(* With one table for all, what a lookup ranges over is what matches.      *)
LEMMA RangeIsHeld ==
  ASSUME Tables, NEW pat, NEW c
  PROVE  Range(pat, c) = {t \in Held(1, c) : Matches(t, pat)}
<1>1. Held(Lookup(pat), c) = Held(1, c)
  BY LookupIsBest DEF Tables, IndexesAgree, Held
<1> QED BY <1>1, RangeIsMatches

(* All tables have the same values. *)
LEMMA SameValues ==
  ASSUME Tables, NEW i \in 1..3, NEW t
  PROVE  Value(i, t) = Value(1, t)
BY DEF Tables, IndexesAgree, Value

(* The empty store. *)
LEMMA TablesInit == Init => Tables
<1> SUFFICES ASSUME Init PROVE Tables OBVIOUS
<1>1. \A i \in 1..3 : DOMAIN index[i] = {} BY DEF Init
<1>2. TypeOK BY <1>1 DEF TypeOK, Init
<1>3. IndexShape /\ IndexesAgree BY DEF Init, IndexShape, IndexesAgree
<1>4. ListsAreHolders
  <2>1. DOMAIN index[1] = {} BY <1>1
  <2>2. \A t : Value(1, t) = {} BY <2>1 DEF Value
  <2> QED BY <2>1, <2>2 DEF ListsAreHolders
<1>5. ContextsListed BY <1>1 DEF ContextsListed
<1> QED BY <1>2, <1>3, <1>4, <1>5 DEF Tables

(* The tables once the keys new of the triple t are put for the context c. *)
HaveKeys(t, c, new) ==
  /\ index' = [i \in 1..3 |-> index'[i]]
  /\ index'[1] = index'[2] /\ index'[2] = index'[3]
  /\ DOMAIN index'[1] = DOMAIN index[1] \cup new
  /\ \A k \in DOMAIN index'[1] :
       index'[1][k] = IF k \notin new THEN index[1][k]
                      ELSE IF k = <<c, t>> THEN {} ELSE Value(1, t) \cup {c}

(* add() puts these keys in all three. *)
LEMMA AddedKeys ==
  ASSUME Tables, NEW t \in Triple, NEW c \in Contexts, NEW quoted \in BOOLEAN, Add(t, c, quoted)
  PROVE  HaveKeys(t, c, KeysPut(t, c, quoted))
<1> DEFINE new == KeysPut(t, c, quoted)
<1>1. index' = [i \in 1..3 |-> [k \in DOMAIN index[i] \cup new |->
          IF k \notin new THEN index[i][k] ELSE IF k = <<c, t>> THEN {} ELSE Value(1, t) \cup {c}]]
  BY DEF Add, Listed
<1> HIDE DEF new
<1>2. HaveKeys(t, c, new) BY <1>1 DEF Tables, IndexesAgree, HaveKeys
<1> QED BY <1>2 DEF new

(* The contexts of a triple and those that assert it, after add(). *)
Holders(t, c, quoted) ==
  /\ \A x \in Contexts, u \in Triple :
       <<x, u>> \in DOMAIN index'[1] <=> <<x, u>> \in DOMAIN index[1] \/ (x = c /\ u = t)
  /\ \A u \in Triple :
       <<Whole, u>> \in DOMAIN index'[1] <=>
         <<Whole, u>> \in DOMAIN index[1] \/ (~quoted /\ u = t)
  /\ \A u \in Triple :
       Value(1, u)' = IF ~quoted /\ u = t THEN Value(1, t) \cup {c} ELSE Value(1, u)

(* add() makes them so. *)
LEMMA AddedHolders ==
  ASSUME Tables, NEW t \in Triple, NEW c \in Contexts, NEW quoted \in BOOLEAN, Add(t, c, quoted)
  PROVE  Holders(t, c, quoted)
<1> DEFINE new == KeysPut(t, c, quoted)
<1>1. /\ DOMAIN index'[1] = DOMAIN index[1] \cup new
      /\ \A k \in DOMAIN index'[1] :
           index'[1][k] = IF k \notin new THEN index[1][k]
                          ELSE IF k = <<c, t>> THEN {} ELSE Value(1, t) \cup {c}
  <2>1. HaveKeys(t, c, new) BY AddedKeys
  <2> HIDE DEF new
  <2> QED BY <2>1 DEF HaveKeys
<1>2. c # Whole BY WholeIsNoContext
<1>3. /\ <<c, t>> \in new
      /\ <<Whole, t>> \in new <=> ~quoted
      /\ \A k \in new : k = <<c, t>> \/ k = <<Whole, t>>
  BY <1>2 DEF KeysPut
<1> HIDE DEF new
<1>4. \A x \in Contexts, u \in Triple :
        <<x, u>> \in DOMAIN index'[1] <=> <<x, u>> \in DOMAIN index[1] \/ (x = c /\ u = t)
  BY <1>1, <1>3, WholeIsNoContext
<1>5. \A u \in Triple : <<Whole, u>> \in new <=> ~quoted /\ u = t BY <1>2, <1>3
<1>6. \A u \in Triple :
        Value(1, u)' = IF ~quoted /\ u = t THEN Value(1, t) \cup {c} ELSE Value(1, u)
  <2> TAKE u \in Triple
  <2>1. <<Whole, u>> # <<c, t>> BY <1>2
  <2>2. CASE <<Whole, u>> \in new
    <3>1. Value(1, u)' = Value(1, t) \cup {c} BY <2>1, <2>2, <1>1 DEF Value
    <3> QED BY <3>1, <2>2, <1>5
  <2>3. CASE <<Whole, u>> \notin new
    <3>1. Value(1, u)' = Value(1, u) BY <2>3, <1>1 DEF Value
    <3> QED BY <3>1, <2>3, <1>5
  <2> QED BY <2>2, <2>3
<1> QED BY <1>1, <1>4, <1>5, <1>6 DEF Holders

(* add() keeps the tables: a graph never quotes, so that its keys are      *)
(* listed.                                                                 *)
LEMMA AddKeeps ==
  ASSUME Tables, NEW t \in Triple, NEW c \in Contexts, NEW quoted \in BOOLEAN, Add(t, c, quoted),
         quoted => c \in Formulas
  PROVE  Tables'
<1> DEFINE new == KeysPut(t, c, quoted)
<1>9. HaveKeys(t, c, new) BY AddedKeys
<1>3. new \subseteq {<<c, t>>, <<Whole, t>>} BY DEF KeysPut
<1> HIDE DEF new
<1>1. IndexShape' /\ IndexesAgree' BY <1>9 DEF IndexShape, IndexesAgree, HaveKeys
<1>2. /\ DOMAIN index'[1] = DOMAIN index[1] \cup new
      /\ \A k \in DOMAIN index'[1] :
           index'[1][k] = IF k \notin new THEN index[1][k]
                          ELSE IF k = <<c, t>> THEN {} ELSE Value(1, t) \cup {c}
  BY <1>9 DEF HaveKeys
<1>4. Value(1, t) \subseteq Contexts BY DEF Tables, TypeOK, Value
<1>5. TypeOK'
  <2>1. \A k \in DOMAIN index'[1] : k \in Key /\ index'[1][k] \subseteq Contexts
    <3> SUFFICES ASSUME NEW k \in DOMAIN index'[1] PROVE k \in Key /\ index'[1][k] \subseteq Contexts
      OBVIOUS
    <3>1. CASE k \notin new BY <3>1, <1>2 DEF Tables, TypeOK
    <3>2. CASE k \in new
      <4>1. k \in Key BY <3>2, <1>3 DEF Key
      <4> QED BY <3>2, <4>1, <1>2, <1>4
    <3> QED BY <3>1, <3>2
  <2>2. \A i \in 1..3 : index'[i] = index'[1] BY <1>1 DEF IndexesAgree
  <2>3. contexts' \subseteq Contexts BY DEF Add, Tables, TypeOK
  <2> QED BY <2>1, <2>2, <2>3 DEF TypeOK
<1>6. ListsAreHolders'
  <2> SUFFICES ASSUME NEW u \in Triple
               PROVE  /\ <<Whole, u>> \in DOMAIN index'[1] <=> Value(1, u)' # {}
                      /\ \A x \in Value(1, u)' : <<x, u>> \in DOMAIN index'[1]
                      /\ \A g \in Graphs : <<g, u>> \in DOMAIN index'[1] => g \in Value(1, u)'
    BY DEF ListsAreHolders
  <2>1. /\ \A x \in Contexts :
             <<x, u>> \in DOMAIN index'[1] <=> <<x, u>> \in DOMAIN index[1] \/ (x = c /\ u = t)
        /\ <<Whole, u>> \in DOMAIN index'[1] <=>
             <<Whole, u>> \in DOMAIN index[1] \/ (~quoted /\ u = t)
        /\ Value(1, u)' = IF ~quoted /\ u = t THEN Value(1, t) \cup {c} ELSE Value(1, u)
    <3>1. Holders(t, c, quoted) BY AddedHolders
    <3> QED BY <3>1 DEF Holders
  <2>2. Value(1, u) \subseteq Contexts BY DEF Tables, TypeOK, Value
  <2>3. c \in Graphs => ~quoted BY GraphsAreNotFormulas
  <2>4. Graphs \subseteq Contexts BY DEF Contexts
  <2>5. /\ <<Whole, u>> \in DOMAIN index[1] <=> Value(1, u) # {}
        /\ \A x \in Value(1, u) : <<x, u>> \in DOMAIN index[1]
        /\ \A g \in Graphs : <<g, u>> \in DOMAIN index[1] => g \in Value(1, u)
    BY DEF Tables, ListsAreHolders
  <2> QED BY <2>1, <2>2, <2>3, <2>4, <2>5
<1>7. ContextsListed'
  <2>1. \A k \in DOMAIN index'[1] : k \in DOMAIN index[1] \/ k[1] \in {c, Whole}
    BY <1>2, <1>3
  <2> QED BY <2>1 DEF Tables, ContextsListed, Add
<1> QED BY <1>1, <1>5, <1>6, <1>7 DEF Tables

(* What __remove of the triples T does to the tables. *)
LEMMA RemovedKeys ==
  ASSUME Tables, NEW T \in SUBSET Triple, NEW c \in Contexts, RemoveFrom(T, c)
  PROVE  /\ index' = [i \in 1..3 |-> index'[i]]
         /\ index'[1] = index'[2] /\ index'[2] = index'[3]
         /\ index'[1] = Without(index[1], T, c)
BY DEF Tables, IndexesAgree, IndexShape, RemoveFrom

(* A __remove keeps the tables in step. *)
LEMMA RemoveFromKeeps ==
  ASSUME Tables, NEW T \in SUBSET Triple, NEW c \in Contexts, RemoveFrom(T, c),
         T \subseteq Held(1, c)
  PROVE  /\ IndexShape' /\ IndexesAgree' /\ ListsAreHolders'
         /\ \A i \in 1..3 : /\ DOMAIN index'[i] \subseteq Key
                              /\ \A k \in DOMAIN index'[i] : index'[i][k] \subseteq Contexts
         /\ \A x \in Contexts, u \in Triple :
              <<x, u>> \in DOMAIN index'[1] <=>
                <<x, u>> \in DOMAIN index[1] /\ ~(x = c /\ u \in T)
         /\ \A u \in Triple : Value(1, u)' = Value(1, u) \ (IF u \in T THEN {c} ELSE {})
<1>1. IndexShape' /\ IndexesAgree' BY RemovedKeys DEF IndexShape, IndexesAgree
<1>2. c # Whole BY WholeIsNoContext
<1>3. DOMAIN index'[1] = (DOMAIN index[1] \ ({c, Whole} \X T)) \cup ({Whole} \X Rest(T, c))
  BY RemovedKeys DEF Without
<1>4. \A k \in DOMAIN index'[1] :
        index'[1][k] = IF k[1] = Whole /\ k[2] \in T THEN Value(1, k[2]) \ {c} ELSE index[1][k]
  <2>1. index'[1] = Without(index[1], T, c) BY RemovedKeys
  <2> QED BY <2>1, <1>3 DEF Without
<1>5. Rest(T, c) \subseteq T BY DEF Rest
<1>6. \A x \in Contexts, u \in Triple :
        <<x, u>> \in DOMAIN index'[1] <=> <<x, u>> \in DOMAIN index[1] /\ ~(x = c /\ u \in T)
  <2> TAKE x \in Contexts, u \in Triple
  <2>1. x # Whole BY WholeIsNoContext
  <2> QED BY <2>1, <1>3
<1>7. \A u \in Triple : <<Whole, u>> \in DOMAIN index'[1] <=>
        (u \notin T /\ <<Whole, u>> \in DOMAIN index[1]) \/ u \in Rest(T, c)
  BY <1>3, <1>5
<1>11. \A u \in Triple : <<Whole, u>> \in DOMAIN index[1] <=> Value(1, u) # {}
  BY DEF Tables, ListsAreHolders
<1>12. \A u \in Triple : Value(1, u)' = Value(1, u) \ (IF u \in T THEN {c} ELSE {})
  <2> TAKE u \in Triple
  <2>1. CASE u \in T
    <3>1. <<Whole, u>> \in DOMAIN index'[1] <=> Value(1, u) \ {c} # {} BY <1>7, <2>1 DEF Rest
    <3>2. <<Whole, u>> \in DOMAIN index'[1] => index'[1][<<Whole, u>>] = Value(1, u) \ {c}
      BY <1>4, <2>1
    <3> QED BY <2>1, <3>1, <3>2 DEF Value
  <2>2. CASE u \notin T
    <3>1. <<Whole, u>> \in DOMAIN index'[1] <=> <<Whole, u>> \in DOMAIN index[1]
      BY <1>7, <2>2, <1>5
    <3>2. <<Whole, u>> \in DOMAIN index'[1] => index'[1][<<Whole, u>>] = index[1][<<Whole, u>>]
      BY <1>4, <2>2
    <3> QED BY <2>2, <3>1, <3>2 DEF Value
  <2> QED BY <2>1, <2>2
<1>8. ListsAreHolders'
  <2> SUFFICES ASSUME NEW u \in Triple
               PROVE  /\ <<Whole, u>> \in DOMAIN index'[1] <=> Value(1, u)' # {}
                      /\ \A x \in Value(1, u)' : <<x, u>> \in DOMAIN index'[1]
                      /\ \A g \in Graphs : <<g, u>> \in DOMAIN index'[1] => g \in Value(1, u)'
    BY DEF ListsAreHolders
  <2>1. \A x \in Contexts : <<x, u>> \in DOMAIN index'[1] <=>
                             <<x, u>> \in DOMAIN index[1] /\ ~(x = c /\ u \in T)
    BY <1>6
  <2>2. Value(1, u)' = Value(1, u) \ (IF u \in T THEN {c} ELSE {}) BY <1>12
  <2>3. Value(1, u) \subseteq Contexts /\ Graphs \subseteq Contexts
    BY DEF Tables, TypeOK, Value, Contexts
  <2>4. /\ \A x \in Value(1, u) : <<x, u>> \in DOMAIN index[1]
        /\ \A g \in Graphs : <<g, u>> \in DOMAIN index[1] => g \in Value(1, u)
    BY DEF Tables, ListsAreHolders
  <2>5. <<Whole, u>> \in DOMAIN index'[1] <=> Value(1, u)' # {}
    <3>1. CASE u \in T BY <3>1, <2>2, <1>7 DEF Rest
    <3>2. CASE u \notin T BY <3>2, <2>2, <1>7, <1>5, <1>11
    <3> QED BY <3>1, <3>2
  <2> QED BY <2>1, <2>2, <2>3, <2>4, <2>5
<1>9. \A k \in DOMAIN index'[1] : k \in Key /\ index'[1][k] \subseteq Contexts
  <2> TAKE k \in DOMAIN index'[1]
  <2>1. CASE k \in {Whole} \X Rest(T, c)
    <3>1. k \in Key BY <2>1, <1>5 DEF Key
    <3>2. Value(1, k[2]) \subseteq Contexts BY DEF Tables, TypeOK, Value
    <3> QED BY <2>1, <3>1, <3>2, <1>4, <1>5
  <2>2. CASE k \in DOMAIN index[1] \ ({c, Whole} \X T)
    <3>1. k \in Key BY <2>2 DEF Tables, TypeOK
    <3>2. ~(k[1] = Whole /\ k[2] \in T) BY <2>2, <3>1 DEF Key
    <3>3. index'[1][k] = index[1][k] BY <3>2, <1>4
    <3>4. index[1][k] \subseteq Contexts BY <2>2 DEF Tables, TypeOK
    <3> QED BY <3>1, <3>3, <3>4
  <2> QED BY <2>1, <2>2, <1>3
<1>10. \A i \in 1..3 : index'[i] = index'[1] BY <1>1 DEF IndexesAgree
<1> QED BY <1>1, <1>6, <1>8, <1>9, <1>10, <1>12

(* A remove() from the whole store keeps the tables in step. *)
LEMMA RemoveEverywhereKeeps ==
  ASSUME Tables, NEW T \in SUBSET Triple, NEW i0 \in 1..3, RemoveEverywhere(T, i0)
  PROVE  /\ IndexShape' /\ IndexesAgree' /\ ListsAreHolders'
         /\ \A i \in 1..3 : /\ DOMAIN index'[i] \subseteq Key
                              /\ \A k \in DOMAIN index'[i] : index'[i][k] \subseteq Contexts
         /\ \A x \in Contexts, u \in Triple :
              <<x, u>> \in DOMAIN index'[1] <=>
                <<x, u>> \in DOMAIN index[1] /\ ~(x \in Value(1, u) /\ u \in T)
         /\ \A u \in Triple : <<Whole, u>> \in DOMAIN index'[1] <=>
                          <<Whole, u>> \in DOMAIN index[1] /\ u \notin T
         /\ \A u \in Triple : Value(1, u)' = IF u \in T THEN {} ELSE Value(1, u)
<1> DEFINE kept(k) == ~(k[2] \in T /\ k[1] \in Value(1, k[2]) \cup {Whole})
<1>1. index' = [i \in 1..3 |-> [k \in {k \in DOMAIN index[i] : kept(k)} |-> index[i][k]]]
  <2>1. \A t : Value(i0, t) = Value(1, t) BY SameValues
  <2> QED BY <2>1 DEF RemoveEverywhere
<1>2. IndexShape' /\ IndexesAgree' BY <1>1 DEF IndexShape, IndexesAgree, Tables
<1>3. /\ DOMAIN index'[1] = {k \in DOMAIN index[1] : kept(k)}
      /\ \A k \in DOMAIN index'[1] : index'[1][k] = index[1][k]
  BY <1>1
<1>4. \A x \in Contexts, u \in Triple :
        <<x, u>> \in DOMAIN index'[1] <=>
          <<x, u>> \in DOMAIN index[1] /\ ~(x \in Value(1, u) /\ u \in T)
  <2> TAKE x \in Contexts, u \in Triple
  <2>1. x # Whole BY WholeIsNoContext
  <2> QED BY <2>1, <1>3
<1>5. \A u \in Triple : <<Whole, u>> \in DOMAIN index'[1] <=>
                          <<Whole, u>> \in DOMAIN index[1] /\ u \notin T
  BY <1>3
<1>6. \A u \in Triple : Value(1, u)' = IF u \in T THEN {} ELSE Value(1, u)
  BY <1>3, <1>5 DEF Value
<1>7. ListsAreHolders'
  <2> SUFFICES ASSUME NEW u \in Triple
               PROVE  /\ <<Whole, u>> \in DOMAIN index'[1] <=> Value(1, u)' # {}
                      /\ \A x \in Value(1, u)' : <<x, u>> \in DOMAIN index'[1]
                      /\ \A g \in Graphs : <<g, u>> \in DOMAIN index'[1] => g \in Value(1, u)'
    BY DEF ListsAreHolders
  <2>1. \A x \in Contexts :
          <<x, u>> \in DOMAIN index'[1] <=>
            <<x, u>> \in DOMAIN index[1] /\ ~(x \in Value(1, u) /\ u \in T)
    BY <1>4
  <2>2. Value(1, u) \subseteq Contexts /\ Graphs \subseteq Contexts
    BY DEF Tables, TypeOK, Value, Contexts
  <2>3. /\ <<Whole, u>> \in DOMAIN index[1] <=> Value(1, u) # {}
        /\ \A x \in Value(1, u) : <<x, u>> \in DOMAIN index[1]
        /\ \A g \in Graphs : <<g, u>> \in DOMAIN index[1] => g \in Value(1, u)
    BY DEF Tables, ListsAreHolders
  <2> QED BY <2>1, <2>2, <2>3, <1>5, <1>6
<1>8. \A k \in DOMAIN index'[1] : k \in Key /\ index'[1][k] \subseteq Contexts
  BY <1>3 DEF Tables, TypeOK
<1>9. \A i \in 1..3 : index'[i] = index'[1] BY <1>2 DEF IndexesAgree
<1> QED BY <1>2, <1>4, <1>5, <1>6, <1>7, <1>8, <1>9

(* The victims of a range are held where they are removed. *)
LEMMA VictimsAreHeld ==
  ASSUME Tables, NEW pat, NEW c
  PROVE  Range(pat, c) \in SUBSET Triple /\ Range(pat, c) \subseteq Held(1, c)
BY RangeIsHeld DEF Held

(* The pattern of everything ranges over all that a context holds. *)
LEMMA AllMatches ==
  ASSUME Tables, NEW c
  PROVE  Range(All, c) = Held(1, c)
<1>1. \A t : Matches(t, All)
  <2>1. All[1] = Any /\ All[2] = Any /\ All[3] = Any BY DEF All
  <2> QED BY <2>1 DEF Matches
<1>2. Range(All, c) = {t \in Held(1, c) : Matches(t, All)} BY RangeIsHeld
<1> QED BY <1>1, <1>2

(* remove() of one triple keeps the tables. *)
LEMMA RemoveExactKeeps ==
  ASSUME Tables, NEW t \in Triple, NEW c \in Contexts, RemoveExact(t, c)
  PROVE  Tables'
<1>1. RemoveFrom({t}, c) /\ {t} \subseteq Held(1, c) /\ contexts' = contexts
  BY DEF RemoveExact
<1>2. {t} \in SUBSET Triple OBVIOUS
<1>3. /\ IndexShape' /\ IndexesAgree' /\ ListsAreHolders' /\ TypeOK'
  BY <1>1, <1>2, RemoveFromKeeps DEF TypeOK, Tables
<1>4. \A x \in Contexts, u \in Triple : <<x, u>> \in DOMAIN index'[1] => <<x, u>> \in DOMAIN index[1]
  BY <1>1, <1>2, RemoveFromKeeps
<1>5. ContextsListed' BY <1>1, <1>3, <1>4 DEF ContextsListed, Tables, TypeOK, Key
<1> QED BY <1>3, <1>5 DEF Tables

(* remove() of a range keeps the tables. *)
LEMMA RemoveRangeKeeps ==
  ASSUME Tables, NEW pat \in Pattern, NEW c \in Contexts \cup {Whole}, RemoveRange(pat, c)
  PROVE  Tables'
<1> DEFINE T == Range(pat, c)
<1>1. T \in SUBSET Triple /\ T \subseteq Held(1, c) BY VictimsAreHeld
<1>2. contexts' = ContextsLeft(pat, c) BY DEF RemoveRange
<1>3. contexts' \subseteq Contexts BY <1>2 DEF ContextsLeft, Tables, TypeOK
<1>4. CASE c = Whole
  <2>1. RemoveEverywhere(T, Lookup(pat)) /\ Lookup(pat) \in 1..3
    BY <1>4, LookupIsBest DEF RemoveRange
  <2>2. IndexShape' /\ IndexesAgree' /\ ListsAreHolders' /\ TypeOK'
    BY <2>1, <1>1, <1>3, <1>4, RemoveEverywhereKeeps DEF TypeOK
  <2>3. \A x \in Contexts, u \in Triple : <<x, u>> \in DOMAIN index'[1] => <<x, u>> \in DOMAIN index[1]
    BY <2>1, <1>1, <1>4, RemoveEverywhereKeeps
  <2>4. contexts' = contexts
    BY <1>2, <1>4, WholeIsNoContext DEF ContextsLeft, Tables, TypeOK
  <2>5. ContextsListed' BY <2>2, <2>3, <2>4 DEF ContextsListed, Tables, TypeOK, Key
  <2> QED BY <2>2, <2>5 DEF Tables
<1>5. CASE c \in Contexts
  <2>1. RemoveFrom(T, c) BY <1>5, WholeIsNoContext DEF RemoveRange
  <2>2. IndexShape' /\ IndexesAgree' /\ ListsAreHolders' /\ TypeOK'
    BY <2>1, <1>1, <1>3, <1>5, RemoveFromKeeps DEF TypeOK
  <2>3. \A x \in Contexts, u \in Triple :
          <<x, u>> \in DOMAIN index'[1] => <<x, u>> \in DOMAIN index[1] /\ ~(x = c /\ u \in T)
    BY <2>1, <1>1, <1>5, RemoveFromKeeps
  <2>4. \A x \in Contexts, u \in Triple :
          <<x, u>> \in DOMAIN index[1] /\ ~(x = c /\ u \in T) => x \in contexts'
    <3> SUFFICES ASSUME NEW x \in Contexts, NEW u \in Triple,
                        <<x, u>> \in DOMAIN index[1], ~(x = c /\ u \in T)
                 PROVE  x \in contexts'
      OBVIOUS
    <3>1. x \in contexts
      <4>1. <<x, u>>[1] \in contexts \cup {Whole} BY DEF ContextsListed, Tables
      <4> QED BY <4>1, WholeIsNoContext
    <3>2. pat = All => x # c
      <4>1. u \in Held(1, x) BY DEF Held
      <4> QED BY <4>1, AllMatches
    <3> QED BY <3>1, <3>2, <1>2 DEF ContextsLeft
  <2>5. ContextsListed' BY <2>2, <2>3, <2>4 DEF ContextsListed, TypeOK, Key
  <2> QED BY <2>2, <2>5 DEF Tables
<1> QED BY <1>4, <1>5

(* Every step keeps the tables. *)
LEMMA TablesStep == Tables /\ [Next]_vars => Tables'
<1> SUFFICES ASSUME Tables, [Next]_vars PROVE Tables' OBVIOUS
<1>1. ASSUME NEW t \in Triple, NEW c \in Contexts, Add(t, c, FALSE) PROVE Tables'
  BY <1>1, AddKeeps
<1>8. ASSUME NEW t \in Triple, NEW f \in Formulas, Add(t, f, TRUE) PROVE Tables'
  <2>1. ASSUME NEW q \in BOOLEAN, q => f \in Formulas, Add(t, f, q) PROVE Tables'
    BY <2>1, AddKeeps DEF Contexts
  <2> QED BY <1>8, <2>1, Zenon
<1>2. ASSUME NEW t \in Triple, NEW c \in Contexts, RemoveExact(t, c) PROVE Tables'
  BY <1>2, RemoveExactKeeps
<1>3. ASSUME NEW pat \in Pattern, NEW c \in Contexts \cup {Whole}, RemoveRange(pat, c)
      PROVE  Tables'
  BY <1>3, RemoveRangeKeeps
<1>4. ASSUME NEW c \in Graphs, AddGraph(c) PROVE Tables'
  <2>1. index' = index /\ contexts' = contexts \cup {c} BY <1>4 DEF AddGraph
  <2> QED BY <2>1 DEF Tables, TypeOK, IndexShape, IndexesAgree, ListsAreHolders, Value,
                      ContextsListed, Contexts
<1>5. ASSUME UNCHANGED tables PROVE Tables'
  BY <1>5 DEF tables, Tables, TypeOK, IndexShape, IndexesAgree, ListsAreHolders, Value,
              ContextsListed
<1>6. CASE Read BY <1>5, <1>6, Zenon DEF Read, Start, Resume, Advance
<1>7. CASE UNCHANGED vars BY <1>5, <1>7 DEF vars
<1> QED BY <1>1, <1>2, <1>3, <1>4, <1>6, <1>7, <1>8 DEF Next, Change

(* The three tables hold keys of contexts and of the whole store with      *)
(* lists of graphs, after any sequence of calls.                           *)
THEOREM TablesTyped == Spec => []TypeOK
<1>1. Tables => TypeOK BY DEF Tables
<1> QED BY <1>1, TablesInit, TablesStep, PTL DEF Spec

(* Every lookup finds the same triples. *)
THEOREM TablesAlwaysAgree == Spec => []IndexesAgree
<1>1. Tables => IndexesAgree BY DEF Tables
<1> QED BY <1>1, TablesInit, TablesStep, PTL DEF Spec

(* The list of a triple names graphs and formulas that hold it: remove()   *)
(* from the whole store deletes keys that are there.                       *)
THEOREM ListsAlwaysHolders == Spec => []ListsAreHolders
<1>1. Tables => ListsAreHolders BY DEF Tables
<1> QED BY <1>1, TablesInit, TablesStep, PTL DEF Spec

(* contexts() names every context that holds something. *)
THEOREM ContextsAlwaysListed == Spec => []ContextsListed
<1>1. Tables => ContextsListed BY DEF Tables
<1> QED BY <1>1, TablesInit, TablesStep, PTL DEF Spec

(* The tables, the lists and the contexts together. *)
THEOREM TablesAlwaysConsistent == Spec => []TablesConsistent
<1>1. Tables => TablesConsistent BY DEF Tables, TablesConsistent
<1> QED BY <1>1, TablesInit, TablesStep, PTL DEF Spec

(* The range a lookup walks is what the pattern matches. *)
THEOREM LookupsAlwaysExact == Spec => []LookupsAreExact
<1>1. LookupsAreExact BY RangeIsMatches DEF LookupsAreExact
<1> QED BY <1>1, PTL

-----------------------------------------------------------------------------
(* The order of the keys. *)

(* The keys of a table are ordered by their first position, then by the    *)
(* next.                                                                   *)
LEMMA PrecedesIs ==
  ASSUME NEW i \in 1..3, NEW t, NEW u
  PROVE  Precedes(i, t, u) <=>
           \/ Id[t[Rotated(i, 1)]] < Id[u[Rotated(i, 1)]]
           \/ /\ t[Rotated(i, 1)] = u[Rotated(i, 1)]
              /\ Id[t[Rotated(i, 2)]] < Id[u[Rotated(i, 2)]]
           \/ /\ t[Rotated(i, 1)] = u[Rotated(i, 1)]
              /\ t[Rotated(i, 2)] = u[Rotated(i, 2)]
              /\ Id[t[Rotated(i, 3)]] < Id[u[Rotated(i, 3)]]
<1> DEFINE Less(n) == Id[t[Rotated(i, n)]] < Id[u[Rotated(i, n)]]
<1> DEFINE Same(n) == t[Rotated(i, n)] = u[Rotated(i, n)]
<1>1. Precedes(i, t, u) <=> \E n \in 1..3 : Less(n) /\ \A j \in 1..(n - 1) : Same(j)
  BY DEF Precedes
<1> HIDE DEF Less, Same
<1>2. Precedes(i, t, u) <=> Less(1) \/ (Less(2) /\ Same(1)) \/ (Less(3) /\ Same(1) /\ Same(2))
  BY <1>1
<1> QED BY <1>2 DEF Less, Same

(* The three positions of a table are those of a triple, and numbered. *)
LEMMA PositionsAreNumbered ==
  ASSUME NEW i \in 1..3, NEW t \in Triple, NEW n \in 1..3
  PROVE  t[Rotated(i, n)] \in DOMAIN Id /\ Id[t[Rotated(i, n)]] \in Nat
<1>1. Rotated(i, n) \in 1..3 BY Rotations
<1> QED BY <1>1, TermsAreInterned

(* The order is total, for terms have numbers of their own. *)
LEMMA OrderIsTotal ==
  ASSUME NEW i \in 1..3, NEW t \in Triple, NEW u \in Triple, t # u
  PROVE  Precedes(i, t, u) \/ Precedes(i, u, t)
<1> DEFINE a(n) == t[Rotated(i, n)]
<1> DEFINE b(n) == u[Rotated(i, n)]
<1>1. \A n \in 1..3 : a(n) \in DOMAIN Id /\ b(n) \in DOMAIN Id /\ Id[a(n)] \in Nat /\ Id[b(n)] \in Nat
  BY PositionsAreNumbered
<1>2. ~(a(1) = b(1) /\ a(2) = b(2) /\ a(3) = b(3))
  <2>1. ASSUME a(1) = b(1), a(2) = b(2), a(3) = b(3) PROVE \A p \in 1..3 : t[p] = u[p]
    BY <2>1, Rotations
  <2> QED BY <2>1, TriplesBindAll
<1>3. \A n \in 1..3 : a(n) = b(n) \/ Id[a(n)] < Id[b(n)] \/ Id[b(n)] < Id[a(n)]
  <2>1. \A n \in 1..3 : Id[a(n)] = Id[b(n)] => a(n) = b(n) BY <1>1, IdsAreDistinct, Zenon
  <2> HIDE DEF a, b
  <2> QED BY <1>1, <2>1
<1>4. Precedes(i, t, u) <=> \/ Id[a(1)] < Id[b(1)]
                            \/ a(1) = b(1) /\ Id[a(2)] < Id[b(2)]
                            \/ a(1) = b(1) /\ a(2) = b(2) /\ Id[a(3)] < Id[b(3)]
  BY PrecedesIs
<1>5. Precedes(i, u, t) <=> \/ Id[b(1)] < Id[a(1)]
                            \/ b(1) = a(1) /\ Id[b(2)] < Id[a(2)]
                            \/ b(1) = a(1) /\ b(2) = a(2) /\ Id[b(3)] < Id[a(3)]
  BY PrecedesIs
<1> HIDE DEF a, b
<1> QED BY <1>2, <1>3, <1>4, <1>5

(* No key precedes itself. *)
LEMMA OrderIsStrict ==
  ASSUME NEW i \in 1..3, NEW t \in Triple
  PROVE  ~Precedes(i, t, t)
BY PrecedesIs, PositionsAreNumbered

(* What precedes a key that precedes another precedes that one. *)
LEMMA OrderIsTransitive ==
  ASSUME NEW i \in 1..3, NEW t \in Triple, NEW u \in Triple, NEW v \in Triple,
         Precedes(i, t, u), Precedes(i, u, v)
  PROVE  Precedes(i, t, v)
<1> DEFINE Number(x, n) == Id[x[Rotated(i, n)]]
<1> DEFINE a(x, n) == x[Rotated(i, n)]
<1>1. \A x \in {t, u, v}, n \in 1..3 : Number(x, n) \in Nat
  BY PositionsAreNumbered
<1>2. \A x, y : Precedes(i, x, y) <=> \/ Number(x, 1) < Number(y, 1)
                                      \/ a(x, 1) = a(y, 1) /\ Number(x, 2) < Number(y, 2)
                                      \/ /\ a(x, 1) = a(y, 1) /\ a(x, 2) = a(y, 2)
                                         /\ Number(x, 3) < Number(y, 3)
  BY PrecedesIs
<1>3. \A x, y, n : a(x, n) = a(y, n) => Number(x, n) = Number(y, n) OBVIOUS
<1> HIDE DEF Number, a
<1>4. Number(t, 1) \in Nat /\ Number(t, 2) \in Nat /\ Number(t, 3) \in Nat BY <1>1
<1>5. Number(u, 1) \in Nat /\ Number(u, 2) \in Nat /\ Number(u, 3) \in Nat BY <1>1
<1>6. Number(v, 1) \in Nat /\ Number(v, 2) \in Nat /\ Number(v, 3) \in Nat BY <1>1
<1> QED BY <1>2, <1>3, <1>4, <1>5, <1>6

Smaller == {mn \in Nat \X Nat : mn[1] < mn[2]}

(* A set of numbers that is not empty has a least one. *)
LEMMA LeastNumber ==
  ASSUME NEW T, T \subseteq Nat, T # {}
  PROVE  \E n \in T : \A m \in T : n <= m
<1>1. IsWellFoundedOn(Smaller, Nat) BY NatLessThanWellFounded DEF OpToRel, Smaller
<1>2. \E n \in T : \A m \in T : <<m, n>> \notin Smaller BY <1>1, WFMin, Zenon
<1>3. \A m, n \in T : <<m, n>> \notin Smaller => n <= m BY DEF Smaller
<1> QED BY <1>2, <1>3

(* The keys that are first in position n of a table. *)
FirstIn(i, n, T) == {t \in T : \A u \in T : Id[t[Rotated(i, n)]] <= Id[u[Rotated(i, n)]]}

(* Among keys some are first in one position. *)
LEMMA SomeAreFirst ==
  ASSUME NEW i \in 1..3, NEW n \in 1..3, NEW T, T \subseteq Triple, T # {}
  PROVE  FirstIn(i, n, T) \subseteq T /\ FirstIn(i, n, T) # {}
<1> DEFINE N == {Id[t[Rotated(i, n)]] : t \in T}
<1>1. N \subseteq Nat
  <2>1. \A t \in T : Id[t[Rotated(i, n)]] \in Nat BY PositionsAreNumbered
  <2> QED BY <2>1
<1>2. N # {} OBVIOUS
<1>3. \E m \in N : \A k \in N : m <= k
  <2> HIDE DEF N
  <2> QED BY <1>1, <1>2, LeastNumber
<1>4. PICK t \in T : \A k \in N : Id[t[Rotated(i, n)]] <= k BY <1>3
<1>5. t \in FirstIn(i, n, T) BY <1>4 DEF FirstIn
<1> QED BY <1>5 DEF FirstIn

(* A key that is first is no later than another in the position, and       *)
(* before one that is not first.                                           *)
LEMMA FirstComesFirst ==
  ASSUME NEW i \in 1..3, NEW n \in 1..3, NEW T, T \subseteq Triple,
         NEW t \in FirstIn(i, n, T), NEW u \in T
  PROVE  /\ Id[t[Rotated(i, n)]] <= Id[u[Rotated(i, n)]]
         /\ u \notin FirstIn(i, n, T) => Id[t[Rotated(i, n)]] < Id[u[Rotated(i, n)]]
<1> DEFINE N(x) == Id[x[Rotated(i, n)]]
<1>1. t \in T /\ \A x \in T : N(t) <= N(x) BY DEF FirstIn
<1>2. \A x \in T : N(x) \in Nat BY PositionsAreNumbered
<1>3. u \in FirstIn(i, n, T) <=> \A x \in T : N(u) <= N(x) BY DEF FirstIn
<1> HIDE DEF N
<1>4. N(t) <= N(u) /\ (u \notin FirstIn(i, n, T) => N(t) < N(u)) BY <1>1, <1>2, <1>3
<1> QED BY <1>4 DEF N

(* Least is the one before all others. *)
LEMMA LeastIsFirst ==
  ASSUME NEW i \in 1..3, NEW T, T \subseteq Triple, T # {}
  PROVE  Least(i, T) \in T /\ \A u \in T \ {Least(i, T)} : Precedes(i, Least(i, T), u)
<1> DEFINE T1 == FirstIn(i, 1, T)
<1> DEFINE T2 == FirstIn(i, 2, T1)
<1> DEFINE T3 == FirstIn(i, 3, T2)
<1> DEFINE N(x, n) == Id[x[Rotated(i, n)]]
<1>1. T1 \subseteq T /\ T1 # {} BY SomeAreFirst
<1>2. T2 \subseteq T1 /\ T2 # {}
  <2> HIDE DEF T1
  <2>1. T1 \subseteq Triple BY <1>1
  <2> QED BY <1>1, <2>1, SomeAreFirst
<1>3. T3 \subseteq T2 /\ T3 # {}
  <2> HIDE DEF T1, T2
  <2>1. T2 \subseteq Triple BY <1>1, <1>2
  <2> QED BY <1>2, <2>1, SomeAreFirst
<1>4. PICK t \in T3 : TRUE
  <2> HIDE DEF T3
  <2> QED BY <1>3
<1>5. t \in T /\ t \in T1 /\ t \in T2
  <2> HIDE DEF T1, T2, T3
  <2> QED BY <1>1, <1>2, <1>3, <1>4
<1>6. ASSUME NEW u \in T, u # t PROVE Precedes(i, t, u)
  <2>1. u \in Triple /\ t \in Triple BY <1>5
  <2>2. \A n \in 1..3 : N(t, n) \in Nat /\ N(u, n) \in Nat BY <2>1, PositionsAreNumbered
  <2>3. N(t, 1) <= N(u, 1) /\ (u \notin T1 => N(t, 1) < N(u, 1))
    BY <1>5, FirstComesFirst
  <2>4. u \in T1 => N(t, 2) <= N(u, 2) /\ (u \notin T2 => N(t, 2) < N(u, 2))
    <3> HIDE DEF T1
    <3>1. T1 \subseteq Triple BY <1>1
    <3> QED BY <1>5, <3>1, FirstComesFirst
  <2>5. u \in T2 => N(t, 3) <= N(u, 3)
    <3> HIDE DEF T1, T2
    <3>1. T2 \subseteq Triple BY <1>1, <1>2
    <3> QED BY <1>4, <3>1, FirstComesFirst
  <2>6. Precedes(i, u, t) => \/ N(u, 1) < N(t, 1)
                             \/ N(u, 1) = N(t, 1) /\ N(u, 2) < N(t, 2)
                             \/ N(u, 1) = N(t, 1) /\ N(u, 2) = N(t, 2) /\ N(u, 3) < N(t, 3)
    BY PrecedesIs
  <2>7. ~Precedes(i, u, t)
    <3> HIDE DEF N, T1, T2, T3
    <3> QED BY <2>2, <2>3, <2>4, <2>5, <2>6
  <2> QED BY <2>1, <2>7, <1>6, OrderIsTotal
<1>7. Least(i, T) = CHOOSE x \in T : \A u \in T \ {x} : Precedes(i, x, u) BY DEF Least
<1>8. \E x \in T : \A u \in T \ {x} : Precedes(i, x, u) BY <1>5, <1>6
<1> QED BY <1>7, <1>8

-----------------------------------------------------------------------------
(* Generators. *)

Walk == [state : {"idle", "open", "done", "failed"}, pat : Pattern \cup {All},
         context : Contexts \cup {Whole}, next : Triple \cup {End}]
Past == [yielded : SUBSET Triple, stable : SUBSET Triple, removed : SUBSET Triple]

(* A suspended generator has still before it what was there all the while  *)
(* and was not yielded; the key it has read was not yielded, for the keys  *)
(* that were come before it, and is there unless it was removed.           *)
OpenOK(w, h) ==
  /\ h.stable \subseteq {t \in Held(1, w.context) : Matches(t, w.pat)}
  /\ \A t \in h.stable : t \in h.yielded \/ t = w.next \/
                         (w.next # End /\ Precedes(Lookup(w.pat), w.next, t))
  /\ w.next # End => /\ Matches(w.next, w.pat)
                     /\ w.next \in Held(1, w.context) \cup h.removed
                     /\ \A t \in h.yielded : Precedes(Lookup(w.pat), t, w.next)

WalkOK(w, h) ==
  /\ w.state = "open" => OpenOK(w, h)
  /\ w.state = "done" => h.stable \subseteq h.yielded
  /\ w.state = "failed" => ~(h.removed \subseteq h.yielded)

ReadersInv ==
  /\ Tables
  /\ reader \in [Readers -> Walk]
  /\ history \in [Readers -> Past]
  /\ \A r \in Readers : WalkOK(reader[r], history[r])

(* No generator has begun. *)
LEMMA ReadersInit == Init => ReadersInv
<1> SUFFICES ASSUME Init PROVE ReadersInv OBVIOUS
<1>1. Idle \in Walk BY DEF Idle, Walk
<1>2. NoHistory \in Past BY DEF NoHistory, Past
<1>3. WalkOK(Idle, NoHistory) BY DEF WalkOK, Idle
<1> QED BY <1>1, <1>2, <1>3, TablesInit DEF ReadersInv, Init

(* The key after the one a generator yields is the first of what is left.  *)
LEMMA StepKeepsWalk ==
  ASSUME Tables, NEW w \in Walk, NEW h \in Past, w.state = "open", OpenOK(w, h),
         NEW k, k = IF Stepped(w).state = "open" THEN [h EXCEPT !.yielded = @ \cup {w.next}] ELSE h
  PROVE  Stepped(w) \in Walk /\ k \in Past /\ WalkOK(Stepped(w), k)
<1> DEFINE i == Lookup(w.pat)
<1> DEFINE R == Range(w.pat, w.context)
<1> DEFINE later == {t \in R : Precedes(i, w.next, t)}
<1>1. i \in 1..3 BY LookupIsBest
<1>2. R = {t \in Held(1, w.context) : Matches(t, w.pat)} /\ R \subseteq Triple
  <2>1. R = {t \in Held(1, w.context) : Matches(t, w.pat)} BY RangeIsHeld
  <2>2. Held(1, w.context) \subseteq Triple BY DEF Held
  <2> QED BY <2>1, <2>2
<1>3. w.pat \in Pattern \cup {All} /\ w.context \in Contexts \cup {Whole} /\ w.next \in Triple \cup {End}
  BY DEF Walk
<1>4. h.yielded \subseteq Triple /\ h.stable \subseteq Triple /\ h.removed \subseteq Triple
  BY DEF Past
<1>5. CASE w.next = End
  <2>1. Stepped(w) = [Idle EXCEPT !.state = "done"] BY <1>5 DEF Stepped
  <2>2. Stepped(w) \in Walk /\ Stepped(w).state = "done" BY <2>1 DEF Idle, Walk
  <2>3. k = h BY <2>2
  <2>4. h.stable \subseteq h.yielded
    <3>1. End \notin h.stable BY <1>4, EndIsNoTriple
    <3> QED BY <3>1, <1>5 DEF OpenOK
  <2> QED BY <2>2, <2>3, <2>4 DEF WalkOK
<1>6. CASE w.next # End /\ w.next \notin R
  <2>1. Stepped(w) = [Idle EXCEPT !.state = "failed"] BY <1>6 DEF Stepped
  <2>2. Stepped(w) \in Walk /\ Stepped(w).state = "failed" BY <2>1 DEF Idle, Walk
  <2>3. k = h BY <2>2
  <2>4. w.next \in Triple BY <1>3, <1>6
  <2>5. w.next \in h.removed BY <1>2, <1>6, <2>4 DEF OpenOK
  <2>6. w.next \notin h.yielded BY <2>4, <1>1, <1>6, OrderIsStrict DEF OpenOK
  <2> QED BY <2>2, <2>3, <2>5, <2>6 DEF WalkOK
<1>7. CASE w.next # End /\ w.next \in R
  <2> DEFINE n == Following(w)
  <2>1. Stepped(w) = [w EXCEPT !.next = n] BY <1>7 DEF Stepped
  <2>2. later \subseteq Triple /\ w.next \in Triple BY <1>2, <1>7
  <2>3. n = Least(i, later) BY DEF Following
  <2>4. n = End <=> later = {}
    <3>1. later = {} => n = End BY <2>3 DEF Least
    <3>2. later # {} => n \in Triple
      <4> HIDE DEF later, i, n
      <4> QED BY <1>1, <2>2, <2>3, LeastIsFirst
    <3> QED BY <3>1, <3>2, EndIsNoTriple
  <2>5. n # End => n \in later /\ \A u \in later \ {n} : Precedes(i, n, u)
    <3> HIDE DEF later, i, n
    <3> QED BY <1>1, <2>2, <2>3, <2>4, LeastIsFirst
  <2>6. n \in Triple \cup {End} BY <2>2, <2>5
  <2> HIDE DEF n
  <2>7. /\ Stepped(w) \in Walk /\ Stepped(w).state = "open" /\ Stepped(w).pat = w.pat
        /\ Stepped(w).context = w.context /\ Stepped(w).next = n
    BY <2>1, <2>6 DEF Walk
  <2>8. k = [h EXCEPT !.yielded = @ \cup {w.next}] BY <2>7
  <2>9. /\ k \in Past /\ k.yielded = h.yielded \cup {w.next} /\ k.stable = h.stable
        /\ k.removed = h.removed
    BY <2>8, <2>2 DEF Past
  <2>10. h.stable \subseteq R BY <1>2 DEF OpenOK
  <2>11. ASSUME NEW t \in h.stable, t \notin k.yielded
         PROVE  t = n \/ (n # End /\ Precedes(i, n, t))
    <3>1. t \notin h.yielded /\ t # w.next BY <2>11, <2>9
    <3>2. Precedes(i, w.next, t) BY <3>1 DEF OpenOK
    <3>3. t \in later BY <3>2, <2>10
    <3> HIDE DEF later
    <3> QED BY <3>3, <2>4, <2>5
  <2>12. ASSUME n # End PROVE Matches(n, w.pat) /\ n \in Held(1, w.context)
    BY <2>12, <2>5, <1>2
  <2>13. ASSUME n # End, NEW t \in k.yielded PROVE Precedes(i, t, n)
    <3>1. Precedes(i, w.next, n) /\ n \in Triple BY <2>13, <2>5, <2>2
    <3>2. CASE t = w.next BY <3>1, <3>2
    <3>3. CASE t \in h.yielded
      <4>1. Precedes(i, t, w.next) BY <3>3, <1>7 DEF OpenOK
      <4>2. t \in Triple BY <3>3, <1>4
      <4> HIDE DEF i
      <4> QED BY <4>1, <4>2, <3>1, <2>2, <1>1, OrderIsTransitive
    <3> QED BY <3>2, <3>3, <2>9, <2>13
  <2>14. OpenOK(Stepped(w), k)
    <3>1. k.stable \subseteq {t \in Held(1, w.context) : Matches(t, w.pat)}
      BY <2>9, <2>10, <1>2
    <3> QED BY <3>1, <2>7, <2>9, <2>11, <2>12, <2>13 DEF OpenOK
  <2> QED BY <2>7, <2>9, <2>14 DEF WalkOK
<1> QED BY <1>5, <1>6, <1>7

(* next() of a generator keeps what it promises. *)
LEMMA AdvanceKeeps ==
  ASSUME ReadersInv, NEW r \in Readers, NEW w \in Walk, NEW h \in Past, w.state = "open",
         OpenOK(w, h), Advance(r, w, h)
  PROVE  ReadersInv'
<1> DEFINE k == IF Stepped(w).state = "open" THEN [h EXCEPT !.yielded = @ \cup {w.next}] ELSE h
<1>1. Tables /\ reader \in [Readers -> Walk] /\ history \in [Readers -> Past] BY DEF ReadersInv
<1>2. Stepped(w) \in Walk /\ k \in Past /\ WalkOK(Stepped(w), k)
  BY <1>1, StepKeepsWalk
<1>3. reader' = [reader EXCEPT ![r] = Stepped(w)] /\ history' = [history EXCEPT ![r] = k]
  BY DEF Advance
<1> HIDE DEF k
<1>4. index' = index /\ contexts' = contexts BY DEF Advance, tables
<1>5. Tables' BY <1>1, <1>4 DEF Tables, TypeOK, IndexShape, IndexesAgree, ListsAreHolders, Value,
                              ContextsListed
<1>6. reader' \in [Readers -> Walk] /\ history' \in [Readers -> Past] BY <1>1, <1>2, <1>3
<1>7. \A q \in Readers : WalkOK(reader'[q], history'[q])
  <2> SUFFICES ASSUME NEW q \in Readers PROVE WalkOK(reader'[q], history'[q]) OBVIOUS
  <2>1. CASE q = r BY <1>1, <1>2, <1>3, <2>1
  <2>2. CASE q # r
    <3>1. reader'[q] = reader[q] /\ history'[q] = history[q] BY <1>1, <1>3, <2>2
    <3> QED BY <3>1 DEF ReadersInv
  <2> QED BY <2>1, <2>2
<1>8. \A q \in Readers : WalkOK(reader[q], history[q])'
  BY <1>4, <1>7 DEF WalkOK, OpenOK, Held
<1> QED BY <1>5, <1>6, <1>8 DEF ReadersInv

(* A generator begins at the first key of its range. *)
LEMMA StartKeeps ==
  ASSUME ReadersInv, NEW r \in Readers, NEW pat \in Pattern, NEW c \in Contexts \cup {Whole},
         Start(r, pat, c)
  PROVE  ReadersInv'
<1> DEFINE R == Range(pat, c)
<1> DEFINE w == [state |-> "open", pat |-> pat, context |-> c, next |-> Least(Lookup(pat), R)]
<1> DEFINE h == [NoHistory EXCEPT !.stable = {t \in Held(1, c) : Matches(t, pat)}]
<1>1. Tables BY DEF ReadersInv
<1>2. R = {t \in Held(1, c) : Matches(t, pat)} /\ R \subseteq Triple
  <2>1. R = {t \in Held(1, c) : Matches(t, pat)} BY <1>1, RangeIsHeld
  <2>2. Held(1, c) \subseteq Triple BY DEF Held
  <2> QED BY <2>1, <2>2
<1>3. Lookup(pat) \in 1..3 BY LookupIsBest
<1>4. Advance(r, w, h) BY DEF Start
<1>5. h = [yielded |-> {}, stable |-> R, removed |-> {}]
  <2> HIDE DEF R
  <2> QED BY <1>2 DEF NoHistory
<1>6. R = {} => w.next = End BY DEF Least
<1>7. R # {} => w.next \in R /\ \A u \in R \ {w.next} : Precedes(Lookup(pat), w.next, u)
  <2> HIDE DEF R
  <2>1. R # {} => /\ Least(Lookup(pat), R) \in R
                  /\ \A u \in R \ {Least(Lookup(pat), R)} : Precedes(Lookup(pat), Least(Lookup(pat), R), u)
    BY <1>2, <1>3, LeastIsFirst
  <2> QED BY <2>1
<1>8. w.state = "open" /\ w.pat = pat /\ w.context = c OBVIOUS
<1>9. w \in Walk
  <2>1. w.next \in Triple \cup {End}
    <3> HIDE DEF w, R
    <3> QED BY <1>2, <1>6, <1>7
  <2> QED BY <2>1 DEF Walk
<1>10. h \in Past
  <2> HIDE DEF R, h
  <2> QED BY <1>2, <1>5 DEF Past
<1>11. OpenOK(w, h)
  <2> HIDE DEF R, w, h
  <2>1. h.stable = R /\ h.yielded = {} /\ h.removed = {} BY <1>5
  <2>2. End \notin R BY <1>2, EndIsNoTriple
  <2>3. R # {} => w.next # End /\ Matches(w.next, pat) /\ w.next \in Held(1, c)
    BY <1>2, <1>7, <2>2
  <2>4. \A t \in R : t = w.next \/ (w.next # End /\ Precedes(Lookup(pat), w.next, t))
    BY <1>7, <2>2
  <2> QED BY <1>2, <1>6, <1>8, <2>1, <2>3, <2>4 DEF OpenOK
<1> HIDE DEF w, h
<1> QED BY <1>4, <1>8, <1>9, <1>10, <1>11, AdvanceKeeps

(* A change of the store between two steps of a generator: what was there  *)
(* all the while is still there, and what has gone was removed.            *)
LEMMA ChangeKeepsReaders ==
  ASSUME ReadersInv, Tables', UNCHANGED reader, history' = Observed
  PROVE  ReadersInv'
<1>1. reader \in [Readers -> Walk] /\ history \in [Readers -> Past] BY DEF ReadersInv
<1> DEFINE held(c) == {t \in Triple : <<c, t>> \in DOMAIN index'[1]}
<1>2. \A c : held(c) = Held(1, c)' BY DEF Held
<1>3. \A r \in Readers : history'[r] =
        IF reader[r].state = "open"
        THEN [history[r] EXCEPT !.stable = @ \cap held(reader[r].context),
                !.removed = @ \cup (Held(1, reader[r].context) \ held(reader[r].context))]
        ELSE history[r]
  BY DEF Observed
<1> HIDE DEF held
<1>4. \A c : Held(1, c) \subseteq Triple BY DEF Held
<1>5. history' \in [Readers -> Past]
  <2>1. DOMAIN history' = Readers /\ history' = [r \in Readers |-> history'[r]] BY DEF Observed
  <2>2. \A r \in Readers : history'[r] \in Past
    <3> TAKE r \in Readers
    <3>1. history[r] \in Past BY <1>1
    <3>2. Held(1, reader[r].context) \subseteq Triple BY <1>4
    <3>3. CASE reader[r].state = "open"
      <4> DEFINE H == held(reader[r].context)
      <4> DEFINE G == Held(1, reader[r].context)
      <4>1. history'[r] = [history[r] EXCEPT !.stable = @ \cap H, !.removed = @ \cup (G \ H)]
        BY <1>3, <3>3
      <4> HIDE DEF H, G
      <4>2. G \subseteq Triple BY <3>2 DEF G
      <4> QED BY <3>1, <4>1, <4>2 DEF Past
    <3>4. CASE reader[r].state # "open" BY <1>3, <3>1, <3>4
    <3> QED BY <3>3, <3>4
  <2> QED BY <2>1, <2>2
<1>6. \A r \in Readers : WalkOK(reader[r], history[r])'
  <2> SUFFICES ASSUME NEW r \in Readers PROVE WalkOK(reader[r], history[r])' OBVIOUS
  <2> DEFINE w == reader[r]
  <2> DEFINE h == history[r]
  <2>1. w' = w /\ WalkOK(w, h) /\ w \in Walk /\ h \in Past BY <1>1 DEF ReadersInv
  <2>2. CASE w.state # "open"
    <3>1. h' = h BY <1>3, <2>2
    <3> QED BY <2>1, <2>2, <3>1 DEF WalkOK
  <2>3. CASE w.state = "open"
    <3> DEFINE H == held(w.context)
    <3> DEFINE G == Held(1, w.context)
    <3>1. h' = [h EXCEPT !.stable = @ \cap H, !.removed = @ \cup (G \ H)] BY <1>3, <2>3
    <3>2. G' = H
      <4>1. (w.context)' = w.context BY <2>1
      <4> QED BY <4>1, <1>2
    <3>3. OpenOK(w, h) BY <2>1, <2>3 DEF WalkOK
    <3> HIDE DEF H, G, h
    <3>4. h'.yielded = h.yielded /\ h'.stable = h.stable \cap H /\ h'.removed = h.removed \cup (G \ H)
      BY <2>1, <3>1 DEF Past
    <3>5. h.stable \subseteq {t \in G : Matches(t, w.pat)} BY <3>3 DEF OpenOK, G
    <3>6. w.next # End => w.next \in G \cup h.removed BY <3>3 DEF OpenOK, G
    <3>7. h'.stable \subseteq {t \in H : Matches(t, w.pat)} BY <3>4, <3>5
    <3>8. w.next # End => w.next \in H \cup h'.removed BY <3>4, <3>6
    <3>9. /\ h'.stable \subseteq {t \in G' : Matches(t, w.pat)}
          /\ w.next # End => w.next \in G' \cup h'.removed
      BY <3>2, <3>7, <3>8
    <3>10. OpenOK(w, h)'
      <4> SUFFICES /\ h'.stable \subseteq {t \in G' : Matches(t, w.pat)}
                   /\ \A t \in h'.stable : t \in h'.yielded \/ t = w.next \/
                                           (w.next # End /\ Precedes(Lookup(w.pat), w.next, t))
                   /\ w.next # End => /\ Matches(w.next, w.pat)
                                      /\ w.next \in G' \cup h'.removed
                                      /\ \A t \in h'.yielded : Precedes(Lookup(w.pat), t, w.next)
        BY <2>1 DEF OpenOK, G, Held
      <4> QED BY <3>3, <3>4, <3>9 DEF OpenOK
    <3>11. w'.state = "open" BY <2>1, <2>3
    <3> QED BY <3>10, <3>11 DEF WalkOK, h
  <2> QED BY <2>2, <2>3
<1> QED BY <1>1, <1>5, <1>6 DEF ReadersInv

(* Every step keeps what the generators promise. *)
LEMMA ReadersStep == ReadersInv /\ [Next]_vars => ReadersInv'
<1> SUFFICES ASSUME ReadersInv, [Next]_vars PROVE ReadersInv' OBVIOUS
<1>1. Tables' BY TablesStep DEF ReadersInv
<1>2. CASE Change
  <2>1. UNCHANGED reader /\ history' = Observed
    BY <1>2, Zenon DEF Change, Add, RemoveExact, RemoveRange
  <2> QED BY <1>1, <2>1, ChangeKeepsReaders
<1>3. ASSUME NEW r \in Readers, NEW pat \in Pattern, NEW c \in Contexts \cup {Whole},
             Start(r, pat, c)
      PROVE  ReadersInv'
  BY <1>3, StartKeeps
<1>4. ASSUME NEW r \in Readers, Resume(r) PROVE ReadersInv'
  <2>1. reader[r].state = "open" /\ Advance(r, reader[r], history[r]) BY <1>4 DEF Resume
  <2>2. reader[r] \in Walk /\ history[r] \in Past /\ WalkOK(reader[r], history[r])
    BY DEF ReadersInv
  <2>3. OpenOK(reader[r], history[r]) BY <2>1, <2>2 DEF WalkOK
  <2> QED BY <2>1, <2>2, <2>3, AdvanceKeeps
<1>5. ASSUME index' = index, reader' = reader, history' = history PROVE ReadersInv'
  BY <1>1, <1>5 DEF ReadersInv, WalkOK, OpenOK, Held
<1>6. ASSUME NEW c \in Graphs, AddGraph(c) PROVE ReadersInv' BY <1>5, <1>6 DEF AddGraph, reading
<1>7. CASE UNCHANGED vars BY <1>5, <1>7 DEF vars, tables, reading
<1> QED BY <1>2, <1>3, <1>4, <1>6, <1>7 DEF Next, Read

(* A generator that ends has yielded whatever of its answer was stored all *)
(* the while, though the store changed between any two of its steps.       *)
THEOREM StableNeverMissed == Spec => []NothingStableMissed
<1>1. ReadersInv => NothingStableMissed BY DEF ReadersInv, WalkOK, NothingStableMissed
<1> QED BY <1>1, ReadersInit, ReadersStep, PTL DEF Spec

(* A generator fails only at a key that went before it was yielded: a loop *)
(* may remove the triples it is given.                                     *)
THEOREM LoopsMayAlwaysRemove == Spec => []LoopsMayRemove
<1>1. ReadersInv => LoopsMayRemove BY DEF ReadersInv, WalkOK, LoopsMayRemove
<1> QED BY <1>1, ReadersInit, ReadersStep, PTL DEF Spec

-----------------------------------------------------------------------------
(* Refinement. *)

(* The quads of the empty store. *)
LEMMA QuadsInit == Init => Quads!Init
<1> SUFFICES ASSUME Init PROVE Quads!Init OBVIOUS
<1>1. DOMAIN index[1] = {} BY DEF Init
<1>2. \A c : Held(1, c) = {} BY <1>1 DEF Held
<1>3. \A t : Value(1, t) = {} BY <1>1 DEF Value
<1>4. Voiced = {} BY <1>3 DEF Voiced
<1> QED BY <1>2, <1>4 DEF Quads!Init, Content, Contexts, Quads!Contexts

(* Which pairs are voiced. *)
LEMMA VoicedIs ==
  /\ Voiced \subseteq Triple \X Formulas /\ Voiced' \subseteq Triple \X Formulas
  /\ \A u \in Triple, f \in Formulas :
       /\ <<u, f>> \in Voiced <=> f \in Value(1, u)
       /\ <<u, f>> \in Voiced' <=> f \in Value(1, u)'
BY DEF Voiced

(* add() of a graph inserts, add() of a formula quotes, and addN() of a    *)
(* formula lets it assert.                                                 *)
LEMMA AddRefines ==
  ASSUME Tables, NEW t \in Triple, NEW c \in Contexts, NEW quoted \in BOOLEAN, Add(t, c, quoted)
  PROVE  /\ c \in Graphs /\ ~quoted => Quads!Insert({t}, c)
         /\ c \in Formulas /\ quoted => Quads!Quote({t}, c)
         /\ c \in Formulas /\ ~quoted => Quads!Voice({t}, c)
<1>0. Holders(t, c, quoted) BY AddedHolders
<1>1. \A x \in Contexts, u \in Triple :
        <<x, u>> \in DOMAIN index'[1] <=> <<x, u>> \in DOMAIN index[1] \/ (x = c /\ u = t)
  BY <1>0 DEF Holders
<1>2. \A u \in Triple : <<Whole, u>> \in DOMAIN index'[1] <=>
                          <<Whole, u>> \in DOMAIN index[1] \/ (~quoted /\ u = t)
  BY <1>0 DEF Holders
<1>3. \A u \in Triple :
        Value(1, u)' = IF ~quoted /\ u = t THEN Value(1, t) \cup {c} ELSE Value(1, u)
  BY <1>0 DEF Holders
<1>4. Quads!Holding({t}, c)
  <2>1. \A x \in Contexts : Held(1, x)' = Held(1, x) \cup (IF x = c THEN {t} ELSE {})
    BY <1>1 DEF Held
  <2> QED BY <2>1 DEF Content, Quads!Holding
<1>5. ASSUME c \in Graphs, ~quoted PROVE Quads!Insert({t}, c)
  <2>1. Held(1, Whole)' = Held(1, Whole) \cup {t} BY <1>2, <1>5 DEF Held
  <2>2. \A u \in Triple, f \in Formulas : f \in Value(1, u)' <=> f \in Value(1, u)
    BY <1>3, <1>5, GraphsAreNotFormulas
  <2>3. Voiced' = Voiced BY <2>2, VoicedIs
  <2> QED BY <1>4, <2>1, <2>3 DEF Quads!Insert
<1>6. ASSUME quoted PROVE Quads!Quote({t}, c)
  <2>1. Held(1, Whole)' = Held(1, Whole) BY <1>2, <1>6 DEF Held
  <2>2. \A u \in Triple : Value(1, u)' = Value(1, u) BY <1>3, <1>6
  <2>3. Voiced' = Voiced BY <2>2, VoicedIs
  <2>4. Voiced' = Voiced \ ({} \X {c}) BY <2>3
  <2>5. {} \in SUBSET {t} OBVIOUS
  <2> QED BY <1>4, <2>1, <2>4, <2>5 DEF Quads!Quote
<1>7. ASSUME c \in Formulas, ~quoted PROVE Quads!Voice({t}, c)
  <2>1. Held(1, Whole)' = Held(1, Whole) \cup {t} BY <1>2, <1>7 DEF Held
  <2>2. \A u \in Triple, f \in Formulas :
          f \in Value(1, u)' <=> f \in Value(1, u) \/ <<u, f>> \in {t} \X {c}
    BY <1>3, <1>7
  <2>3. {t} \X {c} \subseteq Triple \X Formulas BY <1>7
  <2>4. Voiced' = Voiced \cup ({t} \X {c}) BY <2>2, <2>3, VoicedIs
  <2>5. {t} \in SUBSET {t} /\ {t} \ Content[c] \subseteq {t} OBVIOUS
  <2> QED BY <1>4, <2>1, <2>4, <2>5 DEF Quads!Voice
<1> QED BY <1>5, <1>6, <1>7

(* A triple is in the whole store while a graph holds it or a formula      *)
(* asserts it.                                                             *)
LEMMA WholeIsAsserted ==
  ASSUME Tables, NEW u \in Triple
  PROVE  u \in Held(1, Whole) <=> \/ \E g \in Graphs : u \in Content[g]
                                  \/ \E f \in Formulas : <<u, f>> \in Voiced
<1>1. /\ <<Whole, u>> \in DOMAIN index[1] <=> Value(1, u) # {}
      /\ \A c \in Value(1, u) : <<c, u>> \in DOMAIN index[1]
      /\ \A g \in Graphs : <<g, u>> \in DOMAIN index[1] => g \in Value(1, u)
  BY DEF Tables, ListsAreHolders
<1>2. Value(1, u) \subseteq Graphs \cup Formulas BY DEF Tables, TypeOK, Value, Contexts
<1>3. \A g \in Graphs : u \in Content[g] <=> <<g, u>> \in DOMAIN index[1]
  BY DEF Content, Contexts, Held
<1>4. u \in Held(1, Whole) <=> Value(1, u) # {} BY <1>1 DEF Held
<1>5. \A f \in Formulas : <<u, f>> \in Voiced <=> f \in Value(1, u) BY VoicedIs
<1> QED BY <1>1, <1>2, <1>3, <1>4, <1>5

(* The same of the next state. *)
LEMMA WholeIsAssertedNext ==
  Tables' => \A u \in Triple :
    u \in Held(1, Whole)' <=> \/ \E g \in Graphs : u \in Content'[g]
                              \/ \E f \in Formulas : <<u, f>> \in Voiced'
<1>1. Tables => \A u \in Triple :
        u \in Held(1, Whole) <=> \/ \E g \in Graphs : u \in Content[g]
                                 \/ \E f \in Formulas : <<u, f>> \in Voiced
  BY WholeIsAsserted
<1>2. Tables' => (\A u \in Triple :
        u \in Held(1, Whole) <=> \/ \E g \in Graphs : u \in Content[g]
                                 \/ \E f \in Formulas : <<u, f>> \in Voiced)'
  BY <1>1, PTL
<1> QED BY <1>2

(* remove() deletes what matches from the context. *)
LEMMA RemoveDeletes ==
  ASSUME Tables, Tables', NEW pat, NEW c \in Contexts, NEW T,
         T = {t \in Held(1, c) : Matches(t, pat)}, RemoveFrom(T, c)
  PROVE  Quads!Delete(pat, c)
<1>1. T \in SUBSET Triple /\ T \subseteq Held(1, c) BY DEF Held
<1>2. \A x \in Contexts, u \in Triple :
        <<x, u>> \in DOMAIN index'[1] <=> <<x, u>> \in DOMAIN index[1] /\ ~(x = c /\ u \in T)
  BY <1>1, RemoveFromKeeps
<1>3. \A u \in Triple : Value(1, u)' = Value(1, u) \ (IF u \in T THEN {c} ELSE {})
  BY <1>1, RemoveFromKeeps
<1>4. T = {t \in Content[c] : Quads!Matches(t, pat)}
  BY DEF Content, Matches, Quads!Matches
<1>5. Content' = [Content EXCEPT ![c] = @ \ T]
  <2>1. \A x \in Contexts : Held(1, x)' = {u \in Held(1, x) : ~(x = c /\ u \in T)}
    BY <1>2 DEF Held
  <2>2. \A x \in Contexts : Held(1, x)' = IF x = c THEN Held(1, x) \ T ELSE Held(1, x)
    BY <2>1
  <2> QED BY <2>2 DEF Content
<1>6. Voiced' = Voiced \ (T \X {c})
  <2>1. \A u \in Triple, f \in Formulas :
          f \in Value(1, u)' <=> f \in Value(1, u) /\ <<u, f>> \notin T \X {c}
    BY <1>3
  <2> QED BY <2>1, VoicedIs
<1>7. Held(1, Whole)' = {t \in Held(1, Whole) : t \in T => Quads!AssertedNext(t)}
  <2>1. ASSUME NEW u \in Triple
        PROVE  u \in Held(1, Whole)' <=> u \in Held(1, Whole) /\ (u \in T => Quads!AssertedNext(u))
    <3>1. u \in Held(1, Whole)' <=> Quads!AssertedNext(u)
      BY WholeIsAssertedNext DEF Quads!AssertedNext
    <3>2. u \in Held(1, Whole) <=> Value(1, u) # {} BY DEF Tables, ListsAreHolders, Held
    <3>3. u \in Held(1, Whole)' <=> Value(1, u)' # {} BY DEF Tables, ListsAreHolders, Held
    <3>4. u \notin T => Value(1, u)' = Value(1, u) BY <1>3
    <3>5. Value(1, u)' \subseteq Value(1, u) BY <1>3
    <3> QED BY <3>1, <3>2, <3>3, <3>4, <3>5
  <2>2. Held(1, Whole) \subseteq Triple /\ Held(1, Whole)' \subseteq Triple BY DEF Held
  <2> QED BY <2>1, <2>2
<1> QED BY <1>4, <1>5, <1>6, <1>7 DEF Quads!Delete

(* remove() without a context deletes from every graph and from what the   *)
(* formulas assert.                                                        *)
LEMMA RemoveDeletesEverywhere ==
  ASSUME Tables, NEW pat, NEW T, NEW i0 \in 1..3,
         T = {t \in Held(1, Whole) : Matches(t, pat)}, RemoveEverywhere(T, i0)
  PROVE  Quads!DeleteEverywhere(pat)
<1>1. T \in SUBSET Triple BY DEF Held
<1>2. \A x \in Contexts, u \in Triple :
        <<x, u>> \in DOMAIN index'[1] <=>
          <<x, u>> \in DOMAIN index[1] /\ ~(x \in Value(1, u) /\ u \in T)
  BY <1>1, RemoveEverywhereKeeps
<1>3. \A u \in Triple : <<Whole, u>> \in DOMAIN index'[1] <=>
                          <<Whole, u>> \in DOMAIN index[1] /\ u \notin T
  BY <1>1, RemoveEverywhereKeeps
<1>4. \A u \in Triple : Value(1, u)' = IF u \in T THEN {} ELSE Value(1, u)
  BY <1>1, RemoveEverywhereKeeps
<1>5. T = {t \in Held(1, Whole) : Quads!Matches(t, pat)} BY DEF Matches, Quads!Matches
<1>6. Content' = [c \in Contexts |->
                    IF c \in Formulas THEN {t \in Content[c] : t \in T => <<t, c>> \notin Voiced}
                    ELSE Content[c] \ T]
  <2>1. ASSUME NEW c \in Contexts, NEW u \in Triple
        PROVE  u \in Held(1, c)' <=>
                 u \in Held(1, c) /\ (u \in T => c \in Formulas /\ <<u, c>> \notin Voiced)
    <3>1. u \in Held(1, c)' <=> u \in Held(1, c) /\ ~(c \in Value(1, u) /\ u \in T)
      BY <1>2 DEF Held
    <3>2. c \in Formulas => (<<u, c>> \in Voiced <=> c \in Value(1, u)) BY VoicedIs
    <3>3. c \notin Formulas /\ u \in Held(1, c) => c \in Value(1, u)
      BY DEF Tables, ListsAreHolders, Held, Contexts
    <3> QED BY <3>1, <3>2, <3>3
  <2>2. \A c \in Contexts : Held(1, c) \subseteq Triple /\ Held(1, c)' \subseteq Triple BY DEF Held
  <2>3. \A c \in Contexts : Held(1, c)' =
          IF c \in Formulas THEN {t \in Held(1, c) : t \in T => <<t, c>> \notin Voiced}
          ELSE Held(1, c) \ T
    BY <2>1, <2>2
  <2> QED BY <2>3 DEF Content
<1>7. Voiced' = Voiced \ (T \X Formulas)
  <2>1. \A u \in Triple, f \in Formulas :
          f \in Value(1, u)' <=> f \in Value(1, u) /\ <<u, f>> \notin T \X Formulas
    BY <1>4
  <2> QED BY <2>1, VoicedIs
<1>8. Held(1, Whole)' = Held(1, Whole) \ T BY <1>3 DEF Held
<1>9. Quads!Contexts = Contexts /\ Formulas \in SUBSET Formulas BY DEF Quads!Contexts, Contexts
<1> QED BY <1>5, <1>6, <1>7, <1>8, <1>9 DEF Quads!DeleteEverywhere

(* Every step is a step of the abstract store or a stutter. *)
LEMMA QuadsStep == Tables /\ Tables' /\ [Next]_vars => [Quads!Next]_(Quads!abstractVars)
<1> SUFFICES ASSUME Tables, Tables', [Next]_vars PROVE [Quads!Next]_(Quads!abstractVars)
  OBVIOUS
<1>1. Quads!Contexts = Contexts BY DEF Quads!Contexts, Contexts
<1>2. ASSUME NEW t \in Triple, NEW c \in Contexts, Add(t, c, FALSE) PROVE Quads!Next
  <2>1. {t} \in SUBSET Triple OBVIOUS
  <2>2. \/ c \in Graphs /\ Quads!Insert({t}, c)
        \/ c \in Formulas /\ Quads!Voice({t}, c)
    BY <1>2, AddRefines DEF Contexts
  <2> QED BY <2>1, <2>2 DEF Quads!Next
<1>10. ASSUME NEW t \in Triple, NEW f \in Formulas, Add(t, f, TRUE) PROVE Quads!Next
  <2>1. {t} \in SUBSET Triple OBVIOUS
  <2>2. ASSUME NEW q \in BOOLEAN, q, Add(t, f, q) PROVE Quads!Quote({t}, f)
    BY <2>2, AddRefines DEF Contexts
  <2>3. Quads!Quote({t}, f) BY <1>10, <2>2, Zenon
  <2> QED BY <2>1, <2>3 DEF Quads!Next
<1>3. ASSUME NEW t \in Triple, NEW c \in Contexts, RemoveExact(t, c) PROVE Quads!Next
  <2>1. {t} = {u \in Held(1, c) : Matches(u, t)}
    BY <1>3, TriplesBindAll DEF RemoveExact, Held, Matches
  <2>2. Quads!Delete(t, c) BY <1>3, <2>1, RemoveDeletes DEF RemoveExact
  <2>3. t \in Pattern BY TriplesArePatterns
  <2> QED BY <1>1, <2>2, <2>3 DEF Quads!Next
<1>4. ASSUME NEW pat \in Pattern, NEW c \in Contexts, RemoveRange(pat, c) PROVE Quads!Next
  <2>1. RemoveFrom(Range(pat, c), c) BY <1>4, WholeIsNoContext DEF RemoveRange
  <2>2. Quads!Delete(pat, c) BY <2>1, RangeIsHeld, RemoveDeletes
  <2> QED BY <1>1, <2>2 DEF Quads!Next
<1>5. ASSUME NEW pat \in Pattern, RemoveRange(pat, Whole) PROVE Quads!Next
  <2>1. RemoveEverywhere(Range(pat, Whole), Lookup(pat)) /\ Lookup(pat) \in 1..3
    BY <1>5, LookupIsBest DEF RemoveRange
  <2>2. Quads!DeleteEverywhere(pat) BY <2>1, RangeIsHeld, RemoveDeletesEverywhere
  <2> QED BY <2>2 DEF Quads!Next
<1>6. ASSUME UNCHANGED index PROVE UNCHANGED Quads!abstractVars
  BY <1>6 DEF Quads!abstractVars, Content, Held, Voiced, Value
<1>7. ASSUME NEW c \in Graphs, AddGraph(c) PROVE UNCHANGED index BY <1>7 DEF AddGraph
<1>8. CASE Read
  <2>1. UNCHANGED tables BY <1>8, Zenon DEF Read, Start, Resume, Advance
  <2> QED BY <2>1, <1>6 DEF tables
<1>9. CASE UNCHANGED vars BY <1>9, <1>6 DEF vars, tables
<1> QED BY <1>2, <1>3, <1>4, <1>5, <1>6, <1>7, <1>8, <1>9, <1>10 DEF Next, Change

(* The three tables implement the abstract store: add() inserts, remove()  *)
(* deletes what the pattern matches where it was asked to, and the whole   *)
(* store shows what the graphs hold and the formulas assert.               *)
THEOREM BerkeleyImplementsQuads == Spec => ImplementsQuadStore
<1>1. Spec => []Tables BY TablesInit, TablesStep, PTL DEF Spec
<1> QED BY <1>1, QuadsInit, QuadsStep, PTL DEF Spec, ImplementsQuadStore, Quads!Spec

-----------------------------------------------------------------------------
(* The flag. *)

Announced == SyncTypeOK /\ ChangeIsAnnounced

(* A store that is opened has nothing to write. *)
LEMMA AnnouncedInit == SyncInit => Announced
BY DEF SyncInit, Announced, SyncTypeOK, ChangeIsAnnounced

(* Every step of the two threads keeps a change announced. *)
LEMMA AnnouncedStep == Announced /\ [SyncNext]_allVars => Announced'
<1> USE DEF Announced, SyncTypeOK, ChangeIsAnnounced
<1> SUFFICES ASSUME Announced, [SyncNext]_allVars PROVE Announced' OBVIOUS
<1>1. CASE Operate
  <2>1. (index' # index) \in BOOLEAN OBVIOUS
  <2> QED BY <1>1, <2>1 DEF Operate
<1>2. CASE Raise BY <1>2 DEF Raise
<1>3. CASE OperateSilently BY <1>3 DEF OperateSilently, syncVars
<1>4. CASE Close BY <1>4 DEF Close
<1>5. CASE Join BY <1>5 DEF Join
<1>6. CASE Open BY <1>6 DEF Open
<1>7. CASE Notice BY <1>7 DEF Notice
<1>8. CASE Expire BY <1>8 DEF Expire
<1>9. CASE Sync BY <1>9 DEF Sync
<1>10. CASE Leave BY <1>10 DEF Leave
<1>11. CASE UNCHANGED allVars BY <1>11 DEF allVars, syncVars
<1> QED BY <1>1, <1>2, <1>3, <1>4, <1>5, <1>6, <1>7, <1>8, <1>9, <1>10, <1>11 DEF SyncNext

(* An operation runs on an open store only, a closed one has no thread and *)
(* nothing left to write.                                                  *)
THEOREM ThreadsAlwaysTyped == SyncSpec => []SyncTypeOK
<1>1. Announced => SyncTypeOK BY DEF Announced
<1> QED BY <1>1, AnnouncedInit, AnnouncedStep, PTL DEF SyncSpec

(* However the steps of the two threads alternate, no change is forgotten: *)
(* the flag is lowered only by a thread that has still to write.           *)
THEOREM ChangesAlwaysAnnounced == SyncSpec => []ChangeIsAnnounced
<1>1. Announced => ChangeIsAnnounced BY DEF Announced
<1> QED BY <1>1, AnnouncedInit, AnnouncedStep, PTL DEF SyncSpec
=============================================================================
