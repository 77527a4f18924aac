---------------------------- MODULE GraphProofs ----------------------------
(***************************************************************************)
(* Proofs about a graph: the tables of its namespaces (Namespaces), the    *)
(* lists and containers in it, the wrapper that adds to it in batches      *)
(* (GraphHandles), and the order of its terms (TermOrder).                 *)
(*                                                                         *)
(* Namespaces, for any managers, namespaces, prefixes and URIs: the        *)
(* inductive invariant, Inv, is of the tables of the store, which are      *)
(* inverse of each other, and of each manager, whose trie holds below a    *)
(* key the keys that start with it and with no key between.  Its recursive *)
(* functions are reasoned about without an induction over data.  The one   *)
(* of Home and of Longest walks down to the one key that every other that  *)
(* fits is a start of, so that the walk has a value in closed form; the    *)
(* one of Reset makes the trie of a set of keys, which does not depend on  *)
(* the order they come in.  That what they are is what a walk comes to,    *)
(* and what reset() leaves, is shown on the shortest string, or the        *)
(* smallest set, of which it were not so.                                  *)
(*                                                                         *)
(* Batches, of any size: what the wrapper was given is never lost.  Terms, *)
(* of any names and values: the rules by which they are compared come to   *)
(* one chain of comparisons.                                               *)
(*                                                                         *)
(* Lists, of any length: a list in a graph is a sequence of different      *)
(* cells, of what each holds, which may be nothing, and whether nil ends   *)
(* it.  Each operation of a Collection leaves another such list, and what  *)
(* is present in it is what a Python list would be.  Containers, of any    *)
(* length: members that are counted right are numbered from 1 with no gap, *)
(* and moving them one after the other keeps them so.                      *)
(***************************************************************************)
EXTENDS Namespaces, GraphHandles, SequenceTheorems, FiniteSetTheorems,
        WellFoundedInduction, TLAPS

-----------------------------------------------------------------------------
(* The tables. *)

Paired(s) ==
  /\ \A p \in DOMAIN s.namespace :
       s.namespace[p] \in DOMAIN s.prefix /\ s.prefix[s.namespace[p]] = p
  /\ \A n \in DOMAIN s.prefix :
       s.prefix[n] \in DOMAIN s.namespace /\ s.namespace[s.prefix[n]] = n

(* Nothing an operation finds in a dictionary is gone or changed after it. *)
Keeps(g, f) == \A x \in DOMAIN f : x \in DOMAIN g /\ g[x] = f[x]

(* dict.get of one key. *)
LEMMA GotIs ==
  ASSUME NEW f, NEW k
  PROVE  Got(f, {k}) = IF k \in DOMAIN f THEN {f[k]} ELSE {}
BY DEF Got

(* The namespace of a prefix, and the prefix bind() forgets. *)
LEMMA BoundIs ==
  ASSUME NEW s, Paired(s), NEW p, NEW n
  PROVE  BoundPrefix(s, p, n) = IF n \in DOMAIN s.prefix THEN {s.prefix[n]}
                                ELSE IF p \in DOMAIN s.namespace THEN {p} ELSE {}
<1>1. CASE n \in DOMAIN s.prefix BY <1>1 DEF BoundPrefix
<1>2. CASE n \notin DOMAIN s.prefix /\ p \in DOMAIN s.namespace
  <2>1. Got(s.namespace, {p}) = {s.namespace[p]} BY <1>2, GotIs
  <2>2. Got(s.prefix, {s.namespace[p]}) = {p} BY <1>2, GotIs DEF Paired
  <2> QED BY <1>2, <2>1, <2>2 DEF BoundPrefix
<1>3. CASE n \notin DOMAIN s.prefix /\ p \notin DOMAIN s.namespace
  <2>1. Got(s.namespace, {p}) = {} BY <1>3, GotIs
  <2>2. Got(s.prefix, {}) = {} BY DEF Got
  <2> QED BY <1>3, <2>1, <2>2 DEF BoundPrefix
<1> QED BY <1>1, <1>2, <1>3

(* The tables stay inverse when a pair is entered in both and what either  *)
(* of the two had is taken out.                                            *)
LEMMA OverridePairs ==
  ASSUME NEW s, Paired(s), NEW p, NEW n
  PROVE  Paired(StoreBind(s, p, n, TRUE))
<1> DEFINE P == BoundPrefix(s, p, n)
<1> DEFINE N == Got(s.namespace, {p})
<1> DEFINE t == StoreBind(s, p, n, TRUE)
<1>1. /\ t.namespace = Put(Minus(s.namespace, P), p, n)
      /\ t.prefix = Put(Minus(s.prefix, N), n, p)
  BY DEF StoreBind
<1>2. P = IF n \in DOMAIN s.prefix THEN {s.prefix[n]}
          ELSE IF p \in DOMAIN s.namespace THEN {p} ELSE {}
  BY BoundIs
<1>3. N = IF p \in DOMAIN s.namespace THEN {s.namespace[p]} ELSE {} BY GotIs
<1> HIDE DEF P, N, t
<1>4. /\ DOMAIN t.namespace = (DOMAIN s.namespace \ P) \cup {p}
      /\ t.namespace[p] = n
      /\ \A q \in DOMAIN s.namespace \ P : q # p => t.namespace[q] = s.namespace[q]
  BY <1>1 DEF Put, Minus
<1>5. /\ DOMAIN t.prefix = (DOMAIN s.prefix \ N) \cup {n}
      /\ t.prefix[n] = p
      /\ \A m \in DOMAIN s.prefix \ N : m # n => t.prefix[m] = s.prefix[m]
  BY <1>1 DEF Put, Minus
<1>6. ASSUME NEW q \in DOMAIN t.namespace
      PROVE  t.namespace[q] \in DOMAIN t.prefix /\ t.prefix[t.namespace[q]] = q
  <2>1. CASE q = p BY <2>1, <1>4, <1>5
  <2>2. CASE q # p
    <3>1. q \in DOMAIN s.namespace \ P /\ t.namespace[q] = s.namespace[q] BY <2>2, <1>4
    <3>2. s.namespace[q] \in DOMAIN s.prefix /\ s.prefix[s.namespace[q]] = q
      BY <3>1 DEF Paired
    <3>3. s.namespace[q] # n BY <3>1, <3>2, <1>2
    <3>4. s.namespace[q] \notin N BY <2>2, <3>2, <1>3 DEF Paired
    <3> QED BY <3>1, <3>2, <3>3, <3>4, <1>5
  <2> QED BY <2>1, <2>2
<1>7. ASSUME NEW m \in DOMAIN t.prefix
      PROVE  t.prefix[m] \in DOMAIN t.namespace /\ t.namespace[t.prefix[m]] = m
  <2>1. CASE m = n BY <2>1, <1>4, <1>5
  <2>2. CASE m # n
    <3>1. m \in DOMAIN s.prefix \ N /\ t.prefix[m] = s.prefix[m] BY <2>2, <1>5
    <3>2. s.prefix[m] \in DOMAIN s.namespace /\ s.namespace[s.prefix[m]] = m
      BY <3>1 DEF Paired
    <3>3. s.prefix[m] # p BY <3>1, <3>2, <1>3
    <3>4. s.prefix[m] \notin P BY <2>2, <3>2, <3>3, <1>2 DEF Paired
    <3> QED BY <3>1, <3>2, <3>3, <3>4, <1>4
  <2> QED BY <2>1, <2>2
<1>8. Paired(t) BY <1>6, <1>7 DEF Paired
<1> QED BY <1>8 DEF t

(* So they do when nothing is taken out, if the prefix stands for no other *)
(* namespace.                                                              *)
LEMMA EntryPairs ==
  ASSUME NEW s, Paired(s), NEW p, NEW n, ~Taken(s, p, n)
  PROVE  Paired(StoreBind(s, p, n, FALSE))
<1> DEFINE P == BoundPrefix(s, p, n)
<1> DEFINE N == Got(s.namespace, {p})
<1> DEFINE q == IF n \in DOMAIN s.prefix THEN s.prefix[n] ELSE p
<1> DEFINE t == StoreBind(s, p, n, FALSE)
<1>1. P = IF n \in DOMAIN s.prefix THEN {s.prefix[n]}
          ELSE IF p \in DOMAIN s.namespace THEN {p} ELSE {}
  BY BoundIs
<1>2. N = IF p \in DOMAIN s.namespace THEN {s.namespace[p]} ELSE {} BY GotIs
<1>3. p \in DOMAIN s.namespace => s.namespace[p] = n /\ n \in DOMAIN s.prefix /\ s.prefix[n] = p
  BY DEF Taken, Paired
<1>4. Coalesce(N, n) = n
  <2>1. N = {} \/ N = {n} BY <1>2, <1>3
  <2> HIDE DEF N
  <2> QED BY <2>1 DEF Coalesce
<1>5. Coalesce(P, p) = q
  <2>1. (P = {} /\ q = p) \/ P = {q} BY <1>1, <1>3
  <2> HIDE DEF P, q
  <2> QED BY <2>1 DEF Coalesce
<1>6. t.namespace = Put(s.namespace, q, n) /\ t.prefix = Put(s.prefix, n, q)
  <2> HIDE DEF q
  <2> QED BY <1>4, <1>5 DEF StoreBind
<1>7. q \in DOMAIN s.namespace => s.namespace[q] = n BY <1>3 DEF Paired
<1>8. n \in DOMAIN s.prefix => s.prefix[n] = q OBVIOUS
<1> HIDE DEF q, t
<1>9. /\ DOMAIN t.namespace = DOMAIN s.namespace \cup {q} /\ t.namespace[q] = n
      /\ \A x \in DOMAIN s.namespace : x # q => t.namespace[x] = s.namespace[x]
  BY <1>6 DEF Put
<1>10. /\ DOMAIN t.prefix = DOMAIN s.prefix \cup {n} /\ t.prefix[n] = q
       /\ \A m \in DOMAIN s.prefix : m # n => t.prefix[m] = s.prefix[m]
  BY <1>6 DEF Put
<1>11. Paired(t) BY <1>7, <1>8, <1>9, <1>10 DEF Paired
<1> QED BY <1>11 DEF t

(* NamespaceManager.bind keeps the tables inverse, as long as a caller who *)
(* replaces also overrides.                                                *)
LEMMA BindPairs ==
  ASSUME NEW s, Paired(s), NEW p, NEW n, NEW override \in BOOLEAN, NEW replace \in BOOLEAN,
         replace => override
  PROVE  Paired(Bind(s, p, n, override, replace))
<1>1. ASSUME NEW q, override \/ ~Taken(s, q, n) PROVE Paired(StoreBind(s, q, n, override))
  <2>1. CASE override
    <3>1. override = TRUE BY <2>1
    <3> QED BY <3>1, OverridePairs
  <2>2. CASE ~override
    <3>1. override = FALSE /\ ~Taken(s, q, n) BY <1>1, <2>2
    <3> QED BY <3>1, EntryPairs
  <2> QED BY <2>1, <2>2
<1>2. CASE Taken(s, p, n) /\ replace
  <2>1. Bind(s, p, n, override, replace) = StoreBind(s, p, n, override) BY <1>2 DEF Bind
  <2> QED BY <1>1, <1>2, <2>1
<1>3. CASE Taken(s, p, n) /\ ~replace
  <2> DEFINE q == Instead(s, p, n)
  <2>1. Bind(s, p, n, override, replace) =
          IF q \in DOMAIN s.namespace THEN s ELSE StoreBind(s, q, n, override)
    BY <1>3 DEF Bind
  <2>2. q \notin DOMAIN s.namespace => ~Taken(s, q, n) BY DEF Taken
  <2> HIDE DEF q
  <2> QED BY <1>1, <2>1, <2>2
<1>4. CASE ~Taken(s, p, n)
  <2>1. Bind(s, p, n, override, replace) \in {s, StoreBind(s, p, n, override)}
    BY <1>4 DEF Bind
  <2> QED BY <1>1, <1>4, <2>1
<1> QED BY <1>2, <1>3, <1>4

(* Whatever bind() is asked, one namespace at most gets another prefix.    *)
LEMMA StoreBindMovesOne ==
  ASSUME NEW s, NEW p, NEW n, NEW override \in BOOLEAN
  PROVE  \E k : \A m \in DOMAIN s.prefix :
           m # k /\ m \in DOMAIN StoreBind(s, p, n, override).prefix
             => StoreBind(s, p, n, override).prefix[m] = s.prefix[m]
<1> DEFINE t == StoreBind(s, p, n, override)
<1> DEFINE N == Got(s.namespace, {p})
<1>1. CASE override
  <2>1. t.prefix = Put(Minus(s.prefix, N), n, p) BY <1>1 DEF StoreBind
  <2> HIDE DEF t, N
  <2>2. \A m \in DOMAIN s.prefix : m # n /\ m \in DOMAIN t.prefix => t.prefix[m] = s.prefix[m]
    BY <2>1 DEF Put, Minus
  <2> QED BY <2>2 DEF t
<1>2. CASE ~override
  <2> DEFINE k == Coalesce(N, n)
  <2> DEFINE q == Coalesce(BoundPrefix(s, p, n), p)
  <2>1. t.prefix = Put(s.prefix, k, q) BY <1>2 DEF StoreBind
  <2> HIDE DEF t, k, q
  <2>2. \A m \in DOMAIN s.prefix : m # k /\ m \in DOMAIN t.prefix => t.prefix[m] = s.prefix[m]
    BY <2>1 DEF Put
  <2> QED BY <2>2 DEF t
<1> QED BY <1>1, <1>2

(* Nor does NamespaceManager.bind move more. *)
LEMMA BindMovesOne ==
  ASSUME NEW s, NEW p, NEW n, NEW override \in BOOLEAN, NEW replace \in BOOLEAN
  PROVE  \E k : \A m \in DOMAIN s.prefix :
           m # k /\ m \in DOMAIN Bind(s, p, n, override, replace).prefix
             => Bind(s, p, n, override, replace).prefix[m] = s.prefix[m]
<1>1. \/ Bind(s, p, n, override, replace) = s
      \/ \E q : Bind(s, p, n, override, replace) = StoreBind(s, q, n, override)
  BY DEF Bind
<1> QED BY <1>1, StoreBindMovesOne

(* A prefix that stands for nothing else takes it from no namespace.       *)
LEMMA StoreBindLosesNone ==
  ASSUME NEW s, NEW p, NEW n, NEW override \in BOOLEAN, ~Taken(s, p, n)
  PROVE  /\ DOMAIN s.prefix \subseteq DOMAIN StoreBind(s, p, n, override).prefix
         /\ n \notin DOMAIN s.prefix /\ override => Keeps(StoreBind(s, p, n, override).prefix, s.prefix)
<1> DEFINE t == StoreBind(s, p, n, override)
<1> DEFINE N == Got(s.namespace, {p})
<1>1. CASE override
  <2>1. t.prefix = Put(Minus(s.prefix, N), n, p) BY <1>1 DEF StoreBind
  <2>2. N \subseteq {n}
    <3>1. N = IF p \in DOMAIN s.namespace THEN {s.namespace[p]} ELSE {} BY GotIs
    <3> QED BY <3>1 DEF Taken
  <2> HIDE DEF t, N
  <2>3. DOMAIN t.prefix = (DOMAIN s.prefix \ N) \cup {n} BY <2>1 DEF Put, Minus
  <2>4. \A m \in DOMAIN s.prefix \ N : m # n => t.prefix[m] = s.prefix[m]
    BY <2>1 DEF Put, Minus
  <2>5. n \notin DOMAIN s.prefix => Keeps(t.prefix, s.prefix) BY <2>2, <2>3, <2>4 DEF Keeps
  <2> QED BY <2>2, <2>3, <2>5 DEF t
<1>2. CASE ~override
  <2> DEFINE k == Coalesce(N, n)
  <2> DEFINE q == Coalesce(BoundPrefix(s, p, n), p)
  <2>1. t.prefix = Put(s.prefix, k, q) BY <1>2 DEF StoreBind
  <2> HIDE DEF t, k, q
  <2>2. DOMAIN t.prefix = DOMAIN s.prefix \cup {k} BY <2>1 DEF Put
  <2> QED BY <1>2, <2>2 DEF t
<1> QED BY <1>1, <1>2

(* Nor does a bind() that is not asked to replace: it finds another        *)
(* prefix, whatever numbers there are.                                     *)
LEMMA BindLosesNone ==
  ASSUME NEW s, NEW p, NEW n, NEW override \in BOOLEAN
  PROVE  /\ DOMAIN s.prefix \subseteq DOMAIN Bind(s, p, n, override, FALSE).prefix
         /\ n \notin DOMAIN s.prefix /\ override => Keeps(Bind(s, p, n, override, FALSE).prefix, s.prefix)
<1> DEFINE t == Bind(s, p, n, override, FALSE)
<1>1. t = s \/ \E q : ~Taken(s, q, n) /\ t = StoreBind(s, q, n, override)
  <2>1. CASE Taken(s, p, n)
    <3> DEFINE q == Instead(s, p, n)
    <3>1. t = IF q \in DOMAIN s.namespace THEN s ELSE StoreBind(s, q, n, override)
      BY <2>1 DEF Bind
    <3>2. q \notin DOMAIN s.namespace => ~Taken(s, q, n) BY DEF Taken
    <3> HIDE DEF q, t
    <3> QED BY <3>1, <3>2
  <2>2. CASE ~Taken(s, p, n)
    <3>1. t = s \/ t = StoreBind(s, p, n, override) BY <2>2 DEF Bind
    <3> HIDE DEF t
    <3> QED BY <2>2, <3>1
  <2> QED BY <2>1, <2>2
<1>2. Keeps(s.prefix, s.prefix) BY DEF Keeps
<1> HIDE DEF t
<1>3. /\ DOMAIN s.prefix \subseteq DOMAIN t.prefix
      /\ n \notin DOMAIN s.prefix /\ override => Keeps(t.prefix, s.prefix)
  BY <1>1, <1>2, StoreBindLosesNone
<1> QED BY <1>3 DEF t

(* Strings are what is bound and shortened. *)
Str == Seq(Char)

(* What a prefix table holds, given the strings that are bound. *)
TablesOK(s) == Paired(s) /\ DOMAIN s.prefix \subseteq Str /\ IsFiniteSet(DOMAIN s.prefix)

(* One bind() enters one namespace. *)
LEMMA BindEntersOne ==
  ASSUME NEW s, Paired(s), NEW p, NEW n, NEW override \in BOOLEAN, NEW replace \in BOOLEAN
  PROVE  DOMAIN Bind(s, p, n, override, replace).prefix \subseteq DOMAIN s.prefix \cup {n}
<1>1. ASSUME NEW q
      PROVE  DOMAIN StoreBind(s, q, n, override).prefix \subseteq DOMAIN s.prefix \cup {n}
  <2> DEFINE t == StoreBind(s, q, n, override)
  <2> DEFINE N == Got(s.namespace, {q})
  <2> DEFINE k == Coalesce(N, n)
  <2>1. k \in DOMAIN s.prefix \cup {n}
    <3>1. N = IF q \in DOMAIN s.namespace THEN {s.namespace[q]} ELSE {} BY GotIs
    <3>2. N \subseteq DOMAIN s.prefix BY <3>1 DEF Paired
    <3> HIDE DEF N
    <3> QED BY <3>2 DEF Coalesce
  <2>2. CASE override
    <3>1. t.prefix = Put(Minus(s.prefix, N), n, q) BY <2>2 DEF StoreBind
    <3> HIDE DEF t, N
    <3>2. DOMAIN t.prefix \subseteq DOMAIN s.prefix \cup {n} BY <3>1 DEF Put, Minus
    <3> QED BY <3>2 DEF t
  <2>3. CASE ~override
    <3> DEFINE v == Coalesce(BoundPrefix(s, q, n), q)
    <3>1. t.prefix = Put(s.prefix, k, v) BY <2>3 DEF StoreBind
    <3> HIDE DEF t, k, v
    <3>2. DOMAIN t.prefix \subseteq DOMAIN s.prefix \cup {n} BY <2>1, <3>1 DEF Put
    <3> QED BY <3>2 DEF t
  <2> QED BY <2>2, <2>3
<1>2. \/ Bind(s, p, n, override, replace) = s
      \/ \E q : Bind(s, p, n, override, replace) = StoreBind(s, q, n, override)
  BY DEF Bind
<1> QED BY <1>1, <1>2

(* It keeps the tables in order. *)
LEMMA BindTables ==
  ASSUME NEW s, TablesOK(s), NEW p, NEW n \in Str,
         NEW override \in BOOLEAN, NEW replace \in BOOLEAN, replace => override
  PROVE  TablesOK(Bind(s, p, n, override, replace))
<1> DEFINE t == Bind(s, p, n, override, replace)
<1>1. Paired(t) BY BindPairs DEF TablesOK
<1>2. DOMAIN t.prefix \subseteq DOMAIN s.prefix \cup {n} BY BindEntersOne DEF TablesOK
<1> HIDE DEF t
<1>3. IsFiniteSet(DOMAIN s.prefix \cup {n}) BY FS_AddElement DEF TablesOK
<1>4. IsFiniteSet(DOMAIN t.prefix) BY <1>2, <1>3, FS_Subset
<1>5. TablesOK(t) BY <1>1, <1>2, <1>4 DEF TablesOK
<1> QED BY <1>5 DEF t

-----------------------------------------------------------------------------
(* The trie. *)

(* One string starts with another when they agree as far as it goes. *)
LEMMA StartsWithIs ==
  ASSUME NEW u \in Str, NEW v \in Str
  PROVE  StartsWith(u, v) <=> Len(v) <= Len(u) /\ \A i \in 1..Len(v) : u[i] = v[i]
<1>1. ASSUME Len(v) <= Len(u)
      PROVE  UpTo(u, Len(v)) = v <=> \A i \in 1..Len(v) : u[i] = v[i]
  <2>1. UpTo(u, Len(v)) \in Str /\ Len(UpTo(u, Len(v))) = Len(v)
        /\ \A i \in 1..Len(v) : UpTo(u, Len(v))[i] = u[i]
    BY <1>1 DEF Str, UpTo
  <2>2. (\A i \in 1..Len(v) : UpTo(u, Len(v))[i] = v[i]) => UpTo(u, Len(v)) = v
    BY <2>1, SeqEqual DEF Str
  <2> QED BY <2>1, <2>2
<1> QED BY <1>1 DEF StartsWith

(* So strings are ordered as a tree: the starts of a string are a chain. *)
LEMMA PrefixOrder ==
  /\ \A u \in Str : StartsWith(u, u) /\ StartsWith(u, Root)
  /\ \A u, v \in Str : StartsWith(u, v) /\ StartsWith(v, u) => u = v
  /\ \A u, v, w \in Str : StartsWith(u, v) /\ StartsWith(v, w) => StartsWith(u, w)
  /\ \A u, v, w \in Str : StartsWith(u, v) /\ StartsWith(u, w) => StartsWith(v, w) \/ StartsWith(w, v)
  /\ \A u, v \in Str : StartsWith(u, v) => Len(v) <= Len(u) /\ (Len(v) = Len(u) => u = v)
<1> DEFINE E(u, v) == Len(v) <= Len(u) /\ \A i \in 1..Len(v) : u[i] = v[i]
<1>1. \A u, v \in Str : StartsWith(u, v) <=> E(u, v) BY StartsWithIs
<1>2. \A u \in Str : Len(u) \in Nat BY DEF Str
<1>3. Root \in Str /\ Len(Root) = 0 BY DEF Root, Str
<1>4. \A u, v \in Str : Len(u) = Len(v) /\ (\A i \in 1..Len(u) : u[i] = v[i]) => u = v
  BY SeqEqual DEF Str
<1>5. \A u \in Str : E(u, u) /\ E(u, Root) BY <1>2, <1>3
<1>6. \A u, v \in Str : E(u, v) /\ E(v, u) => u = v BY <1>2, <1>4
<1>7. \A u, v, w \in Str : E(u, v) /\ E(v, w) => E(u, w) BY <1>2
<1>8. \A u, v, w \in Str : E(u, v) /\ E(u, w) => E(v, w) \/ E(w, v) BY <1>2
<1>9. \A u, v \in Str : E(u, v) => Len(v) <= Len(u) /\ (Len(v) = Len(u) => u = v)
  BY <1>2, <1>4
<1> HIDE DEF E
<1> QED BY <1>1, <1>3, <1>5, <1>6, <1>7, <1>8, <1>9

Smaller == {mn \in Nat \X Nat : mn[1] < mn[2]}

(* A set of numbers that is not empty has a least one. *)
LEMMA LeastNumber ==
  ASSUME NEW N, N \subseteq Nat, N # {}
  PROVE  \E n \in N : \A m \in N : n <= m
<1>1. IsWellFoundedOn(Smaller, Nat) BY NatLessThanWellFounded DEF OpToRel, Smaller
<1>2. \E n \in N : \A m \in N : <<m, n>> \notin Smaller BY <1>1, WFMin, Zenon
<1>3. \A m, n \in N : <<m, n>> \notin Smaller => n <= m BY DEF Smaller
<1> QED BY <1>2, <1>3

(* Some string of a set is no longer than the others. *)
LEMMA SomeIsShortest ==
  ASSUME NEW Y, Y \subseteq Str, Y # {}
  PROVE  \E y \in Y : \A z \in Y : Len(y) <= Len(z)
<1> DEFINE N == {Len(y) : y \in Y}
<1>0. \A y \in Y : Len(y) \in Nat BY DEF Str
<1>1. N \subseteq Nat /\ N # {} BY <1>0
<1>2. \E n \in N : \A m \in N : n <= m
  <2> HIDE DEF N
  <2> QED BY <1>1, LeastNumber
<1> QED BY <1>2

(* And if none is longer than n, some is as long as any. *)
LEMMA SomeIsLongest ==
  ASSUME NEW Y, Y \subseteq Str, Y # {}, NEW n \in Nat, \A y \in Y : Len(y) <= n
  PROVE  \E y \in Y : \A z \in Y : Len(z) <= Len(y)
<1> DEFINE N == {n - Len(y) : y \in Y}
<1>1. \A y \in Y : Len(y) \in Nat BY DEF Str
<1>2. N \subseteq Nat /\ N # {} BY <1>1
<1>3. \E k \in N : \A m \in N : k <= m
  <2> HIDE DEF N
  <2> QED BY <1>2, LeastNumber
<1>4. PICK y \in Y : \A m \in N : n - Len(y) <= m BY <1>3
<1>5. \A z \in Y : n - Len(y) <= n - Len(z) BY <1>4
<1> QED BY <1>1, <1>5

-----------------------------------------------------------------------------
(* Tries. *)

(* Nothing but v and w is between them. *)
IsBelow(b, v, w) ==
  /\ w \in DOMAIN b \ {Root, v}
  /\ StartsWith(w, v)
  /\ \A x \in DOMAIN b \ {v, w} : ~(StartsWith(w, x) /\ StartsWith(x, v))

TrieOK(b) ==
  /\ Root \in DOMAIN b /\ DOMAIN b \subseteq Str
  /\ \A v \in DOMAIN b : b[v] = {w \in DOMAIN b : IsBelow(b, v, w)}

(* Below v is the next key on the way to every longer one. *)
LEMMA NextKey ==
  ASSUME NEW b, TrieOK(b), NEW v \in DOMAIN b, NEW x \in DOMAIN b, StartsWith(x, v), x # v
  PROVE  \E k \in b[v] : StartsWith(x, k)
<1> DEFINE Y == {y \in DOMAIN b \ {v} : StartsWith(x, y) /\ StartsWith(y, v)}
<1>1. DOMAIN b \subseteq Str /\ v \in Str /\ x \in Str BY DEF TrieOK
<1>2. Y \subseteq Str /\ x \in Y BY <1>1, PrefixOrder
<1>3. PICK k \in Y : \A z \in Y : Len(k) <= Len(z)
  <2> HIDE DEF Y
  <2> QED BY <1>2, SomeIsShortest
<1>4. k # Root BY <1>1, PrefixOrder
<1>5. \A y \in DOMAIN b \ {v, k} : ~(StartsWith(k, y) /\ StartsWith(y, v))
  <2> SUFFICES ASSUME NEW y \in DOMAIN b \ {v, k}, StartsWith(k, y), StartsWith(y, v) PROVE FALSE
    OBVIOUS
  <2>1. y \in Y BY <1>1, PrefixOrder
  <2>2. Len(k) <= Len(y) /\ Len(y) <= Len(k) BY <1>1, <1>3, <2>1, PrefixOrder
  <2>3. Len(k) \in Nat /\ Len(y) \in Nat BY <1>1 DEF Str
  <2>4. Len(k) = Len(y) BY <2>2, <2>3
  <2> QED BY <1>1, <2>4, PrefixOrder
<1>6. k \in b[v] BY <1>4, <1>5 DEF TrieOK, IsBelow
<1> QED BY <1>6

(* The last key on the way to v that is not in S. *)
Deepest(b, v, S, h) ==
  /\ h \in DOMAIN b \ S /\ StartsWith(v, h)
  /\ \A x \in DOMAIN b \ S : StartsWith(v, x) => StartsWith(h, x)

(* The loops of insert_trie, which stops above v (S is {v}), and of        *)
(* get_longest_namespace, which does not (S is empty).                     *)
Stops(b, v, S, at) == b[at] \cap S # {} \/ ~\E k \in b[at] : StartsWith(v, k)
Further(b, v, at) == CHOOSE k \in b[at] : StartsWith(v, k)
IsWalk(f, b, v, S) ==
  f = [at \in DOMAIN b |-> IF Stops(b, v, S, at) THEN at ELSE f[Further(b, v, at)]]

(* A walk that does not stop comes to a longer key on the way to v.        *)
LEMMA FurtherIs ==
  ASSUME NEW b, TrieOK(b), NEW v \in Str, NEW S, NEW at \in DOMAIN b, ~Stops(b, v, S, at)
  PROVE  /\ Further(b, v, at) \in DOMAIN b \ S /\ StartsWith(v, Further(b, v, at))
         /\ StartsWith(Further(b, v, at), at) /\ Further(b, v, at) # at
<1>1. \E k \in b[at] : StartsWith(v, k) BY DEF Stops
<1>2. Further(b, v, at) \in b[at] /\ StartsWith(v, Further(b, v, at)) BY <1>1 DEF Further
<1>3. Further(b, v, at) \notin S BY <1>2 DEF Stops
<1>4. Further(b, v, at) \in DOMAIN b /\ IsBelow(b, at, Further(b, v, at)) BY <1>2 DEF TrieOK
<1> QED BY <1>2, <1>3, <1>4 DEF IsBelow

(* One that stops is at the last. *)
LEMMA StopIsDeepest ==
  ASSUME NEW b, TrieOK(b), NEW v \in Str, NEW S, S \subseteq {v},
         NEW at \in DOMAIN b \ S, StartsWith(v, at), Stops(b, v, S, at)
  PROVE  Deepest(b, v, S, at)
<1> SUFFICES ASSUME NEW x \in DOMAIN b \ S, StartsWith(v, x), ~StartsWith(at, x) PROVE FALSE
  BY DEF Deepest
<1>1. DOMAIN b \subseteq Str /\ x \in Str /\ at \in Str BY DEF TrieOK
<1>2. StartsWith(x, at) /\ x # at BY <1>1, PrefixOrder
<1>3. PICK k \in b[at] : StartsWith(x, k) BY <1>2, NextKey
<1>4. k \in Str BY <1>1 DEF TrieOK
<1>5. StartsWith(v, k) BY <1>1, <1>3, <1>4, PrefixOrder
<1>6. v \in b[at] /\ v \in S BY <1>5 DEF Stops
<1>7. IsBelow(b, at, v) BY <1>6 DEF TrieOK
<1>8. x # v BY <1>6
<1> QED BY <1>2, <1>7, <1>8 DEF IsBelow

(* There is one such key and no other, if any key fits. *)
LEMMA DeepestIsOne ==
  ASSUME NEW b, TrieOK(b), NEW v \in Str, NEW S, NEW h, NEW k,
         Deepest(b, v, S, h), Deepest(b, v, S, k)
  PROVE  h = k
<1>1. h \in Str /\ k \in Str BY DEF TrieOK, Deepest
<1>2. StartsWith(h, k) /\ StartsWith(k, h) BY DEF Deepest
<1> QED BY <1>1, <1>2, PrefixOrder

LEMMA DeepestExists ==
  ASSUME NEW b, TrieOK(b), NEW v \in Str, NEW S, NEW at \in DOMAIN b \ S, StartsWith(v, at)
  PROVE  \E h : Deepest(b, v, S, h)
<1> DEFINE Y == {y \in DOMAIN b \ S : StartsWith(v, y)}
<1>1. DOMAIN b \subseteq Str /\ Len(v) \in Nat BY DEF TrieOK, Str
<1>2. Y \subseteq Str /\ Y # {} /\ \A y \in Y : Len(y) <= Len(v) BY <1>1, PrefixOrder
<1>3. PICK h \in Y : \A z \in Y : Len(z) <= Len(h)
  <2> HIDE DEF Y
  <2> QED BY <1>1, <1>2, SomeIsLongest
<1>4. ASSUME NEW x \in DOMAIN b \ S, StartsWith(v, x) PROVE StartsWith(h, x)
  <2>1. x \in Str /\ h \in Str /\ x \in Y BY <1>1, <1>4
  <2>2. Len(x) <= Len(h) /\ Len(x) \in Nat /\ Len(h) \in Nat BY <1>3, <2>1 DEF Str
  <2>3. StartsWith(h, x) \/ StartsWith(x, h) BY <1>4, <2>1, PrefixOrder
  <2>4. CASE StartsWith(x, h)
    <3>1. Len(h) <= Len(x) /\ (Len(h) = Len(x) => x = h) BY <2>1, <2>4, PrefixOrder
    <3>2. x = h BY <2>2, <3>1
    <3> QED BY <2>1, <3>2, PrefixOrder
  <2> QED BY <2>3, <2>4
<1> QED BY <1>4 DEF Deepest

(* There is such a walk, and the last key is where it ends. *)
LEMMA WalkExists ==
  ASSUME NEW b, TrieOK(b), NEW v \in Str, NEW S, S \subseteq {v}
  PROVE  \E f : IsWalk(f, b, v, S)
<1> DEFINE On(at) == StartsWith(v, at) /\ at \notin S
<1> DEFINE last == CHOOSE h : Deepest(b, v, S, h)
<1> DEFINE f == [at \in DOMAIN b |-> IF On(at) THEN last ELSE at]
<1>1. ASSUME NEW at \in DOMAIN b
      PROVE  f[at] = IF Stops(b, v, S, at) THEN at ELSE f[Further(b, v, at)]
  <2>1. at \in Str /\ DOMAIN b \subseteq Str BY DEF TrieOK
  <2>2. CASE On(at) /\ Stops(b, v, S, at)
    <3>1. Deepest(b, v, S, at) BY <2>2, StopIsDeepest
    <3>2. last = at BY <3>1, DeepestIsOne
    <3> HIDE DEF last
    <3> QED BY <2>2, <3>2
  <2>3. CASE ~Stops(b, v, S, at)
    <3> DEFINE k == Further(b, v, at)
    <3>1. k \in DOMAIN b \ S /\ StartsWith(v, k) /\ StartsWith(k, at) /\ k # at
      BY <2>3, FurtherIs
    <3>2. StartsWith(v, at) BY <2>1, <3>1, PrefixOrder
    <3>3. at \notin S
      <4>1. ASSUME at = v PROVE FALSE BY <2>1, <3>1, <4>1, PrefixOrder
      <4> QED BY <4>1
    <3> HIDE DEF k, last
    <3>4. f[k] = last /\ f[at] = last BY <3>1, <3>2, <3>3
    <3> QED BY <2>3, <3>4 DEF k
  <2>4. CASE ~On(at) /\ Stops(b, v, S, at) BY <2>4
  <2> QED BY <2>2, <2>3, <2>4
<1>2. IsWalk(f, b, v, S)
  <2>1. f = [at \in DOMAIN b |-> IF Stops(b, v, S, at) THEN at ELSE f[Further(b, v, at)]]
    <3>1. f = [at \in DOMAIN b |-> f[at]] OBVIOUS
    <3> HIDE DEF f
    <3> QED BY <1>1, <3>1
  <2> QED BY <2>1 DEF IsWalk
<1> QED BY <1>2

(* A walk comes to it, from wherever it begins. *)
LEMMA WalkEnds ==
  ASSUME NEW b, TrieOK(b), NEW v \in Str, NEW S, S \subseteq {v}, NEW f, IsWalk(f, b, v, S),
         NEW at \in DOMAIN b \ S, StartsWith(v, at)
  PROVE  Deepest(b, v, S, f[at])
<1> DEFINE Y == {y \in DOMAIN b \ S : StartsWith(v, y) /\ ~Deepest(b, v, S, f[y])}
<1>1. DOMAIN b \subseteq Str /\ Len(v) \in Nat BY DEF TrieOK, Str
<1>2. Y \subseteq Str /\ \A y \in Y : Len(y) <= Len(v) BY <1>1, PrefixOrder
<1>3. SUFFICES ASSUME Y # {} PROVE FALSE OBVIOUS
<1>4. PICK y \in Y : \A z \in Y : Len(z) <= Len(y)
  <2> HIDE DEF Y
  <2> QED BY <1>1, <1>2, <1>3, SomeIsLongest
<1>5. f[y] = IF Stops(b, v, S, y) THEN y ELSE f[Further(b, v, y)] BY DEF IsWalk
<1>6. CASE Stops(b, v, S, y) BY <1>5, <1>6, StopIsDeepest
<1>7. CASE ~Stops(b, v, S, y)
  <2> DEFINE k == Further(b, v, y)
  <2>1. k \in DOMAIN b \ S /\ StartsWith(v, k) /\ StartsWith(k, y) /\ k # y
    BY <1>7, FurtherIs
  <2>2. k \in Str /\ y \in Str BY <1>1, <2>1
  <2>3. Len(y) <= Len(k) /\ Len(y) # Len(k) /\ Len(y) \in Nat /\ Len(k) \in Nat
    BY <2>1, <2>2, PrefixOrder DEF Str
  <2>4. k \notin Y BY <1>4, <2>3
  <2> QED BY <1>5, <1>7, <2>1, <2>4
<1> QED BY <1>6, <1>7

(* insert_trie follows the keys to the last one above v. *)
LEMMA HomeIsWalk ==
  ASSUME NEW b, TrieOK(b), NEW v \in Str
  PROVE  \E g : IsWalk(g, b, v, {v}) /\ Home(b, v) = g[Root]
<1> DEFINE IsHome(g) ==
             g = [at \in DOMAIN b |->
                    IF v \in b[at] \/ ~\E k \in b[at] : StartsWith(v, k) THEN at
                    ELSE g[CHOOSE k \in b[at] : StartsWith(v, k)]]
<1> DEFINE home == CHOOSE g : IsHome(g)
<1>1. Home(b, v) = home[Root] BY DEF Home
<1>2. \A at \in DOMAIN b : Stops(b, v, {v}, at) <=> v \in b[at] \/ ~\E k \in b[at] : StartsWith(v, k)
  BY DEF Stops
<1>3. \A g : IsWalk(g, b, v, {v}) <=> IsHome(g) BY <1>2, Zenon DEF IsWalk, Further
<1>4. \E g : IsHome(g)
  <2>1. \E g : IsWalk(g, b, v, {v}) BY WalkExists
  <2> HIDE DEF IsHome
  <2> QED BY <2>1, <1>3
<1>5. IsHome(home) BY <1>4, Zenon
<1> HIDE DEF IsHome, home
<1> QED BY <1>1, <1>3, <1>5

(* insert_trie stops at the last key that the new one starts with. *)
LEMMA HomeIsDeepest ==
  ASSUME NEW b, TrieOK(b), NEW v \in Str, v # Root
  PROVE  Deepest(b, v, {v}, Home(b, v))
<1>1. PICK g : IsWalk(g, b, v, {v}) /\ Home(b, v) = g[Root] BY HomeIsWalk
<1>2. Root \in DOMAIN b \ {v} /\ StartsWith(v, Root) BY PrefixOrder DEF TrieOK
<1>3. Deepest(b, v, {v}, g[Root]) BY <1>1, <1>2, WalkEnds
<1> QED BY <1>1, <1>3

(* get_longest_namespace follows them to the last of all. *)
LEMMA LongestIsDeepest ==
  ASSUME NEW b, TrieOK(b), NEW u \in Str, NEW v \in DOMAIN b, StartsWith(u, v)
  PROVE  Deepest(b, u, {}, Longest(b, v, u))
<1> DEFINE IsLongest(g) ==
             g = [at \in DOMAIN b |->
                    IF ~\E k \in b[at] : StartsWith(u, k) THEN at
                    ELSE g[CHOOSE k \in b[at] : StartsWith(u, k)]]
<1> DEFINE longest == CHOOSE g : IsLongest(g)
<1>1. Longest(b, v, u) = longest[v] BY DEF Longest
<1>2. \A at \in DOMAIN b : Stops(b, u, {}, at) <=> ~\E k \in b[at] : StartsWith(u, k)
  BY DEF Stops
<1>3. \A g : IsWalk(g, b, u, {}) <=> IsLongest(g) BY <1>2, Zenon DEF IsWalk, Further
<1>4. \E g : IsLongest(g)
  <2>1. \E g : IsWalk(g, b, u, {}) BY WalkExists
  <2> HIDE DEF IsLongest
  <2> QED BY <2>1, <1>3
<1>5. IsLongest(longest) BY <1>4, Zenon
<1> HIDE DEF IsLongest, longest
<1>6. v \in DOMAIN b \ {} OBVIOUS
<1>7. Deepest(b, u, {}, longest[v]) BY <1>3, <1>5, <1>6, WalkEnds
<1> QED BY <1>1, <1>7

(* The dictionaries of a trie, key by key. *)
LEMMA TrieIs ==
  ASSUME NEW b
  PROVE  TrieOK(b) <=> /\ Root \in DOMAIN b /\ DOMAIN b \subseteq Str
                       /\ \A x \in DOMAIN b : \A w : w \in b[x] <=> IsBelow(b, x, w)
<1>1. \A x, w : IsBelow(b, x, w) => w \in DOMAIN b BY DEF IsBelow
<1> QED BY <1>1 DEF TrieOK

(* The empty string is the root itself. *)
LEMMA RootIsInserted ==
  ASSUME NEW b, TrieOK(b)
  PROVE  TrieOK(Inserted(b, Root)) /\ DOMAIN Inserted(b, Root) = DOMAIN b
<1> DEFINE longer == {k \in b[Root] : StartsWith(k, Root)}
<1> DEFINE c == Inserted(b, Root)
<1>1. Root \in DOMAIN b /\ \A k \in b[Root] : k \in Str /\ k # Root BY DEF TrieOK, IsBelow
<1>2. Root \in Str BY DEF Root, Str
<1>3. Home(b, Root) = Root
  <2>1. PICK g : IsWalk(g, b, Root, {Root}) /\ Home(b, Root) = g[Root] BY <1>2, HomeIsWalk
  <2>2. \A k \in b[Root] : ~StartsWith(Root, k) BY <1>1, <1>2, PrefixOrder
  <2>3. Stops(b, Root, {Root}, Root) BY <2>2 DEF Stops
  <2> QED BY <1>1, <2>1, <2>3 DEF IsWalk
<1>4. longer = b[Root] BY <1>1, PrefixOrder
<1>5. c = Put(Put(b, Root, (b[Root] \ longer) \cup {Root}), Root, longer)
  BY <1>1, <1>3 DEF Inserted
<1> HIDE DEF c, longer
<1>6. DOMAIN c = DOMAIN b /\ \A x \in DOMAIN b : c[x] = b[x] BY <1>1, <1>4, <1>5 DEF Put
<1>7. \A x, w : IsBelow(c, x, w) <=> IsBelow(b, x, w) BY <1>6 DEF IsBelow
<1>8. TrieOK(c) BY <1>6, <1>7, TrieIs
<1> QED BY <1>6, <1>8 DEF c

(* A key is entered below the last one above it, with what was below that  *)
(* one and is below the key.                                               *)
LEMMA InsertedIs ==
  ASSUME NEW b, TrieOK(b), NEW v \in Str
  PROVE  TrieOK(Inserted(b, v)) /\ DOMAIN Inserted(b, v) = DOMAIN b \cup {v}
<1> DEFINE h == Home(b, v)
<1> DEFINE longer == {k \in b[h] : StartsWith(k, v)}
<1> DEFINE c == Inserted(b, v)
<1>1. CASE v = Root
  <2>1. Root \in DOMAIN b BY DEF TrieOK
  <2> QED BY <1>1, <2>1, RootIsInserted
<1>2. CASE v # Root
  <2>1. Root \in DOMAIN b /\ DOMAIN b \subseteq Str BY DEF TrieOK
  <2>2. \A x \in DOMAIN b : \A w : w \in b[x] <=> IsBelow(b, x, w) BY TrieIs
  <2>3. Deepest(b, v, {v}, h) BY <1>2, HomeIsDeepest
  <2>4. c = IF v \in b[h] THEN b ELSE Put(Put(b, h, (b[h] \ longer) \cup {v}), v, longer)
    BY DEF Inserted
  <2>5. \A k : k \in longer <=> k \in b[h] /\ StartsWith(k, v) OBVIOUS
  <2> HIDE DEF h, longer, c
  <2>6. h \in DOMAIN b /\ h # v /\ StartsWith(v, h) /\ h \in Str
        /\ \A x \in DOMAIN b : x # v /\ StartsWith(v, x) => StartsWith(h, x)
    BY <2>1, <2>3 DEF Deepest
  <2>7. CASE v \in DOMAIN b
    <3>1. IsBelow(b, h, v)
      <4>1. ASSUME NEW x \in DOMAIN b \ {h, v}, StartsWith(v, x), StartsWith(x, h) PROVE FALSE
        BY <4>1, <2>1, <2>6, PrefixOrder
      <4> QED BY <1>2, <2>6, <2>7, <4>1 DEF IsBelow
    <3>2. c = b BY <2>2, <2>4, <2>6, <3>1
    <3> QED BY <2>7, <3>2 DEF c
  <2>8. CASE v \notin DOMAIN b
    <3>1. v \notin b[h] BY <2>2, <2>6, <2>8 DEF IsBelow
    <3>2. c = Put(Put(b, h, (b[h] \ longer) \cup {v}), v, longer) BY <2>4, <3>1
    <3>3. DOMAIN c = DOMAIN b \cup {v} BY <2>6, <3>2 DEF Put
    <3>4. /\ c[v] = longer /\ c[h] = (b[h] \ longer) \cup {v}
          /\ \A x \in DOMAIN b \ {h} : c[x] = b[x]
      BY <2>6, <2>8, <3>2 DEF Put
    <3>5. \A w : w \in longer <=> IsBelow(c, v, w)
      <4> SUFFICES ASSUME NEW w PROVE w \in longer <=> IsBelow(c, v, w) OBVIOUS
      <4>1. ASSUME w \in longer PROVE IsBelow(c, v, w)
        <5>1. IsBelow(b, h, w) /\ StartsWith(w, v) BY <4>1, <2>2, <2>5, <2>6
        <5>2. w \in DOMAIN b /\ w \in Str /\ w # Root /\ w # h /\ w # v BY <5>1, <2>1, <2>8 DEF IsBelow
        <5>3. ASSUME NEW x \in DOMAIN c \ {v, w}, StartsWith(w, x), StartsWith(x, v) PROVE FALSE
          <6>1. x \in DOMAIN b /\ x \in Str BY <5>3, <3>3, <2>1
          <6>2. StartsWith(x, h) BY <6>1, <5>3, <2>6, PrefixOrder
          <6>3. x # h BY <5>3, <2>6, PrefixOrder
          <6> QED BY <5>1, <5>3, <6>1, <6>2, <6>3 DEF IsBelow
        <5> QED BY <5>1, <5>2, <5>3, <3>3 DEF IsBelow
      <4>2. ASSUME IsBelow(c, v, w) PROVE w \in longer
        <5>1. w \in DOMAIN b /\ w \in Str /\ w # Root /\ w # v /\ StartsWith(w, v)
          BY <4>2, <3>3, <2>1 DEF IsBelow
        <5>2. StartsWith(w, h) BY <5>1, <2>6, PrefixOrder
        <5>3. w # h BY <5>1, <2>6, PrefixOrder
        <5>4. ASSUME NEW x \in DOMAIN b \ {h, w}, StartsWith(w, x), StartsWith(x, h) PROVE FALSE
          <6>1. x \in Str /\ x \in DOMAIN c /\ x # v BY <5>4, <2>1, <2>8, <3>3
          <6>2. StartsWith(x, v) \/ StartsWith(v, x) BY <5>1, <5>4, <6>1, PrefixOrder
          <6>3. ~StartsWith(x, v) BY <4>2, <5>4, <6>1 DEF IsBelow
          <6>4. StartsWith(h, x) BY <5>4, <6>1, <6>2, <6>3, <2>6
          <6> QED BY <5>4, <6>1, <6>4, <2>6, PrefixOrder
        <5>5. IsBelow(b, h, w) BY <5>1, <5>2, <5>3, <5>4 DEF IsBelow
        <5> QED BY <5>1, <5>5, <2>2, <2>5, <2>6
      <4> QED BY <4>1, <4>2
    <3>6. \A w : w \in c[h] <=> IsBelow(c, h, w)
      <4> SUFFICES ASSUME NEW w PROVE w \in c[h] <=> IsBelow(c, h, w) OBVIOUS
      <4>1. w \in c[h] <=> w = v \/ (IsBelow(b, h, w) /\ ~StartsWith(w, v))
        BY <3>4, <2>2, <2>5, <2>6
      <4>2. CASE w = v
        <5>1. ASSUME NEW x \in DOMAIN b \ {h, v}, StartsWith(v, x), StartsWith(x, h) PROVE FALSE
          BY <5>1, <2>1, <2>6, PrefixOrder
        <5> QED BY <1>2, <2>6, <3>3, <4>1, <4>2, <5>1 DEF IsBelow
      <4>3. CASE w # v
        <5>1. IsBelow(c, h, w) <=> IsBelow(b, h, w) /\ ~StartsWith(w, v)
          BY <4>3, <2>6, <2>8, <3>3 DEF IsBelow
        <5> QED BY <4>1, <4>3, <5>1
      <4> QED BY <4>2, <4>3
    <3>7. ASSUME NEW u \in DOMAIN b \ {h} PROVE \A w : w \in c[u] <=> IsBelow(c, u, w)
      <4> SUFFICES ASSUME NEW w PROVE w \in c[u] <=> IsBelow(c, u, w) OBVIOUS
      <4>1. w \in c[u] <=> IsBelow(b, u, w) BY <3>4, <3>7, <2>2
      <4>2. u \in Str /\ u # v BY <2>1, <2>8, <3>7
      <4>3. StartsWith(v, u) => StartsWith(h, u) BY <2>6, <3>7, <4>2
      <4>4. CASE w = v
        <5>1. ~IsBelow(b, u, w) BY <4>4, <2>8 DEF IsBelow
        <5>2. ~IsBelow(c, u, w)
          <6>1. h \in DOMAIN c \ {u, v} BY <3>3, <3>7, <2>6
          <6> QED BY <4>3, <4>4, <6>1, <2>6 DEF IsBelow
        <5> QED BY <4>1, <5>1, <5>2
      <4>5. CASE w # v
        <5>1. IsBelow(c, u, w) <=> IsBelow(b, u, w) /\ ~(StartsWith(w, v) /\ StartsWith(v, u))
          BY <4>2, <4>5, <3>3, <2>8 DEF IsBelow
        <5>2. ASSUME IsBelow(b, u, w), StartsWith(w, v), StartsWith(v, u) PROVE FALSE
          <6>1. w \in Str /\ w \in DOMAIN b BY <5>2, <2>1 DEF IsBelow
          <6>2. StartsWith(w, h) BY <5>2, <6>1, <2>6, PrefixOrder
          <6>3. w # h BY <5>2, <4>5, <2>6, PrefixOrder
          <6>4. h \in DOMAIN b \ {u, w} /\ StartsWith(h, u) BY <5>2, <6>3, <3>7, <4>3, <2>6
          <6> QED BY <5>2, <6>2, <6>4 DEF IsBelow
        <5> QED BY <4>1, <5>1, <5>2
      <4> QED BY <4>4, <4>5
    <3>8. \A x \in DOMAIN c : \A w : w \in c[x] <=> IsBelow(c, x, w)
      BY <3>3, <3>4, <3>5, <3>6, <3>7
    <3>9. Root \in DOMAIN c /\ DOMAIN c \subseteq Str BY <2>1, <3>3
    <3>10. TrieOK(c) BY <3>8, <3>9, TrieIs
    <3> QED BY <3>3, <3>10 DEF c
  <2> QED BY <2>7, <2>8
<1> QED BY <1>1, <1>2

(* The trie that holds nothing. *)
LEMMA NoTrieOK == TrieOK(NoTrie) /\ DOMAIN NoTrie = {Root}
<1>1. DOMAIN NoTrie = {Root} /\ NoTrie[Root] = {} BY DEF NoTrie
<1>2. Root \in Str BY DEF Root, Str
<1>3. \A w : ~IsBelow(NoTrie, Root, w) BY <1>1 DEF IsBelow
<1> QED BY <1>1, <1>2, <1>3, TrieIs

(* The trie of a set of keys, all at once. *)
TrieOf(K) ==
  [v \in K \cup {Root} |->
     {w \in (K \cup {Root}) \ {Root, v} :
        /\ StartsWith(w, v)
        /\ \A x \in (K \cup {Root}) \ {v, w} : ~(StartsWith(w, x) /\ StartsWith(x, v))}]

(* It is in order. *)
LEMMA TrieOfIs ==
  ASSUME NEW K, K \subseteq Str
  PROVE  TrieOK(TrieOf(K)) /\ DOMAIN TrieOf(K) = K \cup {Root}
<1> DEFINE b == TrieOf(K)
<1>1. DOMAIN b = K \cup {Root} BY DEF TrieOf
<1>2. Root \in Str BY DEF Root, Str
<1>3. ASSUME NEW v \in DOMAIN b, NEW w PROVE w \in b[v] <=> IsBelow(b, v, w)
  <2>1. b[v] = {u \in (K \cup {Root}) \ {Root, v} :
                  /\ StartsWith(u, v)
                  /\ \A x \in (K \cup {Root}) \ {v, u} : ~(StartsWith(u, x) /\ StartsWith(x, v))}
    BY <1>1 DEF TrieOf
  <2> HIDE DEF b
  <2> QED BY <1>1, <2>1 DEF IsBelow
<1> HIDE DEF b
<1>4. TrieOK(b) BY <1>1, <1>2, <1>3, TrieIs
<1> QED BY <1>1, <1>4 DEF b

(* No other trie has these keys. *)
LEMMA TrieIsOne ==
  ASSUME NEW K, NEW b, TrieOK(b), DOMAIN b = K \cup {Root}, b = [v \in DOMAIN b |-> b[v]]
  PROVE  b = TrieOf(K)
<1>1. ASSUME NEW v \in DOMAIN b PROVE b[v] = TrieOf(K)[v]
  <2>1. b[v] = {w \in DOMAIN b : IsBelow(b, v, w)} BY DEF TrieOK
  <2>2. TrieOf(K)[v] =
          {w \in DOMAIN b \ {Root, v} :
             /\ StartsWith(w, v)
             /\ \A x \in DOMAIN b \ {v, w} : ~(StartsWith(w, x) /\ StartsWith(x, v))}
    BY DEF TrieOf
  <2>3. \A w : w \in b[v] <=> w \in TrieOf(K)[v] BY <2>1, <2>2 DEF IsBelow
  <2> QED BY <2>3
<1>2. TrieOf(K) = [v \in DOMAIN b |-> TrieOf(K)[v]] BY DEF TrieOf
<1>3. [v \in DOMAIN b |-> b[v]] = [v \in DOMAIN b |-> TrieOf(K)[v]] BY <1>1
<1> QED BY <1>2, <1>3

(* So one key more makes the trie of one key more. *)
LEMMA OneKeyMore ==
  ASSUME NEW K, K \subseteq Str, NEW v \in K
  PROVE  Inserted(TrieOf(K \ {v}), v) = TrieOf(K)
<1> DEFINE b == TrieOf(K \ {v})
<1> DEFINE c == Inserted(b, v)
<1>1. TrieOK(b) /\ DOMAIN b = (K \ {v}) \cup {Root}
  <2>1. K \ {v} \subseteq Str OBVIOUS
  <2> QED BY <2>1, TrieOfIs
<1>2. b = [x \in DOMAIN b |-> b[x]] BY DEF TrieOf
<1> HIDE DEF b
<1>3. TrieOK(c) /\ DOMAIN c = K \cup {Root} BY <1>1, InsertedIs
<1>4. c = [x \in DOMAIN c |-> c[x]]
  <2> DEFINE longer == {k \in b[Home(b, v)] : StartsWith(k, v)}
  <2> DEFINE d == Put(b, Home(b, v), (b[Home(b, v)] \ longer) \cup {v})
  <2>1. c = b \/ c = Put(d, v, longer) BY DEF Inserted
  <2> HIDE DEF d, longer
  <2>2. Put(d, v, longer) = [x \in DOMAIN Put(d, v, longer) |-> Put(d, v, longer)[x]] BY DEF Put
  <2> QED BY <1>2, <2>1, <2>2
<1> HIDE DEF c
<1>5. c = TrieOf(K) BY <1>3, <1>4, TrieIsOne
<1> QED BY <1>5 DEF b, c

(* reset() enters every namespace that has a prefix, in any order. *)
IsInsert(f, D) ==
  f = [N \in SUBSET D |->
         IF N = {} THEN NoTrie
         ELSE LET n == CHOOSE x \in N : TRUE IN Inserted(f[N \ {n}], n)]

(* There is a function that does, since the order does not matter, *)
LEMMA InsertExists ==
  ASSUME NEW D, D \subseteq Str
  PROVE  IsInsert([N \in SUBSET D |-> TrieOf(N)], D)
<1> DEFINE f == [N \in SUBSET D |-> TrieOf(N)]
<1>1. TrieOf({}) = NoTrie
  <2>1. TrieOK(NoTrie) /\ DOMAIN NoTrie = {} \cup {Root} BY NoTrieOK
  <2>2. NoTrie = [v \in DOMAIN NoTrie |-> NoTrie[v]] BY DEF NoTrie
  <2>3. NoTrie = TrieOf({}) BY <2>1, <2>2, TrieIsOne
  <2> QED BY <2>3
<1>2. ASSUME NEW N \in SUBSET D, N # {}
      PROVE  TrieOf(N) = Inserted(f[N \ {CHOOSE x \in N : TRUE}], CHOOSE x \in N : TRUE)
  <2> DEFINE n == CHOOSE x \in N : TRUE
  <2>1. n \in N BY <1>2
  <2> HIDE DEF n
  <2>2. f[N \ {n}] = TrieOf(N \ {n}) BY <2>1
  <2>3. N \subseteq Str OBVIOUS
  <2>4. Inserted(TrieOf(N \ {n}), n) = TrieOf(N) BY <2>1, <2>3, OneKeyMore
  <2>5. TrieOf(N) = Inserted(f[N \ {n}], n) BY <2>2, <2>4
  <2> QED BY <2>5 DEF n
<1>3. ASSUME NEW N \in SUBSET D
      PROVE  TrieOf(N) = IF N = {} THEN NoTrie
                         ELSE LET n == CHOOSE x \in N : TRUE IN Inserted(f[N \ {n}], n)
  <2>1. CASE N = {} BY <1>1, <2>1
  <2>2. CASE N # {} BY <1>2, <2>2
  <2> QED BY <2>1, <2>2
<1> HIDE DEF f
<1>4. [N \in SUBSET D |-> TrieOf(N)] =
        [N \in SUBSET D |-> IF N = {} THEN NoTrie
                            ELSE LET n == CHOOSE x \in N : TRUE IN Inserted(f[N \ {n}], n)]
  BY <1>3
<1>5. IsInsert(f, D) BY <1>4 DEF f, IsInsert
<1> QED BY <1>5 DEF f

(* and whichever it is, it gives a trie of the keys. *)
LEMMA InsertIs ==
  ASSUME NEW D, D \subseteq Str, IsFiniteSet(D), NEW f, IsInsert(f, D), NEW N \in SUBSET D
  PROVE  TrieOK(f[N]) /\ DOMAIN f[N] = N \cup {Root}
<1> DEFINE OK(M) == TrieOK(f[M]) /\ DOMAIN f[M] = M \cup {Root}
<1> DEFINE Bad == {M \in SUBSET D : ~OK(M)}
<1> DEFINE C == {Cardinality(M) : M \in Bad}
<1> HIDE DEF OK
<1>1. \A M \in SUBSET D : IsFiniteSet(M) /\ Cardinality(M) \in Nat
  BY FS_Subset, FS_CardinalityType
<1>2. SUFFICES ASSUME Bad # {} PROVE FALSE
  <2>1. OK(N) BY <1>2
  <2> QED BY <2>1 DEF OK
<1>3. C \subseteq Nat /\ C # {} BY <1>1, <1>2
<1>4. PICK c \in C : \A d \in C : c <= d
  <2> HIDE DEF C
  <2> QED BY <1>3, LeastNumber
<1>5. PICK M \in Bad : c = Cardinality(M) BY <1>4
<1>6. M # {}
  <2>1. f[{}] = NoTrie BY DEF IsInsert
  <2>2. OK({}) BY <2>1, NoTrieOK DEF OK
  <2> QED BY <1>5, <2>2
<1> DEFINE n == CHOOSE x \in M : TRUE
<1>7. n \in M BY <1>6
<1>8. f[M] = Inserted(f[M \ {n}], n) BY <1>5, <1>6 DEF IsInsert
<1> HIDE DEF n
<1>9. Cardinality(M \ {n}) < Cardinality(M)
  <2>1. IsFiniteSet(M) BY <1>1, <1>5
  <2>2. Cardinality(M \ {n}) = Cardinality(M) - 1 BY <1>7, <2>1, FS_RemoveElement
  <2> QED BY <1>1, <1>5, <2>2
<1>10. M \ {n} \in SUBSET D BY <1>5
<1>11. OK(M \ {n})
  <2>1. M \ {n} \in Bad => c <= Cardinality(M \ {n}) BY <1>4
  <2>2. M \ {n} \notin Bad BY <1>1, <1>5, <1>9, <1>10, <2>1
  <2> QED BY <1>10, <2>2
<1>12. n \in Str BY <1>5, <1>7
<1>13. OK(M)
  <2>1. TrieOK(f[M]) /\ DOMAIN f[M] = DOMAIN f[M \ {n}] \cup {n}
    <3>1. TrieOK(f[M \ {n}]) BY <1>11 DEF OK
    <3> DEFINE b == f[M \ {n}]
    <3> HIDE DEF b
    <3>2. TrieOK(b) => TrieOK(Inserted(b, n)) /\ DOMAIN Inserted(b, n) = DOMAIN b \cup {n}
      BY <1>12, InsertedIs
    <3> USE DEF b
    <3> QED BY <1>8, <3>1, <3>2
  <2>2. DOMAIN f[M] = M \cup {Root} BY <1>7, <1>11, <2>1 DEF OK
  <2> QED BY <2>1, <2>2 DEF OK
<1> QED BY <1>5, <1>13

(* A manager: the keys of __strie are in its trie. *)
ManagerOK(m) ==
  /\ m = [cache |-> m.cache, strict |-> m.strict, below |-> m.below, strie |-> m.strie]
  /\ TrieOK(m.below) /\ m.strie \subseteq DOMAIN m.below

(* So reset() leaves a trie of the namespaces that have a prefix. *)
LEMMA ResetIs ==
  ASSUME NEW s, TablesOK(s), NEW m, ManagerOK(m)
  PROVE  /\ ManagerOK(Reset(s, m))
         /\ Reset(s, m).cache = <<>> /\ Reset(s, m).strict = m.strict
<1> DEFINE D == DOMAIN s.prefix
<1> DEFINE IsIt(f) == IsInsert(f, D)
<1> DEFINE insert == CHOOSE f : IsIt(f)
<1> DEFINE N == {s.namespace[p] : p \in DOMAIN s.namespace} \cap D
<1>1. Reset(s, m) = [m EXCEPT !.cache = <<>>, !.strie = {}, !.below = insert[N]]
  BY DEF Reset, IsInsert
<1>2. D \subseteq Str /\ IsFiniteSet(D) BY DEF TablesOK
<1>3. N \in SUBSET D OBVIOUS
<1> HIDE DEF D, N
<1>4. \E f : IsIt(f) BY <1>2, InsertExists
<1> HIDE DEF IsIt
<1>5. IsIt(insert) BY <1>4, Zenon
<1> HIDE DEF insert
<1> USE DEF IsIt
<1>6. TrieOK(insert[N]) BY <1>2, <1>3, <1>5, InsertIs
<1>7. Reset(s, m) = [cache |-> <<>>, strict |-> m.strict, below |-> insert[N], strie |-> {}]
  BY <1>1 DEF ManagerOK
<1> QED BY <1>6, <1>7 DEF ManagerOK

-----------------------------------------------------------------------------
(* Shortening. *)

(* The namespace of a qname has its prefix. *)
Holds(t, q) == q.namespace \in DOMAIN t.prefix /\ t.prefix[q.namespace] = q.prefix

(* It is what the URI starts with, and no shorter than a key that is. *)
IsWhole(b, u, q) ==
  /\ q.namespace \o q.name = u
  /\ \A v \in DOMAIN b : StartsWith(u, v) => Len(v) <= Len(q.namespace)

(* What shortening leaves: tables and a manager that only grew, with       *)
(* qnames that expand as the new ones of the caches.                       *)
Shortens(r, s, m) ==
  /\ r = [store |-> r.store, manager |-> r.manager]
  /\ TablesOK(r.store) /\ Keeps(r.store.prefix, s.prefix)
  /\ ManagerOK(r.manager) /\ DOMAIN m.below \subseteq DOMAIN r.manager.below
  /\ Keeps(r.manager.cache, m.cache) /\ Keeps(r.manager.strict, m.strict)
  /\ \A u \in DOMAIN r.manager.cache \ DOMAIN m.cache :
       Holds(r.store, r.manager.cache[u]) /\ IsWhole(m.below, u, r.manager.cache[u])
  /\ \A u \in DOMAIN r.manager.strict \ DOMAIN m.strict : Holds(r.store, r.manager.strict[u])

(* insert_trie enters a namespace. *)
LEMMA EnteredIs ==
  ASSUME NEW m, ManagerOK(m), NEW v \in Str
  PROVE  LET e == [m EXCEPT !.below = Inserted(@, v)] IN
         /\ ManagerOK(e) /\ DOMAIN e.below = DOMAIN m.below \cup {v}
         /\ e.cache = m.cache /\ e.strict = m.strict
<1> DEFINE b == Inserted(m.below, v)
<1>1. TrieOK(b) /\ DOMAIN b = DOMAIN m.below \cup {v} BY InsertedIs DEF ManagerOK
<1> HIDE DEF b
<1>2. [m EXCEPT !.below = b] =
        [cache |-> m.cache, strict |-> m.strict, below |-> b, strie |-> m.strie]
  BY DEF ManagerOK
<1>3. LET e == [m EXCEPT !.below = b] IN
         /\ ManagerOK(e) /\ DOMAIN e.below = DOMAIN m.below \cup {v}
         /\ e.cache = m.cache /\ e.strict = m.strict
  BY <1>1, <1>2 DEF ManagerOK
<1> QED BY <1>3 DEF b

(* insert_strie, which leaves alone the one it knows. *)
LEMMA LearnIs ==
  ASSUME NEW m, ManagerOK(m), NEW v \in Str
  PROVE  /\ ManagerOK(Learn(m, v)) /\ DOMAIN Learn(m, v).below = DOMAIN m.below \cup {v}
         /\ Learn(m, v).cache = m.cache /\ Learn(m, v).strict = m.strict
<1>1. CASE v \in m.strie
  <2>1. Learn(m, v) = m BY <1>1 DEF Learn
  <2> QED BY <1>1, <2>1 DEF ManagerOK
<1>2. CASE v \notin m.strie
  <2> DEFINE b == Inserted(m.below, v)
  <2>1. TrieOK(b) /\ DOMAIN b = DOMAIN m.below \cup {v} BY InsertedIs DEF ManagerOK
  <2>2. Learn(m, v) = [cache |-> m.cache, strict |-> m.strict, below |-> b,
                       strie |-> m.strie \cup {v}]
    BY <1>2 DEF Learn, ManagerOK
  <2> HIDE DEF b
  <2> QED BY <2>1, <2>2 DEF ManagerOK
<1> QED BY <1>1, <1>2

(* Nothing is done. *)
LEMMA NothingShortens ==
  ASSUME NEW s, TablesOK(s), NEW m, ManagerOK(m)
  PROVE  Shortens([store |-> s, manager |-> m], s, m)
BY DEF Shortens, Keeps

(* One after the other. *)
LEMMA ThenShortens ==
  ASSUME NEW s, NEW m, NEW r, Shortens(r, s, m), NEW r2, Shortens(r2, r.store, r.manager)
  PROVE  Shortens(r2, s, m)
<1>1. Keeps(r2.store.prefix, s.prefix)
  <2>1. Keeps(r.store.prefix, s.prefix) /\ Keeps(r2.store.prefix, r.store.prefix) BY DEF Shortens
  <2> QED BY <2>1 DEF Keeps
<1>2. /\ Keeps(r.manager.cache, m.cache) /\ Keeps(r2.manager.cache, r.manager.cache)
      /\ Keeps(r.manager.strict, m.strict) /\ Keeps(r2.manager.strict, r.manager.strict)
      /\ Keeps(r2.store.prefix, r.store.prefix)
  BY DEF Shortens
<1>3. Keeps(r2.manager.cache, m.cache) /\ Keeps(r2.manager.strict, m.strict)
  BY <1>2 DEF Keeps
<1>4. \A q : Holds(r.store, q) => Holds(r2.store, q) BY <1>2 DEF Keeps, Holds
<1>5. DOMAIN m.below \subseteq DOMAIN r.manager.below
      /\ DOMAIN r.manager.below \subseteq DOMAIN r2.manager.below
  BY DEF Shortens
<1>6. \A u, q : IsWhole(r.manager.below, u, q) => IsWhole(m.below, u, q) BY <1>5 DEF IsWhole
<1>7. ASSUME NEW u \in DOMAIN r2.manager.cache \ DOMAIN m.cache
      PROVE  Holds(r2.store, r2.manager.cache[u]) /\ IsWhole(m.below, u, r2.manager.cache[u])
  <2>1. CASE u \in DOMAIN r.manager.cache
    <3>1. Holds(r.store, r.manager.cache[u]) /\ IsWhole(m.below, u, r.manager.cache[u])
      BY <2>1 DEF Shortens
    <3>2. r2.manager.cache[u] = r.manager.cache[u] BY <1>2, <2>1 DEF Keeps
    <3> QED BY <1>4, <3>1, <3>2
  <2>2. CASE u \notin DOMAIN r.manager.cache
    <3>1. Holds(r2.store, r2.manager.cache[u])
          /\ IsWhole(r.manager.below, u, r2.manager.cache[u])
      BY <2>2 DEF Shortens
    <3> QED BY <1>6, <3>1
  <2> QED BY <2>1, <2>2
<1>8. ASSUME NEW u \in DOMAIN r2.manager.strict \ DOMAIN m.strict
      PROVE  Holds(r2.store, r2.manager.strict[u])
  <2>1. CASE u \in DOMAIN r.manager.strict
    <3>1. Holds(r.store, r.manager.strict[u]) BY <2>1 DEF Shortens
    <3>2. r2.manager.strict[u] = r.manager.strict[u] BY <1>2, <2>1 DEF Keeps
    <3> QED BY <1>4, <3>1, <3>2
  <2>2. CASE u \notin DOMAIN r.manager.strict
    <3> QED BY <2>2 DEF Shortens
  <2> QED BY <2>1, <2>2
<1>9. r2 = [store |-> r2.store, manager |-> r2.manager] /\ TablesOK(r2.store) /\ ManagerOK(r2.manager)
  BY DEF Shortens
<1> QED BY <1>1, <1>3, <1>5, <1>7, <1>8, <1>9 DEF Shortens

(* A namespace is entered in the trie. *)
LEMMA LearnShortens ==
  ASSUME NEW s, TablesOK(s), NEW m, ManagerOK(m), NEW v \in Str
  PROVE  Shortens([store |-> s, manager |-> Learn(m, v)], s, m)
<1> DEFINE l == Learn(m, v)
<1>1. /\ ManagerOK(l) /\ DOMAIN l.below = DOMAIN m.below \cup {v}
      /\ l.cache = m.cache /\ l.strict = m.strict
  BY LearnIs
<1> HIDE DEF l
<1>2. Shortens([store |-> s, manager |-> l], s, m) BY <1>1 DEF Shortens, Keeps
<1> QED BY <1>2 DEF l

(* A split URI is what it starts with. *)
LEMMA SplitIs ==
  ASSUME NEW u \in Str, NEW start, NEW b \in Split(u, start)
  PROVE  b \in Str /\ StartsWith(u, b)
<1>1. PICK i \in Starts(u, start) : b = UpTo(u, i - 1) BY DEF Split
<1>2. i \in DOMAIN u BY <1>1 DEF Starts
<1>3. i \in 1..Len(u) BY <1>2 DEF Str
<1>4. b \in Str /\ Len(b) = i - 1 BY <1>1, <1>3 DEF Str, UpTo
<1>5. UpTo(u, Len(b)) = b /\ Len(b) <= Len(u) BY <1>1, <1>3, <1>4 DEF Str
<1> QED BY <1>4, <1>5 DEF StartsWith

(* So is the namespace a URI is looked up by. *)
LEMMA BaseIs ==
  ASSUME NEW s, NEW u \in Str, NEW b \in Base(s, u)
  PROVE  b \in Str /\ StartsWith(u, b)
<1>1. b \in Split(u, AnyStart) \/ b = u BY DEF Base
<1> QED BY <1>1, SplitIs, PrefixOrder

(* A namespace and the rest make up the URI. *)
LEMMA RestIs ==
  ASSUME NEW u \in Str, NEW n \in Str, StartsWith(u, n)
  PROVE  n \o From(u, Len(n) + 1) = u
<1> DEFINE r == From(u, Len(n) + 1)
<1>1. Len(n) \in Nat /\ Len(u) \in Nat /\ Len(n) <= Len(u) BY PrefixOrder DEF Str
<1>2. \A i \in 1..Len(n) : u[i] = n[i] BY StartsWithIs
<1>3. r \in Str /\ Len(r) = Len(u) - Len(n)
      /\ \A i \in 1..(Len(u) - Len(n)) : r[i] = u[i + Len(n)]
  BY <1>1 DEF Str, From
<1> HIDE DEF r
<1>4. n \o r \in Str /\ Len(n \o r) = Len(u) BY <1>1, <1>3 DEF Str
<1>5. ASSUME NEW i \in 1..Len(u) PROVE (n \o r)[i] = u[i]
  <2>1. CASE i <= Len(n) BY <1>1, <1>2, <1>3, <2>1 DEF Str
  <2>2. CASE i > Len(n)
    <3>1. (n \o r)[i] = r[i - Len(n)] BY <1>1, <1>3, <2>2 DEF Str
    <3>2. i - Len(n) \in 1..(Len(u) - Len(n)) BY <1>1, <2>2
    <3>3. r[i - Len(n)] = u[i - Len(n) + Len(n)] BY <1>3, <3>2
    <3> QED BY <1>1, <3>1, <3>3
  <2>3. i <= Len(n) \/ i > Len(n) BY <1>1
  <2> QED BY <2>1, <2>2, <2>3
<1>6. n \o r = u BY <1>4, <1>5, SeqEqual DEF Str
<1> QED BY <1>6 DEF r

(* A prefix is made up for a namespace that has none. *)
LEMMA PrefixedShortens ==
  ASSUME NEW s, TablesOK(s), NEW m, ManagerOK(m), NEW n \in Str, NEW generate
  PROVE  /\ Shortens(Prefixed(s, m, n, generate), s, m)
         /\ Prefixed(s, m, n, generate).manager.cache = m.cache
         /\ Prefixed(s, m, n, generate).manager.strict = m.strict
<1> DEFINE r == Prefixed(s, m, n, generate)
<1>1. CASE n \in DOMAIN s.prefix \/ ~generate
  <2>1. r = [store |-> s, manager |-> m] BY <1>1 DEF Prefixed
  <2> QED BY <2>1, NothingShortens
<1>2. CASE ~(n \in DOMAIN s.prefix \/ ~generate)
  <2> DEFINE p == FreePrefix(s)
  <2> DEFINE t == Bind(s, p, n, TRUE, FALSE)
  <2> DEFINE e == [m EXCEPT !.below = Inserted(@, n)]
  <2> DEFINE l == IF ReturnsEarly(s, p, n, FALSE) THEN m ELSE e
  <2>1. r = [store |-> t, manager |-> l] BY <1>2 DEF Prefixed, Bound
  <2>2. TablesOK(t) BY BindTables
  <2>3. Keeps(t.prefix, s.prefix) BY <1>2, BindLosesNone
  <2>4. /\ ManagerOK(e) /\ DOMAIN e.below = DOMAIN m.below \cup {n}
        /\ e.cache = m.cache /\ e.strict = m.strict
    BY EnteredIs
  <2> HIDE DEF t, e
  <2>5. ManagerOK(l) /\ DOMAIN m.below \subseteq DOMAIN l.below
        /\ l.cache = m.cache /\ l.strict = m.strict
    BY <2>4
  <2> HIDE DEF l, r
  <2>6. Shortens(r, s, m) BY <2>1, <2>2, <2>3, <2>5 DEF Shortens, Keeps
  <2>7. r.manager = l BY <2>1
  <2>8. Shortens(r, s, m) /\ r.manager.cache = m.cache /\ r.manager.strict = m.strict
    BY <2>5, <2>6, <2>7
  <2> QED BY <2>8 DEF r
<1> QED BY <1>1, <1>2

(* The namespace of a URI is in the trie before it is given a prefix. *)
LEMMA LearnedPrefixedShortens ==
  ASSUME NEW s, TablesOK(s), NEW m, ManagerOK(m), NEW v \in Str, NEW n \in Str, NEW generate
  PROVE  /\ Shortens(Prefixed(s, Learn(m, v), n, generate), s, m)
         /\ Prefixed(s, Learn(m, v), n, generate).manager.cache = m.cache
         /\ Prefixed(s, Learn(m, v), n, generate).manager.strict = m.strict
<1> DEFINE l == Learn(m, v)
<1> DEFINE r == Prefixed(s, l, n, generate)
<1>1. ManagerOK(l) /\ l.cache = m.cache /\ l.strict = m.strict BY LearnIs
<1>2. Shortens([store |-> s, manager |-> l], s, m) BY LearnShortens
<1> HIDE DEF l
<1>3. Shortens(r, s, l) /\ r.manager.cache = l.cache /\ r.manager.strict = l.strict
  BY <1>1, PrefixedShortens
<1> HIDE DEF r
<1>4. Shortens(r, s, m)
  <2> DEFINE r1 == [store |-> s, manager |-> l]
  <2>1. r1.store = s /\ r1.manager = l OBVIOUS
  <2> HIDE DEF r1
  <2>2. Shortens(r1, s, m) BY <1>2 DEF r1
  <2>3. Shortens(r, r1.store, r1.manager) BY <1>3, <2>1
  <2> QED BY <2>2, <2>3, ThenShortens
<1>5. Shortens(r, s, m) /\ r.manager.cache = m.cache /\ r.manager.strict = m.strict
  BY <1>1, <1>3, <1>4
<1> QED BY <1>5 DEF l, r

(* A qname is cached, with the namespace's prefix. *)
LEMMA CachedShortens ==
  ASSUME NEW s, NEW m, NEW u \in Str, NEW n \in Str, NEW r,
         Shortens(r, s, m), r.manager.cache = m.cache, r.manager.strict = m.strict,
         n \in DOMAIN r.store.prefix
  PROVE  LET q == QName(r.store.prefix[n], n, u) IN
         /\ u \notin DOMAIN m.cache /\ IsWhole(m.below, u, q)
              => Shortens([r EXCEPT !.manager.cache = Put(@, u, q)], s, m)
         /\ u \notin DOMAIN m.strict
              => Shortens([r EXCEPT !.manager.strict = Put(@, u, q)], s, m)
<1> DEFINE q == QName(r.store.prefix[n], n, u)
<1> DEFINE l == r.manager
<1>1. Holds(r.store, q) BY DEF Holds, QName
<1>2. /\ r = [store |-> r.store, manager |-> l] /\ TablesOK(r.store)
      /\ Keeps(r.store.prefix, s.prefix) /\ ManagerOK(l)
      /\ DOMAIN m.below \subseteq DOMAIN l.below /\ l.cache = m.cache /\ l.strict = m.strict
  BY DEF Shortens
<1>3. l = [cache |-> m.cache, strict |-> m.strict, below |-> l.below, strie |-> l.strie]
  BY <1>2 DEF ManagerOK
<1>4. /\ \A x : x \in DOMAIN Put(m.cache, u, q) <=> x \in DOMAIN m.cache \cup {u}
      /\ \A x \in DOMAIN m.cache : x # u => Put(m.cache, u, q)[x] = m.cache[x]
      /\ Put(m.cache, u, q)[u] = q
  BY DEF Put
<1>5. /\ \A x : x \in DOMAIN Put(m.strict, u, q) <=> x \in DOMAIN m.strict \cup {u}
      /\ \A x \in DOMAIN m.strict : x # u => Put(m.strict, u, q)[x] = m.strict[x]
      /\ Put(m.strict, u, q)[u] = q
  BY DEF Put
<1> HIDE DEF q, l
<1>6. ASSUME u \notin DOMAIN m.cache, IsWhole(m.below, u, q)
      PROVE  Shortens([r EXCEPT !.manager.cache = Put(@, u, q)], s, m)
  <2> DEFINE c == Put(m.cache, u, q)
  <2> DEFINE k == [cache |-> c, strict |-> m.strict, below |-> l.below, strie |-> l.strie]
  <2> DEFINE r2 == [store |-> r.store, manager |-> k]
  <2>1. [r EXCEPT !.manager.cache = Put(@, u, q)] = r2
    <3>1. [r EXCEPT !.manager.cache = Put(@, u, q)] =
            [store |-> r.store, manager |-> [l EXCEPT !.cache = Put(@, u, q)]]
      BY <1>2
    <3>2. [l EXCEPT !.cache = Put(@, u, q)] = k BY <1>3
    <3> QED BY <3>1, <3>2
  <2>2. Keeps(c, m.cache) BY <1>4, <1>6 DEF Keeps
  <2>3. \A x \in DOMAIN c \ DOMAIN m.cache : Holds(r.store, c[x]) /\ IsWhole(m.below, x, c[x])
    BY <1>1, <1>4, <1>6
  <2> HIDE DEF c
  <2>4. ManagerOK(k) BY <1>2 DEF ManagerOK
  <2>5. Shortens(r2, s, m) BY <1>2, <2>2, <2>3, <2>4 DEF Shortens, Keeps
  <2> QED BY <2>1, <2>5
<1>7. ASSUME u \notin DOMAIN m.strict
      PROVE  Shortens([r EXCEPT !.manager.strict = Put(@, u, q)], s, m)
  <2> DEFINE c == Put(m.strict, u, q)
  <2> DEFINE k == [cache |-> m.cache, strict |-> c, below |-> l.below, strie |-> l.strie]
  <2> DEFINE r2 == [store |-> r.store, manager |-> k]
  <2>1. [r EXCEPT !.manager.strict = Put(@, u, q)] = r2
    <3>1. [r EXCEPT !.manager.strict = Put(@, u, q)] =
            [store |-> r.store, manager |-> [l EXCEPT !.strict = Put(@, u, q)]]
      BY <1>2
    <3>2. [l EXCEPT !.strict = Put(@, u, q)] = k BY <1>3
    <3> QED BY <3>1, <3>2
  <2>2. Keeps(c, m.strict) BY <1>5, <1>7 DEF Keeps
  <2>3. \A x \in DOMAIN c \ DOMAIN m.strict : Holds(r.store, c[x])
    BY <1>1, <1>5, <1>7
  <2> HIDE DEF c
  <2>4. ManagerOK(k) BY <1>2 DEF ManagerOK
  <2>5. Shortens(r2, s, m) BY <1>2, <2>2, <2>3, <2>4 DEF Shortens, Keeps
  <2> QED BY <2>1, <2>5
<1> QED BY <1>6, <1>7 DEF q

(* compute_qname finds the longest namespace the manager knows. *)
LEMMA ComputedShortens ==
  ASSUME NEW s, TablesOK(s), NEW m, ManagerOK(m), NEW u \in Str, u \notin DOMAIN m.cache,
         NEW generate
  PROVE  Shortens(Computed(s, m, u, generate), s, m)
<1> DEFINE base == CHOOSE b \in Base(s, u) : TRUE
<1> DEFINE learned == Learn(m, base)
<1> DEFINE n == Longest(learned.below, base, u)
<1> DEFINE found == Prefixed(s, learned, n, generate)
<1>1. CASE Base(s, u) = {}
  <2>1. Computed(s, m, u, generate) = [store |-> s, manager |-> m] BY <1>1 DEF Computed
  <2> QED BY <2>1, NothingShortens
<1>2. CASE Base(s, u) # {}
  <2>1. Computed(s, m, u, generate) =
          IF n \in DOMAIN found.store.prefix
          THEN [found EXCEPT !.manager.cache = Put(@, u, QName(found.store.prefix[n], n, u))]
          ELSE found
    BY <1>2 DEF Computed
  <2>2. base \in Str /\ StartsWith(u, base)
    <3>1. base \in Base(s, u) BY <1>2
    <3> HIDE DEF base
    <3> QED BY <3>1, BaseIs
  <2> HIDE DEF base
  <2>3. ManagerOK(learned) /\ DOMAIN learned.below = DOMAIN m.below \cup {base}
    BY <2>2, LearnIs
  <2>4. Deepest(learned.below, u, {}, n)
    <3> HIDE DEF learned
    <3>1. TrieOK(learned.below) /\ base \in DOMAIN learned.below BY <2>3 DEF ManagerOK
    <3> QED BY <2>2, <3>1, LongestIsDeepest
  <2> HIDE DEF n
  <2>5. /\ n \in DOMAIN learned.below /\ StartsWith(u, n)
        /\ \A v \in DOMAIN learned.below : StartsWith(u, v) => StartsWith(n, v)
    BY <2>4 DEF Deepest
  <2>6. DOMAIN learned.below \subseteq Str BY <2>3 DEF ManagerOK, TrieOK
  <2>7. n \in Str BY <2>5, <2>6
  <2>8. /\ Shortens(found, s, m) /\ found.manager.cache = m.cache
        /\ found.manager.strict = m.strict
    BY <2>2, <2>7, LearnedPrefixedShortens
  <2> HIDE DEF found, learned
  <2>9. \A p : IsWhole(m.below, u, QName(p, n, u))
    <3>1. n \o From(u, Len(n) + 1) = u BY <2>5, <2>7, RestIs
    <3>2. \A v \in DOMAIN m.below : StartsWith(u, v) => Len(v) <= Len(n)
      BY <2>3, <2>5, <2>6, <2>7, PrefixOrder
    <3> QED BY <3>1, <3>2 DEF IsWhole, QName
  <2>10. CASE n \in DOMAIN found.store.prefix
    <3> DEFINE q == QName(found.store.prefix[n], n, u)
    <3>1. IsWhole(m.below, u, q) BY <2>9
    <3> HIDE DEF q
    <3>2. u \notin DOMAIN m.cache /\ IsWhole(m.below, u, q)
            => Shortens([found EXCEPT !.manager.cache = Put(@, u, q)], s, m)
      BY <2>7, <2>8, <2>10, CachedShortens DEF q
    <3> QED BY <2>1, <2>10, <3>1, <3>2 DEF q
  <2> QED BY <2>1, <2>8, <2>10
<1> QED BY <1>1, <1>2

(* A cached qname is no new one. *)
LEMMA ComputeQNameShortens ==
  ASSUME NEW s, TablesOK(s), NEW m, ManagerOK(m), NEW u \in Str, NEW generate
  PROVE  Shortens(ComputeQName(s, m, u, generate), s, m)
BY ComputedShortens, NothingShortens DEF ComputeQName

(* The strict one takes the namespace up to the first letter. *)
LEMMA ComputedStrictShortens ==
  ASSUME NEW s, TablesOK(s), NEW m, ManagerOK(m), NEW u \in Str, u \notin DOMAIN m.strict,
         NEW generate
  PROVE  Shortens(ComputedStrict(s, m, u, generate), s, m)
<1> DEFINE n == CHOOSE b \in Split(u, StrictStart) : TRUE
<1> DEFINE found == Prefixed(s, Learn(m, n), n, generate)
<1>1. CASE Split(u, StrictStart) = {}
  <2>1. ComputedStrict(s, m, u, generate) = [store |-> s, manager |-> m]
    BY <1>1 DEF ComputedStrict
  <2> QED BY <2>1, NothingShortens
<1>2. CASE Split(u, StrictStart) # {}
  <2>1. ComputedStrict(s, m, u, generate) =
          IF n \in DOMAIN found.store.prefix
          THEN [found EXCEPT !.manager.strict = Put(@, u, QName(found.store.prefix[n], n, u))]
          ELSE found
    BY <1>2 DEF ComputedStrict
  <2>2. n \in Str
    <3>1. n \in Split(u, StrictStart) BY <1>2
    <3> HIDE DEF n
    <3> QED BY <3>1, SplitIs
  <2> HIDE DEF n
  <2>3. /\ Shortens(found, s, m) /\ found.manager.cache = m.cache
        /\ found.manager.strict = m.strict
    BY <2>2, LearnedPrefixedShortens
  <2> HIDE DEF found
  <2>4. CASE n \in DOMAIN found.store.prefix
    <3> DEFINE q == QName(found.store.prefix[n], n, u)
    <3>1. u \notin DOMAIN m.strict
            => Shortens([found EXCEPT !.manager.strict = Put(@, u, q)], s, m)
      BY <2>2, <2>3, <2>4, CachedShortens
    <3> HIDE DEF q
    <3> QED BY <2>1, <2>4, <3>1 DEF q
  <2> QED BY <2>1, <2>3, <2>4
<1> QED BY <1>1, <1>2

(* Both namespaces may get a prefix, the one after the other. *)
LEMMA ComputeQNameStrictShortens ==
  ASSUME NEW s, TablesOK(s), NEW m, ManagerOK(m), NEW u \in Str, NEW generate
  PROVE  Shortens(ComputeQNameStrict(s, m, u, generate), s, m)
<1> DEFINE r == ComputeQName(s, m, u, generate)
<1> DEFINE r2 == ComputedStrict(r.store, r.manager, u, generate)
<1>1. ComputeQNameStrict(s, m, u, generate) =
        IF \/ u \notin DOMAIN r.manager.cache
           \/ IsNCName(r.manager.cache[u].name)
           \/ u \in DOMAIN r.manager.strict
        THEN r ELSE r2
  BY DEF ComputeQNameStrict
<1>2. Shortens(r, s, m) BY ComputeQNameShortens
<1> HIDE DEF r
<1>3. TablesOK(r.store) /\ ManagerOK(r.manager) BY <1>2 DEF Shortens
<1>4. u \notin DOMAIN r.manager.strict => Shortens(r2, r.store, r.manager)
  BY <1>3, ComputedStrictShortens
<1> HIDE DEF r2
<1>5. u \notin DOMAIN r.manager.strict => Shortens(r2, s, m) BY <1>2, <1>4, ThenShortens
<1> QED BY <1>1, <1>2, <1>5

(* The namespace is entered in the trie, and has a prefix or not. *)
LEMMA NormalizeUriShortens ==
  ASSUME NEW s, TablesOK(s), NEW m, ManagerOK(m), NEW u \in Str
  PROVE  Shortens(NormalizeUri(s, m, u), s, m)
<1> DEFINE n == CHOOSE b \in Split(u, AnyStart) : TRUE
<1> DEFINE r == [store |-> s, manager |-> Learn(m, n)]
<1> DEFINE r2 == ComputeQName(s, Learn(m, n), u, TRUE)
<1>1. CASE Split(u, AnyStart) = {}
  <2>1. NormalizeUri(s, m, u) = [store |-> s, manager |-> m] BY <1>1 DEF NormalizeUri
  <2> QED BY <2>1, NothingShortens
<1>2. CASE Split(u, AnyStart) # {}
  <2>1. NormalizeUri(s, m, u) = IF n \in DOMAIN s.prefix THEN r2 ELSE r
    BY <1>2 DEF NormalizeUri
  <2>2. n \in Str
    <3>1. n \in Split(u, AnyStart) BY <1>2
    <3> HIDE DEF n
    <3> QED BY <3>1, SplitIs
  <2> HIDE DEF n
  <2>3. Shortens(r, s, m) BY <2>2, LearnShortens
  <2>4. ManagerOK(Learn(m, n)) BY <2>2, LearnIs
  <2>5. Shortens(r2, s, Learn(m, n)) BY <2>4, ComputeQNameShortens
  <2>6. r.store = s /\ r.manager = Learn(m, n) OBVIOUS
  <2> HIDE DEF r, r2
  <2>7. Shortens(r2, s, m) BY <2>3, <2>5, <2>6, ThenShortens
  <2> QED BY <2>1, <2>3, <2>7
<1> QED BY <1>1, <1>2

-----------------------------------------------------------------------------
(* Steps. *)

Inv ==
  /\ TablesOK(store)
  /\ manager = [m \in Managers |-> manager[m]]
  /\ \A m \in Managers : ManagerOK(manager[m])

(* What a step leaves of the tables: one namespace is bound, or namespaces *)
(* that had no prefix got one.                                             *)
IsBind ==
  \E p \in Prefix, n \in Namespace, override, replace \in BOOLEAN :
    (replace => override) /\ store' = Bind(store, p, n, override, replace)

(* What it leaves of a manager: one that is in order, with qnames in its   *)
(* caches that expand.                                                     *)
Renewed(before, after) ==
  /\ \A u \in DOMAIN after.cache \ DOMAIN before.cache :
       Holds(store', after.cache[u]) /\ IsWhole(before.below, u, after.cache[u])
  /\ \A u \in DOMAIN after.strict \ DOMAIN before.strict : Holds(store', after.strict[u])

Stepped ==
  /\ IsBind \/ Keeps(store'.prefix, store.prefix)
  /\ TablesOK(store')
  /\ manager' = [m \in Managers |-> manager'[m]]
  /\ \A m \in Managers : ManagerOK(manager'[m]) /\ Renewed(manager[m], manager'[m])

(* The manager of one graph, as a result that shortens leaves it. *)
LEMMA ShorteningSteps ==
  ASSUME Inv, NEW m \in Managers, NEW r, Shortens(r, store, manager[m]), Take(m, r)
  PROVE  Stepped
<1>1. store' = r.store /\ manager' = [manager EXCEPT ![m] = r.manager] BY DEF Take
<1>2. manager' = [k \in Managers |-> IF k = m THEN r.manager ELSE manager[k]] BY <1>1 DEF Inv
<1>3. TablesOK(store') /\ Keeps(store'.prefix, store.prefix) BY <1>1 DEF Shortens
<1>4. ManagerOK(r.manager) /\ Renewed(manager[m], r.manager) BY <1>1 DEF Shortens, Renewed
<1>5. ASSUME NEW k \in Managers
      PROVE  ManagerOK(manager'[k]) /\ Renewed(manager[k], manager'[k])
  <2>1. CASE k = m BY <1>2, <1>4, <2>1
  <2>2. CASE k # m
    <3>1. manager'[k] = manager[k] BY <1>2, <2>2
    <3> QED BY <3>1 DEF Inv, Renewed
  <2> QED BY <2>1, <2>2
<1>6. manager' = [k \in Managers |-> manager'[k]] BY <1>2
<1> QED BY <1>3, <1>5, <1>6 DEF Stepped

(* A bind() of one graph: its manager may enter the namespace. *)
LEMMA BindingSteps ==
  ASSUME Inv, NEW p \in Prefix, NEW n \in Namespace, NEW override \in BOOLEAN,
         NEW replace \in BOOLEAN, replace => override,
         store' = Bind(store, p, n, override, replace),
         manager' = [k \in Managers |-> manager'[k]],
         \A k \in Managers : manager'[k] \in {manager[k], [manager[k] EXCEPT !.below = Inserted(@, n)]}
  PROVE  Stepped
<1>1. n \in Str BY UrisAreStrings DEF Str
<1>2. TablesOK(store') BY <1>1, BindTables DEF Inv
<1>3. ASSUME NEW k \in Managers
      PROVE  ManagerOK(manager'[k]) /\ Renewed(manager[k], manager'[k])
  <2> DEFINE e == [manager[k] EXCEPT !.below = Inserted(@, n)]
  <2>1. ManagerOK(manager[k]) BY DEF Inv
  <2>2. ManagerOK(e) /\ e.cache = manager[k].cache /\ e.strict = manager[k].strict
    BY <1>1, <2>1, EnteredIs
  <2>3. manager'[k] = manager[k] \/ manager'[k] = e OBVIOUS
  <2> HIDE DEF e
  <2> QED BY <2>1, <2>2, <2>3 DEF Renewed
<1>4. IsBind BY DEF IsBind
<1> QED BY <1>2, <1>3, <1>4 DEF Stepped

(* Every step. *)
LEMMA StepsAreOK ==
  ASSUME Inv, [Next]_vars
  PROVE  Stepped
<1>1. ASSUME NEW p \in Prefix, NEW n \in Namespace, NEW override \in BOOLEAN,
             NEW replace \in BOOLEAN, BindElsewhere(p, n, override, replace)
      PROVE  Stepped
  <2>1. /\ replace => override
        /\ store' = Bind(store, p, n, override, replace) /\ manager' = manager
    BY <1>1 DEF BindElsewhere
  <2>2. manager' = [k \in Managers |-> manager'[k]] BY <2>1 DEF Inv
  <2>3. \A k \in Managers : manager'[k] \in {manager[k], [manager[k] EXCEPT !.below = Inserted(@, n)]}
    BY <2>1
  <2> QED BY <2>1, <2>2, <2>3, BindingSteps
<1>2. ASSUME NEW m \in Managers, NEW p \in Prefix, NEW n \in Namespace,
             NEW override \in BOOLEAN, NEW replace \in BOOLEAN,
             BindPrefix(m, p, n, override, replace)
      PROVE  Stepped
  <2> DEFINE e == [manager[m] EXCEPT !.below = Inserted(@, n)]
  <2> DEFINE l == IF ReturnsEarly(store, p, n, replace) THEN manager[m] ELSE e
  <2>1. /\ replace => override
        /\ store' = Bind(store, p, n, override, replace)
        /\ manager' = [manager EXCEPT ![m] = l]
    BY <1>2 DEF BindPrefix, Bound, Take
  <2> HIDE DEF e
  <2>2. manager' = [k \in Managers |-> IF k = m THEN l ELSE manager[k]] BY <2>1 DEF Inv
  <2>3. manager' = [k \in Managers |-> manager'[k]] BY <2>2
  <2>4. ASSUME NEW k \in Managers
        PROVE  manager'[k] \in {manager[k], [manager[k] EXCEPT !.below = Inserted(@, n)]}
    <3>1. CASE k = m
      <4>1. manager'[k] = manager[m] \/ manager'[k] = e BY <2>2, <3>1
      <4> QED BY <3>1, <4>1 DEF e
    <3>2. CASE k # m BY <2>2, <3>2
    <3> QED BY <3>1, <3>2
  <2> QED BY <2>1, <2>3, <2>4, BindingSteps
<1>3. TablesOK(store) /\ \A m \in Managers : ManagerOK(manager[m]) BY DEF Inv
<1>4. \A u \in Uri : u \in Str BY UrisAreStrings DEF Str
<1>5. ASSUME NEW m \in Managers, NEW u \in Uri, NEW generate \in BOOLEAN, Shorten(m, u, generate)
      PROVE  Stepped
  <2>1. Shortens(ComputeQName(store, manager[m], u, generate), store, manager[m])
    BY <1>3, <1>4, ComputeQNameShortens
  <2> QED BY <1>5, <2>1, ShorteningSteps DEF Shorten
<1>6. ASSUME NEW m \in Managers, NEW u \in Uri, NEW generate \in BOOLEAN,
             ShortenStrict(m, u, generate)
      PROVE  Stepped
  <2>1. Shortens(ComputeQNameStrict(store, manager[m], u, generate), store, manager[m])
    BY <1>3, <1>4, ComputeQNameStrictShortens
  <2> QED BY <1>6, <2>1, ShorteningSteps DEF ShortenStrict
<1>7. ASSUME NEW m \in Managers, NEW u \in Uri, Normalize(m, u)
      PROVE  Stepped
  <2>1. Shortens(NormalizeUri(store, manager[m], u), store, manager[m])
    BY <1>3, <1>4, NormalizeUriShortens
  <2> QED BY <1>7, <2>1, ShorteningSteps DEF Normalize
<1>8. ASSUME NEW m \in Managers, ResetManager(m)
      PROVE  Stepped
  <2> DEFINE e == Reset(store, manager[m])
  <2>1. store' = store /\ manager' = [manager EXCEPT ![m] = e] BY <1>8 DEF ResetManager
  <2>2. ManagerOK(e) /\ e.cache = <<>> /\ e.strict = manager[m].strict BY <1>3, ResetIs
  <2> HIDE DEF e
  <2>3. manager' = [k \in Managers |-> IF k = m THEN e ELSE manager[k]] BY <2>1 DEF Inv
  <2>4. DOMAIN e.cache = {} BY <2>2
  <2>5. ASSUME NEW k \in Managers
        PROVE  ManagerOK(manager'[k]) /\ Renewed(manager[k], manager'[k])
    <3>1. CASE k = m BY <2>2, <2>3, <2>4, <3>1 DEF Renewed
    <3>2. CASE k # m
      <4>1. manager'[k] = manager[k] BY <2>3, <3>2
      <4> QED BY <1>3, <4>1 DEF Renewed
    <3> QED BY <3>1, <3>2
  <2>6. manager' = [k \in Managers |-> manager'[k]] BY <2>3
  <2>7. TablesOK(store') /\ Keeps(store'.prefix, store.prefix) BY <1>3, <2>1 DEF Keeps
  <2> QED BY <2>5, <2>6, <2>7 DEF Stepped
<1>9. CASE UNCHANGED vars
  <2>1. store' = store /\ manager' = manager BY <1>9 DEF vars
  <2>2. Keeps(store'.prefix, store.prefix) BY <2>1 DEF Keeps
  <2>3. \A k \in Managers : Renewed(manager[k], manager'[k]) BY <2>1 DEF Renewed
  <2> QED BY <2>1, <2>2, <2>3 DEF Stepped, Inv
<1> QED BY <1>1, <1>2, <1>5, <1>6, <1>7, <1>8, <1>9, Zenon DEF Next

(* The tables and the tries are in order from the start. *)
LEMMA StartsOK == Init => Inv
<1> SUFFICES ASSUME Init PROVE Inv OBVIOUS
<1>1. store = NoTables /\ manager = [m \in Managers |-> NewManager] BY DEF Init
<1>2. DOMAIN store.prefix = {} /\ DOMAIN store.namespace = {} BY <1>1 DEF NoTables
<1>3. TablesOK(store) BY <1>2, FS_EmptySet DEF TablesOK, Paired
<1>4. ManagerOK(NewManager) BY NoTrieOK DEF ManagerOK, NewManager
<1> QED BY <1>1, <1>3, <1>4 DEF Inv

(* So the tables and the tries are always in order. *)
LEMMA Inductive == Spec => []Inv
<1>1. Inv /\ [Next]_vars => Inv'
  <2>1. Inv /\ Stepped => Inv'
    <3> SUFFICES ASSUME Stepped PROVE Inv' OBVIOUS
    <3>1. TablesOK(store') /\ manager' = [m \in Managers |-> manager'[m]]
          /\ \A m \in Managers : ManagerOK(manager'[m])
      BY DEF Stepped
    <3> QED BY <3>1 DEF Inv, TablesOK, Paired, ManagerOK, TrieOK, IsBelow
  <2> QED BY <2>1, StepsAreOK
<1> QED BY <1>1, StartsOK, PTL DEF Spec

(* The two tables of the store are inverse of each other, whatever is      *)
(* bound and shortened.                                                    *)
THEOREM TablesAlwaysInverse == Spec => []TablesInverse
<1>1. Inv => TablesInverse BY DEF Inv, TablesOK, Paired, TablesInverse
<1> QED BY <1>1, Inductive, PTL

(* The dictionaries of every trie are nested as the namespaces are, in     *)
(* whatever order these came.                                              *)
THEOREM TriesAlwaysNested == Spec => []TrieIsNested
<1>1. Inv => TrieIsNested
  <2> SUFFICES ASSUME Inv, NEW m \in Managers, NEW v \in DOMAIN manager[m].below
               PROVE  manager[m].below[v] =
                        {w \in DOMAIN manager[m].below \ {Root, v} :
                           /\ StartsWith(w, v)
                           /\ \A x \in DOMAIN manager[m].below \ {v, w} :
                                ~(StartsWith(w, x) /\ StartsWith(x, v))}
    BY DEF TrieIsNested
  <2> DEFINE b == manager[m].below
  <2>1. b[v] = {w \in DOMAIN b : IsBelow(b, v, w)} BY DEF Inv, ManagerOK, TrieOK
  <2> HIDE DEF b
  <2>2. b[v] = {w \in DOMAIN b \ {Root, v} :
                  /\ StartsWith(w, v)
                  /\ \A x \in DOMAIN b \ {v, w} : ~(StartsWith(w, x) /\ StartsWith(x, v))}
    BY <2>1 DEF IsBelow
  <2> QED BY <2>2 DEF b
<1> QED BY <1>1, Inductive, PTL

(* A qname that is computed expands to its URI, and no namespace the       *)
(* manager knew would have made its name shorter.                          *)
THEOREM QNamesAlwaysExpand == Spec => QNamesExpand
<1>1. Inv /\ [Next]_vars => [FreshExpand]_vars
  <2> SUFFICES ASSUME Inv, [Next]_vars, NEW m \in Managers
               PROVE  LET before == manager[m] after == manager'[m]
                          fresh == {after.cache[u] : u \in DOMAIN after.cache \ DOMAIN before.cache}
                                     \cup {after.strict[u] : u \in DOMAIN after.strict \ DOMAIN before.strict}
                      IN  /\ \A q \in fresh : /\ q.prefix \in DOMAIN store'.namespace
                                              /\ store'.namespace[q.prefix] = q.namespace
                          /\ \A u \in DOMAIN after.cache \ DOMAIN before.cache :
                               LET q == after.cache[u] IN
                               /\ q.namespace \o q.name = u
                               /\ \A v \in DOMAIN before.below :
                                    StartsWith(u, v) => Len(v) <= Len(q.namespace)
    BY DEF FreshExpand
  <2> DEFINE before == manager[m]
  <2> DEFINE after == manager'[m]
  <2>1. Paired(store') /\ Renewed(before, after) BY StepsAreOK DEF Stepped, TablesOK
  <2> HIDE DEF before, after
  <2>2. \A q : Holds(store', q) => /\ q.prefix \in DOMAIN store'.namespace
                                   /\ store'.namespace[q.prefix] = q.namespace
    BY <2>1 DEF Paired, Holds
  <2>3. \A u \in DOMAIN after.cache \ DOMAIN before.cache :
          Holds(store', after.cache[u]) /\ IsWhole(before.below, u, after.cache[u])
    BY <2>1 DEF Renewed
  <2>4. \A u \in DOMAIN after.strict \ DOMAIN before.strict : Holds(store', after.strict[u])
    BY <2>1 DEF Renewed
  <2>5. ASSUME NEW q \in {after.cache[u] : u \in DOMAIN after.cache \ DOMAIN before.cache}
                           \cup {after.strict[u] : u \in DOMAIN after.strict \ DOMAIN before.strict}
        PROVE  Holds(store', q)
    BY <2>3, <2>4
  <2>6. ASSUME NEW u \in DOMAIN after.cache \ DOMAIN before.cache
        PROVE  /\ after.cache[u].namespace \o after.cache[u].name = u
               /\ \A v \in DOMAIN before.below :
                    StartsWith(u, v) => Len(v) <= Len(after.cache[u].namespace)
    BY <2>3 DEF IsWhole
  <2> QED BY <2>2, <2>5, <2>6 DEF before, after
<1> QED BY <1>1, Inductive, PTL DEF Spec, QNamesExpand

(* No namespace loses its prefix to a call that is not asked to replace,   *)
(* and no call moves two namespaces to other prefixes.                     *)
THEOREM BindAlwaysKeepsOthers == Spec => BindKeepsOthers
<1>1. Inv /\ [Next]_vars => [OthersKept]_vars
  <2> SUFFICES ASSUME Inv, [Next]_vars PROVE OthersKept OBVIOUS
  <2> DEFINE lost == DOMAIN store.prefix \ DOMAIN store'.prefix
  <2> DEFINE moved == {n \in DOMAIN store.prefix \ lost : store'.prefix[n] # store.prefix[n]}
  <2>1. ASSUME NEW m \in Managers, NEW p \in Prefix, NEW n \in Namespace,
               NEW override \in BOOLEAN,
               BindPrefix(m, p, n, override, FALSE) \/ BindElsewhere(p, n, override, FALSE)
        PROVE  lost = {}
    <3>1. store' = Bind(store, p, n, override, FALSE)
      BY <2>1 DEF BindPrefix, BindElsewhere, Bound, Take
    <3> QED BY <3>1, BindLosesNone
  <2>2. \E k : moved \subseteq {k}
    <3>1. ASSUME Keeps(store'.prefix, store.prefix) PROVE moved = {} BY <3>1 DEF Keeps
    <3>2. ASSUME NEW p \in Prefix, NEW n \in Namespace, NEW override \in BOOLEAN,
                 NEW replace \in BOOLEAN, store' = Bind(store, p, n, override, replace)
          PROVE  \E k : moved \subseteq {k}
      BY <3>2, BindMovesOne
    <3>3. IsBind \/ Keeps(store'.prefix, store.prefix) BY StepsAreOK DEF Stepped
    <3> QED BY <3>1, <3>2, <3>3 DEF IsBind
  <2> HIDE DEF lost, moved
  <2>3. Cardinality(moved) <= 1
    <3>1. PICK k : moved \subseteq {k} BY <2>2
    <3>2. moved = {} \/ moved = {k} BY <3>1
    <3>3. moved = {} => Cardinality(moved) = 0 BY FS_EmptySet
    <3>4. moved = {k} => Cardinality(moved) = 1 BY FS_Singleton
    <3> QED BY <3>2, <3>3, <3>4
  <2> QED BY <2>1, <2>3 DEF OthersKept, lost, moved
<1> QED BY <1>1, Inductive, PTL DEF Spec, BindKeepsOthers

-----------------------------------------------------------------------------
(* So a set that has 0, and n + 1 when it has n, has every number.         *)
LEMMA EveryNumber ==
  ASSUME NEW N, N \subseteq Nat, 0 \in N, \A n \in N : n + 1 \in N
  PROVE  N = Nat
<1>1. ASSUME NEW n \in Nat, n \notin N PROVE FALSE
  <2>1. PICK k \in Nat \ N : \A m \in Nat \ N : k <= m
    BY LeastNumber, <1>1
  <2>2. k # 0 /\ k - 1 \in Nat /\ k - 1 \in N
    BY <2>1
  <2> QED BY <2>1, <2>2
<1> QED BY <1>1

(* and one that has the empty list, and a longer one when it has a list,   *)
(* has every list.                                                         *)
LEMMA EveryList ==
  ASSUME NEW U, NEW S, <<>> \in S,
         \A list \in Seq(U), e \in U : list \in S => Append(list, e) \in S
  PROVE  Seq(U) \subseteq S
<1> DEFINE N == {n \in Nat : \A list \in Seq(U) : Len(list) = n => list \in S}
<1>1. 0 \in N
  <2>1. \A list \in Seq(U) : Len(list) = 0 => list = <<>> OBVIOUS
  <2> QED BY <2>1
<1>2. ASSUME NEW n \in N PROVE n + 1 \in N
  <2> SUFFICES ASSUME NEW list \in Seq(U), Len(list) = n + 1 PROVE list \in S OBVIOUS
  <2> DEFINE front == SubSeq(list, 1, n)
  <2>1. front \in Seq(U) /\ Len(front) = n /\ list[n + 1] \in U OBVIOUS
  <2>2. list = Append(front, list[n + 1]) OBVIOUS
  <2>3. front \in S BY <2>1
  <2> HIDE DEF front
  <2> QED BY <2>1, <2>2, <2>3
<1> HIDE DEF N
<1>3. N \subseteq Nat BY DEF N
<1>4. N = Nat BY <1>1, <1>2, <1>3, EveryNumber
<1> QED BY <1>4 DEF N

-----------------------------------------------------------------------------
(* Batches. *)

(* What is buffered is a list of triples of the job; and nothing that the  *)
(* wrapper was given since it was entered is lost.                         *)
BatchInv ==
  /\ DOMAIN batch = {"pending", "owed", "state"}
  /\ batch.pending \in Seq(job.edits)
  /\ BatchKeepsAll

(* Appending adds to what is in a list, and nothing else.                  *)
LEMMA AppendBuffers ==
  ASSUME NEW T, NEW s \in Seq(T), NEW t \in T
  PROVE  /\ Append(s, t) \in Seq(T) /\ <<t>> \in Seq(T)
         /\ ToSet(Append(s, t)) = ToSet(s) \cup {t} /\ ToSet(<<t>>) = {t}
<1>1. /\ Len(s) \in Nat /\ DOMAIN s = 1..Len(s)
      /\ Append(s, t) \in Seq(T) /\ Len(Append(s, t)) = Len(s) + 1
      /\ \A i \in 1..Len(s) : Append(s, t)[i] = s[i]
      /\ Append(s, t)[Len(s) + 1] = t
  OBVIOUS
<1>2. DOMAIN Append(s, t) = 1..(Len(s) + 1) BY <1>1
<1>3. ToSet(Append(s, t)) = ToSet(s) \cup {t}
  <2>1. ToSet(Append(s, t)) \subseteq ToSet(s) \cup {t} BY <1>1, <1>2 DEF ToSet
  <2>2. ToSet(s) \subseteq ToSet(Append(s, t)) BY <1>1, <1>2 DEF ToSet
  <2>3. t \in ToSet(Append(s, t)) BY <1>1, <1>2 DEF ToSet
  <2> QED BY <2>1, <2>2, <2>3
<1>4. <<t>> \in Seq(T) /\ ToSet(<<t>>) = {t} BY DEF ToSet
<1> QED BY <1>1, <1>3, <1>4

(* Nothing is lost on the way into the buffer.                             *)
LEMMA BatchedKeeps ==
  ASSUME NEW T, NEW g, NEW b, b.pending \in Seq(T), NEW t \in T
  PROVE  /\ Batched(g, b, t)[2] \in Seq(T)
         /\ Batched(g, b, t)[1] \cup ToSet(Batched(g, b, t)[2])
              = g \cup ToSet(b.pending) \cup {t}
         /\ g \subseteq Batched(g, b, t)[1]
<1>1. /\ Append(b.pending, t) \in Seq(T) /\ <<t>> \in Seq(T)
      /\ ToSet(Append(b.pending, t)) = ToSet(b.pending) \cup {t} /\ ToSet(<<t>>) = {t}
  BY AppendBuffers
<1>2. CASE Len(b.pending) >= BatchSize BY <1>1, <1>2 DEF Batched
<1>3. CASE ~(Len(b.pending) >= BatchSize) BY <1>1, <1>3 DEF Batched
<1> QED BY <1>2, <1>3

(* A batch that was given triples, T, on top of what it held.              *)
LEMMA GivenKeeps ==
  ASSUME BatchInv, NEW gb, NEW T \in SUBSET job.edits, Given(gb, T),
         gb[2] \in Seq(job.edits),
         graph \cup ToSet(batch.pending) \cup T \subseteq gb[1] \cup ToSet(gb[2])
  PROVE  BatchInv'
<1>1. /\ graph' = gb[1] /\ job' = job
      /\ batch' = [pending |-> gb[2], owed |-> batch.owed \cup T,
                   state |-> IF batch.state = "open" THEN "open" ELSE "loose"]
  BY DEF Given
<1>2. /\ DOMAIN batch' = {"pending", "owed", "state"}
      /\ batch'.pending = gb[2] /\ batch'.owed = batch.owed \cup T /\ batch'.state # "idle"
  BY <1>1
<1>3. batch.owed \subseteq graph \cup ToSet(batch.pending) BY DEF BatchInv, BatchKeepsAll
<1> QED BY <1>1, <1>2, <1>3 DEF BatchInv, BatchKeepsAll

(* BatchInv is inductive.                                                  *)
LEMMA BatchInductive == BatchSpec => []BatchInv
<1>1. ASSUME BatchInit PROVE BatchInv
  <2>1. batch = [pending |-> <<>>, owed |-> {}, state |-> "idle"]
    BY <1>1 DEF BatchInit, NewBatch
  <2> QED BY <2>1 DEF BatchInv, BatchKeepsAll
<1>2. ASSUME BatchInv, [UseBatch]_batchVars PROVE BatchInv'
  <2> USE <1>2
  <2>1. ASSUME NEW t \in job.edits, BatchAdd(t) PROVE BatchInv'
    <3>1. Given(Batched(graph, batch, t), {t}) BY <2>1 DEF BatchAdd
    <3>2. batch.pending \in Seq(job.edits) BY DEF BatchInv
    <3> QED BY <3>1, <3>2, BatchedKeeps, GivenKeeps
  <2>2. ASSUME NEW t \in job.edits, NEW u \in job.edits, BatchAddN(t, u) PROVE BatchInv'
    <3> DEFINE first == Batched(graph, batch, t)
    <3> DEFINE b == [batch EXCEPT !.pending = first[2]]
    <3> DEFINE second == Batched(first[1], b, u)
    <3>1. batch.pending \in Seq(job.edits) /\ DOMAIN batch = {"pending", "owed", "state"}
      BY DEF BatchInv
    <3>2. /\ first[2] \in Seq(job.edits)
          /\ first[1] \cup ToSet(first[2]) = graph \cup ToSet(batch.pending) \cup {t}
          /\ b.pending = first[2]
      BY <3>1, BatchedKeeps
    <3>3. CASE Uses("batch_addn")
      <4>1. Given(second, {t, u}) BY <2>2, <3>3 DEF BatchAddN
      <4> HIDE DEF first, b
      <4>2. /\ second[2] \in Seq(job.edits)
            /\ second[1] \cup ToSet(second[2]) = first[1] \cup ToSet(b.pending) \cup {u}
        BY <3>2, BatchedKeeps
      <4> HIDE DEF second
      <4> QED BY <3>2, <4>1, <4>2, GivenKeeps
    <3>4. CASE ~Uses("batch_addn")
      <4> DEFINE gb == <<graph \cup {t, u}, batch.pending>>
      <4>1. Given(gb, {t, u}) BY <2>2, <3>4 DEF BatchAddN
      <4>2. gb[1] = graph \cup {t, u} /\ gb[2] = batch.pending OBVIOUS
      <4> HIDE DEF gb
      <4> QED BY <3>1, <4>1, <4>2, GivenKeeps
    <3> QED BY <3>3, <3>4
  <2>3. CASE Enter
    <3>1. /\ batch' = [pending |-> <<>>, owed |-> {}, state |-> "open"]
          /\ graph' = graph /\ job' = job
      BY <2>3 DEF Enter, NewBatch
    <3> QED BY <3>1 DEF BatchInv, BatchKeepsAll
  <2>4. ASSUME NEW raised \in BOOLEAN, Exit(raised) PROVE BatchInv'
    <3>1. /\ batch' = [batch EXCEPT !.state = IF raised THEN "failed" ELSE "idle"]
          /\ graph' = IF raised THEN graph ELSE graph \cup ToSet(batch.pending)
          /\ job' = job
      BY <2>4 DEF Exit
    <3>2. /\ DOMAIN batch' = {"pending", "owed", "state"}
          /\ batch'.pending = batch.pending /\ batch'.owed = batch.owed
          /\ batch'.state = IF raised THEN "failed" ELSE "idle"
      BY <3>1 DEF BatchInv
    <3>3. batch.owed \subseteq graph \cup ToSet(batch.pending) BY DEF BatchInv, BatchKeepsAll
    <3>4. CASE raised BY <3>1, <3>2, <3>3, <3>4 DEF BatchInv, BatchKeepsAll
    <3>5. CASE ~raised BY <3>1, <3>2, <3>3, <3>5 DEF BatchInv, BatchKeepsAll
    <3> QED BY <3>4, <3>5
  <2>5. CASE UNCHANGED batchVars BY <2>5 DEF batchVars, BatchInv, BatchKeepsAll, ToSet
  <2> QED BY <2>1, <2>2, <2>3, <2>4, <2>5 DEF UseBatch
<1> QED BY <1>1, <1>2, PTL DEF BatchSpec

(* Whatever the triples, the size of a batch, and the order of single      *)
(* triples, several at once, and with blocks that end well or raise: what  *)
(* the wrapper was given is in the graph or waits to be written, and once  *)
(* a with block ended well it is in the graph.                             *)
THEOREM BatchAlwaysKeepsAll == BatchSpec => []BatchKeepsAll
<1>1. BatchInv => BatchKeepsAll BY DEF BatchInv
<1> QED BY <1>1, BatchInductive, PTL

-----------------------------------------------------------------------------
(* The order of terms.  For literals that can be sorted, __gt__, __lt__    *)
(* and eq, which look at numbers, datatypes, languages, values and texts   *)
(* in turn and raise errors in between, come to one chain of comparisons.  *)

LiteralTerms == {a \in Term : IsLiteral(a)}

\* value, or text for literals that have none
Measure(a) == IF HasValue(a) THEN a.value.n ELSE a.text

LanguageRank(a) == IF a.language = Unset THEN 0 ELSE NameOrder[a.language] + 1

Below(a, b) ==
  IF BothNumbers(a, b) THEN a.value.n < b.value.n
  ELSE IF TypeOf(a) # TypeOf(b) THEN NameOrder[TypeOf(a)] < NameOrder[TypeOf(b)]
  ELSE IF a.language # b.language THEN LanguageRank(a) < LanguageRank(b)
  ELSE Measure(a) < Measure(b)

(* Numbers for the names and texts of literals; names that have one number *)
(* are one name.                                                           *)
LEMMA LiteralIs ==
  ASSUME NEW a \in LiteralTerms
  PROVE  /\ a.text \in Nat /\ a.value.n \in Nat /\ Measure(a) \in Nat
         /\ TypeOf(a) \in KnownName /\ NameOrder[TypeOf(a)] \in Nat
         /\ a.language = Unset \/ (a.language \in KnownName /\ NameOrder[a.language] \in Nat)
         /\ LanguageRank(a) \in Nat
         /\ HasValue(a) <=> a.value.family # "none"
         /\ a.value = [family |-> a.value.family, n |-> a.value.n]
         /\ TypeOf(a) = "string" /\ HasValue(a) => a.value.n = a.text
<1>1. a \in Term /\ IsLiteral(a) /\ IsTerm(a) BY TermsAsRead DEF LiteralTerms, TermAssumption
<1>2. /\ a.text \in Nat /\ a.value.n \in Nat
      /\ a.datatype \in KnownName \cup {Unset} /\ a.language \in KnownName \cup {Unset}
      /\ a.value = [family |-> a.value.family, n |-> a.value.n]
      /\ a.value.family = "none" => a.value = NoValue
  BY <1>1 DEF IsTerm
<1>3. HasValue(a) <=> a.value.family # "none" BY <1>2 DEF HasValue, NoValue
<1>4. TypeOf(a) \in KnownName BY <1>2, TermsAsRead DEF TypeOf, NameAssumption
<1>5. \A x \in KnownName : NameOrder[x] \in Nat BY TermsAsRead DEF NameAssumption
<1>6. a.datatype \in {Unset, "string"} /\ HasValue(a) => a.value.n = a.text
  BY <1>1, TermsAsRead DEF TermAssumption, IsLiteral, HasValue
<1>7. TypeOf(a) = "string" => a.datatype \in {Unset, "string"} BY DEF TypeOf
<1>8. LanguageRank(a) \in Nat BY <1>2, <1>5 DEF LanguageRank
<1> QED BY <1>2, <1>3, <1>4, <1>5, <1>6, <1>7, <1>8 DEF Measure

(* What Sortable says of two literals.                                     *)
Pair(a, b) ==
  /\ a.value.family # "nan" /\ b.value.family # "nan"
  /\ TypeOf(a) = TypeOf(b) => a.value.family = b.value.family
  /\ Lower[a.language] = Lower[b.language] => a.language = b.language
  /\ TypeOf(a) = TypeOf(b) => (Number(a) <=> Number(b))

(* Two literals of a set that can be sorted are such a pair.               *)
LEMMA SortablePair ==
  ASSUME NEW S, Sortable(S), NEW a \in S, NEW b \in S, a \in LiteralTerms, b \in LiteralTerms
  PROVE  Pair(a, b)
<1> DEFINE L == {x \in S : IsLiteral(x)}
<1>1. a \in L /\ b \in L BY DEF LiteralTerms
<1>2. /\ \A x \in L : x.value.family # "nan"
      /\ \A x, y \in L :
           /\ TypeOf(x) = TypeOf(y) => x.value.family = y.value.family
           /\ Lower[x.language] = Lower[y.language] => x.language = y.language
           /\ Number(x) /\ Number(y) => \A d \in L : NamedBetween(x, d, y) => Number(d)
  BY DEF Sortable
<1>3. ASSUME TypeOf(a) = TypeOf(b) PROVE NamedBetween(a, b, a) /\ NamedBetween(b, a, b)
  <2>1. NameOrder[TypeOf(a)] \in Nat BY LiteralIs
  <2> QED BY <1>3, <2>1 DEF NamedBetween
<1> QED BY <1>1, <1>2, <1>3 DEF Pair

(* Number is of one literal, so that BothNumbers is of each.               *)
LEMMA NumbersAre ==
  ASSUME NEW a, NEW b
  PROVE  BothNumbers(a, b) <=> Number(a) /\ Number(b)
BY DEF BothNumbers, Number

(* The values of numbers are numbers, but for NaN.                         *)
LEMMA NumberIs ==
  ASSUME NEW a \in LiteralTerms, Number(a), a.value.family # "nan"
  PROVE  a.value.family = "number" /\ HasValue(a)
<1>1. a.datatype \in Numeric /\ HasValue(a) BY DEF Number, BothNumbers
<1>2. a.value.family \in {"none", "number", "nan"}
  BY <1>1, TermsAsRead DEF LiteralTerms, TermAssumption, IsLiteral
<1> QED BY <1>1, <1>2, LiteralIs

(* Two values of a family are equal when their numbers are.                *)
LEMMA EqualIs ==
  ASSUME NEW a \in LiteralTerms, NEW b \in LiteralTerms, Pair(a, b),
         a.value.family = b.value.family
  PROVE  /\ Above(a.value, b.value) <=> a.value.n > b.value.n
         /\ Equal(a.value, b.value) <=> a.value.n = b.value.n
BY LiteralIs DEF Above, Equal, Ordered, Pair

(* Languages are compared by their ranks, none being the lowest.           *)
LEMMA LanguagesAbove ==
  ASSUME NEW a \in LiteralTerms, NEW b \in LiteralTerms, a.language # b.language
  PROVE  /\ LanguageAbove(a, b) <=> LanguageRank(a) > LanguageRank(b)
         /\ LanguageRank(a) # LanguageRank(b)
<1>1. LanguageRank(a) \in Nat /\ LanguageRank(b) \in Nat BY LiteralIs
<1>2. CASE a.language = Unset
  <2>1. b.language # Unset /\ NameOrder[b.language] \in Nat BY <1>2, LiteralIs
  <2> QED BY <1>2, <2>1 DEF LanguageAbove, LanguageRank
<1>3. CASE a.language # Unset /\ b.language = Unset
  <2>1. NameOrder[a.language] \in Nat BY <1>3, LiteralIs
  <2> QED BY <1>3, <2>1 DEF LanguageAbove, LanguageRank
<1>4. CASE a.language # Unset /\ b.language # Unset
  <2>1. /\ NameOrder[a.language] \in Nat /\ NameOrder[b.language] \in Nat
        /\ a.language \in KnownName /\ b.language \in KnownName
    BY <1>4, LiteralIs
  <2>2. NameOrder[a.language] # NameOrder[b.language]
    BY <2>1, TermsAsRead DEF NameAssumption
  <2> QED BY <1>4, <2>1, <2>2 DEF LanguageAbove, LanguageRank
<1> QED BY <1>2, <1>3, <1>4

(* What the comparisons of two literals come to.                           *)
ComparedAs(a, b) ==
  /\ LiteralLt(a, b) <=> Below(a, b)
  /\ LiteralEq(a, b) <=> ~Below(a, b) /\ ~Below(b, a)
  /\ LiteralGt(a, b) => ~Below(a, b)
  /\ ~(Below(a, b) /\ Below(b, a))

(* The comparisons of two such literals come to Below.                     *)
LEMMA LiteralsCompare ==
  ASSUME NEW a \in LiteralTerms, NEW b \in LiteralTerms, Pair(a, b), Pair(b, a)
  PROVE  ComparedAs(a, b)
<1>0. IsLiteral(a) /\ IsLiteral(b) BY DEF LiteralTerms
<1>1. LiteralLt(a, b) <=> IF ~LiteralGt(a, b) /\ EqRaises(a, b) THEN LiteralGt(b, a)
                          ELSE ~LiteralGt(a, b) /\ ~LiteralEq(a, b)
  BY <1>0 DEF LiteralLt, Gt
<1>2. /\ a.text \in Nat /\ b.text \in Nat /\ a.value.n \in Nat /\ b.value.n \in Nat
      /\ NameOrder[TypeOf(a)] \in Nat /\ NameOrder[TypeOf(b)] \in Nat
      /\ LanguageRank(a) \in Nat /\ LanguageRank(b) \in Nat
  BY LiteralIs
<1>3. BothNumbers(a, b) <=> BothNumbers(b, a) BY NumbersAre
<1>4. CASE BothNumbers(a, b)
  <2>1. a.value.family = b.value.family BY <1>4, NumbersAre, NumberIs DEF Pair
  <2>2. Above(a.value, b.value) <=> a.value.n > b.value.n BY <2>1, EqualIs
  <2>3. Equal(a.value, b.value) <=> a.value.n = b.value.n BY <2>1, EqualIs
  <2>4. ~EqRaises(a, b) BY <1>4 DEF EqRaises
  <2>5. LiteralGt(a, b) <=> a.value.n > b.value.n BY <1>4, <2>2 DEF LiteralGt
  <2>6. LiteralEq(a, b) <=> a.value.n = b.value.n BY <1>4, <2>3 DEF LiteralEq
  <2>7. Below(a, b) <=> a.value.n < b.value.n BY <1>4 DEF Below
  <2>8. Below(b, a) <=> b.value.n < a.value.n BY <1>3, <1>4 DEF Below
  <2> QED BY <1>1, <1>2, <2>4, <2>5, <2>6, <2>7, <2>8 DEF ComparedAs
<1>5. CASE ~BothNumbers(a, b) /\ TypeOf(a) # TypeOf(b)
  <2>1. ~EqRaises(a, b) /\ ~LiteralEq(a, b) BY <1>5 DEF EqRaises, LiteralEq
  <2>2. LiteralGt(a, b) <=> NameOrder[TypeOf(a)] > NameOrder[TypeOf(b)] BY <1>5 DEF LiteralGt
  <2>3. NameOrder[TypeOf(a)] # NameOrder[TypeOf(b)]
    BY <1>5, LiteralIs, TermsAsRead DEF NameAssumption
  <2>4. Below(a, b) <=> NameOrder[TypeOf(a)] < NameOrder[TypeOf(b)] BY <1>5 DEF Below
  <2>5. Below(b, a) <=> NameOrder[TypeOf(b)] < NameOrder[TypeOf(a)] BY <1>3, <1>5 DEF Below
  <2> QED BY <1>1, <1>2, <2>1, <2>2, <2>3, <2>4, <2>5 DEF ComparedAs
<1>6. CASE ~BothNumbers(a, b) /\ TypeOf(a) = TypeOf(b) /\ a.language # b.language
  <2>1. Lower[a.language] # Lower[b.language] BY <1>6 DEF Pair
  <2>2. ~EqRaises(a, b) /\ ~LiteralEq(a, b) BY <1>6, <2>1 DEF EqRaises, LiteralEq
  <2>3. /\ LanguageAbove(a, b) <=> LanguageRank(a) > LanguageRank(b)
        /\ LanguageRank(a) # LanguageRank(b)
    BY <1>6, LanguagesAbove
  <2>4. LiteralGt(a, b) <=> LanguageRank(a) > LanguageRank(b) BY <1>6, <2>3 DEF LiteralGt
  <2>5. Below(a, b) <=> LanguageRank(a) < LanguageRank(b) BY <1>6 DEF Below
  <2>6. Below(b, a) <=> LanguageRank(b) < LanguageRank(a) BY <1>3, <1>6 DEF Below
  <2> QED BY <1>1, <1>2, <2>2, <2>3, <2>4, <2>5, <2>6 DEF ComparedAs
<1>7. CASE ~BothNumbers(a, b) /\ TypeOf(a) = TypeOf(b) /\ a.language = b.language
  <2>1. a.value.family = b.value.family /\ (HasValue(a) <=> HasValue(b))
    BY <1>7, LiteralIs DEF Pair
  <2>2. Below(a, b) <=> Measure(a) < Measure(b) BY <1>7 DEF Below
  <2>3. Below(b, a) <=> Measure(b) < Measure(a) BY <1>3, <1>7 DEF Below
  <2>4. CASE HasValue(a)
    <3>1. HasValue(b) /\ Comparable(a, b) BY <2>1, <2>4 DEF Comparable
    <3>2. Above(a.value, b.value) <=> a.value.n > b.value.n BY <2>1, EqualIs
    <3>3. Equal(a.value, b.value) <=> a.value.n = b.value.n BY <2>1, EqualIs
    <3>4. LiteralGt(a, b) <=> a.value.n > b.value.n BY <1>7, <3>1, <3>2 DEF LiteralGt
    <3>5. ~EqRaises(a, b) BY <2>4, <3>1 DEF EqRaises
    <3>6. LiteralEq(a, b) <=> a.value.n = b.value.n
      <4>1. CASE TypeOf(a) = "string"
        <5>1. a.value.n = a.text /\ b.value.n = b.text BY <1>7, <2>4, <3>1, <4>1, LiteralIs
        <5> QED BY <1>7, <4>1, <5>1 DEF LiteralEq
      <4>2. CASE TypeOf(a) # "string" BY <1>7, <2>4, <3>1, <3>3, <4>2 DEF LiteralEq
      <4> QED BY <4>1, <4>2
    <3>7. Measure(a) = a.value.n /\ Measure(b) = b.value.n BY <2>4, <3>1 DEF Measure
    <3> QED BY <1>1, <1>2, <2>2, <2>3, <3>4, <3>5, <3>6, <3>7 DEF ComparedAs
  <2>5. CASE ~HasValue(a)
    <3>1. ~HasValue(b) /\ ~Comparable(a, b) /\ ~Comparable(b, a)
      BY <2>1, <2>5 DEF Comparable
    <3>2. LiteralGt(a, b) <=> IF a.text # b.text THEN a.text > b.text
                              ELSE a.datatype # Unset /\ b.datatype = Unset
      BY <1>7, <3>1 DEF LiteralGt
    <3>3. LiteralGt(b, a) <=> IF b.text # a.text THEN b.text > a.text
                              ELSE b.datatype # Unset /\ a.datatype = Unset
      BY <1>3, <1>7, <3>1 DEF LiteralGt
    <3>4. LiteralEq(a, b) <=> a.text = b.text BY <1>7, <2>5, <3>1 DEF LiteralEq
    <3>5. EqRaises(a, b) => a.text # b.text BY DEF EqRaises
    <3>6. Measure(a) = a.text /\ Measure(b) = b.text BY <2>5, <3>1 DEF Measure
    <3> QED BY <1>1, <1>2, <2>2, <2>3, <3>2, <3>3, <3>4, <3>5, <3>6 DEF ComparedAs
  <2> QED BY <2>4, <2>5
<1> QED BY <1>4, <1>5, <1>6, <1>7

(* Types and languages are told apart by their ranks.                      *)
LEMMA RanksAre ==
  ASSUME NEW a \in LiteralTerms, NEW b \in LiteralTerms
  PROVE  /\ TypeOf(a) = TypeOf(b) <=> NameOrder[TypeOf(a)] = NameOrder[TypeOf(b)]
         /\ a.language = b.language <=> LanguageRank(a) = LanguageRank(b)
<1>1. TypeOf(a) = TypeOf(b) <=> NameOrder[TypeOf(a)] = NameOrder[TypeOf(b)]
  BY LiteralIs, TermsAsRead DEF NameAssumption
<1>2. a.language = b.language => LanguageRank(a) = LanguageRank(b) BY DEF LanguageRank
<1> QED BY <1>1, <1>2, LanguagesAbove

BelowByRank(a, b) ==
  \/ Number(a) /\ Number(b) /\ a.value.n < b.value.n
  \/ /\ ~(Number(a) /\ Number(b))
     /\ \/ NameOrder[TypeOf(a)] < NameOrder[TypeOf(b)]
        \/ /\ NameOrder[TypeOf(a)] = NameOrder[TypeOf(b)]
           /\ \/ LanguageRank(a) < LanguageRank(b)
              \/ LanguageRank(a) = LanguageRank(b) /\ Measure(a) < Measure(b)

(* Below, with languages and measures as numbers.                          *)
LEMMA BelowIs ==
  ASSUME NEW a \in LiteralTerms, NEW b \in LiteralTerms
  PROVE  Below(a, b) <=> BelowByRank(a, b)
<1>1. BothNumbers(a, b) <=> Number(a) /\ Number(b) BY NumbersAre
<1>2. /\ TypeOf(a) = TypeOf(b) <=> NameOrder[TypeOf(a)] = NameOrder[TypeOf(b)]
      /\ a.language = b.language <=> LanguageRank(a) = LanguageRank(b)
  BY RanksAre
<1>3. /\ NameOrder[TypeOf(a)] \in Nat /\ NameOrder[TypeOf(b)] \in Nat
      /\ LanguageRank(a) \in Nat /\ LanguageRank(b) \in Nat
  BY LiteralIs
<1>4. CASE Number(a) /\ Number(b) BY <1>1, <1>4 DEF Below, BelowByRank
<1>5. CASE ~(Number(a) /\ Number(b)) BY <1>1, <1>2, <1>3, <1>5 DEF Below, BelowByRank
<1> QED BY <1>4, <1>5

(* Names do not come between those of numbers, but for names of numbers.   *)
Apart(a, d, b) ==
  Number(a) /\ Number(b) /\ ~Number(d) =>
    \/ /\ NameOrder[TypeOf(d)] < NameOrder[TypeOf(a)]
       /\ NameOrder[TypeOf(d)] < NameOrder[TypeOf(b)]
    \/ /\ NameOrder[TypeOf(d)] > NameOrder[TypeOf(a)]
       /\ NameOrder[TypeOf(d)] > NameOrder[TypeOf(b)]

(* In a set that can be sorted no name is between those of two numbers.    *)
LEMMA SortableApart ==
  ASSUME NEW S, Sortable(S), NEW a \in S, NEW d \in S, NEW b \in S,
         a \in LiteralTerms, b \in LiteralTerms, d \in LiteralTerms
  PROVE  Apart(a, d, b)
<1> DEFINE L == {x \in S : IsLiteral(x)}
<1>1. a \in L /\ b \in L /\ d \in L BY DEF LiteralTerms
<1>2. \A x, y \in L : Number(x) /\ Number(y) => \A e \in L : NamedBetween(x, e, y) => Number(e)
  BY DEF Sortable
<1>3. Number(a) /\ Number(b) /\ ~Number(d) => ~NamedBetween(a, d, b) /\ ~NamedBetween(b, d, a)
  BY <1>1, <1>2
<1>4. /\ NameOrder[TypeOf(a)] \in Nat /\ NameOrder[TypeOf(b)] \in Nat
      /\ NameOrder[TypeOf(d)] \in Nat
  BY LiteralIs
<1> QED BY <1>3, <1>4 DEF Apart, NamedBetween

(* Below is a chain.                                                       *)
LEMMA BelowChains ==
  ASSUME NEW a \in LiteralTerms, NEW b \in LiteralTerms, NEW c \in LiteralTerms,
         Pair(a, b), Pair(b, c), Pair(a, c), Apart(a, c, b), Apart(a, b, c), Apart(b, a, c),
         Below(a, b), ~Below(c, b)
  PROVE  Below(a, c)
<1> DEFINE N(x) == Number(x)
<1> DEFINE T(x) == NameOrder[TypeOf(x)]
<1> DEFINE R(x) == LanguageRank(x)
<1> DEFINE M(x) == Measure(x)
<1>1. BelowByRank(a, b) /\ ~BelowByRank(c, b) BY BelowIs
<1>2. /\ T(a) \in Nat /\ T(b) \in Nat /\ T(c) \in Nat
      /\ R(a) \in Nat /\ R(b) \in Nat /\ R(c) \in Nat
      /\ M(a) \in Nat /\ M(b) \in Nat /\ M(c) \in Nat
      /\ a.value.n \in Nat /\ b.value.n \in Nat /\ c.value.n \in Nat
  BY LiteralIs
<1>3. /\ T(a) = T(b) => (N(a) <=> N(b))
      /\ T(b) = T(c) => (N(b) <=> N(c))
      /\ T(a) = T(c) => (N(a) <=> N(c))
  BY RanksAre DEF Pair
<1>4. /\ N(a) /\ N(b) /\ ~N(c) => (T(c) < T(a) /\ T(c) < T(b)) \/ (T(c) > T(a) /\ T(c) > T(b))
      /\ N(a) /\ N(c) /\ ~N(b) => (T(b) < T(a) /\ T(b) < T(c)) \/ (T(b) > T(a) /\ T(b) > T(c))
      /\ N(b) /\ N(c) /\ ~N(a) => (T(a) < T(b) /\ T(a) < T(c)) \/ (T(a) > T(b) /\ T(a) > T(c))
  BY DEF Apart
<1>5. /\ N(a) /\ N(b) => a.value.n < b.value.n
      /\ ~(N(a) /\ N(b)) => \/ T(a) < T(b)
                            \/ T(a) = T(b) /\ (R(a) < R(b) \/ (R(a) = R(b) /\ M(a) < M(b)))
  BY <1>1 DEF BelowByRank
<1>6. /\ N(c) /\ N(b) => ~(c.value.n < b.value.n)
      /\ ~(N(c) /\ N(b)) =>
           ~(\/ T(c) < T(b)
             \/ T(c) = T(b) /\ (R(c) < R(b) \/ (R(c) = R(b) /\ M(c) < M(b))))
  BY <1>1 DEF BelowByRank
<1> HIDE DEF N, T, R, M
<1>7. /\ N(a) /\ N(c) => a.value.n < c.value.n
      /\ ~(N(a) /\ N(c)) => \/ T(a) < T(c)
                            \/ T(a) = T(c) /\ (R(a) < R(c) \/ (R(a) = R(c) /\ M(a) < M(c)))
  <2>1. CASE N(a) /\ N(b) /\ N(c) BY <2>1, <1>2, <1>5, <1>6
  <2>2. CASE N(a) /\ N(b) /\ ~N(c) BY <2>2, <1>2, <1>3, <1>4, <1>6
  <2>3. CASE N(a) /\ ~N(b) /\ N(c) BY <2>3, <1>2, <1>3, <1>4, <1>5, <1>6
  <2>4. CASE N(a) /\ ~N(b) /\ ~N(c) BY <2>4, <1>2, <1>3, <1>5, <1>6
  <2>5. CASE ~N(a) /\ N(b) /\ N(c) BY <2>5, <1>2, <1>3, <1>4, <1>5
  <2>6. CASE ~N(a) /\ N(b) /\ ~N(c) BY <2>6, <1>2, <1>3, <1>5, <1>6
  <2>7. CASE ~N(a) /\ ~N(b) /\ N(c) BY <2>7, <1>2, <1>3, <1>5, <1>6
  <2>8. CASE ~N(a) /\ ~N(b) /\ ~N(c) BY <2>8, <1>2, <1>5, <1>6
  <2> QED BY <2>1, <2>2, <2>3, <2>4, <2>5, <2>6, <2>7, <2>8
<1>8. BelowByRank(a, c) BY <1>7 DEF BelowByRank, N, T, R, M
<1> QED BY <1>8, BelowIs
-----------------------------------------------------------------------------
(* Terms of any two kinds. *)

(* Kinds and texts of terms; literals are one of the kinds.                *)
LEMMA TermIs ==
  ASSUME NEW a \in Term
  PROVE  /\ a.kind \in {"BNode", "Variable", "URIRef", "Literal"} /\ a.text \in Nat
         /\ KindOrder[a.kind] \in Nat
         /\ IsLiteral(a) <=> a \in LiteralTerms
         /\ IsLiteral(a) <=> a.kind = "Literal"
<1>1. a.kind \in {"BNode", "Variable", "URIRef", "Literal"} /\ a.text \in Nat
  BY TermsAsRead DEF TermAssumption, IsTerm
<1>2. KindOrder[a.kind] \in Nat BY <1>1 DEF KindOrder
<1> QED BY <1>1, <1>2 DEF IsLiteral, LiteralTerms

(* Two kinds have different numbers.                                       *)
LEMMA KindsAre ==
  ASSUME NEW a \in Term, NEW b \in Term, a.kind # b.kind
  PROVE  KindOrder[a.kind] # KindOrder[b.kind]
BY TermIs DEF KindOrder

(* Two literals are ordered, since Below orders them,                      *)
LEMMA OrderedLiterals ==
  ASSUME NEW a \in LiteralTerms, NEW b \in LiteralTerms, Sortable({a, b})
  PROVE  OrderedPair(a, b)
<1>0. IsLiteral(a) /\ IsLiteral(b) BY DEF LiteralTerms
<1>1. Pair(a, b) /\ Pair(b, a) BY SortablePair
<1>2. ComparedAs(a, b) /\ ComparedAs(b, a) BY <1>1, LiteralsCompare
<1>3. /\ Lt(a, b) <=> Below(a, b)
      /\ Lt(b, a) <=> Below(b, a)
      /\ Gt(a, b) => ~Below(a, b)
      /\ EqualByValue(a, b) <=> ~Below(a, b) /\ ~Below(b, a)
  BY <1>0, <1>2 DEF ComparedAs, Lt, Gt, EqualByValue
<1>4. ASSUME Same(a, b) PROVE ~Below(a, b) /\ ~Below(b, a)
  <2>1. a.text = b.text /\ a.datatype = b.datatype /\ a.language = b.language
    BY <1>0, <1>1, <1>4 DEF Same, Pair
  <2>2. a.value = b.value /\ a.ill = b.ill
    BY <1>0, <2>1, TermsAsRead DEF TermAssumption, LiteralTerms, IsLiteral
  <2>3. /\ Number(a) <=> Number(b)
        /\ TypeOf(a) = TypeOf(b) /\ LanguageRank(a) = LanguageRank(b) /\ Measure(a) = Measure(b)
    BY <2>1, <2>2 DEF Number, BothNumbers, HasValue, TypeOf, LanguageRank, Measure
  <2>4. /\ a.value.n \in Nat /\ Measure(a) \in Nat /\ LanguageRank(a) \in Nat
        /\ NameOrder[TypeOf(a)] \in Nat
    BY LiteralIs
  <2>5. ~BelowByRank(a, b) /\ ~BelowByRank(b, a) BY <2>2, <2>3, <2>4 DEF BelowByRank
  <2> QED BY <2>5, BelowIs
<1>5. ~(Below(a, b) /\ Below(b, a)) BY <1>2 DEF ComparedAs
<1> QED BY <1>3, <1>4, <1>5 DEF OrderedPair, Tied

(* and so are any two terms,                                               *)
LEMMA OrderedTerms ==
  ASSUME NEW a \in Term, NEW b \in Term, Sortable({a, b})
  PROVE  OrderedPair(a, b)
<1>1. CASE IsLiteral(a) /\ IsLiteral(b) BY <1>1, TermIs, OrderedLiterals
<1>2. CASE ~(IsLiteral(a) /\ IsLiteral(b)) /\ a.kind = b.kind
  <2>1. ~IsLiteral(a) /\ ~IsLiteral(b) BY <1>2 DEF IsLiteral
  <2>2. a.text \in Nat /\ b.text \in Nat BY TermIs
  <2>3. /\ Lt(a, b) <=> a.text < b.text
        /\ Lt(b, a) <=> b.text < a.text
        /\ Gt(a, b) <=> a.text > b.text
        /\ EqualByValue(a, b) <=> a.text = b.text
        /\ Same(a, b) <=> a.text = b.text
    BY <1>2, <2>1 DEF Lt, Gt, EqualByValue, Same
  <2> QED BY <2>2, <2>3 DEF OrderedPair, Tied
<1>3. CASE a.kind # b.kind
  <2>1. ~(IsLiteral(a) /\ IsLiteral(b)) BY <1>3 DEF IsLiteral
  <2>2. /\ KindOrder[a.kind] \in Nat /\ KindOrder[b.kind] \in Nat
        /\ KindOrder[a.kind] # KindOrder[b.kind]
    BY <1>3, TermIs, KindsAre
  <2>3. /\ Lt(a, b) <=> KindOrder[a.kind] < KindOrder[b.kind]
        /\ Lt(b, a) <=> KindOrder[b.kind] < KindOrder[a.kind]
        /\ Gt(a, b) <=> KindOrder[a.kind] > KindOrder[b.kind]
        /\ ~Same(a, b)
    BY <1>3, <2>1 DEF Lt, Gt, Same
  <2> QED BY <2>2, <2>3 DEF OrderedPair, Tied
<1> QED BY <1>1, <1>2, <1>3

(* and any three.                                                          *)
LEMMA ChainsOfTerms ==
  ASSUME NEW a \in Term, NEW b \in Term, NEW c \in Term,
         Sortable({a, b, c}), Lt(a, b), ~Lt(c, b)
  PROVE  Lt(a, c)
<1>1. CASE IsLiteral(a) /\ IsLiteral(b) /\ IsLiteral(c)
  <2>1. a \in LiteralTerms /\ b \in LiteralTerms /\ c \in LiteralTerms BY <1>1, TermIs
  <2>2. /\ Pair(a, b) /\ Pair(b, a) /\ Pair(b, c) /\ Pair(c, b) /\ Pair(a, c) /\ Pair(c, a)
    BY <2>1, SortablePair
  <2>3. Apart(a, c, b) /\ Apart(a, b, c) /\ Apart(b, a, c) BY <2>1, SortableApart
  <2>4. ComparedAs(a, b) /\ ComparedAs(c, b) /\ ComparedAs(a, c)
    BY <2>1, <2>2, LiteralsCompare
  <2>5. Below(a, b) /\ ~Below(c, b) BY <1>1, <2>4 DEF ComparedAs, Lt
  <2>6. Below(a, c) BY <2>1, <2>2, <2>3, <2>5, BelowChains
  <2> QED BY <1>1, <2>4, <2>6 DEF ComparedAs, Lt
<1>2. CASE ~(IsLiteral(a) /\ IsLiteral(b) /\ IsLiteral(c))
  <2>1. /\ a.text \in Nat /\ b.text \in Nat /\ c.text \in Nat
        /\ KindOrder[a.kind] \in Nat /\ KindOrder[b.kind] \in Nat /\ KindOrder[c.kind] \in Nat
    BY TermIs
  <2>2. CASE a.kind = b.kind /\ b.kind = c.kind
    <3>1. ~IsLiteral(a) /\ ~IsLiteral(b) /\ ~IsLiteral(c) BY <1>2, <2>2 DEF IsLiteral
    <3> QED BY <2>1, <2>2, <3>1 DEF Lt
  <2>3. CASE a.kind = b.kind /\ b.kind # c.kind
    <3>1. ~(IsLiteral(c) /\ IsLiteral(b)) /\ ~(IsLiteral(a) /\ IsLiteral(c))
      BY <2>3 DEF IsLiteral
    <3>2. KindOrder[b.kind] # KindOrder[c.kind] BY <2>3, KindsAre
    <3>3. ~(KindOrder[c.kind] < KindOrder[b.kind]) BY <2>3, <3>1 DEF Lt
    <3> QED BY <2>1, <2>3, <3>1, <3>2, <3>3 DEF Lt
  <2>4. CASE a.kind # b.kind
    <3>1. ~(IsLiteral(a) /\ IsLiteral(b)) BY <2>4 DEF IsLiteral
    <3>2. KindOrder[a.kind] < KindOrder[b.kind] BY <2>4, <3>1 DEF Lt
    <3>3. ~(KindOrder[c.kind] < KindOrder[b.kind])
      <4>1. CASE c.kind = b.kind BY <2>1, <4>1
      <4>2. CASE c.kind # b.kind
        <5>1. ~(IsLiteral(c) /\ IsLiteral(b)) BY <4>2 DEF IsLiteral
        <5> QED BY <4>2, <5>1 DEF Lt
      <4> QED BY <4>1, <4>2
    <3>4. KindOrder[a.kind] < KindOrder[c.kind] BY <2>1, <3>2, <3>3
    <3>5. a.kind # c.kind BY <2>1, <3>4
    <3>6. ~(IsLiteral(a) /\ IsLiteral(c)) BY <3>5 DEF IsLiteral
    <3> QED BY <3>4, <3>5, <3>6 DEF Lt
  <2> QED BY <2>2, <2>3, <2>4
<1> QED BY <1>1, <1>2

(* Terms, whatever their number, their names and their values, are sorted  *)
(* by one order where the rules of comparison are not mixed, and a term    *)
(* has one hash: sorted(), SPARQL's ORDER BY and dictionaries of terms do  *)
(* not depend on the order in which terms come.                            *)
LEMMA TermsKeepOrder == TermsInOrder
<1>1. ASSUME NEW a \in Term, NEW b \in Term, Same(a, b) PROVE HashOf(a) = HashOf(b)
  BY <1>1 DEF Same, HashOf, IsLiteral
<1>2. ASSUME NEW a \in Term, NEW b \in Term, Sortable({a, b}) PROVE OrderedPair(a, b)
  BY <1>2, OrderedTerms
<1>3. ASSUME NEW a \in Term, NEW b \in Term, NEW c \in Term,
             Sortable({a, b, c}), Lt(a, b), ~Lt(c, b)
      PROVE  Lt(a, c)
  BY <1>3, ChainsOfTerms
<1> QED BY <1>1, <1>2, <1>3 DEF TermsInOrder

(* So a program that sorts them gets the one order, in any state.          *)
THEOREM TermsAlwaysOrdered == BatchSpec => []TermsOrdered
<1>1. TermsOrdered BY TermsKeepOrder DEF TermsOrdered
<1> QED BY <1>1, PTL

-----------------------------------------------------------------------------
-----------------------------------------------------------------------------
(* What is present of some values. *)

Yields(f, values, n) ==
  f = [k \in 0..n |-> IF k = 0 THEN <<>>
                      ELSE IF values[k] = None THEN f[k - 1] ELSE Append(f[k - 1], values[k])]

LEMMA PresentIs ==
  ASSUME NEW values
  PROVE  Present(values) = (CHOOSE f : Yields(f, values, Len(values)))[Len(values)]
BY DEF Present, Yields

LEMMA YieldsExist ==
  ASSUME NEW values, NEW n \in Nat
  PROVE  \E f : Yields(f, values, n)
<1> DEFINE N == {m \in Nat : \E f : Yields(f, values, m)}
<1>1. 0 \in N
  <2>1. Yields([k \in 0..0 |-> <<>>], values, 0) BY DEF Yields
  <2> QED BY <2>1
<1>2. ASSUME NEW m \in N PROVE m + 1 \in N
  <2>1. PICK f : Yields(f, values, m) OBVIOUS
  <2> DEFINE last == IF values[m + 1] = None THEN f[m] ELSE Append(f[m], values[m + 1])
  <2> DEFINE e == [k \in 0..(m + 1) |-> IF k = m + 1 THEN last ELSE f[k]]
  <2>2. \A k \in 0..m : e[k] = f[k] OBVIOUS
  <2>3. \A k \in 0..m : f[k] = IF k = 0 THEN <<>> ELSE IF values[k] = None THEN f[k - 1]
                               ELSE Append(f[k - 1], values[k])
    BY <2>1 DEF Yields
  <2>4. e[m + 1] = IF values[m + 1] = None THEN e[m] ELSE Append(e[m], values[m + 1])
    BY <2>2
  <2>5. ASSUME NEW k \in 0..(m + 1)
        PROVE  e[k] = IF k = 0 THEN <<>> ELSE IF values[k] = None THEN e[k - 1]
                      ELSE Append(e[k - 1], values[k])
    <3>1. CASE k = m + 1 BY <3>1, <2>4
    <3>2. CASE k \in 0..m
      <4>1. k # 0 => k - 1 \in 0..m BY <3>2
      <4> HIDE DEF e
      <4> QED BY <3>2, <4>1, <2>2, <2>3
    <3> QED BY <3>1, <3>2
  <2>6. DOMAIN e = 0..(m + 1) /\ e = [k \in 0..(m + 1) |-> e[k]] OBVIOUS
  <2> HIDE DEF e
  <2>7. Yields(e, values, m + 1) BY <2>5, <2>6 DEF Yields
  <2> QED BY <2>7
<1> HIDE DEF N
<1>3. N \subseteq Nat BY DEF N
<1>4. N = Nat BY <1>1, <1>2, <1>3, EveryNumber
<1> QED BY <1>4 DEF N

(* Values that agree as far as they go yield the same as far as that. *)
LEMMA YieldsAgree ==
  ASSUME NEW s, NEW t, NEW m \in Nat, NEW n \in Nat, NEW f, NEW g,
         Yields(f, s, m), Yields(g, t, n), m <= n, \A k \in 1..m : s[k] = t[k]
  PROVE  \A k \in 0..m : f[k] = g[k]
<1> DEFINE N == {k \in Nat : k <= m => f[k] = g[k]}
<1>1. \A k \in 0..m : f[k] = IF k = 0 THEN <<>> ELSE IF s[k] = None THEN f[k - 1]
                             ELSE Append(f[k - 1], s[k])
  BY DEF Yields
<1>2. \A k \in 0..n : g[k] = IF k = 0 THEN <<>> ELSE IF t[k] = None THEN g[k - 1]
                             ELSE Append(g[k - 1], t[k])
  BY DEF Yields
<1>3. 0 \in N BY <1>1, <1>2
<1>4. ASSUME NEW k \in N PROVE k + 1 \in N
  <2> SUFFICES ASSUME k + 1 <= m PROVE f[k + 1] = g[k + 1] OBVIOUS
  <2>1. k \in Nat /\ f[k] = g[k] /\ k + 1 \in 1..m /\ k + 1 \in 0..m /\ k + 1 \in 0..n /\ k + 1 # 0
        /\ k + 1 - 1 = k
    OBVIOUS
  <2>2. f[k + 1] = IF s[k + 1] = None THEN f[k] ELSE Append(f[k], s[k + 1]) BY <1>1, <2>1
  <2>3. g[k + 1] = IF t[k + 1] = None THEN g[k] ELSE Append(g[k], t[k + 1]) BY <1>2, <2>1
  <2> QED BY <2>1, <2>2, <2>3
<1> HIDE DEF N
<1>5. N \subseteq Nat BY DEF N
<1>6. N = Nat BY <1>3, <1>4, <1>5, EveryNumber
<1> QED BY <1>6 DEF N

LEMMA PresentStep ==
  ASSUME NEW U, NEW s \in Seq(U), NEW x \in U
  PROVE  /\ Present(<<>>) = <<>>
         /\ Present(Append(s, x)) = IF x = None THEN Present(s) ELSE Append(Present(s), x)
<1> DEFINE n == Len(s)
<1> DEFINE t == Append(s, x)
<1> DEFINE f == CHOOSE f : Yields(f, s, n)
<1> DEFINE g == CHOOSE g : Yields(g, t, n + 1)
<1> DEFINE e == CHOOSE e : Yields(e, <<>>, 0)
<1>1. n \in Nat /\ Len(t) = n + 1 /\ t[n + 1] = x /\ \A k \in 1..n : s[k] = t[k] OBVIOUS
<1>2. Yields(f, s, n) /\ Yields(g, t, n + 1) /\ Yields(e, <<>>, 0)
  <2>1. n + 1 \in Nat /\ 0 \in Nat BY <1>1
  <2>2. \E h : Yields(h, s, n) BY <1>1, YieldsExist, Zenon
  <2>3. \E h : Yields(h, t, n + 1) BY <2>1, YieldsExist, Zenon
  <2>4. \E h : Yields(h, <<>>, 0) BY <2>1, YieldsExist, Zenon
  <2> QED BY <2>2, <2>3, <2>4
<1>3. Present(s) = f[n] /\ Present(t) = g[n + 1] /\ Present(<<>>) = e[0]
  <2>1. Present(s) = f[n] BY PresentIs
  <2>2. Present(t) = g[n + 1] BY <1>1, PresentIs
  <2>3. Present(<<>>) = e[0] BY PresentIs
  <2> QED BY <2>1, <2>2, <2>3
<1> HIDE DEF f, g, e, t
<1>4. e[0] = <<>> BY <1>2 DEF Yields
<1> HIDE DEF n
<1>5. f[n] = g[n] BY <1>1, <1>2, YieldsAgree
<1>6. g[n + 1] = IF x = None THEN g[n] ELSE Append(g[n], x)
  <2>1. n + 1 \in 0..(n + 1) /\ n + 1 # 0 /\ n + 1 - 1 = n BY <1>1
  <2>2. \A k \in 0..(n + 1) : g[k] = IF k = 0 THEN <<>> ELSE IF t[k] = None THEN g[k - 1]
                                     ELSE Append(g[k - 1], t[k])
    BY <1>2 DEF Yields
  <2>3. g[n + 1] = IF t[n + 1] = None THEN g[n] ELSE Append(g[n], t[n + 1])
    BY <1>1, <2>1, <2>2
  <2> QED BY <2>3, <1>1
<1> QED BY <1>3, <1>4, <1>5, <1>6 DEF t
LEMMA PresentNothing == Present(<<>>) = <<>>
<1>1. Yields([k \in 0..0 |-> <<>>], <<>>, 0) BY DEF Yields
<1>2. \A f : Yields(f, <<>>, 0) => f[0] = <<>> BY DEF Yields
<1>3. Present(<<>>) = (CHOOSE f : Yields(f, <<>>, 0))[0] BY PresentIs
<1>4. Yields(CHOOSE f : Yields(f, <<>>, 0), <<>>, 0) BY <1>1
<1> QED BY <1>2, <1>3, <1>4

(* So it is one value after the other, and of two lists first the one. *)
LEMMA PresentType ==
  ASSUME NEW U
  PROVE  \A s \in Seq(U) : Present(s) \in Seq(U \ {None}) /\ Len(Present(s)) <= Len(s)
<1> DEFINE S == {s \in Seq(U) : Present(s) \in Seq(U \ {None}) /\ Len(Present(s)) <= Len(s)}
<1>1. <<>> \in S
  <2>1. Present(<<>>) = <<>> BY PresentNothing
  <2>2. <<>> \in Seq(U \ {None}) /\ <<>> \in Seq(U) /\ Len(<<>>) <= Len(<<>>) OBVIOUS
  <2> QED BY <2>1, <2>2
<1>2. ASSUME NEW s \in Seq(U), NEW x \in U, s \in S PROVE Append(s, x) \in S
  <2>1. Present(Append(s, x)) = IF x = None THEN Present(s) ELSE Append(Present(s), x)
    BY PresentStep
  <2>2. Present(s) \in Seq(U \ {None}) /\ Len(Present(s)) <= Len(s) BY <1>2
  <2>3. Append(s, x) \in Seq(U) /\ Len(Append(s, x)) = Len(s) + 1 OBVIOUS
  <2>4. CASE x = None BY <2>1, <2>2, <2>3, <2>4
  <2>5. CASE x # None
    <3>1. Append(Present(s), x) \in Seq(U \ {None}) BY <2>2, <2>5
    <3>2. Len(Append(Present(s), x)) = Len(Present(s)) + 1 BY <2>2
    <3> QED BY <3>1, <3>2, <2>1, <2>2, <2>3, <2>5
  <2> QED BY <2>4, <2>5
<1> HIDE DEF S
<1>3. Seq(U) \subseteq S BY <1>1, <1>2, EveryList
<1> QED BY <1>3 DEF S

LEMMA PresentConcat ==
  ASSUME NEW U, NEW s \in Seq(U)
  PROVE  \A t \in Seq(U) : Present(s \o t) = Present(s) \o Present(t)
<1> DEFINE S == {t \in Seq(U) : Present(s \o t) = Present(s) \o Present(t)}
<1>0. Present(s) \in Seq(U) BY PresentType, SeqMonotonic
<1>1. <<>> \in S
  <2>1. Present(<<>>) = <<>> BY PresentNothing
  <2> QED BY <2>1, <1>0
<1>2. ASSUME NEW t \in Seq(U), NEW x \in U, t \in S PROVE Append(t, x) \in S
  <2>1. s \o Append(t, x) = Append(s \o t, x) /\ s \o t \in Seq(U) OBVIOUS
  <2>2. Present(s \o Append(t, x))
          = IF x = None THEN Present(s \o t) ELSE Append(Present(s \o t), x)
    BY <2>1, PresentStep
  <2>3. Present(Append(t, x)) = IF x = None THEN Present(t) ELSE Append(Present(t), x)
    BY PresentStep
  <2>4. Present(t) \in Seq(U) BY PresentType, SeqMonotonic
  <2>5. Append(Present(s) \o Present(t), x) = Present(s) \o Append(Present(t), x)
    <3>1. Present(s) \o Present(t) \in Seq(U) /\ <<x>> \in Seq(U)
      BY <1>0, <2>4, ConcatProperties
    <3>2. Append(Present(s) \o Present(t), x) = (Present(s) \o Present(t)) \o <<x>>
      BY <3>1, AppendIsConcat
    <3>3. Append(Present(t), x) = Present(t) \o <<x>> BY <2>4, AppendIsConcat
    <3> QED BY <1>0, <2>4, <3>1, <3>2, <3>3, ConcatAssociative
  <2>6. Present(s \o t) = Present(s) \o Present(t) BY <1>2
  <2>7. Present(s \o Append(t, x)) = Present(s) \o Present(Append(t, x))
    <3>1. CASE x = None BY <3>1, <2>2, <2>3, <2>6
    <3>2. CASE x # None BY <3>2, <2>2, <2>3, <2>5, <2>6
    <3> QED BY <3>1, <3>2
  <2> QED BY <2>7
<1> HIDE DEF S
<1>3. Seq(U) \subseteq S BY <1>1, <1>2, EveryList
<1> QED BY <1>3 DEF S

(* Nothing is left out when all are there, and only then nothing is left   *)
(* when none is.                                                           *)
LEMMA PresentAll ==
  ASSUME NEW U
  PROVE  \A s \in Seq(U) :
           /\ (\A k \in 1..Len(s) : s[k] # None) => Present(s) = s
           /\ Present(s) = <<>> <=> \A k \in 1..Len(s) : s[k] = None
<1> DEFINE A(s) == (\A k \in 1..Len(s) : s[k] # None) => Present(s) = s
<1> DEFINE B(s) == Present(s) = <<>> <=> \A k \in 1..Len(s) : s[k] = None
<1> DEFINE S == {s \in Seq(U) : A(s) /\ B(s)}
<1>1. <<>> \in S
  <2>1. Present(<<>>) = <<>> BY PresentNothing
  <2> QED BY <2>1
<1>2. ASSUME NEW s \in Seq(U), NEW x \in U, s \in S PROVE Append(s, x) \in S
  <2>1. Present(Append(s, x)) = IF x = None THEN Present(s) ELSE Append(Present(s), x)
    BY PresentStep
  <2>2. /\ Append(s, x) \in Seq(U) /\ Len(Append(s, x)) = Len(s) + 1
        /\ Append(s, x)[Len(s) + 1] = x /\ \A k \in 1..Len(s) : Append(s, x)[k] = s[k]
        /\ Len(s) \in Nat
    OBVIOUS
  <2>3. Present(s) \in Seq(U \ {None}) BY PresentType
  <2>4. Append(Present(s), x) # <<>> BY <2>3
  <2>5. (\A k \in 1..(Len(s) + 1) : Append(s, x)[k] # None)
           <=> x # None /\ \A k \in 1..Len(s) : s[k] # None
    BY <2>2
  <2>6. (\A k \in 1..(Len(s) + 1) : Append(s, x)[k] = None)
           <=> x = None /\ \A k \in 1..Len(s) : s[k] = None
    BY <2>2
  <2>7. A(Append(s, x)) BY <2>1, <2>2, <2>5, <1>2
  <2>8. B(Append(s, x)) BY <2>1, <2>2, <2>4, <2>6, <1>2
  <2> QED BY <2>2, <2>7, <2>8
<1> HIDE DEF S
<1>3. Seq(U) \subseteq S BY <1>1, <1>2, EveryList
<1> QED BY <1>3 DEF S

(* Graphs, by the objects of a subject and a predicate. *)
TriplesOnly(g) == IsFiniteSet(g) /\ \A t \in g : t = <<t[1], t[2], t[3]>>

With(g, s, p, o) == g \cup {<<s, p, o>>}

Only(v) == IF v = None THEN {} ELSE {v}

LEMMA Names ==
  /\ "first" # None /\ "rest" # None /\ "nil" # None /\ "first" # "rest"
  /\ None \notin Item /\ "nil" # List /\ "nil" \notin Cell /\ List # None /\ None \notin Cell
BY CellsAreNew DEF None

LEMMA ValueIs ==
  ASSUME NEW g, NEW s, NEW p, NEW v, Objects(g, s, p) = Only(v)
  PROVE  Value(g, s, p) = v
<1>1. CASE v = None BY <1>1 DEF Value, Only
<1>2. CASE v # None BY <1>2 DEF Value, Only
<1> QED BY <1>1, <1>2

LEMMA ObjectsAre ==
  ASSUME NEW g, TriplesOnly(g), NEW s, NEW p, s # None, p # None
  PROVE  /\ Objects(g, s, p) = {t[3] : t \in {u \in g : u[1] = s /\ u[2] = p}}
         /\ \A x : x \in Objects(g, s, p) <=> <<s, p, x>> \in g
<1>1. Objects(g, s, p) = {t[3] : t \in {u \in g : u[1] = s /\ u[2] = p}}
  BY DEF Objects, Triples, Matches
<1>2. ASSUME NEW t \in g, t[1] = s, t[2] = p PROVE <<s, p, t[3]>> \in g
  <2>1. t = <<t[1], t[2], t[3]>> BY DEF TriplesOnly
  <2> QED BY <1>2, <2>1
<1> QED BY <1>1, <1>2

LEMMA WithoutIs ==
  ASSUME NEW g, NEW s, NEW p, NEW a, NEW b, s # None, a # None, b # None
  PROVE  Objects(Without(g, s, p), a, b)
           = IF a = s /\ (p = None \/ p = b) THEN {} ELSE Objects(g, a, b)
BY DEF Objects, Without, Triples, Matches

LEMMA WithTriple ==
  ASSUME NEW g, NEW s, NEW p, NEW o, NEW a, NEW b, a # None, b # None
  PROVE  Objects(With(g, s, p, o), a, b)
           = IF a = s /\ b = p THEN Objects(g, a, b) \cup {o} ELSE Objects(g, a, b)
<1> DEFINE t == <<s, p, o>>
<1>1. t[1] = s /\ t[2] = p /\ t[3] = o OBVIOUS
<1>2. With(g, s, p, o) = g \cup {t} BY DEF With
<1> HIDE DEF t
<1>3. CASE a = s /\ b = p
  <2>1. \A u : u \in Triples(g \cup {t}, a, b, None) <=> u \in Triples(g, a, b, None) \/ u = t
    BY <1>1, <1>3 DEF Triples, Matches
  <2>2. Objects(g \cup {t}, a, b) = Objects(g, a, b) \cup {o} BY <1>1, <2>1 DEF Objects
  <2> QED BY <1>2, <1>3, <2>2
<1>4. CASE ~(a = s /\ b = p)
  <2>1. Triples(g \cup {t}, a, b, None) = Triples(g, a, b, None)
    BY <1>1, <1>4 DEF Triples, Matches
  <2>2. Objects(g \cup {t}, a, b) = Objects(g, a, b) BY <2>1 DEF Objects
  <2> QED BY <1>2, <1>4, <2>2
<1> QED BY <1>3, <1>4

LEMMA SetValueIs ==
  ASSUME NEW g, NEW s, NEW p, NEW o, NEW a, NEW b, s # None, p # None, a # None, b # None
  PROVE  Objects(SetValue(g, s, p, o), a, b) = IF a = s /\ b = p THEN {o} ELSE Objects(g, a, b)
<1>1. SetValue(g, s, p, o) = With(Without(g, s, p), s, p, o) BY DEF SetValue, With
<1>2. Objects(Without(g, s, p), a, b) = IF a = s /\ (p = None \/ p = b) THEN {} ELSE Objects(g, a, b)
  BY WithoutIs
<1> QED BY <1>1, <1>2, WithTriple

LEMMA TriplesStay ==
  ASSUME NEW g, TriplesOnly(g), NEW s, NEW p, NEW o
  PROVE  /\ TriplesOnly(Without(g, s, p))
         /\ TriplesOnly(With(g, s, p, o))
         /\ TriplesOnly(SetValue(g, s, p, o))
<1>1. ASSUME NEW h, TriplesOnly(h) PROVE TriplesOnly(h \cup {<<s, p, o>>})
  <2>1. IsFiniteSet(h \cup {<<s, p, o>>}) BY <1>1, FS_AddElement DEF TriplesOnly
  <2> QED BY <1>1, <2>1 DEF TriplesOnly
<1>2. TriplesOnly(Without(g, s, p))
  <2>1. Without(g, s, p) \subseteq g BY DEF Without
  <2>2. IsFiniteSet(Without(g, s, p)) BY <2>1, FS_Subset DEF TriplesOnly
  <2> QED BY <2>1, <2>2 DEF TriplesOnly
<1> QED BY <1>1, <1>2 DEF SetValue, With

-----------------------------------------------------------------------------
(* A list in a graph: its cells, what they hold, and whether it is ended   *)
(* by nil.  The rest of the graph does not matter.                         *)
Slot == Item \cup {None}

NextCell(cells, tail, i) ==
  IF i < Len(cells) THEN cells[i + 1] ELSE tail

LinksOf(g, cells, held, tail) ==
  \A i \in 1..Len(cells) :
    /\ Objects(g, cells[i], "first") = Only(held[i])
    /\ Objects(g, cells[i], "rest") = Only(NextCell(cells, tail, i))

IsChain(cells, held) ==
  /\ cells \in Seq(Cell \cup {List}) /\ Len(cells) >= 1 /\ cells[1] = List
  /\ \A i, j \in 1..Len(cells) : cells[i] = cells[j] => i = j
  /\ held \in Seq(Slot) /\ Len(held) = Len(cells)

ListIn(g, cells, held, tail) ==
  /\ TriplesOnly(g)
  /\ Objects(g, "nil", "first") = {} /\ Objects(g, "nil", "rest") = {}
  /\ IsChain(cells, held) /\ tail \in {None, "nil"}
  /\ LinksOf(g, cells, held, tail)

(* What the cells are followed by, and hold. *)
LEMMA CellIs ==
  ASSUME NEW cells, NEW held, IsChain(cells, held), NEW i \in 1..Len(cells)
  PROVE  cells[i] \in Cell \cup {List} /\ cells[i] # None /\ cells[i] # "nil" /\ held[i] \in Slot
BY CellsAreNew DEF IsChain

LEMMA LinkIs ==
  ASSUME NEW g, NEW cells, NEW held, NEW tail, ListIn(g, cells, held, tail),
         NEW i \in 1..Len(cells)
  PROVE  /\ Value(g, cells[i], "first") = held[i]
         /\ Value(g, cells[i], "rest") = NextCell(cells, tail, i)
         /\ Value(g, "nil", "first") = None /\ Value(g, "nil", "rest") = None
<1>1. Only(None) = {} BY DEF Only
<1>2. /\ Objects(g, cells[i], "first") = Only(held[i])
      /\ Objects(g, cells[i], "rest") = Only(NextCell(cells, tail, i))
      /\ Objects(g, "nil", "first") = Only(None) /\ Objects(g, "nil", "rest") = Only(None)
  BY <1>1 DEF ListIn, LinksOf
<1> QED BY <1>2, ValueIs

-----------------------------------------------------------------------------
(* The way to a cell, and the cells from one on. *)

Walked(g, list, f, k) ==
  f = [n \in 0..k |-> IF n = 0 THEN list
                      ELSE IF f[n - 1] = None THEN None ELSE Value(g, f[n - 1], "rest")]

LEMMA ContainerIs ==
  ASSUME NEW g, NEW cells, NEW held, NEW tail, ListIn(g, cells, held, tail),
         NEW i \in 1..Len(cells), NEW k \in Int, k <= Len(cells) - i
  PROVE  GetContainer(g, cells[i], k) = IF k <= 0 THEN cells[i] ELSE cells[i + k]
<1>1. CASE k <= 0 BY <1>1 DEF GetContainer
<1>2. CASE k > 0
  <2> DEFINE f == CHOOSE f : Walked(g, cells[i], f, k)
  <2>0. k \in Nat /\ Len(cells) \in Nat BY <1>2 DEF ListIn, IsChain
  <2>1. GetContainer(g, cells[i], k) = f[k]
    BY <1>2 DEF GetContainer, Walked
  <2>2. \A n \in 0..k : i + n \in 1..Len(cells) BY <2>0
  <2>3. \A n \in 0..k : cells[i + n] # None BY <2>2, CellIs DEF ListIn
  <2>4. ASSUME NEW n \in 0..k, n # 0 PROVE Value(g, cells[i + n - 1], "rest") = cells[i + n]
    <3>1. i + n - 1 \in 1..Len(cells) /\ i + n - 1 < Len(cells) /\ i + n - 1 + 1 = i + n
      BY <2>0, <2>4
    <3>2. Value(g, cells[i + n - 1], "rest") = NextCell(cells, tail, i + n - 1)
      BY <3>1, LinkIs
    <3> QED BY <3>1, <3>2 DEF NextCell
  <2>5. Walked(g, cells[i], f, k)
    <3> DEFINE e == [n \in 0..k |-> cells[i + n]]
    <3>1. ASSUME NEW n \in 0..k
          PROVE  e[n] = IF n = 0 THEN cells[i]
                        ELSE IF e[n - 1] = None THEN None ELSE Value(g, e[n - 1], "rest")
      <4>1. CASE n = 0 BY <4>1, <2>0
      <4>2. CASE n # 0
        <5>1. n - 1 \in 0..k /\ i + (n - 1) = i + n - 1 BY <4>2, <2>0
        <5>2. e[n - 1] = cells[i + n - 1] /\ e[n] = cells[i + n] BY <5>1
        <5>3. cells[i + n - 1] # None BY <5>1, <2>3
        <5> QED BY <4>2, <5>2, <5>3, <2>4
      <4> QED BY <4>1, <4>2
    <3>2. e = [n \in 0..k |-> e[n]] OBVIOUS
    <3> HIDE DEF e
    <3>3. Walked(g, cells[i], e, k) BY <3>1, <3>2 DEF Walked
    <3> QED BY <3>3
  <2> HIDE DEF f
  <2>6. \A n \in 0..k : f[n] = IF n = 0 THEN cells[i]
                        ELSE IF f[n - 1] = None THEN None ELSE Value(g, f[n - 1], "rest")
    BY <2>5 DEF Walked
  <2> DEFINE N == {n \in Nat : n <= k => f[n] = cells[i + n]}
  <2>7. 0 \in N BY <2>0, <2>6
  <2>8. ASSUME NEW n \in N PROVE n + 1 \in N
    <3> SUFFICES ASSUME n + 1 <= k PROVE f[n + 1] = cells[i + (n + 1)] OBVIOUS
    <3>1. n \in Nat /\ n \in 0..k /\ n + 1 \in 0..k /\ n + 1 # 0 /\ n + 1 - 1 = n /\ f[n] = cells[i + n]
      BY <2>0
    <3>2. f[n + 1] = IF f[n] = None THEN None ELSE Value(g, f[n], "rest") BY <2>6, <3>1
    <3>3. Value(g, cells[i + (n + 1) - 1], "rest") = cells[i + (n + 1)] BY <2>4, <3>1
    <3>4. i + (n + 1) - 1 = i + n BY <3>1
    <3> QED BY <3>1, <3>2, <3>3, <3>4, <2>3
  <2> HIDE DEF N
  <2>9. N \subseteq Nat BY DEF N
  <2>10. N = Nat BY <2>7, <2>8, <2>9, EveryNumber
  <2> QED BY <1>2, <2>0, <2>1, <2>10 DEF N
<1> QED BY <1>1, <1>2

(* The cells of a list, with the nil that ends it.                         *)
Way(cells, tail) == IF tail = "nil" THEN Append(cells, "nil") ELSE cells

LEMMA WayIs ==
  ASSUME NEW g, NEW cells, NEW held, NEW tail, ListIn(g, cells, held, tail)
  PROVE  LET way == Way(cells, tail)
         IN  /\ way \in Seq(Cell \cup {List, "nil"}) /\ Len(way) >= Len(cells)
             /\ \A j \in 1..Len(way) : way[j] # None
             /\ \A i, j \in 1..Len(way) : way[i] = way[j] => i = j
             /\ \A j \in 1..Len(way) :
                  /\ Value(g, way[j], "rest") = IF j < Len(way) THEN way[j + 1] ELSE None
                  /\ Value(g, way[j], "first") = IF j <= Len(cells) THEN held[j] ELSE None
                  /\ j <= Len(cells) => way[j] = cells[j]
             /\ Len(way) = IF tail = "nil" THEN Len(cells) + 1 ELSE Len(cells)
<1> DEFINE way == Way(cells, tail)
<1> DEFINE L == Len(cells)
<1>1. /\ cells \in Seq(Cell \cup {List}) /\ L \in Nat /\ L >= 1
      /\ \A i, j \in 1..L : cells[i] = cells[j] => i = j
      /\ tail \in {None, "nil"}
  BY DEF ListIn, IsChain
<1>2. \A i \in 1..L : /\ cells[i] # None /\ cells[i] # "nil"
                      /\ Value(g, cells[i], "first") = held[i]
                      /\ Value(g, cells[i], "rest") = NextCell(cells, tail, i)
  BY LinkIs, CellIs DEF ListIn
<1>3. Value(g, "nil", "first") = None /\ Value(g, "nil", "rest") = None
  BY <1>1, LinkIs
<1>4. CASE tail = None
  <2>1. way = cells BY <1>4, Names DEF Way
  <2>2. \A i \in 1..L : NextCell(cells, tail, i) = IF i < L THEN cells[i + 1] ELSE None
    BY <1>4 DEF NextCell
  <2>3. cells \in Seq(Cell \cup {List, "nil"}) BY <1>1
  <2> QED BY <1>1, <1>2, <1>4, <2>1, <2>2, <2>3, Names
<1>5. CASE tail = "nil"
  <2>1. way = Append(cells, "nil") BY <1>5 DEF Way
  <2>2. /\ way \in Seq(Cell \cup {List, "nil"}) /\ Len(way) = L + 1
        /\ \A i \in 1..L : way[i] = cells[i]
        /\ way[L + 1] = "nil"
    BY <1>1, <2>1
  <2>3. \A i \in 1..L : NextCell(cells, tail, i) = IF i < L THEN cells[i + 1] ELSE "nil"
    BY <1>5 DEF NextCell
  <2> HIDE DEF way
  <2>4. \A j \in 1..(L + 1) : j \in 1..L \/ j = L + 1 BY <1>1
  <2>5. \A j \in 1..L : j + 1 \in 1..L \/ j = L BY <1>1
  <2>6. \A j \in 1..(L + 1) : way[j] # None BY <2>2, <2>4, <1>2 DEF None
  <2>7. \A i, j \in 1..(L + 1) : way[i] = way[j] => i = j BY <2>2, <2>4, <1>1, <1>2
  <2>8. ASSUME NEW j \in 1..(L + 1)
        PROVE  /\ Value(g, way[j], "rest") = IF j < L + 1 THEN way[j + 1] ELSE None
               /\ Value(g, way[j], "first") = IF j <= L THEN held[j] ELSE None
               /\ j <= L => way[j] = cells[j]
    <3>1. CASE j = L + 1 BY <3>1, <2>2, <1>1, <1>3
    <3>2. CASE j \in 1..L
      <4>1. Value(g, way[j], "rest") = IF j < L THEN cells[j + 1] ELSE "nil"
        BY <3>2, <1>2, <2>2, <2>3
      <4>2. way[j + 1] = IF j < L THEN cells[j + 1] ELSE "nil" BY <3>2, <1>1, <2>2, <2>5
      <4>3. j < L + 1 /\ j <= L BY <3>2, <1>1
      <4> QED BY <3>2, <4>1, <4>2, <4>3, <1>2, <2>2
    <3> QED BY <3>1, <3>2, <2>4
  <2>9. L + 1 >= L BY <1>1
  <2> QED BY <1>5, <2>2, <2>6, <2>7, <2>8, <2>9 DEF way
<1> QED BY <1>1, <1>4, <1>5

(* There are as many links as it takes to go along it.                     *)
LEMMA LinksSuffice ==
  ASSUME NEW g, NEW U, NEW way \in Seq(U), TriplesOnly(g),
         \A j \in 1..Len(way) : way[j] # None,
         \A i, j \in 1..Len(way) : way[i] = way[j] => i = j,
         \A j \in 1..Len(way) :
           Value(g, way[j], "rest") = IF j < Len(way) THEN way[j + 1] ELSE None
  PROVE  LET links == Cardinality(Triples(g, None, "rest", None))
         IN  links \in Nat /\ links >= Len(way) - 1
<1> DEFINE T == Triples(g, None, "rest", None)
<1> DEFINE L == Len(way)
<1>0. L \in Nat OBVIOUS
<1>1. IsFiniteSet(T)
  <2>1. T \subseteq g BY DEF Triples
  <2> QED BY <2>1, FS_Subset DEF TriplesOnly
<1>2. Cardinality(T) \in Nat BY <1>1, FS_CardinalityType
<1>3. CASE L < 2 BY <1>0, <1>2, <1>3
<1>4. CASE L >= 2
  <2> DEFINE S == 1..(L - 1)
  <2> DEFINE f == [j \in S |-> <<way[j], "rest", way[j + 1]>>]
  <2>1. \A j \in S : j \in 1..L /\ j + 1 \in 1..L /\ j < L BY <1>0
  <2>2. ASSUME NEW j \in S PROVE <<way[j], "rest", way[j + 1]>> \in T
    <3>1. Value(g, way[j], "rest") = way[j + 1] /\ way[j + 1] # None /\ way[j] # None BY <2>1
    <3>2. Objects(g, way[j], "rest") # {} BY <3>1 DEF Value
    <3>3. way[j + 1] \in Objects(g, way[j], "rest") BY <3>1, <3>2 DEF Value
    <3>4. PICK t \in g : t[1] = way[j] /\ t[2] = "rest" /\ t[3] = way[j + 1]
      <4>1. "rest" # None BY DEF None
      <4> QED BY <3>1, <3>3, <4>1 DEF Objects, Triples, Matches
    <3>5. t = <<way[j], "rest", way[j + 1]>> BY <3>4 DEF TriplesOnly
    <3> QED BY <3>4, <3>5 DEF Triples, Matches
  <2>3. f \in [S -> T] BY <2>2
  <2>4. \A i, j \in S : f[i] = f[j] => i = j BY <2>1
  <2>5. f \in Injection(S, T) BY <2>3, <2>4 DEF Injection, IsInjective
  <2> HIDE DEF f, S, T
  <2>6. Cardinality(S) <= Cardinality(T) BY <2>5, <1>1, FS_Injection
  <2>7. Cardinality(S) = L - 1 BY <1>0, <1>4, FS_Interval DEF S
  <2> QED BY <2>6, <2>7, <1>2 DEF T
<1> QED BY <1>0, <1>3, <1>4

(* The walk along it, after some steps. *)
Onward(g, cells) ==
  LET rest == Value(g, Last(cells), "rest")
  IN  IF rest = None \/ Contains(cells, rest) THEN cells ELSE Append(cells, rest)

Walk(g, list, f, k) ==
  f = [n \in 0..k |-> IF n = 0 THEN <<list>> ELSE Onward(g, f[n - 1])]

LEMMA CellsAre ==
  ASSUME NEW g, NEW U, NEW way \in Seq(U), TriplesOnly(g),
         \A j \in 1..Len(way) : way[j] # None,
         \A i, j \in 1..Len(way) : way[i] = way[j] => i = j,
         \A j \in 1..Len(way) :
           Value(g, way[j], "rest") = IF j < Len(way) THEN way[j + 1] ELSE None,
         NEW i \in 1..Len(way)
  PROVE  CellsOf(g, way[i]) = SubSeq(way, i, Len(way))
<1> DEFINE L == Len(way)
<1> DEFINE k == Cardinality(Triples(g, None, "rest", None))
<1> DEFINE f == CHOOSE f : Walk(g, way[i], f, k)
<1> DEFINE at(n) == IF i + n <= L THEN i + n ELSE L
<1>0. L \in Nat /\ i \in 1..L OBVIOUS
<1>1. k \in Nat /\ k >= L - 1 BY LinksSuffice
<1>2. CellsOf(g, way[i]) = f[k] BY DEF CellsOf, Walk, Onward
<1> HIDE DEF k
<1>3. \A n \in Nat : at(n) \in i..L BY <1>0
<1>4. \A m \in i..L : /\ SubSeq(way, i, m) \in Seq(U) /\ Len(SubSeq(way, i, m)) = m - i + 1
                     /\ Last(SubSeq(way, i, m)) = way[m]
                     /\ \A j \in 1..(m - i + 1) : SubSeq(way, i, m)[j] = way[i + j - 1]
  BY <1>0 DEF Last
<1>5. ASSUME NEW m \in i..L
      PROVE  Onward(g, SubSeq(way, i, m)) = SubSeq(way, i, IF m < L THEN m + 1 ELSE L)
  <2> DEFINE cells == SubSeq(way, i, m)
  <2> DEFINE rest == Value(g, Last(cells), "rest")
  <2>1. m \in 1..L /\ i \in 1..L BY <1>0
  <2>2. rest = IF m < L THEN way[m + 1] ELSE None BY <1>4, <2>1
  <2>5. Onward(g, cells) = IF rest = None \/ Contains(cells, rest) THEN cells
                           ELSE Append(cells, rest)
    BY DEF Onward
  <2>3. CASE m < L
    <3>1. m + 1 \in 1..L BY <2>1, <2>3
    <3>2. rest = way[m + 1] /\ rest # None BY <2>2, <2>3, <3>1
    <3>3. ~Contains(cells, rest)
      <4> SUFFICES ASSUME NEW j \in 1..Len(cells), cells[j] = rest PROVE FALSE BY DEF Contains
      <4>1. j \in 1..(m - i + 1) BY <1>4
      <4>2. way[i + j - 1] = way[m + 1] BY <4>1, <1>4, <3>2
      <4>3. i + j - 1 \in 1..L /\ i + j - 1 # m + 1 BY <2>1, <2>3, <4>1
      <4> QED BY <3>1, <4>2, <4>3
    <3>4. SubSeq(way, i, m + 1) = Append(cells, way[m + 1])
      BY <2>1, <3>1
    <3> QED BY <2>3, <2>5, <3>2, <3>3, <3>4
  <2>4. CASE m = L BY <2>2, <2>4, <2>5, <2>1
  <2> QED BY <2>1, <2>3, <2>4
<1>14. SubSeq(way, i, i) = <<way[i]>> /\ at(0) = i
  <2>1. SubSeq(way, i, i) = <<way[i]>> \o SubSeq(way, i + 1, i) BY <1>0, SubSeqRecursiveFirst
  <2>2. SubSeq(way, i + 1, i) = <<>> BY <1>0, SubSeqEmpty
  <2>3. <<way[i]>> \in Seq(U) BY <1>0
  <2>4. SubSeq(way, i, i) = <<way[i]>> BY <2>1, <2>2, <2>3, ConcatEmptySeq
  <2>5. at(0) = i BY <1>0
  <2> QED BY <2>4, <2>5
<1>6. Walk(g, way[i], f, k)
  <2> DEFINE e == [n \in 0..k |-> SubSeq(way, i, at(n))]
  <2>1. ASSUME NEW n \in 0..k
        PROVE  e[n] = IF n = 0 THEN <<way[i]>> ELSE Onward(g, e[n - 1])
    <3>1. CASE n = 0 BY <3>1, <1>14
    <3>2. CASE n # 0
      <4>1. n - 1 \in 0..k /\ n \in Nat /\ n - 1 \in Nat BY <3>2, <1>1
      <4>2. e[n - 1] = SubSeq(way, i, at(n - 1)) /\ e[n] = SubSeq(way, i, at(n)) BY <4>1
      <4>3. at(n - 1) \in i..L BY <4>1, <1>3
      <4>4. at(n) = IF at(n - 1) < L THEN at(n - 1) + 1 ELSE L BY <1>0, <4>1
      <4> HIDE DEF e, at
      <4> QED BY <3>2, <4>2, <4>3, <4>4, <1>5
    <3> QED BY <3>1, <3>2
  <2>2. e = [n \in 0..k |-> e[n]] OBVIOUS
  <2> HIDE DEF e
  <2>3. Walk(g, way[i], e, k) BY <2>1, <2>2 DEF Walk
  <2> QED BY <2>3
<1> HIDE DEF f
<1>7. \A n \in 0..k : f[n] = IF n = 0 THEN <<way[i]>> ELSE Onward(g, f[n - 1])
  BY <1>6 DEF Walk
<1> DEFINE N == {n \in Nat : n <= k => f[n] = SubSeq(way, i, at(n))}
<1>8. 0 \in N
  <2>1. 0 \in 0..k BY <1>1
  <2> QED BY <1>7, <1>14, <2>1
<1>9. ASSUME NEW n \in N PROVE n + 1 \in N
  <2> SUFFICES ASSUME n + 1 <= k PROVE f[n + 1] = SubSeq(way, i, at(n + 1)) OBVIOUS
  <2>1. /\ n \in Nat /\ n \in 0..k /\ n + 1 \in 0..k /\ n + 1 # 0 /\ n + 1 - 1 = n
    BY <1>1
  <2>5. f[n] = SubSeq(way, i, at(n)) BY <2>1
  <2>2. at(n) \in i..L BY <2>1, <1>3
  <2>3. at(n + 1) = IF at(n) < L THEN at(n) + 1 ELSE L BY <1>0, <2>1
  <2> HIDE DEF N, at
  <2>4. f[n + 1] = Onward(g, f[n])
    BY <1>7, <2>1
  <2> QED BY <2>2, <2>3, <2>4, <2>5, <1>5
<1> HIDE DEF N
<1>10. N \subseteq Nat BY DEF N
<1>11. N = Nat BY <1>8, <1>9, <1>10, EveryNumber
<1>12. f[k] = SubSeq(way, i, at(k)) BY <1>1, <1>11 DEF N
<1>13. at(k) = L BY <1>0, <1>1
<1> QED BY <1>2, <1>12, <1>13

(* So what a list comes to are the items of its cells.                     *)
LEMMA ItemsAre ==
  ASSUME NEW g, NEW cells, NEW held, NEW tail, ListIn(g, cells, held, tail),
         NEW i \in 1..Len(cells)
  PROVE  /\ CellsOf(g, cells[i]) = SubSeq(Way(cells, tail), i, Len(Way(cells, tail)))
         /\ Items(g, cells[i]) = Present(SubSeq(held, i, Len(held)))
<1> DEFINE way == Way(cells, tail)
<1> DEFINE L == Len(cells)
<1> DEFINE W == Len(way)
<1>0. /\ way \in Seq(Cell \cup {List, "nil"}) /\ W >= L
      /\ \A j \in 1..W : way[j] # None
      /\ \A m, j \in 1..W : way[m] = way[j] => m = j
      /\ \A j \in 1..W :
           /\ Value(g, way[j], "rest") = IF j < W THEN way[j + 1] ELSE None
           /\ Value(g, way[j], "first") = IF j <= L THEN held[j] ELSE None
           /\ j <= L => way[j] = cells[j]
      /\ W = IF tail = "nil" THEN L + 1 ELSE L
  BY WayIs
<1>1. TriplesOnly(g) /\ L \in Nat /\ i \in 1..L /\ held \in Seq(Slot) /\ Len(held) = L
  BY DEF ListIn, IsChain
<1> HIDE DEF way
<1>2. W \in Nat /\ i \in 1..W /\ cells[i] = way[i] BY <1>0, <1>1
<1>3. CellsOf(g, cells[i]) = SubSeq(way, i, W) BY <1>0, <1>1, <1>2, CellsAre
<1> DEFINE s == SubSeq(way, i, W)
<1>4. /\ Len(s) = W - i + 1 /\ Last(s) = way[W]
      /\ \A j \in 1..(W - i + 1) : s[j] = way[i + j - 1]
  <2>0. way \in Seq(Cell \cup {List, "nil"}) /\ i \in 1..W BY <1>0, <1>2
  <2>1. Len(s) = W - i + 1 /\ \A j \in 1..(W - i + 1) : s[j] = way[i + j - 1] BY <2>0
  <2>3. W \in Nat /\ i \in 1..W BY <1>2
  <2> HIDE DEF W
  <2>2. W - i + 1 \in 1..(W - i + 1) /\ i + (W - i + 1) - 1 = W BY <2>3
  <2> QED BY <2>1, <2>2 DEF Last
<1>5. Value(g, Last(s), "rest") = None BY <1>0, <1>2, <1>4
<1> DEFINE values == [n \in 1..Len(s) |-> Value(g, s[n], "first")]
<1>6. Items(g, cells[i]) = Present(values) BY <1>3, <1>5 DEF Items
<1> DEFINE h == SubSeq(held, i, L)
<1>7. h \in Seq(Slot) /\ Len(h) = L - i + 1 /\ \A j \in 1..(L - i + 1) : h[j] = held[i + j - 1]
  BY <1>1
<1>8. \A j \in 1..(W - i + 1) : values[j] = IF j <= L - i + 1 THEN h[j] ELSE None
  <2> TAKE j \in 1..(W - i + 1)
  <2>1. i + j - 1 \in 1..W /\ (i + j - 1 <= L <=> j <= L - i + 1) /\ j \in 1..Len(s)
    BY <1>1, <1>2, <1>4
  <2>2. values[j] = Value(g, way[i + j - 1], "first") BY <2>1, <1>4
  <2> HIDE DEF values, h, s
  <2> QED BY <1>0, <1>1, <1>7, <2>1, <2>2
<1>9. DOMAIN values = 1..(W - i + 1) BY <1>4
<1>10. None \in Slot BY DEF Slot
<1> HIDE DEF values, h, s
<1>11. Present(values) = Present(h)
  <2>1. CASE tail = None
    <3>1. W = L BY <1>0, <2>1, Names
    <3>2. values = h
      <4>1. values = [j \in 1..(L - i + 1) |-> values[j]] BY <1>9, <3>1, <1>6 DEF values
      <4>2. h = [j \in 1..(L - i + 1) |-> h[j]] BY <1>7
      <4> QED BY <4>1, <4>2, <1>8, <3>1
    <3> QED BY <3>2
  <2>2. CASE tail = "nil"
    <3>1. W = L + 1 BY <1>0, <2>2
    <3> DEFINE a == Append(h, None)
    <3>2. /\ a \in Seq(Slot) /\ Len(a) = L - i + 2 /\ a[L - i + 2] = None
          /\ \A j \in 1..(L - i + 1) : a[j] = h[j]
      <4>1. /\ a \in Seq(Slot) /\ Len(a) = Len(h) + 1 /\ a[Len(h) + 1] = None
            /\ \A j \in 1..Len(h) : a[j] = h[j]
        BY <1>7, <1>10, AppendProperties
      <4>2. Len(h) + 1 = L - i + 2 BY <1>1, <1>7
      <4> QED BY <4>1, <4>2, <1>7
    <3> HIDE DEF a
    <3>3. a = [j \in 1..(L - i + 2) |-> a[j]]
      <4>1. DOMAIN a = 1..(L - i + 2) BY <3>2
      <4>2. a = [j \in DOMAIN a |-> a[j]] BY <3>2
      <4> QED BY <4>1, <4>2
    <3>4. values = [j \in 1..(L - i + 2) |-> values[j]] BY <1>9, <3>1, <1>1 DEF values
    <3> HIDE DEF a
    <3>5. \A j \in 1..(L - i + 2) : values[j] = a[j] BY <1>8, <3>1, <3>2, <1>1
    <3>6. values = a BY <3>3, <3>4, <3>5
    <3>7. Present(a) = Present(h) BY <1>7, <1>10, PresentStep DEF a
    <3> QED BY <3>6, <3>7
  <2> QED BY <1>1, <2>1, <2>2 DEF ListIn
<1> QED BY <1>3, <1>6, <1>11, <1>1 DEF way, h

LEMMA RemoveAtIs ==
  ASSUME NEW U, NEW s \in Seq(U), NEW i \in 1..Len(s)
  PROVE  /\ RemoveAt(s, i) \in Seq(U) /\ Len(RemoveAt(s, i)) = Len(s) - 1
         /\ \A j \in 1..(Len(s) - 1) : RemoveAt(s, i)[j] = IF j < i THEN s[j] ELSE s[j + 1]
<1> DEFINE a == SubSeq(s, 1, i - 1)
<1> DEFINE b == SubSeq(s, i + 1, Len(s))
<1>1. Len(s) \in Nat /\ i \in Nat OBVIOUS
<1>2. a \in Seq(U) /\ Len(a) = i - 1 /\ \A j \in 1..(i - 1) : a[j] = s[j] OBVIOUS
<1>3. b \in Seq(U) /\ Len(b) = Len(s) - i /\ \A j \in 1..(Len(s) - i) : b[j] = s[i + j] OBVIOUS
<1>4. RemoveAt(s, i) = a \o b BY DEF RemoveAt
<1> HIDE DEF a, b
<1>5. /\ a \o b \in Seq(U) /\ Len(a \o b) = Len(a) + Len(b)
      /\ \A j \in 1..(Len(a) + Len(b)) : (a \o b)[j] = IF j <= Len(a) THEN a[j] ELSE b[j - Len(a)]
  BY <1>2, <1>3, ConcatProperties
<1>6. Len(a) + Len(b) = Len(s) - 1 BY <1>1, <1>2, <1>3
<1>7. ASSUME NEW j \in 1..(Len(s) - 1)
      PROVE  (a \o b)[j] = IF j < i THEN s[j] ELSE s[j + 1]
  <2>1. (a \o b)[j] = IF j <= i - 1 THEN a[j] ELSE b[j - (i - 1)] BY <1>2, <1>5, <1>6
  <2>2. CASE j < i
    <3>1. j \in 1..(i - 1) /\ j <= i - 1 BY <1>1, <2>2
    <3> QED BY <2>1, <2>2, <3>1, <1>2
  <2>3. CASE j >= i
    <3>1. ~(j <= i - 1) /\ ~(j < i) /\ j - (i - 1) \in 1..(Len(s) - i) /\ i + (j - (i - 1)) = j + 1
      BY <1>1, <2>3
    <3> QED BY <2>1, <3>1, <1>3
  <2>4. j \in Int /\ i \in Int BY <1>1
  <2>5. j < i \/ j >= i BY <2>4
  <2> QED BY <2>2, <2>3, <2>5
<1> QED BY <1>4, <1>5, <1>6, <1>7

(* A list whose values come first, before what is missing.                 *)
LEMMA PresentFront ==
  ASSUME NEW U, NEW s \in Seq(U), NEW n \in 0..Len(s),
         \A j \in 1..n : s[j] # None, \A j \in (n + 1)..Len(s) : s[j] = None
  PROVE  Present(s) = SubSeq(s, 1, n)
<1> DEFINE a == SubSeq(s, 1, n)
<1> DEFINE b == SubSeq(s, n + 1, Len(s))
<1>1. Len(s) \in Nat /\ n \in Nat OBVIOUS
<1>2. a \in Seq(U) /\ Len(a) = n /\ \A j \in 1..n : a[j] = s[j] OBVIOUS
<1>3. b \in Seq(U) /\ Len(b) = Len(s) - n /\ \A j \in 1..(Len(s) - n) : b[j] = s[n + j] OBVIOUS
<1>4. a \o b = s
  <2>1. 1 \in 1..(Len(s) + 1) /\ n \in (1 - 1)..Len(s) /\ Len(s) \in n..Len(s) BY <1>1
  <2>2. a \o b = SubSeq(s, 1, Len(s)) BY <2>1, ConcatAdjacentSubSeq
  <2>3. SubSeq(s, 1, Len(s)) = s BY SubSeqFull
  <2> QED BY <2>2, <2>3
<1> HIDE DEF a, b
<1>5. Present(s) = Present(a) \o Present(b) BY <1>2, <1>3, <1>4, PresentConcat
<1>6. Present(a) = a
  <2>1. \A j \in 1..Len(a) : a[j] # None BY <1>2
  <2> QED BY <1>2, <2>1, PresentAll
<1>7. Present(b) = <<>>
  <2>1. \A j \in 1..Len(b) : b[j] = None
    <3> TAKE j \in 1..Len(b)
    <3>1. j \in 1..(Len(s) - n) /\ n + j \in (n + 1)..Len(s) BY <1>1, <1>3
    <3> QED BY <3>1, <1>3
  <2> QED BY <1>3, <2>1, PresentAll
<1>8. a \o <<>> = a BY <1>2, ConcatEmptySeq
<1> QED BY <1>5, <1>6, <1>7, <1>8 DEF a

LEMMA AlignedFront ==
  ASSUME NEW U, NEW s \in Seq(U), \A j \in 1..Len(Present(s)) : s[j] # None
  PROVE  /\ Len(Present(s)) \in 0..Len(s)
         /\ \A j \in (Len(Present(s)) + 1)..Len(s) : s[j] = None
         /\ Present(s) = SubSeq(s, 1, Len(Present(s)))
<1> DEFINE n == Len(Present(s))
<1>0. Present(s) \in Seq(U \ {None}) /\ n <= Len(s) BY PresentType
<1>1. Len(s) \in Nat /\ n \in 0..Len(s) BY <1>0
<1> HIDE DEF n
<1> DEFINE a == SubSeq(s, 1, n)
<1> DEFINE b == SubSeq(s, n + 1, Len(s))
<1>2. a \in Seq(U) /\ Len(a) = n /\ \A j \in 1..n : a[j] = s[j] BY <1>1
<1>3. b \in Seq(U) /\ Len(b) = Len(s) - n /\ \A j \in 1..(Len(s) - n) : b[j] = s[n + j] BY <1>1
<1>4. a \o b = s
  <2>1. 1 \in 1..(Len(s) + 1) /\ n \in (1 - 1)..Len(s) /\ Len(s) \in n..Len(s) BY <1>1
  <2>2. a \o b = SubSeq(s, 1, Len(s)) BY <2>1, ConcatAdjacentSubSeq
  <2>3. SubSeq(s, 1, Len(s)) = s BY SubSeqFull
  <2> QED BY <2>2, <2>3
<1> HIDE DEF a, b
<1>5. Present(s) = Present(a) \o Present(b) BY <1>2, <1>3, <1>4, PresentConcat
<1>6. Present(a) = a
  <2>1. \A j \in 1..Len(a) : a[j] # None BY <1>2 DEF n
  <2> QED BY <1>2, <2>1, PresentAll
<1>7. Present(b) \in Seq(U) BY <1>3, PresentType, SeqMonotonic
<1>8. Len(Present(s)) = Len(a) + Len(Present(b))
  <2>1. a \in Seq(U) BY <1>2
  <2>2. Len(a \o Present(b)) = Len(a) + Len(Present(b)) BY <2>1, <1>7, ConcatProperties
  <2> QED BY <2>2, <1>5, <1>6
<1>9. Present(b) = <<>>
  <2>1. Len(Present(b)) = 0 BY <1>8, <1>7, <1>2, <1>1 DEF n
  <2> QED BY <2>1, <1>7
<1>10. \A j \in 1..Len(b) : b[j] = None BY <1>3, <1>9, PresentAll
<1>11. ASSUME NEW j \in (n + 1)..Len(s) PROVE s[j] = None
  <2>1. j - n \in 1..(Len(s) - n) /\ n + (j - n) = j BY <1>1
  <2> QED BY <2>1, <1>3, <1>10
<1>12. a \o <<>> = a BY <1>2, ConcatEmptySeq
<1> QED BY <1>1, <1>5, <1>6, <1>9, <1>11, <1>12 DEF n, a

(* The items of a list are those before a cell and those from it on.       *)
LEMMA ItemsSplit ==
  ASSUME NEW s \in Seq(Slot), NEW i \in 1..Len(s)
  PROVE  LET a == SubSeq(s, 1, i - 1)
             b == SubSeq(s, i, Len(s))
         IN  /\ a \in Seq(Slot) /\ Len(a) = i - 1 /\ \A j \in 1..(i - 1) : a[j] = s[j]
             /\ b \in Seq(Slot) /\ Len(b) = Len(s) - i + 1
             /\ \A j \in 1..(Len(s) - i + 1) : b[j] = s[i + j - 1]
             /\ s = a \o b
             /\ Present(s) = Present(a) \o Present(b)
             /\ Present(a) \in Seq(Item) /\ Present(b) \in Seq(Item)
             /\ SubSeq(Present(s), 1, Len(Present(s)) - Len(Present(b))) = Present(a)
<1> DEFINE a == SubSeq(s, 1, i - 1)
<1> DEFINE b == SubSeq(s, i, Len(s))
<1>1. Len(s) \in Nat /\ i \in Nat /\ i >= 1 /\ i <= Len(s) OBVIOUS
<1>2. a \in Seq(Slot) /\ Len(a) = i - 1 /\ \A j \in 1..(i - 1) : a[j] = s[j] OBVIOUS
<1>3. b \in Seq(Slot) /\ Len(b) = Len(s) - i + 1 /\ \A j \in 1..(Len(s) - i + 1) : b[j] = s[i + j - 1]
  OBVIOUS
<1>4. a \o b = s
  <2>1. 1 \in 1..(Len(s) + 1) /\ i - 1 \in (1 - 1)..Len(s) /\ Len(s) \in (i - 1)..Len(s) BY <1>1
  <2>2. SubSeq(s, 1, i - 1) \o SubSeq(s, (i - 1) + 1, Len(s)) = SubSeq(s, 1, Len(s))
    BY <2>1, ConcatAdjacentSubSeq
  <2>3. SubSeq(s, 1, Len(s)) = s BY SubSeqFull
  <2>4. (i - 1) + 1 = i BY <1>1
  <2> QED BY <2>2, <2>3, <2>4
<1> HIDE DEF a, b
<1>5. Present(s) = Present(a) \o Present(b) BY <1>2, <1>3, <1>4, PresentConcat
<1>6. Slot \ {None} = Item BY CellsAreNew DEF Slot
<1>7. Present(a) \in Seq(Item) /\ Present(b) \in Seq(Item) BY <1>2, <1>3, <1>6, PresentType
<1> DEFINE p == Present(a)
<1> DEFINE q == Present(b)
<1> HIDE DEF p, q
<1>8. p \in Seq(Item) /\ q \in Seq(Item) BY <1>7 DEF p, q
<1>9. SubSeq(p \o q, 1, Len(p \o q) - Len(q)) = p
  <2>1. /\ p \o q \in Seq(Item) /\ Len(p \o q) = Len(p) + Len(q)
        /\ \A j \in 1..(Len(p) + Len(q)) : (p \o q)[j] = IF j <= Len(p) THEN p[j] ELSE q[j - Len(p)]
    BY <1>8, ConcatProperties
  <2>2. Len(p) \in Nat /\ Len(q) \in Nat BY <1>8
  <2>3. Len(p \o q) - Len(q) = Len(p) BY <2>1, <2>2
  <2> DEFINE r == p \o q
  <2> HIDE DEF r
  <2>4. r \in Seq(Item) /\ Len(p) \in 0..Len(r) /\ \A j \in 1..Len(p) : r[j] = p[j]
    BY <2>1, <2>2 DEF r
  <2>5. SubSeq(r, 1, Len(p)) \in Seq(Item) /\ Len(SubSeq(r, 1, Len(p))) = Len(p)
        /\ \A j \in 1..Len(p) : SubSeq(r, 1, Len(p))[j] = p[j]
    BY <2>2, <2>4
  <2>6. SubSeq(r, 1, Len(p)) = p BY <2>5, <1>8, SeqEqual
  <2> QED BY <2>3, <2>6 DEF r
<1> QED BY <1>2, <1>3, <1>4, <1>5, <1>7, <1>9 DEF a, b, p, q

(* What a graph says of the cells of a list.                               *)
LEMMA ListSays ==
  ASSUME NEW g, NEW cells, NEW held, NEW tail, ListIn(g, cells, held, tail)
  PROVE  /\ TriplesOnly(g) /\ IsChain(cells, held) /\ tail \in {None, "nil"}
         /\ cells \in Seq(Cell \cup {List}) /\ Len(cells) \in Nat /\ Len(cells) >= 1
         /\ cells[1] = List /\ held \in Seq(Slot) /\ Len(held) = Len(cells)
         /\ \A i, j \in 1..Len(cells) : cells[i] = cells[j] => i = j
         /\ \A i \in 1..Len(cells) :
              /\ cells[i] \in Cell \cup {List} /\ cells[i] # None /\ cells[i] # "nil"
              /\ held[i] \in Slot
              /\ Objects(g, cells[i], "first") = Only(held[i])
              /\ Objects(g, cells[i], "rest") = Only(NextCell(cells, tail, i))
         /\ Objects(g, "nil", "first") = {} /\ Objects(g, "nil", "rest") = {}
<1>1. IsChain(cells, held) BY DEF ListIn
<1>2. \A i \in 1..Len(cells) : /\ cells[i] \in Cell \cup {List} /\ cells[i] # None
                               /\ cells[i] # "nil" /\ held[i] \in Slot
  BY <1>1, CellIs
<1> QED BY <1>1, <1>2 DEF ListIn, LinksOf, IsChain

(* collection[k] = item *)
LEMMA Assigned ==
  ASSUME NEW g, NEW cells, NEW held, NEW tail, ListIn(g, cells, held, tail),
         NEW m \in 1..Len(cells), NEW x \in Item
  PROVE  ListIn(SetValue(g, cells[m], "first", x), cells, [held EXCEPT ![m] = x], tail)
<1>0. PICK end : end = cells[m] OBVIOUS
<1> DEFINE h == SetValue(g, end, "first", x)
<1> DEFINE new == [held EXCEPT ![m] = x]
<1>1. /\ TriplesOnly(g) /\ cells \in Seq(Cell \cup {List}) /\ Len(cells) \in Nat
      /\ held \in Seq(Slot) /\ Len(held) = Len(cells)
      /\ \A i, j \in 1..Len(cells) : cells[i] = cells[j] => i = j
      /\ \A i \in 1..Len(cells) :
           /\ cells[i] # None /\ cells[i] # "nil" /\ held[i] \in Slot
           /\ Objects(g, cells[i], "first") = Only(held[i])
           /\ Objects(g, cells[i], "rest") = Only(NextCell(cells, tail, i))
      /\ Objects(g, "nil", "first") = {} /\ Objects(g, "nil", "rest") = {}
  BY ListSays
<1>2. TriplesOnly(h) BY <1>1, TriplesStay
<1>3. ASSUME NEW a, NEW b, a # None, b # None
      PROVE  Objects(h, a, b) = IF a = end /\ b = "first" THEN {x} ELSE Objects(g, a, b)
  <2>1. end # None BY <1>0, <1>1
  <2> QED BY <1>3, <2>1, Names, SetValueIs
<1>4. new \in Seq(Slot) /\ Len(new) = Len(held)
      /\ \A j \in 1..Len(held) : new[j] = IF j = m THEN x ELSE held[j]
  BY <1>1, ExceptSeq DEF Slot
<1> HIDE DEF h, new
<1>5. IsChain(cells, new) BY <1>1, <1>4, ListSays DEF IsChain
<1>6. Objects(h, "nil", "first") = {} /\ Objects(h, "nil", "rest") = {}
  BY <1>1, <1>0, <1>3, Names
<1>7. LinksOf(h, cells, new, tail)
  <2> SUFFICES ASSUME NEW i \in 1..Len(cells)
               PROVE  /\ Objects(h, cells[i], "first") = Only(new[i])
                      /\ Objects(h, cells[i], "rest") = Only(NextCell(cells, tail, i))
    BY DEF LinksOf
  <2>1. Objects(h, cells[i], "rest") = Objects(g, cells[i], "rest") BY <1>1, <1>0, <1>3, Names
  <2>2. CASE i = m
    <3>1. Objects(h, cells[i], "first") = {x} BY <1>1, <1>0, <1>3, <2>2, Names
    <3>2. Only(x) = {x} BY Names DEF Only
    <3> QED BY <2>1, <2>2, <3>1, <3>2, <1>1, <1>4
  <2>3. CASE i # m
    <3>1. cells[i] # cells[m] BY <1>1, <2>3
    <3>2. Objects(h, cells[i], "first") = Objects(g, cells[i], "first")
      BY <1>1, <1>0, <1>3, <3>1, Names
    <3> QED BY <2>1, <2>3, <3>2, <1>1, <1>4
  <2> QED BY <2>2, <2>3
<1> QED BY <1>0, <1>2, <1>5, <1>6, <1>7, ListSays DEF ListIn, h, new

(* The end of a list is opened, and closed again.                          *)
LEMMA Opened ==
  ASSUME NEW g, NEW cells, NEW held, NEW tail, ListIn(g, cells, held, tail),
         NEW end, end = cells[Len(cells)]
  PROVE  ListIn(Without(g, end, "rest"), cells, held, None)
<1> DEFINE n == Len(cells)
<1>0. end = cells[n] OBVIOUS
<1> DEFINE h == Without(g, end, "rest")
<1>1. /\ TriplesOnly(g) /\ n \in 1..n /\ n \in Nat
      /\ \A i, j \in 1..n : cells[i] = cells[j] => i = j
      /\ \A i \in 1..n :
           /\ cells[i] # None /\ cells[i] # "nil" /\ held[i] \in Slot
           /\ Objects(g, cells[i], "first") = Only(held[i])
           /\ Objects(g, cells[i], "rest") = Only(NextCell(cells, tail, i))
      /\ Objects(g, "nil", "first") = {} /\ Objects(g, "nil", "rest") = {}
  BY ListSays
<1>2. TriplesOnly(h) BY <1>1, TriplesStay
<1>3. ASSUME NEW a, NEW b, a # None, b # None
      PROVE  Objects(h, a, b) = IF a = end /\ b = "rest" THEN {} ELSE Objects(g, a, b)
  <2>1. end # None BY <1>0, <1>1
  <2>2. Objects(h, a, b) = IF a = end /\ ("rest" = None \/ "rest" = b) THEN {} ELSE Objects(g, a, b)
    BY ONLY <1>3, <2>1, Names, WithoutIs DEF h
  <2> QED BY <2>2, Names
<1> HIDE DEF h
<1>4. Objects(h, "nil", "first") = {} /\ Objects(h, "nil", "rest") = {}
  BY <1>1, <1>0, <1>3, Names
<1>5. LinksOf(h, cells, held, None)
  <2> SUFFICES ASSUME NEW i \in 1..n
               PROVE  /\ Objects(h, cells[i], "first") = Only(held[i])
                      /\ Objects(h, cells[i], "rest") = Only(NextCell(cells, None, i))
    BY DEF LinksOf
  <2>1. Objects(h, cells[i], "first") = Objects(g, cells[i], "first") BY <1>1, <1>0, <1>3, Names
  <2>2. CASE i = n
    <3>1. NextCell(cells, None, i) = None BY <1>1, <2>2 DEF NextCell
    <3>2. Objects(h, cells[i], "rest") = {} BY <1>1, <1>0, <1>3, <2>2, Names
    <3> QED BY <1>1, <2>1, <3>1, <3>2 DEF Only
  <2>3. CASE i # n
    <3>1. i < n /\ cells[i] # cells[n] BY <1>1, <2>3
    <3>2. NextCell(cells, None, i) = NextCell(cells, tail, i) BY <3>1 DEF NextCell
    <3>3. Objects(h, cells[i], "rest") = Objects(g, cells[i], "rest") BY <1>1, <1>0, <1>3, <3>1, Names
    <3> QED BY <1>1, <2>1, <3>2, <3>3
  <2> QED BY <2>2, <2>3
<1> QED BY <1>0, <1>2, <1>4, <1>5, ListSays DEF ListIn, h

LEMMA Closed ==
  ASSUME NEW g, NEW cells, NEW held, NEW tail, ListIn(g, cells, held, tail),
         NEW end, end = cells[Len(cells)]
  PROVE  ListIn(With(g, end, "rest", "nil"), cells, held, "nil")
<1> DEFINE n == Len(cells)
<1>0. end = cells[n] OBVIOUS
<1> DEFINE h == With(g, end, "rest", "nil")
<1>1. /\ TriplesOnly(g) /\ n \in 1..n /\ n \in Nat
      /\ \A i, j \in 1..n : cells[i] = cells[j] => i = j
      /\ \A i \in 1..n :
           /\ cells[i] # None /\ cells[i] # "nil" /\ held[i] \in Slot
           /\ Objects(g, cells[i], "first") = Only(held[i])
           /\ Objects(g, cells[i], "rest") = Only(NextCell(cells, tail, i))
      /\ Objects(g, "nil", "first") = {} /\ Objects(g, "nil", "rest") = {}
  BY ListSays
<1>2. TriplesOnly(h) BY <1>1, TriplesStay
<1>3. ASSUME NEW a, NEW b, a # None, b # None
      PROVE  Objects(h, a, b) = IF a = end /\ b = "rest" THEN Objects(g, a, b) \cup {"nil"}
                                ELSE Objects(g, a, b)
  BY ONLY <1>3, WithTriple DEF h
<1> HIDE DEF h
<1>4. Objects(h, "nil", "first") = {} /\ Objects(h, "nil", "rest") = {}
  BY <1>1, <1>0, <1>3, Names
<1>5. LinksOf(h, cells, held, "nil")
  <2> SUFFICES ASSUME NEW i \in 1..n
               PROVE  /\ Objects(h, cells[i], "first") = Only(held[i])
                      /\ Objects(h, cells[i], "rest") = Only(NextCell(cells, "nil", i))
    BY DEF LinksOf
  <2>1. Objects(h, cells[i], "first") = Objects(g, cells[i], "first") BY <1>1, <1>0, <1>3, Names
  <2>2. CASE i = n
    <3>1. NextCell(cells, "nil", i) = "nil" /\ NextCell(cells, tail, i) \in {None, "nil"}
      BY <1>1, <2>2, ListSays DEF NextCell
    <3>2. Objects(h, cells[i], "rest") = Objects(g, cells[i], "rest") \cup {"nil"}
      BY <1>1, <1>0, <1>3, <2>2, Names
    <3>3. Only("nil") = {"nil"} /\ Only(NextCell(cells, tail, i)) \subseteq {"nil"}
      BY <3>1, Names DEF Only
    <3>4. Objects(g, cells[i], "rest") \subseteq {"nil"} BY <1>1, <3>3
    <3>5. Objects(h, cells[i], "rest") = {"nil"} BY <3>2, <3>4
    <3> QED BY <1>1, <2>1, <3>1, <3>3, <3>5
  <2>3. CASE i # n
    <3>1. i < n /\ cells[i] # cells[n] BY <1>1, <2>3
    <3>2. NextCell(cells, "nil", i) = NextCell(cells, tail, i) BY <3>1 DEF NextCell
    <3>3. Objects(h, cells[i], "rest") = Objects(g, cells[i], "rest") BY <1>1, <1>0, <1>3, <3>1, Names
    <3> QED BY <1>1, <2>1, <3>2, <3>3
  <2> QED BY <2>2, <2>3
<1> QED BY <1>0, <1>2, <1>4, <1>5, ListSays DEF ListIn, h

(* An item is put into the last cell, which has none.                      *)
LEMMA CellFilled ==
  ASSUME NEW g, NEW cells, NEW held, NEW tail, ListIn(g, cells, held, tail),
         held[Len(cells)] = None, NEW x \in Item, NEW end, end = cells[Len(cells)]
  PROVE  \E nheld : /\ ListIn(With(g, end, "first", x), cells, nheld, tail)
                    /\ Present(nheld) = Present(held) \o <<x>>
<1> DEFINE n == Len(cells)
<1>0. end = cells[n] OBVIOUS
<1> DEFINE h == With(g, end, "first", x)
<1> DEFINE new == [held EXCEPT ![n] = x]
<1>1. /\ TriplesOnly(g) /\ n \in 1..n /\ n \in Nat
      /\ cells \in Seq(Cell \cup {List}) /\ held \in Seq(Slot) /\ Len(held) = n
      /\ \A i, j \in 1..n : cells[i] = cells[j] => i = j
      /\ \A i \in 1..n :
           /\ cells[i] # None /\ cells[i] # "nil" /\ held[i] \in Slot
           /\ Objects(g, cells[i], "first") = Only(held[i])
           /\ Objects(g, cells[i], "rest") = Only(NextCell(cells, tail, i))
      /\ Objects(g, "nil", "first") = {} /\ Objects(g, "nil", "rest") = {}
  BY ListSays
<1>2. TriplesOnly(h) BY <1>1, TriplesStay
<1>3. ASSUME NEW a, NEW b, a # None, b # None
      PROVE  Objects(h, a, b) = IF a = end /\ b = "first" THEN Objects(g, a, b) \cup {x}
                                ELSE Objects(g, a, b)
  BY ONLY <1>3, WithTriple DEF h
<1>4. new \in Seq(Slot) /\ Len(new) = Len(held)
      /\ \A j \in 1..Len(held) : new[j] = IF j = n THEN x ELSE held[j]
  BY <1>1, ExceptSeq DEF Slot
<1> HIDE DEF h, new
<1>5. IsChain(cells, new) BY <1>1, <1>4, ListSays DEF IsChain
<1>6. Objects(h, "nil", "first") = {} /\ Objects(h, "nil", "rest") = {}
  BY <1>1, <1>0, <1>3, Names
<1>7. LinksOf(h, cells, new, tail)
  <2> SUFFICES ASSUME NEW i \in 1..n
               PROVE  /\ Objects(h, cells[i], "first") = Only(new[i])
                      /\ Objects(h, cells[i], "rest") = Only(NextCell(cells, tail, i))
    BY DEF LinksOf
  <2>1. Objects(h, cells[i], "rest") = Objects(g, cells[i], "rest") BY <1>1, <1>0, <1>3, Names
  <2>2. CASE i = n
    <3>1. Objects(h, cells[i], "first") = Objects(g, cells[i], "first") \cup {x}
      BY <1>1, <1>0, <1>3, <2>2, Names
    <3>2. Only(x) = {x} /\ Only(held[i]) = {} BY Names, <2>2 DEF Only
    <3> QED BY <2>1, <2>2, <3>1, <3>2, <1>1, <1>4
  <2>3. CASE i # n
    <3>1. cells[i] # cells[n] BY <1>1, <2>3
    <3>2. Objects(h, cells[i], "first") = Objects(g, cells[i], "first")
      BY <1>1, <1>0, <1>3, <3>1, Names
    <3> QED BY <2>1, <2>3, <3>2, <1>1, <1>4
  <2> QED BY <2>2, <2>3
<1>8. Present(new) = Present(held) \o <<x>>
  <2> DEFINE a == SubSeq(held, 1, n - 1)
  <2>1. a \in Seq(Slot) /\ Len(a) = n - 1 /\ \A j \in 1..(n - 1) : a[j] = held[j] BY <1>1
  <2> HIDE DEF a
  <2>2. x \in Slot /\ None \in Slot BY DEF Slot
  <2>3. new = Append(a, x)
    <3>1. Append(a, x) \in Seq(Slot) /\ Len(Append(a, x)) = n
          /\ \A j \in 1..n : Append(a, x)[j] = IF j = n THEN x ELSE held[j]
      BY <1>1, <2>1, <2>2
    <3> QED BY <3>1, <1>1, <1>4, SeqEqual
  <2>4. held = Append(a, None)
    <3>1. Append(a, None) \in Seq(Slot) /\ Len(Append(a, None)) = n
          /\ \A j \in 1..n : Append(a, None)[j] = IF j = n THEN None ELSE held[j]
      BY <1>1, <2>1, <2>2
    <3> QED BY <3>1, <1>1, SeqEqual
  <2>5. Present(new) = Append(Present(a), x) /\ Present(held) = Present(a)
    BY <2>1, <2>2, <2>3, <2>4, Names, PresentStep
  <2>6. Present(a) \in Seq(Slot) BY <2>1, PresentType, SeqMonotonic
  <2> QED BY <2>2, <2>5, <2>6, AppendIsConcat
<1> QED BY <1>0, <1>2, <1>5, <1>6, <1>7, <1>8, ListSays DEF ListIn, h, new

(* The cells of a list are in the graph, the head but for an empty list;   *)
(* a new one is none of them.                                              *)
LEMMA CellsInGraph ==
  ASSUME NEW g, NEW cells, NEW held, NEW tail, ListIn(g, cells, held, tail),
         NEW i \in 1..Len(cells)
  PROVE  cells[i] \notin Cell \/ cells[i] \in AllNodes(g)
<1>1. /\ TriplesOnly(g) /\ Len(cells) \in Nat /\ cells[1] = List
      /\ \A j \in 1..Len(cells) : cells[j] # None
      /\ \A j \in 1..Len(cells) :
           Objects(g, cells[j], "rest") = Only(NextCell(cells, tail, j))
  BY ListSays
<1>2. CASE i = 1 BY <1>1, <1>2, CellsAreNew
<1>3. CASE i # 1
  <2>1. i - 1 \in 1..Len(cells) /\ i - 1 < Len(cells) /\ (i - 1) + 1 = i BY <1>1, <1>3
  <2>2. NextCell(cells, tail, i - 1) = cells[i] BY <2>1 DEF NextCell
  <2>3. cells[i] \in Objects(g, cells[i - 1], "rest") BY <1>1, <2>1, <2>2 DEF Only
  <2>4. \E t \in g : t[3] = cells[i] BY <2>3 DEF Objects, Triples
  <2> QED BY <2>4 DEF AllNodes
<1> QED BY <1>2, <1>3

LEMMA FreshIs ==
  ASSUME NEW g, NEW cells, NEW held, NEW tail, ListIn(g, cells, held, tail),
         NEW k \in Nat, HasFresh(g, k + 1)
  PROVE  /\ Fresh(g) \in Cell /\ Fresh(g) \notin AllNodes(g) /\ Fresh(g) # None /\ Fresh(g) # "nil"
         /\ Objects(g, Fresh(g), "first") = {} /\ Objects(g, Fresh(g), "rest") = {}
         /\ \A i \in 1..Len(cells) : cells[i] # Fresh(g)
<1> DEFINE S == Cell \ AllNodes(g)
<1>1. S # {}
  <2>1. Cardinality(S) >= k + 1 BY DEF HasFresh
  <2>2. Cardinality({}) = 0 BY FS_EmptySet
  <2> QED BY <2>1, <2>2
<1>2. Fresh(g) \in Cell /\ Fresh(g) \notin AllNodes(g) BY <1>1 DEF Fresh
<1>3. Fresh(g) # None /\ Fresh(g) # "nil" BY <1>2, Names
<1>4. \A t \in g : t[1] # Fresh(g) BY <1>2 DEF AllNodes, SubjectsOf
<1>5. Objects(g, Fresh(g), "first") = {} /\ Objects(g, Fresh(g), "rest") = {}
  BY <1>3, <1>4 DEF Objects, Triples, Matches
<1>6. \A i \in 1..Len(cells) : cells[i] # Fresh(g) BY <1>2, CellsInGraph
<1> QED BY <1>2, <1>3, <1>5, <1>6

(* One new cell less.                                                      *)
LEMMA FreshLeft ==
  ASSUME NEW g, NEW h, NEW x, NEW k \in Nat, HasFresh(g, k + 1),
         AllNodes(h) \cap Cell \subseteq AllNodes(g) \cup {x}
  PROVE  HasFresh(h, k)
<1> DEFINE S == Cell \ AllNodes(g)
<1> DEFINE T == Cell \ AllNodes(h)
<1>1. IsFiniteSet(Cell) BY CellsAreNew
<1>2. IsFiniteSet(S) /\ IsFiniteSet(T) BY <1>1, FS_Subset
<1>3. S \ {x} \subseteq T OBVIOUS
<1>4. Cardinality(S) >= k + 1 BY DEF HasFresh
<1>5. Cardinality(S) \in Nat /\ Cardinality(T) \in Nat BY <1>2, FS_CardinalityType
<1> HIDE DEF S, T
<1>6. Cardinality(S \ {x}) >= k
  <2>1. Cardinality(S \ {x}) = IF x \in S THEN Cardinality(S) - 1 ELSE Cardinality(S)
    BY <1>2, FS_RemoveElement
  <2> QED BY <2>1, <1>4, <1>5
<1>7. Cardinality(S \ {x}) <= Cardinality(T) BY <1>2, <1>3, FS_Subset
<1>8. Cardinality(S \ {x}) \in Nat BY <1>2, FS_RemoveElement, FS_CardinalityType
<1>9. Cardinality(T) >= k BY <1>5, <1>6, <1>7, <1>8
<1> QED BY <1>9 DEF T, HasFresh

LEMMA FreshMore ==
  ASSUME NEW g, NEW h, NEW k \in Nat, HasFresh(g, k),
         AllNodes(h) \cap Cell \subseteq AllNodes(g)
  PROVE  HasFresh(h, k)
<1> DEFINE S == Cell \ AllNodes(g)
<1> DEFINE T == Cell \ AllNodes(h)
<1>1. IsFiniteSet(Cell) BY CellsAreNew
<1>2. IsFiniteSet(S) /\ IsFiniteSet(T) BY <1>1, FS_Subset
<1>3. S \subseteq T OBVIOUS
<1>4. Cardinality(S) >= k BY DEF HasFresh
<1>5. Cardinality(S) \in Nat /\ Cardinality(T) \in Nat BY <1>2, FS_CardinalityType
<1> HIDE DEF S, T
<1>6. Cardinality(S) <= Cardinality(T) BY <1>2, <1>3, FS_Subset
<1>7. Cardinality(T) >= k BY <1>4, <1>5, <1>6
<1> QED BY <1>7 DEF T, HasFresh

LEMMA NodesWith ==
  ASSUME NEW g, NEW s, NEW p, NEW o
  PROVE  /\ AllNodes(With(g, s, p, o)) = AllNodes(g) \cup {s, o}
         /\ AllNodes(Without(g, s, p)) \subseteq AllNodes(g)
<1> DEFINE t == <<s, p, o>>
<1>1. t[1] = s /\ t[3] = o OBVIOUS
<1>2. With(g, s, p, o) = g \cup {t} BY DEF With
<1> HIDE DEF t
<1>3. AllNodes(g \cup {t}) = AllNodes(g) \cup {s, o} BY <1>1 DEF AllNodes, SubjectsOf
<1>4. AllNodes(Without(g, s, p)) \subseteq AllNodes(g) BY DEF AllNodes, SubjectsOf, Without
<1> QED BY <1>2, <1>3, <1>4

(* A new cell is linked to the end of an open list.                        *)
LEMMA Linked ==
  ASSUME NEW g, NEW cells, NEW held, ListIn(g, cells, held, None),
         NEW f \in Cell, f # "nil", Objects(g, f, "first") = {}, Objects(g, f, "rest") = {},
         \A i \in 1..Len(cells) : cells[i] # f,
         NEW x \in Item, NEW end, end = cells[Len(cells)]
  PROVE  /\ ListIn(With(With(g, end, "rest", f), f, "first", x),
                   Append(cells, f), Append(held, x), None)
         /\ Present(Append(held, x)) = Present(held) \o <<x>>
<1> DEFINE n == Len(cells)
<1> DEFINE h == With(g, end, "rest", f)
<1> DEFINE w == With(h, f, "first", x)
<1> DEFINE ncells == Append(cells, f)
<1> DEFINE nheld == Append(held, x)
<1>1. /\ TriplesOnly(g) /\ n \in 1..n /\ n \in Nat
      /\ cells \in Seq(Cell \cup {List}) /\ held \in Seq(Slot) /\ Len(held) = n /\ cells[1] = List
      /\ \A i, j \in 1..n : cells[i] = cells[j] => i = j
      /\ \A i \in 1..n :
           /\ cells[i] # None /\ cells[i] # "nil" /\ held[i] \in Slot
           /\ Objects(g, cells[i], "first") = Only(held[i])
           /\ Objects(g, cells[i], "rest") = Only(NextCell(cells, None, i))
      /\ Objects(g, "nil", "first") = {} /\ Objects(g, "nil", "rest") = {}
  BY ListSays
<1>2. TriplesOnly(h) /\ TriplesOnly(w) BY <1>1, TriplesStay
<1>3. end # None /\ end # "nil" /\ end # f /\ f # None BY <1>1, Names
<1>4. ASSUME NEW a, NEW b, a # None, b # None
      PROVE  Objects(h, a, b) = IF a = end /\ b = "rest" THEN Objects(g, a, b) \cup {f}
                                ELSE Objects(g, a, b)
  BY ONLY <1>4, WithTriple DEF h
<1> HIDE DEF h
<1>5. ASSUME NEW a, NEW b, a # None, b # None
      PROVE  Objects(w, a, b) = IF a = f /\ b = "first" THEN Objects(h, a, b) \cup {x}
                                ELSE Objects(h, a, b)
  BY <1>5, WithTriple
<1> HIDE DEF w
<1>6. x \in Slot BY DEF Slot
<1>7. /\ ncells \in Seq(Cell \cup {List}) /\ Len(ncells) = n + 1 /\ ncells[n + 1] = f
      /\ \A i \in 1..n : ncells[i] = cells[i]
  BY <1>1
<1>8. /\ nheld \in Seq(Slot) /\ Len(nheld) = n + 1 /\ nheld[n + 1] = x
      /\ \A i \in 1..n : nheld[i] = held[i]
  BY <1>1, <1>6
<1> HIDE DEF ncells, nheld
<1>9. \A i \in 1..(n + 1) : i \in 1..n \/ i = n + 1 BY <1>1
<1>10. IsChain(ncells, nheld)
  <2>1. \A i, j \in 1..(n + 1) : ncells[i] = ncells[j] => i = j BY <1>1, <1>7, <1>9
  <2>2. n + 1 >= 1 /\ ncells[1] = List BY <1>1, <1>7
  <2> QED BY <2>1, <2>2, <1>7, <1>8 DEF IsChain
<1>11. Objects(w, "nil", "first") = {} /\ Objects(w, "nil", "rest") = {}
  BY <1>1, <1>3, <1>4, <1>5, Names
<1>12. LinksOf(w, ncells, nheld, None)
  <2> SUFFICES ASSUME NEW i \in 1..(n + 1)
               PROVE  /\ Objects(w, ncells[i], "first") = Only(nheld[i])
                      /\ Objects(w, ncells[i], "rest") = Only(NextCell(ncells, None, i))
    BY <1>7 DEF LinksOf
  <2>1. Only(f) = {f} /\ Only(x) = {x} /\ Only(None) = {} BY <1>3, Names DEF Only
  <2>2. CASE i = n + 1
    <3>1. NextCell(ncells, None, i) = None BY <1>1, <1>7, <2>2 DEF NextCell
    <3>2. Objects(w, f, "first") = {x} /\ Objects(w, f, "rest") = {}
      BY <1>3, <1>4, <1>5, Names
    <3> QED BY <2>1, <2>2, <3>1, <3>2, <1>7, <1>8
  <2>3. CASE i = n
    <3>1. NextCell(ncells, None, i) = f /\ NextCell(cells, None, i) = None
      BY <1>1, <1>7, <2>3 DEF NextCell
    <3>2. Objects(g, end, "rest") = {} /\ Objects(g, end, "first") = Only(held[n])
      BY <1>1, <2>1, <2>3, <3>1
    <3>3. Objects(w, end, "first") = Only(held[n]) BY <1>3, <1>4, <1>5, <3>2, Names
    <3>4. Objects(w, end, "rest") = {f}
      <4>1. Objects(h, end, "rest") = {f} BY <1>3, <1>4, <3>2, Names
      <4> QED BY <4>1, <1>3, <1>5, Names
    <3>5. ncells[i] = end /\ nheld[i] = held[n] BY <1>1, <1>7, <1>8, <2>3
    <3> QED BY <2>1, <3>1, <3>3, <3>4, <3>5
  <2>4. CASE i \in 1..n /\ i # n
    <3>1. i < n /\ i + 1 \in 1..n /\ i < n + 1 /\ cells[i] # end /\ cells[i] # f BY <1>1, <2>4
    <3>2. NextCell(ncells, None, i) = NextCell(cells, None, i)
      BY <3>1, <2>4, <1>7 DEF NextCell
    <3>3. /\ Objects(w, cells[i], "first") = Objects(g, cells[i], "first")
          /\ Objects(w, cells[i], "rest") = Objects(g, cells[i], "rest")
      BY <1>1, <1>4, <1>5, <2>4, <3>1, Names
    <3> QED BY <1>1, <1>7, <1>8, <2>4, <3>2, <3>3
  <2> QED BY <1>9, <2>2, <2>3, <2>4
<1>13. Present(nheld) = Present(held) \o <<x>>
  <2>1. Present(nheld) = Append(Present(held), x)
    BY <1>1, <1>6, Names, PresentStep DEF nheld
  <2>2. Present(held) \in Seq(Slot) BY <1>1, PresentType, SeqMonotonic
  <2> QED BY <1>6, <2>1, <2>2, AppendIsConcat
<1> QED BY <1>2, <1>10, <1>11, <1>12, <1>13 DEF ListIn, h, w, ncells, nheld

(* The last cell of a list is its end. *)
LEMMA EndIs ==
  ASSUME NEW g, NEW cells, NEW held, NEW tail, ListIn(g, cells, held, tail),
         NEW i \in 1..Len(cells)
  PROVE  /\ EndOf(g, cells[i]) = cells[Len(cells)]
         /\ HasFirst(g, cells[Len(cells)]) <=> held[Len(cells)] # None
<1> DEFINE way == Way(cells, tail)
<1> DEFINE L == Len(cells)
<1> DEFINE W == Len(way)
<1>0. /\ way \in Seq(Cell \cup {List, "nil"}) /\ W >= L
      /\ \A j \in 1..W : way[j] # None
      /\ \A m, j \in 1..W : way[m] = way[j] => m = j
      /\ \A j \in 1..W :
           /\ Value(g, way[j], "rest") = IF j < W THEN way[j + 1] ELSE None
           /\ Value(g, way[j], "first") = IF j <= L THEN held[j] ELSE None
           /\ j <= L => way[j] = cells[j]
      /\ W = IF tail = "nil" THEN L + 1 ELSE L
  BY WayIs
<1>1. /\ L \in Nat /\ i \in 1..L /\ L \in 1..L /\ tail \in {None, "nil"}
      /\ \A j \in 1..L : cells[j] # None /\ cells[j] # "nil"
  BY ListSays
<1>2. \A j \in 1..L : Value(g, cells[j], "rest") = NextCell(cells, tail, j) BY LinkIs
<1>3. Value(g, cells[L], "first") = held[L] BY <1>1, LinkIs
<1>4. \A j \in 1..L : EndsAt(g, cells[j]) <=> j = L
  <2> TAKE j \in 1..L
  <2>1. CASE j = L BY <1>1, <1>2, <2>1 DEF EndsAt, NextCell
  <2>2. CASE j # L
    <3>1. j + 1 \in 1..L /\ j < L BY <1>1, <2>2
    <3>2. Value(g, cells[j], "rest") = cells[j + 1] BY <1>2, <3>1 DEF NextCell
    <3> QED BY <1>1, <2>2, <3>1, <3>2 DEF EndsAt
  <2> QED BY <2>1, <2>2
<1>5. CellsOf(g, cells[i]) = SubSeq(way, i, W) BY ItemsAre
<1> DEFINE s == SubSeq(way, i, W)
<1> HIDE DEF way
<1>6. Len(s) = W - i + 1 /\ \A j \in 1..(W - i + 1) : s[j] = way[i + j - 1]
  <2>1. way \in Seq(Cell \cup {List, "nil"}) /\ i \in 1..W BY <1>0, <1>1
  <2> QED BY <2>1
<1> DEFINE I == {j \in 1..Len(s) : EndsAt(g, s[j])}
<1>7. SelectInSeq(s, LAMBDA cell : EndsAt(g, cell)) = IF I # {} THEN Min(I) ELSE 0
  BY DEF SelectInSeq
<1>8. EndOf(g, cells[i]) = s[SelectInSeq(s, LAMBDA cell : EndsAt(g, cell))]
  BY <1>5 DEF EndOf
<1> HIDE DEF s
<1> DEFINE e == L - i + 1
<1>9. e \in 1..(W - i + 1) /\ i + e - 1 = L /\ W \in Nat BY <1>0, <1>1
<1>10. e \in I /\ s[e] = cells[L]
  <2>1. s[e] = cells[L] BY <1>0, <1>1, <1>6, <1>9
  <2> QED BY <2>1, <1>1, <1>4, <1>6, <1>9
<1>11. \A j \in I : e <= j
  <2> SUFFICES ASSUME NEW j \in I, j < e PROVE FALSE BY <1>6, <1>9
  <2>1. j \in 1..(W - i + 1) /\ EndsAt(g, s[j]) BY <1>6
  <2>2. i + j - 1 \in 1..L /\ i + j - 1 # L /\ i + j - 1 \in 1..W BY <2>1, <1>0, <1>1, <1>9
  <2>4. \A m \in 1..L : m \in 1..W => way[m] = cells[m] BY <1>0, <1>1
  <2>3. s[j] = cells[i + j - 1] BY <2>1, <2>2, <2>4, <1>6
  <2> QED BY <2>1, <2>2, <2>3, <1>4
<1> HIDE DEF I
<1>12. I \subseteq Int BY <1>6 DEF I
<1>13. Min(I) = e
  <2>1. \A j \in I : (\A m \in I : j <= m) => j = e BY <1>10, <1>11, <1>12
  <2> QED BY <1>10, <1>11, <2>1 DEF Min
<1> HIDE DEF e
<1>14. EndOf(g, cells[i]) = s[e] BY <1>7, <1>8, <1>10, <1>13
<1> QED BY <1>3, <1>10, <1>14 DEF HasFirst

(* A graph with an open list, its end, its items and the new cells left.   *)
GrownTo(g, end, items, k) ==
  \E cells, held :
    /\ ListIn(g, cells, held, None) /\ end = cells[Len(cells)]
    /\ HasFresh(g, k) /\ Present(held) = items

(* += of one item, with as many new cells left as it may need for others.  *)
LEMMA ItemAdded ==
  ASSUME NEW g, NEW end, NEW items, NEW k \in Nat, GrownTo(g, end, items, k + 1), NEW x \in Item
  PROVE  GrownTo(AddAfter(g, end, x)[1], AddAfter(g, end, x)[2], items \o <<x>>, k)
<1>0. PICK cells, held : /\ ListIn(g, cells, held, None) /\ end = cells[Len(cells)]
                         /\ HasFresh(g, k + 1) /\ Present(held) = items
  BY DEF GrownTo
<1> DEFINE n == Len(cells)
<1>1. n \in Nat /\ n \in 1..n /\ cells \in Seq(Cell \cup {List}) BY <1>0, ListSays
<1>2. HasFirst(g, end) <=> held[n] # None BY <1>0, <1>1, EndIs
<1>3. x \notin Cell BY CellsAreNew
<1>4. end \notin Cell \/ end \in AllNodes(g) BY <1>0, <1>1, CellsInGraph
<1>5. CASE HasFirst(g, end)
  <2> DEFINE f == Fresh(g)
  <2> DEFINE h == With(g, end, "rest", f)
  <2> DEFINE w == With(h, f, "first", x)
  <2>1. /\ f \in Cell /\ f # None /\ f # "nil"
        /\ Objects(g, f, "first") = {} /\ Objects(g, f, "rest") = {}
        /\ \A i \in 1..n : cells[i] # f
    BY <1>0, FreshIs
  <2>2. AddAfter(g, end, x) = <<w, f>> BY <1>5 DEF AddAfter, With
  <2>3. AllNodes(w) = AllNodes(g) \cup {end, f, x}
    <3>1. AllNodes(h) = AllNodes(g) \cup {end, f} BY NodesWith
    <3>2. AllNodes(w) = AllNodes(h) \cup {f, x} BY NodesWith
    <3> QED BY <3>1, <3>2
  <2> HIDE DEF f
  <2>4. /\ ListIn(w, Append(cells, f), Append(held, x), None)
        /\ Present(Append(held, x)) = Present(held) \o <<x>>
    BY <1>0, <2>1, Linked
  <2> HIDE DEF w
  <2>5. HasFresh(w, k) BY <1>0, <2>3, <1>3, <1>4, FreshLeft
  <2>6. Append(cells, f)[Len(Append(cells, f))] = f BY <1>1, <2>1
  <2>7. AddAfter(g, end, x)[1] = w /\ AddAfter(g, end, x)[2] = f BY <2>2
  <2> DEFINE ncells == Append(cells, f)
  <2> DEFINE nheld == Append(held, x)
  <2>8. /\ ListIn(AddAfter(g, end, x)[1], ncells, nheld, None)
        /\ AddAfter(g, end, x)[2] = ncells[Len(ncells)]
        /\ HasFresh(AddAfter(g, end, x)[1], k)
        /\ Present(nheld) = Present(held) \o <<x>>
    BY <2>4, <2>5, <2>6, <2>7
  <2> HIDE DEF ncells, nheld
  <2> QED BY <1>0, <2>8 DEF GrownTo
<1>6. CASE ~HasFirst(g, end)
  <2> DEFINE w == With(g, end, "first", x)
  <2>1. AddAfter(g, end, x) = <<w, end>> BY <1>6 DEF AddAfter, With
  <2>2. held[n] = None BY <1>2, <1>6
  <2>3. PICK nheld : ListIn(w, cells, nheld, None) /\ Present(nheld) = Present(held) \o <<x>>
    BY <1>0, <2>2, CellFilled
  <2>4. AllNodes(w) = AllNodes(g) \cup {end, x} BY NodesWith
  <2> HIDE DEF w
  <2>5. HasFresh(w, k) BY <1>0, <2>4, <1>3, <1>4, FreshLeft
  <2>6. AddAfter(g, end, x)[1] = w /\ AddAfter(g, end, x)[2] = end BY <2>1
  <2> QED BY <1>0, <2>3, <2>5, <2>6 DEF GrownTo
<1> QED BY <1>5, <1>6

LEMMA Appended ==
  ASSUME NEW g, NEW cells, NEW held, NEW tail, ListIn(g, cells, held, tail),
         NEW i \in 1..Len(cells), HasFresh(g, 1), NEW x \in Item
  PROVE  \E ncells, nheld :
           /\ ListIn(AppendItem(g, cells[i], x), ncells, nheld, "nil")
           /\ Present(nheld) = Present(held) \o <<x>>
<1> DEFINE n == Len(cells)
<1> DEFINE end == EndOf(g, cells[i])
<1>1. end = cells[n] /\ (HasFirst(g, end) <=> held[n] # None) BY EndIs
<1>2. cells \in Seq(Cell \cup {List}) /\ n \in 1..n /\ cells[n] # None BY ListSays
<1>3. CASE HasFirst(g, end)
  <2> DEFINE f == Fresh(g)
  <2> DEFINE u == Without(g, end, "rest")
  <2> DEFINE h == With(u, end, "rest", f)
  <2> DEFINE v == With(h, f, "first", x)
  <2> DEFINE w == With(v, f, "rest", "nil")
  <2>1. AppendItem(g, cells[i], x) = w BY <1>3 DEF AppendItem, SetValue, With
  <2> HIDE DEF end
  <2>2. HasFresh(g, 0 + 1) /\ 0 \in Nat OBVIOUS
  <2>3. /\ f \in Cell /\ f # None /\ f # "nil"
        /\ Objects(g, f, "first") = {} /\ Objects(g, f, "rest") = {}
        /\ \A j \in 1..n : cells[j] # f
    BY <2>2, FreshIs
  <2>4. end # None BY <1>1, <1>2
  <2> HIDE DEF f
  <2>5. ListIn(u, cells, held, None) BY <1>1, Opened
  <2>6. Objects(u, f, "first") = {} /\ Objects(u, f, "rest") = {}
    BY <2>3, <2>4, Names, WithoutIs
  <2> HIDE DEF u
  <2>7. /\ ListIn(v, Append(cells, f), Append(held, x), None)
        /\ Present(Append(held, x)) = Present(held) \o <<x>>
    BY <1>1, <2>3, <2>5, <2>6, Linked
  <2> HIDE DEF v
  <2>8. Append(cells, f)[Len(Append(cells, f))] = f BY <1>2, <2>3
  <2> DEFINE ncells == Append(cells, f)
  <2> DEFINE nheld == Append(held, x)
  <2> HIDE DEF ncells, nheld
  <2>9. ListIn(v, ncells, nheld, None) /\ f = ncells[Len(ncells)] BY <2>7, <2>8 DEF ncells, nheld
  <2>10. ListIn(w, ncells, nheld, "nil") BY <2>9, Closed
  <2>11. Present(nheld) = Present(held) \o <<x>> BY <2>7 DEF nheld
  <2> QED BY <2>1, <2>10, <2>11
<1>4. CASE ~HasFirst(g, end)
  <2> DEFINE v == With(g, end, "first", x)
  <2> DEFINE w == With(v, end, "rest", "nil")
  <2>1. AppendItem(g, cells[i], x) = w BY <1>4 DEF AppendItem, With
  <2> HIDE DEF end
  <2>2. held[n] = None BY <1>1, <1>4
  <2>3. PICK nheld : ListIn(v, cells, nheld, tail) /\ Present(nheld) = Present(held) \o <<x>>
    BY <1>1, <2>2, CellFilled
  <2> HIDE DEF v
  <2>4. ListIn(w, cells, nheld, "nil") BY <1>1, <2>3, Closed
  <2> QED BY <2>1, <2>3, <2>4
<1> QED BY <1>3, <1>4

(* +=, an item at a time. *)
Grows(f, g, end, items) ==
  f = [n \in 0..Len(items) |-> IF n = 0 THEN <<Without(g, end, "rest"), end>>
                               ELSE AddAfter(f[n - 1][1], f[n - 1][2], items[n])]

LEMMA GrowthExists ==
  ASSUME NEW g, NEW end, NEW items, Len(items) \in Nat
  PROVE  \E f : Grows(f, g, end, items)
<1> DEFINE Reached(f, m) ==
      f = [n \in 0..m |-> IF n = 0 THEN <<Without(g, end, "rest"), end>>
                          ELSE AddAfter(f[n - 1][1], f[n - 1][2], items[n])]
<1> DEFINE N == {m \in Nat : \E f : Reached(f, m)}
<1>1. 0 \in N
  <2>1. Reached([n \in 0..0 |-> <<Without(g, end, "rest"), end>>], 0) OBVIOUS
  <2> QED BY <2>1
<1>2. ASSUME NEW m \in N PROVE m + 1 \in N
  <2>1. PICK f : Reached(f, m) OBVIOUS
  <2> DEFINE last == AddAfter(f[m][1], f[m][2], items[m + 1])
  <2> DEFINE e == [k \in 0..(m + 1) |-> IF k = m + 1 THEN last ELSE f[k]]
  <2>2. \A k \in 0..m : e[k] = f[k] OBVIOUS
  <2>3. \A k \in 0..m : f[k] = IF k = 0 THEN <<Without(g, end, "rest"), end>>
                               ELSE AddAfter(f[k - 1][1], f[k - 1][2], items[k])
    BY <2>1
  <2>4. e[m + 1] = AddAfter(e[m][1], e[m][2], items[m + 1]) BY <2>2
  <2>5. ASSUME NEW k \in 0..(m + 1)
        PROVE  e[k] = IF k = 0 THEN <<Without(g, end, "rest"), end>>
                      ELSE AddAfter(e[k - 1][1], e[k - 1][2], items[k])
    <3>1. CASE k = m + 1 BY <3>1, <2>4
    <3>2. CASE k \in 0..m
      <4>1. k # 0 => k - 1 \in 0..m BY <3>2
      <4> HIDE DEF e
      <4> QED BY <3>2, <4>1, <2>2, <2>3
    <3> QED BY <3>1, <3>2
  <2>6. e = [k \in 0..(m + 1) |-> e[k]] OBVIOUS
  <2> HIDE DEF e
  <2>7. Reached(e, m + 1) BY <2>5, <2>6
  <2> QED BY <2>7
<1> HIDE DEF N
<1>3. N \subseteq Nat BY DEF N
<1>4. N = Nat BY <1>1, <1>2, <1>3, EveryNumber
<1> QED BY <1>4 DEF N, Grows

LEMMA Extended ==
  ASSUME NEW g, NEW cells, NEW held, NEW tail, ListIn(g, cells, held, tail),
         NEW i \in 1..Len(cells), NEW items \in Seq(Item), HasFresh(g, Len(items))
  PROVE  \E ncells, nheld :
           /\ ListIn(ExtendItems(g, cells[i], items), ncells, nheld, "nil")
           /\ Present(nheld) = Present(held) \o items
<1> DEFINE m == Len(items)
<1> DEFINE end == EndOf(g, cells[i])
<1> DEFINE f == CHOOSE f : Grows(f, g, end, items)
<1> DEFINE all(n) == Present(held) \o SubSeq(items, 1, n)
<1>0. m \in Nat OBVIOUS
<1>1. end = cells[Len(cells)] BY EndIs
<1>2. ExtendItems(g, cells[i], items) = With(f[m][1], f[m][2], "rest", "nil")
  BY DEF ExtendItems, Grows, With
<1> HIDE DEF end
<1>3. Grows(f, g, end, items) BY <1>0, GrowthExists
<1> HIDE DEF f
<1>4. \A n \in 0..m : f[n] = IF n = 0 THEN <<Without(g, end, "rest"), end>>
                             ELSE AddAfter(f[n - 1][1], f[n - 1][2], items[n])
  BY <1>3 DEF Grows
<1>5. held \in Seq(Slot) /\ Present(held) \in Seq(Slot)
  <2>1. held \in Seq(Slot) BY ListSays
  <2> QED BY <2>1, PresentType, SeqMonotonic
<1>6. GrownTo(f[0][1], f[0][2], all(0), m)
  <2>1. f[0] = <<Without(g, end, "rest"), end>> BY <1>0, <1>4
  <2>2. ListIn(Without(g, end, "rest"), cells, held, None) BY <1>1, Opened
  <2>3. HasFresh(Without(g, end, "rest"), m) BY <1>0, NodesWith, FreshMore
  <2>4. f[0][1] = Without(g, end, "rest") /\ f[0][2] = end BY <2>1
  <2>5. all(0) = Present(held)
    <3>1. SubSeq(items, 1, 0) = <<>> BY SubSeqEmpty
    <3> QED BY <3>1, <1>5, ConcatEmptySeq
  <2> QED BY <1>1, <2>2, <2>3, <2>4, <2>5 DEF GrownTo
<1>7. ASSUME NEW n \in Nat, n + 1 <= m
      PROVE  /\ f[n + 1] = AddAfter(f[n][1], f[n][2], items[n + 1])
             /\ items[n + 1] \in Item /\ m - n = (m - (n + 1)) + 1 /\ m - (n + 1) \in Nat
             /\ all(n + 1) = all(n) \o <<items[n + 1]>>
  <2>1. /\ n + 1 \in 0..m /\ n + 1 # 0 /\ n + 1 - 1 = n /\ n + 1 \in 1..m
        /\ m - n = (m - (n + 1)) + 1 /\ m - (n + 1) \in Nat
    BY <1>0, <1>7
  <2>2. f[n + 1] = AddAfter(f[n][1], f[n][2], items[n + 1]) BY <1>4, <2>1
  <2>3. items[n + 1] \in Item BY <2>1
  <2>4. SubSeq(items, 1, n) \in Seq(Slot) /\ <<items[n + 1]>> \in Seq(Slot)
    <3>1. items[n + 1] \in Slot BY <2>3 DEF Slot
    <3>2. SubSeq(items, 1, n) \in Seq(Item) BY <1>0, <1>7
    <3> QED BY <3>1, <3>2, SeqMonotonic DEF Slot
  <2>5. SubSeq(items, 1, n + 1) = SubSeq(items, 1, n) \o <<items[n + 1]>>
    <3>1. 1 \in 1..m /\ n + 1 \in 1..m /\ n + 1 \in 1..Len(items) BY <2>1
    <3> QED BY <2>1, <3>1, SubSeqRecursiveSecond
  <2>6. PICK p, q, r : p = Present(held) /\ q = SubSeq(items, 1, n) /\ r = <<items[n + 1]>>
    OBVIOUS
  <2>7. p \in Seq(Slot) /\ q \in Seq(Slot) /\ r \in Seq(Slot) BY <1>5, <2>4, <2>6
  <2>8. (p \o q) \o r = p \o (q \o r) BY <2>7, ConcatAssociative
  <2>9. all(n + 1) = all(n) \o <<items[n + 1]>> BY <2>5, <2>6, <2>8
  <2> HIDE DEF all
  <2> QED BY <2>1, <2>2, <2>3, <2>9
<1> HIDE DEF all
<1> DEFINE N == {n \in Nat : n <= m => GrownTo(f[n][1], f[n][2], all(n), m - n)}
<1>8. 0 \in N
  <2>1. m - 0 = m BY <1>0
  <2> QED BY <1>6, <2>1
<1>9. ASSUME NEW n \in N PROVE n + 1 \in N
  <2> SUFFICES ASSUME n + 1 <= m
               PROVE  GrownTo(f[n + 1][1], f[n + 1][2], all(n + 1), m - (n + 1))
    OBVIOUS
  <2>1. n \in Nat /\ n <= m BY <1>0
  <2>2. GrownTo(f[n][1], f[n][2], all(n), m - n) BY <2>1
  <2> HIDE DEF N
  <2>3. /\ f[n + 1] = AddAfter(f[n][1], f[n][2], items[n + 1])
        /\ items[n + 1] \in Item /\ m - n = (m - (n + 1)) + 1 /\ m - (n + 1) \in Nat
        /\ all(n + 1) = all(n) \o <<items[n + 1]>>
    BY <1>7, <2>1
  <2>4. PICK b, e, s, k, x : /\ b = f[n][1] /\ e = f[n][2] /\ s = all(n)
                             /\ k = m - (n + 1) /\ x = items[n + 1]
    OBVIOUS
  <2>5. k \in Nat /\ x \in Item /\ GrownTo(b, e, s, k + 1) BY <2>2, <2>3, <2>4
  <2>6. GrownTo(AddAfter(b, e, x)[1], AddAfter(b, e, x)[2], s \o <<x>>, k) BY <2>5, ItemAdded
  <2> QED BY <2>3, <2>4, <2>6
<1> HIDE DEF N
<1>10. N \subseteq Nat BY DEF N
<1>11. N = Nat BY <1>8, <1>9, <1>10, EveryNumber
<1>12. GrownTo(f[m][1], f[m][2], all(m), m - m) BY <1>0, <1>11 DEF N
<1>13. PICK c, h : /\ ListIn(f[m][1], c, h, None) /\ f[m][2] = c[Len(c)] /\ Present(h) = all(m)
  BY <1>12 DEF GrownTo
<1>14. ListIn(With(f[m][1], f[m][2], "rest", "nil"), c, h, "nil") BY <1>13, Closed
<1>15. all(m) = Present(held) \o items
  <2>1. SubSeq(items, 1, m) = items BY SubSeqFull
  <2> QED BY <2>1 DEF all
<1> QED BY <1>2, <1>13, <1>14, <1>15

LEMMA FrontIs ==
  ASSUME NEW U, NEW s \in Seq(U), NEW p \in 1..Len(s)
  PROVE  /\ SubSeq(s, 1, p) \in Seq(U) /\ Len(SubSeq(s, 1, p)) = p
         /\ \A j \in 1..p : SubSeq(s, 1, p)[j] = s[j]
OBVIOUS

LEMMA FrontChain ==
  ASSUME NEW cells, NEW held, IsChain(cells, held), NEW p \in 1..Len(cells),
         NEW nheld \in Seq(Slot), Len(nheld) = p
  PROVE  IsChain(SubSeq(cells, 1, p), nheld)
<1> DEFINE c == SubSeq(cells, 1, p)
<1>1. cells \in Seq(Cell \cup {List}) /\ p \in 1..Len(cells) BY DEF IsChain
<1>2. c \in Seq(Cell \cup {List}) /\ Len(c) = p /\ \A j \in 1..p : c[j] = cells[j]
  BY <1>1, FrontIs
<1> HIDE DEF c
<1>3. p >= 1 /\ p \in 1..p /\ 1 \in 1..p /\ \A j \in 1..p : j \in 1..Len(cells) BY <1>1
<1>4. \A i, j \in 1..p : c[i] = c[j] => i = j BY <1>2, <1>3 DEF IsChain
<1>5. c[1] = List BY <1>2, <1>3 DEF IsChain
<1>6. IsChain(c, nheld) BY <1>2, <1>3, <1>4, <1>5 DEF IsChain
<1> QED BY <1>6 DEF c

(* A list is ended at one of its cells. *)
LEMMA Ended ==
  ASSUME NEW g, NEW cells, NEW held, NEW tail, ListIn(g, cells, held, tail),
         NEW p \in 1..Len(cells), NEW end, end = cells[p]
  PROVE  ListIn(SetValue(g, end, "rest", "nil"), SubSeq(cells, 1, p), SubSeq(held, 1, p), "nil")
<1> DEFINE n == Len(cells)
<1> DEFINE h == SetValue(g, end, "rest", "nil")
<1> DEFINE c == SubSeq(cells, 1, p)
<1> DEFINE s == SubSeq(held, 1, p)
<1>1. /\ TriplesOnly(g) /\ n \in Nat /\ IsChain(cells, held)
      /\ cells \in Seq(Cell \cup {List}) /\ held \in Seq(Slot) /\ Len(held) = n
      /\ \A i, j \in 1..n : cells[i] = cells[j] => i = j
      /\ \A i \in 1..n :
           /\ cells[i] # None /\ cells[i] # "nil"
           /\ Objects(g, cells[i], "first") = Only(held[i])
           /\ Objects(g, cells[i], "rest") = Only(NextCell(cells, tail, i))
      /\ Objects(g, "nil", "first") = {} /\ Objects(g, "nil", "rest") = {}
  BY ListSays
<1>2. TriplesOnly(h) BY <1>1, TriplesStay
<1>3. end # None /\ end # "nil" BY <1>1
<1>4. ASSUME NEW a, NEW b, a # None, b # None
      PROVE  Objects(h, a, b) = IF a = end /\ b = "rest" THEN {"nil"} ELSE Objects(g, a, b)
  BY ONLY <1>3, <1>4, Names, SetValueIs DEF h
<1>5. Len(c) = p /\ \A j \in 1..p : c[j] = cells[j] BY <1>1, FrontIs
<1>6. s \in Seq(Slot) /\ Len(s) = p /\ \A j \in 1..p : s[j] = held[j]
  <2>1. p \in 1..Len(held) BY <1>1
  <2> QED BY <1>1, <2>1, FrontIs
<1>7. IsChain(c, s) BY <1>1, <1>6, FrontChain
<1> HIDE DEF h, c, s
<1>8. Objects(h, "nil", "first") = {} /\ Objects(h, "nil", "rest") = {}
  BY <1>1, <1>3, <1>4, Names
<1>9. LinksOf(h, c, s, "nil")
  <2> SUFFICES ASSUME NEW i \in 1..p
               PROVE  /\ Objects(h, cells[i], "first") = Only(held[i])
                      /\ Objects(h, cells[i], "rest") = Only(NextCell(c, "nil", i))
    BY <1>5, <1>6 DEF LinksOf
  <2>1. i \in 1..n /\ p \in 1..n BY <1>1
  <2>2. Objects(h, cells[i], "first") = Only(held[i]) BY <1>1, <1>4, <2>1, Names
  <2>3. CASE i = p
    <3>1. NextCell(c, "nil", i) = "nil" BY <1>5, <2>1, <2>3 DEF NextCell
    <3>2. Objects(h, cells[i], "rest") = {"nil"} BY <1>3, <1>4, <2>3, Names
    <3>3. Only("nil") = {"nil"} BY Names DEF Only
    <3> QED BY <2>2, <3>1, <3>2, <3>3
  <2>4. CASE i # p
    <3>1. i < p /\ i < n /\ i + 1 \in 1..p /\ cells[i] # end BY <1>1, <2>1, <2>4
    <3>2. NextCell(c, "nil", i) = cells[i + 1] BY <1>5, <3>1 DEF NextCell
    <3>3. NextCell(cells, tail, i) = cells[i + 1] BY <3>1 DEF NextCell
    <3>4. Objects(h, cells[i], "rest") = Objects(g, cells[i], "rest")
      BY <1>1, <1>4, <2>1, <3>1, Names
    <3> QED BY <1>1, <2>1, <2>2, <3>2, <3>3, <3>4
  <2> QED BY <2>3, <2>4
<1>10. ListIn(h, c, s, "nil") BY <1>2, <1>7, <1>8, <1>9 DEF ListIn
<1> QED BY <1>10 DEF h, c, s

(* A cell that is none of the list's is taken away. *)
LEMMA Dropped ==
  ASSUME NEW g, NEW cells, NEW held, NEW tail, ListIn(g, cells, held, tail),
         NEW y, y # None, \A i \in 1..Len(cells) : cells[i] # y
  PROVE  ListIn(Without(g, y, None), cells, held, tail)
<1> DEFINE h == Without(g, y, None)
<1>1. /\ TriplesOnly(g) /\ IsChain(cells, held) /\ tail \in {None, "nil"}
      /\ \A i \in 1..Len(cells) :
           /\ cells[i] # None
           /\ Objects(g, cells[i], "first") = Only(held[i])
           /\ Objects(g, cells[i], "rest") = Only(NextCell(cells, tail, i))
      /\ Objects(g, "nil", "first") = {} /\ Objects(g, "nil", "rest") = {}
  BY ListSays
<1>2. TriplesOnly(h) BY <1>1, TriplesStay
<1>4. ASSUME NEW a, NEW b, a # None, b # None
      PROVE  Objects(h, a, b) = IF a = y THEN {} ELSE Objects(g, a, b)
  BY <1>4, WithoutIs
<1> HIDE DEF h
<1>5. Objects(h, "nil", "first") = {} /\ Objects(h, "nil", "rest") = {} BY <1>1, <1>4, Names
<1>6. LinksOf(h, cells, held, tail) BY <1>1, <1>4, Names DEF LinksOf
<1> QED BY <1>1, <1>2, <1>5, <1>6 DEF ListIn, h

(* The last cell is emptied. *)
Emptied(held, i) == Append(SubSeq(held, 1, i - 1), None)

LEMMA EmptiedIs ==
  ASSUME NEW held \in Seq(Slot), NEW i \in 1..Len(held)
  PROVE  /\ Emptied(held, i) \in Seq(Slot) /\ Len(Emptied(held, i)) = i
         /\ \A j \in 1..i : Emptied(held, i)[j] = IF j = i THEN None ELSE held[j]
         /\ Present(Emptied(held, i)) = Present(SubSeq(held, 1, i - 1))
<1> DEFINE a == SubSeq(held, 1, i - 1)
<1>1. /\ a \in Seq(Slot) /\ Len(a) = i - 1 /\ \A j \in 1..(i - 1) : a[j] = held[j]
  OBVIOUS
<1>2. None \in Slot BY DEF Slot
<1>3. i \in Nat OBVIOUS
<1> HIDE DEF a
<1>4. /\ Append(a, None) \in Seq(Slot) /\ Len(Append(a, None)) = i
      /\ \A j \in 1..i : Append(a, None)[j] = IF j = i THEN None ELSE held[j]
  <2>1. /\ Append(a, None) \in Seq(Slot) /\ Len(Append(a, None)) = Len(a) + 1
        /\ \A j \in 1..Len(a) : Append(a, None)[j] = a[j]
        /\ Append(a, None)[Len(a) + 1] = None
    BY <1>1, <1>2, AppendProperties
  <2>2. Len(a) + 1 = i /\ \A j \in 1..i : j = i \/ j \in 1..(i - 1) BY <1>1, <1>3
  <2> QED BY <1>1, <2>1, <2>2
<1>5. Present(Append(a, None)) = Present(a) BY <1>1, <1>2, PresentStep
<1> QED BY <1>4, <1>5 DEF Emptied, a

LEMMA EndEmptied ==
  ASSUME NEW g, NEW cells, NEW held, NEW tail, ListIn(g, cells, held, tail),
         NEW end, end = cells[Len(cells)]
  PROVE  ListIn(Without(g, end, None), cells, Emptied(held, Len(cells)), None)
<1> DEFINE n == Len(cells)
<1> DEFINE h == Without(g, end, None)
<1> DEFINE s == Emptied(held, n)
<1>1. /\ TriplesOnly(g) /\ n \in 1..n /\ n \in Nat /\ IsChain(cells, held)
      /\ held \in Seq(Slot) /\ Len(held) = n
      /\ \A i, j \in 1..n : cells[i] = cells[j] => i = j
      /\ \A i \in 1..n :
           /\ cells[i] # None /\ cells[i] # "nil"
           /\ Objects(g, cells[i], "first") = Only(held[i])
           /\ Objects(g, cells[i], "rest") = Only(NextCell(cells, tail, i))
      /\ Objects(g, "nil", "first") = {} /\ Objects(g, "nil", "rest") = {}
  BY ListSays
<1>2. TriplesOnly(h) BY <1>1, TriplesStay
<1>3. end # None /\ end # "nil" BY <1>1
<1>4. ASSUME NEW a, NEW b, a # None, b # None
      PROVE  Objects(h, a, b) = IF a = end THEN {} ELSE Objects(g, a, b)
  BY ONLY <1>3, <1>4, WithoutIs DEF h
<1>5. s \in Seq(Slot) /\ Len(s) = n /\ \A j \in 1..n : s[j] = IF j = n THEN None ELSE held[j]
  BY <1>1, EmptiedIs
<1> HIDE DEF h, s
<1>6. IsChain(cells, s) BY <1>1, <1>5 DEF IsChain
<1>7. Objects(h, "nil", "first") = {} /\ Objects(h, "nil", "rest") = {} BY <1>1, <1>3, <1>4, Names
<1>8. LinksOf(h, cells, s, None)
  <2> SUFFICES ASSUME NEW i \in 1..n
               PROVE  /\ Objects(h, cells[i], "first") = Only(s[i])
                      /\ Objects(h, cells[i], "rest") = Only(NextCell(cells, None, i))
    BY DEF LinksOf
  <2>1. CASE i = n
    <3>1. NextCell(cells, None, i) = None /\ s[i] = None BY <1>5, <2>1 DEF NextCell
    <3>2. Objects(h, end, "first") = {} /\ Objects(h, end, "rest") = {} BY <1>3, <1>4, Names
    <3>3. Only(None) = {} BY DEF Only
    <3> QED BY <2>1, <3>1, <3>2, <3>3
  <2>2. CASE i # n
    <3>1. i < n /\ cells[i] # end BY <1>1, <2>2
    <3>2. NextCell(cells, None, i) = NextCell(cells, tail, i) BY <3>1 DEF NextCell
    <3>3. /\ Objects(h, cells[i], "first") = Objects(g, cells[i], "first")
          /\ Objects(h, cells[i], "rest") = Objects(g, cells[i], "rest")
      BY <1>1, <1>4, <3>1, Names
    <3> QED BY <1>1, <1>5, <2>2, <3>2, <3>3
  <2> QED BY <2>1, <2>2
<1> QED BY <1>2, <1>6, <1>7, <1>8 DEF ListIn, h, s

(* A cell in the middle is taken out. *)
LEMMA CellRemoved ==
  ASSUME NEW g, NEW cells, NEW held, NEW tail, ListIn(g, cells, held, tail),
         NEW q \in 2..(Len(cells) - 1), NEW x, NEW y, NEW z,
         x = cells[q - 1], y = cells[q], z = cells[q + 1]
  PROVE  ListIn(SetValue(Without(g, y, None), x, "rest", z), RemoveAt(cells, q),
                RemoveAt(held, q), tail)
<1> DEFINE n == Len(cells)
<1> DEFINE w == Without(g, y, None)
<1> DEFINE h == SetValue(w, x, "rest", z)
<1> DEFINE c == RemoveAt(cells, q)
<1> DEFINE s == RemoveAt(held, q)
<1> DEFINE old(j) == IF j < q THEN j ELSE j + 1
<1>1. /\ TriplesOnly(g) /\ n \in Nat /\ IsChain(cells, held) /\ tail \in {None, "nil"}
      /\ cells \in Seq(Cell \cup {List}) /\ held \in Seq(Slot) /\ Len(held) = n
      /\ cells[1] = List
      /\ \A i, j \in 1..n : cells[i] = cells[j] => i = j
      /\ \A i \in 1..n :
           /\ cells[i] # None /\ cells[i] # "nil"
           /\ Objects(g, cells[i], "first") = Only(held[i])
           /\ Objects(g, cells[i], "rest") = Only(NextCell(cells, tail, i))
      /\ Objects(g, "nil", "first") = {} /\ Objects(g, "nil", "rest") = {}
  BY ListSays
<1>2. q \in 1..n /\ q - 1 \in 1..n /\ q + 1 \in 1..n /\ q \in Nat /\ q - 1 # q /\ q + 1 # q BY <1>1
<1>3. x # None /\ x # "nil" /\ y # None /\ y # "nil" /\ x # y /\ z # None BY <1>1, <1>2
<1>4. TriplesOnly(h)
  <2>1. TriplesOnly(w) BY <1>1, TriplesStay
  <2> HIDE DEF w
  <2> QED BY <2>1, TriplesStay
<1>5. ASSUME NEW a, NEW b, a # None, b # None
      PROVE  Objects(h, a, b) = IF a = x /\ b = "rest" THEN {z}
                                ELSE IF a = y THEN {} ELSE Objects(g, a, b)
  <2>1. Objects(w, a, b) = IF a = y THEN {} ELSE Objects(g, a, b)
    BY ONLY <1>3, <1>5, WithoutIs DEF w
  <2> HIDE DEF w
  <2>2. Objects(h, a, b) = IF a = x /\ b = "rest" THEN {z} ELSE Objects(w, a, b)
    BY ONLY <1>3, <1>5, Names, SetValueIs DEF h
  <2> QED BY <2>1, <2>2
<1>6. c \in Seq(Cell \cup {List}) /\ Len(c) = n - 1 /\ \A j \in 1..(n - 1) : c[j] = cells[old(j)]
  <2>1. /\ c \in Seq(Cell \cup {List}) /\ Len(c) = n - 1
        /\ \A j \in 1..(n - 1) : c[j] = IF j < q THEN cells[j] ELSE cells[j + 1]
    <3>1. cells \in Seq(Cell \cup {List}) /\ q \in 1..Len(cells) BY <1>1, <1>2
    <3> QED BY ONLY <3>1, RemoveAtIs
  <2> QED BY <2>1
<1>7. s \in Seq(Slot) /\ Len(s) = n - 1 /\ \A j \in 1..(n - 1) : s[j] = held[old(j)]
  <2>1. held \in Seq(Slot) /\ q \in 1..Len(held) /\ Len(held) = n BY <1>1, <1>2
  <2>2. /\ s \in Seq(Slot) /\ Len(s) = Len(held) - 1
        /\ \A j \in 1..(Len(held) - 1) : s[j] = IF j < q THEN held[j] ELSE held[j + 1]
    BY ONLY <2>1, RemoveAtIs
  <2> QED BY <2>1, <2>2
<1>8. /\ \A j \in 1..(n - 1) : old(j) \in 1..n /\ old(j) # q
      /\ \A i, j \in 1..(n - 1) : old(i) = old(j) => i = j
      /\ old(1) = 1 /\ 1 \in 1..(n - 1) /\ n - 1 >= 1
  BY <1>1, <1>2
<1> HIDE DEF h, c, s, w
<1>9. IsChain(c, s)
  <2>1. \A i, j \in 1..(n - 1) : c[i] = c[j] => i = j BY <1>1, <1>6, <1>8
  <2>2. c[1] = List BY <1>1, <1>6, <1>8
  <2> QED BY <1>6, <1>7, <1>8, <2>1, <2>2 DEF IsChain
<1>10. Objects(h, "nil", "first") = {} /\ Objects(h, "nil", "rest") = {}
  BY <1>1, <1>3, <1>5, Names
<1>11. LinksOf(h, c, s, tail)
  <2> SUFFICES ASSUME NEW i \in 1..(n - 1)
               PROVE  /\ Objects(h, c[i], "first") = Only(s[i])
                      /\ Objects(h, c[i], "rest") = Only(NextCell(c, tail, i))
    BY <1>6 DEF LinksOf
  <2>1. c[i] = cells[old(i)] /\ s[i] = held[old(i)] /\ old(i) \in 1..n /\ old(i) # q
    BY <1>6, <1>7, <1>8
  <2>2. PICK m : m = old(i) OBVIOUS
  <2>3. m \in 1..n /\ cells[m] # y /\ cells[m] # None BY <1>1, <1>2, <2>1, <2>2
  <2>4. Objects(h, c[i], "first") = Only(s[i]) BY <1>1, <1>5, <2>1, <2>2, <2>3, Names
  <2>5. CASE i = q - 1
    <3>1. m = q - 1 /\ cells[m] = x /\ i < n - 1 /\ i + 1 = q /\ q \in 1..(n - 1)
      BY <1>1, <1>2, <2>2, <2>5
    <3>2. c[q] = z
      <4>1. c[q] = cells[old(q)] BY <1>6, <3>1
      <4>2. old(q) = q + 1 BY <1>2
      <4> QED BY <4>1, <4>2
    <3>3. NextCell(c, tail, i) = z BY <1>6, <3>1, <3>2 DEF NextCell
    <3>4. Objects(h, c[i], "rest") = {z} BY <1>3, <1>5, <2>1, <2>2, <3>1, Names
    <3> QED BY <2>4, <3>3, <3>4, <1>3 DEF Only
  <2>6. CASE i # q - 1
    <3>1. m # q - 1 /\ cells[m] # x BY <1>1, <1>2, <2>2, <2>3, <2>6
    <3>2. Objects(h, c[i], "rest") = Only(NextCell(cells, tail, m))
      BY <1>1, <1>5, <2>1, <2>2, <2>3, <3>1, Names
    <3>3. NextCell(c, tail, i) = NextCell(cells, tail, m)
      <4>1. CASE i < n - 1
        <5>1. i + 1 \in 1..(n - 1) /\ old(i + 1) = m + 1 /\ m < n
          BY <1>1, <1>2, <2>2, <2>6, <4>1
        <5>2. c[i + 1] = cells[old(i + 1)] BY <1>6, <5>1
        <5>3. c[i + 1] = cells[m + 1] BY <5>1, <5>2
        <5> QED BY <1>6, <4>1, <5>1, <5>3 DEF NextCell
      <4>2. CASE i = n - 1
        <5>1. m = n BY <1>1, <1>2, <2>2, <2>6, <4>2
        <5> QED BY <1>6, <1>1, <4>2, <5>1 DEF NextCell
      <4> QED BY <1>1, <4>1, <4>2
    <3> QED BY <2>4, <3>2, <3>3
  <2> QED BY <2>5, <2>6
<1>12. ListIn(h, c, s, tail) BY <1>1, <1>4, <1>9, <1>10, <1>11 DEF ListIn
<1> QED BY <1>12 DEF h, c, s, w

(* A cell is emptied, and linked to the next one again. *)
LEMMA Relinked ==
  ASSUME NEW g, NEW cells, NEW held, NEW tail, ListIn(g, cells, held, tail),
         NEW i \in 1..(Len(cells) - 1), NEW x, NEW z, x = cells[i], z = cells[i + 1]
  PROVE  ListIn(SetValue(Without(g, x, None), x, "rest", z), cells,
                [held EXCEPT ![i] = None], tail)
<1> DEFINE n == Len(cells)
<1> DEFINE w == Without(g, x, None)
<1> DEFINE h == SetValue(w, x, "rest", z)
<1> DEFINE s == [held EXCEPT ![i] = None]
<1>1. /\ TriplesOnly(g) /\ n \in Nat /\ IsChain(cells, held) /\ tail \in {None, "nil"}
      /\ cells \in Seq(Cell \cup {List}) /\ held \in Seq(Slot) /\ Len(held) = n
      /\ \A m, j \in 1..n : cells[m] = cells[j] => m = j
      /\ \A j \in 1..n :
           /\ cells[j] # None /\ cells[j] # "nil"
           /\ Objects(g, cells[j], "first") = Only(held[j])
           /\ Objects(g, cells[j], "rest") = Only(NextCell(cells, tail, j))
      /\ Objects(g, "nil", "first") = {} /\ Objects(g, "nil", "rest") = {}
  BY ListSays
<1>2. i \in 1..n /\ i + 1 \in 1..n /\ i < n BY <1>1
<1>3. x # None /\ x # "nil" /\ z # None BY <1>1, <1>2
<1>4. TriplesOnly(h)
  <2>1. TriplesOnly(w) BY <1>1, TriplesStay
  <2> HIDE DEF w
  <2> QED BY <2>1, TriplesStay
<1>5. ASSUME NEW a, NEW b, a # None, b # None
      PROVE  Objects(h, a, b) = IF a = x THEN IF b = "rest" THEN {z} ELSE {} ELSE Objects(g, a, b)
  <2>1. Objects(w, a, b) = IF a = x THEN {} ELSE Objects(g, a, b)
    BY ONLY <1>3, <1>5, WithoutIs DEF w
  <2> HIDE DEF w
  <2>2. Objects(h, a, b) = IF a = x /\ b = "rest" THEN {z} ELSE Objects(w, a, b)
    BY ONLY <1>3, <1>5, Names, SetValueIs DEF h
  <2> QED BY <2>1, <2>2
<1>6. s \in Seq(Slot) /\ Len(s) = n /\ \A j \in 1..n : s[j] = IF j = i THEN None ELSE held[j]
  BY <1>1, <1>2, ExceptSeq DEF Slot
<1> HIDE DEF h, s, w
<1>7. IsChain(cells, s) BY <1>1, <1>6 DEF IsChain
<1>8. Objects(h, "nil", "first") = {} /\ Objects(h, "nil", "rest") = {}
  BY <1>1, <1>3, <1>5, Names
<1>9. LinksOf(h, cells, s, tail)
  <2> SUFFICES ASSUME NEW j \in 1..n
               PROVE  /\ Objects(h, cells[j], "first") = Only(s[j])
                      /\ Objects(h, cells[j], "rest") = Only(NextCell(cells, tail, j))
    BY DEF LinksOf
  <2>1. CASE j = i
    <3>1. Objects(h, x, "first") = {} /\ Objects(h, x, "rest") = {z} BY <1>3, <1>5, Names
    <3>2. NextCell(cells, tail, j) = z BY <1>2, <2>1 DEF NextCell
    <3>3. Only(s[j]) = {} /\ Only(z) = {z} BY <1>3, <1>6, <2>1 DEF Only
    <3> QED BY <2>1, <3>1, <3>2, <3>3
  <2>2. CASE j # i
    <3>1. cells[j] # x BY <1>1, <1>2, <2>2
    <3> QED BY <1>1, <1>5, <1>6, <2>2, <3>1, Names
  <2> QED BY <2>1, <2>2
<1>10. ListIn(h, cells, s, tail) BY <1>1, <1>4, <1>7, <1>8, <1>9 DEF ListIn
<1> QED BY <1>10 DEF h, s, w

(* A list is cleared from one of its cells on. *)
LEMMA Cleared ==
  ASSUME NEW g, NEW cells, NEW held, NEW tail, ListIn(g, cells, held, tail),
         NEW i \in 1..Len(cells)
  PROVE  ListIn(ClearFrom(g, cells[i]), SubSeq(cells, 1, i), Emptied(held, i), None)
<1> DEFINE n == Len(cells)
<1> DEFINE h == ClearFrom(g, cells[i])
<1> DEFINE c == SubSeq(cells, 1, i)
<1> DEFINE s == Emptied(held, i)
<1> DEFINE way == Way(cells, tail)
<1> DEFINE W == Len(way)
<1> DEFINE taken == {way[j] : j \in i..W}
<1>1. /\ TriplesOnly(g) /\ n \in Nat /\ IsChain(cells, held) /\ tail \in {None, "nil"}
      /\ cells \in Seq(Cell \cup {List}) /\ held \in Seq(Slot) /\ Len(held) = n
      /\ \A m, j \in 1..n : cells[m] = cells[j] => m = j
      /\ \A j \in 1..n :
           /\ cells[j] # None /\ cells[j] # "nil"
           /\ Objects(g, cells[j], "first") = Only(held[j])
           /\ Objects(g, cells[j], "rest") = Only(NextCell(cells, tail, j))
      /\ Objects(g, "nil", "first") = {} /\ Objects(g, "nil", "rest") = {}
  BY ListSays
<1>2. /\ way \in Seq(Cell \cup {List, "nil"}) /\ W >= n
      /\ \A m, j \in 1..W : way[m] = way[j] => m = j
      /\ \A j \in 1..n : way[j] = cells[j]
  <2>1. /\ way \in Seq(Cell \cup {List, "nil"}) /\ W >= n
        /\ \A m, j \in 1..W : way[m] = way[j] => m = j
        /\ \A j \in 1..W : j <= n => way[j] = cells[j]
    BY WayIs
  <2> HIDE DEF way
  <2>2. W \in Nat BY <2>1
  <2>3. \A j \in 1..n : j \in 1..W /\ j <= n BY <1>1, <2>1, <2>2
  <2> QED BY <2>1, <2>3
<1>3. CellsOf(g, cells[i]) = SubSeq(way, i, W) BY ItemsAre
<1> HIDE DEF way
<1>4. W \in Nat /\ i \in 1..n /\ i \in Nat /\ i \in i..W BY <1>1, <1>2
<1>5. ToSet(CellsOf(g, cells[i])) = taken
  <2> DEFINE u == SubSeq(way, i, W)
  <2>1. Len(u) = W - i + 1 /\ \A j \in 1..(W - i + 1) : u[j] = way[i + j - 1]
    BY <1>2, <1>4
  <2>2. DOMAIN u = 1..(W - i + 1) BY <1>2, <1>4
  <2> HIDE DEF u
  <2>3. \A j \in 1..(W - i + 1) : i + j - 1 \in i..W BY <1>4
  <2>4. ASSUME NEW j \in i..W PROVE j - i + 1 \in 1..(W - i + 1) /\ way[j] = u[j - i + 1]
    <3>1. j - i + 1 \in 1..(W - i + 1) /\ i + (j - i + 1) - 1 = j BY <1>4
    <3> QED BY <2>1, <3>1
  <2>5. ToSet(u) = taken
    <3>1. ToSet(u) = {u[j] : j \in 1..(W - i + 1)} BY <2>2 DEF ToSet
    <3>2. ToSet(u) \subseteq taken BY <3>1, <2>1, <2>3
    <3>3. taken \subseteq ToSet(u) BY <3>1, <2>4
    <3> QED BY <3>2, <3>3
  <2> QED BY <2>5, <1>3 DEF u
<1>6. h = {t \in g : t[1] \notin taken \/ t[2] \notin {"first", "rest"}}
  BY <1>5 DEF ClearFrom
<1>7. TriplesOnly(h)
  <2>1. h \subseteq g BY <1>6
  <2>2. IsFiniteSet(h) BY <1>1, <2>1, FS_Subset DEF TriplesOnly
  <2> QED BY <1>1, <2>1, <2>2 DEF TriplesOnly
<1> HIDE DEF taken
<1>8. ASSUME NEW a, NEW b, a # None, b \in {"first", "rest"}
      PROVE  Objects(h, a, b) = IF a \in taken THEN {} ELSE Objects(g, a, b)
  BY <1>6, <1>8, Names DEF Objects, Triples, Matches
<1>9. \A j \in 1..n : cells[j] \in taken <=> j >= i
  <2> TAKE j \in 1..n
  <2>1. j \in 1..W /\ cells[j] = way[j] BY <1>1, <1>2, <1>4
  <2>2. \A m \in i..W : m \in 1..W BY <1>4
  <2>3. j >= i => j \in i..W BY <2>1, <1>4
  <2> QED BY <1>2, <2>1, <2>2, <2>3 DEF taken
<1>10. Len(c) = i /\ \A j \in 1..i : c[j] = cells[j] BY <1>1, FrontIs
<1>11. s \in Seq(Slot) /\ Len(s) = i /\ \A j \in 1..i : s[j] = IF j = i THEN None ELSE held[j]
  BY <1>1, EmptiedIs
<1>12. IsChain(c, s) BY <1>1, <1>11, FrontChain
<1> HIDE DEF h, c, s
<1>13. Objects(h, "nil", "first") = {} /\ Objects(h, "nil", "rest") = {} BY <1>1, <1>8, Names
<1>14. LinksOf(h, c, s, None)
  <2> SUFFICES ASSUME NEW j \in 1..i
               PROVE  /\ Objects(h, cells[j], "first") = Only(s[j])
                      /\ Objects(h, cells[j], "rest") = Only(NextCell(c, None, j))
    BY <1>10, <1>11 DEF LinksOf
  <2>0. j \in 1..n BY <1>1, <1>4
  <2>1. CASE j = i
    <3>1. Objects(h, cells[j], "first") = {} /\ Objects(h, cells[j], "rest") = {}
      BY <1>1, <1>4, <1>8, <1>9, <2>0, <2>1
    <3>2. NextCell(c, None, j) = None /\ s[j] = None BY <1>10, <1>11, <2>1 DEF NextCell
    <3>3. Only(None) = {} BY DEF Only
    <3> QED BY <3>1, <3>2, <3>3
  <2>2. CASE j # i
    <3>1. j < i /\ j < n /\ j + 1 \in 1..i /\ ~(j >= i) BY <1>4, <2>0, <2>2
    <3>2. /\ Objects(h, cells[j], "first") = Objects(g, cells[j], "first")
          /\ Objects(h, cells[j], "rest") = Objects(g, cells[j], "rest")
      BY <1>1, <1>8, <1>9, <2>0, <3>1
    <3>3. NextCell(c, None, j) = cells[j + 1] BY <1>10, <3>1 DEF NextCell
    <3>4. NextCell(cells, tail, j) = cells[j + 1] BY <3>1 DEF NextCell
    <3> QED BY <1>1, <1>11, <2>0, <2>2, <3>2, <3>3, <3>4
  <2> QED BY <2>1, <2>2
<1>15. ListIn(h, c, s, None) BY <1>7, <1>12, <1>13, <1>14 DEF ListIn
<1> QED BY <1>15 DEF h, c, s

(* The slots before a cell, and from it on; whether the items come first. *)
Before(held, i) == SubSeq(held, 1, i - 1)
RestFrom(held, i) == SubSeq(held, i, Len(held))
Full(held) == \A j \in 1..Len(Present(held)) : held[j] # None

LEMMA FullIs ==
  ASSUME NEW B \in Seq(Slot), Full(B)
  PROVE  /\ Present(B) \in Seq(Item) /\ Len(Present(B)) \in 0..Len(B)
         /\ \A j \in 1..Len(Present(B)) : B[j] # None /\ Present(B)[j] = B[j] /\ j \in 1..Len(B)
         /\ \A j \in (Len(Present(B)) + 1)..Len(B) : B[j] = None
<1>1. /\ Len(Present(B)) \in 0..Len(B)
      /\ \A j \in (Len(Present(B)) + 1)..Len(B) : B[j] = None
      /\ Present(B) = SubSeq(B, 1, Len(Present(B)))
  BY AlignedFront DEF Full
<1>2. Present(B) \in Seq(Item)
  <2>1. Slot \ {None} = Item BY CellsAreNew DEF Slot
  <2> QED BY <2>1, PresentType
<1> DEFINE m == Len(Present(B))
<1>3. m \in 0..Len(B) /\ Len(B) \in Nat BY <1>1
<1>4. \A j \in 1..m : B[j] # None BY DEF Full
<1> HIDE DEF m
<1>5. \A j \in 1..m : SubSeq(B, 1, m)[j] = B[j] /\ j \in 1..Len(B) BY <1>3
<1>6. Present(B) = SubSeq(B, 1, m) BY <1>1 DEF m
<1>7. \A j \in 1..m : B[j] # None /\ Present(B)[j] = B[j] /\ j \in 1..Len(B) BY <1>4, <1>5, <1>6
<1> QED BY <1>1, <1>2, <1>7 DEF m

LEMMA Shortened ==
  ASSUME NEW B \in Seq(Slot), Full(B), NEW k \in 1..Len(Present(B)),
         NEW N \in Seq(Slot), Len(Present(B)) - 1 <= Len(N),
         \A j \in 1..(Len(Present(B)) - 1) : N[j] = IF j < k THEN B[j] ELSE B[j + 1],
         \A j \in Len(Present(B))..Len(N) : N[j] = None
  PROVE  Present(N) = RemoveAt(Present(B), k)
<1>0. PICK P, m : P = Present(B) /\ m = Len(P) OBVIOUS
<1>1. /\ P \in Seq(Item) /\ m \in Nat
      /\ \A j \in 1..m : B[j] # None /\ P[j] = B[j]
  BY <1>0, FullIs
<1>2. k \in 1..m /\ m - 1 \in 0..Len(N) /\ Len(N) \in Nat BY <1>0, <1>1
<1>3. \A j \in 1..(m - 1) : N[j] = IF j < k THEN P[j] ELSE P[j + 1]
  <2> TAKE j \in 1..(m - 1)
  <2>1. j \in 1..m /\ j + 1 \in 1..m BY <1>1
  <2> QED BY <2>1, <1>0, <1>1
<1>4. \A j \in 1..(m - 1) : N[j] # None
  <2> TAKE j \in 1..(m - 1)
  <2>1. j \in 1..m /\ j + 1 \in 1..m BY <1>1
  <2> QED BY <2>1, <1>0, <1>1
<1>5. \A j \in ((m - 1) + 1)..Len(N) : N[j] = None BY <1>0, <1>1
<1>6. Present(N) = SubSeq(N, 1, m - 1) BY <1>2, <1>4, <1>5, PresentFront
<1>7. /\ RemoveAt(P, k) \in Seq(Item) /\ Len(RemoveAt(P, k)) = m - 1
      /\ \A j \in 1..(m - 1) : RemoveAt(P, k)[j] = IF j < k THEN P[j] ELSE P[j + 1]
  BY <1>0, <1>1, <1>2, RemoveAtIs
<1> DEFINE S == SubSeq(N, 1, m - 1)
<1>8. S \in Seq(Slot) /\ Len(S) = m - 1 /\ \A j \in 1..(m - 1) : S[j] = N[j] BY <1>2
<1> DEFINE R == RemoveAt(P, k)
<1> HIDE DEF S, R
<1>9. R \in Seq(Slot) BY <1>7, SeqMonotonic DEF R, Slot
<1>10. Len(R) = m - 1 /\ \A j \in 1..(m - 1) : R[j] = S[j] BY <1>3, <1>7, <1>8 DEF R
<1>11. R = S BY <1>8, <1>9, <1>10, SeqEqual
<1> QED BY <1>0, <1>6, <1>11 DEF R, S

LEMMA Replaced ==
  ASSUME NEW B \in Seq(Slot), Full(B), NEW k \in 1..Len(Present(B)), NEW x \in Item
  PROVE  Present([B EXCEPT ![k] = x]) = ReplaceAt(Present(B), k, x)
<1>0. PICK P, m : P = Present(B) /\ m = Len(P) OBVIOUS
<1>1. /\ P \in Seq(Item) /\ m \in Nat /\ m \in 0..Len(B)
      /\ \A j \in 1..m : B[j] # None /\ P[j] = B[j] /\ j \in 1..Len(B)
      /\ \A j \in (m + 1)..Len(B) : B[j] = None
  BY <1>0, FullIs
<1>2. k \in 1..m /\ k \in 1..Len(B) BY <1>0, <1>1
<1> DEFINE N == [B EXCEPT ![k] = x]
<1>3. N \in Seq(Slot) /\ Len(N) = Len(B) /\ \A j \in 1..Len(B) : N[j] = IF j = k THEN x ELSE B[j]
  BY <1>2, ExceptSeq DEF Slot
<1> HIDE DEF N
<1>4. \A j \in 1..m : N[j] # None BY <1>1, <1>3, Names
<1>5. \A j \in (m + 1)..Len(N) : N[j] = None
  <2> TAKE j \in (m + 1)..Len(N)
  <2>1. j \in 1..Len(B) /\ j # k /\ j \in (m + 1)..Len(B) BY <1>1, <1>2, <1>3
  <2> QED BY <2>1, <1>1, <1>3
<1>6. Present(N) = SubSeq(N, 1, m)
  <2>1. m \in 0..Len(N) BY <1>1, <1>3
  <2> QED BY <1>3, <1>4, <1>5, <2>1, PresentFront
<1> DEFINE S == SubSeq(N, 1, m)
<1>7. S \in Seq(Slot) /\ Len(S) = m /\ \A j \in 1..m : S[j] = N[j] BY <1>1, <1>3
<1> DEFINE R == ReplaceAt(P, k, x)
<1>8. R \in Seq(Item) /\ Len(R) = m /\ \A j \in 1..m : R[j] = IF j = k THEN x ELSE P[j]
  <2>1. R = [P EXCEPT ![k] = x] BY DEF ReplaceAt
  <2> QED BY <2>1, <1>0, <1>1, <1>2, ExceptSeq
<1> HIDE DEF S, R
<1>9. R \in Seq(Slot) BY <1>8, SeqMonotonic DEF Slot
<1>10. \A j \in 1..m : R[j] = S[j] BY <1>1, <1>3, <1>7, <1>8
<1>11. R = S BY <1>7, <1>8, <1>9, <1>10, SeqEqual
<1> QED BY <1>0, <1>6, <1>11 DEF R, S, N

-----------------------------------------------------------------------------
(* del collection[k]: there is a list again, and its items are those       *)
(* before the cell and the others from it on.                              *)
Deletes(h, held, i, k) ==
  \E nc, nh, nt :
    /\ ListIn(h, nc, nh, nt)
    /\ Full(RestFrom(held, i))
         => Present(nh) = Present(Before(held, i)) \o RemoveAt(Present(RestFrom(held, i)), k + 1)

LEMMA FromIs ==
  ASSUME NEW s \in Seq(Slot), NEW i \in 1..Len(s)
  PROVE  /\ Before(s, i) \in Seq(Slot) /\ Len(Before(s, i)) = i - 1
         /\ \A j \in 1..(i - 1) : Before(s, i)[j] = s[j]
         /\ RestFrom(s, i) \in Seq(Slot) /\ Len(RestFrom(s, i)) = Len(s) - i + 1
         /\ \A j \in 1..(Len(s) - i + 1) : RestFrom(s, i)[j] = s[i + j - 1]
         /\ Present(s) = Present(Before(s, i)) \o Present(RestFrom(s, i))
         /\ Present(Before(s, i)) \in Seq(Item) /\ Present(RestFrom(s, i)) \in Seq(Item)
         /\ SubSeq(Present(s), 1, Len(Present(s)) - Len(Present(RestFrom(s, i)))) = Present(Before(s, i))
BY ItemsSplit DEF Before, RestFrom

LEMMA SameBefore ==
  ASSUME NEW s \in Seq(Slot), NEW t \in Seq(Slot), NEW i \in Nat, i >= 1,
         i - 1 <= Len(s), i - 1 <= Len(t), \A j \in 1..(i - 1) : s[j] = t[j]
  PROVE  Before(s, i) = Before(t, i)
<1> DEFINE a == SubSeq(s, 1, i - 1)
<1> DEFINE b == SubSeq(t, 1, i - 1)
<1>1. a \in Seq(Slot) /\ Len(a) = i - 1 /\ \A j \in 1..(i - 1) : a[j] = s[j] OBVIOUS
<1>2. b \in Seq(Slot) /\ Len(b) = i - 1 /\ \A j \in 1..(i - 1) : b[j] = t[j] OBVIOUS
<1> HIDE DEF a, b
<1>3. a = b BY <1>1, <1>2, SeqEqual
<1> QED BY <1>3 DEF Before, a, b

(* The last item is deleted: the list ends at the cell before its own, or, *)
(* if it has the first cell, that one is emptied.                          *)
LEMMA LastDeleted ==
  ASSUME NEW g, NEW cells, NEW held, NEW tail, ListIn(g, cells, held, tail),
         NEW i \in 1..Len(cells), NEW k \in Nat, i + k <= Len(cells),
         Len(Present(RestFrom(held, i))) = k + 1,
         NEW p, NEW y, p = IF k = 0 THEN cells[i] ELSE cells[i + k - 1], y = cells[i + k]
  PROVE  Deletes(Without(SetValue(g, p, "rest", "nil"), y, None), held, i, k)
<1> DEFINE n == Len(cells)
<1> DEFINE B == RestFrom(held, i)
<1> DEFINE e == SetValue(g, p, "rest", "nil")
<1>1. /\ n \in Nat /\ held \in Seq(Slot) /\ Len(held) = n /\ cells \in Seq(Cell \cup {List})
      /\ \A m, j \in 1..n : cells[m] = cells[j] => m = j
      /\ \A j \in 1..n : cells[j] # None
  BY ListSays
<1>2. i \in 1..Len(held) /\ i + k \in 1..n /\ i \in Nat /\ i >= 1 BY <1>1
<1>3. /\ B \in Seq(Slot) /\ Len(B) = n - i + 1
      /\ \A j \in 1..(n - i + 1) : B[j] = held[i + j - 1]
      /\ Present(Before(held, i)) \in Seq(Item) /\ Before(held, i) \in Seq(Slot)
      /\ Present(B) \in Seq(Item)
  <2>1. /\ B \in Seq(Slot) /\ Len(B) = Len(held) - i + 1
        /\ \A j \in 1..(Len(held) - i + 1) : B[j] = held[i + j - 1]
        /\ Present(Before(held, i)) \in Seq(Item) /\ Before(held, i) \in Seq(Slot)
        /\ Present(B) \in Seq(Item)
    BY ONLY <1>1, <1>2, FromIs DEF B
  <2> QED BY <1>1, <2>1
<1> HIDE DEF B
<1>4. CASE k = 0
  <2> DEFINE c == SubSeq(cells, 1, i)
  <2> DEFINE s == SubSeq(held, 1, i)
  <2>1. p = cells[i] /\ y = cells[i] BY <1>2, <1>4
  <2>2. ListIn(e, c, s, "nil") BY <2>1, Ended
  <2>3. Len(c) = i /\ \A j \in 1..i : c[j] = cells[j] BY <1>1, FrontIs
  <2>4. s \in Seq(Slot) /\ Len(s) = i /\ \A j \in 1..i : s[j] = held[j] BY <1>1, <1>2, FrontIs
  <2>5. y = c[Len(c)] BY <1>2, <2>1, <2>3
  <2> HIDE DEF c, s, e
  <2>6. ListIn(Without(e, y, None), c, Emptied(s, Len(c)), None) BY <2>2, <2>5, EndEmptied
  <2>7. Present(Emptied(s, i)) = Present(SubSeq(s, 1, i - 1))
    <3>1. i \in 1..Len(s) BY <1>2, <2>4
    <3> QED BY <2>4, <3>1, EmptiedIs
  <2>8. Before(s, i) = Before(held, i)
    <3>1. i - 1 <= Len(s) /\ i - 1 <= Len(held) /\ \A j \in 1..(i - 1) : s[j] = held[j]
      BY <1>1, <1>2, <2>4
    <3> QED BY <1>1, <1>2, <2>4, <3>1, SameBefore
  <2>9. Present(Emptied(s, Len(c))) = Present(Before(held, i)) BY <2>3, <2>7, <2>8 DEF Before
  <2>10. RemoveAt(Present(B), k + 1) = <<>>
    <3>1. Len(Present(B)) = 1 /\ 1 \in 1..Len(Present(B)) BY <1>4 DEF B
    <3>2. RemoveAt(Present(B), 1) \in Seq(Item) /\ Len(RemoveAt(Present(B), 1)) = 1 - 1
      BY <1>3, <3>1, RemoveAtIs
    <3> QED BY <1>4, <3>2, EmptySeq
  <2>11. Present(Before(held, i)) \o <<>> = Present(Before(held, i)) BY <1>3, ConcatEmptySeq
  <2>12. Deletes(Without(e, y, None), held, i, k)
    BY <2>6, <2>9, <2>10, <2>11 DEF Deletes, B
  <2> QED BY <2>12 DEF e
<1>5. CASE k # 0
  <2> DEFINE q == i + k - 1
  <2> DEFINE c == SubSeq(cells, 1, q)
  <2> DEFINE s == SubSeq(held, 1, q)
  <2>1. q \in 1..n /\ q \in 1..Len(held) /\ q + 1 = i + k /\ i \in 1..q /\ p = cells[q]
    BY <1>1, <1>2, <1>5
  <2>2. Len(c) = q /\ \A j \in 1..q : c[j] = cells[j] BY <1>1, <2>1, FrontIs
  <2>3. s \in Seq(Slot) /\ Len(s) = q /\ \A j \in 1..q : s[j] = held[j] BY <1>1, <2>1, FrontIs
  <2>4. ListIn(e, c, s, "nil") BY <2>1, Ended
  <2> HIDE DEF c, s, e, q
  <2>5. y # None /\ \A j \in 1..Len(c) : c[j] # y
    <3>1. y = cells[q + 1] /\ q + 1 \in 1..n BY <1>2, <2>1
    <3>2. \A j \in 1..q : j \in 1..n /\ j # q + 1 BY <1>1, <2>1
    <3> QED BY <1>1, <2>2, <3>1, <3>2
  <2>6. ListIn(Without(e, y, None), c, s, "nil") BY <2>4, <2>5, Dropped
  <2>7. /\ RestFrom(s, i) \in Seq(Slot) /\ Len(RestFrom(s, i)) = q - i + 1
        /\ \A j \in 1..(q - i + 1) : RestFrom(s, i)[j] = s[i + j - 1]
        /\ Present(s) = Present(Before(s, i)) \o Present(RestFrom(s, i))
    <3>1. i \in 1..Len(s) BY <2>1, <2>3
    <3> QED BY <2>3, <3>1, FromIs
  <2>8. q - i + 1 = k /\ Len(Present(B)) - 1 = k BY <1>2, <2>1 DEF B
  <2>9. Before(s, i) = Before(held, i)
    <3>1. i - 1 <= Len(s) /\ i - 1 <= Len(held) /\ \A j \in 1..(i - 1) : s[j] = held[j]
      BY <1>1, <1>2, <2>1, <2>3
    <3> QED BY <1>1, <1>2, <2>3, <3>1, SameBefore
  <2>10. ASSUME Full(B) PROVE Present(RestFrom(s, i)) = RemoveAt(Present(B), k + 1)
    <3> DEFINE N == RestFrom(s, i)
    <3>1. N \in Seq(Slot) /\ Len(N) = k /\ \A j \in 1..k : N[j] = s[i + j - 1] BY <2>7, <2>8
    <3> HIDE DEF N
    <3>2. \A j \in 1..k : N[j] = IF j < k + 1 THEN B[j] ELSE B[j + 1]
      <4> TAKE j \in 1..k
      <4>1. j < k + 1 /\ i + j - 1 \in 1..q /\ j \in 1..(n - i + 1) BY <1>1, <1>2, <2>1, <2>8
      <4> QED BY <4>1, <3>1, <2>3, <1>3
    <3>3. \A j \in (k + 1)..Len(N) : N[j] = None BY <3>1
    <3>4. k + 1 \in 1..Len(Present(B)) /\ Len(Present(B)) = k + 1 BY <2>8 DEF B
    <3>5. Present(N) = RemoveAt(Present(B), k + 1)
      <4>1. Len(Present(B)) - 1 <= Len(N) /\ Len(Present(B)) - 1 = k BY <3>1, <3>4
      <4> QED BY <2>10, <1>3, <3>1, <3>2, <3>3, <3>4, <4>1, Shortened
    <3> QED BY <3>5 DEF N
  <2>11. Deletes(Without(e, y, None), held, i, k)
    BY <2>6, <2>7, <2>9, <2>10 DEF Deletes, B
  <2> QED BY <2>11 DEF e
<1> QED BY <1>4, <1>5

(* Another item is deleted: its cell is taken out, or, if it is the first, *)
(* emptied.                                                                *)
LEMMA MiddleDeleted ==
  ASSUME NEW g, NEW cells, NEW held, NEW tail, ListIn(g, cells, held, tail),
         NEW i \in 1..Len(cells), NEW k \in Nat, i + k < Len(cells),
         k + 1 < Len(Present(RestFrom(held, i))), k # 0,
         NEW x, NEW y, NEW z, x = cells[i + k - 1], y = cells[i + k], z = cells[i + k + 1]
  PROVE  Deletes(SetValue(Without(g, y, None), x, "rest", z), held, i, k)
<1> DEFINE n == Len(cells)
<1> DEFINE B == RestFrom(held, i)
<1> DEFINE q == i + k
<1> DEFINE h == SetValue(Without(g, y, None), x, "rest", z)
<1> DEFINE s == RemoveAt(held, q)
<1>1. n \in Nat /\ held \in Seq(Slot) /\ Len(held) = n BY ListSays
<1>2. /\ i \in 1..Len(held) /\ q \in 2..(n - 1) /\ i \in Nat /\ i >= 1 /\ q \in 1..Len(held)
      /\ i \in 1..(n - 1)
  BY <1>1
<1>3. /\ B \in Seq(Slot) /\ Len(B) = n - i + 1
      /\ \A j \in 1..(n - i + 1) : B[j] = held[i + j - 1]
  BY <1>1, <1>2, FromIs
<1>4. ListIn(h, RemoveAt(cells, q), s, tail) BY <1>2, CellRemoved
<1>5. /\ s \in Seq(Slot) /\ Len(s) = n - 1
      /\ \A j \in 1..(n - 1) : s[j] = IF j < q THEN held[j] ELSE held[j + 1]
  <2>1. /\ s \in Seq(Slot) /\ Len(s) = Len(held) - 1
        /\ \A j \in 1..(Len(held) - 1) : s[j] = IF j < q THEN held[j] ELSE held[j + 1]
    BY ONLY <1>1, <1>2, RemoveAtIs DEF s
  <2> QED BY <1>1, <2>1
<1> HIDE DEF B, h, s
<1>6. /\ RestFrom(s, i) \in Seq(Slot) /\ Len(RestFrom(s, i)) = n - i
      /\ \A j \in 1..(n - i) : RestFrom(s, i)[j] = s[i + j - 1]
      /\ Present(s) = Present(Before(s, i)) \o Present(RestFrom(s, i))
  <2>1. i \in 1..Len(s) /\ Len(s) - i + 1 = n - i
    <3>1. Len(s) = n - 1 /\ n \in Nat /\ i \in 1..(n - 1) BY <1>1, <1>2, <1>5
    <3> QED BY ONLY <3>1
  <2>2. /\ RestFrom(s, i) \in Seq(Slot) /\ Len(RestFrom(s, i)) = Len(s) - i + 1
        /\ \A j \in 1..(Len(s) - i + 1) : RestFrom(s, i)[j] = s[i + j - 1]
        /\ Present(s) = Present(Before(s, i)) \o Present(RestFrom(s, i))
    BY ONLY <1>5, <2>1, FromIs
  <2> QED BY <2>1, <2>2
<1>7. Before(s, i) = Before(held, i)
  <2>1. /\ i - 1 <= Len(s) /\ i - 1 <= Len(held)
        /\ \A j \in 1..(i - 1) : j \in 1..(n - 1) /\ j < q
    BY <1>1, <1>2, <1>5
  <2>2. \A j \in 1..(i - 1) : s[j] = held[j] BY ONLY <1>5, <2>1
  <2> QED BY <1>1, <1>2, <1>5, <2>1, <2>2, SameBefore
<1>8. ASSUME Full(B) PROVE Present(RestFrom(s, i)) = RemoveAt(Present(B), k + 1)
  <2> DEFINE N == RestFrom(s, i)
  <2> DEFINE m == Len(Present(B))
  <2>1. N \in Seq(Slot) /\ Len(N) = n - i /\ \A j \in 1..(n - i) : N[j] = s[i + j - 1] BY <1>6
  <2>2. m \in 0..Len(B) /\ \A j \in (m + 1)..Len(B) : B[j] = None BY <1>3, <1>8, FullIs
  <2>3. k + 1 \in 1..m BY <2>2 DEF B
  <2> HIDE DEF N, m
  <2>4. ASSUME NEW j \in 1..(n - i) PROVE N[j] = IF j < k + 1 THEN B[j] ELSE B[j + 1]
    <3>1. /\ i + j - 1 \in 1..(n - 1) /\ (i + j - 1 < q <=> j < k + 1)
          /\ j \in 1..(n - i + 1) /\ j + 1 \in 1..(n - i + 1) /\ i + (j + 1) - 1 = (i + j - 1) + 1
      BY <1>1, <1>2
    <3>2. N[j] = IF i + j - 1 < q THEN held[i + j - 1] ELSE held[(i + j - 1) + 1]
      BY <2>1, <1>5, <3>1
    <3> QED BY <3>1, <3>2, <1>3
  <2>5. m - 1 <= Len(N) /\ \A j \in 1..(m - 1) : j \in 1..(n - i)
    <3>1. /\ n \in Nat /\ i \in 1..(n - 1) /\ m \in 0..Len(B) /\ Len(B) = n - i + 1
          /\ Len(N) = n - i
      BY <1>1, <1>2, <1>3, <2>1, <2>2
    <3> QED BY ONLY <3>1
  <2>6. \A j \in m..Len(N) : N[j] = None
    <3> TAKE j \in m..Len(N)
    <3>1. j \in 1..(n - i) /\ ~(j < k + 1) /\ j + 1 \in (m + 1)..Len(B)
      BY <1>1, <1>2, <1>3, <2>1, <2>2, <2>3
    <3> QED BY <3>1, <2>2, <2>4
  <2>7. \A j \in 1..(m - 1) : N[j] = IF j < k + 1 THEN B[j] ELSE B[j + 1] BY <2>4, <2>5
  <2>8. Present(N) = RemoveAt(Present(B), k + 1)
    BY <1>3, <1>8, <2>1, <2>3, <2>5, <2>6, <2>7, Shortened DEF m
  <2> QED BY <2>8 DEF N
<1>9. Deletes(h, held, i, k) BY <1>4, <1>6, <1>7, <1>8 DEF Deletes, B
<1> QED BY <1>9 DEF h

LEMMA FirstDeleted ==
  ASSUME NEW g, NEW cells, NEW held, NEW tail, ListIn(g, cells, held, tail),
         NEW i \in 1..Len(cells), i < Len(cells), 1 < Len(Present(RestFrom(held, i))),
         NEW x, NEW z, x = cells[i], z = cells[i + 1]
  PROVE  Deletes(SetValue(Without(g, x, None), x, "rest", z), held, i, 0)
<1> DEFINE n == Len(cells)
<1> DEFINE B == RestFrom(held, i)
<1> DEFINE h == SetValue(Without(g, x, None), x, "rest", z)
<1> DEFINE s == [held EXCEPT ![i] = None]
<1>1. n \in Nat /\ held \in Seq(Slot) /\ Len(held) = n BY ListSays
<1>2. i \in 1..Len(held) /\ i \in 1..(n - 1) /\ i \in Nat /\ i >= 1 /\ i + 1 \in 1..n BY <1>1
<1>3. /\ B \in Seq(Slot) /\ Len(B) = n - i + 1
      /\ \A j \in 1..(n - i + 1) : B[j] = held[i + j - 1]
  BY <1>1, <1>2, FromIs
<1>4. ListIn(h, cells, s, tail) BY <1>2, Relinked
<1>5. s \in Seq(Slot) /\ Len(s) = n /\ \A j \in 1..n : s[j] = IF j = i THEN None ELSE held[j]
  BY <1>1, <1>2, ExceptSeq DEF Slot
<1> HIDE DEF B, h, s
<1>6. /\ RestFrom(s, i + 1) \in Seq(Slot) /\ Len(RestFrom(s, i + 1)) = n - i
      /\ \A j \in 1..(n - i) : RestFrom(s, i + 1)[j] = s[i + j]
      /\ Present(s) = Present(Before(s, i + 1)) \o Present(RestFrom(s, i + 1))
  <2>1. i + 1 \in 1..Len(s) /\ Len(s) - (i + 1) + 1 = n - i BY <1>1, <1>2, <1>5
  <2>2. /\ RestFrom(s, i + 1) \in Seq(Slot) /\ Len(RestFrom(s, i + 1)) = Len(s) - (i + 1) + 1
        /\ \A j \in 1..(Len(s) - (i + 1) + 1) : RestFrom(s, i + 1)[j] = s[(i + 1) + j - 1]
        /\ Present(s) = Present(Before(s, i + 1)) \o Present(RestFrom(s, i + 1))
    BY ONLY <1>5, <2>1, FromIs
  <2>3. \A j \in 1..(n - i) : (i + 1) + j - 1 = i + j BY <1>1, <1>2
  <2> QED BY <2>1, <2>2, <2>3
<1>7. Present(Before(s, i + 1)) = Present(Before(held, i))
  <2>1. Before(s, i + 1) = Emptied(held, i)
    <3>1. Emptied(held, i) \in Seq(Slot) /\ Len(Emptied(held, i)) = i
          /\ \A j \in 1..i : Emptied(held, i)[j] = IF j = i THEN None ELSE held[j]
      BY <1>1, <1>2, EmptiedIs
    <3>2. i + 1 - 1 = i /\ i \in 1..Len(s) BY <1>2, <1>5
    <3>3. SubSeq(s, 1, i) \in Seq(Slot) /\ Len(SubSeq(s, 1, i)) = i
          /\ \A j \in 1..i : SubSeq(s, 1, i)[j] = s[j]
      BY <1>5, <3>2, FrontIs
    <3>4. \A j \in 1..i : j \in 1..n BY <1>2
    <3>5. SubSeq(s, 1, i) = Emptied(held, i) BY <1>5, <3>1, <3>3, <3>4, SeqEqual
    <3> QED BY <3>2, <3>5 DEF Before
  <2> QED BY <1>1, <1>2, <2>1, EmptiedIs DEF Before
<1>8. ASSUME Full(B) PROVE Present(RestFrom(s, i + 1)) = RemoveAt(Present(B), 1)
  <2> DEFINE N == RestFrom(s, i + 1)
  <2> DEFINE m == Len(Present(B))
  <2>1. N \in Seq(Slot) /\ Len(N) = n - i /\ \A j \in 1..(n - i) : N[j] = s[i + j] BY <1>6
  <2>2. m \in 0..Len(B) /\ \A j \in (m + 1)..Len(B) : B[j] = None BY <1>3, <1>8, FullIs
  <2>3. 1 \in 1..m BY <2>2 DEF B
  <2> HIDE DEF N, m
  <2>4. ASSUME NEW j \in 1..(n - i) PROVE N[j] = B[j + 1]
    <3>1. i + j \in 1..n /\ i + j # i /\ j + 1 \in 1..(n - i + 1) /\ i + (j + 1) - 1 = i + j
      BY <1>1, <1>2
    <3> QED BY <1>3, <1>5, <2>1, <3>1
  <2>5. m - 1 <= Len(N) /\ \A j \in 1..(m - 1) : j \in 1..(n - i) /\ ~(j < 1)
    BY <1>1, <1>2, <1>3, <2>1, <2>2
  <2>6. \A j \in m..Len(N) : N[j] = None
    <3> TAKE j \in m..Len(N)
    <3>1. j \in 1..(n - i) /\ j + 1 \in (m + 1)..Len(B) BY <1>1, <1>2, <1>3, <2>1, <2>2, <2>3
    <3> QED BY <3>1, <2>2, <2>4
  <2>7. \A j \in 1..(m - 1) : N[j] = IF j < 1 THEN B[j] ELSE B[j + 1] BY <2>4, <2>5
  <2>8. Present(N) = RemoveAt(Present(B), 1)
    BY <1>3, <1>8, <2>1, <2>3, <2>5, <2>6, <2>7, Shortened DEF m
  <2> QED BY <2>8 DEF N
<1>9. Deletes(h, held, i, 0)
  <2>1. 0 + 1 = 1 OBVIOUS
  <2> QED BY <1>4, <1>6, <1>7, <1>8, <2>1 DEF Deletes, B
<1> QED BY <1>9 DEF h

LEMMA Deleted ==
  ASSUME NEW g, NEW cells, NEW held, NEW tail, ListIn(g, cells, held, tail),
         NEW i \in 1..Len(cells), NEW k \in 0..(Length(g, cells[i]) - 1)
  PROVE  Deletes(DelItem(g, cells[i], k), held, i, k)
<1> DEFINE n == Len(cells)
<1> DEFINE B == RestFrom(held, i)
<1> DEFINE m == Len(Present(B))
<1>1. n \in Nat /\ held \in Seq(Slot) /\ Len(held) = n /\ i \in 1..Len(held) BY ListSays
<1>2. Length(g, cells[i]) = m BY ItemsAre DEF Length, RestFrom
<1>3. B \in Seq(Slot) /\ Len(B) = n - i + 1 BY <1>1, FromIs
<1>4. m \in Nat /\ m <= n - i + 1
  <2>1. Present(B) \in Seq(Slot \ {None}) /\ m <= Len(B) BY <1>3, PresentType
  <2> QED BY <2>1, <1>3
<1> HIDE DEF B
<1>5. k \in Nat /\ k <= m - 1 /\ i + k <= n BY <1>1, <1>2, <1>4
<1> HIDE DEF m
<1> DEFINE at(j) == GetContainer(g, cells[i], j)
<1>6. \A j \in Int : j <= n - i => at(j) = IF j <= 0 THEN cells[i] ELSE cells[i + j]
  BY ContainerIs
<1>7. DelItem(g, cells[i], k)
        = IF k = m - 1 THEN Without(SetValue(g, at(k - 1), "rest", "nil"), at(k), None)
          ELSE SetValue(Without(g, at(k), None), at(k - 1), "rest", at(k + 1))
  <2>1. ~(Length(g, cells[i]) = 1 /\ k > 0) BY <1>2, <1>5
  <2> QED BY <1>2, <2>1 DEF DelItem
<1>8. at(k) = cells[i + k] /\ at(k - 1) = IF k = 0 THEN cells[i] ELSE cells[i + k - 1]
  <2>1. k - 1 \in Int /\ k \in Int /\ k - 1 <= n - i /\ k <= n - i BY <1>1, <1>5
  <2>2. at(k) = IF k <= 0 THEN cells[i] ELSE cells[i + k] BY <1>6, <2>1
  <2>3. at(k - 1) = IF k - 1 <= 0 THEN cells[i] ELSE cells[i + (k - 1)] BY <1>6, <2>1
  <2>4. CASE k = 0
    <3>1. i + k = i /\ k <= 0 /\ k - 1 <= 0 BY <1>1, <2>4
    <3> QED BY <2>2, <2>3, <2>4, <3>1
  <2>5. CASE k # 0
    <3>1. ~(k <= 0) /\ i + (k - 1) = i + k - 1 BY <1>1, <1>5, <2>5
    <3>2. CASE k = 1
      <4>1. k - 1 <= 0 /\ i + k - 1 = i BY <1>1, <3>2
      <4> QED BY <2>2, <2>3, <2>5, <3>1, <4>1
    <3>3. CASE k # 1
      <4>1. ~(k - 1 <= 0) BY <1>5, <2>5, <3>3
      <4> QED BY <2>2, <2>3, <2>5, <3>1, <4>1
    <3> QED BY <3>2, <3>3
  <2> QED BY <2>4, <2>5
<1> HIDE DEF at
<1>9. CASE k = m - 1
  <2>1. Len(Present(RestFrom(held, i))) = k + 1 BY <1>4, <1>9 DEF m, B
  <2>2. PICK p, y : p = at(k - 1) /\ y = at(k) OBVIOUS
  <2>3. Deletes(Without(SetValue(g, p, "rest", "nil"), y, None), held, i, k)
    BY <1>5, <1>8, <2>1, <2>2, LastDeleted
  <2> QED BY <1>7, <1>9, <2>2, <2>3
<1>10. CASE k # m - 1
  <2>1. k + 1 < Len(Present(RestFrom(held, i))) /\ i + k < n BY <1>1, <1>4, <1>5, <1>10 DEF m, B
  <2>2. at(k + 1) = cells[i + k + 1]
    <3>1. k + 1 \in Int /\ k + 1 <= n - i /\ ~(k + 1 <= 0) /\ i + (k + 1) = i + k + 1
      BY <1>1, <1>5, <2>1
    <3> QED BY <1>6, <3>1
  <2>3. PICK x, y, z : x = at(k - 1) /\ y = at(k) /\ z = at(k + 1) OBVIOUS
  <2>4. Deletes(SetValue(Without(g, y, None), x, "rest", z), held, i, k)
    <3>1. CASE k # 0 BY <1>5, <1>8, <2>1, <2>2, <2>3, <3>1, MiddleDeleted
    <3>2. CASE k = 0
      <4>1. x = cells[i] /\ y = x /\ z = cells[i + 1] /\ i < n /\ 1 < Len(Present(RestFrom(held, i)))
        BY <1>1, <1>8, <2>1, <2>2, <2>3, <3>2
      <4>2. Deletes(SetValue(Without(g, x, None), x, "rest", z), held, i, 0)
        BY <4>1, FirstDeleted
      <4> QED BY <3>2, <4>1, <4>2
    <3> QED BY <3>1, <3>2
  <2> QED BY <1>7, <1>10, <2>3, <2>4
<1> QED BY <1>9, <1>10

LEMMA LeastIs ==
  ASSUME NEW I, I \subseteq Int, NEW e \in I, \A j \in I : e <= j
  PROVE  Min(I) = e
<1>1. \A j \in I : (\A m \in I : j <= m) => j = e OBVIOUS
<1> QED BY <1>1 DEF Min

LEMMA LastEnds ==
  ASSUME NEW g, NEW cells, NEW held, NEW tail, ListIn(g, cells, held, tail)
  PROVE  \A j \in 1..Len(cells) : EndsAt(g, cells[j]) <=> j = Len(cells)
<1> DEFINE L == Len(cells)
<1>1. /\ L \in Nat /\ L \in 1..L /\ tail \in {None, "nil"}
      /\ \A j \in 1..L : cells[j] # None /\ cells[j] # "nil"
  BY ListSays
<1>2. \A j \in 1..L : Value(g, cells[j], "rest") = NextCell(cells, tail, j) BY LinkIs
<1> SUFFICES ASSUME NEW j \in 1..L PROVE EndsAt(g, cells[j]) <=> j = L OBVIOUS
<1>3. CASE j = L BY <1>1, <1>2, <1>3 DEF EndsAt, NextCell
<1>4. CASE j # L
  <2>1. j + 1 \in 1..L /\ j < L BY <1>1, <1>4
  <2>2. Value(g, cells[j], "rest") = cells[j + 1] BY <1>2, <2>1 DEF NextCell
  <2> QED BY <1>1, <1>4, <2>1, <2>2 DEF EndsAt
<1> QED BY <1>3, <1>4

(* collection[k] and collection.index(item) *)
LEMMA ItemRead ==
  ASSUME NEW g, NEW cells, NEW held, NEW tail, ListIn(g, cells, held, tail),
         NEW i \in 1..Len(cells), Full(RestFrom(held, i)),
         NEW k \in 1..Len(Present(RestFrom(held, i))), Present(RestFrom(held, i))[k] \notin Falsy
  PROVE  GetItem(g, cells[i], k - 1) = Present(RestFrom(held, i))[k]
<1> DEFINE n == Len(cells)
<1> DEFINE B == RestFrom(held, i)
<1>1. /\ n \in Nat /\ held \in Seq(Slot) /\ Len(held) = n /\ i \in 1..Len(held)
      /\ \A j \in 1..n : cells[j] # None
  BY ListSays
<1>2. B \in Seq(Slot) /\ Len(B) = n - i + 1 /\ \A j \in 1..(n - i + 1) : B[j] = held[i + j - 1]
  <2>1. /\ B \in Seq(Slot) /\ Len(B) = Len(held) - i + 1
        /\ \A j \in 1..(Len(held) - i + 1) : B[j] = held[i + j - 1]
    BY ONLY <1>1, FromIs DEF B
  <2> QED BY <1>1, <2>1
<1>3. k \in 1..Len(B) /\ Present(B)[k] = B[k] BY <1>2, FullIs
<1> HIDE DEF B
<1>4. k \in Nat /\ k - 1 \in Int /\ k - 1 <= n - i /\ i + k - 1 \in 1..n
  BY <1>1, <1>2, <1>3
<1>5. GetContainer(g, cells[i], k - 1) = IF k - 1 <= 0 THEN cells[i] ELSE cells[i + (k - 1)]
  BY <1>4, ContainerIs
<1>6. GetContainer(g, cells[i], k - 1) = cells[i + k - 1]
  <2>1. i + (k - 1) = i + k - 1 BY <1>1, <1>4
  <2>2. CASE k = 1
    <3>1. k - 1 <= 0 /\ i + k - 1 = i BY <1>1, <2>2
    <3> QED BY <1>5, <3>1
  <2>3. CASE k # 1
    <3>1. ~(k - 1 <= 0) BY <1>3, <1>2, <2>3
    <3> QED BY <1>5, <2>1, <3>1
  <2> QED BY <2>2, <2>3
<1>7. Value(g, cells[i + k - 1], "first") = held[i + k - 1] BY <1>4, LinkIs
<1>8. held[i + k - 1] = B[k] BY <1>2, <1>3
<1>9. cells[i + k - 1] # None BY <1>1, <1>4
<1>10. B[k] \notin Falsy BY <1>3 DEF B
<1>11. GetItem(g, cells[i], k - 1) = B[k] BY <1>6, <1>7, <1>8, <1>9, <1>10 DEF GetItem
<1> QED BY <1>3, <1>11 DEF B

LEMMA ItemFound ==
  ASSUME NEW g, NEW cells, NEW held, NEW tail, ListIn(g, cells, held, tail),
         NEW i \in 1..Len(cells), Full(RestFrom(held, i)),
         NEW k \in 1..Len(Present(RestFrom(held, i))), NEW x, x = Present(RestFrom(held, i))[k]
  PROVE  LET places == {j \in 1..Len(Present(RestFrom(held, i))) : Present(RestFrom(held, i))[j] = x}
         IN  places # {} /\ IndexOf(g, cells[i], x) + 1 = Min(places)
<1> DEFINE n == Len(cells)
<1> DEFINE B == RestFrom(held, i)
<1> DEFINE way == Way(cells, tail)
<1> DEFINE W == Len(way)
<1>0. PICK P, m : P = Present(B) /\ m = Len(P) OBVIOUS
<1>1. /\ TriplesOnly(g) /\ n \in Nat /\ held \in Seq(Slot) /\ Len(held) = n /\ i \in 1..Len(held)
      /\ \A j \in 1..n : cells[j] # None /\ Objects(g, cells[j], "first") = Only(held[j])
  BY ListSays
<1>2. B \in Seq(Slot) /\ Len(B) = n - i + 1 /\ \A j \in 1..(n - i + 1) : B[j] = held[i + j - 1]
  <2>1. /\ B \in Seq(Slot) /\ Len(B) = Len(held) - i + 1
        /\ \A j \in 1..(Len(held) - i + 1) : B[j] = held[i + j - 1]
    BY ONLY <1>1, FromIs DEF B
  <2> QED BY <1>1, <2>1
<1>3. /\ P \in Seq(Item) /\ m \in 0..(n - i + 1) /\ k \in 1..m /\ x = P[k]
      /\ \A j \in 1..m : B[j] # None /\ P[j] = B[j] /\ j \in 1..(n - i + 1)
  BY <1>0, <1>2, FullIs
<1> HIDE DEF B
<1>4. x \in Item /\ x # None BY <1>0, <1>3, Names
<1>5. \A j \in 1..n : <<cells[j], "first", x>> \in g <=> held[j] = x
  <2> TAKE j \in 1..n
  <2>1. <<cells[j], "first", x>> \in g <=> x \in Objects(g, cells[j], "first")
    BY <1>1, ObjectsAre, Names
  <2>2. x \in Only(held[j]) <=> held[j] = x BY <1>4 DEF Only
  <2> QED BY <1>1, <2>1, <2>2
<1>6. /\ CellsOf(g, cells[i]) = SubSeq(way, i, W) /\ way \in Seq(Cell \cup {List, "nil"})
      /\ W >= n /\ \A j \in 1..n : way[j] = cells[j]
  <2>1. /\ way \in Seq(Cell \cup {List, "nil"}) /\ W >= n
        /\ \A j \in 1..W : j <= n => way[j] = cells[j]
    BY WayIs
  <2>2. CellsOf(g, cells[i]) = SubSeq(way, i, W) BY ItemsAre
  <2> HIDE DEF way
  <2>3. \A j \in 1..n : j \in 1..W /\ j <= n BY <1>1, <2>1
  <2> QED BY <2>1, <2>2, <2>3
<1> HIDE DEF way
<1> DEFINE s == SubSeq(way, i, W)
<1>7. W \in Nat /\ i \in 1..W BY <1>1, <1>6
<1>8. Len(s) = W - i + 1 /\ \A j \in 1..(n - i + 1) : s[j] = cells[i + j - 1] /\ j \in 1..Len(s)
  <2>1. Len(s) = W - i + 1 /\ \A j \in 1..(W - i + 1) : s[j] = way[i + j - 1]
    <3>1. way \in Seq(Cell \cup {List, "nil"}) /\ W = Len(way) /\ W \in Nat /\ i \in 1..W
      BY <1>6, <1>7
    <3> QED BY ONLY <3>1, SubSeqProperties DEF s
  <2> HIDE DEF s
  <2>2. \A j \in 1..(n - i + 1) : j \in 1..(W - i + 1) /\ i + j - 1 \in 1..n BY <1>1, <1>6, <1>7
  <2> QED BY <2>1, <2>2, <1>6
<1> HIDE DEF s
<1>9. \A j \in 1..n : EndsAt(g, cells[j]) <=> j = n BY LastEnds
<1> DEFINE F == {j \in 1..Len(P) : P[j] = x}
<1>11. k \in F /\ F \subseteq 1..m /\ m \in Nat BY <1>0, <1>3
<1>12. PICK e \in F : \A j \in F : e <= j
  <2>1. F \subseteq Nat /\ F # {} BY <1>11
  <2> HIDE DEF F
  <2> QED BY <2>1, LeastNumber
<1>13. e \in 1..m /\ P[e] = x /\ \A j \in 1..m : j < e => P[j] # x
  <2>1. e \in 1..m /\ P[e] = x BY <1>11
  <2>2. ASSUME NEW j \in 1..m, j < e PROVE P[j] # x
    <3>1. P[j] = x => j \in F BY <1>0
    <3> QED BY <1>11, <1>12, <2>1, <2>2, <3>1
  <2> QED BY <2>1, <2>2
<1>14. Min(F) = e /\ F # {}
  <2>1. F \subseteq Int BY <1>11
  <2> HIDE DEF F
  <2> QED BY <1>12, <2>1, LeastIs
<1> HIDE DEF F
<1> DEFINE stops(cell) == <<cell, "first", x>> \in g \/ EndsAt(g, cell)
<1> DEFINE I == {j \in 1..Len(s) : stops(s[j])}
<1>15. SelectInSeq(s, LAMBDA cell : stops(cell)) = IF I # {} THEN Min(I) ELSE 0
  BY DEF SelectInSeq
<1>16. ASSUME NEW j \in 1..m
       PROVE  /\ s[j] = cells[i + j - 1] /\ j \in 1..Len(s) /\ i + j - 1 \in 1..n
              /\ P[j] = held[i + j - 1]
  <2>1. j \in 1..(n - i + 1) BY <1>3
  <2>2. i + j - 1 \in 1..n BY <1>1, <2>1
  <2> QED BY <1>2, <1>3, <1>8, <2>1, <2>2
<1>17. e \in 1..Len(s) /\ <<s[e], "first", x>> \in g
  <2>1. e \in 1..m /\ P[e] = x BY <1>13
  <2> QED BY <1>5, <1>16, <2>1
<1>18. \A j \in I : e <= j
  <2> SUFFICES ASSUME NEW j \in I, j < e PROVE FALSE BY <1>7, <1>8, <1>13
  <2>1. j \in 1..m /\ stops(s[j]) /\ P[j] # x BY <1>3, <1>7, <1>8, <1>13
  <2>2. <<s[j], "first", x>> \notin g BY <2>1, <1>5, <1>16
  <2>3. i + j - 1 # n BY <1>1, <1>3, <1>13, <2>1
  <2>4. ~EndsAt(g, s[j]) BY <2>1, <2>3, <1>9, <1>16
  <2> QED BY <2>1, <2>2, <2>4
<1>19. I \subseteq Int /\ e \in I BY <1>7, <1>8, <1>17
<1> HIDE DEF I
<1>20. SelectInSeq(s, LAMBDA cell : stops(cell)) = e
  <2>1. Min(I) = e BY <1>18, <1>19, LeastIs
  <2> QED BY <1>15, <1>19, <2>1
<1>21. CellsOf(g, cells[i]) = s BY <1>6 DEF s
<1>22. IndexOf(g, cells[i], x) = IF <<s[e], "first", x>> \in g THEN e - 1 ELSE None
  BY <1>20, <1>21 DEF IndexOf
<1>23. IndexOf(g, cells[i], x) + 1 = e BY <1>13, <1>17, <1>22, <1>3
<1> QED BY <1>0, <1>14, <1>23 DEF B, F

LEMMA ItemListsAre == \A xs \in ItemLists : xs \in Seq(Item)
<1> SUFFICES ASSUME NEW xs \in ItemLists PROVE xs \in Seq(Item) OBVIOUS
<1>1. CASE xs = <<>> BY <1>1
<1>2. CASE \E x \in Item : xs = <<x>> BY <1>2
<1>3. CASE \E x, y \in Item : xs = <<x, y>>
  <2>1. PICK x \in Item, y \in Item : xs = <<x, y>> BY <1>3
  <2> QED BY <2>1
<1> QED BY <1>1, <1>2, <1>3 DEF ItemLists

LEMMA AllItems ==
  ASSUME NEW g, NEW cells, NEW held, NEW tail, ListIn(g, cells, held, tail)
  PROVE  Items(g, List) = Present(held)
<1>1. cells[1] = List /\ 1 \in 1..Len(cells) /\ held \in Seq(Slot) BY ListSays
<1>2. Items(g, cells[1]) = Present(SubSeq(held, 1, Len(held))) BY <1>1, ItemsAre
<1>3. SubSeq(held, 1, Len(held)) = held BY <1>1, SubSeqFull
<1> QED BY <1>1, <1>2, <1>3

LEMMA ListCellIs ==
  ASSUME NEW cells, NEW held, NEW tail, ListIn(graph, cells, held, tail), NEW c \in ListCells
  PROVE  \E i \in 1..Len(cells) : c = cells[i]
<1> DEFINE way == Way(cells, tail)
<1> DEFINE W == Len(way)
<1>1. cells[1] = List /\ 1 \in 1..Len(cells) /\ Len(cells) \in Nat /\ tail \in {None, "nil"}
      /\ cells \in Seq(Cell \cup {List})
  BY ListSays
<1>2. CellsOf(graph, List) = SubSeq(way, 1, W) BY <1>1, ItemsAre
<1>3. way \in Seq(Cell \cup {List, "nil"}) BY WayIs
<1>4. \A j \in 1..W : way[j] = "nil" \/ (j \in 1..Len(cells) /\ way[j] = cells[j])
  <2>1. CASE tail = "nil"
    <3>1. way = Append(cells, "nil") BY <2>1 DEF Way
    <3>2. /\ Len(Append(cells, "nil")) = Len(cells) + 1
          /\ \A j \in 1..Len(cells) : Append(cells, "nil")[j] = cells[j]
          /\ Append(cells, "nil")[Len(cells) + 1] = "nil"
      BY <1>1
    <3>3. \A j \in 1..(Len(cells) + 1) : j \in 1..Len(cells) \/ j = Len(cells) + 1 BY <1>1
    <3> HIDE DEF way
    <3>4. W = Len(cells) + 1 BY <3>1, <3>2
    <3> QED BY <3>1, <3>2, <3>3, <3>4
  <2>2. CASE tail # "nil"
    <3>1. way = cells BY <2>2 DEF Way
    <3> QED BY <3>1, <1>1
  <2> QED BY <2>1, <2>2
<1> HIDE DEF way
<1>5. SubSeq(way, 1, W) = way BY <1>3, SubSeqFull
<1>6. PICK j \in 1..W : c = way[j] BY <1>2, <1>3, <1>5 DEF ListCells, ToSet
<1>7. c # "nil" BY DEF ListCells
<1> QED BY <1>4, <1>6, <1>7

(* collection[k] = item *)
Assigns(h, held, i, k, x) ==
  \E nc, nh, nt :
    /\ ListIn(h, nc, nh, nt)
    /\ Full(RestFrom(held, i))
         => Present(nh) = Present(Before(held, i)) \o ReplaceAt(Present(RestFrom(held, i)), k, x)

LEMMA AssignedAt ==
  ASSUME NEW g, NEW cells, NEW held, NEW tail, ListIn(g, cells, held, tail),
         NEW i \in 1..Len(cells), NEW k \in 1..Len(Present(RestFrom(held, i))), NEW x \in Item
  PROVE  Assigns(SetItem(g, cells[i], k - 1, x), held, i, k, x)
<1> DEFINE n == Len(cells)
<1> DEFINE B == RestFrom(held, i)
<1> DEFINE q == i + k - 1
<1> DEFINE s == [held EXCEPT ![q] = x]
<1>1. n \in Nat /\ held \in Seq(Slot) /\ Len(held) = n /\ i \in 1..Len(held) BY ListSays
<1>2. /\ B \in Seq(Slot) /\ Len(B) = n - i + 1
      /\ \A j \in 1..(n - i + 1) : B[j] = held[i + j - 1]
  <2>1. /\ B \in Seq(Slot) /\ Len(B) = Len(held) - i + 1
        /\ \A j \in 1..(Len(held) - i + 1) : B[j] = held[i + j - 1]
    BY ONLY <1>1, FromIs DEF B
  <2> QED BY <1>1, <2>1
<1>3. k \in 1..Len(B)
  <2>1. Present(B) \in Seq(Slot \ {None}) /\ Len(Present(B)) <= Len(B) BY <1>2, PresentType
  <2> QED BY <2>1, <1>2
<1> HIDE DEF B
<1>4. q \in 1..n /\ k \in Nat /\ k - 1 \in Int /\ k - 1 <= n - i /\ i \in Nat /\ i >= 1
  BY <1>1, <1>2, <1>3
<1>5. GetContainer(g, cells[i], k - 1) = cells[q]
  <2>1. GetContainer(g, cells[i], k - 1) = IF k - 1 <= 0 THEN cells[i] ELSE cells[i + (k - 1)]
    BY <1>4, ContainerIs
  <2>2. CASE k = 1
    <3>1. k - 1 <= 0 /\ q = i BY <1>1, <2>2
    <3> QED BY <2>1, <3>1
  <2>3. CASE k # 1
    <3>1. ~(k - 1 <= 0) /\ i + (k - 1) = q BY <1>3, <1>4, <1>2, <2>3
    <3> QED BY <2>1, <3>1
  <2> QED BY <2>2, <2>3
<1>6. SetItem(g, cells[i], k - 1, x) = SetValue(g, cells[q], "first", x) BY <1>5 DEF SetItem
<1>7. ListIn(SetItem(g, cells[i], k - 1, x), cells, s, tail) BY <1>4, <1>6, Assigned
<1>8. s \in Seq(Slot) /\ Len(s) = n /\ \A j \in 1..n : s[j] = IF j = q THEN x ELSE held[j]
  BY <1>1, <1>4, ExceptSeq DEF Slot
<1> HIDE DEF s
<1>9. /\ RestFrom(s, i) \in Seq(Slot) /\ Len(RestFrom(s, i)) = n - i + 1
      /\ \A j \in 1..(n - i + 1) : RestFrom(s, i)[j] = s[i + j - 1]
      /\ Present(s) = Present(Before(s, i)) \o Present(RestFrom(s, i))
  <2>1. s \in Seq(Slot) /\ i \in 1..Len(s) /\ Len(s) = n BY <1>1, <1>8
  <2>2. /\ RestFrom(s, i) \in Seq(Slot) /\ Len(RestFrom(s, i)) = Len(s) - i + 1
        /\ \A j \in 1..(Len(s) - i + 1) : RestFrom(s, i)[j] = s[i + j - 1]
        /\ Present(s) = Present(Before(s, i)) \o Present(RestFrom(s, i))
    BY ONLY <2>1, FromIs
  <2> QED BY <2>1, <2>2
<1>10. Before(s, i) = Before(held, i)
  <2>1. i - 1 <= Len(s) /\ i - 1 <= Len(held) /\ \A j \in 1..(i - 1) : s[j] = held[j]
    <3>1. \A j \in 1..(i - 1) : j \in 1..n /\ j # q BY <1>1, <1>4
    <3>2. i - 1 <= n BY <1>1
    <3> QED BY <1>1, <1>8, <3>1, <3>2
  <2> QED BY <1>1, <1>4, <1>8, <2>1, SameBefore
<1>11. RestFrom(s, i) = [B EXCEPT ![k] = x]
  <2> DEFINE t == [B EXCEPT ![k] = x]
  <2>1. t \in Seq(Slot) /\ Len(t) = Len(B) /\ \A j \in 1..Len(B) : t[j] = IF j = k THEN x ELSE B[j]
    BY <1>2, <1>3, ExceptSeq DEF Slot
  <2> HIDE DEF t
  <2>2. ASSUME NEW j \in 1..(n - i + 1) PROVE RestFrom(s, i)[j] = t[j]
    <3>1. i + j - 1 \in 1..n /\ (i + j - 1 = q <=> j = k) BY <1>1, <1>4
    <3> QED BY <3>1, <1>2, <1>8, <1>9, <2>1
  <2>3. RestFrom(s, i) = t BY <1>2, <1>9, <2>1, <2>2, SeqEqual
  <2> QED BY <2>3 DEF t
<1>12. ASSUME Full(B) PROVE Present(RestFrom(s, i)) = ReplaceAt(Present(B), k, x)
  <2>1. k \in 1..Len(Present(B)) BY DEF B
  <2> QED BY <1>2, <1>11, <1>12, <2>1, Replaced
<1> QED BY <1>7, <1>9, <1>10, <1>12 DEF B, Assigns

LEMMA AlignedFull ==
  ASSUME NEW cells, NEW held, NEW tail, ListIn(graph, cells, held, tail),
         NEW i \in 1..Len(cells), Aligned(cells[i], Present(RestFrom(held, i)))
  PROVE  Full(RestFrom(held, i))
<1> DEFINE n == Len(cells)
<1> DEFINE B == RestFrom(held, i)
<1>1. n \in Nat /\ held \in Seq(Slot) /\ Len(held) = n /\ i \in 1..Len(held) BY ListSays
<1>2. /\ B \in Seq(Slot) /\ Len(B) = n - i + 1
      /\ \A j \in 1..(n - i + 1) : B[j] = held[i + j - 1]
  <2>1. /\ B \in Seq(Slot) /\ Len(B) = Len(held) - i + 1
        /\ \A j \in 1..(Len(held) - i + 1) : B[j] = held[i + j - 1]
    BY ONLY <1>1, FromIs DEF B
  <2> QED BY <1>1, <2>1
<1>3. Present(B) \in Seq(Slot \ {None}) /\ Len(Present(B)) <= Len(B) BY <1>2, PresentType
<1>4. Aligned(cells[i], Present(B)) OBVIOUS
<1> HIDE DEF B
<1>5. ASSUME NEW k \in 1..Len(Present(B)) PROVE B[k] # None
  <2>1. k \in 1..Len(B) BY <1>2, <1>3
  <2>2. k - 1 \in Int /\ k - 1 <= n - i /\ i + k - 1 \in 1..n BY <1>1, <1>2, <2>1
  <2>3. GetContainer(graph, cells[i], k - 1) = IF k - 1 <= 0 THEN cells[i] ELSE cells[i + (k - 1)]
    BY <2>2, ContainerIs
  <2>4. GetContainer(graph, cells[i], k - 1) = cells[i + k - 1]
    <3>1. CASE k = 1
      <4>1. k - 1 <= 0 /\ i + k - 1 = i BY <1>1, <3>1
      <4> QED BY <2>3, <4>1
    <3>2. CASE k # 1
      <4>1. ~(k - 1 <= 0) /\ i + (k - 1) = i + k - 1 BY <1>1, <1>2, <2>1, <3>2
      <4> QED BY <2>3, <4>1
    <3> QED BY <3>1, <3>2
  <2>5. Value(graph, cells[i + k - 1], "first") = held[i + k - 1] BY <2>2, LinkIs
  <2>6. HasFirst(graph, GetContainer(graph, cells[i], k - 1)) BY <1>4 DEF Aligned
  <2>7. B[k] = held[i + k - 1] BY <1>2, <2>1
  <2> QED BY <2>4, <2>5, <2>6, <2>7 DEF HasFirst
<1>6. Full(B) BY <1>5 DEF Full
<1> QED BY <1>6 DEF B

LEMMA ListStepHolds ==
  ASSUME NEW cells, NEW held, NEW tail, ListIn(graph, cells, held, tail),
         NEW i \in 1..Len(cells)
  PROVE  ListStep(cells[i], Present(Before(held, i)), Present(RestFrom(held, i)), Items(graph', List))
<1> DEFINE c == cells[i]
<1> DEFINE a == Present(Before(held, i))
<1> DEFINE b == Present(RestFrom(held, i))
<1> DEFINE after == Items(graph', List)
<1>0. held \in Seq(Slot) /\ i \in 1..Len(held) BY ListSays
<1>1. Present(held) = a \o b /\ a \in Seq(Item) /\ b \in Seq(Item) BY <1>0, FromIs
<1>2. ASSUME NEW x \in Item, Append1(c, x) PROVE after = a \o b \o <<x>>
  <2>1. HasFresh(graph, 1) /\ graph' = AppendItem(graph, c, x) BY <1>2 DEF Append1, Room, Edit
  <2>2. PICK nc, nh : /\ ListIn(AppendItem(graph, c, x), nc, nh, "nil")
                      /\ Present(nh) = Present(held) \o <<x>>
    BY <2>1, Appended
  <2>3. after = Present(nh) BY <2>1, <2>2, AllItems
  <2> QED BY <1>1, <2>2, <2>3
<1>3. ASSUME NEW xs \in ItemLists, Extend(c, xs) PROVE after = a \o b \o xs
  <2>1. HasFresh(graph, Len(xs)) /\ graph' = ExtendItems(graph, c, xs) BY <1>3 DEF Extend, Room, Edit
  <2>2. xs \in Seq(Item) BY ItemListsAre
  <2>3. PICK nc, nh : /\ ListIn(ExtendItems(graph, c, xs), nc, nh, "nil")
                      /\ Present(nh) = Present(held) \o xs
    BY <2>1, <2>2, Extended
  <2>4. after = Present(nh) BY <2>1, <2>3, AllItems
  <2> QED BY <1>1, <2>3, <2>4
<1>4. ASSUME ClearList(c) PROVE after = a
  <2>1. graph' = ClearFrom(graph, c) BY <1>4 DEF ClearList, Edit
  <2>2. ListIn(ClearFrom(graph, c), SubSeq(cells, 1, i), Emptied(held, i), None) BY Cleared
  <2>3. after = Present(Emptied(held, i)) BY <2>1, <2>2, AllItems
  <2> QED BY <1>0, <2>3, EmptiedIs DEF Before
<1>5. ASSUME Aligned(c, b) PROVE Full(RestFrom(held, i)) BY <1>5, AlignedFull
<1>6. ASSUME Aligned(c, b) PROVE ListReads(c, b)
  <2> SUFFICES ASSUME NEW k \in 1..Len(b)
               PROVE  /\ b[k] \notin Falsy => GetItem(graph, c, k - 1) = b[k]
                      /\ IndexOf(graph, c, b[k]) + 1 = SelectInSeq(b, LAMBDA x : x = b[k])
    BY DEF ListReads
  <2>1. Full(RestFrom(held, i)) BY <1>5, <1>6
  <2>2. b[k] \notin Falsy => GetItem(graph, c, k - 1) = b[k] BY <2>1, ItemRead
  <2>3. IndexOf(graph, c, b[k]) + 1 = SelectInSeq(b, LAMBDA x : x = b[k])
    <3>1. PICK y : y = b[k] OBVIOUS
    <3>2. {j \in 1..Len(b) : b[j] = y} # {}
          /\ IndexOf(graph, c, y) + 1 = Min({j \in 1..Len(b) : b[j] = y})
      BY <2>1, <3>1, ItemFound
    <3> HIDE DEF b, c
    <3> QED BY <3>1, <3>2 DEF SelectInSeq
  <2> QED BY <2>2, <2>3
<1>7. ASSUME Aligned(c, b), NEW k \in 1..Len(b), NEW x \in Item, Assign(c, k - 1, x)
      PROVE  after = a \o ReplaceAt(b, k, x)
  <2>1. graph' = SetItem(graph, c, k - 1, x) BY <1>7 DEF Assign, Edit
  <2>2. Full(RestFrom(held, i)) BY <1>5, <1>7
  <2>3. Assigns(SetItem(graph, c, k - 1, x), held, i, k, x) BY AssignedAt
  <2>4. PICK nc, nh, nt : /\ ListIn(SetItem(graph, c, k - 1, x), nc, nh, nt)
                          /\ Present(nh) = a \o ReplaceAt(b, k, x)
    BY <2>2, <2>3 DEF Assigns
  <2> QED BY <2>1, <2>4, AllItems
<1>8. ASSUME Aligned(c, b), NEW k \in 1..Len(b), Delete(c, k - 1)
      PROVE  after = a \o RemoveAt(b, k)
  <2>1. graph' = DelItem(graph, c, k - 1) BY <1>8 DEF Delete, Edit
  <2>2. Full(RestFrom(held, i)) BY <1>5, <1>8
  <2>3. Length(graph, c) = Len(b) BY ItemsAre DEF Length, RestFrom
  <2>4. k - 1 \in 0..(Length(graph, c) - 1) /\ (k - 1) + 1 = k BY <2>3, <1>1
  <2>5. Deletes(DelItem(graph, c, k - 1), held, i, k - 1) BY <2>4, Deleted
  <2>6. PICK nc, nh, nt : /\ ListIn(DelItem(graph, c, k - 1), nc, nh, nt)
                          /\ Present(nh) = a \o RemoveAt(b, k)
    BY <2>2, <2>4, <2>5 DEF Deletes
  <2> QED BY <2>1, <2>6, AllItems
<1> HIDE DEF a, b, c, after
<1>9. ListStep(c, a, b, after) BY <1>2, <1>3, <1>4, <1>6, <1>7, <1>8 DEF ListStep
<1> QED BY <1>9 DEF a, b, c, after

LEMMA ListsStepHolds ==
  ASSUME NEW cells, NEW held, NEW tail, ListIn(graph, cells, held, tail)
  PROVE  ListsStep
<1> SUFFICES ASSUME NEW c \in ListCells
             PROVE  ListStepFrom(c, Items(graph, List), Items(graph, c))
  BY DEF ListsStep
<1>1. PICK i \in 1..Len(cells) : c = cells[i] BY ListCellIs
<1>2. held \in Seq(Slot) /\ i \in 1..Len(held) BY <1>1, ListSays
<1>3. Items(graph, c) = Present(RestFrom(held, i)) BY <1>1, ItemsAre DEF RestFrom
<1>4. Items(graph, List) = Present(held) BY AllItems
<1>5. SubSeq(Present(held), 1, Len(Present(held)) - Len(Present(RestFrom(held, i))))
        = Present(Before(held, i))
  BY <1>2, FromIs
<1>6. ListStep(c, Present(Before(held, i)), Present(RestFrom(held, i)), Items(graph', List))
  BY <1>1, ListStepHolds
<1> QED BY <1>3, <1>4, <1>5, <1>6 DEF ListStepFrom

(* And there is a list again, whatever is done to it. *)
ListThere(g) == \E cells, held, tail : ListIn(g, cells, held, tail)

LEMMA ListStays ==
  ASSUME ListThere(graph), EditList
  PROVE  ListThere(graph')
<1>1. PICK cells, held, tail : ListIn(graph, cells, held, tail) BY DEF ListThere
<1>2. PICK c \in ListCells :
        \/ \E x \in Item : Append1(c, x)
        \/ \E xs \in ItemLists : Extend(c, xs)
        \/ \E k \in Keys0(c), x \in Item : Assign(c, k, x)
        \/ \E k \in Keys0(c) : Delete(c, k)
        \/ ClearList(c)
  BY DEF EditList
<1>3. PICK i \in 1..Len(cells) : c = cells[i] BY <1>1, ListCellIs
<1>4. ASSUME NEW x \in Item, Append1(c, x) PROVE ListThere(graph')
  <2>1. HasFresh(graph, 1) /\ graph' = AppendItem(graph, c, x) BY <1>4 DEF Append1, Room, Edit
  <2> QED BY <1>1, <1>3, <2>1, Appended DEF ListThere
<1>5. ASSUME NEW xs \in ItemLists, Extend(c, xs) PROVE ListThere(graph')
  <2>1. HasFresh(graph, Len(xs)) /\ graph' = ExtendItems(graph, c, xs) BY <1>5 DEF Extend, Room, Edit
  <2>2. xs \in Seq(Item) BY ItemListsAre
  <2> QED BY <1>1, <1>3, <2>1, <2>2, Extended DEF ListThere
<1>6. ASSUME NEW k \in Keys0(c), NEW x \in Item, Assign(c, k, x) PROVE ListThere(graph')
  <2>1. graph' = SetItem(graph, c, k, x) BY <1>6 DEF Assign, Edit
  <2>2. Length(graph, c) = Len(Present(RestFrom(held, i))) BY <1>1, <1>3, ItemsAre DEF Length, RestFrom
  <2>3. held \in Seq(Slot) /\ i \in 1..Len(held) BY <1>1, ListSays
  <2>4. Present(RestFrom(held, i)) \in Seq(Item) BY <2>3, FromIs
  <2>5. PICK j : j = k + 1 OBVIOUS
  <2>6. j \in 1..Len(Present(RestFrom(held, i))) /\ j - 1 = k
    <3>1. k \in 0..(Len(Present(RestFrom(held, i))) - 1) BY <2>2 DEF Keys0
    <3>2. Len(Present(RestFrom(held, i))) \in Nat BY <2>4
    <3> QED BY <2>5, <3>1, <3>2
  <2>7. Assigns(SetItem(graph, cells[i], j - 1, x), held, i, j, x) BY <1>1, <2>6, AssignedAt
  <2> QED BY <1>3, <2>1, <2>6, <2>7 DEF Assigns, ListThere
<1>7. ASSUME NEW k \in Keys0(c), Delete(c, k) PROVE ListThere(graph')
  <2>1. graph' = DelItem(graph, c, k) BY <1>7 DEF Delete, Edit
  <2>2. k \in 0..(Length(graph, cells[i]) - 1) BY <1>3 DEF Keys0
  <2>3. Deletes(DelItem(graph, cells[i], k), held, i, k) BY <1>1, <2>2, Deleted
  <2> QED BY <1>3, <2>1, <2>3 DEF Deletes, ListThere
<1>8. ASSUME ClearList(c) PROVE ListThere(graph')
  <2>1. graph' = ClearFrom(graph, c) BY <1>8 DEF ClearList, Edit
  <2>2. ListIn(ClearFrom(graph, cells[i]), SubSeq(cells, 1, i), Emptied(held, i), None)
    BY <1>1, Cleared
  <2> QED BY <1>3, <2>1, <2>2 DEF ListThere
<1> QED BY <1>2, <1>4, <1>5, <1>6, <1>7, <1>8

LEMMA ListAtFirst == ListThere({})
<1>1. ListIn({}, <<List>>, <<None>>, None)
  <2>1. TriplesOnly({}) BY FS_EmptySet DEF TriplesOnly
  <2>2. \A a, b : Objects({}, a, b) = {} BY DEF Objects, Triples
  <2>3. IsChain(<<List>>, <<None>>) BY DEF IsChain, Slot
  <2>4. Only(None) = {} BY DEF Only
  <2>5. LinksOf({}, <<List>>, <<None>>, None) BY <2>2, <2>4 DEF LinksOf, NextCell
  <2> QED BY <2>1, <2>2, <2>3, <2>5 DEF ListIn
<1> QED BY <1>1 DEF ListThere

LEMMA MemberNames ==
  /\ Len(Member) \in Nat /\ MaxItems \in 0..Len(Member)
  /\ \A m \in 1..Len(Member) : Member[m] # None /\ Member[m] # "type"
  /\ \A m, n \in 1..Len(Member) : Member[m] = Member[n] => m = n
  /\ Bag # None
<1>1. Len(Member) \in Nat /\ DOMAIN Member = 1..Len(Member) BY MembersDiffer
<1>2. \A m \in 1..Len(Member) : Member[m] \in ToSet(Member) BY <1>1 DEF ToSet
<1>3. \A m, n \in 1..Len(Member) : Member[m] = Member[n] => m = n
  BY <1>1, MembersDiffer DEF IsInjective
<1>4. \A m \in 1..Len(Member) : Member[m] # None /\ Member[m] # "type" BY <1>2, MembersDiffer
<1> QED BY <1>1, <1>3, <1>4, MembersDiffer

(* A set as a sequence. *)
LEMMA ListedIs ==
  ASSUME NEW S, IsFiniteSet(S)
  PROVE  SetToSeq(S) \in Seq(S) /\ Len(SetToSeq(S)) = Cardinality(S)
<1>1. Cardinality(S) \in Nat /\ ExistsBijection(1..Cardinality(S), S) BY FS_CardinalityType
<1>2. \E f \in [1..Cardinality(S) -> S] : IsInjective(f)
  BY <1>1 DEF ExistsBijection, Bijection, Injection
<1>3. SetToSeq(S) \in [1..Cardinality(S) -> S] BY <1>2 DEF SetToSeq
<1> QED BY <1>1, <1>3

LEMMA OneListed ==
  ASSUME NEW x
  PROVE  SetToSeq({x}) = <<x>> /\ SetToSeq({}) = <<>>
<1>1. IsFiniteSet({x}) /\ Cardinality({x}) = 1 BY FS_Singleton
<1>2. IsFiniteSet({}) /\ Cardinality({}) = 0 BY FS_EmptySet
<1>3. SetToSeq({x}) \in Seq({x}) /\ Len(SetToSeq({x})) = 1 BY <1>1, ListedIs
<1>4. SetToSeq({}) \in Seq({}) /\ Len(SetToSeq({})) = 0 BY <1>2, ListedIs
<1>5. SetToSeq({x})[1] = x BY <1>3
<1> QED BY <1>3, <1>4, <1>5

(* Sequences one after the other. *)
Flattens(f, seqs, n) ==
  f = [i \in 1..n |-> IF i = 1 THEN seqs[i] ELSE f[i - 1] \o seqs[i]]

LEMMA FlattensExist ==
  ASSUME NEW seqs, NEW n \in Nat
  PROVE  \E f : Flattens(f, seqs, n)
<1> DEFINE N == {m \in Nat : \E f : Flattens(f, seqs, m)}
<1>1. 0 \in N
  <2>1. Flattens([k \in 1..0 |-> <<>>], seqs, 0) BY DEF Flattens
  <2> QED BY <2>1
<1>2. ASSUME NEW m \in N PROVE m + 1 \in N
  <2>1. PICK f : Flattens(f, seqs, m) OBVIOUS
  <2> DEFINE last == IF m = 0 THEN seqs[m + 1] ELSE f[m] \o seqs[m + 1]
  <2> DEFINE e == [k \in 1..(m + 1) |-> IF k = m + 1 THEN last ELSE f[k]]
  <2>2. \A k \in 1..m : e[k] = f[k] OBVIOUS
  <2>3. \A k \in 1..m : f[k] = IF k = 1 THEN seqs[k] ELSE f[k - 1] \o seqs[k]
    BY <2>1 DEF Flattens
  <2>4. e[m + 1] = IF m + 1 = 1 THEN seqs[m + 1] ELSE e[m] \o seqs[m + 1] BY <2>2
  <2>5. ASSUME NEW k \in 1..(m + 1)
        PROVE  e[k] = IF k = 1 THEN seqs[k] ELSE e[k - 1] \o seqs[k]
    <3>1. CASE k = m + 1
      <4>1. k - 1 = m BY <3>1
      <4> HIDE DEF e
      <4> QED BY <3>1, <4>1, <2>4
    <3>2. CASE k \in 1..m
      <4>1. k # 1 => k - 1 \in 1..m BY <3>2
      <4> HIDE DEF e
      <4> QED BY <3>2, <4>1, <2>2, <2>3
    <3> QED BY <3>1, <3>2
  <2>6. e = [k \in 1..(m + 1) |-> e[k]] OBVIOUS
  <2> HIDE DEF e
  <2>7. Flattens(e, seqs, m + 1) BY <2>5, <2>6 DEF Flattens
  <2> QED BY <2>7
<1> HIDE DEF N
<1>3. N \subseteq Nat BY DEF N
<1>4. N = Nat BY <1>1, <1>2, <1>3, EveryNumber
<1> QED BY <1>4 DEF N

LEMMA FlattenIs ==
  ASSUME NEW seqs, Len(seqs) \in Nat \ {0}
  PROVE  \E f : /\ FlattenSeq(seqs) = f[Len(seqs)]
                /\ f[1] = seqs[1]
                /\ \A i \in 2..Len(seqs) : f[i] = f[i - 1] \o seqs[i]
<1> DEFINE n == Len(seqs)
<1> DEFINE f == CHOOSE f : Flattens(f, seqs, n)
<1>1. FlattenSeq(seqs) = f[n] BY DEF FlattenSeq, Flattens
<1>2. Flattens(f, seqs, n) BY FlattensExist
<1> HIDE DEF f
<1>3. \A i \in 1..n : f[i] = IF i = 1 THEN seqs[i] ELSE f[i - 1] \o seqs[i] BY <1>2 DEF Flattens
<1>4. 1 \in 1..n /\ \A i \in 2..n : i \in 1..n /\ i # 1 OBVIOUS
<1>5. f[1] = seqs[1] BY <1>3, <1>4
<1>6. \A i \in 2..n : f[i] = f[i - 1] \o seqs[i] BY <1>3, <1>4
<1> QED BY <1>1, <1>5, <1>6

-----------------------------------------------------------------------------
(* The members of a container, one for each number. *)
MembersAre(g, s) ==
  /\ TriplesOnly(g) /\ Len(s) \in 0..Len(Member)
  /\ \A m \in 1..Len(Member) :
       Objects(g, Bag, Member[m]) = IF m <= Len(s) THEN {s[m]} ELSE {}

LEMMA EndType ==
  ASSUME NEW g
  PROVE  /\ End(g, Bag) \in 0..Len(Member)
         /\ \A i \in 1..End(g, Bag) : Held(g, Bag, i) # None
         /\ End(g, Bag) = Len(Member) \/ Held(g, Bag, End(g, Bag) + 1) = None
<1> DEFINE M == Len(Member)
<1>0. M \in Nat BY MemberNames
<1> DEFINE N == {n \in 0..M : n = M \/ Held(g, Bag, n + 1) = None}
<1>1. N \subseteq Nat /\ M \in N /\ N \subseteq 0..M BY <1>0
<1>2. PICK n \in N : \A m \in N : n <= m
  <2>1. N \subseteq Nat /\ N # {} BY <1>1
  <2> HIDE DEF N
  <2> QED BY <2>1, LeastNumber
<1>3. \A i \in 1..n : Held(g, Bag, i) # None
  <2> TAKE i \in 1..n
  <2>1. i - 1 \in 0..M /\ i - 1 # M /\ (i - 1) + 1 = i /\ ~(n <= i - 1) BY <1>0, <1>1
  <2> QED BY <1>2, <2>1
<1>4. n \in 0..M /\ (n = M \/ Held(g, Bag, n + 1) = None) BY <1>0
<1>5. \E k \in 0..Len(Member) : /\ \A i \in 1..k : Held(g, Bag, i) # None
                                /\ k = Len(Member) \/ Held(g, Bag, k + 1) = None
  BY <1>3, <1>4
<1> QED BY <1>5 DEF End

LEMMA NumberedIs ==
  ASSUME NEW U, NEW s \in Seq(U), None \notin U, NEW g, MembersAre(g, s)
  PROVE  /\ \A m \in 1..Len(Member) : Held(g, Bag, m) = IF m <= Len(s) THEN s[m] ELSE None
         /\ End(g, Bag) = Len(s) /\ Members(g, Bag) = s
<1> DEFINE M == Len(Member)
<1> DEFINE n == Len(s)
<1>0. M \in Nat /\ n \in 0..M /\ \A m \in 1..n : s[m] # None BY MemberNames DEF MembersAre
<1>1. ASSUME NEW m \in 1..M PROVE Held(g, Bag, m) = IF m <= n THEN s[m] ELSE None
  <2>1. Objects(g, Bag, Member[m]) = IF m <= n THEN {s[m]} ELSE {} BY DEF MembersAre
  <2>2. CASE m <= n
    <3>1. s[m] # None BY <1>0, <2>2
    <3>2. Objects(g, Bag, Member[m]) = Only(s[m]) BY <2>1, <2>2, <3>1 DEF Only
    <3> QED BY <2>2, <3>2, ValueIs DEF Held
  <2>3. CASE ~(m <= n)
    <3>1. Objects(g, Bag, Member[m]) = Only(None) BY <2>1, <2>3 DEF Only
    <3> QED BY <2>3, <3>1, ValueIs DEF Held
  <2> QED BY <2>2, <2>3
<1>2. End(g, Bag) = n
  <2> DEFINE e == End(g, Bag)
  <2>1. e \in 0..M /\ (\A i \in 1..e : Held(g, Bag, i) # None) /\ (e = M \/ Held(g, Bag, e + 1) = None)
    BY EndType
  <2> HIDE DEF e
  <2>2. ~(e < n)
    <3> SUFFICES ASSUME e < n PROVE FALSE OBVIOUS
    <3>1. e # M /\ e + 1 \in 1..M /\ e + 1 <= n /\ e + 1 \in 1..n BY <1>0, <2>1
    <3> QED BY <1>0, <1>1, <2>1, <3>1
  <2>3. ~(e > n)
    <3> SUFFICES ASSUME e > n PROVE FALSE OBVIOUS
    <3>1. n + 1 \in 1..M /\ n + 1 \in 1..e /\ ~(n + 1 <= n) BY <1>0, <2>1
    <3> QED BY <1>1, <2>1, <3>1
  <2> QED BY <1>0, <2>1, <2>2, <2>3 DEF e
<1>3. Members(g, Bag) = s
  <2>1. Members(g, Bag) = [i \in 1..n |-> Held(g, Bag, i)] BY <1>2 DEF Members
  <2>2. \A i \in 1..n : Held(g, Bag, i) = s[i] BY <1>0, <1>1
  <2>3. s = [i \in 1..n |-> s[i]] OBVIOUS
  <2> QED BY <2>1, <2>2, <2>3
<1> QED BY <1>1, <1>2, <1>3

(* Such members are counted right, *)
LEMMA NumberedCounts ==
  ASSUME NEW U, NEW s \in Seq(U), None \notin U, NEW g, MembersAre(g, s)
  PROVE  Counts(Len(s), g)
<1> DEFINE M == Len(Member)
<1> DEFINE n == Len(s)
<1> DEFINE part == [i \in 1..M |-> SetToSeq(Objects(g, Bag, Member[i]))]
<1>0. M \in Nat /\ n \in 0..M /\ n \in Nat BY MemberNames DEF MembersAre
<1>1. SeqItems(g, Bag) = FlattenSeq(part) BY DEF SeqItems
<1>2. Len(part) = M BY <1>0
<1>3. \A i \in 1..M : part[i] = IF i <= n THEN <<s[i]>> ELSE <<>>
  <2> TAKE i \in 1..M
  <2>1. Objects(g, Bag, Member[i]) = IF i <= n THEN {s[i]} ELSE {} BY DEF MembersAre
  <2>2. part[i] = SetToSeq(Objects(g, Bag, Member[i])) OBVIOUS
  <2> QED BY <2>1, <2>2, OneListed
<1> HIDE DEF part
<1>4. FlattenSeq(part) = s
  <2>1. CASE M = 0
    <3>1. FlattenSeq(part) = part BY <1>2, <2>1 DEF FlattenSeq
    <3>2. part = <<>> BY <2>1 DEF part
    <3>3. s = <<>> BY <1>0, <2>1, EmptySeq
    <3> QED BY <3>1, <3>2, <3>3
  <2>2. CASE M # 0
    <3>1. Len(part) \in Nat \ {0} BY <1>0, <1>2, <2>2
    <3>2. PICK f : /\ FlattenSeq(part) = f[M] /\ f[1] = part[1]
                   /\ \A i \in 2..M : f[i] = f[i - 1] \o part[i]
      <4>1. \E f : /\ FlattenSeq(part) = f[Len(part)] /\ f[1] = part[1]
                   /\ \A i \in 2..Len(part) : f[i] = f[i - 1] \o part[i]
        BY <3>1, FlattenIs
      <4> QED BY <1>2, <4>1
    <3> DEFINE at(k) == IF k <= n THEN k ELSE n
    <3> DEFINE N == {k \in Nat : k + 1 <= M => f[k + 1] = SubSeq(s, 1, at(k + 1))}
    <3>3. \A k \in Nat : at(k) \in 0..n BY <1>0
    <3>4. 0 \in N
      <4>1. 1 \in 1..M BY <1>0, <2>2
      <4>2. CASE 1 <= n
        <5>1. part[1] = <<s[1]>> /\ at(1) = 1 BY <1>3, <4>1, <4>2
        <5>2. SubSeq(s, 1, 1) = <<s[1]>>
          <6>1. 1 \in 1..Len(s) BY <1>0, <4>2
          <6>2. SubSeq(s, 1, 1) \in Seq(U) /\ Len(SubSeq(s, 1, 1)) = 1 /\ SubSeq(s, 1, 1)[1] = s[1]
            BY <6>1
          <6>3. s[1] \in U BY <6>1
          <6>4. <<s[1]>> \in Seq(U) /\ Len(<<s[1]>>) = 1 /\ <<s[1]>>[1] = s[1] BY <6>3
          <6>5. \A k \in 1..1 : SubSeq(s, 1, 1)[k] = <<s[1]>>[k] BY <6>2, <6>4
          <6> QED BY <6>2, <6>4, <6>5, SeqEqual
        <5>3. f[1] = SubSeq(s, 1, at(1)) BY <3>2, <5>1, <5>2
        <5>4. 0 + 1 = 1 /\ 0 \in Nat OBVIOUS
        <5> HIDE DEF at
        <5> QED BY <5>3, <5>4
      <4>3. CASE ~(1 <= n)
        <5>1. part[1] = <<>> BY <1>3, <4>1, <4>3
        <5>2. at(1) = 0 BY <1>0, <4>3
        <5>3. SubSeq(s, 1, 0) = <<>> BY SubSeqEmpty
        <5>4. f[1] = SubSeq(s, 1, at(1)) BY <3>2, <5>1, <5>2, <5>3
        <5>5. 0 + 1 = 1 /\ 0 \in Nat OBVIOUS
        <5> HIDE DEF at
        <5> QED BY <5>4, <5>5
      <4> QED BY <4>2, <4>3
    <3>5. ASSUME NEW k \in N PROVE k + 1 \in N
      <4> SUFFICES ASSUME (k + 1) + 1 <= M
                   PROVE  f[(k + 1) + 1] = SubSeq(s, 1, at((k + 1) + 1))
        OBVIOUS
      <4>1. k \in Nat /\ f[k + 1] = SubSeq(s, 1, at(k + 1)) BY <1>0
      <4> HIDE DEF N
      <4>2. PICK j : j = k + 1 OBVIOUS
      <4>3. /\ j \in Nat /\ j + 1 \in 2..M /\ j + 1 \in 1..M /\ j >= 1 /\ (j + 1) - 1 = j
        BY <1>0, <4>1, <4>2
      <4>4. f[j + 1] = f[j] \o part[j + 1]
        <5>1. f[j + 1] = f[(j + 1) - 1] \o part[j + 1] BY <3>2, <4>3
        <5> QED BY <4>3, <5>1
      <4>5. f[j] = SubSeq(s, 1, at(j)) BY <4>1, <4>2
      <4>6. CASE j + 1 <= n
        <5>1. at(j) = j /\ at(j + 1) = j + 1 /\ j + 1 \in 1..Len(s) BY <1>0, <4>3, <4>6
        <5>2. part[j + 1] = <<s[j + 1]>> BY <1>3, <4>3, <4>6
        <5>3. SubSeq(s, 1, j + 1) = SubSeq(s, 1, j) \o <<s[j + 1]>>
          <6>1. 1 \in 1..(j + 1) /\ j + 1 \in 1..Len(s) BY <4>3, <5>1
          <6> QED BY <4>3, <6>1, SubSeqRecursiveSecond
        <5> QED BY <4>2, <4>4, <4>5, <5>1, <5>2, <5>3
      <4>7. CASE ~(j + 1 <= n)
        <5>1. at(j) = n /\ at(j + 1) = n BY <1>0, <4>3, <4>7
        <5>2. part[j + 1] = <<>> BY <1>3, <4>3, <4>7
        <5>3. SubSeq(s, 1, n) \in Seq(U) BY <1>0
        <5>4. SubSeq(s, 1, n) \o <<>> = SubSeq(s, 1, n) BY <5>3, ConcatEmptySeq
        <5> QED BY <4>2, <4>4, <4>5, <5>1, <5>2, <5>4
      <4> QED BY <4>6, <4>7
    <3> HIDE DEF N
    <3>6. N \subseteq Nat BY DEF N
    <3>7. N = Nat BY <3>4, <3>5, <3>6, EveryNumber
    <3>8. M - 1 \in Nat /\ (M - 1) + 1 = M BY <1>0, <2>2
    <3>9. f[M] = SubSeq(s, 1, at(M))
      <4>1. M - 1 \in N BY <3>7, <3>8
      <4> QED BY <3>8, <4>1 DEF N
    <3>10. at(M) = n BY <1>0
    <3>11. SubSeq(s, 1, n) = s BY SubSeqFull
    <3> QED BY <3>2, <3>9, <3>10, <3>11
  <2> QED BY <2>1, <2>2
<1>5. End(g, Bag) = n /\ Members(g, Bag) = s BY NumberedIs
<1> QED BY <1>1, <1>4, <1>5 DEF Counts

LEMMA FiniteObjects ==
  ASSUME NEW g, TriplesOnly(g), NEW a, NEW b
  PROVE  IsFiniteSet(Objects(g, a, b))
<1> DEFINE T == Triples(g, a, b, None)
<1> DEFINE f == [t \in T |-> t[3]]
<1>1. T \subseteq g BY DEF Triples
<1>2. IsFiniteSet(T) BY <1>1, FS_Subset DEF TriplesOnly
<1>3. Objects(g, a, b) = {t[3] : t \in T} BY DEF Objects
<1> HIDE DEF T
<1>4. f \in Surjection(T, Objects(g, a, b)) BY <1>3 DEF Surjection
<1> QED BY <1>2, <1>4, FS_Surjection

(* and members that are counted right are such. *)
LEMMA CountsNumbered ==
  ASSUME NEW g, TriplesOnly(g), NEW n, Counts(n, g)
  PROVE  /\ n = End(g, Bag) /\ Len(Members(g, Bag)) = n /\ MembersAre(g, Members(g, Bag))
         /\ \E U : None \notin U /\ Item \subseteq U /\ Members(g, Bag) \in Seq(U)
<1> DEFINE M == Len(Member)
<1> DEFINE e == End(g, Bag)
<1> DEFINE s == Members(g, Bag)
<1> DEFINE V == {t[3] : t \in g}
<1> DEFINE O(i) == Objects(g, Bag, Member[i])
<1> DEFINE part == [i \in 1..M |-> SetToSeq(O(i))]
<1>0. M \in Nat BY MemberNames
<1>1. /\ e \in 0..M /\ \A i \in 1..e : Held(g, Bag, i) # None BY EndType
<1>2. n = e /\ FlattenSeq(part) = s BY DEF Counts, SeqItems
<1>3. s = [i \in 1..e |-> Held(g, Bag, i)] /\ Len(s) = e /\ e \in Nat BY <1>1 DEF Members
<1> HIDE DEF e, s
<1>4. \A i \in 1..M : /\ IsFiniteSet(O(i)) /\ O(i) \subseteq V
                     /\ Cardinality(O(i)) \in Nat
                     /\ SetToSeq(O(i)) \in Seq(V) /\ Len(SetToSeq(O(i))) = Cardinality(O(i))
  <2> TAKE i \in 1..M
  <2>1. IsFiniteSet(O(i)) BY FiniteObjects
  <2>2. O(i) \subseteq V BY DEF Objects, Triples
  <2> HIDE DEF V, O
  <2>3. SetToSeq(O(i)) \in Seq(O(i)) /\ Len(SetToSeq(O(i))) = Cardinality(O(i)) BY <2>1, ListedIs
  <2>4. Seq(O(i)) \subseteq Seq(V) BY <2>2, SeqMonotonic
  <2> QED BY <2>1, <2>2, <2>3, <2>4, FS_CardinalityType
<1>5. \A i \in 1..e : Cardinality(O(i)) >= 1
  <2> TAKE i \in 1..e
  <2>1. i \in 1..M BY <1>0, <1>1 DEF e
  <2>2. O(i) # {} BY <1>1 DEF e, Held, Value
  <2> HIDE DEF O
  <2>3. IsFiniteSet(O(i)) /\ Cardinality(O(i)) \in Nat BY <1>4, <2>1
  <2>4. Cardinality(O(i)) # 0 BY <2>2, <2>3, FS_EmptySet
  <2>5. PICK c : c = Cardinality(O(i)) OBVIOUS
  <2>6. c \in Nat /\ c # 0 BY <2>3, <2>4, <2>5
  <2>7. c >= 1 BY ONLY <2>6
  <2> QED BY <2>5, <2>7
<1>6. \A i \in 1..M : part[i] = SetToSeq(O(i)) OBVIOUS
<1>7. Len(part) = M BY <1>0
<1> HIDE DEF part, O, V
<1> DEFINE one(i) == IF i <= e THEN 1 ELSE 0
<1>8. \A i \in 1..M : Cardinality(O(i)) = one(i)
  <2>1. CASE M = 0 BY <2>1
  <2>2. CASE M # 0
    <3>1. Len(part) \in Nat \ {0} BY <1>0, <1>7, <2>2
    <3>2. PICK f : /\ FlattenSeq(part) = f[M] /\ f[1] = part[1]
                   /\ \A i \in 2..M : f[i] = f[i - 1] \o part[i]
      <4>1. \E f : /\ FlattenSeq(part) = f[Len(part)] /\ f[1] = part[1]
                   /\ \A i \in 2..Len(part) : f[i] = f[i - 1] \o part[i]
        BY <3>1, FlattenIs
      <4> QED BY <1>7, <4>1
    <3> DEFINE low(k) == IF k <= e THEN k ELSE e
    <3> DEFINE K(k) == /\ f[k] \in Seq(V) /\ Len(f[k]) >= low(k)
                       /\ Len(f[k]) = low(k) => \A i \in 1..k : Cardinality(O(i)) = one(i)
    <3> DEFINE N == {k \in Nat : k + 1 <= M => K(k + 1)}
    <3>3. 0 \in N
      <4>1. 1 \in 1..M BY <1>0, <2>2
      <4>2. f[1] \in Seq(V) /\ Len(f[1]) = Cardinality(O(1)) /\ Cardinality(O(1)) \in Nat
        BY <1>4, <1>6, <3>2, <4>1
      <4>3. CASE 1 <= e
        <5>1. 1 \in 1..e /\ low(1) = 1 /\ one(1) = 1 BY <1>1, <4>3 DEF e
        <5>2. K(1) BY <1>5, <4>2, <5>1
        <5> QED BY <5>2
      <4>4. CASE ~(1 <= e)
        <5>1. e = 0 BY <1>3, <4>4
        <5>2. low(1) = 0 /\ one(1) = 0 BY <5>1
        <5>3. K(1) BY <4>2, <5>2
        <5> QED BY <5>3
      <4> QED BY <4>3, <4>4
    <3>4. ASSUME NEW k \in N PROVE k + 1 \in N
      <4> SUFFICES ASSUME (k + 1) + 1 <= M PROVE K((k + 1) + 1) OBVIOUS
      <4>1. k \in Nat /\ K(k + 1) BY <1>0
      <4> HIDE DEF N
      <4>2. PICK j : j = k + 1 OBVIOUS
      <4>3. /\ j \in Nat /\ j + 1 \in 2..M /\ j + 1 \in 1..M /\ j >= 1 /\ (j + 1) - 1 = j
        BY <1>0, <4>1, <4>2
      <4>4. f[j + 1] = f[j] \o part[j + 1]
        <5>1. f[j + 1] = f[(j + 1) - 1] \o part[j + 1] BY <3>2, <4>3
        <5> QED BY <4>3, <5>1
      <4>5. K(j) BY <4>1, <4>2
      <4>6. PICK a, b, c : a = f[j] /\ b = part[j + 1] /\ c = Cardinality(O(j + 1)) OBVIOUS
      <4>7. a \in Seq(V) /\ b \in Seq(V) /\ Len(b) = c /\ c \in Nat BY <1>4, <1>6, <4>3, <4>5, <4>6
      <4>8. f[j + 1] \in Seq(V) /\ Len(f[j + 1]) = Len(a) + c 
        <5>1. a \o b \in Seq(V) /\ Len(a \o b) = Len(a) + Len(b) BY <4>7, ConcatProperties
        <5> QED BY <4>4, <4>6, <4>7, <5>1
      <4>9. Len(a) \in Nat /\ Len(a) >= low(j)
             /\ (Len(a) = low(j) => \A i \in 1..j : Cardinality(O(i)) = one(i))
        BY <4>5, <4>6, <4>7
      <4>10. c >= one(j + 1) /\ one(j + 1) \in {0, 1}
        <5>1. j + 1 <= e => j + 1 \in 1..e BY <1>3, <4>3
        <5> QED BY <1>5, <4>6, <4>7, <5>1
      <4>11. low(j + 1) = low(j) + one(j + 1) /\ low(j) \in Nat BY <1>3, <4>3
      <4> HIDE DEF low, one
      <4>12. Len(f[j + 1]) >= low(j + 1) BY <4>7, <4>8, <4>9, <4>10, <4>11
      <4>13. ASSUME Len(f[j + 1]) = low(j + 1)
             PROVE  \A i \in 1..(j + 1) : Cardinality(O(i)) = one(i)
        <5>1. Len(a) = low(j) /\ c = one(j + 1) BY <4>7, <4>8, <4>9, <4>10, <4>11, <4>13
        <5>2. \A i \in 1..(j + 1) : i \in 1..j \/ i = j + 1 BY <4>3
        <5> QED BY <4>6, <4>9, <5>1, <5>2
      <4>14. K(j + 1) BY <4>8, <4>12, <4>13
      <4> QED BY <4>2, <4>14
    <3> HIDE DEF N, K
    <3>5. N \subseteq Nat BY DEF N
    <3>6. N = Nat BY <3>3, <3>4, <3>5, EveryNumber
    <3>7. K(M)
      <4>1. M - 1 \in Nat /\ (M - 1) + 1 = M BY <1>0, <2>2
      <4>2. M - 1 \in N BY <3>6, <4>1
      <4> QED BY <4>1, <4>2 DEF N
    <3>8. Len(f[M]) = e BY <1>2, <1>3, <3>2
    <3>9. low(M) = e BY <1>0, <1>1 DEF e
    <3> QED BY <3>7, <3>8, <3>9 DEF K
  <2> QED BY <2>1, <2>2
<1>9. ASSUME NEW m \in 1..M
      PROVE  Objects(g, Bag, Member[m]) = IF m <= e THEN {s[m]} ELSE {}
  <2>1. IsFiniteSet(O(m)) /\ Cardinality(O(m)) = one(m) BY <1>4, <1>8
  <2>2. CASE m <= e
    <3>1. \E x : O(m) = {x} BY <2>1, <2>2, FS_Singleton
    <3>2. PICK x : O(m) = {x} BY <3>1
    <3>3. Held(g, Bag, m) = x BY <3>2 DEF O, Held, Value
    <3>4. m \in 1..e BY <2>2
    <3>5. s[m] = x BY <1>3, <3>3, <3>4
    <3> QED BY <2>2, <3>2, <3>5 DEF O
  <2>3. CASE ~(m <= e)
    <3>1. O(m) = {} BY <2>1, <2>3, FS_EmptySet
    <3> QED BY <2>3, <3>1 DEF O
  <2> QED BY <2>2, <2>3
<1>10. MembersAre(g, s) BY <1>1, <1>3, <1>9 DEF MembersAre, e
<1>11. \E U : None \notin U /\ Item \subseteq U /\ s \in Seq(U)
  <2> DEFINE U == {Held(g, Bag, i) : i \in 1..e} \cup Item
  <2>1. None \notin U BY <1>1, Names DEF e
  <2>2. s \in Seq(U) BY <1>3
  <2> HIDE DEF U
  <2>3. Item \subseteq U BY DEF U
  <2> QED BY <2>1, <2>2, <2>3
<1> QED BY <1>2, <1>3, <1>10, <1>11 DEF e, s

(* What is there at each number, or None. *)
Slots(g, v) ==
  /\ TriplesOnly(g)
  /\ \A m \in 1..Len(Member) : Objects(g, Bag, Member[m]) = Only(v[m])

Filling(s) == [m \in 1..Len(Member) |-> IF m <= Len(s) THEN s[m] ELSE None]

LEMMA SlotsNumbered ==
  ASSUME NEW U, NEW s \in Seq(U), None \notin U, Len(s) <= Len(Member), NEW g, NEW v,
         \A m \in 1..Len(Member) : v[m] = IF m <= Len(s) THEN s[m] ELSE None
  PROVE  MembersAre(g, s) <=> Slots(g, v)
<1>1. Len(Member) \in Nat /\ Len(s) \in 0..Len(Member) BY MemberNames
<1>2. ASSUME NEW m \in 1..Len(Member)
      PROVE  Only(v[m]) = IF m <= Len(s) THEN {s[m]} ELSE {}
  <2>1. CASE m <= Len(s)
    <3>1. m \in 1..Len(s) BY <1>1, <2>1
    <3>2. s[m] # None BY <3>1
    <3> QED BY <2>1, <3>2 DEF Only
  <2>2. CASE ~(m <= Len(s)) BY <2>2 DEF Only
  <2> QED BY <2>1, <2>2
<1>3. MembersAre(g, s) <=> /\ TriplesOnly(g)
                         /\ \A m \in 1..Len(Member) :
                              Objects(g, Bag, Member[m]) = IF m <= Len(s) THEN {s[m]} ELSE {}
  BY <1>1 DEF MembersAre
<1> QED BY <1>2, <1>3 DEF Slots

LEMMA SlotsFilled ==
  ASSUME NEW U, NEW s \in Seq(U), None \notin U, NEW g, MembersAre(g, s)
  PROVE  Slots(g, Filling(s))
<1>1. Len(s) <= Len(Member) BY MemberNames DEF MembersAre
<1>2. \A m \in 1..Len(Member) : Filling(s)[m] = IF m <= Len(s) THEN s[m] ELSE None BY DEF Filling
<1> HIDE DEF Filling
<1> QED BY <1>1, <1>2, SlotsNumbered

Less(g, s, p, o) == g \ {<<s, p, o>>}

LEMMA LessTriple ==
  ASSUME NEW g, TriplesOnly(g), NEW s, NEW p, NEW o, NEW a, NEW b, a # None, b # None
  PROVE  Objects(Less(g, s, p, o), a, b)
           = IF a = s /\ b = p THEN Objects(g, a, b) \ {o} ELSE Objects(g, a, b)
<1> DEFINE t == <<s, p, o>>
<1> DEFINE h == Less(g, s, p, o)
<1>1. t[1] = s /\ t[2] = p /\ t[3] = o OBVIOUS
<1>2. h = g \ {t} BY DEF Less
<1>3. \A u \in g : u[1] = s /\ u[2] = p /\ u[3] = o => u = t BY DEF TriplesOnly
<1> HIDE DEF t, h
<1>4. CASE a = s /\ b = p
  <2>1. \A u : u \in Triples(h, a, b, None) <=> u \in Triples(g, a, b, None) /\ u # t
    BY <1>2 DEF Triples
  <2>2. \A u : u \in Triples(g, a, b, None) => u \in g /\ u[1] = s /\ u[2] = p
    BY <1>4 DEF Triples, Matches
  <2>3. ASSUME NEW x \in Objects(h, a, b) PROVE x \in Objects(g, a, b) /\ x # o
    <3>1. PICK u : u \in Triples(h, a, b, None) /\ x = u[3] BY DEF Objects
    <3> QED BY <3>1, <2>1, <2>2, <1>3 DEF Objects
  <2>4. ASSUME NEW x \in Objects(g, a, b), x # o PROVE x \in Objects(h, a, b)
    <3>1. PICK u : u \in Triples(g, a, b, None) /\ x = u[3] BY DEF Objects
    <3>2. u # t BY <1>1, <2>4, <3>1
    <3> QED BY <3>1, <3>2, <2>1 DEF Objects
  <2>5. Objects(h, a, b) = Objects(g, a, b) \ {o} BY <2>3, <2>4
  <2> QED BY <1>4, <2>5 DEF h
<1>5. CASE ~(a = s /\ b = p)
  <2>1. Triples(h, a, b, None) = Triples(g, a, b, None) BY <1>1, <1>2, <1>5 DEF Triples, Matches
  <2>2. Objects(h, a, b) = Objects(g, a, b) BY <2>1 DEF Objects
  <2> QED BY <1>5, <2>2 DEF h
<1> QED BY <1>4, <1>5

LEMMA MovedTriples ==
  ASSUME NEW g, TriplesOnly(g), NEW from, NEW to
  PROVE  TriplesOnly(Moved(g, Bag, from, to))
<1> DEFINE x == Held(g, Bag, from)
<1> DEFINE w == Less(g, Bag, Member[from], x)
<1>1. Moved(g, Bag, from, to) = With(w, Bag, Member[to], x) BY DEF Moved, Less, With
<1>2. w \subseteq g BY DEF Less
<1>3. IsFiniteSet(w) BY <1>2, FS_Subset DEF TriplesOnly
<1> HIDE DEF w
<1>4. TriplesOnly(w) BY <1>2, <1>3 DEF TriplesOnly
<1> HIDE DEF x
<1> QED BY <1>1, <1>4, TriplesStay

LEMMA MovedSlots ==
  ASSUME NEW g, NEW v, Slots(g, v), NEW from \in 1..Len(Member), NEW to \in 1..Len(Member),
         from # to, v[from] # None, v[to] = None, NEW w,
         \A m \in 1..Len(Member) :
           w[m] = IF m = from THEN None ELSE IF m = to THEN v[from] ELSE v[m]
  PROVE  Slots(Moved(g, Bag, from, to), w)
<1> DEFINE x == Held(g, Bag, from)
<1> DEFINE l == Less(g, Bag, Member[from], x)
<1> DEFINE h == Moved(g, Bag, from, to)
<1>1. h = With(l, Bag, Member[to], x) BY DEF Moved, Less, With
<1>2. TriplesOnly(g) /\ TriplesOnly(h) BY MovedTriples DEF Slots
<1>3. x = v[from]
  <2>1. Objects(g, Bag, Member[from]) = Only(v[from]) BY DEF Slots
  <2> QED BY <2>1, ValueIs DEF Held
<1> HIDE DEF h, x
<1>4. /\ \A m \in 1..Len(Member) : Member[m] # None
      /\ \A m, n \in 1..Len(Member) : Member[m] = Member[n] => m = n
      /\ Bag # None
  BY MemberNames
<1>5. ASSUME NEW m \in 1..Len(Member) PROVE Objects(h, Bag, Member[m]) = Only(w[m])
  <2>0. PICK a, b, c, d : a = Bag /\ b = Member[m] /\ c = Member[from] /\ d = Member[to]
    OBVIOUS
  <2>01. a # None /\ b # None BY <1>4, <2>0
  <2>1. Objects(l, Bag, Member[m])
          = IF Member[m] = Member[from] THEN Objects(g, Bag, Member[m]) \ {x}
            ELSE Objects(g, Bag, Member[m])
    <3>1. Objects(Less(g, a, c, x), a, b)
            = IF a = a /\ b = c THEN Objects(g, a, b) \ {x} ELSE Objects(g, a, b)
      BY ONLY <1>2, <2>01, LessTriple
    <3> QED BY ONLY <2>0, <3>1 DEF l
  <2> HIDE DEF l
  <2>2. Objects(h, Bag, Member[m])
          = IF Member[m] = Member[to] THEN Objects(l, Bag, Member[m]) \cup {x}
            ELSE Objects(l, Bag, Member[m])
    <3>1. Objects(With(l, a, d, x), a, b)
            = IF a = a /\ b = d THEN Objects(l, a, b) \cup {x} ELSE Objects(l, a, b)
      BY ONLY <2>01, WithTriple
    <3> QED BY ONLY <1>1, <2>0, <3>1
  <2>3. Objects(g, Bag, Member[m]) = Only(v[m]) BY DEF Slots
  <2>4. CASE m = from
    <3>1. Member[m] # Member[to] BY <1>4, <2>4
    <3>2. Objects(h, Bag, Member[m]) = Only(v[m]) \ {x} BY <2>1, <2>2, <2>3, <2>4, <3>1
    <3>3. w[m] = None BY <2>4
    <3> QED BY <1>3, <2>4, <3>2, <3>3 DEF Only
  <2>5. CASE m = to
    <3>1. Member[m] # Member[from] BY <1>4, <2>5
    <3>2. Objects(h, Bag, Member[m]) = Only(v[m]) \cup {x} BY <2>1, <2>2, <2>3, <2>5, <3>1
    <3>3. w[m] = x /\ v[m] = None /\ x # None BY <1>3, <2>5
    <3> QED BY <3>2, <3>3 DEF Only
  <2>6. CASE m # from /\ m # to
    <3>1. Member[m] # Member[from] /\ Member[m] # Member[to] BY <1>4, <2>6
    <3>2. w[m] = v[m] BY <2>6
    <3> QED BY <2>1, <2>2, <2>3, <3>1, <3>2
  <2> QED BY <2>4, <2>5, <2>6
<1>6. Slots(h, w) BY <1>2, <1>5 DEF Slots
<1> QED BY <1>6 DEF h

(* One after the other. *)
Moves(f, g, numbers, by, n) ==
  f = [j \in 0..n |-> IF j = 0 THEN g ELSE Moved(f[j - 1], Bag, numbers[j], numbers[j] + by)]

LEMMA MovesExist ==
  ASSUME NEW g, NEW numbers, NEW by, NEW n \in Nat
  PROVE  \E f : Moves(f, g, numbers, by, n)
<1> DEFINE N == {m \in Nat : \E f : Moves(f, g, numbers, by, m)}
<1>1. 0 \in N
  <2>1. Moves([k \in 0..0 |-> g], g, numbers, by, 0) BY DEF Moves
  <2> QED BY <2>1
<1>2. ASSUME NEW m \in N PROVE m + 1 \in N
  <2>1. PICK f : Moves(f, g, numbers, by, m) OBVIOUS
  <2> DEFINE last == Moved(f[m], Bag, numbers[m + 1], numbers[m + 1] + by)
  <2> DEFINE e == [k \in 0..(m + 1) |-> IF k = m + 1 THEN last ELSE f[k]]
  <2>2. \A k \in 0..m : e[k] = f[k] OBVIOUS
  <2>3. \A k \in 0..m : f[k] = IF k = 0 THEN g
                               ELSE Moved(f[k - 1], Bag, numbers[k], numbers[k] + by)
    BY <2>1 DEF Moves
  <2>4. e[m + 1] = Moved(e[m], Bag, numbers[m + 1], numbers[m + 1] + by) BY <2>2
  <2>5. ASSUME NEW k \in 0..(m + 1)
        PROVE  e[k] = IF k = 0 THEN g ELSE Moved(e[k - 1], Bag, numbers[k], numbers[k] + by)
    <3>1. CASE k = m + 1
      <4>1. k - 1 = m /\ k # 0 BY <3>1
      <4> HIDE DEF e
      <4> QED BY <3>1, <4>1, <2>4
    <3>2. CASE k \in 0..m
      <4>1. k # 0 => k - 1 \in 0..m BY <3>2
      <4> HIDE DEF e
      <4> QED BY <3>2, <4>1, <2>2, <2>3
    <3> QED BY <3>1, <3>2
  <2>6. e = [k \in 0..(m + 1) |-> e[k]] OBVIOUS
  <2> HIDE DEF e
  <2>7. Moves(e, g, numbers, by, m + 1) BY <2>5, <2>6 DEF Moves
  <2> QED BY <2>7
<1> HIDE DEF N
<1>3. N \subseteq Nat BY DEF N
<1>4. N = Nat BY <1>1, <1>2, <1>3, EveryNumber
<1> QED BY <1>4 DEF N

InTurn(f, g, numbers, by, n) ==
  /\ MovedInTurn(g, Bag, numbers, by) = f[n] /\ f[0] = g
  /\ \A j \in Nat : j + 1 <= n =>
       f[j + 1] = Moved(f[j], Bag, numbers[j + 1], numbers[j + 1] + by)

LEMMA MovedInTurnIs ==
  ASSUME NEW g, NEW numbers, NEW by, NEW n \in Nat, Len(numbers) = n
  PROVE  \E f : InTurn(f, g, numbers, by, n)
<1> DEFINE f == CHOOSE f : Moves(f, g, numbers, by, n)
<1>1. MovedInTurn(g, Bag, numbers, by) = f[n] BY DEF MovedInTurn, Moves
<1>2. Moves(f, g, numbers, by, n) BY MovesExist
<1> HIDE DEF f
<1>3. \A j \in 0..n : f[j] = IF j = 0 THEN g ELSE Moved(f[j - 1], Bag, numbers[j], numbers[j] + by)
  BY <1>2 DEF Moves
<1>4. f[0] = g BY <1>3
<1>5. ASSUME NEW j \in Nat, j + 1 <= n
      PROVE  f[j + 1] = Moved(f[j], Bag, numbers[j + 1], numbers[j + 1] + by)
  <2>1. j + 1 \in 0..n /\ j + 1 # 0 /\ (j + 1) - 1 = j BY <1>5
  <2>2. f[j + 1] = Moved(f[(j + 1) - 1], Bag, numbers[j + 1], numbers[j + 1] + by) BY <1>3, <2>1
  <2> QED BY <2>1, <2>2
<1> QED BY <1>1, <1>4, <1>5 DEF InTurn

LEMMA TurnTriples ==
  ASSUME NEW g, TriplesOnly(g), NEW numbers, NEW by, Len(numbers) \in Nat
  PROVE  TriplesOnly(MovedInTurn(g, Bag, numbers, by))
<1> DEFINE n == Len(numbers)
<1>0. n \in Nat /\ Len(numbers) = n OBVIOUS
<1> HIDE DEF n
<1>01. PICK f : InTurn(f, g, numbers, by, n) BY <1>0, MovedInTurnIs
<1>1. /\ MovedInTurn(g, Bag, numbers, by) = f[n] /\ f[0] = g
      /\ \A j \in Nat : j + 1 <= n =>
           f[j + 1] = Moved(f[j], Bag, numbers[j + 1], numbers[j + 1] + by)
  BY <1>01 DEF InTurn
<1> DEFINE N == {j \in Nat : j <= n => TriplesOnly(f[j])}
<1>2. 0 \in N BY <1>1
<1>3. ASSUME NEW j \in N PROVE j + 1 \in N
  <2> SUFFICES ASSUME j + 1 <= n PROVE TriplesOnly(f[j + 1]) OBVIOUS
  <2>1. j \in Nat /\ TriplesOnly(f[j]) BY <1>0
  <2> HIDE DEF N
  <2> QED BY <1>1, <2>1, MovedTriples
<1> HIDE DEF N
<1>4. N \subseteq Nat BY DEF N
<1>5. N = Nat BY <1>2, <1>3, <1>4, EveryNumber
<1> QED BY <1>0, <1>1, <1>5 DEF N

(* What is there at each number, move after move. *)
Turns(v, numbers, by, n) ==
  \A j \in 0..(n - 1) :
    LET from == numbers[j + 1]
        to == numbers[j + 1] + by
    IN  /\ from \in 1..Len(Member) /\ to \in 1..Len(Member) /\ from # to
        /\ v[j][from] # None /\ v[j][to] = None
        /\ \A m \in 1..Len(Member) :
             v[j + 1][m] = IF m = from THEN None ELSE IF m = to THEN v[j][from] ELSE v[j][m]

LEMMA TurnSlots ==
  ASSUME NEW g, NEW numbers, NEW by, NEW n \in Nat, Len(numbers) = n,
         NEW v, Slots(g, v[0]), Turns(v, numbers, by, n)
  PROVE  Slots(MovedInTurn(g, Bag, numbers, by), v[n])
<1>1. PICK f : InTurn(f, g, numbers, by, n) BY MovedInTurnIs
<1>2. /\ MovedInTurn(g, Bag, numbers, by) = f[n] /\ f[0] = g
      /\ \A j \in Nat : j + 1 <= n =>
           f[j + 1] = Moved(f[j], Bag, numbers[j + 1], numbers[j + 1] + by)
  BY <1>1 DEF InTurn
<1> DEFINE N == {j \in Nat : j <= n => Slots(f[j], v[j])}
<1>3. 0 \in N BY <1>2
<1>4. ASSUME NEW j \in N PROVE j + 1 \in N
  <2> SUFFICES ASSUME j + 1 <= n PROVE Slots(f[j + 1], v[j + 1]) OBVIOUS
  <2>1. j \in Nat /\ j \in 0..(n - 1) /\ Slots(f[j], v[j]) OBVIOUS
  <2> HIDE DEF N
  <2>2. PICK from, to : from = numbers[j + 1] /\ to = numbers[j + 1] + by OBVIOUS
  <2>3. PICK a, b, h : a = v[j] /\ b = v[j + 1] /\ h = f[j] OBVIOUS
  <2>4. /\ from \in 1..Len(Member) /\ to \in 1..Len(Member) /\ from # to
        /\ a[from] # None /\ a[to] = None
        /\ \A m \in 1..Len(Member) :
             b[m] = IF m = from THEN None ELSE IF m = to THEN a[from] ELSE a[m]
    BY <2>1, <2>2, <2>3 DEF Turns
  <2>5. Slots(h, a) BY <2>1, <2>3
  <2>6. Slots(Moved(h, Bag, from, to), b) BY ONLY <2>4, <2>5, MovedSlots
  <2>7. f[j + 1] = Moved(h, Bag, from, to) BY <1>2, <2>1, <2>2, <2>3
  <2> QED BY <2>3, <2>6, <2>7
<1> HIDE DEF N
<1>5. N \subseteq Nat BY DEF N
<1>6. N = Nat BY <1>3, <1>4, <1>5, EveryNumber
<1> QED BY <1>2, <1>6 DEF N

(* del container[k] *)
LEMMA DownMoved ==
  ASSUME NEW U, NEW s \in Seq(U), None \notin U, NEW g, MembersAre(g, s), NEW k \in 1..Len(s)
  PROVE  MembersAre(DelMember(g, Bag, Len(s), k), RemoveAt(s, k))
<1> DEFINE M == Len(Member)
<1> DEFINE n == Len(s)
<1> DEFINE h == Without(g, Bag, Member[k])
<1> DEFINE numbers == [j \in 1..(n - k) |-> k + j]
<1> DEFINE v == [j \in 0..(n - k) |-> [m \in 1..M |->
                   IF m < k THEN s[m] ELSE IF m < k + j THEN s[m + 1] ELSE
                   IF m = k + j THEN None ELSE IF m <= n THEN s[m] ELSE None]]
<1>0. /\ M \in Nat /\ n \in 0..M /\ n \in Nat /\ k \in 1..n /\ n - k \in Nat /\ k \in Nat
      /\ \A m \in 1..n : s[m] # None
  BY MemberNames DEF MembersAre
<1>1. \A j \in 0..(n - k), m \in 1..M :
        v[j][m] = IF m < k THEN s[m] ELSE IF m < k + j THEN s[m + 1] ELSE
                  IF m = k + j THEN None ELSE IF m <= n THEN s[m] ELSE None
  OBVIOUS
<1> HIDE DEF v
<1>2. DelMember(g, Bag, n, k) = MovedInTurn(h, Bag, numbers, -1) BY DEF DelMember
<1>3. Len(numbers) = n - k /\ \A j \in 1..(n - k) : numbers[j] = k + j BY <1>0
<1> HIDE DEF numbers, h
<1>4. Slots(h, v[0])
  <2>1. TriplesOnly(h) BY TriplesStay DEF MembersAre, h
  <2>2. ASSUME NEW m \in 1..M PROVE Objects(h, Bag, Member[m]) = Only(v[0][m])
    <3>1. Objects(h, Bag, Member[m])
            = IF Member[k] = Member[m] THEN {} ELSE Objects(g, Bag, Member[m])
      <4>1. PICK a, b, c : a = Bag /\ b = Member[k] /\ c = Member[m] OBVIOUS
      <4>2. a # None /\ b # None /\ c # None BY <1>0, <4>1, MemberNames
      <4>3. Objects(Without(g, a, b), a, c)
              = IF a = a /\ (b = None \/ b = c) THEN {} ELSE Objects(g, a, c)
        BY ONLY <4>2, WithoutIs
      <4> QED BY <4>1, <4>2, <4>3 DEF h
    <3>2. Member[k] = Member[m] <=> k = m BY <1>0, MemberNames
    <3>3. Objects(g, Bag, Member[m]) = IF m <= n THEN {s[m]} ELSE {} BY DEF MembersAre
    <3>4. 0 \in 0..(n - k) BY <1>0
    <3>5. v[0][m] = IF m < k THEN s[m] ELSE IF m = k THEN None ELSE IF m <= n THEN s[m] ELSE None
      BY <1>0, <1>1, <3>4
    <3>6. CASE m = k BY <3>1, <3>2, <3>5, <3>6, <1>0 DEF Only
    <3>7. CASE m # k
      <4>1. v[0][m] = IF m <= n THEN s[m] ELSE None BY <1>0, <3>5, <3>7
      <4>2. m <= n => s[m] # None BY <1>0
      <4> QED BY <3>1, <3>2, <3>3, <3>7, <4>1, <4>2 DEF Only
    <3> QED BY <3>6, <3>7
  <2> QED BY <2>1, <2>2 DEF Slots
<1>5. Turns(v, numbers, -1, n - k)
  <2> SUFFICES ASSUME NEW j \in 0..((n - k) - 1)
               PROVE  LET from == numbers[j + 1]
                          to == numbers[j + 1] + (-1)
                      IN  /\ from \in 1..M /\ to \in 1..M /\ from # to
                          /\ v[j][from] # None /\ v[j][to] = None
                          /\ \A m \in 1..M :
                               v[j + 1][m] = IF m = from THEN None
                                             ELSE IF m = to THEN v[j][from] ELSE v[j][m]
    BY DEF Turns
  <2>1. /\ j \in 0..(n - k) /\ j + 1 \in 0..(n - k) /\ j + 1 \in 1..(n - k) /\ j \in Nat
    BY <1>0
  <2>2. PICK p : p = k + j OBVIOUS
  <2>3. /\ numbers[j + 1] = p + 1 /\ numbers[j + 1] + (-1) = p /\ p \in 1..M /\ p + 1 \in 1..M
        /\ p + 1 <= n /\ p + 1 \in 1..n /\ p >= k /\ k + (j + 1) = p + 1
    BY <1>0, <1>3, <2>1, <2>2
  <2>4. v[j][p + 1] = s[p + 1] /\ v[j][p] = None
    BY <1>0, <1>1, <2>1, <2>2, <2>3
  <2>5. ASSUME NEW m \in 1..M
        PROVE  v[j + 1][m] = IF m = p + 1 THEN None ELSE IF m = p THEN s[p + 1] ELSE v[j][m]
    <3>1. v[j][m] = IF m < k THEN s[m] ELSE IF m < p THEN s[m + 1] ELSE
                    IF m = p THEN None ELSE IF m <= n THEN s[m] ELSE None
      BY <1>1, <2>1, <2>2
    <3>2. v[j + 1][m] = IF m < k THEN s[m] ELSE IF m < p + 1 THEN s[m + 1] ELSE
                        IF m = p + 1 THEN None ELSE IF m <= n THEN s[m] ELSE None
      BY <1>1, <2>1, <2>3
    <3>3. CASE m = p + 1 BY <1>0, <2>3, <3>2, <3>3
    <3>4. CASE m = p BY <1>0, <2>3, <3>2, <3>4
    <3>5. CASE m # p + 1 /\ m # p
      <4>1. m < p <=> m < p + 1 BY <2>3, <3>5
      <4> QED BY <3>1, <3>2, <3>5, <4>1
    <3> QED BY <3>3, <3>4, <3>5
  <2> QED BY <1>0, <2>3, <2>4, <2>5
<1>6. Slots(MovedInTurn(h, Bag, numbers, -1), v[n - k]) BY <1>0, <1>3, <1>4, <1>5, TurnSlots
<1>7. RemoveAt(s, k) \in Seq(U) /\ Len(RemoveAt(s, k)) = n - 1
      /\ \A j \in 1..(n - 1) : RemoveAt(s, k)[j] = IF j < k THEN s[j] ELSE s[j + 1]
  BY RemoveAtIs
<1>8. \A m \in 1..M : v[n - k][m] = IF m <= Len(RemoveAt(s, k)) THEN RemoveAt(s, k)[m] ELSE None
  <2> TAKE m \in 1..M
  <2>1. n - k \in 0..(n - k) /\ k + (n - k) = n BY <1>0
  <2>2. v[n - k][m] = IF m < k THEN s[m] ELSE IF m < n THEN s[m + 1] ELSE
                      IF m = n THEN None ELSE IF m <= n THEN s[m] ELSE None
    BY <1>1, <2>1
  <2>3. CASE m <= n - 1
    <3>1. m \in 1..(n - 1) /\ m < n BY <1>0, <2>3
    <3> QED BY <1>7, <2>2, <2>3, <3>1
  <2>4. CASE ~(m <= n - 1)
    <3>1. ~(m < k) /\ ~(m < n) /\ (m = n \/ ~(m <= n)) BY <1>0, <2>4
    <3> QED BY <1>7, <2>2, <2>4, <3>1
  <2> QED BY <2>3, <2>4
<1>9. Len(RemoveAt(s, k)) <= M BY <1>0, <1>7
<1> QED BY <1>2, <1>6, <1>7, <1>8, <1>9, SlotsNumbered

LEMMA InsertAtIs ==
  ASSUME NEW U, NEW s \in Seq(U), NEW i \in 1..(Len(s) + 1), NEW x \in U
  PROVE  /\ InsertAt(s, i, x) \in Seq(U) /\ Len(InsertAt(s, i, x)) = Len(s) + 1
         /\ \A j \in 1..(Len(s) + 1) :
              InsertAt(s, i, x)[j] = IF j < i THEN s[j] ELSE IF j = i THEN x ELSE s[j - 1]
<1> DEFINE a == SubSeq(s, 1, i - 1)
<1> DEFINE b == SubSeq(s, i, Len(s))
<1> DEFINE c == <<x>>
<1>1. Len(s) \in Nat /\ i \in Nat OBVIOUS
<1>2. a \in Seq(U) /\ Len(a) = i - 1 /\ \A j \in 1..(i - 1) : a[j] = s[j] OBVIOUS
<1>3. b \in Seq(U) /\ Len(b) = Len(s) - i + 1 /\ \A j \in 1..(Len(s) - i + 1) : b[j] = s[i + j - 1]
  OBVIOUS
<1>4. c \in Seq(U) /\ Len(c) = 1 /\ c[1] = x OBVIOUS
<1>5. InsertAt(s, i, x) = a \o c \o b BY DEF InsertAt
<1> HIDE DEF a, b, c
<1>6. /\ a \o c \in Seq(U) /\ Len(a \o c) = Len(a) + Len(c)
      /\ \A j \in 1..(Len(a) + Len(c)) : (a \o c)[j] = IF j <= Len(a) THEN a[j] ELSE c[j - Len(a)]
  BY <1>2, <1>4, ConcatProperties
<1>7. PICK d : d = a \o c OBVIOUS
<1>8. /\ d \in Seq(U) /\ Len(d) = i
      /\ \A j \in 1..i : d[j] = IF j < i THEN s[j] ELSE x
  <2>1. d \in Seq(U) /\ Len(d) = i BY <1>1, <1>2, <1>4, <1>6, <1>7
  <2>2. ASSUME NEW j \in 1..i PROVE d[j] = IF j < i THEN s[j] ELSE x
    <3>1. d[j] = IF j <= i - 1 THEN a[j] ELSE c[j - (i - 1)] BY <1>1, <1>2, <1>4, <1>6, <1>7
    <3>2. CASE j < i
      <4>1. j \in 1..(i - 1) /\ j <= i - 1 BY <1>1, <3>2
      <4> QED BY <3>1, <3>2, <4>1, <1>2
    <3>3. CASE ~(j < i)
      <4>1. ~(j <= i - 1) /\ j - (i - 1) = 1 BY <1>1, <3>3
      <4> QED BY <3>1, <3>3, <4>1, <1>4
    <3> QED BY <3>2, <3>3
  <2> QED BY <2>1, <2>2
<1>9. /\ d \o b \in Seq(U) /\ Len(d \o b) = Len(d) + Len(b)
      /\ \A j \in 1..(Len(d) + Len(b)) : (d \o b)[j] = IF j <= Len(d) THEN d[j] ELSE b[j - Len(d)]
  BY <1>3, <1>8, ConcatProperties
<1>10. Len(d) + Len(b) = Len(s) + 1 BY <1>1, <1>3, <1>8
<1>11. ASSUME NEW j \in 1..(Len(s) + 1)
       PROVE  (d \o b)[j] = IF j < i THEN s[j] ELSE IF j = i THEN x ELSE s[j - 1]
  <2>1. (d \o b)[j] = IF j <= i THEN d[j] ELSE b[j - i] BY <1>8, <1>9, <1>10
  <2>2. CASE j <= i
    <3>1. j \in 1..i /\ (j < i \/ j = i) BY <1>1, <2>2
    <3> QED BY <2>1, <2>2, <3>1, <1>8
  <2>3. CASE ~(j <= i)
    <3>1. j - i \in 1..(Len(s) - i + 1) /\ i + (j - i) - 1 = j - 1 /\ ~(j < i) /\ j # i BY <1>1, <2>3
    <3> QED BY <2>1, <2>3, <3>1, <1>3
  <2> QED BY <2>2, <2>3
<1> QED BY <1>5, <1>7, <1>9, <1>10, <1>11

(* container.add_at_position(k, item), below the end *)
LEMMA UpMoved ==
  ASSUME NEW U, NEW s \in Seq(U), None \notin U, NEW x \in U, NEW g, MembersAre(g, s),
         NEW k \in 1..Len(s), Len(s) + 1 <= Len(Member)
  PROVE  MembersAre(AddAt(g, Bag, Len(s), k, x), InsertAt(s, k, x))
<1> DEFINE M == Len(Member)
<1> DEFINE n == Len(s)
<1> DEFINE L == n + 1 - k
<1> DEFINE numbers == Up(k, n)
<1> DEFINE v == [j \in 0..L |-> [m \in 1..M |->
                   IF m <= n - j THEN s[m] ELSE IF m = n + 1 - j THEN None ELSE
                   IF m <= n + 1 THEN s[m - 1] ELSE None]]
<1> DEFINE h == MovedInTurn(g, Bag, numbers, 1)
<1>0. /\ M \in Nat /\ n \in 0..M /\ n \in Nat /\ k \in 1..n /\ L \in Nat /\ k \in Nat
      /\ n + 1 <= M /\ \A m \in 1..n : s[m] # None
  BY MemberNames DEF MembersAre
<1>1. \A j \in 0..L, m \in 1..M :
        v[j][m] = IF m <= n - j THEN s[m] ELSE IF m = n + 1 - j THEN None ELSE
                  IF m <= n + 1 THEN s[m - 1] ELSE None
  OBVIOUS
<1> HIDE DEF v
<1>2. AddAt(g, Bag, n, k, x) = With(h, Bag, Member[k], x)
  <2>1. k # n + 1 BY <1>0
  <2> QED BY <2>1 DEF AddAt, With
<1>3. Len(numbers) = L /\ \A j \in 1..L : numbers[j] = n + 1 - j BY <1>0 DEF Up
<1> HIDE DEF numbers
<1>4. Slots(g, v[0])
  <2>1. ASSUME NEW m \in 1..M PROVE v[0][m] = IF m <= n THEN s[m] ELSE None
    <3>1. 0 \in 0..L /\ n - 0 = n /\ n + 1 - 0 = n + 1 BY <1>0
    <3>2. v[0][m] = IF m <= n THEN s[m] ELSE IF m = n + 1 THEN None ELSE
                  IF m <= n + 1 THEN s[m - 1] ELSE None
      BY <1>1, <3>1
    <3>3. m <= n \/ m = n + 1 \/ ~(m <= n + 1) BY <1>0
    <3> QED BY <1>0, <3>2, <3>3
  <2> QED BY <1>0, <2>1, SlotsNumbered
<1>5. Turns(v, numbers, 1, L)
  <2> SUFFICES ASSUME NEW j \in 0..(L - 1)
               PROVE  LET from == numbers[j + 1]
                          to == numbers[j + 1] + 1
                      IN  /\ from \in 1..M /\ to \in 1..M /\ from # to
                          /\ v[j][from] # None /\ v[j][to] = None
                          /\ \A m \in 1..M :
                               v[j + 1][m] = IF m = from THEN None
                                             ELSE IF m = to THEN v[j][from] ELSE v[j][m]
    BY DEF Turns
  <2>1. /\ j \in 0..L /\ j + 1 \in 0..L /\ j + 1 \in 1..L /\ j \in Nat
    BY <1>0
  <2>2. PICK p : p = n - j OBVIOUS
  <2>3. /\ numbers[j + 1] = p /\ numbers[j + 1] + 1 = p + 1 /\ p \in 1..M /\ p + 1 \in 1..M
        /\ p <= n /\ p \in 1..n /\ n + 1 - j = p + 1 /\ n - (j + 1) = p - 1 /\ n + 1 - (j + 1) = p
    BY <1>0, <1>3, <2>1, <2>2
  <2>4. v[j][p] = s[p] /\ v[j][p + 1] = None
    <3>1. p <= n - j /\ ~(p + 1 <= n - j) /\ p + 1 = n + 1 - j BY <1>0, <2>1, <2>2
    <3>2. v[j][p] = s[p] BY <1>1, <2>1, <2>3, <3>1
    <3>3. v[j][p + 1] = None BY <1>1, <2>1, <2>3, <3>1
    <3> QED BY <3>2, <3>3
  <2>5. ASSUME NEW m \in 1..M
        PROVE  v[j + 1][m] = IF m = p THEN None ELSE IF m = p + 1 THEN s[p] ELSE v[j][m]
    <3>1. v[j][m] = IF m <= p THEN s[m] ELSE IF m = p + 1 THEN None ELSE
                    IF m <= n + 1 THEN s[m - 1] ELSE None
      BY <1>1, <2>1, <2>2, <2>3
    <3>2. v[j + 1][m] = IF m <= p - 1 THEN s[m] ELSE IF m = p THEN None ELSE
                        IF m <= n + 1 THEN s[m - 1] ELSE None
      BY <1>1, <2>1, <2>3
    <3>3. CASE m = p BY <1>0, <2>3, <3>2, <3>3
    <3>4. CASE m = p + 1
      <4>1. ~(m <= p - 1) /\ m # p /\ m <= n + 1 /\ m - 1 = p BY <1>0, <2>3, <3>4
      <4> QED BY <3>2, <3>4, <4>1
    <3>5. CASE m # p + 1 /\ m # p
      <4>1. m <= p <=> m <= p - 1 BY <2>3, <3>5
      <4> QED BY <3>1, <3>2, <3>5, <4>1
    <3> QED BY <3>3, <3>4, <3>5
  <2> QED BY <1>0, <2>3, <2>4, <2>5
<1>6. Slots(h, v[L]) BY <1>0, <1>3, <1>4, <1>5, TurnSlots
<1> HIDE DEF h
<1>7. InsertAt(s, k, x) \in Seq(U) /\ Len(InsertAt(s, k, x)) = n + 1
      /\ \A j \in 1..(n + 1) :
           InsertAt(s, k, x)[j] = IF j < k THEN s[j] ELSE IF j = k THEN x ELSE s[j - 1]
  <2>1. s \in Seq(U) /\ k \in 1..(Len(s) + 1) /\ x \in U BY <1>0
  <2>2. ASSUME NEW i \in 1..(Len(s) + 1)
        PROVE  /\ InsertAt(s, i, x) \in Seq(U) /\ Len(InsertAt(s, i, x)) = Len(s) + 1
               /\ \A j \in 1..(Len(s) + 1) :
                    InsertAt(s, i, x)[j] = IF j < i THEN s[j] ELSE IF j = i THEN x ELSE s[j - 1]
    BY InsertAtIs
  <2> QED BY <2>1, <2>2
<1> DEFINE t == InsertAt(s, k, x)
<1>8. x # None OBVIOUS
<1>9. ASSUME NEW m \in 1..M
      PROVE  Objects(With(h, Bag, Member[k], x), Bag, Member[m]) = IF m <= n + 1 THEN {t[m]} ELSE {}
  <2>1. Objects(With(h, Bag, Member[k], x), Bag, Member[m])
          = IF Member[m] = Member[k] THEN Objects(h, Bag, Member[m]) \cup {x}
            ELSE Objects(h, Bag, Member[m])
    <3>1. PICK a, b, c : a = Bag /\ b = Member[k] /\ c = Member[m] OBVIOUS
    <3>2. a # None /\ c # None BY <1>0, <3>1, MemberNames
    <3>3. Objects(With(h, a, b, x), a, c)
            = IF a = a /\ c = b THEN Objects(h, a, c) \cup {x} ELSE Objects(h, a, c)
      BY ONLY <3>2, WithTriple
    <3> QED BY ONLY <3>1, <3>3
  <2>2. Member[m] = Member[k] <=> m = k
    <3>1. k \in 1..M BY <1>0
    <3> QED BY <3>1, MemberNames
  <2>3. Objects(h, Bag, Member[m]) = Only(v[L][m]) BY <1>6 DEF Slots
  <2>4. L \in 0..L /\ n - L = k - 1 /\ n + 1 - L = k BY <1>0
  <2>5. v[L][m] = IF m <= k - 1 THEN s[m] ELSE IF m = k THEN None ELSE
                  IF m <= n + 1 THEN s[m - 1] ELSE None
    BY <1>1, <2>4
  <2> HIDE DEF t
  <2>6. CASE m = k
    <3>1. v[L][m] = None BY <1>0, <2>5, <2>6
    <3>2. m <= n + 1 /\ t[m] = x BY <1>0, <1>7, <2>6 DEF t
    <3> QED BY <2>1, <2>2, <2>3, <2>6, <3>1, <3>2 DEF Only
  <2>7. CASE m < k
    <3>1. m <= k - 1 /\ m <= n + 1 /\ m \in 1..n /\ m # k /\ m \in 1..(n + 1) BY <1>0, <2>7
    <3>2. v[L][m] = s[m] /\ s[m] # None BY <1>0, <2>5, <3>1
    <3>3. t[m] = s[m] BY <1>7, <2>7, <3>1 DEF t
    <3> QED BY <2>1, <2>2, <2>3, <3>1, <3>2, <3>3 DEF Only
  <2>8. CASE m > k /\ m <= n + 1
    <3>1. ~(m <= k - 1) /\ m # k /\ ~(m < k) /\ m - 1 \in 1..n /\ m \in 1..(n + 1) BY <1>0, <2>8
    <3>2. v[L][m] = s[m - 1] /\ s[m - 1] # None BY <1>0, <2>5, <2>8, <3>1
    <3>3. t[m] = s[m - 1] BY <1>7, <3>1 DEF t
    <3> QED BY <2>1, <2>2, <2>3, <2>8, <3>1, <3>2, <3>3 DEF Only
  <2>9. CASE ~(m <= n + 1)
    <3>1. ~(m <= k - 1) /\ m # k BY <1>0, <2>9
    <3>2. v[L][m] = None BY <2>5, <2>9, <3>1
    <3> QED BY <2>1, <2>2, <2>3, <2>9, <3>1, <3>2 DEF Only
  <2>10. m = k \/ m < k \/ (m > k /\ m <= n + 1) \/ ~(m <= n + 1) BY <1>0
  <2> QED BY <2>6, <2>7, <2>8, <2>9, <2>10
<1>10. TriplesOnly(With(h, Bag, Member[k], x))
  <2>1. TriplesOnly(h) BY <1>6 DEF Slots
  <2> QED BY <2>1, TriplesStay
<1>11. Len(t) = n + 1 /\ n + 1 \in 0..M BY <1>0, <1>7
<1> HIDE DEF t
<1>12. MembersAre(With(h, Bag, Member[k], x), t) BY <1>9, <1>10, <1>11 DEF MembersAre
<1> QED BY <1>2, <1>12 DEF t

(* Members that are appended, whatever is there before. *)
LEMMA AppendTriples ==
  ASSUME NEW g, TriplesOnly(g), NEW items, Len(items) \in Nat
  PROVE  TriplesOnly(AppendMembers(g, Bag, items))
<1> DEFINE n == Len(items)
<1> DEFINE f == [i \in 1..n |-> <<Bag, Member[End(g, Bag) + i], items[i]>>]
<1> DEFINE T == {<<Bag, Member[End(g, Bag) + i], items[i]>> : i \in 1..n}
<1>1. f \in Surjection(1..n, T) BY DEF Surjection
<1>2. IsFiniteSet(1..n) BY FS_Interval
<1>3. \A t \in T : t = <<t[1], t[2], t[3]>> OBVIOUS
<1>4. AppendMembers(g, Bag, items) = g \cup T BY DEF AppendMembers
<1> HIDE DEF f, T
<1>5. IsFiniteSet(T) BY <1>1, <1>2, FS_Surjection
<1>6. IsFiniteSet(g \cup T) BY <1>5, FS_Union DEF TriplesOnly
<1> QED BY <1>3, <1>4, <1>6 DEF TriplesOnly

LEMMA MembersAppended ==
  ASSUME NEW U, NEW s \in Seq(U), None \notin U, NEW g, MembersAre(g, s),
         NEW items \in Seq(U), Len(s) + Len(items) <= Len(Member)
  PROVE  MembersAre(AppendMembers(g, Bag, items), s \o items)
<1> DEFINE M == Len(Member)
<1> DEFINE n == Len(s)
<1> DEFINE k == Len(items)
<1> DEFINE h == AppendMembers(g, Bag, items)
<1>0. M \in Nat /\ n \in 0..M /\ n \in Nat /\ k \in Nat /\ n + k <= M
  BY MemberNames DEF MembersAre
<1>1. TriplesOnly(g) /\ TriplesOnly(h) BY AppendTriples DEF MembersAre
<1>2. End(g, Bag) = n BY NumberedIs
<1>3. /\ s \o items \in Seq(U) /\ Len(s \o items) = n + k
      /\ \A j \in 1..(n + k) : (s \o items)[j] = IF j <= n THEN s[j] ELSE items[j - n]
  BY ConcatProperties
<1>4. h = g \cup {<<Bag, Member[n + i], items[i]>> : i \in 1..k} BY <1>2 DEF AppendMembers
<1> HIDE DEF h
<1>5. ASSUME NEW m \in 1..M
      PROVE  Objects(h, Bag, Member[m]) = IF m <= n + k THEN {(s \o items)[m]} ELSE {}
  <2>1. PICK p : p = Member[m] OBVIOUS
  <2>2. Bag # None /\ p # None BY <2>1, MemberNames
  <2>3. /\ \A x : x \in Objects(h, Bag, p) <=> <<Bag, p, x>> \in h
        /\ \A x : x \in Objects(g, Bag, p) <=> <<Bag, p, x>> \in g
    BY <1>1, <2>2, ObjectsAre
  <2>4. Objects(g, Bag, p) = IF m <= n THEN {s[m]} ELSE {} BY <2>1 DEF MembersAre
  <2>5. ASSUME NEW i \in 1..k PROVE Member[n + i] = p <=> i = m - n
    <3>1. n + i \in 1..M /\ (n + i = m <=> i = m - n) BY <1>0
    <3> QED BY <2>1, <3>1, MemberNames
  <2>6. ASSUME NEW x
        PROVE  <<Bag, p, x>> \in h
                 <=> <<Bag, p, x>> \in g \/ (m - n \in 1..k /\ x = items[m - n])
    <3>1. <<Bag, p, x>> \in h <=> <<Bag, p, x>> \in g
            \/ \E i \in 1..k : Member[n + i] = p /\ x = items[i]
      BY <1>4
    <3> QED BY <2>5, <3>1
  <2>7. CASE m <= n
    <3>1. ~(m - n \in 1..k) /\ m <= n + k /\ m \in 1..(n + k) BY <1>0, <2>7
    <3>2. Objects(h, Bag, p) = {s[m]} BY <2>3, <2>4, <2>6, <2>7, <3>1
    <3> QED BY <1>3, <2>1, <2>7, <3>1, <3>2
  <2>8. CASE m > n /\ m <= n + k
    <3>1. m - n \in 1..k /\ ~(m <= n) /\ m \in 1..(n + k) BY <1>0, <2>8
    <3>2. Objects(h, Bag, p) = {items[m - n]} BY <2>3, <2>4, <2>6, <3>1
    <3> QED BY <1>3, <2>1, <2>8, <3>1, <3>2
  <2>9. CASE ~(m <= n + k)
    <3>1. ~(m - n \in 1..k) /\ ~(m <= n) BY <1>0, <2>9
    <3>2. Objects(h, Bag, p) = {} BY <2>3, <2>4, <2>6, <3>1
    <3> QED BY <2>1, <2>9, <3>2
  <2>10. m <= n \/ (m > n /\ m <= n + k) \/ ~(m <= n + k) BY <1>0
  <2> QED BY <2>1, <2>7, <2>8, <2>9, <2>10
<1>6. n + k \in 0..M BY <1>0
<1>7. MembersAre(h, s \o items) BY <1>1, <1>3, <1>5, <1>6 DEF MembersAre
<1> QED BY <1>7 DEF h

(* container[k] = item *)
LEMMA MemberSet ==
  ASSUME NEW U, NEW s \in Seq(U), None \notin U, NEW g, MembersAre(g, s),
         NEW k \in 1..Len(s), NEW x \in U
  PROVE  MembersAre(SetMember(g, Bag, k, x), [s EXCEPT ![k] = x])
<1> DEFINE M == Len(Member)
<1> DEFINE n == Len(s)
<1> DEFINE t == [s EXCEPT ![k] = x]
<1>0. M \in Nat /\ n \in 0..M /\ n \in Nat /\ k \in 1..n /\ k \in 1..M
  BY MemberNames DEF MembersAre
<1>1. Len(t) = n /\ \A j \in 1..n : t[j] = IF j = k THEN x ELSE s[j] BY ExceptSeq
<1> HIDE DEF t
<1>2. PICK a, b : a = Bag /\ b = Member[k] OBVIOUS
<1>3. a # None /\ b # None BY <1>0, <1>2, MemberNames
<1>4. SetMember(g, Bag, k, x) = SetValue(g, a, b, x) BY <1>2 DEF SetMember
<1>5. TriplesOnly(SetValue(g, a, b, x)) BY TriplesStay DEF MembersAre
<1>6. ASSUME NEW m \in 1..M
      PROVE  Objects(SetValue(g, a, b, x), Bag, Member[m]) = IF m <= n THEN {t[m]} ELSE {}
  <2>1. PICK c : c = Member[m] OBVIOUS
  <2>2. c # None /\ (c = b <=> m = k) BY <1>0, <1>2, <2>1, MemberNames
  <2>3. Objects(SetValue(g, a, b, x), a, c) = IF a = a /\ c = b THEN {x} ELSE Objects(g, a, c)
    BY ONLY <1>3, <2>2, SetValueIs
  <2>4. Objects(g, a, c) = IF m <= n THEN {s[m]} ELSE {} BY <1>2, <2>1 DEF MembersAre
  <2>5. m <= n => m \in 1..n BY <1>0
  <2>6. CASE m = k
    <3>1. m <= n /\ m \in 1..n BY <1>0, <2>6
    <3> QED BY <1>1, <1>2, <2>1, <2>2, <2>3, <2>6, <3>1
  <2>7. CASE m # k BY <1>1, <1>2, <2>1, <2>2, <2>3, <2>4, <2>5, <2>7
  <2> QED BY <2>6, <2>7
<1>7. MembersAre(SetValue(g, a, b, x), t) BY <1>0, <1>1, <1>5, <1>6 DEF MembersAre
<1> QED BY <1>4, <1>7 DEF t

(* container.clear() *)
LEMMA MembersCleared ==
  ASSUME NEW g, TriplesOnly(g)
  PROVE  /\ TriplesOnly(ClearMembers(g, Bag))
         /\ \A U : \A s \in Seq(U) :
              None \notin U /\ MembersAre(g, s) => MembersAre(ClearMembers(g, Bag), <<>>)
<1> DEFINE M == Len(Member)
<1> DEFINE h == ClearMembers(g, Bag)
<1>1. h \subseteq g BY DEF ClearMembers
<1>2. TriplesOnly(h)
  <2>1. IsFiniteSet(h) BY <1>1, FS_Subset DEF TriplesOnly
  <2> QED BY <1>1, <2>1 DEF TriplesOnly
<1>3. ASSUME NEW U, NEW s \in Seq(U), None \notin U, MembersAre(g, s)
      PROVE  MembersAre(h, <<>>)
  <2> DEFINE n == Len(s)
  <2>0. M \in Nat /\ n \in 0..M /\ n \in Nat BY <1>3, MemberNames DEF MembersAre
  <2>1. End(g, Bag) = n BY <1>3, NumberedIs
  <2>2. h = g \ UNION {Triples(g, Bag, Member[i], None) : i \in 1..n} BY <2>1 DEF ClearMembers
  <2> HIDE DEF h
  <2>3. ASSUME NEW m \in 1..M PROVE Objects(h, Bag, Member[m]) = {}
    <3>1. PICK p : p = Member[m] OBVIOUS
    <3>2. Bag # None /\ p # None BY <3>1, MemberNames
    <3>3. /\ \A x : x \in Objects(h, Bag, p) <=> <<Bag, p, x>> \in h
          /\ \A x : x \in Objects(g, Bag, p) <=> <<Bag, p, x>> \in g
      BY <1>2, <3>2, ObjectsAre
    <3>4. Objects(g, Bag, p) = IF m <= n THEN {s[m]} ELSE {} BY <1>3, <3>1 DEF MembersAre
    <3>5. CASE m <= n
      <4>1. m \in 1..n BY <2>0, <3>5
      <4>2. ASSUME NEW x PROVE ~(<<Bag, p, x>> \in h)
        <5> DEFINE t == <<Bag, p, x>>
        <5>1. t \in g => t \in Triples(g, Bag, Member[m], None) BY <3>1 DEF Triples, Matches
        <5> HIDE DEF t
        <5>2. t \notin h BY <2>2, <4>1, <5>1
        <5> QED BY <5>2 DEF t
      <4> QED BY <3>1, <3>3, <4>2
    <3>6. CASE ~(m <= n)
      <4>1. \A x : <<Bag, p, x>> \notin g BY <3>3, <3>4, <3>6
      <4> QED BY <1>1, <3>1, <3>3, <4>1 DEF h
    <3> QED BY <3>5, <3>6
  <2>4. Len(<<>>) = 0 /\ 0 \in 0..M /\ \A m \in 1..M : ~(m <= 0) BY <2>0
  <2> QED BY <1>2, <2>3, <2>4 DEF MembersAre
<1> HIDE DEF h
<1>4. TriplesOnly(h) /\ \A U : \A s \in Seq(U) : None \notin U /\ MembersAre(g, s) => MembersAre(h, <<>>)
  BY <1>2, <1>3
<1> QED BY <1>4 DEF h

(* Container(graph, uri): the node becomes a sequence. *)
LEMMA TypeAdded ==
  ASSUME NEW g, NEW s, MembersAre(g, s)
  PROVE  MembersAre(With(g, Bag, "type", "Seq"), s)
<1>1. PICK a, b, o : a = Bag /\ b = "type" /\ o = "Seq" OBVIOUS
<1>2. TriplesOnly(With(g, a, b, o)) BY TriplesStay DEF MembersAre
<1>3. ASSUME NEW m \in 1..Len(Member)
      PROVE  Objects(With(g, a, b, o), Bag, Member[m]) = Objects(g, Bag, Member[m])
  <2>1. PICK c : c = Member[m] OBVIOUS
  <2>2. a # None /\ c # None /\ c # b BY <1>1, <2>1, MemberNames
  <2>3. Objects(With(g, a, b, o), a, c)
          = IF a = a /\ c = b THEN Objects(g, a, c) \cup {o} ELSE Objects(g, a, c)
    BY ONLY <2>2, WithTriple
  <2> QED BY <1>1, <2>1, <2>2, <2>3
<1> QED BY <1>1, <1>2, <1>3 DEF MembersAre

(* A handle counts the members s, which are numbered. *)
LEMMA Counted ==
  ASSUME NEW U, NEW s \in Seq(U), None \notin U, NEW g, MembersAre(g, s), NEW n, n = Len(s)
  PROVE  Counts(n, g) /\ Members(g, Bag) = s
BY NumberedCounts, NumberedIs

LEMMA Recounted ==
  ASSUME NEW h \in DOMAIN len, NEW g, NEW n, Count(h, g, n)
  PROVE  /\ graph' = g /\ DOMAIN len' = DOMAIN len /\ len'[h] = n
         /\ \A e \in DOMAIN len : e # h => len'[e] = len[e]
BY DEF Count

HandleStep(h) ==
  \/ \E xs \in ItemLists : AppendAll(h, xs)
  \/ \E k \in 1..MaxItems, x \in Item : AssignMember(h, k, x)
  \/ \E k \in 1..MaxItems : DeleteMember(h, k)
  \/ \E pos \in 1..MaxItems, x \in Item : InsertMember(h, pos, x)
  \/ ClearAll(h)

(* A handle whose count is right does to the members what is done to a     *)
(* list, and counts them again.                                            *)
LEMMA HandleDoes ==
  ASSUME TriplesOnly(graph), NEW h \in DOMAIN len, Counts(len[h], graph)
  PROVE  LET held == Members(graph, Bag)
             after == Members(graph', Bag)
             right == Counts(len'[h], graph')
         IN  /\ len[h] = Len(held) /\ len[h] \in Nat
             /\ \A xs \in ItemLists : AppendAll(h, xs) => right /\ after = held \o xs
             /\ \A x \in Item, k \in Nat :
                  /\ AssignMember(h, k, x) => right /\ k \in 1..Len(held) /\ after = ReplaceAt(held, k, x)
                  /\ InsertMember(h, k, x) => right /\ (k <= Len(held) => after = InsertAt(held, k, x))
             /\ \A k \in Nat : DeleteMember(h, k) => right /\ after = RemoveAt(held, k)
             /\ ClearAll(h) => right
<1> DEFINE s == Members(graph, Bag)
<1> DEFINE n == Len(s)
<1>1. /\ len[h] = n /\ MembersAre(graph, s) /\ len[h] = End(graph, Bag)
      /\ \E U : None \notin U /\ Item \subseteq U /\ s \in Seq(U)
  BY CountsNumbered
<1> HIDE DEF s
<1>2. PICK U : None \notin U /\ Item \subseteq U /\ s \in Seq(U) BY <1>1
<1>3. n \in Nat /\ MaxItems <= Len(Member) /\ MaxItems \in Nat /\ Len(Member) \in Nat
  BY <1>2, MemberNames
<1>4. ASSUME NEW xs \in ItemLists, AppendAll(h, xs)
      PROVE  Counts(len'[h], graph') /\ Members(graph', Bag) = s \o xs
  <2>1. xs \in Seq(U) BY <1>2, ItemListsAre, SeqMonotonic
  <2>2. graph' = AppendMembers(graph, Bag, xs) /\ len'[h] = n + Len(xs)
    BY <1>1, <1>4, Recounted DEF AppendAll
  <2>3. n + Len(xs) <= Len(Member) BY <1>1, <1>3, <1>4, <2>1 DEF AppendAll, Fits
  <2>4. MembersAre(AppendMembers(graph, Bag, xs), s \o xs) BY <1>1, <1>2, <2>1, <2>3, MembersAppended
  <2>5. s \o xs \in Seq(U) /\ Len(s \o xs) = n + Len(xs) BY <1>2, <2>1, ConcatProperties
  <2> QED BY <1>2, <2>2, <2>4, <2>5, Counted
<1>5. ASSUME NEW x \in Item, NEW k \in Nat, AssignMember(h, k, x)
      PROVE  Counts(len'[h], graph') /\ k \in 1..n /\ Members(graph', Bag) = ReplaceAt(s, k, x)
  <2>1. graph' = SetMember(graph, Bag, k, x) /\ len'[h] = n /\ k \in 1..n
    BY <1>1, <1>5, Recounted DEF AssignMember, InRange
  <2>2. x \in U BY <1>2
  <2>3. MembersAre(SetMember(graph, Bag, k, x), [s EXCEPT ![k] = x]) BY <1>1, <1>2, <2>1, <2>2, MemberSet
  <2>4. [s EXCEPT ![k] = x] \in Seq(U) /\ Len([s EXCEPT ![k] = x]) = n BY <1>2, <2>1, <2>2, ExceptSeq
  <2>5. ReplaceAt(s, k, x) = [s EXCEPT ![k] = x] BY DEF ReplaceAt
  <2>6. Counts(n, graph') /\ Members(graph', Bag) = [s EXCEPT ![k] = x]
    BY <1>2, <2>1, <2>3, <2>4, Counted
  <2> QED BY <2>1, <2>5, <2>6
<1>6. ASSUME NEW k \in Nat, DeleteMember(h, k)
      PROVE  Counts(len'[h], graph') /\ Members(graph', Bag) = RemoveAt(s, k)
  <2>1. graph' = DelMember(graph, Bag, n, k) /\ len'[h] = n - 1 /\ k \in 1..n
    BY <1>1, <1>6, Recounted DEF DeleteMember, InRange
  <2>2. MembersAre(DelMember(graph, Bag, n, k), RemoveAt(s, k)) BY <1>1, <1>2, <2>1, DownMoved
  <2>3. RemoveAt(s, k) \in Seq(U) /\ Len(RemoveAt(s, k)) = n - 1 BY <1>2, <2>1, RemoveAtIs
  <2> QED BY <1>2, <2>1, <2>2, <2>3, Counted
<1>7. ASSUME NEW x \in Item, NEW k \in Nat, InsertMember(h, k, x)
      PROVE  Counts(len'[h], graph') /\ (k <= n => Members(graph', Bag) = InsertAt(s, k, x))
  <2>1. /\ graph' = AddAt(graph, Bag, n, k, x) /\ len'[h] = n + 1 /\ k \in 1..(n + 1)
        /\ n + 1 <= Len(Member) /\ x \in U
    <3>1. n + 1 <= MaxItems BY <1>1, <1>7 DEF InsertMember, Fits
    <3>2. Count(h, AddAt(graph, Bag, n, k, x), n + 1) /\ k \in 1..(n + 1)
      BY <1>1, <1>7 DEF InsertMember
    <3> QED BY <1>2, <1>3, <3>1, <3>2, Recounted
  <2>2. CASE k <= n
    <3>1. k \in 1..n BY <1>3, <2>1, <2>2
    <3>2. MembersAre(AddAt(graph, Bag, n, k, x), InsertAt(s, k, x))
      BY <1>1, <1>2, <2>1, <3>1, UpMoved
    <3>3. InsertAt(s, k, x) \in Seq(U) /\ Len(InsertAt(s, k, x)) = n + 1
      <4>1. ASSUME NEW i \in 1..(Len(s) + 1), NEW y \in U
            PROVE  InsertAt(s, i, y) \in Seq(U) /\ Len(InsertAt(s, i, y)) = Len(s) + 1
        <5>1. s \in Seq(U) BY <1>2
        <5> QED BY <5>1, InsertAtIs
      <4> QED BY <2>1, <4>1
    <3> QED BY <1>2, <2>1, <3>2, <3>3, Counted
  <2>3. CASE ~(k <= n)
    <3>1. k = n + 1 BY <1>3, <2>1, <2>3
    <3>2. AddAt(graph, Bag, n, k, x) = AppendMembers(graph, Bag, <<x>>) BY <3>1 DEF AddAt
    <3>3. <<x>> \in Seq(U) /\ Len(<<x>>) = 1 BY <2>1
    <3>4. MembersAre(AppendMembers(graph, Bag, <<x>>), s \o <<x>>)
      <4>1. n + Len(<<x>>) <= Len(Member) BY <2>1, <3>3
      <4> QED BY <1>1, <1>2, <3>3, <4>1, MembersAppended
    <3>5. s \o <<x>> \in Seq(U) /\ Len(s \o <<x>>) = n + 1 BY <1>2, <3>3, ConcatProperties
    <3> QED BY <1>2, <2>1, <2>3, <3>2, <3>4, <3>5, Counted
  <2> QED BY <2>2, <2>3
<1>8. ASSUME ClearAll(h) PROVE Counts(len'[h], graph')
  <2>1. graph' = ClearMembers(graph, Bag) /\ len'[h] = 0 BY <1>8, Recounted DEF ClearAll
  <2>2. MembersAre(ClearMembers(graph, Bag), <<>>) BY <1>1, <1>2, MembersCleared
  <2>3. <<>> \in Seq(U) /\ 0 = Len(<<>>) OBVIOUS
  <2> QED BY <1>2, <2>1, <2>2, <2>3, Counted
<1> QED BY <1>1, <1>3, <1>4, <1>5, <1>6, <1>7, <1>8 DEF s

(* Several handles may count wrong; the only one does not. *)
HandlesSound(g, l) ==
  /\ TriplesOnly(g)
  /\ \A h \in DOMAIN l : l[h] \in Nat
  /\ DOMAIN l = {} => MembersAre(g, <<>>)
  /\ \A h : DOMAIN l = {h} => Counts(l[h], g)

LEMMA TurnLength ==
  ASSUME NEW from \in Nat, NEW to \in Nat
  PROVE  /\ from <= to => Len([j \in 1..(to - from) |-> from + j]) \in Nat
         /\ from <= to + 1 => Len(Up(from, to)) \in Nat
<1>1. ASSUME from <= to PROVE Len([j \in 1..(to - from) |-> from + j]) \in Nat
  <2>1. to - from \in Nat BY <1>1
  <2> QED BY <2>1
<1>2. ASSUME from <= to + 1 PROVE Len(Up(from, to)) \in Nat
  <2>1. to + 1 - from \in Nat BY <1>2
  <2> QED BY <2>1 DEF Up
<1> QED BY <1>1, <1>2

LEMMA HandleTypes ==
  ASSUME TriplesOnly(graph), NEW h \in DOMAIN len, len[h] \in Nat, HandleStep(h)
  PROVE  /\ TriplesOnly(graph') /\ len'[h] \in Nat
         /\ DOMAIN len' = DOMAIN len /\ \A e \in DOMAIN len : e # h => len'[e] = len[e]
<1>1. ASSUME NEW xs \in ItemLists, AppendAll(h, xs)
      PROVE  \E g, n : Count(h, g, n) /\ TriplesOnly(g) /\ n \in Nat
  <2>1. xs \in Seq(Item) BY ItemListsAre
  <2>2. Len(xs) \in Nat BY <2>1
  <2>3. TriplesOnly(AppendMembers(graph, Bag, xs)) BY <2>2, AppendTriples
  <2>4. len[h] + Len(xs) \in Nat BY <2>2
  <2> QED BY <1>1, <2>3, <2>4 DEF AppendAll
<1>2. ASSUME NEW k \in 1..MaxItems, NEW x \in Item, AssignMember(h, k, x)
      PROVE  \E g, n : Count(h, g, n) /\ TriplesOnly(g) /\ n \in Nat
  <2>1. TriplesOnly(SetMember(graph, Bag, k, x)) BY TriplesStay DEF SetMember
  <2> QED BY <1>2, <2>1 DEF AssignMember
<1>3. ASSUME NEW k \in 1..MaxItems, DeleteMember(h, k)
      PROVE  \E g, n : Count(h, g, n) /\ TriplesOnly(g) /\ n \in Nat
  <2>1. k \in 1..len[h] /\ Count(h, DelMember(graph, Bag, len[h], k), len[h] - 1)
    BY <1>3 DEF DeleteMember, InRange
  <2>2. k \in Nat /\ k <= len[h] /\ len[h] - 1 \in Nat BY <2>1
  <2>3. Len([j \in 1..(len[h] - k) |-> k + j]) \in Nat BY <2>2, TurnLength
  <2>4. TriplesOnly(Without(graph, Bag, Member[k])) BY TriplesStay
  <2>5. TriplesOnly(DelMember(graph, Bag, len[h], k)) BY <2>3, <2>4, TurnTriples DEF DelMember
  <2> QED BY <2>1, <2>2, <2>5
<1>4. ASSUME NEW k \in 1..MaxItems, NEW x \in Item, InsertMember(h, k, x)
      PROVE  \E g, n : Count(h, g, n) /\ TriplesOnly(g) /\ n \in Nat
  <2>1. k \in 1..(len[h] + 1) /\ Count(h, AddAt(graph, Bag, len[h], k, x), len[h] + 1)
    BY <1>4 DEF InsertMember
  <2>2. k \in Nat /\ k <= len[h] + 1 /\ len[h] + 1 \in Nat BY <2>1
  <2>3. TriplesOnly(AddAt(graph, Bag, len[h], k, x))
    <3>1. CASE k = len[h] + 1
      <4>1. AddAt(graph, Bag, len[h], k, x) = AppendMembers(graph, Bag, <<x>>) BY <3>1 DEF AddAt
      <4>2. Len(<<x>>) \in Nat OBVIOUS
      <4> QED BY <4>1, <4>2, AppendTriples
    <3>2. CASE k # len[h] + 1
      <4> DEFINE w == MovedInTurn(graph, Bag, Up(k, len[h]), 1)
      <4>1. AddAt(graph, Bag, len[h], k, x) = With(w, Bag, Member[k], x) BY <3>2 DEF AddAt, With
      <4>2. Len(Up(k, len[h])) \in Nat BY <2>2, TurnLength
      <4>3. TriplesOnly(w) BY <4>2, TurnTriples
      <4> HIDE DEF w
      <4> QED BY <4>1, <4>3, TriplesStay
    <3> QED BY <3>1, <3>2
  <2> QED BY <2>1, <2>2, <2>3
<1>5. ASSUME ClearAll(h) PROVE \E g, n : Count(h, g, n) /\ TriplesOnly(g) /\ n \in Nat
  <2>1. TriplesOnly(ClearMembers(graph, Bag)) BY MembersCleared
  <2> QED BY <1>5, <2>1 DEF ClearAll
<1>6. PICK g, n : Count(h, g, n) /\ TriplesOnly(g) /\ n \in Nat
  BY <1>1, <1>2, <1>3, <1>4, <1>5 DEF HandleStep
<1> QED BY <1>6, Recounted

LEMMA OpenIs ==
  ASSUME NEW h, NEW xs \in ItemLists, Open(h, xs)
  PROVE  /\ graph' = With(AppendMembers(graph, Bag, xs), Bag, "type", "Seq")
         /\ h \notin DOMAIN len /\ DOMAIN len' = DOMAIN len \cup {h} /\ len'[h] = Len(xs)
         /\ \A e \in DOMAIN len : len'[e] = len[e]
<1>1. len' = [e \in DOMAIN len \cup {h} |-> IF e = h THEN Len(xs) ELSE len[e]] /\ h \notin DOMAIN len
      /\ graph' = With(AppendMembers(graph, Bag, xs), Bag, "type", "Seq")
  BY DEF Open, With
<1>2. DOMAIN len' = DOMAIN len \cup {h} /\ len'[h] = Len(xs) BY <1>1
<1>3. \A e \in DOMAIN len : len'[e] = len[e] BY <1>1
<1> QED BY <1>1, <1>2, <1>3

LEMMA HandlesStay ==
  ASSUME HandlesSound(graph, len), EditContainer
  PROVE  HandlesSound(graph', len')
<1>0. /\ TriplesOnly(graph) /\ \A h \in DOMAIN len : len[h] \in Nat
      /\ DOMAIN len = {} => MembersAre(graph, <<>>)
      /\ \A h : DOMAIN len = {h} => Counts(len[h], graph)
  BY DEF HandlesSound
<1>1. ASSUME NEW h \in Handle, NEW xs \in ItemLists, Open(h, xs)
      PROVE  HandlesSound(graph', len')
  <2> DEFINE g == AppendMembers(graph, Bag, xs)
  <2>1. /\ graph' = With(g, Bag, "type", "Seq")
        /\ h \notin DOMAIN len /\ DOMAIN len' = DOMAIN len \cup {h} /\ len'[h] = Len(xs)
        /\ \A e \in DOMAIN len : len'[e] = len[e]
    BY <1>1, OpenIs
  <2>2. xs \in Seq(Item) /\ Len(xs) \in Nat BY ItemListsAre
  <2>3. TriplesOnly(g) BY <1>0, <2>2, AppendTriples
  <2>4. TriplesOnly(graph')
    <3> HIDE DEF g
    <3> QED BY <2>1, <2>3, TriplesStay
  <2>5. \A e \in DOMAIN len' : len'[e] \in Nat BY <1>0, <2>1, <2>2
  <2>6. DOMAIN len' # {} BY <2>1
  <2>7. ASSUME NEW e, DOMAIN len' = {e} PROVE Counts(len'[e], graph')
    <3>1. e = h /\ DOMAIN len = {} BY <2>1, <2>7
    <3>2. None \notin Item BY Names
    <3>3. Len(<<>>) + Len(xs) <= Len(Member)
      <4>1. Fits(0, Len(xs)) BY <1>1 DEF Open
      <4>2. 0 + Len(xs) <= MaxItems BY <4>1 DEF Fits
      <4> QED BY <2>2, <4>2, MemberNames
    <3>4. <<>> \in Seq(Item) OBVIOUS
    <3>5. MembersAre(g, <<>> \o xs)
      <4>1. MembersAre(graph, <<>>) BY <1>0, <3>1
      <4> QED BY <2>2, <3>2, <3>3, <3>4, <4>1, MembersAppended
    <3>6. <<>> \o xs = xs BY <2>2
    <3> HIDE DEF g
    <3>7. MembersAre(graph', xs) BY <2>1, <3>5, <3>6, TypeAdded
    <3> QED BY <2>1, <2>2, <3>1, <3>2, <3>7, Counted
  <2> QED BY <2>4, <2>5, <2>6, <2>7 DEF HandlesSound
<1>2. ASSUME NEW h \in DOMAIN len, HandleStep(h) PROVE HandlesSound(graph', len')
  <2>1. /\ TriplesOnly(graph') /\ len'[h] \in Nat
        /\ DOMAIN len' = DOMAIN len /\ \A e \in DOMAIN len : e # h => len'[e] = len[e]
    BY <1>0, <1>2, HandleTypes
  <2>2. ASSUME NEW e, DOMAIN len' = {e} PROVE Counts(len'[e], graph')
    <3>1. e = h /\ Counts(len[h], graph) BY <1>0, <2>1, <2>2
    <3>2. Counts(len'[h], graph')
      <4>1. \A k \in 1..MaxItems : k \in Nat BY MemberNames
      <4> QED BY <1>0, <1>2, <3>1, <4>1, HandleDoes DEF HandleStep
    <3> QED BY <3>1, <3>2
  <2> QED BY <1>0, <2>1, <2>2 DEF HandlesSound
<1>3. (\E h \in Handle, xs \in ItemLists : Open(h, xs)) \/ \E h \in DOMAIN len : HandleStep(h)
  BY DEF EditContainer, HandleStep
<1> QED BY <1>1, <1>2, <1>3

LEMMA HandlesAtFirst == HandlesSound({}, <<>>)
<1>1. TriplesOnly({}) BY FS_EmptySet DEF TriplesOnly
<1>2. \A a, b : Objects({}, a, b) = {} BY DEF Objects, Triples
<1>3. MembersAre({}, <<>>)
  <2>1. Len(<<>>) = 0 /\ 0 \in 0..Len(Member) /\ \A m \in 1..Len(Member) : ~(m <= 0) BY MemberNames
  <2> QED BY <1>1, <1>2, <2>1 DEF MembersAre
<1>4. DOMAIN <<>> = {} OBVIOUS
<1> QED BY <1>1, <1>3, <1>4 DEF HandlesSound

LEMMA MembersStepHolds ==
  ASSUME HandlesSound(graph, len), EditContainer \/ UNCHANGED sequenceVars
  PROVE  MembersStep
<1>0. TriplesOnly(graph) /\ \A h : DOMAIN len = {h} => Counts(len[h], graph)
  BY DEF HandlesSound
<1> SUFFICES ASSUME NEW h \in DOMAIN len, Counts(len[h], graph)
             PROVE  MemberStep(h, Members(graph, Bag), Members(graph', Bag))
  BY <1>0 DEF MembersStep
<1> DEFINE held == Members(graph, Bag)
<1> DEFINE after == Members(graph', Bag)
<1> DEFINE right == Counts(len'[h], graph')
<1>1. /\ len[h] = Len(held) /\ len[h] \in Nat
      /\ \A xs \in ItemLists : AppendAll(h, xs) => right /\ after = held \o xs
      /\ \A x \in Item, k \in Nat :
           /\ AssignMember(h, k, x) => right /\ k \in 1..Len(held) /\ after = ReplaceAt(held, k, x)
           /\ InsertMember(h, k, x) => right /\ (k <= Len(held) => after = InsertAt(held, k, x))
      /\ \A k \in Nat : DeleteMember(h, k) => right /\ after = RemoveAt(held, k)
      /\ ClearAll(h) => right
  BY <1>0, HandleDoes
<1> HIDE DEF held, after
<1>2. \A k \in 1..Len(held) : k \in Nat /\ k <= Len(held) BY <1>1
<1>3. len'[h] # len[h] => right
  <2>1. CASE UNCHANGED sequenceVars BY <2>1 DEF sequenceVars
  <2>2. ASSUME NEW e \in Handle, NEW xs \in ItemLists, Open(e, xs) PROVE len'[h] = len[h]
    BY <2>2, OpenIs
  <2>3. ASSUME NEW e \in DOMAIN len, HandleStep(e) PROVE len'[h] = len[h] \/ right
    <3>1. CASE e = h
      <4>1. \A k \in 1..MaxItems : k \in Nat BY MemberNames
      <4> HIDE DEF right
      <4> QED BY <1>1, <2>3, <3>1, <4>1 DEF HandleStep
    <3>2. CASE e # h
      <4>1. \E g, n : Count(e, g, n)
        BY <2>3 DEF HandleStep, AppendAll, AssignMember, DeleteMember, InsertMember, ClearAll
      <4> QED BY <3>2, <4>1, Recounted
    <3> QED BY <3>1, <3>2
  <2>4. EditContainer => \/ \E e \in Handle, xs \in ItemLists : Open(e, xs)
                         \/ \E e \in DOMAIN len : HandleStep(e)
    BY DEF EditContainer, HandleStep
  <2> QED BY <2>1, <2>2, <2>3, <2>4
<1> HIDE DEF right
<1>4. MemberStep(h, held, after)
  <2>1. \A xs \in ItemLists : AppendAll(h, xs) => after = held \o xs BY <1>1
  <2>2. ASSUME NEW x \in Item, NEW k \in 1..Len(held)
        PROVE  /\ AssignMember(h, k, x) => after = ReplaceAt(held, k, x)
               /\ InsertMember(h, k, x) => after = InsertAt(held, k, x)
    BY <1>1, <1>2
  <2>3. \A k \in 1..Len(held) : DeleteMember(h, k) => after = RemoveAt(held, k) BY <1>1, <1>2
  <2> QED BY <1>3, <2>1, <2>2, <2>3 DEF MemberStep, right
<1> QED BY <1>4 DEF held, after

-----------------------------------------------------------------------------
(* Any program. *)
SequenceInv ==
  /\ job \in Jobs
  /\ Uses("list") => ListThere(graph)
  /\ Uses("container") => HandlesSound(graph, len)

LEMMA EditsAreOfOneKind ==
  ASSUME job \in Jobs
  PROVE  /\ EditList => Uses("list") /\ ~Uses("container") /\ job' = job
         /\ EditContainer => Uses("container") /\ ~Uses("list") /\ job' = job
<1>1. ~(Uses("list") /\ Uses("container")) BY OneKindOfSequence DEF Uses
<1>2. EditList => Uses("list") /\ job' = job
  BY DEF EditList, Append1, Extend, Assign, Delete, ClearList, Edit
<1>3. EditContainer => Uses("container") /\ job' = job
  BY DEF EditContainer, Open, AppendAll, AssignMember, DeleteMember, InsertMember, ClearAll,
         Fits, Count
<1> QED BY <1>1, <1>2, <1>3

LEMMA SequencesSound == SequenceSpec => []SequenceInv
<1>1. SequenceInit => SequenceInv BY ListAtFirst, HandlesAtFirst DEF SequenceInit, SequenceInv
<1>2. ASSUME SequenceInv, [EditSequence]_sequenceVars PROVE SequenceInv'
  <2>1. job \in Jobs BY <1>2 DEF SequenceInv
  <2>2. CASE UNCHANGED sequenceVars
    BY <1>2, <2>2 DEF SequenceInv, sequenceVars, Uses, ListThere, HandlesSound
  <2>3. CASE EditList
    <3>1. Uses("list") /\ ~Uses("container") /\ job' = job BY <2>1, <2>3, EditsAreOfOneKind
    <3>2. ListThere(graph') BY <1>2, <2>3, <3>1, ListStays DEF SequenceInv
    <3> QED BY <2>1, <3>1, <3>2 DEF SequenceInv, Uses
  <2>4. CASE EditContainer
    <3>1. Uses("container") /\ ~Uses("list") /\ job' = job BY <2>1, <2>4, EditsAreOfOneKind
    <3>2. HandlesSound(graph', len') BY <1>2, <2>4, <3>1, HandlesStay DEF SequenceInv
    <3> QED BY <2>1, <3>1, <3>2 DEF SequenceInv, Uses
  <2> QED BY <1>2, <2>2, <2>3, <2>4 DEF EditSequence
<1> QED BY <1>1, <1>2, PTL DEF SequenceSpec

(* Whatever items there are, and however long a list or a container gets,  *)
(* an operation of a Collection, on any cell of its list, changes the      *)
(* items as it would change those of a Python list, and reads them as from *)
(* one; and so do the operations of a Container whose count is right, as   *)
(* that of the only one for a node always is.                              *)
THEOREM SequencesAlwaysAsPython == SequenceSpec => SequencesAsPython
<1>1. ASSUME SequenceInv, [EditSequence]_sequenceVars
      PROVE  (Uses("list") => ListsStep) /\ (Uses("container") => MembersStep)
  <2>1. Uses("list") => ListsStep
    <3> SUFFICES ASSUME Uses("list") PROVE ListsStep OBVIOUS
    <3>1. PICK cells, held, tail : ListIn(graph, cells, held, tail)
      BY <1>1 DEF SequenceInv, ListThere
    <3> QED BY <3>1, ListsStepHolds
  <2>2. Uses("container") => MembersStep
    <3> SUFFICES ASSUME Uses("container") PROVE MembersStep OBVIOUS
    <3>1. ~EditList /\ HandlesSound(graph, len) BY <1>1, EditsAreOfOneKind DEF SequenceInv
    <3>2. EditContainer \/ UNCHANGED sequenceVars BY <1>1, <3>1 DEF EditSequence
    <3> QED BY <3>1, <3>2, MembersStepHolds
  <2> QED BY <2>1, <2>2
<1> QED BY <1>1, SequencesSound, PTL DEF SequenceSpec, SequencesAsPython
=============================================================================
