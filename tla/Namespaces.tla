----------------------------- MODULE Namespaces -----------------------------
(***************************************************************************)
(* NamespaceManager: shortens URIs to prefix and name, for the serializers *)
(* and for callers.  Several managers, one for each Graph object, share    *)
(* the prefix tables of one store; each has caches of its own and a trie   *)
(* of the namespaces it has come across.                                   *)
(*                                                                         *)
(* A URI is a sequence of characters; what the code asks of a character is *)
(* its class: a letter, a digit, one of the characters that may stand in a *)
(* name but not start it, or a delimiter.  The trie is a nested dictionary *)
(* and __strie holds some of the same dictionaries under their keys: a key *)
(* is inserted once and its dictionary moves with it, so that a dictionary *)
(* is known by its key, and __strie is a set of keys.                      *)
(***************************************************************************)
EXTENDS Naturals, Sequences, FiniteSets

LOCAL T == INSTANCE TLC

CONSTANTS
  Managers,      \* the managers of one store
  Uri,           \* what is shortened
  Namespace,     \* what is bound
  Prefix,        \* the prefixes callers ask for
  Char,          \* characters
  Letter, Digit, Inner   \* classes of characters; the others but "_" are delimiters

ASSUME UrisAreStrings == Uri \cup Namespace \subseteq Seq(Char)

VARIABLES
  store,     \* the tables of the store
  manager    \* manager[m]: the caches, the trie and the keys in __strie

vars == <<store, manager>>

-----------------------------------------------------------------------------
(* The two dictionaries a store keeps for prefixes: __namespace, from a    *)
(* prefix to the namespace it stands for, and __prefix, the other way      *)
(* round.  Memory.bind edits both.  Callers come to it through             *)
(* NamespaceManager.bind, which first decides on the prefix to use.        *)
(*                                                                         *)
(* A prefix is a sequence of pieces, so that appending a number to it, as  *)
(* the code does to find a free one, appends a piece.  The tables are one  *)
(* record, s, with a partial function for each dictionary.                 *)

Put(f, k, v) == [x \in DOMAIN f \cup {k} |-> IF x = k THEN v ELSE f[x]]
Minus(f, K) == [x \in DOMAIN f \ K |-> f[x]]

(* dict.get: what the dictionary has for the keys K, if anything. *)
Got(f, K) == {f[k] : k \in K \cap DOMAIN f}

(* _coalesce of what was found, if anything, and a default. *)
Coalesce(found, default) == IF found = {} THEN default ELSE CHOOSE x \in found : TRUE

NoTables == [namespace |-> <<>>, prefix |-> <<>>]

(* The prefix a namespace has, or the prefix of the namespace that has the *)
(* prefix that is asked for.                                               *)
BoundPrefix(s, p, n) ==
  IF n \in DOMAIN s.prefix THEN {s.prefix[n]} ELSE Got(s.prefix, Got(s.namespace, {p}))

(* A bind() that forgets only the prefix. *)
StoreBindHalf(s, p, n, override) ==
  LET boundPrefix == BoundPrefix(s, p, n)
      boundNamespace == Got(s.namespace, {p})
      key == Coalesce(boundNamespace, n)
      value == Coalesce(boundPrefix, p)
  IN  IF override
      THEN [namespace |-> Put(Minus(s.namespace, boundPrefix), p, n),
            prefix |-> Put(s.prefix, n, p)]
      ELSE [namespace |-> Put(s.namespace, value, key), prefix |-> Put(s.prefix, key, value)]

(* Memory.bind.  The two deletions would raise KeyError for a prefix or a  *)
(* namespace the other table lacks.                                        *)
StoreBind(s, p, n, override) ==
  LET boundPrefix == BoundPrefix(s, p, n)
      boundNamespace == Got(s.namespace, {p})
      key == Coalesce(boundNamespace, n)
      value == Coalesce(boundPrefix, p)
  IN  IF override
      THEN [namespace |-> Put(Minus(s.namespace, boundPrefix), p, n),
            prefix |-> Put(Minus(s.prefix, boundNamespace), n, p)]
      ELSE [namespace |-> Put(s.namespace, value, key), prefix |-> Put(s.prefix, key, value)]

-----------------------------------------------------------------------------
Taken(s, p, n) == p \in DOMAIN s.namespace /\ s.namespace[p] # n

(* The first number that makes a prefix no namespace, or n itself, has.    *)
(* There are one more to try than there are prefixes in use.               *)
Numbers(s) == 1..(Cardinality(DOMAIN s.namespace) + 1)
Numbered(s, base, n) ==
  LET candidate(k) == Append(base, T!ToString(k))
  IN  candidate(CHOOSE k \in Numbers(s) : /\ ~Taken(s, candidate(k), n)
                                          /\ \A j \in 1..(k - 1) : Taken(s, candidate(j), n))

(* The first of ns1, ns2, ... that no namespace has. *)
FreePrefix(s) ==
  LET candidate(k) == <<"ns", T!ToString(k)>>
  IN  candidate(CHOOSE k \in Numbers(s) :
                  /\ candidate(k) \notin DOMAIN s.namespace
                  /\ \A j \in 1..(k - 1) : candidate(j) \in DOMAIN s.namespace)

(* A prefix that starts with an underscore was generated. *)
IsGenerated(p) == p # <<>> /\ p[1] = "_"

(* Another prefix for a prefix that is taken. *)
Instead(s, p, n) == Numbered(s, IF p = <<>> THEN <<"default">> ELSE p, n)

(* A bind that takes leave to override for leave to replace. *)
BindReplaces(s, p, n, override, replace) ==
  IF Taken(s, p, n) /\ (replace \/ override) THEN StoreBind(s, p, n, override)
  ELSE IF Taken(s, p, n) THEN s
  ELSE StoreBind(s, p, n, override)

(* NamespaceManager.bind: the tables it leaves. *)
Bind(s, p, n, override, replace) ==
  IF Taken(s, p, n)
  THEN IF replace THEN StoreBind(s, p, n, override)
       ELSE IF Instead(s, p, n) \in DOMAIN s.namespace THEN s
       ELSE StoreBind(s, Instead(s, p, n), n, override)
  ELSE IF \/ n \notin DOMAIN s.prefix
          \/ s.prefix[n] # p /\ (override \/ IsGenerated(s.prefix[n]))
       THEN StoreBind(s, p, n, override)
       ELSE s

(* It returns early, and does not enter the namespace in its trie, when    *)
(* one of the numbered prefixes stands for the namespace already.          *)
ReturnsEarly(s, p, n, replace) ==
  Taken(s, p, n) /\ ~replace /\ Instead(s, p, n) \in DOMAIN s.namespace

-----------------------------------------------------------------------------
(* Strings. *)

From(u, i) == SubSeq(u, i, Len(u))
UpTo(u, i) == SubSeq(u, 1, i)
StartsWith(u, v) == Len(v) <= Len(u) /\ UpTo(u, Len(v)) = v

NameChar == Letter \cup Digit \cup Inner \cup {"_"}
AnyStart == Letter \cup Digit \cup {"_"}      \* SPLIT_START_CATEGORIES
StrictStart == Letter \cup {"_"}              \* NAME_START_CATEGORIES

(* The last character that cannot stand in a name. *)
Delimiters(u) == {i \in DOMAIN u : u[i] \notin NameChar}
LastDelimiter(u) == CHOOSE i \in Delimiters(u) : \A j \in Delimiters(u) : j <= i

(* Where the name starts: after the last delimiter, at the first character *)
(* that may start one.  The loop runs over negative indices and goes on    *)
(* with 0, so where there is none it looks again from the beginning, and   *)
(* gives up if the very first character would do.                          *)
Starts(u, start) ==
  LET after == {i \in DOMAIN u : i >= LastDelimiter(u) /\ u[i] \in start}
      again == {i \in DOMAIN u : u[i] \in start}
      FirstOf(I) == {i \in I : \A j \in I : i <= j}
  IN  IF Delimiters(u) = {} THEN {}
      ELSE IF after # {} THEN FirstOf(after)
      ELSE FirstOf(again) \ {1}

(* split_uri: the namespace, if there is a way to split. *)
Split(u, start) == {UpTo(u, i - 1) : i \in Starts(u, start)}

IsNCName(name) ==
  /\ name # <<>>
  /\ name[1] \in StrictStart
  /\ \A i \in DOMAIN name : name[i] \in NameChar

-----------------------------------------------------------------------------
(* The trie: below[v] is the set of keys of the dictionary of v.           *)

Root == <<>>
NoTrie == [v \in {Root} |-> {}]

(* Where insert_trie comes to when it follows the keys that v starts with. *)
Home(below, v) ==
  LET home[at \in DOMAIN below] ==
        IF v \in below[at] \/ ~\E k \in below[at] : StartsWith(v, k) THEN at
        ELSE home[CHOOSE k \in below[at] : StartsWith(v, k)]
  IN  home[Root]

(* An insert_trie that leaves longer keys where they are. *)
InsertedBeside(below, v) ==
  LET at == Home(below, v)
  IN  IF v \in below[at] THEN below
      ELSE Put(Put(below, at, below[at] \cup {v}), v, {})

(* insert_trie: keys that start with v move into its new dictionary. *)
Inserted(below, v) ==
  LET at == Home(below, v)
      longer == {k \in below[at] : StartsWith(k, v)}
  IN  IF v \in below[at] THEN below
      ELSE Put(Put(below, at, (below[at] \ longer) \cup {v}), v, longer)

(* insert_strie *)
Learn(m, v) ==
  IF v \in m.strie THEN m
  ELSE [m EXCEPT !.strie = @ \cup {v}, !.below = Inserted(@, v)]

(* get_longest_namespace, from the dictionary of v: v itself if no key     *)
(* below it fits.                                                          *)
Longest(below, v, u) ==
  LET longest[at \in DOMAIN below] ==
        IF ~\E k \in below[at] : StartsWith(u, k) THEN at
        ELSE longest[CHOOSE k \in below[at] : StartsWith(u, k)]
  IN  longest[v]

-----------------------------------------------------------------------------
(* Operations.  Each returns what it leaves of the tables s and the        *)
(* manager m as a record of both.                                          *)

NewManager == [cache |-> <<>>, strict |-> <<>>, below |-> NoTrie, strie |-> {}]

Init == store = NoTables /\ manager = [m \in Managers |-> NewManager]

QName(p, n, u) == [prefix |-> p, namespace |-> n, name |-> From(u, Len(n) + 1)]

(* self.bind *)
Bound(s, m, p, n, override, replace) ==
  [store |-> Bind(s, p, n, override, replace),
   manager |-> IF ReturnsEarly(s, p, n, replace) THEN m
               ELSE [m EXCEPT !.below = Inserted(@, n)]]

(* A prefix for n: the one it has, or one made up for it and bound. *)
Prefixed(s, m, n, generate) ==
  IF n \in DOMAIN s.prefix \/ ~generate THEN [store |-> s, manager |-> m]
  ELSE Bound(s, m, FreePrefix(s), n, TRUE, FALSE)

(* The namespace by which a URI is looked up; a URI that cannot be split   *)
(* must have a prefix of its own that is not empty.                        *)
Base(s, u) ==
  IF Split(u, AnyStart) # {} THEN Split(u, AnyStart)
  ELSE {n \in {u} : n \in DOMAIN s.prefix /\ s.prefix[n] # <<>>}

(* A compute_qname that takes the namespace after the last delimiter. *)
ComputedShort(s, m, u, generate) ==
  IF Base(s, u) = {} THEN [store |-> s, manager |-> m]
  ELSE LET base == CHOOSE b \in Base(s, u) : TRUE
           found == Prefixed(s, Learn(m, base), base, generate)
       IN  IF base \in DOMAIN found.store.prefix
           THEN [found EXCEPT !.manager.cache = Put(@, u, QName(found.store.prefix[base], base, u))]
           ELSE found

(* compute_qname, when the cache does not answer. *)
Computed(s, m, u, generate) ==
  IF Base(s, u) = {} THEN [store |-> s, manager |-> m]
  ELSE LET base == CHOOSE b \in Base(s, u) : TRUE
           learned == Learn(m, base)
           n == Longest(learned.below, base, u)
           found == Prefixed(s, learned, n, generate)
       IN  IF n \in DOMAIN found.store.prefix
           THEN [found EXCEPT !.manager.cache = Put(@, u, QName(found.store.prefix[n], n, u))]
           ELSE found

ComputeQName(s, m, u, generate) ==
  IF u \in DOMAIN m.cache THEN [store |-> s, manager |-> m] ELSE Computed(s, m, u, generate)

(* The second half of compute_qname_strict: the name in the cache is no    *)
(* NCName, and the namespace up to the first letter is used instead.       *)
ComputedStrict(s, m, u, generate) ==
  IF Split(u, StrictStart) = {} THEN [store |-> s, manager |-> m]
  ELSE LET n == CHOOSE b \in Split(u, StrictStart) : TRUE
           found == Prefixed(s, Learn(m, n), n, generate)
       IN  IF n \in DOMAIN found.store.prefix
           THEN [found EXCEPT !.manager.strict = Put(@, u, QName(found.store.prefix[n], n, u))]
           ELSE found

ComputeQNameStrict(s, m, u, generate) ==
  LET first == ComputeQName(s, m, u, generate)
  IN  IF \/ u \notin DOMAIN first.manager.cache
         \/ IsNCName(first.manager.cache[u].name)
         \/ u \in DOMAIN first.manager.strict
      THEN first
      ELSE ComputedStrict(first.store, first.manager, u, generate)

(* normalizeUri: looks at the namespace after the last delimiter, and asks *)
(* for a qname only if that one has a prefix.                              *)
NormalizeUri(s, m, u) ==
  IF Split(u, AnyStart) = {} THEN [store |-> s, manager |-> m]
  ELSE LET n == CHOOSE b \in Split(u, AnyStart) : TRUE
           learned == Learn(m, n)
       IN  IF n \in DOMAIN s.prefix THEN ComputeQName(s, learned, u, TRUE)
           ELSE [store |-> s, manager |-> learned]

(* reset: the strict cache stays as it is. *)
Reset(s, m) ==
  LET insert[N \in SUBSET DOMAIN s.prefix] ==
        IF N = {} THEN NoTrie
        ELSE LET n == CHOOSE x \in N : TRUE IN Inserted(insert[N \ {n}], n)
  IN  [m EXCEPT !.cache = <<>>, !.strie = {},
                !.below = insert[{s.namespace[p] : p \in DOMAIN s.namespace} \cap DOMAIN s.prefix]]

-----------------------------------------------------------------------------
Take(m, result) ==
  /\ store' = result.store
  /\ manager' = [manager EXCEPT ![m] = result.manager]

(* No caller asks to replace a prefix but not to override one. *)
BindPrefix(m, p, n, override, replace) ==
  /\ replace => override
  /\ Take(m, Bound(store, manager[m], p, n, override, replace))

(* The same by a Graph object on the store whose manager is not looked at. *)
BindElsewhere(p, n, override, replace) ==
  /\ replace => override
  /\ store' = Bind(store, p, n, override, replace)
  /\ UNCHANGED manager

Shorten(m, u, generate) == Take(m, ComputeQName(store, manager[m], u, generate))
ShortenStrict(m, u, generate) == Take(m, ComputeQNameStrict(store, manager[m], u, generate))
Normalize(m, u) == Take(m, NormalizeUri(store, manager[m], u))

ResetManager(m) ==
  /\ manager' = [manager EXCEPT ![m] = Reset(store, manager[m])]
  /\ UNCHANGED store

Next ==
  \/ \E p \in Prefix, n \in Namespace, override, replace \in BOOLEAN :
       BindElsewhere(p, n, override, replace)
  \/ \E m \in Managers :
    \/ \E p \in Prefix, n \in Namespace, override, replace \in BOOLEAN :
         BindPrefix(m, p, n, override, replace)
    \/ \E u \in Uri, generate \in BOOLEAN : Shorten(m, u, generate) \/ ShortenStrict(m, u, generate)
    \/ \E u \in Uri : Normalize(m, u)
    \/ ResetManager(m)

Spec == Init /\ [][Next]_vars

-----------------------------------------------------------------------------
(* Properties. *)

(* The two tables of the store are inverse of each other: no deletion in   *)
(* bind() raises, and what is serialized with a prefix is read back as the *)
(* namespace it was written for.                                           *)
TablesInverse ==
  /\ \A p \in DOMAIN store.namespace :
       /\ store.namespace[p] \in DOMAIN store.prefix
       /\ store.prefix[store.namespace[p]] = p
  /\ \A n \in DOMAIN store.prefix :
       /\ store.prefix[n] \in DOMAIN store.namespace
       /\ store.namespace[store.prefix[n]] = n

(* The dictionaries of a trie are nested as the namespaces are: a manager  *)
(* finds the longest of those it knows, in whatever order they came, by    *)
(* bind(), by splitting a URI or by reset().                               *)
TrieIsNested ==
  \A m \in Managers :
    LET below == manager[m].below IN
    \A v \in DOMAIN below :
      below[v] = {w \in DOMAIN below \ {Root, v} :
                    /\ StartsWith(w, v)
                    /\ \A x \in DOMAIN below \ {v, w} : ~(StartsWith(w, x) /\ StartsWith(x, v))}

(* A qname that is computed expands to its URI, by the tables as they are  *)
(* then, and no namespace the manager has come across would have made the  *)
(* name shorter.                                                           *)
FreshExpand ==
  \A m \in Managers :
    LET before == manager[m] after == manager'[m]
        fresh == {after.cache[u] : u \in DOMAIN after.cache \ DOMAIN before.cache}
                   \cup {after.strict[u] : u \in DOMAIN after.strict \ DOMAIN before.strict}
    IN  /\ \A q \in fresh : /\ q.prefix \in DOMAIN store'.namespace
                            /\ store'.namespace[q.prefix] = q.namespace
        /\ \A u \in DOMAIN after.cache \ DOMAIN before.cache :
             LET q == after.cache[u] IN
             /\ q.namespace \o q.name = u
             /\ \A v \in DOMAIN before.below : StartsWith(u, v) => Len(v) <= Len(q.namespace)

QNamesExpand == [][FreshExpand]_vars

(* A namespace loses its prefix only to a call that asks to replace what   *)
(* that prefix stands for: a plain bind() of a prefix that is taken finds  *)
(* another, whatever the numbered prefixes are in use for, and no call     *)
(* moves a namespace but its own to another prefix.                        *)
OthersKept ==
  LET lost == DOMAIN store.prefix \ DOMAIN store'.prefix
      moved == {n \in DOMAIN store.prefix \ lost : store'.prefix[n] # store.prefix[n]}
  IN  /\ lost # {} => \A m \in Managers, p \in Prefix, n \in Namespace, override \in BOOLEAN :
                         ~BindPrefix(m, p, n, override, FALSE) /\ ~BindElsewhere(p, n, override, FALSE)
      /\ Cardinality(moved) <= 1

BindKeepsOthers == [][OthersKept]_vars
=============================================================================
