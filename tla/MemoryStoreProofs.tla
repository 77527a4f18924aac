------------------------- MODULE MemoryStoreProofs -------------------------
(***************************************************************************)
(* The invariants of MemoryStore for any triples, patterns and contexts.   *)
(*                                                                         *)
(* Safe is inductive for every operation of the store.  It speaks about    *)
(* the dictionary ContextsOf(t) of a stored triple, never about where that *)
(* dictionary is kept, so each operation first gets a lemma that says what *)
(* ContextsOf becomes; the invariants follow from those lemmas.            *)
(*                                                                         *)
(* The generators of MemoryReaders come last.  What one has still to walk  *)
(* and what it has yielded together hold all that stayed, dictionary by    *)
(* dictionary, since each copies the next one only when it comes to it.    *)
(***************************************************************************)
EXTENDS MemoryReaders, TLAPS

(* What the invariants need about the default: it is set before any triple *)
(* is stored, it names at least one context, and the default graph always  *)
(* has its entry in __contextTriples.                                      *)
DefaultsSet ==
  /\ None \in DOMAIN contextTriples
  /\ defaultContexts = NoDict => spo = {}
  /\ defaultContexts # NoDict => DOMAIN defaultContexts # {}

Safe ==
  /\ TypeOK
  /\ IndexesAgree
  /\ MembershipAgrees
  /\ NoOrphans
  /\ CompressedForm
  /\ DefaultsSet

-----------------------------------------------------------------------------
(* Dictionaries. *)

(* The keys and the values of a dictionary of contexts. *)
LEMMA DictParts ==
  ASSUME NEW d \in ContextDict
  PROVE  /\ DOMAIN d \subseteq ContextKey
         /\ \A k \in DOMAIN d : d[k] \in BOOLEAN
         /\ d = [k \in DOMAIN d |-> d[k]]
BY DEF ContextDict

(* The empty dictionary is a dictionary of contexts. *)
LEMMA EmptyDictType == EmptyDict \in ContextDict /\ DOMAIN EmptyDict = {}
<1>1. EmptyDict = [x \in {} |-> {}] BY DEF EmptyDict
<1>2. DOMAIN EmptyDict = {} BY <1>1
<1>3. EmptyDict \in [{} -> BOOLEAN] BY <1>1, SMT
<1> QED BY <1>2, <1>3 DEF ContextDict

(* An assignment to a key gives a dictionary with this key. *)
LEMMA PutType ==
  ASSUME NEW d \in ContextDict, NEW k \in ContextKey, NEW v \in BOOLEAN
  PROVE  /\ Put(d, k, v) \in ContextDict
         /\ DOMAIN Put(d, k, v) = DOMAIN d \cup {k}
         /\ Put(d, k, v)[k] = v
         /\ \A x \in DOMAIN d \ {k} : Put(d, k, v)[x] = d[x]
<1>1. DOMAIN d \cup {k} \subseteq ContextKey BY DictParts
<1>2. \A x \in DOMAIN d \cup {k} : (IF x = k THEN v ELSE d[x]) \in BOOLEAN
  BY DictParts
<1>3. Put(d, k, v) \in [DOMAIN d \cup {k} -> BOOLEAN] BY <1>2 DEF Put
<1> QED BY <1>1, <1>3 DEF Put, ContextDict

(* The deletion of a key gives a dictionary without it. *)
LEMMA DropType ==
  ASSUME NEW d \in ContextDict, NEW k
  PROVE  /\ Drop(d, {k}) \in ContextDict
         /\ DOMAIN Drop(d, {k}) = DOMAIN d \ {k}
         /\ \A x \in DOMAIN d \ {k} : Drop(d, {k})[x] = d[x]
<1>1. DOMAIN d \ {k} \subseteq ContextKey BY DictParts
<1>2. \A x \in DOMAIN d \ {k} : d[x] \in BOOLEAN BY DictParts
<1>3. Drop(d, {k}) \in [DOMAIN d \ {k} -> BOOLEAN] BY <1>2 DEF Drop
<1> QED BY <1>1, <1>3 DEF Drop, ContextDict

-----------------------------------------------------------------------------
(* Adding. *)

(* A triple has a dictionary of contexts, its own or the default one. *)
LEMMA ContextsOfType ==
  ASSUME TypeOK, DefaultsSet, NEW t \in spo
  PROVE  ContextsOf(t) \in ContextDict
BY DEF TypeOK, DefaultsSet, ContextsOf

(* What add() leaves has the types of the variables. *)
LEMMA AddedType ==
  ASSUME TypeOK, DefaultsSet, NEW t \in Triple, NEW c \in Contexts, NEW quoted \in BOOLEAN
  PROVE  /\ AddedContexts(t, c, quoted) \in ContextDict
         /\ DOMAIN AddedContexts(t, c, quoted)
              = (IF t \in spo THEN DOMAIN ContextsOf(t) ELSE {}) \cup {c}
                \cup (IF quoted THEN {} ELSE {None})
<1> DEFINE old == IF t \in spo THEN ContextsOf(t) ELSE EmptyDict
           own == Put(old, c, quoted)
<1>1. old \in ContextDict BY ContextsOfType, EmptyDictType
<1>2. DOMAIN old = IF t \in spo THEN DOMAIN ContextsOf(t) ELSE {}
  BY EmptyDictType
<1>3. c \in ContextKey /\ None \in ContextKey BY DEF ContextKey
<1> HIDE DEF old
<1>4. own \in ContextDict /\ DOMAIN own = DOMAIN old \cup {c}
  BY <1>1, <1>3, PutType
<1> HIDE DEF own
<1>5. /\ Put(own, None, FALSE) \in ContextDict
      /\ DOMAIN Put(own, None, FALSE) = DOMAIN own \cup {None}
  BY <1>3, <1>4, PutType
<1>6. AddedContexts(t, c, quoted) = IF quoted THEN own ELSE Put(own, None, FALSE)
  BY DEF AddedContexts, old, own
<1> QED BY <1>2, <1>4, <1>5, <1>6

(* What add() does to the contexts of the triples it was given and of all  *)
(* the others.                                                             *)
LEMMA AddStep ==
  ASSUME Safe,
         NEW T \in SUBSET Triple, NEW c \in Contexts, NEW quoted \in BOOLEAN,
         AddAll(T, c, quoted)
  PROVE  /\ \A t \in T : ContextsOf(t)' = AddedContexts(t, c, quoted)
         /\ \A t \in spo \ T : ContextsOf(t)' = ContextsOf(t)
         /\ defaultContexts' \in ContextDict
         /\ DOMAIN defaultContexts' # {}
         /\ DOMAIN tripleContexts' \subseteq DOMAIN tripleContexts \cup T
         /\ CompressedForm'
<1> DEFINE Added(t) == AddedContexts(t, c, quoted)
           first == CHOOSE t \in T : TRUE
           default == IF defaultContexts = NoDict THEN Added(first) ELSE defaultContexts
           compact == {t \in T : Added(t) = default}
<1>1. /\ T # {}
      /\ defaultContexts' = default
      /\ tripleContexts' = [t \in (DOMAIN tripleContexts \cup T) \ compact |->
                              IF t \in T THEN Added(t) ELSE tripleContexts[t]]
  BY DEF AddAll
<1>2. first \in T BY <1>1
<1>3. \A t \in T : Added(t) \in ContextDict /\ c \in DOMAIN Added(t)
  <2> TAKE t \in T
  <2>1. t \in Triple /\ TypeOK /\ DefaultsSet BY DEF Safe
  <2>2. /\ AddedContexts(t, c, quoted) \in ContextDict
        /\ DOMAIN AddedContexts(t, c, quoted)
             = (IF t \in spo THEN DOMAIN ContextsOf(t) ELSE {}) \cup {c}
               \cup (IF quoted THEN {} ELSE {None})
    BY <2>1, AddedType
  <2> QED BY <2>2
<1>4. default \in ContextDict /\ DOMAIN default # {}
  BY <1>2, <1>3 DEF Safe, TypeOK, DefaultsSet
<1>5. defaultContexts = NoDict => spo = {} /\ DOMAIN tripleContexts = {}
  BY NoDictIsNoDict DEF Safe, DefaultsSet, NoOrphans
<1> HIDE DEF Added, first
<1>6. \A t \in T : ContextsOf(t)' = Added(t)
  BY <1>1 DEF ContextsOf
<1>7. \A t \in spo \ T : ContextsOf(t)' = ContextsOf(t)
  BY <1>1, <1>5 DEF ContextsOf
<1>8. CompressedForm'
  BY <1>1, <1>5 DEF CompressedForm, Safe
<1> QED BY <1>1, <1>4, <1>6, <1>7, <1>8 DEF Added

(* add() and addN() keep the indices and the context maps in agreement. *)
LEMMA AddPreservesSafe ==
  ASSUME Safe,
         NEW T \in SUBSET Triple, NEW c \in Contexts, NEW quoted \in BOOLEAN,
         AddAll(T, c, quoted)
  PROVE  Safe'
<1> USE DEF Safe
<1>1. /\ spo' = spo \cup T
      /\ pos' = pos \cup (T \ spo)
      /\ osp' = osp \cup (T \ spo)
      /\ contextTriples' = AddedToContext(T, c, quoted)
      /\ allContexts' = allContexts \cup {c}
  BY DEF AddAll
<1>2. c \in ContextKey /\ None \in ContextKey BY DEF ContextKey
<1>3. /\ \A t \in T : ContextsOf(t)' = AddedContexts(t, c, quoted)
      /\ \A t \in spo \ T : ContextsOf(t)' = ContextsOf(t)
      /\ defaultContexts' \in ContextDict
      /\ DOMAIN defaultContexts' # {}
      /\ DOMAIN tripleContexts' \subseteq DOMAIN tripleContexts \cup T
      /\ CompressedForm'
  BY AddStep
<1>4. \A t \in T : /\ AddedContexts(t, c, quoted) \in ContextDict
                   /\ DOMAIN AddedContexts(t, c, quoted)
                        = (IF t \in spo THEN DOMAIN ContextsOf(t) ELSE {}) \cup {c}
                          \cup (IF quoted THEN {} ELSE {None})
  BY AddedType
<1>5. DOMAIN contextTriples' = DOMAIN contextTriples \cup {c}
  BY <1>1 DEF AddedToContext
<1>6. \A k \in DOMAIN contextTriples' :
        contextTriples'[k] = (IF k \in DOMAIN contextTriples THEN contextTriples[k] ELSE {})
                             \cup (IF k = c \/ (k = None /\ ~quoted) THEN T ELSE {})
  BY <1>1 DEF AddedToContext
<1>7. TypeOK'
  <2>1. \A t \in DOMAIN tripleContexts' : tripleContexts'[t] \in ContextDict
    <3> SUFFICES ASSUME NEW t \in DOMAIN tripleContexts'
                 PROVE  tripleContexts'[t] \in ContextDict
      OBVIOUS
    <3>1. ContextsOf(t)' = tripleContexts'[t] BY DEF ContextsOf
    <3>2. CASE t \in T BY <3>1, <3>2, <1>3, <1>4
    <3>3. CASE t \notin T
      <4>1. t \in spo BY <3>3, <1>3 DEF NoOrphans
      <4> QED BY <4>1, <3>1, <3>3, <1>3, ContextsOfType
    <3> QED BY <3>2, <3>3
  <2>2. \A k \in DOMAIN contextTriples' : contextTriples'[k] \subseteq Triple
    BY <1>6 DEF TypeOK
  <2> QED BY <1>1, <1>2, <1>3, <1>5, <2>1, <2>2 DEF TypeOK
<1>8. IndexesAgree' BY <1>1 DEF IndexesAgree
<1>9. MembershipAgrees'
  <2> SUFFICES ASSUME NEW t \in Triple, NEW k \in ContextKey
               PROVE  (k \in DOMAIN contextTriples' /\ t \in contextTriples'[k])
                        <=> (t \in spo' /\ k \in DOMAIN ContextsOf(t)')
    BY DEF MembershipAgrees, HasContext
  <2>1. (k \in DOMAIN contextTriples /\ t \in contextTriples[k])
          <=> (t \in spo /\ k \in DOMAIN ContextsOf(t))
    BY DEF MembershipAgrees, HasContext
  <2>2. CASE t \in T
    <3>1. k \in DOMAIN ContextsOf(t)'
            <=> \/ t \in spo /\ k \in DOMAIN ContextsOf(t)
                \/ k = c
                \/ k = None /\ ~quoted
      <4>1. ContextsOf(t)' = AddedContexts(t, c, quoted) BY <2>2, <1>3
      <4>2. DOMAIN AddedContexts(t, c, quoted)
              = (IF t \in spo THEN DOMAIN ContextsOf(t) ELSE {}) \cup {c}
                \cup (IF quoted THEN {} ELSE {None})
        BY <2>2, <1>4
      <4> HIDE DEF Safe
      <4> QED BY <4>1, <4>2
    <3>2. (k \in DOMAIN contextTriples' /\ t \in contextTriples'[k])
            <=> \/ k \in DOMAIN contextTriples /\ t \in contextTriples[k]
                \/ k = c
                \/ k = None /\ ~quoted
      BY <2>2, <1>5, <1>6 DEF DefaultsSet
    <3> QED BY <2>1, <2>2, <3>1, <3>2, <1>1
  <2>3. CASE t \notin T
    <3>1. (k \in DOMAIN contextTriples' /\ t \in contextTriples'[k])
            <=> (k \in DOMAIN contextTriples /\ t \in contextTriples[k])
      BY <2>3, <1>5, <1>6
    <3> QED BY <2>1, <2>3, <3>1, <1>1, <1>3
  <2> QED BY <2>2, <2>3
<1>10. NoOrphans'
  <2>1. \A t \in spo' : DOMAIN ContextsOf(t)' # {}
    BY <1>1, <1>3, <1>4 DEF NoOrphans
  <2> QED BY <2>1, <1>1, <1>3 DEF NoOrphans
<1>11. DefaultsSet' BY <1>3, <1>5, NoDictIsNoDict DEF DefaultsSet
<1> QED BY <1>3, <1>7, <1>8, <1>9, <1>10, <1>11

-----------------------------------------------------------------------------
(* Removing. *)

(* What __remove_triple_context leaves has the types of the variables. *)
LEMMA RemainingType ==
  ASSUME TypeOK, DefaultsSet, NEW t \in spo, NEW k \in ContextKey
  PROVE  /\ RemainingContexts(t, k) \in ContextDict
         /\ DOMAIN RemainingContexts(t, k) \subseteq DOMAIN ContextsOf(t)
         /\ \A x \in DOMAIN RemainingContexts(t, k) :
              RemainingContexts(t, k)[x] = ContextsOf(t)[x]
<1> DEFINE kept == IF k = None THEN EmptyDict ELSE Drop(ContextsOf(t), {k})
<1>1. ContextsOf(t) \in ContextDict BY ContextsOfType
<1>2. /\ kept \in ContextDict
      /\ DOMAIN kept \subseteq DOMAIN ContextsOf(t)
      /\ \A x \in DOMAIN kept : kept[x] = ContextsOf(t)[x]
  <2>1. CASE k = None BY <2>1, EmptyDictType
  <2>2. CASE k # None BY <2>2, <1>1, DropType
  <2> QED BY <2>1, <2>2
<1> HIDE DEF kept
<1>3. /\ Drop(kept, {None}) \in ContextDict
      /\ DOMAIN Drop(kept, {None}) \subseteq DOMAIN kept
      /\ \A x \in DOMAIN Drop(kept, {None}) : Drop(kept, {None})[x] = kept[x]
  BY <1>2, DropType
<1>4. RemainingContexts(t, k)
        = IF Unquoted(kept) = {None} THEN Drop(kept, {None}) ELSE kept
  BY DEF RemainingContexts, kept
<1> QED BY <1>2, <1>3, <1>4

(* A generator only yields triples the indices hold. *)
LEMMA MatchesAreStored ==
  ASSUME Safe, NEW pat, NEW k \in ContextKey
  PROVE  TriplesMatching(pat, k) \subseteq spo
<1>1. CASE pat = All
  <2>1. \A t \in TriplesMatching(pat, k) :
          t \in Triple /\ k \in DOMAIN contextTriples /\ t \in contextTriples[k]
    BY <1>1 DEF TriplesMatching, Safe, TypeOK
  <2> QED BY <2>1 DEF Safe, MembershipAgrees
<1>2. CASE pat # All
  BY <1>2 DEF TriplesMatching, IndexFor, Safe, IndexesAgree
<1> QED BY <1>1, <1>2

(* What remove() does to the contexts of its victims and of all other      *)
(* triples.                                                                *)
LEMMA RemoveStep ==
  ASSUME Safe, NEW pat, NEW k \in ContextKey, Remove(pat, k)
  PROVE  LET victims == TriplesMatching(pat, k) IN
         /\ victims \subseteq spo
         /\ \A t \in victims \ Gone(victims, k) :
              ContextsOf(t)' = RemainingContexts(t, k)
         /\ \A t \in spo \ victims : ContextsOf(t)' = ContextsOf(t)
         /\ DOMAIN tripleContexts'
              \subseteq (DOMAIN tripleContexts \cup victims) \ Gone(victims, k)
         /\ CompressedForm'
<1> DEFINE victims == TriplesMatching(pat, k)
           gone == Gone(victims, k)
           Left(t) == RemainingContexts(t, k)
           compact == {t \in victims : Left(t) = defaultContexts}
<1>1. victims \subseteq spo BY MatchesAreStored
<1>2. /\ defaultContexts' = defaultContexts
      /\ tripleContexts' = [t \in (DOMAIN tripleContexts \cup victims) \ (gone \cup compact) |->
                              IF t \in victims THEN Left(t) ELSE tripleContexts[t]]
  BY DEF Remove, DropEntries
<1>3. gone \subseteq victims BY DEF Gone
<1> HIDE DEF victims, gone, Left
<1>4. \A t \in victims \ gone : ContextsOf(t)' = Left(t)
  BY <1>2 DEF ContextsOf
<1>5. \A t \in spo \ victims : ContextsOf(t)' = ContextsOf(t)
  BY <1>2, <1>3 DEF ContextsOf
<1>6. CompressedForm'
  BY <1>2 DEF CompressedForm, Safe
<1> QED BY <1>1, <1>2, <1>4, <1>5, <1>6 DEF victims, gone, Left

(* remove() keeps the indices and the context maps in agreement. *)
LEMMA RemovePreservesSafe ==
  ASSUME Safe, NEW pat, NEW k \in ContextKey, Remove(pat, k),
         allContexts' \subseteq Contexts
  PROVE  Safe'
<1> DEFINE victims == TriplesMatching(pat, k)
           gone == Gone(victims, k)
           Left(t) == RemainingContexts(t, k)
           Lost(key) == {t \in victims : /\ key \in DOMAIN ContextsOf(t)
                                         /\ key \notin DOMAIN Left(t)}
           left == [key \in DOMAIN contextTriples |-> contextTriples[key] \ Lost(key)]
           emptied == {key \in DOMAIN left : key = k /\ k # None /\ left[key] = {}}
<1>1. /\ spo' = spo \ gone
      /\ pos' = pos \ gone
      /\ osp' = osp \ gone
      /\ contextTriples' = Drop(left, emptied)
      /\ defaultContexts' = defaultContexts
  BY DEF Remove, Deindex, DropMembers
<1>2. /\ victims \subseteq spo
      /\ \A t \in victims \ gone : ContextsOf(t)' = Left(t)
      /\ \A t \in spo \ victims : ContextsOf(t)' = ContextsOf(t)
      /\ DOMAIN tripleContexts' \subseteq (DOMAIN tripleContexts \cup victims) \ gone
      /\ CompressedForm'
  BY RemoveStep
<1>3. \A t \in victims : /\ Left(t) \in ContextDict
                         /\ DOMAIN Left(t) \subseteq DOMAIN ContextsOf(t)
                         /\ t \in gone <=> DOMAIN Left(t) = {}
  BY <1>2, RemainingType DEF Safe, Gone
<1>4. /\ DOMAIN contextTriples' = DOMAIN contextTriples \ emptied
      /\ \A key \in DOMAIN contextTriples' :
           contextTriples'[key] = contextTriples[key] \ Lost(key)
      /\ \A key \in emptied : contextTriples[key] \ Lost(key) = {} /\ key # None
  BY <1>1 DEF Drop
<1>5. gone \subseteq victims BY DEF Gone
<1> HIDE DEF victims, gone, Left, left, emptied
<1>6. TypeOK'
  <2>1. \A t \in DOMAIN tripleContexts' : tripleContexts'[t] \in ContextDict
    <3> SUFFICES ASSUME NEW t \in DOMAIN tripleContexts'
                 PROVE  tripleContexts'[t] \in ContextDict
      OBVIOUS
    <3>1. ContextsOf(t)' = tripleContexts'[t] BY DEF ContextsOf
    <3>2. t \in spo /\ t \notin gone BY <1>2 DEF Safe, NoOrphans
    <3>3. CASE t \in victims BY <3>1, <3>2, <3>3, <1>2, <1>3
    <3>4. CASE t \notin victims BY <3>1, <3>2, <3>4, <1>2, ContextsOfType DEF Safe
    <3> QED BY <3>3, <3>4
  <2>2. \A key \in DOMAIN contextTriples' : contextTriples'[key] \subseteq Triple
    BY <1>4 DEF Safe, TypeOK
  <2>3. DOMAIN tripleContexts' \subseteq Triple BY <1>2 DEF Safe, TypeOK
  <2>4. /\ spo' \subseteq Triple /\ pos' \subseteq Triple /\ osp' \subseteq Triple
        /\ defaultContexts' \in ContextDict \cup {NoDict}
        /\ DOMAIN contextTriples' \subseteq ContextKey
    BY <1>1, <1>4 DEF Safe, TypeOK
  <2> QED BY <2>1, <2>2, <2>3, <2>4 DEF TypeOK
<1>7. IndexesAgree' BY <1>1 DEF Safe, IndexesAgree
<1>8. MembershipAgrees'
  <2> SUFFICES ASSUME NEW t \in Triple, NEW key \in ContextKey
               PROVE  (key \in DOMAIN contextTriples' /\ t \in contextTriples'[key])
                        <=> (t \in spo' /\ key \in DOMAIN ContextsOf(t)')
    BY DEF MembershipAgrees, HasContext
  <2>1. (key \in DOMAIN contextTriples /\ t \in contextTriples[key])
          <=> (t \in spo /\ key \in DOMAIN ContextsOf(t))
    BY DEF Safe, MembershipAgrees, HasContext
  <2>2. (key \in DOMAIN contextTriples' /\ t \in contextTriples'[key])
          <=> (key \in DOMAIN contextTriples /\ t \in contextTriples[key] /\ t \notin Lost(key))
    BY <1>4
  <2>3. CASE t \in victims
    <3>1. t \in Lost(key) <=> key \in DOMAIN ContextsOf(t) /\ key \notin DOMAIN Left(t)
      BY <2>3
    <3>2. DOMAIN Left(t) \subseteq DOMAIN ContextsOf(t) BY <2>3, <1>3
    <3>3. (t \in spo' /\ key \in DOMAIN ContextsOf(t)') <=> key \in DOMAIN Left(t)
      BY <2>3, <1>1, <1>2, <1>3
    <3> QED BY <2>1, <2>2, <2>3, <3>1, <3>2, <3>3, <1>2
  <2>4. CASE t \notin victims
    <3>1. t \notin Lost(key) BY <2>4
    <3>2. t \in spo' <=> t \in spo BY <2>4, <1>1, <1>5
    <3> QED BY <2>1, <2>2, <2>4, <3>1, <3>2, <1>2
  <2> QED BY <2>3, <2>4
<1>9. NoOrphans'
  <2>1. DOMAIN tripleContexts' \subseteq spo' BY <1>1, <1>2 DEF Safe, NoOrphans
  <2>2. ASSUME NEW t \in spo' PROVE DOMAIN ContextsOf(t)' # {}
    <3>1. t \in spo /\ t \notin gone BY <1>1
    <3>2. CASE t \in victims BY <3>1, <3>2, <1>2, <1>3
    <3>3. CASE t \notin victims BY <3>1, <3>3, <1>2 DEF Safe, NoOrphans
    <3> QED BY <3>2, <3>3
  <2> QED BY <2>1, <2>2 DEF NoOrphans
<1>10. DefaultsSet'
  <2>1. None \in DOMAIN contextTriples' BY <1>4 DEF Safe, DefaultsSet
  <2> QED BY <2>1, <1>1 DEF Safe, DefaultsSet
<1> QED BY <1>2, <1>6, <1>7, <1>8, <1>9, <1>10 DEF Safe

-----------------------------------------------------------------------------
(* Every operation of the store, QuotedGraph.addN included. *)

(* An empty store is in agreement. *)
LEMMA SafeInit == Init => Safe
<1> SUFFICES ASSUME Init PROVE Safe
  OBVIOUS
<1>1. DOMAIN tripleContexts = {} BY DEF Init, EmptyDict
<1>2. DOMAIN contextTriples = {None} /\ contextTriples[None] = {} BY DEF Init
<1>3. TypeOK BY <1>1, <1>2 DEF Init, TypeOK, ContextKey
<1> QED
  BY <1>1, <1>2, <1>3
     DEF Init, Safe, IndexesAgree, MembershipAgrees, NoOrphans, CompressedForm, DefaultsSet

(* Every operation keeps the store in agreement. *)
LEMMA SafeStep == Safe /\ [Next]_vars => Safe'
<1> SUFFICES ASSUME Safe, [Next]_vars PROVE Safe'
  OBVIOUS
<1>1. ASSUME NEW T \in SUBSET Triple, NEW g \in Graphs, GraphAdd(T, g) PROVE Safe'
  BY <1>1, AddPreservesSafe DEF GraphAdd, Contexts
<1>2. ASSUME NEW t \in Triple, NEW f \in Formulas, QuotedAdd(t, f) PROVE Safe'
  <2>1. {t} \in SUBSET Triple /\ f \in Contexts BY DEF Contexts
  <2>2. AddAll({t}, f, TRUE) BY <1>2 DEF QuotedAdd
  <2> QED BY <2>1, <2>2, AddPreservesSafe
<1>3. ASSUME NEW T \in SUBSET Triple, NEW f \in Formulas, QuotedAddN(T, f) PROVE Safe'
  BY <1>3, AddPreservesSafe DEF QuotedAddN, Contexts
<1>4. ASSUME NEW pat \in Pattern, NEW k \in ContextKey, RemoveTriples(pat, k) PROVE Safe'
  BY <1>4, RemovePreservesSafe DEF RemoveTriples, Safe, TypeOK
<1>5. ASSUME NEW c \in Contexts, RemoveGraph(c) PROVE Safe'
  <2>1. c \in ContextKey BY DEF ContextKey
  <2>2. Remove(All, c) /\ allContexts' \subseteq Contexts
    BY <1>5 DEF RemoveGraph, Safe, TypeOK
  <2> QED BY <2>1, <2>2, RemovePreservesSafe
<1>6. ASSUME NEW c \in Contexts, AddGraph(c) PROVE Safe'
  BY <1>6 DEF AddGraph, indexVars, Safe, TypeOK, IndexesAgree, MembershipAgrees, HasContext,
     NoOrphans, CompressedForm, DefaultsSet, ContextsOf
<1>7. CASE UNCHANGED vars
  BY <1>7 DEF vars, Safe, TypeOK, IndexesAgree, MembershipAgrees, HasContext,
     NoOrphans, CompressedForm, DefaultsSet, ContextsOf
<1> QED BY <1>1, <1>2, <1>3, <1>4, <1>5, <1>6, <1>7 DEF Next

(* The indices, both maps between triples and contexts and the default     *)
(* agree after any sequence of store operations, whatever the triples and  *)
(* contexts.                                                               *)
THEOREM SpecSafe == Spec => []Safe
BY SafeInit, SafeStep, PTL DEF Spec

(* The variables keep their types. *)
THEOREM TypeCorrect == Spec => []TypeOK
<1>1. Safe => TypeOK BY DEF Safe
<1> QED BY <1>1, SpecSafe, PTL

(* A subject, a predicate and an object lookup find the same triples. *)
THEOREM IndexesAlwaysAgree == Spec => []IndexesAgree
<1>1. Safe => IndexesAgree BY DEF Safe
<1> QED BY <1>1, SpecSafe, PTL

(* The compressed map of contexts and the sets of triples are inverses. *)
THEOREM MembershipAlwaysAgrees == Spec => []MembershipAgrees
<1>1. Safe => MembershipAgrees BY DEF Safe
<1> QED BY <1>1, SpecSafe, PTL

(* No triple outlives its contexts and no entry outlives its triple. *)
THEOREM NeverOrphans == Spec => []NoOrphans
<1>1. Safe => NoOrphans BY DEF Safe
<1> QED BY <1>1, SpecSafe, PTL

(* All of the bookkeeping together, under every operation. *)
THEOREM AlwaysConsistent == Spec => []Consistent
<1>1. Safe => Consistent BY DEF Safe, Consistent
<1> QED BY <1>1, SpecSafe, PTL

(* No triple has an entry of its own that repeats the default contexts. *)
THEOREM StaysCompressed == Spec => []CompressedForm
<1>1. Safe => CompressedForm BY DEF Safe
<1> QED BY <1>1, SpecSafe, PTL

-----------------------------------------------------------------------------
(* What is asserted and what is quoted.                                    *)

(* The flags of a dictionary of contexts: a graph and the default graph    *)
(* assert, the default graph is there when any context asserts, and it is  *)
(* never the last one that is left.                                        *)
WellFlagged(d) ==
  /\ \A g \in Graphs \cap DOMAIN d : d[g] = FALSE
  /\ None \in DOMAIN d => d[None] = FALSE
  /\ Unquoted(d) # {} => None \in DOMAIN d
  /\ None \in DOMAIN d => \E c \in Contexts : c \in DOMAIN d

Flags == \A t \in spo : WellFlagged(ContextsOf(t))

Asserted == Safe /\ Flags

(* The contexts of a triple before an addition: none for a new triple.     *)
Former(t) == IF t \in spo THEN ContextsOf(t) ELSE EmptyDict

(* QuotedGraph.add sets the key of its formula and no other.               *)
LEMMA QuotedDict ==
  ASSUME Safe, NEW t \in Triple, NEW c \in Contexts
  PROVE  LET old == Former(t)
             new == AddedContexts(t, c, TRUE)
         IN  /\ DOMAIN new = DOMAIN old \cup {c}
             /\ new[c] = TRUE
             /\ \A x \in DOMAIN old \ {c} : new[x] = old[x]
BY DEF AddedContexts, Former, Put

(* Every other addition sets the key of its context and that of the        *)
(* default graph.                                                          *)
LEMMA AssertedDict ==
  ASSUME Safe, NEW t \in Triple, NEW c \in Contexts
  PROVE  LET old == Former(t)
             new == AddedContexts(t, c, FALSE)
         IN  /\ DOMAIN new = DOMAIN old \cup {c, None}
             /\ new[c] = FALSE /\ new[None] = FALSE
             /\ \A x \in DOMAIN old \ {c, None} : new[x] = old[x]
<1> DEFINE old == Former(t)
           own == Put(old, c, FALSE)
<1>1. AddedContexts(t, c, FALSE) = Put(own, None, FALSE)
  BY DEF AddedContexts, Former
<1> HIDE DEF old
<1>2. /\ DOMAIN own = DOMAIN old \cup {c} /\ own[c] = FALSE
      /\ \A x \in DOMAIN old \ {c} : own[x] = old[x]
  BY DEF Put
<1> HIDE DEF own
<1>3. /\ DOMAIN Put(own, None, FALSE) = DOMAIN own \cup {None}
      /\ \A x \in DOMAIN own \cup {None} :
           Put(own, None, FALSE)[x] = IF x = None THEN FALSE ELSE own[x]
  BY DEF Put
<1>4. c # None BY NoneIsNoContext
<1>5. /\ DOMAIN Put(own, None, FALSE) = DOMAIN old \cup {c, None}
      /\ Put(own, None, FALSE)[c] = FALSE /\ Put(own, None, FALSE)[None] = FALSE
      /\ \A x \in DOMAIN old \ {c, None} : Put(own, None, FALSE)[x] = old[x]
  BY <1>2, <1>3, <1>4
<1> QED BY <1>1, <1>5 DEF old

(* add() keeps the flags right: what a context asserts is in the default   *)
(* graph, and a graph does not quote.                                      *)
LEMMA AddedFlags ==
  ASSUME Asserted, NEW t \in Triple, NEW c \in Contexts, NEW quoted \in BOOLEAN,
         quoted => c \in Formulas
  PROVE  WellFlagged(AddedContexts(t, c, quoted))
<1> DEFINE old == Former(t)
<1>1. WellFlagged(old)
  <2>1. CASE t \in spo BY <2>1 DEF Asserted, Flags, Former
  <2>2. CASE t \notin spo BY <2>2, EmptyDictType DEF WellFlagged, Unquoted, Former
  <2> QED BY <2>1, <2>2
<1>2. None \notin Graphs /\ c # None /\ Safe
  BY NoneIsNoContext DEF Contexts, Asserted
<1>3. ASSUME quoted = TRUE PROVE WellFlagged(AddedContexts(t, c, TRUE))
  <2> DEFINE new == AddedContexts(t, c, TRUE)
  <2>1. /\ DOMAIN new = DOMAIN old \cup {c}
        /\ new[c] = TRUE
        /\ \A x \in DOMAIN old \ {c} : new[x] = old[x]
    BY <1>2, QuotedDict
  <2>2. c \notin Graphs BY <1>3, KindsDisjoint
  <2> HIDE DEF old, new
  <2>3. \A x \in Unquoted(new) : x \in Unquoted(old) BY <2>1 DEF Unquoted
  <2>4. WellFlagged(new) BY <1>1, <1>2, <2>1, <2>2, <2>3 DEF WellFlagged
  <2> QED BY <2>4 DEF new
<1>4. ASSUME quoted = FALSE PROVE WellFlagged(AddedContexts(t, c, FALSE))
  <2> DEFINE new == AddedContexts(t, c, FALSE)
  <2>1. /\ DOMAIN new = DOMAIN old \cup {c, None}
        /\ new[c] = FALSE /\ new[None] = FALSE
        /\ \A x \in DOMAIN old \ {c, None} : new[x] = old[x]
    BY <1>2, AssertedDict
  <2> HIDE DEF old, new
  <2>2. WellFlagged(new) BY <1>1, <1>2, <2>1 DEF WellFlagged
  <2> QED BY <2>2 DEF new
<1> QED BY <1>3, <1>4

(* Which keys of a triple remove() leaves: none when it was called without *)
(* a context, else all but that of the context, and the default graph only *)
(* if another context asserts the triple.                                  *)
LEMMA RemainingDict ==
  ASSUME Asserted, NEW t \in spo, NEW k \in ContextKey,
         NEW d, d = ContextsOf(t), NEW left, left = RemainingContexts(t, k)
  PROVE  /\ k = None => DOMAIN left = {}
         /\ k # None => \A x \in Contexts : x \in DOMAIN left <=> x \in DOMAIN d /\ x # k
         /\ k # None => (None \in DOMAIN left
                           <=> None \in DOMAIN d /\ \E x \in Unquoted(d) : x # k /\ x # None)
         /\ \A x \in DOMAIN left : x \in DOMAIN d /\ left[x] = d[x]
<1> DEFINE kept == IF k = None THEN EmptyDict ELSE Drop(d, {k})
<1>1. d \in ContextDict /\ WellFlagged(d)
  BY ContextsOfType DEF Asserted, Flags, Safe
<1>2. left = IF Unquoted(kept) = {None} THEN Drop(kept, {None}) ELSE kept
  BY DEF RemainingContexts
<1>3. CASE k = None
  <2>1. DOMAIN kept = {} BY <1>3, EmptyDictType
  <2>2. Unquoted(kept) = {} BY <2>1 DEF Unquoted
  <2>3. left = kept BY <1>2, <2>2
  <2> QED BY <1>3, <2>1, <2>3
<1>4. CASE k # None
  <2>1. /\ kept \in ContextDict
        /\ DOMAIN kept = DOMAIN d \ {k}
        /\ \A x \in DOMAIN kept : kept[x] = d[x]
    BY <1>1, <1>4, DropType
  <2>2. None \notin Contexts BY NoneIsNoContext
  <2> HIDE DEF kept
  <2>3. Unquoted(kept) = Unquoted(d) \ {k}
    BY <2>1 DEF Unquoted
  <2>4. None \in DOMAIN d => None \in Unquoted(kept)
    BY <1>1, <1>4, <2>1 DEF WellFlagged, Unquoted
  <2>5. CASE Unquoted(kept) = {None}
    <3>1. /\ DOMAIN Drop(kept, {None}) = DOMAIN kept \ {None}
          /\ \A x \in DOMAIN kept \ {None} : Drop(kept, {None})[x] = kept[x]
      BY <2>1, DropType
    <3>2. ~\E x \in Unquoted(d) : x # k /\ x # None BY <2>3, <2>5
    <3>3. left = Drop(kept, {None}) BY <1>2, <2>5
    <3> QED BY <1>4, <2>1, <2>2, <3>1, <3>2, <3>3
  <2>6. CASE Unquoted(kept) # {None}
    <3>1. None \in DOMAIN d => \E x \in Unquoted(d) : x # k /\ x # None
      BY <2>3, <2>4, <2>6
    <3>2. left = kept BY <1>2, <2>6
    <3> QED BY <1>4, <2>1, <3>1, <3>2
  <2> QED BY <2>5, <2>6
<1> QED BY <1>3, <1>4

(* remove() keeps the flags right: the default graph loses a triple with   *)
(* its last assertion.                                                     *)
LEMMA RemainingFlags ==
  ASSUME Asserted, NEW t \in spo, NEW k \in ContextKey
  PROVE  WellFlagged(RemainingContexts(t, k))
<1> DEFINE d == ContextsOf(t)
           left == RemainingContexts(t, k)
<1>1. d \in ContextDict /\ WellFlagged(d)
  BY ContextsOfType DEF Asserted, Flags, Safe
<1>2. /\ k = None => DOMAIN left = {}
      /\ k # None => \A x \in Contexts : x \in DOMAIN left <=> x \in DOMAIN d /\ x # k
      /\ k # None => (None \in DOMAIN left
                        <=> None \in DOMAIN d /\ \E x \in Unquoted(d) : x # k /\ x # None)
      /\ \A x \in DOMAIN left : x \in DOMAIN d /\ left[x] = d[x]
  BY RemainingDict
<1>3. \A x \in DOMAIN d : x \in Contexts \/ x = None
  BY <1>1, DictParts DEF ContextKey
<1> HIDE DEF d, left
<1>4. /\ \A g \in Graphs \cap DOMAIN left : left[g] = FALSE
      /\ None \in DOMAIN left => left[None] = FALSE
  BY <1>1, <1>2 DEF WellFlagged
<1>5. ASSUME NEW x \in Unquoted(left) PROVE None \in DOMAIN left
  <2>1. x \in DOMAIN left /\ ~left[x] BY DEF Unquoted
  <2>2. k # None /\ x \in Unquoted(d) BY <2>1, <1>2 DEF Unquoted
  <2>3. None \in DOMAIN d BY <2>2, <1>1 DEF WellFlagged
  <2>4. CASE x = None BY <2>4, <2>1
  <2>5. CASE x # None
    <3>1. x \in Contexts BY <2>5, <2>2, <1>3 DEF Unquoted
    <3>2. x # k BY <3>1, <2>1, <2>2, <1>2
    <3> QED BY <2>2, <2>3, <2>5, <3>2, <1>2
  <2> QED BY <2>4, <2>5
<1>6. None \in DOMAIN left => \E c \in Contexts : c \in DOMAIN left
  <2> SUFFICES ASSUME None \in DOMAIN left PROVE \E c \in Contexts : c \in DOMAIN left
    OBVIOUS
  <2>1. k # None BY <1>2
  <2>2. PICK x \in Unquoted(d) : x # k /\ x # None BY <2>1, <1>2
  <2>3. x \in DOMAIN d /\ x \in Contexts BY <2>2, <1>3 DEF Unquoted
  <2> QED BY <2>1, <2>2, <2>3, <1>2
<1>7. WellFlagged(left) BY <1>4, <1>5, <1>6 DEF WellFlagged
<1> QED BY <1>7 DEF left

(* Every operation keeps the flags right. *)
LEMMA FlagsStep == Asserted /\ [Next]_vars => Asserted'
<1> SUFFICES ASSUME Asserted, [Next]_vars PROVE Asserted'
  OBVIOUS
<1>1. Safe /\ Safe'
  BY SafeStep DEF Asserted
<1>2. ASSUME NEW T \in SUBSET Triple, NEW c \in Contexts, NEW quoted \in BOOLEAN,
             quoted => c \in Formulas, AddAll(T, c, quoted)
      PROVE  Flags'
  <2> SUFFICES ASSUME NEW t \in spo' PROVE WellFlagged(ContextsOf(t))'
    BY DEF Flags
  <2>1. spo' = spo \cup T BY <1>2 DEF AddAll
  <2>2. /\ \A u \in T : ContextsOf(u)' = AddedContexts(u, c, quoted)
        /\ \A u \in spo \ T : ContextsOf(u)' = ContextsOf(u)
    BY <1>1, <1>2, AddStep
  <2>3. CASE t \in T
    <3>1. WellFlagged(AddedContexts(t, c, quoted)) BY <1>2, <2>3, AddedFlags
    <3> QED BY <2>2, <2>3, <3>1 DEF WellFlagged
  <2>4. CASE t \notin T
    <3>1. t \in spo /\ ContextsOf(t)' = ContextsOf(t) BY <2>1, <2>2, <2>4
    <3> QED BY <3>1 DEF Asserted, Flags, WellFlagged
  <2> QED BY <2>3, <2>4
<1>3. ASSUME NEW pat, NEW k \in ContextKey, Remove(pat, k) PROVE Flags'
  <2> DEFINE victims == TriplesMatching(pat, k)
  <2> SUFFICES ASSUME NEW t \in spo' PROVE WellFlagged(ContextsOf(t))'
    BY DEF Flags
  <2>1. spo' = spo \ Gone(victims, k) BY <1>3 DEF Remove, Deindex
  <2>2. /\ victims \subseteq spo
        /\ \A u \in victims \ Gone(victims, k) : ContextsOf(u)' = RemainingContexts(u, k)
        /\ \A u \in spo \ victims : ContextsOf(u)' = ContextsOf(u)
    BY <1>1, <1>3, RemoveStep
  <2> HIDE DEF victims
  <2>3. CASE t \in victims
    <3>1. WellFlagged(RemainingContexts(t, k)) BY <1>3, <2>2, <2>3, RemainingFlags
    <3> QED BY <2>1, <2>2, <2>3, <3>1 DEF WellFlagged
  <2>4. CASE t \notin victims
    <3>1. t \in spo /\ ContextsOf(t)' = ContextsOf(t) BY <2>1, <2>2, <2>4
    <3> QED BY <3>1 DEF Asserted, Flags, WellFlagged
  <2> QED BY <2>3, <2>4
<1>4. ASSUME NEW T \in SUBSET Triple, NEW g \in Graphs, GraphAdd(T, g) PROVE Flags'
  <2>1. g \in Contexts /\ AddAll(T, g, FALSE)
    BY <1>4 DEF GraphAdd, Contexts
  <2> QED BY <2>1, <1>2
<1>5. ASSUME NEW t \in Triple, NEW f \in Formulas, QuotedAdd(t, f) PROVE Flags'
  <2>1. {t} \in SUBSET Triple /\ f \in Contexts /\ AddAll({t}, f, TRUE)
    BY <1>5 DEF QuotedAdd, Contexts
  <2> QED BY <2>1, <1>2
<1>10. ASSUME NEW T \in SUBSET Triple, NEW f \in Formulas, QuotedAddN(T, f) PROVE Flags'
  <2>1. f \in Contexts /\ AddAll(T, f, FALSE)
    BY <1>10 DEF QuotedAddN, Contexts
  <2> QED BY <2>1, <1>2
<1>6. ASSUME NEW pat \in Pattern, NEW k \in ContextKey, RemoveTriples(pat, k) PROVE Flags'
  BY <1>6, <1>3 DEF RemoveTriples
<1>7. ASSUME NEW c \in Contexts, RemoveGraph(c) PROVE Flags'
  BY <1>7, <1>3 DEF RemoveGraph, ContextKey
<1>8. ASSUME NEW c \in Contexts, AddGraph(c) PROVE Flags'
  BY <1>8 DEF AddGraph, indexVars, Asserted, Flags, WellFlagged, ContextsOf
<1>9. ASSUME UNCHANGED vars PROVE Flags'
  BY <1>9 DEF vars, Asserted, Flags, WellFlagged, ContextsOf
<1> QED BY <1>1, <1>4, <1>5, <1>6, <1>7, <1>8, <1>9, <1>10 DEF Next, Asserted

(* The flags of an empty store are right. *)
LEMMA FlagsInit == Init => Asserted
BY SafeInit DEF Init, Asserted, Flags

(* The flags are right in every execution. *)
LEMMA SpecAsserted == Spec => []Asserted
BY FlagsInit, FlagsStep, PTL DEF Spec

(* The default graph holds the stored triples with the key None. *)
LEMMA UnionIs ==
  Safe => contextTriples[None] = {t \in Triple : t \in spo /\ None \in DOMAIN ContextsOf(t)}
<1> SUFFICES ASSUME Safe
             PROVE  contextTriples[None]
                      = {t \in Triple : t \in spo /\ None \in DOMAIN ContextsOf(t)}
  OBVIOUS
<1>1. None \in ContextKey /\ None \in DOMAIN contextTriples
  BY DEF ContextKey, Safe, DefaultsSet
<1>2. \A t \in Triple : t \in contextTriples[None] <=> (t \in spo /\ None \in DOMAIN ContextsOf(t))
  BY <1>1 DEF Safe, MembershipAgrees, HasContext
<1>3. contextTriples[None] \subseteq Triple BY <1>1 DEF Safe, TypeOK
<1> QED BY <1>2, <1>3

(* When the flags are right the default graph shows what is asserted. *)
LEMMA AssertedUnion == Asserted => ConjunctiveIsUnion
<1> SUFFICES ASSUME Asserted PROVE ConjunctiveIsUnion OBVIOUS
<1>1. contextTriples[None] = {t \in Triple : t \in spo /\ None \in DOMAIN ContextsOf(t)}
  BY UnionIs DEF Asserted
<1>2. spo \subseteq Triple BY DEF Asserted, Safe, TypeOK
<1>3. \A t \in spo : Unquoted(ContextsOf(t)) # {} => t \in contextTriples[None]
  BY <1>1, <1>2 DEF Asserted, Flags, WellFlagged
<1>4. ASSUME NEW t \in contextTriples[None]
      PROVE  \E c \in Contexts : t \in TriplesMatching(All, c)
  <2>1. t \in Triple /\ t \in spo /\ None \in DOMAIN ContextsOf(t) BY <1>1
  <2>2. PICK c \in Contexts : c \in DOMAIN ContextsOf(t)
    BY <2>1 DEF Asserted, Flags, WellFlagged
  <2>3. c \in DOMAIN contextTriples /\ t \in contextTriples[c]
    BY <2>1, <2>2 DEF Asserted, Safe, MembershipAgrees, HasContext, ContextKey
  <2> QED BY <2>3 DEF TriplesMatching
<1> QED BY <1>3, <1>4 DEF ConjunctiveIsUnion, Contexts

(* The conjunctive graph shows what is asserted and nothing that no        *)
(* context holds, under every operation.                                   *)
THEOREM ConjunctiveAlwaysUnion == Spec => []ConjunctiveIsUnion
BY SpecAsserted, AssertedUnion, PTL

-----------------------------------------------------------------------------
(* The store implements QuadStore. *)

(* The triples of a context are those that are stored with it as a key. *)
LEMMA ContentIs ==
  Safe => \A c \in Contexts :
            Content[c] = {t \in Triple : t \in spo /\ c \in DOMAIN ContextsOf(t)}
<1> SUFFICES ASSUME Safe, NEW c \in Contexts
             PROVE  Content[c] = {t \in Triple : t \in spo /\ c \in DOMAIN ContextsOf(t)}
  OBVIOUS
<1>1. c \in ContextKey BY DEF ContextKey
<1>2. \A t \in Triple : (c \in DOMAIN contextTriples /\ t \in contextTriples[c])
                          <=> (t \in spo /\ c \in DOMAIN ContextsOf(t))
  BY <1>1 DEF Safe, MembershipAgrees, HasContext
<1>3. c \in DOMAIN contextTriples => contextTriples[c] \subseteq Triple
  BY DEF Safe, TypeOK
<1> QED BY <1>2, <1>3 DEF Content

(* The same of the next state. *)
LEMMA ContentIsNext ==
  Safe' => \A c \in Contexts :
             Content'[c] = {t \in Triple : t \in spo' /\ c \in DOMAIN ContextsOf(t)'}
<1>1. Safe' => (\A c \in Contexts :
                  Content[c] = {t \in Triple : t \in spo /\ c \in DOMAIN ContextsOf(t)})'
  BY ContentIs, PTL
<1> QED BY <1>1

(* The union of the next state. *)
LEMMA UnionIsNext ==
  Safe' => contextTriples'[None] = {t \in Triple : t \in spo' /\ None \in DOMAIN ContextsOf(t)'}
<1>1. Safe' => (contextTriples[None] = {t \in Triple : t \in spo /\ None \in DOMAIN ContextsOf(t)})'
  BY UnionIs, PTL
<1> QED BY <1>1

(* Which pairs of a statement and a formula are voiced. *)
LEMMA VoicedIs ==
  ASSUME NEW t \in Triple, NEW f \in Formulas
  PROVE  /\ <<t, f>> \in Voiced <=>
              t \in spo /\ f \in DOMAIN ContextsOf(t) /\ ~ContextsOf(t)[f]
         /\ <<t, f>> \in Voiced' <=>
              t \in spo' /\ f \in DOMAIN ContextsOf(t)' /\ ~(ContextsOf(t)')[f]
BY DEF Voiced, HasContext

(* Two sets of pairs with the same members are equal. *)
LEMMA VoicedPairs == /\ Voiced \subseteq Triple \X Formulas
                     /\ Voiced' \subseteq Triple \X Formulas
BY DEF Voiced

(* What QuotedGraph.add does to the contents and to what is voiced.        *)
LEMMA QuoteContent ==
  ASSUME Asserted, Asserted', NEW T \in SUBSET Triple, NEW f \in Formulas,
         AddAll(T, f, TRUE)
  PROVE  /\ Quads!Holding(T, f)
         /\ contextTriples'[None] = contextTriples[None]
         /\ Voiced' = Voiced \ (T \X {f})
<1>1. contextTriples' = AddedToContext(T, f, TRUE) /\ spo' = spo \cup T BY DEF AddAll
<1>2. f \in Contexts /\ f # None /\ None \notin Contexts BY NoneIsNoContext DEF Contexts
<1>3. Quads!Holding(T, f)
  <2>1. \A k \in Contexts : Content'[k] = Content[k] \cup (IF k = f THEN T ELSE {})
    BY <1>1, <1>2 DEF Content, AddedToContext
  <2> QED BY <2>1 DEF Content, Quads!Holding
<1>4. contextTriples'[None] = contextTriples[None]
  <2>1. None \in DOMAIN contextTriples BY DEF Asserted, Safe, DefaultsSet
  <2> QED BY <2>1, <1>1, <1>2 DEF AddedToContext
<1>5. ASSUME NEW t \in Triple, NEW h \in Formulas
      PROVE  <<t, h>> \in Voiced' <=> <<t, h>> \in Voiced \ (T \X {f})
  <2>1. /\ t \in T => ContextsOf(t)' = AddedContexts(t, f, TRUE)
        /\ t \in spo \ T => ContextsOf(t)' = ContextsOf(t)
    <3>1. Safe /\ TRUE \in BOOLEAN BY DEF Asserted
    <3>2. ASSUME NEW q \in BOOLEAN, AddAll(T, f, q)
          PROVE  /\ \A u \in T : ContextsOf(u)' = AddedContexts(u, f, q)
                 /\ \A u \in spo \ T : ContextsOf(u)' = ContextsOf(u)
      BY <1>2, <3>1, <3>2, AddStep
    <3>3. /\ \A u \in T : ContextsOf(u)' = AddedContexts(u, f, TRUE)
          /\ \A u \in spo \ T : ContextsOf(u)' = ContextsOf(u)
      BY <3>1, <3>2, Zenon
    <3> QED BY <3>3
  <2>2. CASE t \notin T BY <1>1, <2>1, <2>2, VoicedIs
  <2>3. CASE t \in T
    <3> DEFINE old == Former(t)
               new == AddedContexts(t, f, TRUE)
    <3>1. /\ DOMAIN new = DOMAIN old \cup {f}
          /\ new[f] = TRUE
          /\ \A x \in DOMAIN old \ {f} : new[x] = old[x]
      BY <1>2, QuotedDict DEF Asserted
    <3>2. <<t, h>> \in Voiced' <=> h \in DOMAIN new /\ ~new[h]
      BY <1>1, <2>1, <2>3, VoicedIs
    <3>3. <<t, h>> \in Voiced <=> h \in DOMAIN old /\ ~old[h]
      BY VoicedIs, EmptyDictType DEF Former
    <3> HIDE DEF old, new
    <3> QED BY <2>3, <3>1, <3>2, <3>3
  <2> QED BY <2>2, <2>3
<1>6. Voiced' = Voiced \ (T \X {f}) BY <1>5, VoicedPairs
<1> QED BY <1>3, <1>4, <1>6

(* What every other addition does, by the kind of its context.             *)
LEMMA AssertContent ==
  ASSUME Asserted, Asserted', NEW T \in SUBSET Triple, NEW c \in Contexts,
         AddAll(T, c, FALSE)
  PROVE  /\ Quads!Holding(T, c)
         /\ contextTriples'[None] = contextTriples[None] \cup T
         /\ c \in Graphs => Voiced' = Voiced
         /\ c \in Formulas => Voiced' = Voiced \cup (T \X {c})
<1>1. contextTriples' = AddedToContext(T, c, FALSE) /\ spo' = spo \cup T BY DEF AddAll
<1>2. c # None /\ None \notin Contexts BY NoneIsNoContext DEF Contexts
<1>3. Quads!Holding(T, c)
  <2>1. \A k \in Contexts : Content'[k] = Content[k] \cup (IF k = c THEN T ELSE {})
    BY <1>1, <1>2 DEF Content, AddedToContext
  <2> QED BY <2>1 DEF Content, Quads!Holding
<1>4. contextTriples'[None] = contextTriples[None] \cup T
  <2>1. None \in DOMAIN contextTriples BY DEF Asserted, Safe, DefaultsSet
  <2> QED BY <2>1, <1>1, <1>2 DEF AddedToContext
<1>5. ASSUME NEW t \in Triple, NEW h \in Formulas
      PROVE  <<t, h>> \in Voiced' <=> <<t, h>> \in Voiced \/ (t \in T /\ h = c)
  <2>1. /\ t \in T => ContextsOf(t)' = AddedContexts(t, c, FALSE)
        /\ t \in spo \ T => ContextsOf(t)' = ContextsOf(t)
    BY AddStep DEF Asserted
  <2>2. CASE t \notin T BY <1>1, <2>1, <2>2, VoicedIs
  <2>3. CASE t \in T
    <3> DEFINE old == Former(t)
               new == AddedContexts(t, c, FALSE)
    <3>1. /\ DOMAIN new = DOMAIN old \cup {c, None}
          /\ new[c] = FALSE /\ new[None] = FALSE
          /\ \A x \in DOMAIN old \ {c, None} : new[x] = old[x]
      BY AssertedDict DEF Asserted
    <3>2. <<t, h>> \in Voiced' <=> h \in DOMAIN new /\ ~new[h]
      BY <1>1, <2>1, <2>3, VoicedIs
    <3>3. <<t, h>> \in Voiced <=> h \in DOMAIN old /\ ~old[h]
      BY VoicedIs, EmptyDictType DEF Former
    <3>4. h # None BY <1>2 DEF Contexts
    <3> HIDE DEF old, new
    <3> QED BY <2>3, <3>1, <3>2, <3>3, <3>4
  <2> QED BY <2>2, <2>3
<1>6. c \in Graphs => Voiced' = Voiced
  <2>1. c \in Graphs => c \notin Formulas BY KindsDisjoint
  <2> QED BY <2>1, <1>5, VoicedPairs
<1>7. c \in Formulas => Voiced' = Voiced \cup (T \X {c}) BY <1>5, VoicedPairs
<1> QED BY <1>3, <1>4, <1>6, <1>7

(* An addition to a graph inserts, one to a formula quotes, and addN on a  *)
(* formula lets it assert.                                                 *)
LEMMA AddRefines ==
  ASSUME Asserted, Asserted', NEW T \in SUBSET Triple
  PROVE  /\ \A g \in Graphs : AddAll(T, g, FALSE) => Quads!Insert(T, g)
         /\ \A f \in Formulas : AddAll(T, f, TRUE) => Quads!Quote(T, f)
         /\ \A f \in Formulas : AddAll(T, f, FALSE) => Quads!Voice(T, f)
<1>1. ASSUME NEW g \in Graphs, AddAll(T, g, FALSE) PROVE Quads!Insert(T, g)
  BY <1>1, AssertContent DEF Contexts, Quads!Insert
<1>2. ASSUME NEW f \in Formulas, AddAll(T, f, TRUE) PROVE Quads!Quote(T, f)
  <2>1. T \in SUBSET T OBVIOUS
  <2> QED BY <1>2, <2>1, QuoteContent DEF Quads!Quote
<1>3. ASSUME NEW f \in Formulas, AddAll(T, f, FALSE) PROVE Quads!Voice(T, f)
  <2>1. T \in SUBSET T /\ T \ Content[f] \subseteq T OBVIOUS
  <2> QED BY <1>3, <2>1, AssertContent DEF Contexts, Quads!Voice
<1> QED BY <1>1, <1>2, <1>3

(* Which triples keep a key after a remove. *)
LEMMA RemoveKeeps ==
  ASSUME Asserted, NEW pat, NEW k \in ContextKey, Remove(pat, k), NEW t \in Triple, NEW x,
         NEW victims, victims = TriplesMatching(pat, k)
  PROVE  /\ (t \in spo' /\ x \in DOMAIN ContextsOf(t)')
              <=> (t \in spo /\ x \in DOMAIN ContextsOf(t)
                   /\ (t \in victims => x \in DOMAIN RemainingContexts(t, k)))
         /\ t \in spo' /\ x \in DOMAIN ContextsOf(t)' => ContextsOf(t)'[x] = ContextsOf(t)[x]
<1>1. spo' = spo \ Gone(victims, k) BY DEF Remove, Deindex
<1>2. /\ victims \subseteq spo
      /\ \A u \in victims \ Gone(victims, k) : ContextsOf(u)' = RemainingContexts(u, k)
      /\ \A u \in spo \ victims : ContextsOf(u)' = ContextsOf(u)
  BY RemoveStep DEF Asserted
<1>3. \A u \in victims : /\ DOMAIN RemainingContexts(u, k) \subseteq DOMAIN ContextsOf(u)
                         /\ \A y \in DOMAIN RemainingContexts(u, k) :
                              RemainingContexts(u, k)[y] = ContextsOf(u)[y]
                         /\ u \in Gone(victims, k) <=> DOMAIN RemainingContexts(u, k) = {}
  BY <1>2, RemainingType DEF Asserted, Safe, Gone
<1>4. Gone(victims, k) \subseteq victims BY DEF Gone
<1>5. CASE t \in victims BY <1>5, <1>1, <1>2, <1>3
<1>6. CASE t \notin victims BY <1>6, <1>1, <1>2, <1>4
<1> QED BY <1>5, <1>6

(* What is left of every context, of the union and of what is voiced.      *)
LEMMA RemoveContent ==
  ASSUME Asserted, Asserted', NEW pat, NEW k \in ContextKey, Remove(pat, k),
         NEW victims, victims = TriplesMatching(pat, k)
  PROVE  /\ \A c \in Contexts :
              Content'[c] = {t \in Content[c] :
                               t \in victims => c \in DOMAIN RemainingContexts(t, k)}
         /\ contextTriples'[None] = {t \in contextTriples[None] :
                               t \in victims => None \in DOMAIN RemainingContexts(t, k)}
         /\ \A t \in Triple, f \in Formulas :
              <<t, f>> \in Voiced' <=>
                <<t, f>> \in Voiced /\ (t \in victims => f \in DOMAIN RemainingContexts(t, k))
<1>1. ASSUME NEW c \in Contexts
      PROVE  Content'[c] = {t \in Content[c] :
                              t \in victims => c \in DOMAIN RemainingContexts(t, k)}
  <2>1. Content[c] = {t \in Triple : t \in spo /\ c \in DOMAIN ContextsOf(t)}
    BY ContentIs DEF Asserted
  <2>2. Content'[c] = {t \in Triple : t \in spo' /\ c \in DOMAIN ContextsOf(t)'}
    BY ContentIsNext DEF Asserted
  <2> QED BY <2>1, <2>2, RemoveKeeps
<1>2. contextTriples'[None] = {t \in contextTriples[None] :
                                 t \in victims => None \in DOMAIN RemainingContexts(t, k)}
  <2>1. contextTriples[None] = {t \in Triple : t \in spo /\ None \in DOMAIN ContextsOf(t)}
    BY UnionIs DEF Asserted
  <2>2. contextTriples'[None] = {t \in Triple : t \in spo' /\ None \in DOMAIN ContextsOf(t)'}
    BY UnionIsNext DEF Asserted
  <2> QED BY <2>1, <2>2, RemoveKeeps
<1>3. ASSUME NEW t \in Triple, NEW f \in Formulas
      PROVE  <<t, f>> \in Voiced' <=>
               <<t, f>> \in Voiced /\ (t \in victims => f \in DOMAIN RemainingContexts(t, k))
  BY VoicedIs, RemoveKeeps
<1> QED BY <1>1, <1>2, <1>3

(* The pattern of three wildcards matches every triple. *)
LEMMA MatchesAll == \A t : Quads!Matches(t, All) /\ Matches(t, All)
BY DEF Quads!Matches, Matches, All

(* A triple that a context holds or shows was stored with its key. *)
LEMMA HeldHasKey ==
  ASSUME Asserted, NEW t
  PROVE  /\ \A c \in Contexts : t \in Content[c] <=>
              t \in Triple /\ t \in spo /\ c \in DOMAIN ContextsOf(t)
         /\ t \in contextTriples[None] <=>
              t \in Triple /\ t \in spo /\ None \in DOMAIN ContextsOf(t)
BY ContentIs, UnionIs DEF Asserted

(* The triples remove() finds in a context. *)
LEMMA VictimsAre ==
  ASSUME Asserted, NEW pat
  PROVE  /\ \A c \in Contexts :
              TriplesMatching(pat, c) = {t \in Content[c] : Quads!Matches(t, pat)}
         /\ TriplesMatching(pat, None) = {t \in contextTriples[None] : Quads!Matches(t, pat)}
<1>1. None \in DOMAIN contextTriples BY DEF Asserted, Safe, DefaultsSet
<1>2. spo \subseteq Triple BY DEF Asserted, Safe, TypeOK
<1>3. CASE pat = All
  BY <1>1, <1>3, MatchesAll DEF TriplesMatching, Content
<1>4. CASE pat # All
  <2>1. \A k : TriplesMatching(pat, k) = {t \in spo : Matches(t, pat) /\ HasContext(t, k)}
    BY <1>4 DEF TriplesMatching, IndexFor, Asserted, Safe, IndexesAgree
  <2>2. \A t : Matches(t, pat) <=> Quads!Matches(t, pat) BY DEF Matches, Quads!Matches
  <2>3. ASSUME NEW c \in Contexts
        PROVE  TriplesMatching(pat, c) = {t \in Content[c] : Quads!Matches(t, pat)}
    BY <1>2, <2>1, <2>2, HeldHasKey DEF HasContext
  <2>4. TriplesMatching(pat, None) = {t \in contextTriples[None] : Quads!Matches(t, pat)}
    BY <1>2, <2>1, <2>2, HeldHasKey DEF HasContext
  <2> QED BY <2>3, <2>4
<1> QED BY <1>3, <1>4

(* A triple is asserted after the step by the contexts whose flag says so. *)
LEMMA AssertedNextIs ==
  ASSUME Asserted, Asserted', NEW t \in Triple
  PROVE  Quads!AssertedNext(t) <=>
           t \in spo' /\ \E x \in Contexts : x \in DOMAIN ContextsOf(t)' /\ ~(ContextsOf(t)')[x]
<1>1. \A g \in Graphs : t \in Content'[g] <=> t \in spo' /\ g \in DOMAIN ContextsOf(t)'
  BY ContentIsNext DEF Asserted, Contexts
<1>2. t \in spo' => \A g \in Graphs : g \in DOMAIN ContextsOf(t)' => ~(ContextsOf(t)')[g]
  BY DEF Asserted, Flags, WellFlagged
<1>3. \A f \in Formulas : <<t, f>> \in Voiced' <=>
        t \in spo' /\ f \in DOMAIN ContextsOf(t)' /\ ~(ContextsOf(t)')[f]
  BY VoicedIs
<1> QED BY <1>1, <1>2, <1>3 DEF Quads!AssertedNext, Contexts

(* remove() in one context is the deletion of the abstract store. *)
LEMMA DeleteRefines ==
  ASSUME Asserted, Asserted', NEW pat, NEW c \in Contexts, Remove(pat, c)
  PROVE  Quads!Delete(pat, c)
<1> DEFINE victims == {t \in Content[c] : Quads!Matches(t, pat)}
<1>1. c \in ContextKey /\ c # None /\ None \notin Contexts BY NoneIsNoContext DEF ContextKey
<1>2. victims = TriplesMatching(pat, c) BY VictimsAre
<1>3. \A t \in victims : t \in Triple /\ t \in spo BY HeldHasKey
<1> HIDE DEF victims
<1>4. /\ \A k \in Contexts :
           Content'[k] = {t \in Content[k] : t \in victims => k \in DOMAIN RemainingContexts(t, c)}
      /\ contextTriples'[None] = {t \in contextTriples[None] :
                            t \in victims => None \in DOMAIN RemainingContexts(t, c)}
      /\ \A t \in Triple, f \in Formulas :
           <<t, f>> \in Voiced' <=>
             <<t, f>> \in Voiced /\ (t \in victims => f \in DOMAIN RemainingContexts(t, c))
  BY <1>1, <1>2, RemoveContent
<1>5. ASSUME NEW t \in victims
      PROVE  /\ \A k \in Contexts : k \in DOMAIN RemainingContexts(t, c)
                                      <=> k \in DOMAIN ContextsOf(t) /\ k # c
             /\ None \in DOMAIN RemainingContexts(t, c)
                  <=> /\ None \in DOMAIN ContextsOf(t)
                      /\ \E x \in Unquoted(ContextsOf(t)) : x # c /\ x # None
  BY <1>1, <1>3, RemainingDict
<1>6. Content' = [Content EXCEPT ![c] = @ \ victims]
  <2>1. ASSUME NEW k \in Contexts
        PROVE  Content'[k] = IF k = c THEN Content[c] \ victims ELSE Content[k]
    <3>1. \A t \in Content[k] : k \in DOMAIN ContextsOf(t) BY HeldHasKey
    <3> QED BY <3>1, <1>4, <1>5
  <2> QED BY <2>1 DEF Content
<1>7. Voiced' = Voiced \ (victims \X {c})
  <2>1. ASSUME NEW t \in Triple, NEW f \in Formulas
        PROVE  <<t, f>> \in Voiced' <=> <<t, f>> \in Voiced \ (victims \X {c})
    <3>1. f \in Contexts BY DEF Contexts
    <3>2. <<t, f>> \in Voiced => f \in DOMAIN ContextsOf(t) BY VoicedIs
    <3> QED BY <3>1, <3>2, <1>4, <1>5
  <2> QED BY <2>1, VoicedPairs
<1>8. ASSUME NEW t \in victims, t \in contextTriples[None]
      PROVE  None \in DOMAIN RemainingContexts(t, c) <=> Quads!AssertedNext(t)
  <2>1. t \in Triple /\ t \in spo /\ None \in DOMAIN ContextsOf(t) BY <1>3, <1>8, HeldHasKey
  <2>2. \A x : /\ (t \in spo' /\ x \in DOMAIN ContextsOf(t)')
                    <=> x \in DOMAIN ContextsOf(t) /\ x \in DOMAIN RemainingContexts(t, c)
               /\ t \in spo' /\ x \in DOMAIN ContextsOf(t)'
                    => ContextsOf(t)'[x] = ContextsOf(t)[x]
    BY <1>1, <1>2, <1>8, <2>1, RemoveKeeps
  <2>3. \A x \in DOMAIN ContextsOf(t) : x \in Contexts \/ x = None
    BY <2>1, ContextsOfType, DictParts DEF Asserted, Safe, ContextKey
  <2>4. Quads!AssertedNext(t) <=>
          t \in spo' /\ \E x \in Contexts : x \in DOMAIN ContextsOf(t)' /\ ~(ContextsOf(t)')[x]
    BY <2>1, AssertedNextIs
  <2>5. Quads!AssertedNext(t) <=>
          \E x \in Contexts : x \in DOMAIN ContextsOf(t) /\ x # c /\ ~ContextsOf(t)[x]
    BY <2>2, <2>4, <1>5
  <2> QED BY <2>1, <2>3, <2>5, <1>1, <1>5 DEF Unquoted
<1>9. contextTriples'[None] = {t \in contextTriples[None] : t \in victims => Quads!AssertedNext(t)}
  BY <1>4, <1>8
<1> QED BY <1>6, <1>7, <1>9 DEF Quads!Delete, victims

(* remove() without a context is the deletion from every context. *)
LEMMA DeleteEverywhereRefines ==
  ASSUME Asserted, Asserted', NEW pat, Remove(pat, None)
  PROVE  Quads!DeleteEverywhere(pat)
<1> DEFINE victims == {t \in contextTriples[None] : Quads!Matches(t, pat)}
<1>1. None \in ContextKey BY DEF ContextKey
<1>2. TriplesMatching(pat, None) = victims BY VictimsAre
<1>3. \A t : DOMAIN RemainingContexts(t, None) = {}
  BY EmptyDictType DEF RemainingContexts, Unquoted
<1> HIDE DEF victims
<1>4. /\ \A c \in Contexts : Content'[c] = Content[c] \ victims
      /\ contextTriples'[None] = contextTriples[None] \ victims
      /\ \A t \in Triple, f \in Formulas :
           <<t, f>> \in Voiced' <=> <<t, f>> \in Voiced /\ t \notin victims
  BY <1>1, <1>2, <1>3, RemoveContent
<1>5. Content' = [c \in Contexts |-> Content[c] \ victims]
  BY <1>4 DEF Content
<1>6. Voiced' = Voiced \ (victims \X Formulas)
  BY <1>4, VoicedPairs
<1>7. \E kept \in SUBSET Formulas :
        Content' = [c \in Contexts |->
                     IF c \in kept THEN {t \in Content[c] : t \in victims => <<t, c>> \notin Voiced}
                     ELSE Content[c] \ victims]
  <2>1. {} \in SUBSET Formulas OBVIOUS
  <2> QED BY <1>5, <2>1
<1> QED BY <1>4, <1>6, <1>7 DEF Quads!DeleteEverywhere, Quads!Contexts, Contexts, victims

(* An empty memory store is an empty abstract store. *)
LEMMA QuadsInit == Init => Quads!Init
<1> SUFFICES ASSUME Init PROVE Quads!Init
  OBVIOUS
<1>1. contextTriples[None] = {} /\ DOMAIN contextTriples = {None} /\ spo = {} BY DEF Init
<1>2. Voiced = {} BY <1>1 DEF Voiced
<1> QED BY <1>1, <1>2, NoneIsNoContext DEF Quads!Init, Content, Contexts, Quads!Contexts

(* Every step of the memory store is a step of the abstract store, or      *)
(* leaves it unchanged.                                                    *)
LEMMA QuadsStep ==
  Asserted /\ Asserted' /\ [Next]_vars => [Quads!Next]_(Quads!abstractVars)
<1> SUFFICES ASSUME Asserted, Asserted', [Next]_vars
             PROVE  [Quads!Next]_(Quads!abstractVars)
  OBVIOUS
<1>1. ASSUME NEW T \in SUBSET Triple, NEW g \in Graphs, GraphAdd(T, g) PROVE Quads!Next
  BY <1>1, AddRefines DEF GraphAdd, Contexts, Quads!Next
<1>2. ASSUME NEW t \in Triple, NEW f \in Formulas, QuotedAdd(t, f) PROVE Quads!Next
  <2>1. {t} \in SUBSET Triple /\ f \in Contexts /\ AddAll({t}, f, TRUE)
    BY <1>2 DEF QuotedAdd, Contexts
  <2> QED BY <2>1, AddRefines DEF Quads!Next
<1>7. ASSUME NEW T \in SUBSET Triple, NEW f \in Formulas, QuotedAddN(T, f) PROVE Quads!Next
  BY <1>7, AddRefines DEF QuotedAddN, Contexts, Quads!Next
<1>3. ASSUME NEW pat \in Pattern, NEW k \in ContextKey, RemoveTriples(pat, k) PROVE Quads!Next
  <2>1. Remove(pat, k) BY <1>3 DEF RemoveTriples
  <2>2. CASE k = None
    BY <2>1, <2>2, DeleteEverywhereRefines DEF Quads!Next
  <2>3. CASE k # None
    BY <2>1, <2>3, DeleteRefines DEF ContextKey, Contexts, Quads!Next, Quads!Contexts
  <2> QED BY <2>2, <2>3
<1>4. ASSUME NEW c \in Contexts, RemoveGraph(c) PROVE Quads!Next
  BY <1>4, DeleteRefines, PatternHasAll DEF RemoveGraph, Contexts, Quads!Next, Quads!Contexts
<1>5. ASSUME NEW c \in Contexts, AddGraph(c) PROVE UNCHANGED Quads!abstractVars
  BY <1>5 DEF AddGraph, indexVars, Quads!abstractVars, Content, Voiced, HasContext, ContextsOf
<1>6. CASE UNCHANGED vars
  BY <1>6 DEF vars, Quads!abstractVars, Content, Voiced, HasContext, ContextsOf
<1> QED BY <1>1, <1>2, <1>3, <1>4, <1>5, <1>6, <1>7 DEF Next

(* Memory, with its three indices and its compressed maps, implements a    *)
(* map from contexts to sets of triples whose conjunctive graph shows what *)
(* they assert: an operation on one context leaves every other one alone.  *)
THEOREM MemoryImplementsQuads == Spec => ImplementsQuadStore
BY SpecAsserted, QuadsInit, QuadsStep, PTL DEF Spec, ImplementsQuadStore, Quads!Spec

-----------------------------------------------------------------------------
(* Generators. *)

(* The inductive invariant, in terms of where a walk stands and what it    *)
(* has seen.  A walk that is open has every stable triple it did not yield *)
(* still before it: in the dictionary it is in, or under a key it has not  *)
(* come to.  What it may yield was stored at some time; what it yields in  *)
(* a context that is no default was in that context.                       *)
Terms == {t[i] : t \in Triple, i \in 1..3}

WalkType == [pat : Pattern, key : ContextKey, inner : SUBSET Triple, groups : SUBSET Terms]
CursorType == [state : {"created", "open", "done"}, walk : WalkType]
HistoryType ==
  [yielded : SUBSET Triple, stored : SUBSET Triple, held : SUBSET Triple, stable : SUBSET Triple]

Pending(w, h) ==
  \A t \in h.stable \ h.yielded : t \in w.inner \/ t[Outer(w.pat)] \in w.groups

Ahead(w, h) ==
  /\ spo \subseteq h.stored /\ Expected(w) \subseteq h.held
  /\ w.inner \subseteq h.stored
  /\ w.pat = All => w.inner \subseteq h.held /\ w.groups = {}
  /\ w.pat # All => \A t \in w.inner : Matches(t, w.pat)
  /\ h.stable \subseteq Expected(w)
  /\ Pending(w, h)

IsDefault(k) == defaultContexts # NoDict /\ k \in DOMAIN defaultContexts

Honest(w, h) ==
  /\ h.yielded \subseteq h.stored
  /\ IsDefault(w.key) \/ h.yielded \subseteq h.held
  /\ defaultContexts = NoDict => h.stored = {}

ReaderOK(r) ==
  /\ Honest(cursor[r].walk, history[r])
  /\ cursor[r].state = "open" => Ahead(cursor[r].walk, history[r])
  /\ cursor[r].state = "done" => history[r].stable \subseteq history[r].yielded

RInv ==
  /\ Safe
  /\ spo \subseteq known /\ known \subseteq Triple
  /\ cursor \in [Readers -> CursorType]
  /\ history \in [Readers -> HistoryType]
  /\ \A r \in Readers : ReaderOK(r)

(* What it says of a generator that ended, and of what one yielded. *)
LEMMA ReadersImplied == RInv => NothingStableMissed /\ YieldedWasHeld
BY DEF RInv, ReaderOK, Honest, IsDefault, NothingStableMissed, YieldedWasHeld

(* No generator has begun at the start. *)
LEMMA ReadersInitOK == ReadersInit => RInv
<1> SUFFICES ASSUME ReadersInit PROVE RInv
  OBVIOUS
<1>1. Safe
  BY SafeInit DEF ReadersInit
<1>2. NoWalk \in WalkType /\ NoHistory \in HistoryType
  BY PatternHasAll DEF NoWalk, WalkType, ContextKey, NoHistory, HistoryType
<1>3. cursor \in [Readers -> CursorType] /\ history \in [Readers -> HistoryType]
  BY <1>2 DEF ReadersInit, CursorType
<1>4. \A r \in Readers : ReaderOK(r)
  BY DEF ReadersInit, NoWalk, NoHistory, ReaderOK, Honest
<1> QED
  BY <1>1, <1>3, <1>4 DEF RInv, ReadersInit, Init

-----------------------------------------------------------------------------
(* The indices and the maps of contexts, as Safe has them.                 *)
LEMMA SafeFacts ==
  ASSUME Safe
  PROVE  /\ spo \subseteq Triple
         /\ \A pat : IndexFor(pat) = spo
         /\ \A k \in ContextKey :
              {t \in spo : HasContext(t, k)}
                = IF k \in DOMAIN contextTriples THEN contextTriples[k] ELSE {}
         /\ DOMAIN tripleContexts \subseteq spo
         /\ defaultContexts = NoDict => spo = {}
<1>1. spo \subseteq Triple /\ \A k \in DOMAIN contextTriples : contextTriples[k] \subseteq Triple
  BY DEF Safe, TypeOK
<1>2. \A pat : IndexFor(pat) = spo
  BY DEF Safe, IndexesAgree, IndexFor
<1>3. ASSUME NEW k \in ContextKey
      PROVE  {t \in spo : HasContext(t, k)}
               = IF k \in DOMAIN contextTriples THEN contextTriples[k] ELSE {}
  <2>1. \A t \in Triple : (k \in DOMAIN contextTriples /\ t \in contextTriples[k])
                            <=> (t \in spo /\ HasContext(t, k))
    BY DEF Safe, MembershipAgrees
  <2> QED
    BY <1>1, <2>1
<1> QED
  BY <1>1, <1>2, <1>3 DEF Safe, NoOrphans, DefaultsSet

(* What one next() yields has passed the check, and was stored.            *)
LEMMA PassedWasHeld ==
  ASSUME Safe, NEW w \in WalkType, NEW h \in HistoryType, Ahead(w, h), Honest(w, h),
         NEW t \in h.stored, w.pat = All \/ Matches(t, w.pat), w.pat = All => t \in h.held,
         Passes(t, w)
  PROVE  IsDefault(w.key) \/ t \in h.held
<1>1. CASE w.pat = All
  BY <1>1
<1>2. CASE w.pat # All /\ t \in DOMAIN tripleContexts
  <2>1. t \in spo /\ Matches(t, w.pat) /\ HasContext(t, w.key)
    BY <1>2, SafeFacts DEF Passes
  <2> QED
    BY <2>1 DEF Expected, Ahead
<1>3. CASE w.pat # All /\ t \notin DOMAIN tripleContexts
  <2>1. w.key \in DOMAIN defaultContexts
    BY <1>3 DEF Passes, HasContext, ContextsOf
  <2>2. defaultContexts # NoDict
    BY DEF Honest
  <2> QED
    BY <2>1, <2>2 DEF IsDefault
<1> QED
  BY <1>1, <1>2, <1>3

(* The triples under one key are those that match and have it.             *)
LEMMA UnderKey ==
  ASSUME Safe, NEW w, NEW g
  PROVE  /\ Inner(w.pat, g) = {t \in spo : Matches(t, w.pat) /\ t[Outer(w.pat)] = g}
         /\ Inner(w.pat, g) \subseteq spo
BY SafeFacts DEF Inner

(* A stable triple passes when its turn comes.                             *)
LEMMA StablePass ==
  ASSUME NEW w, NEW h, Ahead(w, h), NEW t \in h.stable
  PROVE  Passes(t, w) /\ t \in spo /\ Matches(t, w.pat)
BY DEF Ahead, Expected, Passes

(* A triple that stays is in a dictionary that is not passed over. *)
LEMMA StableNotBarren ==
  ASSUME Safe, NEW w, NEW h, Ahead(w, h), NEW t \in h.stable
  PROVE  t[Outer(w.pat)] \notin Barren(w)
<1>1. Passes(t, w) /\ t \in spo /\ Matches(t, w.pat)
  BY StablePass
<1>2. t \in Inner(w.pat, t[Outer(w.pat)])
  BY <1>1, UnderKey
<1>3. t \notin Failing(Inner(w.pat, t[Outer(w.pat)]), w)
  BY <1>1 DEF Failing
<1> QED
  BY <1>2, <1>3 DEF Barren

(* What one next() does: it yields from the dictionary it is in ...        *)
FromInner(w, y) ==
  \E t \in w.inner \ Failing(w.inner, w), skipped \in SUBSET Failing(w.inner, w) :
    y = <<t, [w EXCEPT !.inner = w.inner \ (skipped \cup {t})]>>

(* ... or from a later one, when this one has nothing left to yield.       *)
FromLater(w, y) ==
  /\ Failing(w.inner, w) = w.inner
  /\ \E g \in w.groups, passed \in SUBSET Barren(w) :
       \E t \in Inner(w.pat, g) \ Failing(Inner(w.pat, g), w),
          skipped \in SUBSET Failing(Inner(w.pat, g), w) :
         y = <<t, [w EXCEPT !.groups = w.groups \ (passed \cup {g}),
                            !.inner = Inner(w.pat, g) \ (skipped \cup {t})]>>

(* What a step of a generator yields, and where the walk is then. *)
LEMMA YieldsAre ==
  ASSUME NEW w \in WalkType, NEW y, y \in Yields(w)
  PROVE  FromInner(w, y) \/ FromLater(w, y)
<1>1. CASE Failing(w.inner, w) # w.inner
  <2>1. y \in YieldsFrom(w, w.inner)
    BY <1>1 DEF Yields
  <2> QED
    BY <2>1 DEF YieldsFrom, FromInner
<1>2. CASE Failing(w.inner, w) = w.inner
  <2>1. PICK g \in w.groups : \E v \in MovedTo(w, g) : y \in YieldsFrom(v, Inner(w.pat, g))
    BY <1>2 DEF Yields
  <2>2. PICK v \in MovedTo(w, g) : y \in YieldsFrom(v, Inner(w.pat, g))
    BY <2>1
  <2>3. PICK passed \in SUBSET Barren(w) : v = [w EXCEPT !.groups = w.groups \ (passed \cup {g})]
    BY DEF MovedTo
  <2>4. Failing(Inner(w.pat, g), v) = Failing(Inner(w.pat, g), w)
    BY <2>3 DEF Failing, Passes, WalkType
  <2>5. PICK t \in Inner(w.pat, g) \ Failing(Inner(w.pat, g), w),
             skipped \in SUBSET Failing(Inner(w.pat, g), w) :
          y = <<t, [v EXCEPT !.inner = Inner(w.pat, g) \ (skipped \cup {t})]>>
    BY <2>2, <2>4 DEF YieldsFrom
  <2>6. [v EXCEPT !.inner = Inner(w.pat, g) \ (skipped \cup {t})]
          = [w EXCEPT !.groups = w.groups \ (passed \cup {g}),
                      !.inner = Inner(w.pat, g) \ (skipped \cup {t})]
    BY <2>3
  <2> QED
    BY <1>2, <2>5, <2>6, Zenon DEF FromLater
<1> QED
  BY <1>1, <1>2

LEMMA YieldsArePairs ==
  ASSUME NEW w \in WalkType, NEW y \in Yields(w)
  PROVE  y = <<y[1], y[2]>>
<1>1. \E t, v : y = <<t, v>>
  <2>1. CASE FromInner(w, y)
    BY <2>1, Zenon DEF FromInner
  <2>2. CASE FromLater(w, y)
    BY <2>2, Zenon DEF FromLater
  <2> QED
    BY <2>1, <2>2, YieldsAre
<1> QED
  BY <1>1

(* So a walk that yields is in order. *)
LEMMA YieldOK ==
  ASSUME Safe, NEW w \in WalkType, NEW h \in HistoryType, Ahead(w, h), Honest(w, h),
         NEW t, NEW v, <<t, v>> \in Yields(w)
  PROVE  /\ v \in WalkType
         /\ [h EXCEPT !.yielded = @ \cup {t}] \in HistoryType
         /\ Ahead(v, [h EXCEPT !.yielded = @ \cup {t}])
         /\ Honest(v, [h EXCEPT !.yielded = @ \cup {t}])
<1> DEFINE g == [h EXCEPT !.yielded = @ \cup {t}]
           I == v.inner
           G == v.groups
<1>1. /\ t \in Triple /\ t \in h.stored /\ Passes(t, w)
      /\ w.pat = All \/ Matches(t, w.pat)
      /\ w.pat = All => t \in h.held /\ I \subseteq h.held /\ G = {}
      /\ I \in SUBSET Triple /\ G \in SUBSET Terms /\ I \subseteq h.stored
      /\ w.pat # All => \A u \in I : Matches(u, w.pat)
      /\ v = [w EXCEPT !.inner = I, !.groups = G] \/ (v = [w EXCEPT !.inner = I] /\ G = w.groups)
      /\ \A u \in h.stable \ (h.yielded \cup {t}) : u \in I \/ u[Outer(w.pat)] \in G
  <2>1. CASE FromInner(w, <<t, v>>)
    <3>1. PICK skipped \in SUBSET Failing(w.inner, w) :
            /\ t \in w.inner \ Failing(w.inner, w)
            /\ v = [w EXCEPT !.inner = w.inner \ (skipped \cup {t})]
      BY <2>1 DEF FromInner
    <3>2. I = w.inner \ (skipped \cup {t}) /\ G = w.groups
      BY <3>1 DEF WalkType
    <3>3. w.inner \in SUBSET Triple /\ w.groups \in SUBSET Terms
      BY DEF WalkType
    <3>4. Passes(t, w)
      BY <3>1 DEF Failing
    <3>5. \A u \in h.stable : u \notin skipped
      BY StablePass DEF Failing
    <3> HIDE DEF I, G
    <3> QED
      BY <3>1, <3>2, <3>3, <3>4, <3>5 DEF Ahead, Pending
  <2>2. CASE FromLater(w, <<t, v>>)
    <3>1. PICK k \in w.groups : \E passed \in SUBSET Barren(w) :
            \E u \in Inner(w.pat, k) \ Failing(Inner(w.pat, k), w),
               skipped \in SUBSET Failing(Inner(w.pat, k), w) :
              <<t, v>> = <<u, [w EXCEPT !.groups = w.groups \ (passed \cup {k}),
                                        !.inner = Inner(w.pat, k) \ (skipped \cup {u})]>>
      BY <2>2 DEF FromLater
    <3>2. PICK passed \in SUBSET Barren(w), skipped \in SUBSET Failing(Inner(w.pat, k), w) :
            /\ t \in Inner(w.pat, k) \ Failing(Inner(w.pat, k), w)
            /\ v = [w EXCEPT !.groups = w.groups \ (passed \cup {k}),
                             !.inner = Inner(w.pat, k) \ (skipped \cup {t})]
      BY <3>1
    <3>3. I = Inner(w.pat, k) \ (skipped \cup {t}) /\ G = w.groups \ (passed \cup {k})
          /\ v = [w EXCEPT !.inner = I, !.groups = G]
      BY <3>2 DEF WalkType
    <3>4. w.groups \in SUBSET Terms /\ w.pat # All /\ Failing(w.inner, w) = w.inner
      BY <2>2 DEF WalkType, FromLater, Ahead
    <3>5. /\ Inner(w.pat, k) = {u \in spo : Matches(u, w.pat) /\ u[Outer(w.pat)] = k}
          /\ spo \subseteq Triple /\ spo \subseteq h.stored
      BY UnderKey, SafeFacts DEF Ahead
    <3>6. Passes(t, w)
      BY <3>2 DEF Failing
    <3>7. \A u \in h.stable : u \notin skipped /\ u \notin w.inner /\ u[Outer(w.pat)] \notin passed
                              /\ u \in spo /\ Matches(u, w.pat)
      BY <3>4, StablePass, StableNotBarren DEF Failing
    <3> HIDE DEF I, G
    <3>8. \A u \in h.stable \ (h.yielded \cup {t}) : u \in I \/ u[Outer(w.pat)] \in G
      <4> SUFFICES ASSUME NEW u \in h.stable \ (h.yielded \cup {t}), u[Outer(w.pat)] \notin G
                   PROVE  u \in I
        OBVIOUS
      <4>1. u[Outer(w.pat)] \in w.groups
        BY <3>7 DEF Ahead, Pending
      <4>2. u[Outer(w.pat)] = k
        BY <3>3, <3>7, <4>1
      <4> QED
        BY <3>3, <3>5, <3>7, <4>2
    <3> QED
      BY <3>2, <3>3, <3>4, <3>5, <3>6, <3>8
  <2> QED
    BY <2>1, <2>2, YieldsAre
<1> HIDE DEF g, I, G
<1>2. /\ v \in WalkType /\ v.pat = w.pat /\ v.key = w.key /\ v.inner = I /\ v.groups = G
      /\ g \in HistoryType /\ g.yielded = h.yielded \cup {t}
      /\ g.stored = h.stored /\ g.held = h.held /\ g.stable = h.stable
  <2>1. v \in WalkType /\ v.pat = w.pat /\ v.key = w.key
    BY <1>1 DEF WalkType
  <2>2. /\ g \in HistoryType /\ g.yielded = h.yielded \cup {t}
        /\ g.stored = h.stored /\ g.held = h.held /\ g.stable = h.stable
    BY <1>1 DEF g, HistoryType
  <2> QED
    BY <2>1, <2>2 DEF I, G
<1>3. IsDefault(w.key) \/ t \in h.held
  BY <1>1, PassedWasHeld
<1>4. Expected(v) = Expected(w)
  BY <1>2 DEF Expected
<1>5. Ahead(v, g)
  BY <1>1, <1>2, <1>4 DEF Ahead, Pending
<1>6. Honest(v, g)
  BY <1>1, <1>2, <1>3 DEF Honest
<1> QED
  BY <1>2, <1>5, <1>6 DEF g

(* A walk that has nothing left has yielded what was stable.               *)
LEMMA ExhaustedOK ==
  ASSUME Safe, NEW w \in WalkType, NEW h \in HistoryType, Ahead(w, h), Exhausted(w)
  PROVE  h.stable \subseteq h.yielded
<1> SUFFICES ASSUME NEW t \in h.stable, t \notin h.yielded PROVE FALSE
  OBVIOUS
<1>1. t \notin w.inner
  BY StablePass DEF Exhausted, Failing
<1>2. t[Outer(w.pat)] \notin w.groups
  BY StableNotBarren DEF Exhausted
<1> QED
  BY <1>1, <1>2 DEF Ahead, Pending

(* The steps of a generator: a call, a first next() and those after it. *)
LEMMA AdvanceStep ==
  ASSUME RInv, NEW r \in Readers, NEW w \in WalkType, NEW h \in HistoryType,
         Ahead(w, h), Honest(w, h), Advance(r, w, h)
  PROVE  RInv'
<1>1. UNCHANGED <<vars, known>> /\ Safe
  BY DEF Advance, RInv
<1>2. Safe' /\ spo' \subseteq known' /\ known' \subseteq Triple
  BY <1>1 DEF RInv, vars, Safe, TypeOK, IndexesAgree, MembershipAgrees, NoOrphans,
              CompressedForm, DefaultsSet, HasContext, ContextsOf
<1>3. ASSUME NEW x, NEW y PROVE /\ Ahead(x, y)' <=> Ahead(x, y)
                                /\ Honest(x, y)' <=> Honest(x, y)
  BY <1>1 DEF vars, Ahead, Honest, Pending, Expected, HasContext, ContextsOf, IsDefault
<1>4. \E c \in CursorType, g \in HistoryType :
        /\ cursor' = [cursor EXCEPT ![r] = c] /\ history' = [history EXCEPT ![r] = g]
        /\ Honest(c.walk, g)
        /\ c.state = "open" => Ahead(c.walk, g)
        /\ c.state = "done" => g.stable \subseteq g.yielded
  <2>1. CASE \E y \in Yields(w) :
               /\ cursor' = [cursor EXCEPT ![r] = [state |-> "open", walk |-> y[2]]]
               /\ history' = [history EXCEPT ![r] = [h EXCEPT !.yielded = @ \cup {y[1]}]]
    <3>1. PICK y \in Yields(w) :
               /\ cursor' = [cursor EXCEPT ![r] = [state |-> "open", walk |-> y[2]]]
               /\ history' = [history EXCEPT ![r] = [h EXCEPT !.yielded = @ \cup {y[1]}]]
      BY <2>1
    <3>2. y = <<y[1], y[2]>>
      BY YieldsArePairs
    <3> DEFINE c == [state |-> "open", walk |-> y[2]]
               g == [h EXCEPT !.yielded = @ \cup {y[1]}]
    <3>3. y[2] \in WalkType /\ g \in HistoryType /\ Ahead(y[2], g) /\ Honest(y[2], g)
      BY <1>1, <3>2, YieldOK
    <3> HIDE DEF g
    <3>4. c \in CursorType /\ c.state = "open" /\ c.walk = y[2]
      BY <3>3 DEF CursorType
    <3> HIDE DEF c
    <3> QED
      BY <3>1, <3>3, <3>4 DEF c, g
  <2>2. CASE /\ Exhausted(w)
             /\ cursor' = [cursor EXCEPT
                  ![r] = [state |-> "done", walk |-> [w EXCEPT !.inner = {}, !.groups = {}]]]
             /\ history' = [history EXCEPT ![r] = h]
    <3> DEFINE v == [w EXCEPT !.inner = {}, !.groups = {}]
               c == [state |-> "done", walk |-> v]
    <3>1. v \in WalkType /\ v.key = w.key
      BY DEF WalkType
    <3>2. c \in CursorType /\ c.state = "done" /\ c.walk = v
      BY <3>1 DEF CursorType
    <3>3. Honest(v, h)
      BY <3>1 DEF Honest
    <3>4. h.stable \subseteq h.yielded
      BY <1>1, <2>2, ExhaustedOK
    <3>5. cursor' = [cursor EXCEPT ![r] = c]
      BY <2>2
    <3> HIDE DEF v, c
    <3> QED
      BY <2>2, <3>2, <3>3, <3>4, <3>5
  <2> QED
    BY <2>1, <2>2 DEF Advance
<1>5. PICK c \in CursorType, g \in HistoryType :
        /\ cursor' = [cursor EXCEPT ![r] = c] /\ history' = [history EXCEPT ![r] = g]
        /\ Honest(c.walk, g)
        /\ c.state = "open" => Ahead(c.walk, g)
        /\ c.state = "done" => g.stable \subseteq g.yielded
  BY <1>4
<1>6. /\ cursor' \in [Readers -> CursorType] /\ history' \in [Readers -> HistoryType]
      /\ cursor'[r] = c /\ history'[r] = g
      /\ \A q \in Readers : q # r => cursor'[q] = cursor[q] /\ history'[q] = history[q]
  BY <1>5 DEF RInv
<1>7. ReaderOK(r)'
  BY <1>3, <1>5, <1>6 DEF ReaderOK
<1>8. ASSUME NEW q \in Readers, q # r PROVE ReaderOK(q)'
  BY <1>3, <1>6, <1>8 DEF RInv, ReaderOK
<1> QED
  BY <1>2, <1>6, <1>7, <1>8 DEF RInv

-----------------------------------------------------------------------------
(* A walk that starts has before it all that a caller may expect.          *)
LEMMA StartOK ==
  ASSUME RInv, NEW pat \in Pattern, NEW k \in ContextKey, NEW w, w = Walk(pat, k),
         NEW h, h = [NoHistory EXCEPT !.stored = spo, !.held = Expected(w), !.stable = Expected(w)]
  PROVE  w \in WalkType /\ h \in HistoryType /\ Ahead(w, h) /\ Honest(w, h)
<1>1. /\ w.pat = pat /\ w.key = k
      /\ w.inner = IF pat = All
                   THEN IF k \in DOMAIN contextTriples THEN contextTriples[k] ELSE {}
                   ELSE {t \in IndexFor(pat) : Matches(t, pat) /\ ~TwoLevel(pat)}
      /\ w.groups = IF TwoLevel(pat) THEN Groups(pat) ELSE {}
      /\ w = [pat |-> pat, key |-> k, inner |-> w.inner, groups |-> w.groups]
  BY DEF Walk
<1>2. /\ h.yielded = {} /\ h.stored = spo /\ h.held = Expected(w) /\ h.stable = Expected(w)
      /\ h = [yielded |-> {}, stored |-> spo, held |-> Expected(w), stable |-> Expected(w)]
  BY DEF NoHistory
<1>3. /\ spo \subseteq Triple /\ spo \subseteq known /\ known \subseteq Triple
      /\ IndexFor(pat) = spo
      /\ {t \in spo : HasContext(t, k)}
           = IF k \in DOMAIN contextTriples THEN contextTriples[k] ELSE {}
      /\ defaultContexts = NoDict => spo = {}
  BY SafeFacts DEF RInv
<1>4. Expected(w) = {t \in spo : Matches(t, pat) /\ HasContext(t, k)}
  BY <1>1 DEF Expected
<1>5. Outer(pat) \in 1..3
  BY DEF Outer, Lead
<1>6. Groups(pat) \subseteq Terms
  BY <1>3, <1>5 DEF Groups, Terms
<1>7. h \in HistoryType
  <2>1. Expected(w) \in SUBSET Triple /\ spo \in SUBSET Triple /\ {} \in SUBSET Triple
    BY <1>3, <1>4
  <2> QED
    BY <1>2, <2>1, Zenon DEF HistoryType
<1>8. ASSUME w.inner \in SUBSET Triple, w.groups \in SUBSET Terms
      PROVE  w \in WalkType
  BY <1>1, <1>8, Zenon DEF WalkType
<1>9. CASE pat = All
  <2>1. ~TwoLevel(pat) /\ \A t : Matches(t, pat)
    BY <1>9 DEF TwoLevel, Matches, All
  <2>2. w.inner = Expected(w) /\ w.groups = {}
    BY <1>1, <1>3, <1>4, <1>9, <2>1
  <2>3. w \in WalkType /\ h \in HistoryType
    <3>1. w.inner \in SUBSET Triple /\ w.groups \in SUBSET Terms
      BY <1>3, <1>4, <2>2
    <3> QED
      BY <1>7, <1>8, <3>1
  <2> QED
    BY <1>1, <1>2, <1>3, <1>4, <1>9, <2>2, <2>3 DEF Ahead, Pending, Honest
<1>10. CASE pat # All
  <2>1. w.inner \subseteq spo /\ \A t \in w.inner : Matches(t, pat)
    BY <1>1, <1>3, <1>10
  <2>2. w \in WalkType /\ h \in HistoryType
    <3>1. w.inner \in SUBSET Triple /\ w.groups \in SUBSET Terms
      BY <1>1, <1>3, <1>6, <2>1
    <3> QED
      BY <1>7, <1>8, <3>1
  <2>3. ASSUME NEW t \in Expected(w) PROVE t \in w.inner \/ t[Outer(pat)] \in w.groups
    <3>1. t \in spo /\ Matches(t, pat)
      BY <1>4
    <3>2. CASE ~TwoLevel(pat)
      BY <1>1, <1>3, <1>10, <3>1, <3>2
    <3>3. CASE TwoLevel(pat)
      <4>1. pat[Lead(pat)] # Any
        <5>1. pat = <<pat[1], pat[2], pat[3]>>
          BY PatternsAreTriples
        <5>2. pat[1] # Any \/ pat[2] # Any \/ pat[3] # Any
          BY <1>10, <5>1 DEF All
        <5> QED
          BY <5>2 DEF Lead
      <4>2. t[Lead(pat)] = pat[Lead(pat)]
        BY <3>1, <4>1 DEF Matches, Lead
      <4>3. t[Outer(pat)] \in Groups(pat)
        BY <1>3, <3>1, <4>2 DEF Groups
      <4> QED
        BY <1>1, <3>3, <4>3
    <3> QED
      BY <3>2, <3>3
  <2> QED
    BY <1>1, <1>2, <1>3, <1>4, <1>10, <2>1, <2>2, <2>3 DEF Ahead, Pending, Honest
<1> QED
  BY <1>9, <1>10

LEMMA StartStep ==
  ASSUME RInv, NEW r \in Readers, NEW pat \in Pattern, NEW k \in ContextKey, Start(r, pat, k)
  PROVE  RInv'
<1> DEFINE w == Walk(pat, k)
           h == [NoHistory EXCEPT !.stored = spo, !.held = Expected(w), !.stable = Expected(w)]
<1>1. w \in WalkType /\ h \in HistoryType /\ Ahead(w, h) /\ Honest(w, h)
  <2> HIDE DEF w
  <2> QED
    BY StartOK DEF w
<1>2. Advance(r, w, h)
  BY DEF Start
<1> HIDE DEF w, h
<1> QED
  BY <1>1, <1>2, AdvanceStep

LEMMA ResumeStep ==
  ASSUME RInv, NEW r \in Readers, Resume(r)
  PROVE  RInv'
<1>1. /\ cursor[r].walk \in WalkType /\ history[r] \in HistoryType
      /\ Ahead(cursor[r].walk, history[r]) /\ Honest(cursor[r].walk, history[r])
      /\ Advance(r, cursor[r].walk, history[r])
  BY DEF RInv, ReaderOK, CursorType, Resume
<1> QED
  BY <1>1, AdvanceStep

(* The default contexts are set once.                                      *)
LEMMA DefaultStays ==
  ASSUME Next
  PROVE  defaultContexts # NoDict => defaultContexts' = defaultContexts
BY DEF Next, GraphAdd, QuotedAdd, QuotedAddN, AddAll, RemoveTriples, Remove, AddGraph, RemoveGraph, contextVars

(* Whatever the store is told while readers are suspended, they stay right.*)
LEMMA MutateStep ==
  ASSUME RInv, Mutate
  PROVE  RInv'
<1>1. /\ Next /\ cursor' = cursor /\ known' = known \cup spo'
      /\ history' = [r \in Readers |-> Observe(r)]
  BY DEF Mutate
<1>2. Safe'
  BY <1>1, SafeStep DEF RInv, Next
<1>3. /\ spo' \subseteq Triple
      /\ defaultContexts' = NoDict => spo' = {} /\ defaultContexts = NoDict
  <2>1. spo' \subseteq Triple /\ (defaultContexts' = NoDict => spo' = {})
    BY <1>2 DEF Safe, TypeOK, DefaultsSet
  <2> QED
    BY <1>1, <2>1, DefaultStays
<1>4. \A k : IsDefault(k) => IsDefault(k)'
  BY <1>1, DefaultStays DEF IsDefault
<1>5. ASSUME NEW r \in Readers
      PROVE  history'[r] \in HistoryType /\ ReaderOK(r)'
  <2> DEFINE w == cursor[r].walk
             h == history[r]
             E == Expected(cursor[r].walk)'
  <2>1. w \in WalkType /\ h \in HistoryType /\ Honest(w, h) /\ cursor'[r] = cursor[r]
    BY <1>1 DEF RInv, ReaderOK, CursorType
  <2>2. CASE cursor[r].state = "open"
    <3> DEFINE g == [h EXCEPT !.stored = @ \cup spo', !.held = @ \cup E, !.stable = @ \cap E]
    <3>1. history'[r] = g
      BY <1>1, <2>2 DEF Observe
    <3>2. E \subseteq spo' /\ E = {t \in spo' : Matches(t, w.pat) /\ HasContext(t, w.key)'}
      BY <2>1 DEF Expected
    <3> HIDE DEF w, h, E
    <3>3. /\ g \in HistoryType
          /\ g.yielded = h.yielded /\ g.stored = h.stored \cup spo'
          /\ g.held = h.held \cup E /\ g.stable = h.stable \cap E
      BY <1>3, <2>1, <3>2 DEF HistoryType
    <3>4. Ahead(w, h)
      BY <2>2 DEF RInv, ReaderOK, w, h
    <3> HIDE DEF g
    <3>5. cursor'[r].walk = w /\ Expected(cursor[r].walk)' = E
      BY <2>1 DEF w, E
    <3>6. Ahead(cursor[r].walk, history[r])'
      <4>1. /\ spo' \subseteq g.stored /\ E \subseteq g.held
            /\ w.inner \subseteq g.stored
            /\ w.pat = All => w.inner \subseteq g.held /\ w.groups = {}
            /\ w.pat # All => \A t \in w.inner : Matches(t, w.pat)
            /\ g.stable \subseteq E
            /\ \A t \in g.stable \ g.yielded : t \in w.inner \/ t[Outer(w.pat)] \in w.groups
        BY <3>3, <3>4 DEF Ahead, Pending
      <4> QED
        BY <3>1, <3>5, <4>1 DEF Ahead, Pending
    <3>7. Honest(cursor[r].walk, history[r])'
      BY <1>3, <1>4, <2>1, <3>1, <3>3, <3>5 DEF Honest
    <3> QED
      BY <2>1, <2>2, <3>1, <3>3, <3>6, <3>7 DEF ReaderOK
  <2>3. CASE cursor[r].state # "open"
    <3>1. history'[r] = history[r]
      BY <1>1, <2>3 DEF Observe
    <3>2. Honest(cursor[r].walk, history[r])'
      BY <1>3, <1>4, <2>1, <3>1 DEF Honest
    <3> QED
      BY <2>1, <2>3, <3>1, <3>2 DEF RInv, ReaderOK
  <2> QED
    BY <2>2, <2>3
<1>6. history' \in [Readers -> HistoryType]
  BY <1>1, <1>5
<1> QED
  BY <1>1, <1>2, <1>3, <1>5, <1>6 DEF RInv

(* Every step of the store and of a generator. *)
LEMMA ReadersKeep == RInv /\ [ReadersNext]_<<vars, readerVars>> => RInv'
<1> SUFFICES ASSUME RInv, [ReadersNext]_<<vars, readerVars>> PROVE RInv'
  OBVIOUS
<1>1. ASSUME UNCHANGED <<vars, readerVars>> PROVE RInv'
  <2>1. UNCHANGED <<vars, known, cursor, history>>
    BY <1>1 DEF readerVars
  <2>2. Safe'
    BY <2>1, SafeStep DEF RInv
  <2>3. ASSUME NEW x, NEW y PROVE (Ahead(x, y)' <=> Ahead(x, y)) /\ (Honest(x, y)' <=> Honest(x, y))
    BY <2>1 DEF vars, Ahead, Honest, Pending, Expected, HasContext, ContextsOf, IsDefault
  <2>4. \A r \in Readers : ReaderOK(r)'
    BY <2>1, <2>3 DEF RInv, ReaderOK
  <2> QED
    BY <2>1, <2>2, <2>4 DEF RInv, vars
<1> QED
  BY <1>1, MutateStep, StartStep, ResumeStep DEF ReadersNext

(* The indices and every generator are in order after any step of either.  *)
THEOREM ReadersInductive == ReadersSpec => []RInv
BY ReadersInitOK, ReadersKeep, PTL DEF ReadersSpec

(* A generator run to its end has yielded every triple that stayed, though *)
(* it copies one dictionary at a time and the store changes in between.    *)
THEOREM StableNeverMissed == ReadersSpec => []NothingStableMissed
BY ReadersInductive, ReadersImplied, PTL

(* No generator yields a triple that was never in the context it walks; in *)
(* a default context, one that was never in the store.                     *)
THEOREM YieldedAlwaysHeld == ReadersSpec => []YieldedWasHeld
BY ReadersInductive, ReadersImplied, PTL
=============================================================================
