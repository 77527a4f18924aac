---------------------------- MODULE SparqlProofs ----------------------------
(***************************************************************************)
(* Proofs about SPARQL: its similarity functions (VectorSearch), and its   *)
(* updates on a dataset (DatasetUpdates).                                  *)
(*                                                                         *)
(* For any number of SpicyGraphs, triples and queries, whatever keys and   *)
(* texts terms share: cached scores and cached top-k sets are never stale, *)
(* and what add(), parse() and enable_vector_search() bring in is scored.  *)
(*                                                                         *)
(* Updates, for any triples, graphs, patterns and templates: a loop over   *)
(* solutions is a fold, and what it comes to is shown by an induction over *)
(* the lists it may run through, as a set that has every list.  The        *)
(* inductive invariant of a dataset is that every quad is in a graph that  *)
(* is listed, and that the graph the dataset itself stands for is listed   *)
(* only where updates work on the union of all graphs.                     *)
(***************************************************************************)
EXTENDS VectorSearch, DatasetUpdates, SequenceTheorems, FiniteSetTheorems,
        WellFoundedInduction, TLAPS


(* The inductive invariant.  The scores are those of the index; without an *)
(* index no top-k set is cached; and every term that came in through the   *)
(* index has its key in every component, not only in those queries ask.    *)
Types ==
  /\ content \in [SpicyGraphs -> SUBSET Triple]
  /\ bypassed \in [SpicyGraphs -> SUBSET Triple]
  /\ chunks \in [SpicyGraphs -> SUBSET EntriesOf(Triple)]
  /\ DOMAIN rows = SpicyGraphs /\ DOMAIN scoreCache = SpicyGraphs
  /\ enabled \subseteq SpicyGraphs
  /\ active \in enabled \cup {NoIndex}
  /\ DOMAIN topKCache \subseteq Asked \X Query \X K

IndexOK(g) ==
  /\ OneForKey(chunks[g])
  /\ g \notin enabled => chunks[g] = {}
  /\ rows[g] = chunks[g]
  /\ DOMAIN scoreCache[g] \subseteq Asked \X Query
  /\ \A x \in DOMAIN scoreCache[g] : scoreCache[g][x] = Scored(g, x[1])

Known(g, t) == \A c \in Component : <<c, KeyOf[t[c]]>> \in KeysIn(chunks[g])

Indexed(g) == g \in enabled => \A t \in content[g] \ bypassed[g] : Known(g, t)

TopKCached ==
  \A x \in DOMAIN topKCache :
    active # NoIndex /\ \A key \in topKCache[x] : <<x[1], key>> \in KeysIn(chunks[active])

IInv == Types /\ TopKCached /\ \A g \in SpicyGraphs : IndexOK(g) /\ Indexed(g)

-----------------------------------------------------------------------------
(* The keys of an index, and of one with more entries. *)
LEMMA KeysOf ==
  ASSUME NEW I, NEW c, NEW k
  PROVE  <<c, k>> \in KeysIn(I) <=> \E e \in I : e[1] = c /\ e[2] = k
BY DEF KeysIn

LEMMA KeysOfMore ==
  ASSUME NEW I, NEW J, I \subseteq J
  PROVE  KeysIn(I) \subseteq KeysIn(J)
BY DEF KeysIn

(* The entry of a term has the key of the term. *)
LEMMA Entries ==
  ASSUME NEW T, NEW t \in T, NEW c \in Component
  PROVE  Entry(t, c) \in EntriesOf(T) /\ Entry(t, c)[1] = c /\ Entry(t, c)[2] = KeyOf[t[c]]
BY DEF EntriesOf, Entry

LEMMA MoreEntries ==
  ASSUME NEW T, NEW U, T \subseteq U
  PROVE  EntriesOf(T) \subseteq EntriesOf(U)
BY DEF EntriesOf

(* What Put makes of a dictionary. *)
LEMMA PutIs ==
  ASSUME NEW cache, NEW key, NEW value
  PROVE  /\ DOMAIN Put(cache, key, value) = DOMAIN cache \cup {key}
         /\ Put(cache, key, value)[key] = value
         /\ \A x \in DOMAIN cache : x # key => Put(cache, key, value)[x] = cache[x]
BY DEF Put

(* What build() makes knows every triple it was made of.                   *)
LEMMA BuiltKnows ==
  ASSUME NEW T, NEW I \in Builds(T), NEW t \in T, NEW c \in Component
  PROVE  <<c, KeyOf[t[c]]>> \in KeysIn(I)
<1>1. KeysIn(I) = KeysIn(EntriesOf(T))
  BY DEF Builds
<1>2. Entry(t, c) \in EntriesOf(T) /\ Entry(t, c)[1] = c /\ Entry(t, c)[2] = KeyOf[t[c]]
  BY Entries
<1>3. <<c, KeyOf[t[c]]>> \in KeysIn(EntriesOf(T))
  BY <1>2, KeysOf
<1> QED
  BY <1>1, <1>3

(* A cached score or not: get_all_scores returns the scores of now.        *)
LEMMA ScoresAreNow ==
  ASSUME NEW g \in SpicyGraphs, IndexOK(g), NEW c, NEW q
  PROVE  Scores(g, c, q) = Scored(g, c)
<1>1. CASE <<c, q>> \in DOMAIN scoreCache[g]
  <2>1. scoreCache[g][<<c, q>>] = Scored(g, <<c, q>>[1])
    BY <1>1 DEF IndexOK
  <2> QED
    BY <1>1, <2>1 DEF Scores
<1>2. CASE <<c, q>> \notin DOMAIN scoreCache[g]
  BY <1>2 DEF Scores
<1> QED
  BY <1>1, <1>2

(* The properties follow from the invariant. *)
LEMMA Implied == IInv => TypeOK /\ ScoresFresh /\ TopKOfActive /\ KeysScored
<1> SUFFICES ASSUME IInv PROVE TypeOK /\ ScoresFresh /\ TopKOfActive /\ KeysScored
  OBVIOUS
<1>1. TypeOK
  BY DEF IInv, Types, IndexOK, TypeOK
<1>2. ScoresFresh
  BY DEF IInv, IndexOK, ScoresFresh
<1>3. TopKOfActive
  BY DEF IInv, TopKCached, TopKOfActive
<1>4. ASSUME NEW g \in enabled, NEW t \in content[g] \ bypassed[g], NEW c \in Asked, NEW q \in Query
      PROVE  KeyOf[t[c]] \in {e[2] : e \in Scores(g, c, q)}
  <2>1. g \in SpicyGraphs /\ c \in Component
    BY AskedIsComponent DEF IInv, Types, Component
  <2>2. Scores(g, c, q) = Scored(g, c) /\ rows[g] = chunks[g]
    BY <2>1, ScoresAreNow DEF IInv, IndexOK
  <2>3. <<c, KeyOf[t[c]]>> \in KeysIn(chunks[g])
    BY <2>1 DEF IInv, Indexed, Known
  <2>4. PICK e \in chunks[g] : e[1] = c /\ e[2] = KeyOf[t[c]]
    BY <2>3, KeysOf
  <2>5. e \in Scored(g, c)
    BY <2>2, <2>4 DEF Scored
  <2> QED
    BY <2>2, <2>4, <2>5
<1>5. KeysScored
  BY <1>4 DEF KeysScored
<1> QED
  BY <1>1, <1>2, <1>3, <1>5

(* It holds at the start. *)
LEMMA InitOK == Init => IInv
BY DEF Init, IInv, Types, TopKCached, IndexOK, Indexed, NoCache, OneForKey

-----------------------------------------------------------------------------
(* A new index: of the triples the graph is about to have.                 *)
LEMMA EnableOnStep ==
  ASSUME IInv, NEW g \in SpicyGraphs, NEW T \in SUBSET Triple,
         content' = [content EXCEPT ![g] = T], EnableOn(g, T)
  PROVE  IInv'
<1>1. PICK I \in Builds(T) : chunks' = [chunks EXCEPT ![g] = I]
  BY DEF EnableOn
<1>2. /\ rows' = [rows EXCEPT ![g] = chunks'[g]]
      /\ scoreCache' = [scoreCache EXCEPT ![g] = NoCache]
      /\ active' = g /\ topKCache' = NoCache /\ enabled' = enabled \cup {g}
      /\ bypassed' = [bypassed EXCEPT ![g] = {}]
  BY DEF EnableOn, Rebuild, Activate
<1>3. I \in SUBSET EntriesOf(Triple) /\ OneForKey(I)
  BY MoreEntries DEF Builds
<1>4. /\ content \in [SpicyGraphs -> SUBSET Triple] /\ bypassed \in [SpicyGraphs -> SUBSET Triple]
      /\ chunks \in [SpicyGraphs -> SUBSET EntriesOf(Triple)]
      /\ DOMAIN rows = SpicyGraphs /\ DOMAIN scoreCache = SpicyGraphs
      /\ enabled \subseteq SpicyGraphs
  BY DEF IInv, Types
<1>5. /\ chunks'[g] = I /\ rows'[g] = I /\ scoreCache'[g] = NoCache
      /\ bypassed'[g] = {} /\ content'[g] = T
      /\ \A h \in SpicyGraphs : h # g =>
           /\ chunks'[h] = chunks[h] /\ rows'[h] = rows[h] /\ scoreCache'[h] = scoreCache[h]
           /\ bypassed'[h] = bypassed[h] /\ content'[h] = content[h]
           /\ (h \in enabled' <=> h \in enabled)
  BY <1>1, <1>2, <1>4
<1>6. Types'
  <2>1. DOMAIN topKCache' = {}
    BY <1>2 DEF NoCache
  <2> QED
    BY <1>1, <1>2, <1>3, <1>4, <2>1 DEF Types
<1>7. TopKCached'
  BY <1>2 DEF TopKCached, NoCache
<1>8. IndexOK(g)'
  BY <1>2, <1>3, <1>5 DEF IndexOK, NoCache
<1>9. Indexed(g)'
  BY <1>1, <1>5, BuiltKnows DEF Indexed, Known
<1>10. ASSUME NEW h \in SpicyGraphs, h # g PROVE IndexOK(h)' /\ Indexed(h)'
  BY <1>5, <1>10 DEF IInv, IndexOK, Indexed, Known, Scored
<1> QED
  BY <1>6, <1>7, <1>8, <1>9, <1>10 DEF IInv

(* The operations, one by one. *)
LEMMA EnableStep ==
  ASSUME IInv, NEW g \in SpicyGraphs, Enable(g)
  PROVE  IInv'
<1>1. content[g] \in SUBSET Triple /\ content' = [content EXCEPT ![g] = content[g]]
  BY DEF IInv, Types, Enable
<1> QED
  BY <1>1, EnableOnStep DEF Enable

(* A step after which only the contents and what was bypassed differ, and  *)
(* no triple the index does not know is taken for one it does.             *)
LEMMA ContentStep ==
  ASSUME IInv, UNCHANGED <<enabled, indexVars, active, topKCache>>,
         NEW g \in SpicyGraphs, NEW C \in SUBSET Triple, NEW B \in SUBSET Triple,
         content' = [content EXCEPT ![g] = C], bypassed' = [bypassed EXCEPT ![g] = B],
         g \in enabled => \A t \in C \ B : Known(g, t)
  PROVE  IInv'
<1>1. UNCHANGED <<enabled, chunks, rows, scoreCache, active, topKCache>>
  BY DEF indexVars
<1>2. Types'
  BY <1>1 DEF IInv, Types
<1>3. TopKCached'
  BY <1>1 DEF IInv, TopKCached
<1>4. content'[g] = C /\ bypassed'[g] = B
      /\ \A h \in SpicyGraphs : h # g => content'[h] = content[h] /\ bypassed'[h] = bypassed[h]
  BY DEF IInv, Types
<1>5. ASSUME NEW h \in SpicyGraphs PROVE IndexOK(h)' /\ Indexed(h)'
  BY <1>1, <1>4 DEF IInv, IndexOK, Indexed, Known, Scored
<1> QED
  BY <1>2, <1>3, <1>5 DEF IInv

LEMMA ParseStep ==
  ASSUME IInv, NEW g \in SpicyGraphs, NEW T \in SUBSET Triple, Parse(g, T)
  PROVE  IInv'
<1> DEFINE C == content[g] \cup T
<1>1. C \in SUBSET Triple /\ content' = [content EXCEPT ![g] = C] /\ content'[g] = C
  BY DEF IInv, Types, Parse
<1>2. CASE g \in enabled
  BY <1>1, <1>2, EnableOnStep DEF Parse
<1>3. CASE g \notin enabled
  <2>1. UNCHANGED <<enabled, indexVars, active, topKCache>>
        /\ bypassed' = [bypassed EXCEPT ![g] = bypassed[g]] /\ bypassed[g] \in SUBSET Triple
    BY <1>3 DEF Parse, IInv, Types
  <2> QED
    BY <1>1, <1>3, <2>1, ContentStep
<1> QED
  BY <1>2, <1>3

LEMMA AddNStep ==
  ASSUME IInv, NEW g \in SpicyGraphs, NEW T \in SUBSET Triple, AddN(g, T)
  PROVE  IInv'
<1> DEFINE C == content[g] \cup T
           B == IF g \in enabled THEN bypassed[g] \cup (T \ content[g]) ELSE bypassed[g]
<1>1. C \in SUBSET Triple /\ B \in SUBSET Triple
  BY DEF IInv, Types
<1>2. /\ content' = [content EXCEPT ![g] = C] /\ bypassed' = [bypassed EXCEPT ![g] = B]
      /\ UNCHANGED <<enabled, indexVars, active, topKCache>>
  BY DEF AddN
<1>3. g \in enabled => \A t \in C \ B : Known(g, t)
  BY DEF IInv, Indexed
<1> HIDE DEF C, B
<1> QED
  BY <1>1, <1>2, <1>3, ContentStep

LEMMA RemoveStep ==
  ASSUME IInv, NEW g \in SpicyGraphs, NEW t \in Triple, RemoveTriple(g, t)
  PROVE  IInv'
<1> DEFINE C == content[g] \ {t}
           B == bypassed[g] \ {t}
<1>1. C \in SUBSET Triple /\ B \in SUBSET Triple
  BY DEF IInv, Types
<1>2. /\ content' = [content EXCEPT ![g] = C] /\ bypassed' = [bypassed EXCEPT ![g] = B]
      /\ UNCHANGED <<enabled, indexVars, active, topKCache>>
  BY DEF RemoveTriple
<1>3. g \in enabled => \A u \in C \ B : Known(g, u)
  BY DEF IInv, Indexed
<1> HIDE DEF C, B
<1> QED
  BY <1>1, <1>2, <1>3, ContentStep

(* add(): the index grows by what it does not know of the triple.          *)
LEMMA UnseenEntries ==
  ASSUME NEW g, NEW t \in Triple, OneForKey(chunks[g]), chunks[g] \subseteq EntriesOf(Triple)
  PROVE  /\ Unseen(g, t) \subseteq EntriesOf(Triple)
         /\ OneForKey(chunks[g] \cup Unseen(g, t))
         /\ \A c \in Component :
              <<c, KeyOf[t[c]]>> \in KeysIn(chunks[g] \cup Unseen(g, t))
<1>1. \A e \in Unseen(g, t) : \E c \in Component :
        e = Entry(t, c) /\ <<c, KeyOf[t[c]]>> \notin KeysIn(chunks[g])
  BY DEF Unseen
<1>2. \A c \in Component : <<c, KeyOf[t[c]]>> \notin KeysIn(chunks[g]) => Entry(t, c) \in Unseen(g, t)
  BY DEF Unseen
<1>3. \A c \in Component : Entry(t, c) \in EntriesOf(Triple) /\ Entry(t, c)[1] = c
                           /\ Entry(t, c)[2] = KeyOf[t[c]]
  BY Entries
<1>4. ASSUME NEW e \in chunks[g] \cup Unseen(g, t), NEW f \in chunks[g] \cup Unseen(g, t),
             e[1] = f[1], e[2] = f[2]
      PROVE  e = f
  <2>1. ASSUME NEW x \in Unseen(g, t), NEW y \in chunks[g], x[1] = y[1], x[2] = y[2]
        PROVE  FALSE
    <3>1. PICK c \in Component : x = Entry(t, c) /\ <<c, KeyOf[t[c]]>> \notin KeysIn(chunks[g])
      BY <1>1
    <3>2. y[1] = c /\ y[2] = KeyOf[t[c]]
      BY <1>3, <2>1, <3>1
    <3> QED
      BY <3>1, <3>2, KeysOf
  <2>2. CASE e \in Unseen(g, t) /\ f \in Unseen(g, t)
    BY <1>1, <1>3, <1>4, <2>2
  <2>3. CASE e \in chunks[g] /\ f \in chunks[g]
    BY <1>4, <2>3 DEF OneForKey
  <2> QED
    BY <1>4, <2>1, <2>2, <2>3
<1>5. ASSUME NEW c \in Component
      PROVE  <<c, KeyOf[t[c]]>> \in KeysIn(chunks[g] \cup Unseen(g, t))
  BY <1>2, <1>3, KeysOf
<1>6. Unseen(g, t) \subseteq EntriesOf(Triple)
  BY <1>1, <1>3
<1>7. OneForKey(chunks[g] \cup Unseen(g, t))
  BY <1>4, Zenon DEF OneForKey
<1> QED
  BY <1>5, <1>6, <1>7

LEMMA AddStep ==
  ASSUME IInv, NEW g \in SpicyGraphs, NEW t \in Triple, Add(g, t)
  PROVE  IInv'
<1> DEFINE C == content[g] \cup {t}
           B == bypassed[g] \ {t}
           I == chunks[g] \cup Unseen(g, t)
<1>1. C \in SUBSET Triple /\ B \in SUBSET Triple
  BY DEF IInv, Types
<1>2. /\ content' = [content EXCEPT ![g] = C] /\ bypassed' = [bypassed EXCEPT ![g] = B]
      /\ UNCHANGED <<enabled, active, topKCache>>
  BY DEF Add
<1>3. /\ Unseen(g, t) \subseteq EntriesOf(Triple) /\ OneForKey(I)
      /\ \A c \in Component : <<c, KeyOf[t[c]]>> \in KeysIn(I)
  BY UnseenEntries DEF IInv, Types, IndexOK
<1>4. g \in enabled => \A u \in (C \ B) \ {t} : Known(g, u)
  BY DEF IInv, Indexed
<1>5. CASE g \in enabled /\ Unseen(g, t) # {}
  <2>1. /\ chunks' = [chunks EXCEPT ![g] = I]
        /\ rows' = [rows EXCEPT ![g] = chunks'[g]]
        /\ scoreCache' = [scoreCache EXCEPT ![g] = NoCache]
    BY <1>5 DEF Add, Rebuild
  <2>2. KeysIn(chunks[g]) \subseteq KeysIn(I)
    BY KeysOfMore
  <2> HIDE DEF C, B
  <2>3. /\ chunks'[g] = I /\ rows'[g] = I /\ scoreCache'[g] = NoCache
        /\ bypassed'[g] = B /\ content'[g] = C
        /\ \A h \in SpicyGraphs : h # g =>
             /\ chunks'[h] = chunks[h] /\ rows'[h] = rows[h] /\ scoreCache'[h] = scoreCache[h]
             /\ bypassed'[h] = bypassed[h] /\ content'[h] = content[h]
    BY <1>2, <2>1 DEF IInv, Types
  <2>4. Types'
    BY <1>1, <1>2, <1>3, <2>1 DEF IInv, Types
  <2>5. \A h \in SpicyGraphs : KeysIn(chunks[h]) \subseteq KeysIn(chunks'[h])
    BY <2>2, <2>3
  <2>6. TopKCached'
    BY <1>2, <2>5 DEF IInv, Types, TopKCached
  <2>7. IndexOK(g)'
    BY <1>2, <1>3, <1>5, <2>3 DEF IndexOK, NoCache
  <2>8. Indexed(g)'
    <3>1. \A u \in C \ B : \A c \in Component : <<c, KeyOf[u[c]]>> \in KeysIn(I)
      BY <1>3, <1>4, <1>5, <2>2 DEF Known
    <3> QED
      BY <2>3, <3>1 DEF Indexed, Known
  <2>9. ASSUME NEW h \in SpicyGraphs, h # g PROVE IndexOK(h)' /\ Indexed(h)'
    BY <1>2, <2>3, <2>9 DEF IInv, IndexOK, Indexed, Known, Scored
  <2> QED
    BY <2>4, <2>6, <2>7, <2>8, <2>9 DEF IInv
<1>6. CASE ~(g \in enabled /\ Unseen(g, t) # {})
  <2>1. UNCHANGED <<enabled, indexVars, active, topKCache>>
    BY <1>6 DEF Add
  <2>2. g \in enabled => Known(g, t)
    BY <1>3, <1>6 DEF Known
  <2>3. g \in enabled => \A u \in C \ B : Known(g, u)
    BY <1>4, <2>2
  <2> HIDE DEF C, B
  <2> QED
    BY <1>1, <1>2, <2>1, <2>3, ContentStep
<1> QED
  BY <1>5, <1>6

-----------------------------------------------------------------------------
(* Queries fill the caches with what is true now.                          *)
LEMMA CacheScoresOK ==
  ASSUME IInv, NEW g \in SpicyGraphs, NEW c \in Asked, NEW q \in Query, CacheScores(g, c, q),
         UNCHANGED <<content, enabled, chunks, rows, active, bypassed>>
  PROVE  DOMAIN scoreCache' = SpicyGraphs /\ \A h \in SpicyGraphs : IndexOK(h)' /\ Indexed(h)'
<1> DEFINE f == Put(scoreCache[g], <<c, q>>, Scored(g, c))
<1>1. scoreCache' = [scoreCache EXCEPT ![g] = f]
  <2>1. Scores(g, c, q) = Scored(g, c)
    BY ScoresAreNow DEF IInv
  <2> QED
    BY <2>1 DEF CacheScores
<1>2. /\ DOMAIN f = DOMAIN scoreCache[g] \cup {<<c, q>>}
      /\ f[<<c, q>>] = Scored(g, c)
      /\ \A x \in DOMAIN scoreCache[g] : x # <<c, q>> => f[x] = scoreCache[g][x]
  <2>1. f = [x \in DOMAIN scoreCache[g] \cup {<<c, q>>} |->
               IF x = <<c, q>> THEN Scored(g, c) ELSE scoreCache[g][x]]
    BY DEF Put
  <2> HIDE DEF f
  <2> QED
    BY <2>1, Zenon
<1> HIDE DEF f
<1>3. DOMAIN scoreCache' = SpicyGraphs /\ scoreCache'[g] = f
      /\ \A h \in SpicyGraphs : h # g => scoreCache'[h] = scoreCache[h]
  BY <1>1 DEF IInv, Types
<1>4. \A h : \A d : Scored(h, d)' = Scored(h, d)
  BY DEF Scored
<1>5. IndexOK(g)'
  <2>1. <<c, q>>[1] = c /\ <<c, q>> \in Asked \X Query
    OBVIOUS
  <2>2. \A x \in DOMAIN f : f[x] = Scored(g, x[1])
    BY <1>2, <2>1 DEF IInv, IndexOK
  <2>3. DOMAIN f \subseteq Asked \X Query
    BY <1>2, <2>1 DEF IInv, IndexOK
  <2> QED
    BY <1>3, <1>4, <2>2, <2>3 DEF IInv, IndexOK
<1>6. \A h \in SpicyGraphs : h # g => IndexOK(h)'
  BY <1>3, <1>4 DEF IInv, IndexOK
<1>7. \A h \in SpicyGraphs : Indexed(h)'
  BY DEF IInv, Indexed, Known
<1> QED
  BY <1>3, <1>5, <1>6, <1>7

LEMMA CosineStep ==
  ASSUME IInv, NEW c \in Asked, NEW q \in Query, Cosine(c, q)
  PROVE  IInv'
<1>1. active \in SpicyGraphs /\ CacheScores(active, c, q)
      /\ UNCHANGED <<content, enabled, chunks, rows, active, topKCache, bypassed>>
  BY DEF Cosine, IInv, Types
<1>2. DOMAIN scoreCache' = SpicyGraphs /\ \A h \in SpicyGraphs : IndexOK(h)' /\ Indexed(h)'
  BY <1>1, CacheScoresOK
<1>3. Types' /\ TopKCached'
  BY <1>1, <1>2 DEF IInv, Types, TopKCached
<1> QED
  BY <1>2, <1>3 DEF IInv

LEMMA TopKStep ==
  ASSUME IInv, NEW c \in Asked, NEW q \in Query, NEW k \in K, TopK(c, q, k)
  PROVE  IInv'
<1>1. active \in SpicyGraphs /\ active # NoIndex
      /\ UNCHANGED <<content, enabled, chunks, rows, active, bypassed>>
  BY DEF TopK, IInv, Types
<1>2. CASE <<c, q, k>> \in DOMAIN topKCache
  <2>1. UNCHANGED <<scoreCache, topKCache>>
    BY <1>2 DEF TopK
  <2> QED
    BY <1>1, <2>1 DEF IInv, Types, TopKCached, IndexOK, Indexed, Known, Scored
<1>3. CASE <<c, q, k>> \notin DOMAIN topKCache
  <2>1. CacheScores(active, c, q)
        /\ \E best \in TopKSets(Scores(active, c, q), q, k) :
             topKCache' = Put(topKCache, <<c, q, k>>, best)
    BY <1>3 DEF TopK
  <2>2. PICK best \in TopKSets(Scores(active, c, q), q, k) :
          topKCache' = Put(topKCache, <<c, q, k>>, best)
    BY <2>1
  <2>3. DOMAIN scoreCache' = SpicyGraphs /\ \A h \in SpicyGraphs : IndexOK(h)' /\ Indexed(h)'
    BY <1>1, <2>1, CacheScoresOK
  <2>4. /\ DOMAIN topKCache' = DOMAIN topKCache \cup {<<c, q, k>>}
        /\ topKCache'[<<c, q, k>>] = best
        /\ \A x \in DOMAIN topKCache : x # <<c, q, k>> => topKCache'[x] = topKCache[x]
    BY <2>2, PutIs
  <2>5. ASSUME NEW key \in best PROVE <<c, key>> \in KeysIn(chunks[active])
    <3>1. Scores(active, c, q) = Scored(active, c) /\ rows[active] = chunks[active]
      BY <1>1, ScoresAreNow DEF IInv, IndexOK
    <3>2. PICK e \in Scored(active, c) : key = e[2]
      BY <3>1 DEF TopKSets
    <3>3. e \in chunks[active] /\ e[1] = c
      BY <3>1 DEF Scored
    <3> QED
      BY <3>2, <3>3, KeysOf
  <2>6. Types'
    BY <1>1, <2>3, <2>4 DEF IInv, Types
  <2>7. TopKCached'
    <3>1. <<c, q, k>>[1] = c
      OBVIOUS
    <3> QED
      BY <1>1, <2>4, <2>5, <3>1 DEF IInv, TopKCached
  <2> QED
    BY <2>3, <2>6, <2>7 DEF IInv
<1> QED
  BY <1>2, <1>3

-----------------------------------------------------------------------------
(* Every execution keeps the invariant, from which the rest follows. *)
THEOREM Inductive == Spec => []IInv
<1>1. Init => IInv
  BY InitOK
<1>2. IInv /\ [Next]_vars => IInv'
  <2> SUFFICES ASSUME IInv, [Next]_vars PROVE IInv'
    OBVIOUS
  <2>1. ASSUME UNCHANGED vars PROVE IInv'
    BY <2>1 DEF vars, indexVars, IInv, Types, TopKCached, IndexOK, Indexed, Known, Scored
  <2> QED
    BY <2>1, EnableStep, AddStep, RemoveStep, ParseStep, AddNStep, CosineStep, TopKStep DEF Next
<1> QED
  BY <1>1, <1>2, PTL DEF Spec

(* Every index has one entry for a key, and belongs to an enabled graph.   *)
THEOREM IndicesTyped == Spec => []TypeOK
BY Inductive, Implied, PTL

(* _rebuild_matrices drops the scores whenever the index changes, so that  *)
(* no cached score is of a smaller index.                                  *)
THEOREM ScoresAlwaysFresh == Spec => []ScoresFresh
BY Inductive, Implied, PTL

(* register_functions drops the top-k sets of the index that was active.   *)
THEOREM TopKAlwaysOfActive == Spec => []TopKOfActive
BY Inductive, Implied, PTL

(* Every term that came in through add(), parse() or enable_vector_search  *)
(* is scored, whatever query asks and whatever was cached before.          *)
THEOREM KeysAlwaysScored == Spec => []KeysScored
BY Inductive, Implied, PTL

-----------------------------------------------------------------------------
(* Induction over the naturals, from the least element of a set of them. *)
Smaller == {mn \in Nat \X Nat : mn[1] < mn[2]}

(* A set of numbers that is not empty has a least one. *)
LEMMA LeastNumber ==
  ASSUME NEW N, N \subseteq Nat, N # {}
  PROVE  \E n \in N : \A m \in N : n <= m
<1>1. IsWellFoundedOn(Smaller, Nat) BY NatLessThanWellFounded DEF OpToRel, Smaller
<1>2. \E n \in N : \A m \in N : <<m, n>> \notin Smaller BY <1>1, WFMin, Zenon
<1>3. \A m, n \in N : <<m, n>> \notin Smaller => n <= m BY DEF Smaller
<1> QED BY <1>2, <1>3

(* So a set that has 0, and n + 1 when it has n, has every number.         *)
LEMMA EveryNumber ==
  ASSUME NEW N, N \subseteq Nat, 0 \in N, \A n \in N : n + 1 \in N
  PROVE  N = Nat
<1>1. ASSUME NEW n \in Nat, n \notin N PROVE FALSE
  <2>1. PICK k \in Nat \ N : \A m \in Nat \ N : k <= m
    BY LeastNumber, <1>1
  <2>2. k # 0 /\ k - 1 \in Nat /\ k - 1 \in N
    BY <2>1
  <2> QED BY <2>1, <2>2
<1> QED BY <1>1

(* and one that has the empty list, and a longer one when it has a list,   *)
(* has every list.                                                         *)
LEMMA EveryList ==
  ASSUME NEW U, NEW S, <<>> \in S,
         \A list \in Seq(U), e \in U : list \in S => Append(list, e) \in S
  PROVE  Seq(U) \subseteq S
<1> DEFINE N == {n \in Nat : \A list \in Seq(U) : Len(list) = n => list \in S}
<1>1. 0 \in N
  <2>1. \A list \in Seq(U) : Len(list) = 0 => list = <<>> OBVIOUS
  <2> QED BY <2>1
<1>2. ASSUME NEW n \in N PROVE n + 1 \in N
  <2> SUFFICES ASSUME NEW list \in Seq(U), Len(list) = n + 1 PROVE list \in S OBVIOUS
  <2> DEFINE front == SubSeq(list, 1, n)
  <2>1. front \in Seq(U) /\ Len(front) = n /\ list[n + 1] \in U OBVIOUS
  <2>2. list = Append(front, list[n + 1]) OBVIOUS
  <2>3. front \in S BY <2>1
  <2> HIDE DEF front
  <2> QED BY <2>1, <2>2, <2>3
<1> HIDE DEF N
<1>3. N \subseteq Nat BY DEF N
<1>4. N = Nat BY <1>1, <1>2, <1>3, EveryNumber
<1> QED BY <1>4 DEF N
-----------------------------------------------------------------------------
(* The fold that a loop is made of: a function of the sets of positions.   *)
OneRound(S, u, listed, x) == UNION {After(st, u, listed, x) : st \in S}
Latest(P) == Max(P)

IsRun(S, u, listed, order, f, n) ==
  f = [P \in SUBSET (1..n) |->
        IF P = {} THEN S
        ELSE OneRound(f[P \ {Latest(P)}], u, listed, order[Latest(P)])]

(* A loop is the value of such a function at all positions.                *)
LEMMA LoopIsARun ==
  ASSUME NEW S, NEW u, NEW listed, NEW order, NEW n \in Nat, DOMAIN order = 1..n
  PROVE  Loop(S, u, listed, order) = (CHOOSE f : IsRun(S, u, listed, order, f, n))[1..n]
BY DEF Loop, FoldLeft, MapThenFoldSet, IsRun, Latest, OneRound

(* The fold takes the highest position first. *)
LEMMA LatestIsLast ==
  ASSUME NEW n \in Nat, NEW P, P \subseteq 1..(n + 1), n + 1 \in P
  PROVE  Latest(P) = n + 1
<1>1. \A x \in P : x \in Int /\ x <= n + 1 OBVIOUS
<1>2. \A x \in P : (\A y \in P : x >= y) => x = n + 1 BY <1>1
<1> QED BY <1>1, <1>2 DEF Latest, Max

(* There is such a fold of any length, *)
LEMMA RunsExist ==
  ASSUME NEW S, NEW u, NEW listed, NEW order, NEW n \in Nat
  PROVE  \E f : IsRun(S, u, listed, order, f, n)
<1> DEFINE N == {k \in Nat : \E f : IsRun(S, u, listed, order, f, k)}
           Round(T, x) == OneRound(T, u, listed, x)
<1>0. \A f, k : IsRun(S, u, listed, order, f, k) <=>
        f = [P \in SUBSET (1..k) |->
              IF P = {} THEN S ELSE Round(f[P \ {Latest(P)}], order[Latest(P)])]
  BY Zenon DEF IsRun
<1> HIDE DEF Round
<1>1. 0 \in N
  <2> DEFINE f == [P \in SUBSET (1..0) |-> S]
  <2>1. \A P \in SUBSET (1..0) : P = {} OBVIOUS
  <2>2. f = [P \in SUBSET (1..0) |->
              IF P = {} THEN S ELSE Round(f[P \ {Latest(P)}], order[Latest(P)])]
    BY <2>1
  <2>3. IsRun(S, u, listed, order, f, 0) BY <1>0, <2>2, Zenon
  <2> QED BY <2>3
<1>2. ASSUME NEW k \in N PROVE k + 1 \in N
  <2>1. PICK f : IsRun(S, u, listed, order, f, k) OBVIOUS
  <2> DEFINE g == [P \in SUBSET (1..(k + 1)) |->
                    IF k + 1 \in P THEN Round(f[P \ {k + 1}], order[k + 1]) ELSE f[P]]
  <2>2. ASSUME NEW P \in SUBSET (1..(k + 1))
        PROVE  g[P] = IF P = {} THEN S ELSE Round(g[P \ {Latest(P)}], order[Latest(P)])
    <3>1. CASE k + 1 \in P
      <4>1. Latest(P) = k + 1 BY <3>1, LatestIsLast
      <4>2. P \ {k + 1} \in SUBSET (1..(k + 1)) /\ k + 1 \notin P \ {k + 1} OBVIOUS
      <4>3. g[P \ {k + 1}] = f[P \ {k + 1}] /\ g[P] = Round(f[P \ {k + 1}], order[k + 1])
        BY <3>1, <4>2
      <4> QED BY <3>1, <4>1, <4>3
    <3>2. CASE k + 1 \notin P
      <4>1. P \in SUBSET (1..k) BY <3>2
      <4>2. f[P] = IF P = {} THEN S ELSE Round(f[P \ {Latest(P)}], order[Latest(P)])
        BY <1>0, <4>1, <2>1, Zenon
      <4>3. P \ {Latest(P)} \in SUBSET (1..(k + 1)) /\ k + 1 \notin P \ {Latest(P)}
        BY <3>2
      <4>4. g[P \ {Latest(P)}] = f[P \ {Latest(P)}] /\ g[P] = f[P] BY <3>2, <4>3
      <4> QED BY <4>2, <4>4, Zenon
    <3> QED BY <3>1, <3>2
  <2>3. g = [P \in SUBSET (1..(k + 1)) |->
              IF P = {} THEN S ELSE Round(g[P \ {Latest(P)}], order[Latest(P)])]
    BY <2>2, Zenon
  <2>4. IsRun(S, u, listed, order, g, k + 1) BY <1>0, <2>3, Zenon
  <2> QED BY <2>4
<1> HIDE DEF N
<1>3. N \subseteq Nat BY DEF N
<1>4. N = Nat BY <1>1, <1>2, <1>3, EveryNumber
<1> QED BY <1>4 DEF N

(* and the one of a list that only goes on further has the same values up  *)
(* to there.                                                               *)
LEMMA RunsAgree ==
  ASSUME NEW S, NEW u, NEW listed, NEW order, NEW longer,
         NEW n \in Nat, NEW m \in Nat, n <= m, \A i \in 1..n : order[i] = longer[i],
         NEW f, IsRun(S, u, listed, order, f, n), NEW g, IsRun(S, u, listed, longer, g, m)
  PROVE  f[1..n] = g[1..n]
<1> DEFINE N == {k \in Nat : k <= n => \A P \in SUBSET (1..k) : f[P] = g[P]}
           Round(T, x) == OneRound(T, u, listed, x)
<1>0. /\ \A P \in SUBSET (1..n) :
           f[P] = IF P = {} THEN S ELSE Round(f[P \ {Latest(P)}], order[Latest(P)])
      /\ \A P \in SUBSET (1..m) :
           g[P] = IF P = {} THEN S ELSE Round(g[P \ {Latest(P)}], longer[Latest(P)])
  BY Zenon DEF IsRun
<1> HIDE DEF Round
<1>1. 0 \in N
  <2>1. \A P \in SUBSET (1..0) : P = {} OBVIOUS
  <2>2. f[{}] = S /\ g[{}] = S BY <1>0
  <2> QED BY <2>1, <2>2
<1>2. ASSUME NEW k \in N PROVE k + 1 \in N
  <2>0. k \in Nat /\ k + 1 \in Nat /\ (k <= n => \A P \in SUBSET (1..k) : f[P] = g[P])
    OBVIOUS
  <2> HIDE DEF N
  <2> SUFFICES ASSUME k + 1 <= n, NEW P \in SUBSET (1..(k + 1)) PROVE f[P] = g[P]
    BY <2>0, Zenon DEF N
  <2>1. CASE k + 1 \in P
    <3>1. Latest(P) = k + 1 BY <2>0, <2>1, LatestIsLast
    <3>2. P \ {k + 1} \in SUBSET (1..k) /\ P # {} BY <2>0, <2>1
    <3>3. f[P \ {k + 1}] = g[P \ {k + 1}] BY <2>0, <3>2
    <3>4. P \in SUBSET (1..n) /\ P \in SUBSET (1..m) /\ order[k + 1] = longer[k + 1]
      BY <2>0
    <3>5. /\ f[P] = Round(f[P \ {k + 1}], order[k + 1])
          /\ g[P] = Round(g[P \ {k + 1}], longer[k + 1])
      BY <1>0, <3>1, <3>2, <3>4, Zenon
    <3> QED BY <3>3, <3>4, <3>5, Zenon
  <2>2. CASE k + 1 \notin P
    <3>1. P \in SUBSET (1..k) /\ k <= n BY <2>0, <2>2
    <3> QED BY <2>0, <3>1
  <2> QED BY <2>1, <2>2
<1> HIDE DEF N
<1>3. N \subseteq Nat BY DEF N
<1>4. N = Nat BY <1>1, <1>2, <1>3, EveryNumber
<1>5. n \in N BY <1>4
<1> QED BY <1>5 DEF N

(* What a loop is: nothing, or all of it but the last round, and then that. *)
LEMMA LoopNone == ASSUME NEW S, NEW u, NEW listed PROVE Loop(S, u, listed, <<>>) = S
<1> DEFINE f == CHOOSE f : IsRun(S, u, listed, <<>>, f, 0)
<1>1. DOMAIN <<>> = 1..0 /\ 0 \in Nat OBVIOUS
<1>2. Loop(S, u, listed, <<>>) = f[1..0] BY <1>1, LoopIsARun, Zenon
<1>3. IsRun(S, u, listed, <<>>, f, 0) BY <1>1, RunsExist, Zenon
<1>4. 1..0 = {} /\ 1..0 \in SUBSET (1..0) OBVIOUS
<1> HIDE DEF f
<1>5. f[1..0] = S BY <1>3, <1>4, Zenon DEF IsRun
<1> QED BY <1>2, <1>5

(* A loop over one thing more is one round more.                           *)
LEMMA LoopAppend ==
  ASSUME NEW S, NEW u, NEW listed, NEW U, NEW order \in Seq(U), NEW x \in U
  PROVE  Loop(S, u, listed, Append(order, x))
           = OneRound(Loop(S, u, listed, order), u, listed, x)
<1> DEFINE n == Len(order)
           longer == Append(order, x)
           f == CHOOSE f : IsRun(S, u, listed, order, f, n)
           g == CHOOSE g : IsRun(S, u, listed, longer, g, n + 1)
<1>1. /\ n \in Nat /\ n + 1 \in Nat /\ DOMAIN order = 1..n /\ DOMAIN longer = 1..(n + 1)
      /\ longer[n + 1] = x /\ \A i \in 1..n : order[i] = longer[i]
  OBVIOUS
<1> HIDE DEF n, longer
<1>2. IsRun(S, u, listed, order, f, n) /\ IsRun(S, u, listed, longer, g, n + 1)
  <2>1. \E h : IsRun(S, u, listed, order, h, n) BY <1>1, RunsExist, Zenon
  <2>2. \E h : IsRun(S, u, listed, longer, h, n + 1) BY <1>1, RunsExist, Zenon
  <2> QED BY <2>1, <2>2, Zenon
<1>3. Loop(S, u, listed, order) = f[1..n] BY <1>1, LoopIsARun, Zenon
<1>4. Loop(S, u, listed, longer) = g[1..(n + 1)] BY <1>1, LoopIsARun, Zenon
<1> HIDE DEF f, g
<1>5. n <= n + 1 BY <1>1
<1>6. f[1..n] = g[1..n] BY <1>1, <1>2, <1>5, RunsAgree
<1>7. 1..(n + 1) \subseteq 1..(n + 1) /\ n + 1 \in 1..(n + 1) BY <1>1
<1>8. Latest(1..(n + 1)) = n + 1 BY <1>1, <1>7, LatestIsLast, Zenon
<1>9. 1..(n + 1) \in SUBSET (1..(n + 1)) /\ 1..(n + 1) # {} /\ (1..(n + 1)) \ {n + 1} = 1..n
  <2>1. \A i : (i \in 1..(n + 1) /\ i # n + 1) <=> i \in 1..n BY <1>1
  <2> QED BY <1>7, <2>1
<1>10. g[1..(n + 1)]
         = OneRound(g[(1..(n + 1)) \ {Latest(1..(n + 1))}], u, listed, longer[Latest(1..(n + 1))])
  BY <1>2, <1>9, Zenon DEF IsRun
<1>11. g[1..(n + 1)] = OneRound(f[1..n], u, listed, x) BY <1>1, <1>6, <1>8, <1>9, <1>10, Zenon
<1> QED BY <1>3, <1>4, <1>11, Zenon DEF longer

-----------------------------------------------------------------------------
(* What a dataset is at any time: quads, of graphs that are listed, and no *)
(* name stands for the whole dataset.                                      *)
Sound(st) ==
  /\ DOMAIN st = {"quads", "known", "raised"}
  /\ \A q \in st.quads : q = <<q[1], q[2]>> /\ q[1] \in Contexts(st)
  /\ AllGraphs \notin Contexts(st)

(* No graph is called as the one that stands for the whole dataset.        *)
LEMMA IdentifierIs ==
  ASSUME NamesAreNames, NEW g
  PROVE  Identifier(g) # AllGraphs /\ (g # AllGraphs => Identifier(g) = g)
BY DEF Identifier, NamesAreNames


(* What is added is in graphs that are listed from then on.                *)
LEMMA AddSound ==
  ASSUME NamesAreNames, NEW st, Sound(st), NEW Q
  PROVE  Sound(AddQuads(st, Q)) /\ st.known \subseteq AddQuads(st, Q).known
<1> DEFINE a == AddQuads(st, Q)
<1>1. CASE kind = "Dataset" /\ AllGraphs \in GraphsIn(Q)
  <2>1. a = [st EXCEPT !.raised = TRUE] BY <1>1 DEF AddQuads, Raised
  <2> QED BY <2>1 DEF Sound, Contexts
<1>2. CASE ~(kind = "Dataset" /\ AllGraphs \in GraphsIn(Q))
  <2>1. /\ DOMAIN a = {"quads", "known", "raised"}
        /\ a.quads = st.quads \cup {<<Identifier(q[1]), q[2]>> : q \in Q}
        /\ a.known = st.known \cup {Identifier(g) : g \in GraphsIn(Q)}
    BY <1>2 DEF AddQuads, Sound
  <2> HIDE DEF a
  <2>2. Contexts(a) = Contexts(st) \cup {Identifier(g) : g \in GraphsIn(Q)}
    BY <2>1 DEF Contexts
  <2>3. \A g : Identifier(g) # AllGraphs BY IdentifierIs
  <2>4. \A q \in Q : Identifier(q[1]) \in Contexts(a) BY <2>2 DEF GraphsIn
  <2>5. ASSUME NEW q \in a.quads PROVE q = <<q[1], q[2]>> /\ q[1] \in Contexts(a)
    <3>1. CASE q \in st.quads BY <2>2, <3>1 DEF Sound
    <3>2. CASE q \notin st.quads BY <2>1, <2>4, <3>2
    <3> QED BY <3>1, <3>2
  <2>6. AllGraphs \notin Contexts(a) BY <2>2, <2>3 DEF Sound
  <2>7. Sound(a) /\ st.known \subseteq a.known BY <2>1, <2>5, <2>6 DEF Sound
  <2> QED BY <2>7 DEF a
<1> QED BY <1>1, <1>2

(* Quads are added as they are given, unless they are of the whole dataset. *)
LEMMA AddIs ==
  ASSUME NamesAreNames, NEW st, Sound(st), NEW Q, \A q \in Q : q = <<q[1], q[2]>>,
         AllGraphs \notin GraphsIn(Q)
  PROVE  /\ AddQuads(st, Q).quads = st.quads \cup Q
         /\ AddQuads(st, Q).known = st.known \cup GraphsIn(Q)
         /\ AddQuads(st, Q).raised = st.raised
<1> DEFINE a == AddQuads(st, Q)
<1>1. /\ a.quads = st.quads \cup {<<Identifier(q[1]), q[2]>> : q \in Q}
      /\ a.known = st.known \cup {Identifier(g) : g \in GraphsIn(Q)}
      /\ a.raised = st.raised
  BY DEF AddQuads, Sound
<1>2. \A g \in GraphsIn(Q) : Identifier(g) = g BY IdentifierIs
<1>3. \A q \in Q : <<Identifier(q[1]), q[2]>> = q BY <1>2 DEF GraphsIn
<1> HIDE DEF a
<1>4. {<<Identifier(q[1]), q[2]>> : q \in Q} = Q BY <1>3
<1>5. {Identifier(g) : g \in GraphsIn(Q)} = GraphsIn(Q) BY <1>2
<1>6. a.quads = st.quads \cup Q /\ a.known = st.known \cup GraphsIn(Q) BY <1>1, <1>4, <1>5
<1> QED BY <1>1, <1>6 DEF a

(* Of triples that are given with their graphs, exactly those quads go.    *)
LEMMA RemoveIs ==
  ASSUME NEW st, Sound(st), NEW Q
  PROVE  /\ Sound(RemoveQuads(st, Q))
         /\ RemoveQuads(st, Q).known = st.known
         /\ RemoveQuads(st, Q).quads = {q \in st.quads : q \notin Q /\ <<AllGraphs, q[2]>> \notin Q}
         /\ AllGraphs \notin GraphsIn(Q) => RemoveQuads(st, Q).quads = st.quads \ Q
<1> DEFINE r == RemoveQuads(st, Q)
<1>1. /\ DOMAIN r = {"quads", "known", "raised"} /\ r.known = st.known
      /\ r.quads = {q \in st.quads : q \notin Q /\ <<AllGraphs, q[2]>> \notin Q}
  BY DEF RemoveQuads, Sound
<1>2. \A x : <<AllGraphs, x>> \in Q => AllGraphs \in GraphsIn(Q) BY DEF GraphsIn
<1> HIDE DEF r
<1>3. Contexts(r) = Contexts(st) BY <1>1 DEF Contexts
<1>4. Sound(r) BY <1>1, <1>3 DEF Sound
<1>5. AllGraphs \notin GraphsIn(Q) => r.quads = st.quads \ Q BY <1>1, <1>2
<1> QED BY <1>1, <1>4, <1>5 DEF r

(* Emptying graphs takes all quads if the whole dataset is one of them.    *)
LEMMA ClearIs ==
  ASSUME NEW st, Sound(st), NEW G
  PROVE  /\ Sound(ClearGraphs(st, G))
         /\ ClearGraphs(st, G).known = st.known /\ ClearGraphs(st, G).raised = st.raised
         /\ ClearGraphs(st, G).quads = {q \in st.quads : AllGraphs \notin G /\ q[1] \notin G}
<1> DEFINE r == ClearGraphs(st, G)
<1>1. /\ DOMAIN r = {"quads", "known", "raised"} /\ r.known = st.known /\ r.raised = st.raised
      /\ r.quads = {q \in st.quads : AllGraphs \notin G /\ q[1] \notin G}
  BY DEF ClearGraphs, Sound
<1> HIDE DEF r
<1>2. Contexts(r) = Contexts(st) BY <1>1 DEF Contexts
<1>3. Sound(r) BY <1>1, <1>2 DEF Sound
<1> QED BY <1>1, <1>3 DEF r

(* Removing graphs takes their quads and their names, and never all.       *)
LEMMA StoreRemoveIs ==
  ASSUME NEW st, Sound(st), NEW G
  PROVE  LET r == StoreRemoveGraphs(st, G)
             names == {Identifier(g) : g \in G}
         IN /\ Sound(r) /\ r.known = st.known \ names /\ r.raised = st.raised
            /\ r.quads = {q \in st.quads : q[1] \notin names}
<1> DEFINE r == StoreRemoveGraphs(st, G)
           names == {Identifier(g) : g \in G}
<1>1. /\ DOMAIN r = {"quads", "known", "raised"} /\ r.known = st.known \ names
      /\ r.raised = st.raised /\ r.quads = {q \in st.quads : q[1] \notin names}
  BY DEF StoreRemoveGraphs, Sound
<1> HIDE DEF r, names
<1>2. \A g : g \in Contexts(st) /\ g \notin names => g \in Contexts(r) BY <1>1 DEF Contexts
<1>3. Contexts(r) \subseteq Contexts(st) BY <1>1 DEF Contexts
<1>4. Sound(r) BY <1>1, <1>2, <1>3 DEF Sound
<1> QED BY <1>1, <1>4 DEF r, names

(* Listing the graphs changes neither the quads nor what is listed.        *)
LEMMA ListingIs ==
  ASSUME NEW st, Sound(st), NEW g
  PROVE  /\ Sound(Listing(st, g)) /\ Contexts(Listing(st, g)) = Contexts(st)
         /\ Listing(st, g).quads = st.quads /\ Listing(st, g).known \subseteq Contexts(st)
<1> DEFINE r == Listing(st, g)
<1>1. CASE g \in {"NAMED", "ALL"}
  <2>1. /\ DOMAIN r = {"quads", "known", "raised"} /\ r.known = Contexts(st)
        /\ r.quads = st.quads
    BY <1>1 DEF Listing, Sound
  <2> HIDE DEF r
  <2>2. Contexts(r) = Contexts(st) BY <2>1 DEF Contexts
  <2>3. Sound(r) BY <2>1, <2>2 DEF Sound
  <2> QED BY <2>1, <2>2, <2>3 DEF r
<1>2. CASE g \notin {"NAMED", "ALL"}
  <2>1. r = st BY <1>2 DEF Listing
  <2> QED BY <2>1 DEF Contexts
<1> QED BY <1>1, <1>2

(* Copying a graph into another keeps to graphs that are listed.           *)
LEMMA CopySound ==
  ASSUME NamesAreNames, NEW st, Sound(st), NEW dst, NEW src
  PROVE  Sound(CopyInto(st, dst, src))
<1>1. CASE Iterable(st, src)
  BY <1>1, AddSound DEF CopyInto
<1>2. CASE ~Iterable(st, src)
  <2>1. CopyInto(st, dst, src) = [st EXCEPT !.raised = TRUE] BY <1>2 DEF CopyInto, Raised
  <2> QED BY <2>1 DEF Sound, Contexts
<1> QED BY <1>1, <1>2

-----------------------------------------------------------------------------
Once(list) == \A i, j \in 1..Len(list) : i # j => list[i] # list[j]

(* Any order of a finite set is a list of its elements, each of them once. *)
LEMMA OrderIs ==
  ASSUME NEW F, IsFiniteSet(F), NEW order \in SetToSeqs(F)
  PROVE  order \in Seq(F) /\ ToSet(order) = F /\ Once(order)
<1> DEFINE n == Cardinality(F)
<1>1. n \in Nat BY FS_CardinalityType
<1>2. order \in [1..n -> F] /\ \A i, j \in 1..n : i # j => order[i] # order[j]
  BY DEF SetToSeqs
<1>3. order \in Injection(1..n, F) BY <1>2 DEF Injection, IsInjective
<1>4. Cardinality(1..n) = n
  <2>1. n \in Int /\ 1 \in Int BY <1>1
  <2>2. Cardinality(1..n) = IF 1 > n THEN 0 ELSE n - 1 + 1 BY <2>1, FS_Interval, Zenon
  <2> QED BY <1>1, <2>2
<1> HIDE DEF n
<1>5. order \in Surjection(1..n, F) BY <1>3, <1>4, FS_Injection DEF n
<1>6. order \in Seq(F) /\ Len(order) = n /\ DOMAIN order = 1..n BY <1>1, <1>2
<1>7. ToSet(order) = F BY <1>2, <1>5, <1>6 DEF ToSet, Surjection
<1> QED BY <1>2, <1>6, <1>7 DEF Once

(* The solutions in any order are the solutions. *)
Reordered(res, order) == [i \in 1..Len(res) |-> res[order[i]]]

(* A list in another order has the same elements.                          *)
LEMMA ReorderedIs ==
  ASSUME NEW U, NEW res \in Seq(U), NEW order \in SetToSeqs(1..Len(res))
  PROVE  Reordered(res, order) \in Seq(U) /\ ToSet(Reordered(res, order)) = ToSet(res)
<1> DEFINE n == Len(res)
           list == Reordered(res, order)
<1>1. n \in Nat /\ n \in Int /\ 1 \in Int /\ DOMAIN res = 1..n /\ \A i \in 1..n : res[i] \in U
  OBVIOUS
<1>2. IsFiniteSet(1..n) /\ Cardinality(1..n) = IF 1 > n THEN 0 ELSE n - 1 + 1
  BY <1>1, FS_Interval, Zenon
<1>3. Cardinality(1..n) = n BY <1>1, <1>2
<1>4. order \in [1..n -> 1..n] BY <1>3 DEF SetToSeqs
<1>5. ToSet(order) = 1..n BY <1>2, OrderIs
<1>6. \A k \in 1..n : \E i \in 1..n : order[i] = k BY <1>4, <1>5 DEF ToSet
<1>7. list = [i \in 1..n |-> res[order[i]]] BY DEF Reordered
<1>8. list \in [1..n -> U] BY <1>1, <1>4, <1>7
<1>9. list \in Seq(U) /\ DOMAIN list = 1..n BY <1>1, <1>8
<1>10. ToSet(list) = {list[i] : i \in 1..n} BY <1>9, Zenon DEF ToSet
<1>11. ToSet(res) = {res[i] : i \in 1..n} BY <1>1, Zenon DEF ToSet
<1>13. \A i \in 1..n : list[i] = res[order[i]] BY <1>7
<1>14. \A i \in 1..n : order[i] \in 1..n BY <1>4
<1> HIDE DEF list, n
<1>12. ToSet(list) = ToSet(res)
  <2>1. ASSUME NEW x \in ToSet(list) PROVE x \in ToSet(res)
    BY <1>10, <1>11, <1>13, <1>14
  <2>2. ASSUME NEW x \in ToSet(res) PROVE x \in ToSet(list)
    <3>1. PICK k \in 1..n : x = res[k] BY <1>11
    <3>2. PICK i \in 1..n : order[i] = k BY <1>6
    <3> QED BY <1>10, <1>13, <3>1, <3>2
  <2> QED BY <2>1, <2>2
<1> QED BY <1>9, <1>12 DEF list

-----------------------------------------------------------------------------
(* What any update leaves is a dataset. *)
LEMMA RoundSound ==
  ASSUME NamesAreNames, NEW st, Sound(st), NEW u, NEW listed, NEW x,
         NEW a \in After(st, u, listed, x)
  PROVE  Sound(a)
<1>1. CASE u.name = "Modify"
  <2> DEFINE g == TemplateGraph(u)
             r == RemoveQuads(st, Filled(u.delete, g, x))
  <2>1. a = AddQuads(r, Filled(u.insert, g, x)) BY <1>1 DEF After, ModifyBy
  <2>2. Sound(r) BY RemoveIs
  <2> HIDE DEF r, g
  <2> QED BY <2>1, <2>2, AddSound
<1>2. CASE u.name # "Modify"
  <2> DEFINE solutions == JoinedFrom(DatasetOf(st), CtxGraph, u, x, listed)
             Q == FilledBy(u, CtxGraph, ToSet(solutions))
  <2>1. a = RemoveQuads(st, Q) \/ a = st BY <1>2 DEF After, DeleteFrom, DeleteBy
  <2> HIDE DEF Q
  <2> QED BY <2>1, RemoveIs
<1> QED BY <1>1, <1>2

(* A loop of any length leaves every quad in a graph that is listed,       *)
LEMMA LoopSound ==
  ASSUME NamesAreNames, NEW st, Sound(st), NEW u, NEW listed, NEW U, NEW order \in Seq(U),
         NEW a \in Loop({st}, u, listed, order)
  PROVE  Sound(a)
<1> DEFINE S == {list \in Seq(U) : \A b \in Loop({st}, u, listed, list) : Sound(b)}
<1>1. <<>> \in S
  <2>1. Loop({st}, u, listed, <<>>) = {st} BY LoopNone
  <2>2. \A b \in Loop({st}, u, listed, <<>>) : Sound(b) BY <2>1
  <2>3. <<>> \in Seq(U) OBVIOUS
  <2> QED BY <2>2, <2>3
<1>2. ASSUME NEW list \in Seq(U), NEW x \in U, list \in S PROVE Append(list, x) \in S
  <2>1. Loop({st}, u, listed, Append(list, x))
          = OneRound(Loop({st}, u, listed, list), u, listed, x)
    BY LoopAppend
  <2>2. ASSUME NEW b \in Loop({st}, u, listed, Append(list, x)) PROVE Sound(b)
    <3>1. PICK c \in Loop({st}, u, listed, list) : b \in After(c, u, listed, x)
      BY <2>1 DEF OneRound
    <3>2. Sound(c) BY <1>2
    <3> QED BY <3>1, <3>2, RoundSound
  <2>3. Append(list, x) \in Seq(U) OBVIOUS
  <2> QED BY <2>2, <2>3
<1> HIDE DEF S
<1>3. Seq(U) \subseteq S BY <1>1, <1>2, EveryList
<1>4. order \in S BY <1>3
<1> QED BY <1>4 DEF S

(* A state after MODIFY is one that its loop leaves, over the solutions in *)
(* some order.                                                             *)
LEMMA ModifyIsLoop ==
  ASSUME NEW u, u.name = "Modify", PatternListed(u), NEW st \in EvalModify(State, u)
  PROVE  LET res == Solved(DatasetOf(State), ModifiedGraph(u), u.where)
         IN \E list \in Seq(ToSet(res)) :
              ToSet(list) = ToSet(res) /\ st \in Loop({State}, u, <<>>, list)
<1> DEFINE res == Solved(DatasetOf(State), ModifiedGraph(u), u.where)
<1>1. res \in Seq(ToSet(res)) BY DEF PatternListed
<1>2. PICK order \in SetToSeqs(1..Len(res)) :
        st \in Loop({State}, u, <<>>, Reordered(res, order))
  BY DEF EvalModify, Reordered
<1> HIDE DEF res
<1>3. /\ Reordered(res, order) \in Seq(ToSet(res))
      /\ ToSet(Reordered(res, order)) = ToSet(res)
  BY <1>1, ReorderedIs
<1> QED BY <1>2, <1>3 DEF res

(* And one after DELETE WHERE that has triples for the default graph is    *)
(* one that its loop leaves, over the first triples in some order.         *)
LEMMA DeleteWhereIsLoop ==
  ASSUME NEW u, u.name = "DeleteWhere", u.triples # <<>>, PatternListed(u),
         NEW st \in EvalDeleteWhere(State, u)
  PROVE  LET first == FirstMatches(DatasetOf(State), CtxGraph, u)
         IN \E order \in Seq(first) :
              /\ ToSet(order) = first /\ Once(order)
              /\ st \in Loop({State}, u, QuadSolutions(DatasetOf(State), u), order)
<1> DEFINE first == FirstMatches(DatasetOf(State), CtxGraph, u)
<1>1. IsFiniteSet(first) BY DEF PatternListed
<1>2. PICK order \in SetToSeqs(first) :
        st \in Loop({State}, u, QuadSolutions(DatasetOf(State), u), order)
  BY DEF EvalDeleteWhere
<1> HIDE DEF first
<1>3. order \in Seq(first) /\ ToSet(order) = first /\ Once(order) BY <1>1, OrderIs
<1> QED BY <1>2, <1>3 DEF first

(* and so does every operation of SPARQL Update.                           *)
LEMMA UpdateSound ==
  ASSUME UpdateAssumption, NEW u \in Update, Sound(State), PatternListed(u),
         NEW st \in EvalUpdate(State, u)
  PROVE  Sound(st)
<1>0. NamesAreNames /\ WellFormedUpdate(u) BY DEF UpdateAssumption
<1> DEFINE src == GraphOrDefault(u.graph[1])
           dst == GraphOrDefault(u.graph[2])
<1>1. CASE u.name = "Clear"
  <2>1. st = ClearGraphs(Listing(State, u.graphiri), GraphAll(State, u.graphiri))
    BY <1>1 DEF EvalUpdate, EvalClear
  <2> QED BY <2>1, ListingIs, ClearIs
<1>2. CASE u.name = "Drop"
  <2>1. st = StoreRemoveGraphs(Listing(State, u.graphiri), GraphAll(State, u.graphiri))
    BY <1>2 DEF EvalUpdate, EvalDrop
  <2> QED BY <2>1, ListingIs, StoreRemoveIs
<1>3. CASE u.name = "Create"
  <2>1. st = [State EXCEPT !.raised = TRUE] BY <1>3 DEF EvalUpdate, EvalCreate, Raised
  <2> QED BY <2>1 DEF Sound, Contexts, State
<1>4. CASE u.name = "Add"
  <2>1. st = IF src = dst THEN State ELSE CopyInto(State, dst, src)
    BY <1>4 DEF EvalUpdate, EvalAdd
  <2> QED BY <1>0, <2>1, CopySound
<1>5. CASE u.name = "Copy"
  <2>1. st = IF src = dst THEN State ELSE CopyInto(ClearGraphs(State, {dst}), dst, src)
    BY <1>5 DEF EvalUpdate, EvalCopy
  <2>2. Sound(ClearGraphs(State, {dst})) BY ClearIs
  <2> QED BY <1>0, <2>1, <2>2, CopySound
<1>6. CASE u.name = "Move"
  <2> DEFINE copied == CopyInto(ClearGraphs(State, {dst}), dst, src)
  <2>1. st = IF src = dst THEN State
             ELSE IF copied.raised THEN copied ELSE StoreRemoveGraphs(copied, {src})
    BY <1>6 DEF EvalUpdate, EvalMove
  <2>2. Sound(ClearGraphs(State, {dst})) BY ClearIs
  <2>3. Sound(copied) BY <1>0, <2>2, CopySound
  <2> HIDE DEF copied
  <2>4. Sound(StoreRemoveGraphs(copied, {src})) BY <2>3, StoreRemoveIs
  <2> QED BY <2>1, <2>3, <2>4
<1>7. CASE u.name = "InsertData"
  <2>1. st = AddQuads(State, GivenFor(u, CtxGraph)) BY <1>7 DEF EvalUpdate, EvalInsertData
  <2> QED BY <1>0, <2>1, AddSound
<1>8. CASE u.name = "DeleteData"
  <2>1. st = RemoveQuads(State, GivenFor(u, CtxGraph)) BY <1>8 DEF EvalUpdate, EvalDeleteData
  <2> QED BY <2>1, RemoveIs
<1>9. CASE u.name = "DeleteWhere"
  <2>1. st \in EvalDeleteWhere(State, u) BY <1>9 DEF EvalUpdate
  <2>2. CASE u.triples = <<>>
    <3>1. st = DeleteBy(State, u, Joined(QuadSolutions(DatasetOf(State), u)))
      BY <2>1, <2>2 DEF EvalDeleteWhere
    <3> QED BY <3>1, RemoveIs DEF DeleteBy
  <2>3. CASE u.triples # <<>>
    BY <1>0, <1>9, <2>1, <2>3, DeleteWhereIsLoop, LoopSound
  <2> QED BY <2>2, <2>3
<1>10. CASE u.name = "Modify"
  <2>1. st \in EvalModify(State, u) BY <1>10 DEF EvalUpdate
  <2> QED BY <1>0, <1>10, <2>1, ModifyIsLoop, LoopSound
<1> QED BY <1>0, <1>1, <1>2, <1>3, <1>4, <1>5, <1>6, <1>7, <1>8, <1>9, <1>10 DEF WellFormedUpdate

(* The state is what a step makes of it.                                   *)
LEMMA BecomeSound ==
  ASSUME NEW st, Sound(st), Become(st)
  PROVE  Sound(State)'
<1>1. quads' = st.quads /\ known' = st.known /\ kind' = kind BY DEF Become
<1>2. Contexts(State)' = Contexts(st) BY <1>1 DEF Contexts, State
<1>3. /\ (DOMAIN State)' = {"quads", "known", "raised"} /\ State.quads' = st.quads
  BY <1>1 DEF State
<1> QED BY <1>2, <1>3 DEF Sound

(* Sound is inductive, if the solutions can be listed.                     *)
LEMMA StepSound ==
  ASSUME UpdateAssumption, Sound(State), PatternsListed, [UpdateNext]_updateVars
  PROVE  Sound(State)'
<1>0. NamesAreNames BY DEF UpdateAssumption
<1>1. ASSUME NEW u \in Update, RunUpdate(u) PROVE Sound(State)'
  <2>1. PICK st \in EvalUpdate(State, u) : Become(st) BY <1>1 DEF RunUpdate
  <2>2. PatternListed(u) BY DEF PatternsListed
  <2> QED BY <2>1, <2>2, UpdateSound, BecomeSound
<1>2. ASSUME NEW g, NEW t, AddTriple(g, t) PROVE Sound(State)'
  BY <1>0, <1>2, AddSound, BecomeSound DEF AddTriple
<1>3. ASSUME NEW g \in Named \cup {Default}, AddGraph(g) PROVE Sound(State)'
  <2> DEFINE st == [State EXCEPT !.known = @ \cup {g}]
  <2>1. /\ DOMAIN st = {"quads", "known", "raised"} /\ st.quads = State.quads
        /\ st.known = State.known \cup {g}
    BY DEF State
  <2>2. Become(st) BY <1>3 DEF AddGraph
  <2>3. g # AllGraphs BY <1>0 DEF NamesAreNames
  <2> HIDE DEF st
  <2>4. Contexts(st) = Contexts(State) \cup {g} BY <2>1 DEF Contexts
  <2>5. Sound(st) BY <2>1, <2>3, <2>4 DEF Sound
  <2> QED BY <2>2, <2>5, BecomeSound
<1>4. ASSUME NEW g \in Named \cup {Default}, RemoveGraph(g) PROVE Sound(State)'
  <2> DEFINE r == StoreRemoveGraphs(State, {g})
             st == [r EXCEPT !.known = @ \cup ({g} \cap {Default})]
  <2>1. Sound(r) BY StoreRemoveIs
  <2>2. Become(st) BY <1>4 DEF RemoveGraph
  <2> HIDE DEF r
  <2>3. /\ DOMAIN st = {"quads", "known", "raised"} /\ st.quads = r.quads
        /\ st.known = r.known \cup ({g} \cap {Default})
    BY <2>1 DEF Sound
  <2>4. Default # AllGraphs BY <1>0 DEF NamesAreNames
  <2> HIDE DEF st
  <2>5. Contexts(st) = Contexts(r) \cup ({g} \cap {Default}) BY <2>3 DEF Contexts
  <2>6. Sound(st) BY <2>1, <2>3, <2>4, <2>5 DEF Sound
  <2> QED BY <2>2, <2>6, BecomeSound
<1>5. ASSUME NEW g, NEW foreign, LookUpIn(g, foreign) PROVE Sound(State)'
  BY <1>0, <1>5, AddSound, BecomeSound DEF LookUpIn
<1>6. CASE UNCHANGED updateVars BY <1>6 DEF updateVars, Sound, State, Contexts
<1> QED BY <1>1, <1>2, <1>3, <1>4, <1>5, <1>6 DEF UpdateNext

(* It holds of the empty dataset.                                          *)
LEMMA InitSound ==
  ASSUME NamesAreNames, UpdateInit
  PROVE  Sound(State)
<1>1. AllGraphs \notin {Default} BY DEF NamesAreNames
<1> QED BY <1>1 DEF UpdateInit, Sound, State, Contexts

(* Whatever the updates and however their patterns are evaluated, as long  *)
(* as the solutions can be listed: a graph that holds a triple is listed.  *)
THEOREM GraphsAlwaysListed == UpdateSpec /\ []PatternsListed => []GraphsListed
<1>1. UpdateInit => Sound(State) BY InitSound, UpdatesAreWellFormed DEF UpdateAssumption
<1>2. Sound(State) /\ PatternsListed /\ [UpdateNext]_updateVars => Sound(State)'
  BY StepSound, UpdatesAreWellFormed
<1>3. Sound(State) => GraphsListed BY DEF Sound, GraphsListed, State
<1> QED BY <1>1, <1>2, <1>3, PTL DEF UpdateSpec

-----------------------------------------------------------------------------
(* What solutions fill in, in the graphs of the template. *)
LEMMA ToSetAppend ==
  ASSUME NEW T, NEW s \in Seq(T), NEW t
  PROVE  ToSet(Append(s, t)) = ToSet(s) \cup {t}
<1>1. s \in Seq(T \cup {t}) /\ t \in T \cup {t} OBVIOUS
<1>2. /\ Len(s) \in Nat /\ DOMAIN s = 1..Len(s)
      /\ Append(s, t) \in Seq(T \cup {t}) /\ Len(Append(s, t)) = Len(s) + 1
      /\ \A i \in 1..Len(s) : Append(s, t)[i] = s[i]
      /\ Append(s, t)[Len(s) + 1] = t
  BY <1>1
<1>3. DOMAIN Append(s, t) = 1..(Len(s) + 1) BY <1>2
<1>4. \A x : x \in ToSet(Append(s, t)) <=> x \in ToSet(s) \/ x = t BY <1>2, <1>3 DEF ToSet
<1> QED BY <1>4

(* A solution fills in triples for the graph given and the template's.     *)
LEMMA FilledIs ==
  ASSUME NEW templates, NEW g, NEW c
  PROVE  /\ \A q \in Filled(templates, g, c) : q = <<q[1], q[2]>>
         /\ \A h \in GraphsIn(Filled(templates, g, c)) :
              h = g \/ \E k \in DOMAIN templates.quads : h = TermIn(c, k)
<1>1. \A q \in Filled(templates, g, c) :
        /\ q = <<q[1], q[2]>>
        /\ q[1] = g \/ \E k \in DOMAIN templates.quads : q[1] = TermIn(c, k)
  BY DEF Filled
<1> QED BY <1>1 DEF GraphsIn

(* One solution more fills in its own triples,                             *)
LEMMA FilledByMore ==
  ASSUME NEW templates, NEW g, NEW C, NEW c
  PROVE  FilledBy(templates, g, C \cup {c}) = FilledBy(templates, g, C) \cup Filled(templates, g, c)
BY DEF FilledBy

(* a triple is that of some solution,                                      *)
LEMMA FilledByOf ==
  ASSUME NEW templates, NEW g, NEW C, NEW x
  PROVE  x \in FilledBy(templates, g, C) <=> \E c \in C : x \in Filled(templates, g, c)
BY DEF FilledBy

-----------------------------------------------------------------------------
(* MODIFY.  Of the quads Q the loop has made L, having deleted D0 and      *)
(* inserted I0 of the quads D and I that it deletes and inserts in all.    *)
Between(Q, L, D0, I0, D, I) ==
  /\ L \subseteq Q \cup I0
  /\ Q \ D0 \subseteq L
  /\ I0 \ D \subseteq L
  /\ L \cap D0 \subseteq I

(* The bounds hold on after one solution more,                             *)
LEMMA BetweenGoesOn ==
  ASSUME NEW Q, NEW L, NEW D0, NEW I0, NEW D, NEW I, Between(Q, L, D0, I0, D, I),
         NEW d, d \subseteq D, NEW i, i \subseteq I
  PROVE  Between(Q, (L \ d) \cup i, D0 \cup d, I0 \cup i, D, I)
BY DEF Between

(* and when all have come only what is deleted and inserted is open.       *)
LEMMA BetweenEnds ==
  ASSUME NEW Q, NEW L, NEW D, NEW I, Between(Q, L, D, I, D, I)
  PROVE  SymDiff(L, (Q \ D) \cup I) \subseteq D \cap I
BY DEF Between, SymDiff

(* The templates are for the graph that SPARQL says.                       *)
LEMMA TargetIs ==
  ASSUME UpdateAssumption, NEW u \in Update, u.name = "Modify"
  PROVE  /\ TemplateGraph(u) = Target(u) /\ Target(u) \notin {AllGraphs, Self}
         /\ Definite(u) => ModifiedGraph(u) = Target(u)
<1>1. NamesAreNames /\ WellFormedUpdate(u) BY DEF UpdateAssumption
<1>2. u.with \in Named \cup {""} BY <1>1 DEF WellFormedUpdate
<1>3. /\ Default \notin {AllGraphs, Self} /\ \A g \in Named : g \notin {AllGraphs, Self, ""}
      /\ AllGraphs # ""
  BY <1>1 DEF NamesAreNames
<1>4. Definite(u) => ~sparqlUnion \/ u.with # "" BY DEF Definite, NamesItsGraphs
<1> QED BY <1>2, <1>3, <1>4 DEF TemplateGraph, ModifiedGraph, Target, CtxGraph

(* What a solution deletes goes, then what it inserts comes.               *)
LEMMA ModifyByIs ==
  ASSUME UpdateAssumption, NEW u \in Update, u.name = "Modify", NEW st, Sound(st), NEW c,
         \A h \in DOMAIN u.delete.quads \cup DOMAIN u.insert.quads : TermIn(c, h) # AllGraphs
  PROVE  LET d == Filled(u.delete, Target(u), c)
             i == Filled(u.insert, Target(u), c)
         IN /\ ModifyBy(st, u, c).quads = (st.quads \ d) \cup i
            /\ ModifyBy(st, u, c).known = st.known \cup GraphsIn(i)
            /\ Sound(ModifyBy(st, u, c))
<1> DEFINE d == Filled(u.delete, Target(u), c)
           i == Filled(u.insert, Target(u), c)
           r == RemoveQuads(st, d)
<1>1. NamesAreNames /\ TemplateGraph(u) = Target(u) /\ Target(u) # AllGraphs
  BY TargetIs DEF UpdateAssumption
<1>2. AllGraphs \notin GraphsIn(d) BY <1>1, FilledIs
<1>3. AllGraphs \notin GraphsIn(i) /\ \A q \in i : q = <<q[1], q[2]>> BY <1>1, FilledIs
<1>4. ModifyBy(st, u, c) = AddQuads(r, i) BY <1>1 DEF ModifyBy
<1> HIDE DEF d, i
<1>5. Sound(r) /\ r.known = st.known /\ r.quads = st.quads \ d BY <1>2, RemoveIs
<1> HIDE DEF r
<1>6. /\ AddQuads(r, i).quads = r.quads \cup i
      /\ AddQuads(r, i).known = r.known \cup GraphsIn(i)
  BY <1>1, <1>3, <1>5, AddIs
<1>7. Sound(AddQuads(r, i)) BY <1>1, <1>5, AddSound
<1> QED BY <1>4, <1>5, <1>6, <1>7 DEF d, i

(* After any number of solutions, in any order, the bounds hold.           *)
LEMMA ModifyLoop ==
  ASSUME UpdateAssumption, NEW u \in Update, u.name = "Modify", Sound(State),
         Definite(u), ModifyPattern(u), NEW order \in Seq(ModifySolutions(u)),
         NEW st \in Loop({State}, u, <<>>, order)
  PROVE  LET del(C) == FilledBy(u.delete, Target(u), C)
             ins(C) == FilledBy(u.insert, Target(u), C)
             all == ModifySolutions(u)
         IN /\ Between(quads, st.quads, del(ToSet(order)), ins(ToSet(order)), del(all), ins(all))
            /\ ~sparqlUnion /\ Self \notin known => Self \notin st.known
<1> DEFINE all == ModifySolutions(u)
           del(C) == FilledBy(u.delete, Target(u), C)
           ins(C) == FilledBy(u.insert, Target(u), C)
           Left(b, list) ==
             /\ Sound(b)
             /\ Between(quads, b.quads, del(ToSet(list)), ins(ToSet(list)), del(all), ins(all))
             /\ ~sparqlUnion /\ Self \notin known => Self \notin b.known
           S == {list \in Seq(all) : \A b \in Loop({State}, u, <<>>, list) : Left(b, list)}
<1>1. <<>> \in S
  <2>1. Loop({State}, u, <<>>, <<>>) = {State} BY LoopNone
  <2>2. ToSet(<<>>) = {} /\ <<>> \in Seq(all) BY DEF ToSet
  <2>3. del({}) = {} /\ ins({}) = {} BY DEF FilledBy
  <2>4. State.quads = quads /\ State.known = known BY DEF State
  <2>5. Between(quads, quads, {}, {}, del(all), ins(all)) BY DEF Between
  <2>6. Left(State, <<>>) BY <2>2, <2>3, <2>4, <2>5, Zenon
  <2> HIDE DEF Left
  <2> QED BY <2>1, <2>2, <2>6
<1>2. ASSUME NEW list \in Seq(all), NEW x \in all, list \in S PROVE Append(list, x) \in S
  <2>1. Loop({State}, u, <<>>, Append(list, x))
          = OneRound(Loop({State}, u, <<>>, list), u, <<>>, x)
    BY LoopAppend
  <2>2. Append(list, x) \in Seq(all) /\ ToSet(Append(list, x)) = ToSet(list) \cup {x}
    <3>1. Append(list, x) \in Seq(all) OBVIOUS
    <3>2. ToSet(Append(list, x)) = ToSet(list) \cup {x} BY ToSetAppend
    <3> QED BY <3>1, <3>2
  <2> DEFINE d == Filled(u.delete, Target(u), x)
             i == Filled(u.insert, Target(u), x)
  <2>3. /\ del(ToSet(list) \cup {x}) = del(ToSet(list)) \cup d
        /\ ins(ToSet(list) \cup {x}) = ins(ToSet(list)) \cup i
    <3>1. ASSUME NEW t, NEW g, NEW C
          PROVE  FilledBy(t, g, C \cup {x}) = FilledBy(t, g, C) \cup Filled(t, g, x)
      BY ONLY FilledByMore
    <3> QED BY ONLY <3>1
  <2>4. d \subseteq del(all) /\ i \subseteq ins(all) BY FilledByOf
  <2>5. \A h \in DOMAIN u.delete.quads \cup DOMAIN u.insert.quads :
          TermIn(x, h) # AllGraphs /\ (TermIn(x, h) = Self => sparqlUnion)
    BY DEF ModifyPattern
  <2>6. ~sparqlUnion => Self \notin GraphsIn(i) BY <2>5, FilledIs, TargetIs
  <2>7. ASSUME NEW b \in Loop({State}, u, <<>>, Append(list, x)) PROVE Left(b, Append(list, x))
    <3>1. PICK a \in Loop({State}, u, <<>>, list) : b \in After(a, u, <<>>, x)
      BY <2>1 DEF OneRound
    <3>2. Left(a, list) BY <1>2
    <3>3. b = ModifyBy(a, u, x) BY <3>1 DEF After
    <3>4. b.quads = (a.quads \ d) \cup i /\ b.known = a.known \cup GraphsIn(i) /\ Sound(b)
      BY <2>5, <3>2, <3>3, ModifyByIs
    <3>5. Between(quads, a.quads, del(ToSet(list)), ins(ToSet(list)), del(all), ins(all))
      BY <3>2
    <3> HIDE DEF d, i, del, ins, all
    <3>7. Between(quads, b.quads, del(ToSet(list)) \cup d, ins(ToSet(list)) \cup i,
                  del(all), ins(all))
    <4>1. Between(quads, (a.quads \ d) \cup i, del(ToSet(list)) \cup d,
                  ins(ToSet(list)) \cup i, del(all), ins(all))
      BY <2>4, <3>5, BetweenGoesOn
    <4> QED BY <3>4, <4>1
    <3>6. ~sparqlUnion /\ Self \notin known => Self \notin b.known BY <2>6, <3>2, <3>4
    <3> QED BY <2>2, <2>3, <3>4, <3>6, <3>7
  <2> HIDE DEF Left
  <2> QED BY <2>2, <2>7
<1> HIDE DEF S, Left
<1>3. Seq(all) \subseteq S BY <1>1, <1>2, EveryList, Zenon
<1>4. Left(st, order) BY <1>3 DEF S
<1> QED BY <1>4 DEF Left

(* So a MODIFY leaves what is defined, but for what one solution deletes   *)
(* and another inserts.                                                    *)
LEMMA ModifyIs ==
  ASSUME UpdateAssumption, NEW u \in Update, u.name = "Modify", Sound(State),
         Definite(u), PatternListed(u), ModifyPattern(u), NEW st \in EvalUpdate(State, u)
  PROVE  /\ SymDiff(st.quads, Defined(Removed(u), Added(u))) \subseteq Removed(u) \cap Added(u)
         /\ ~sparqlUnion /\ Self \notin known => Self \notin st.known
<1> DEFINE res == Solved(DatasetOf(State), ModifiedGraph(u), u.where)
           all == ModifySolutions(u)
<1>1. ModifiedGraph(u) = Target(u) BY TargetIs
<1>2. res \in Seq(all) /\ all \subseteq ToSet(res) BY <1>1 DEF ModifyPattern
<1>3. ToSet(res) \subseteq all BY <1>2 DEF ToSet
<1>4. st \in EvalModify(State, u) BY DEF EvalUpdate
<1>5. PICK list \in Seq(ToSet(res)) :
        ToSet(list) = ToSet(res) /\ st \in Loop({State}, u, <<>>, list)
  BY <1>4, ModifyIsLoop
<1>6. ToSet(list) = all BY <1>2, <1>3, <1>5
<1>7. list \in Seq(all) BY <1>2, <1>3, <1>5
<1>8. /\ Removed(u) = FilledBy(u.delete, Target(u), all)
      /\ Added(u) = FilledBy(u.insert, Target(u), all)
  BY DEF Removed, Added
<1> HIDE DEF res, all
<1>9. /\ Between(quads, st.quads, Removed(u), Added(u), Removed(u), Added(u))
      /\ ~sparqlUnion /\ Self \notin known => Self \notin st.known
  BY <1>5, <1>6, <1>7, <1>8, ModifyLoop DEF all
<1> QED BY <1>9, BetweenEnds DEF Defined

-----------------------------------------------------------------------------
(* DELETE WHERE.  What a first triple leads to when the quads are Q. *)
Leads(u, Q, t) ==
  ToSet(JoinedFrom(DatasetOf([State EXCEPT !.quads = Q]), CtxGraph, u, t,
                   QuadSolutions(DatasetOf(State), u)))
First(u) == FirstMatches(DatasetOf(State), CtxGraph, u)
Matched(u) == FilledBy(u, CtxGraph, WhereSolutions(u, CtxGraph))

(* A round deletes what is matched, or passes over a triple that is gone.  *)
LEMMA DeleteRound ==
  ASSUME NEW u, u.name = "DeleteWhere", NEW st, Sound(st), st.known = known, NEW t,
         NEW a \in After(st, u, QuadSolutions(DatasetOf(State), u), t)
  PROVE  \/ a = RemoveQuads(st, FilledBy(u, CtxGraph, Leads(u, st.quads, t)))
         \/ a = st /\ t \notin TriplesOf(st, CtxGraph)
<1> DEFINE listed == QuadSolutions(DatasetOf(State), u)
           r == [State EXCEPT !.quads = st.quads]
<1>1. r.quads = st.quads /\ r.known = st.known BY DEF State
<1>2. DatasetOf(r) = DatasetOf(st) BY <1>1 DEF DatasetOf, Contexts
<1>3. \/ a = DeleteBy(st, u, JoinedFrom(DatasetOf(st), CtxGraph, u, t, listed))
      \/ a = st /\ t \notin TriplesOf(st, CtxGraph)
  BY DEF After, DeleteFrom
<1> QED BY <1>2, <1>3 DEF DeleteBy, Leads

(* Fewer solutions fill in no other triples.                               *)
LEMMA FilledByPart ==
  ASSUME NEW templates, NEW g, NEW C, NEW D, C \subseteq D
  PROVE  FilledBy(templates, g, C) \subseteq FilledBy(templates, g, D)
BY DEF FilledBy

(* The rounds only delete, and only what is matched. *)
LEMMA WhereLoop ==
  ASSUME NamesAreNames, Sound(State), NEW u, u.name = "DeleteWhere", u.triples # <<>>,
         WherePattern(u), NEW order \in Seq(First(u)),
         NEW st \in Loop({State}, u, QuadSolutions(DatasetOf(State), u), order)
  PROVE  /\ Sound(st) /\ st.known = known /\ st.quads \subseteq quads
         /\ \A q \in quads \ st.quads : q \in Matched(u) \/ <<AllGraphs, q[2]>> \in Matched(u)
<1> DEFINE listed == QuadSolutions(DatasetOf(State), u)
           Left(b) ==
             /\ Sound(b) /\ b.known = known /\ b.quads \subseteq quads
             /\ \A q \in quads \ b.quads : q \in Matched(u) \/ <<AllGraphs, q[2]>> \in Matched(u)
           S == {list \in Seq(First(u)) : \A b \in Loop({State}, u, listed, list) : Left(b)}
<1>1. <<>> \in S
  <2>1. Loop({State}, u, listed, <<>>) = {State} BY LoopNone
  <2>2. State.quads = quads /\ State.known = known /\ <<>> \in Seq(First(u)) BY DEF State
  <2>3. Left(State) BY <2>2
  <2> HIDE DEF Left
  <2> QED BY <2>1, <2>2, <2>3
<1>2. ASSUME NEW list \in Seq(First(u)), NEW t \in First(u), list \in S
      PROVE  Append(list, t) \in S
  <2>1. Loop({State}, u, listed, Append(list, t))
          = OneRound(Loop({State}, u, listed, list), u, listed, t)
    BY LoopAppend
  <2>2. ASSUME NEW b \in Loop({State}, u, listed, Append(list, t)) PROVE Left(b)
    <3>1. PICK a \in Loop({State}, u, listed, list) : b \in After(a, u, listed, t)
      BY <2>1 DEF OneRound
    <3>2. Left(a) BY <1>2
    <3> DEFINE Q == FilledBy(u, CtxGraph, Leads(u, a.quads, t))
    <3>3. b = RemoveQuads(a, Q) \/ b = a BY <3>1, <3>2, DeleteRound
    <3>4. Leads(u, a.quads, t) \subseteq WhereSolutions(u, CtxGraph)
      <4>1. /\ Leads(u, a.quads, t) \subseteq Leads(u, quads, t)
            /\ WhereSolutions(u, CtxGraph) = UNION {Leads(u, quads, x) : x \in First(u)}
        BY <3>2 DEF WherePattern, Leads, First
      <4> QED BY <4>1
    <3>5. Q \subseteq Matched(u) BY <3>4, FilledByPart DEF Matched
    <3> HIDE DEF Q
    <3>6. CASE b = a BY <3>2, <3>6
    <3>7. CASE b = RemoveQuads(a, Q)
      <4>1. /\ Sound(b) /\ b.known = a.known
            /\ b.quads = {q \in a.quads : q \notin Q /\ <<AllGraphs, q[2]>> \notin Q}
        BY <3>2, <3>7, RemoveIs
      <4> QED BY <3>2, <3>5, <4>1
    <3> QED BY <3>3, <3>6, <3>7
  <2>3. Append(list, t) \in Seq(First(u)) OBVIOUS
  <2> HIDE DEF Left
  <2> QED BY <2>2, <2>3
<1> HIDE DEF S, Left
<1>3. Seq(First(u)) \subseteq S BY <1>1, <1>2, EveryList, Zenon
<1>4. Left(st) BY <1>3 DEF S
<1> QED BY <1>4 DEF Left

(* A solution of the pattern fills in no quad of the whole dataset, and    *)
(* its quads only in graphs other than the default one.                    *)
LEMMA MatchedGraphs ==
  ASSUME NamesAreNames, NEW u, WherePattern(u), ~sparqlUnion, NEW C,
         C \subseteq WhereSolutions(u, CtxGraph)
  PROVE  /\ CtxGraph = Default /\ AllGraphs \notin GraphsIn(FilledBy(u, CtxGraph, C))
         /\ \A q \in FilledBy(u, CtxGraph, C) : q[1] = Default =>
              \E c \in C : q[2] \in ToSet(Fill(u.triples, c))
<1>1. CtxGraph = Default /\ Default # AllGraphs BY DEF CtxGraph, NamesAreNames
<1>2. \A c \in C, h \in DOMAIN u.quads : TermIn(c, h) # AllGraphs /\ TermIn(c, h) # Default
  BY DEF WherePattern
<1>3. ASSUME NEW c \in C, NEW q \in Filled(u, CtxGraph, c)
      PROVE  q[1] # AllGraphs /\ (q[1] = Default => q[2] \in ToSet(Fill(u.triples, c)))
  <2>1. \/ q \in {CtxGraph} \X ToSet(Fill(u.triples, c))
        \/ \E h \in DOMAIN u.quads : q \in {TermIn(c, h)} \X ToSet(Fill(u.quads[h], c))
    BY <1>3 DEF Filled
  <2> QED BY <1>1, <1>2, <2>1
<1>4. \A q \in FilledBy(u, CtxGraph, C) : \E c \in C : q \in Filled(u, CtxGraph, c)
  BY FilledByOf
<1> QED BY <1>1, <1>3, <1>4 DEF GraphsIn

(* With two triples: if anything is matched, something has been deleted.   *)
LEMMA WhereDeletes ==
  ASSUME NamesAreNames, Sound(State), NEW u, u.name = "DeleteWhere", u.triples # <<>>,
         WherePattern(u), ~sparqlUnion, NEW order \in Seq(First(u)), ToSet(order) = First(u),
         NEW st \in Loop({State}, u, QuadSolutions(DatasetOf(State), u), order),
         quads \cap Matched(u) # {}
  PROVE  st.quads # quads
<1> DEFINE listed == QuadSolutions(DatasetOf(State), u)
           Hits(t) == quads \cap FilledBy(u, CtxGraph, Leads(u, quads, t)) # {}
           Left(b, list) == (\E t \in ToSet(list) : Hits(t)) => b.quads # quads
           S == {list \in Seq(First(u)) : \A b \in Loop({State}, u, listed, list) : Left(b, list)}
<1>0. /\ WhereSolutions(u, CtxGraph) = UNION {Leads(u, quads, t) : t \in First(u)}
      /\ First(u) \subseteq TriplesOf(State, CtxGraph)
  BY DEF WherePattern, Leads, First
<1>1. <<>> \in S
  <2>1. ToSet(<<>>) = {} /\ <<>> \in Seq(First(u)) BY DEF ToSet
  <2> QED BY <2>1
<1>2. ASSUME NEW list \in Seq(First(u)), NEW t \in First(u), list \in S
      PROVE  Append(list, t) \in S
  <2>1. Loop({State}, u, listed, Append(list, t))
          = OneRound(Loop({State}, u, listed, list), u, listed, t)
    BY LoopAppend
  <2>2. ToSet(Append(list, t)) = ToSet(list) \cup {t} BY ToSetAppend
  <2>3. ASSUME NEW b \in Loop({State}, u, listed, Append(list, t)) PROVE Left(b, Append(list, t))
    <3>1. PICK a \in Loop({State}, u, listed, list) : b \in After(a, u, listed, t)
      BY <2>1 DEF OneRound
    <3>2. Left(a, list) BY <1>2
    <3>3. Sound(a) /\ a.known = known /\ a.quads \subseteq quads BY WhereLoop
    <3> DEFINE Q == FilledBy(u, CtxGraph, Leads(u, a.quads, t))
    <3>4. \/ b = RemoveQuads(a, Q)
          \/ b = a /\ t \notin TriplesOf(a, CtxGraph)
      BY <3>1, <3>3, DeleteRound
    <3>5. b = RemoveQuads(a, Q) =>
            b.quads = {q \in a.quads : q \notin Q /\ <<AllGraphs, q[2]>> \notin Q}
      BY <3>3, RemoveIs
    <3>6. a.quads # quads => b.quads # quads BY <3>3, <3>4, <3>5
    <3>7. a.quads = quads /\ Hits(t) => b.quads # quads
      <4>1. a.quads = quads => TriplesOf(a, CtxGraph) = TriplesOf(State, CtxGraph)
        BY DEF TriplesOf, State
      <4>2. a.quads = quads => b = RemoveQuads(a, Q) BY <1>0, <3>4, <4>1
      <4> QED BY <3>5, <4>2
    <3> QED BY <2>2, <3>2, <3>6, <3>7
  <2>4. Append(list, t) \in Seq(First(u)) OBVIOUS
  <2> HIDE DEF Left
  <2> QED BY <2>3, <2>4
<1> HIDE DEF S, Left
<1>3. Seq(First(u)) \subseteq S BY <1>1, <1>2, EveryList, Zenon
<1>4. Left(st, order) BY <1>3 DEF S
<1>5. \E t \in First(u) : Hits(t)
  <2>1. PICK q \in quads : q \in Matched(u) OBVIOUS
  <2>2. PICK c \in WhereSolutions(u, CtxGraph) : q \in Filled(u, CtxGraph, c)
    BY <2>1, FilledByOf DEF Matched
  <2>3. PICK t \in First(u) : c \in Leads(u, quads, t) BY <1>0, <2>2
  <2>4. q \in FilledBy(u, CtxGraph, Leads(u, quads, t)) BY <2>2, <2>3, FilledByOf
  <2> QED BY <2>1, <2>4
<1> QED BY <1>4, <1>5 DEF Left

(* A list without repetitions has none in its first part.                  *)
LEMMA OnceAppend ==
  ASSUME NEW T, NEW list \in Seq(T), NEW t \in T, Once(Append(list, t))
  PROVE  Once(list) /\ t \notin ToSet(list)
<1> DEFINE n == Len(list)
           longer == Append(list, t)
<1>1. /\ n \in Nat /\ Len(longer) = n + 1 /\ \A i \in 1..n : longer[i] = list[i]
      /\ longer[n + 1] = t /\ DOMAIN list = 1..n
  OBVIOUS
<1>2. \A i, j \in 1..(n + 1) : i # j => longer[i] # longer[j] BY <1>1 DEF Once
<1> HIDE DEF n, longer
<1>3. \A i \in 1..n : i \in 1..(n + 1) /\ i # n + 1 BY <1>1
<1>4. n + 1 \in 1..(n + 1) BY <1>1
<1>5. \A i \in 1..n : list[i] # t BY <1>1, <1>2, <1>3, <1>4, Zenon
<1>6. \A i, j \in 1..n : i # j => list[i] # list[j] BY <1>1, <1>2, <1>3, Zenon
<1>7. Once(list) BY <1>6 DEF Once, n
<1>8. t \notin ToSet(list) BY <1>1, <1>5 DEF ToSet
<1> QED BY <1>7, <1>8

(* With one triple: what is matched has been deleted, since no solution    *)
(* deletes the first triple of another.                                    *)
LEMMA WhereExact ==
  ASSUME NamesAreNames, Sound(State), NEW u, u.name = "DeleteWhere", u.triples # <<>>,
         WherePattern(u), ~sparqlUnion, Len(u.triples) = 1,
         NEW order \in Seq(First(u)), ToSet(order) = First(u), Once(order),
         NEW st \in Loop({State}, u, QuadSolutions(DatasetOf(State), u), order)
  PROVE  st.quads = quads \ Matched(u)
<1> DEFINE listed == QuadSolutions(DatasetOf(State), u)
           Found(T) == UNION {Leads(u, quads, t) : t \in T}
           Left(b, list) == b.quads = quads \ FilledBy(u, CtxGraph, Found(ToSet(list)))
           S == {list \in Seq(First(u)) :
                   Once(list) => \A b \in Loop({State}, u, listed, list) : Left(b, list)}
<1>0. /\ WhereSolutions(u, CtxGraph) = Found(First(u))
      /\ First(u) \subseteq TriplesOf(State, CtxGraph)
      /\ \A t \in First(u) :
           /\ \A Q \in SUBSET quads : Leads(u, Q, t) = Leads(u, quads, t)
           /\ \A c \in Leads(u, quads, t) : ToSet(Fill(u.triples, c)) = {t}
  BY DEF WherePattern, Leads, First
<1>1. <<>> \in S
  <2>1. Loop({State}, u, listed, <<>>) = {State} BY LoopNone
  <2>2. ToSet(<<>>) = {} /\ <<>> \in Seq(First(u)) /\ State.quads = quads BY DEF ToSet, State
  <2>3. FilledBy(u, CtxGraph, Found({})) = {} BY DEF FilledBy
  <2>4. Left(State, <<>>) BY <2>2, <2>3
  <2> HIDE DEF Left
  <2> QED BY <2>1, <2>2, <2>4
<1>2. ASSUME NEW list \in Seq(First(u)), NEW t \in First(u), list \in S
      PROVE  Append(list, t) \in S
  <2>0. Append(list, t) \in Seq(First(u)) OBVIOUS
  <2> SUFFICES ASSUME Once(Append(list, t)),
                      NEW b \in Loop({State}, u, listed, Append(list, t))
               PROVE  Left(b, Append(list, t))
    <3> HIDE DEF Left
    <3> QED BY <2>0
  <2>1. Loop({State}, u, listed, Append(list, t))
          = OneRound(Loop({State}, u, listed, list), u, listed, t)
    BY LoopAppend
  <2>2. ToSet(Append(list, t)) = ToSet(list) \cup {t} BY ToSetAppend
  <2>3. Once(list) /\ t \notin ToSet(list) BY OnceAppend
  <2>4. PICK a \in Loop({State}, u, listed, list) : b \in After(a, u, listed, t)
    BY <2>1 DEF OneRound
  <2>5. a.quads = quads \ FilledBy(u, CtxGraph, Found(ToSet(list))) BY <1>2, <2>3
  <2>6. Sound(a) /\ a.known = known /\ a.quads \subseteq quads BY WhereLoop
  <2>7. Leads(u, a.quads, t) = Leads(u, quads, t) BY <1>0, <2>6
  <2>8. \A T : T \subseteq First(u) => Found(T) \subseteq WhereSolutions(u, CtxGraph) BY <1>0
  <2>9. ToSet(list) \subseteq First(u) BY DEF ToSet
  <2> DEFINE Q == FilledBy(u, CtxGraph, Leads(u, quads, t))
  <2>10. CtxGraph = Default /\ AllGraphs \notin GraphsIn(Q)
    <3>1. Leads(u, quads, t) \subseteq WhereSolutions(u, CtxGraph) BY <1>0
    <3> QED BY <3>1, MatchedGraphs
  <2>11. t \in TriplesOf(a, CtxGraph)
    <3>1. PICK q \in quads : q[1] = Default /\ q[2] = t
      <4>1. Default # AllGraphs BY DEF NamesAreNames
      <4> QED BY <1>0, <2>10, <4>1 DEF TriplesOf, State
    <3>2. q \notin FilledBy(u, CtxGraph, Found(ToSet(list)))
      <4>1. SUFFICES ASSUME q \in FilledBy(u, CtxGraph, Found(ToSet(list))) PROVE FALSE
        OBVIOUS
      <4>2. PICK c \in Found(ToSet(list)) : q[2] \in ToSet(Fill(u.triples, c))
        BY <2>8, <2>9, <3>1, <4>1, MatchedGraphs
      <4>3. PICK x \in ToSet(list) : c \in Leads(u, quads, x) BY <4>2
      <4>4. q[2] = x BY <1>0, <2>9, <4>2, <4>3
      <4> QED BY <2>3, <3>1, <4>3, <4>4
    <3>3. q \in a.quads BY <2>5, <3>2
    <3> QED BY <2>10, <3>1, <3>3 DEF TriplesOf
  <2>12. b = RemoveQuads(a, Q) BY <2>4, <2>6, <2>7, <2>11, DeleteRound
  <2>13. b.quads = a.quads \ Q BY <2>6, <2>10, <2>12, RemoveIs
  <2>14. FilledBy(u, CtxGraph, Found(ToSet(list) \cup {t}))
           = FilledBy(u, CtxGraph, Found(ToSet(list))) \cup Q
    <3>1. Found(ToSet(list) \cup {t}) = Found(ToSet(list)) \cup Leads(u, quads, t) OBVIOUS
    <3> QED BY <3>1 DEF FilledBy
  <2> HIDE DEF Q, Found
  <2> QED BY <2>2, <2>5, <2>13, <2>14
<1> HIDE DEF S, Left
<1>3. Seq(First(u)) \subseteq S BY <1>1, <1>2, EveryList, Zenon
<1>4. Left(st, order) BY <1>3 DEF S
<1> QED BY <1>0, <1>4 DEF Left, Matched

-----------------------------------------------------------------------------
(* The other updates. *)
Clean(st) == ~sparqlUnion => Self \notin st.known

(* What CLEAR and DROP take away, in the graphs that are listed. *)
LEMMA ClearedIs ==
  ASSUME UpdateAssumption, NEW u \in Update, u.name \in {"Clear", "Drop"}, Definite(u),
         Sound(State), Clean(State)
  PROVE  LET G == GraphAll(State, u.graphiri)
         IN /\ {q \in quads : AllGraphs \notin G /\ q[1] \notin G} = quads \ Removed(u)
            /\ {q \in quads : q[1] \notin {Identifier(g) : g \in G}} = quads \ Removed(u)
<1> DEFINE G == GraphAll(State, u.graphiri)
           C == Contexts(State)
<1>0. NamesAreNames /\ u.graphiri \in Named \cup GraphRefs
  BY DEF UpdateAssumption, WellFormedUpdate
<1>1. /\ \A q \in quads : q[1] \in C
      /\ AllGraphs \notin C /\ Default # AllGraphs /\ Self # AllGraphs /\ Default # Self
  BY <1>0 DEF Sound, State, NamesAreNames
<1>2. \A g : g # AllGraphs => Identifier(g) = g BY DEF Identifier
<1>3. Identifier(AllGraphs) = Self BY DEF Identifier
<1>4. \A g \in Named : g # AllGraphs /\ g \notin GraphRefs BY <1>0 DEF NamesAreNames
<1>5. /\ u.graphiri = "ALL" => Removed(u) = quads
      /\ u.graphiri = "NAMED" => Removed(u) = {q \in quads : q[1] # Default}
      /\ u.graphiri \notin {"ALL", "NAMED"} =>
           Removed(u) = {q \in quads : q[1] = NameOf(u.graphiri)}
  BY DEF Removed, Of
<1>6. CASE u.graphiri = "ALL"
  <2>1. G = {Listed(c) : c \in C} BY <1>6 DEF GraphAll
  <2>2. \A c \in C : (c = Self => Listed(c) = AllGraphs) /\ (c # Self => Listed(c) = c)
    BY DEF Listed
  <2>3. \A c \in C : Identifier(Listed(c)) = c BY <1>1, <1>2, <1>3, <2>2
  <2>4. \A q \in quads : AllGraphs \in G \/ q[1] \in G BY <1>1, <2>1, <2>2
  <2>5. \A q \in quads : q[1] \in {Identifier(g) : g \in G} BY <1>1, <2>1, <2>3
  <2> HIDE DEF G
  <2> QED BY <1>5, <1>6, <2>4, <2>5 DEF G
<1>7. CASE u.graphiri = "NAMED"
  <2>1. ~sparqlUnion BY <1>7 DEF Definite, NamesItsGraphs
  <2>2. CtxGraph = Default /\ Identifier(CtxGraph) = Default BY <1>1, <1>2, <2>1 DEF CtxGraph
  <2>3. Self \notin C BY <1>1, <2>1 DEF Clean, Contexts, State
  <2>4. \A c \in C : Listed(c) = c BY <2>3 DEF Listed
  <2>5. G = {Listed(c) : c \in C \ {Default}} BY <1>7, <2>2 DEF GraphAll
  <2>6. G = C \ {Default} BY <2>4, <2>5
  <2>7. {Identifier(g) : g \in G} = C \ {Default} BY <1>1, <1>2, <2>6
  <2> HIDE DEF G, C
  <2> QED BY <1>1, <1>5, <1>7, <2>6, <2>7 DEF G
<1>8. CASE u.graphiri \notin {"ALL", "NAMED"}
  <2>1. G = {NameOf(u.graphiri)} /\ NameOf(u.graphiri) # AllGraphs
    <3>1. CASE u.graphiri = "DEFAULT"
      <4>1. CtxGraph = Default BY <3>1 DEF Definite, NamesItsGraphs, CtxGraph
      <4> QED BY <1>1, <3>1, <4>1 DEF GraphAll, NameOf
    <3>2. CASE u.graphiri # "DEFAULT"
      <4>1. u.graphiri \in Named BY <1>0, <1>8, <3>2 DEF GraphRefs
      <4> QED BY <1>4, <1>8, <3>2, <4>1 DEF GraphAll, NameOf
    <3> QED BY <3>1, <3>2
  <2> HIDE DEF G
  <2>2. {Identifier(g) : g \in G} = {NameOf(u.graphiri)} BY <1>2, <2>1
  <2> QED BY <1>5, <1>8, <2>1, <2>2 DEF G
<1> QED BY <1>6, <1>7, <1>8

Copies(Q, from, to) == {<<to, q[2]>> : q \in {x \in Q : x[1] = from}}

(* The destination gets what the source has, triple by triple.             *)
LEMMA CopyIs ==
  ASSUME NEW st, NEW dst, NEW src, NamesAreNames, Sound(st), dst # AllGraphs, src # AllGraphs
  PROVE  LET c == CopyInto(st, dst, src)
         IN /\ Sound(c) /\ c.raised = st.raised /\ c.known \subseteq st.known \cup {dst}
            /\ c.quads = st.quads \cup Copies(st.quads, src, dst)
<1> DEFINE T == {q[2] : q \in {x \in st.quads : x[1] = src}}
           Q == {dst} \X T
           c == CopyInto(st, dst, src)
<1>1. TriplesOf(st, src) = T BY DEF TriplesOf
<1>2. c = AddQuads(st, Q) BY <1>1 DEF CopyInto, Iterable
<1>3. \A q \in Q : q = <<q[1], q[2]>> /\ q[1] = dst OBVIOUS
<1>4. GraphsIn(Q) \subseteq {dst} BY <1>3 DEF GraphsIn
<1>5. Q = Copies(st.quads, src, dst) BY DEF Copies
<1> HIDE DEF Q, c
<1>6. /\ c.quads = st.quads \cup Q /\ c.known = st.known \cup GraphsIn(Q)
      /\ c.raised = st.raised
  BY <1>2, <1>3, <1>4, AddIs
<1>7. Sound(c) BY <1>2, AddSound
<1> QED BY <1>4, <1>5, <1>6, <1>7 DEF c

(* An update that is definite names graphs as the definition does.         *)
LEMMA CopyNames ==
  ASSUME UpdateAssumption, NEW u \in Update, u.name \in {"Add", "Copy", "Move"}, Definite(u)
  PROVE  LET src == NameOf(u.graph[1])
             dst == NameOf(u.graph[2])
         IN /\ GraphOrDefault(u.graph[1]) = src /\ GraphOrDefault(u.graph[2]) = dst
            /\ src \notin {AllGraphs, Self} /\ dst \notin {AllGraphs, Self}
            /\ src = dst <=> u.graph[1] = u.graph[2]
<1>1. /\ NamesAreNames
      /\ u.graph \in Seq(Named \cup {"DEFAULT"}) /\ Len(u.graph) = 2
  BY DEF UpdateAssumption, WellFormedUpdate
<1>2. /\ Default \notin {AllGraphs, Self} /\ "DEFAULT" # Default
      /\ \A g \in Named : g \notin {AllGraphs, Self, Default, "DEFAULT"}
  BY <1>1 DEF NamesAreNames, GraphRefs
<1>3. /\ u.graph[1] \in Named \cup {"DEFAULT"} /\ u.graph[2] \in Named \cup {"DEFAULT"}
      /\ u.graph[1] \in ToSet(u.graph) /\ u.graph[2] \in ToSet(u.graph)
  BY <1>1 DEF ToSet
<1>4. ~sparqlUnion \/ "DEFAULT" \notin ToSet(u.graph) BY DEF Definite, NamesItsGraphs
<1>5. /\ GraphOrDefault(u.graph[1]) = NameOf(u.graph[1])
      /\ GraphOrDefault(u.graph[2]) = NameOf(u.graph[2])
  BY <1>3, <1>4 DEF GraphOrDefault, NameOf, CtxGraph
<1> QED BY <1>2, <1>3, <1>5 DEF NameOf

(* Data that is given is for the graphs that the definition says.          *)
LEMMA GivenIs ==
  ASSUME UpdateAssumption, NEW u \in Update, u.name \in {"InsertData", "DeleteData"}, Definite(u)
  PROVE  LET Q == GivenFor(u, Default)
         IN /\ GivenFor(u, CtxGraph) = Q
            /\ \A q \in Q : q = <<q[1], q[2]>>
            /\ AllGraphs \notin GraphsIn(Q) /\ Self \notin GraphsIn(Q)
<1>1. NamesAreNames /\ DOMAIN u.quads \subseteq Named
  BY DEF UpdateAssumption, WellFormedUpdate
<1>2. /\ Default \notin {AllGraphs, Self} /\ \A g \in Named : g \notin {AllGraphs, Self}
  BY <1>1 DEF NamesAreNames
<1>3. CtxGraph = Default \/ ToSet(u.triples) = {}
  <2>1. sparqlUnion => u.triples = <<>> BY DEF Definite, NamesItsGraphs
  <2>2. ToSet(<<>>) = {} BY DEF ToSet
  <2> QED BY <2>1, <2>2 DEF CtxGraph
<1>4. GivenFor(u, CtxGraph) = GivenFor(u, Default) BY <1>3 DEF GivenFor
<1>5. \A q \in GivenFor(u, Default) :
        q = <<q[1], q[2]>> /\ (q[1] = Default \/ q[1] \in DOMAIN u.quads)
  BY DEF GivenFor
<1>6. \A q \in GivenFor(u, Default) : q[1] \notin {AllGraphs, Self} BY <1>1, <1>2, <1>5
<1> QED BY <1>4, <1>5, <1>6 DEF GraphsIn

(* What leaves exactly what is defined leaves what it should.              *)
LEMMA ExactIsAsDefined ==
  ASSUME NEW u, u.name \notin {"DeleteWhere", "Modify"}, NEW left, NEW D, NEW A,
         left = Defined(D, A)
  PROVE  LeftAsDefined(u, left, D, A, Defined(D, A))
BY DEF LeftAsDefined, SymDiff

(* DELETE and INSERT with a pattern leave what is defined.                 *)
LEMMA ModifyAsDefined ==
  ASSUME UpdateAssumption, NEW u \in Update, u.name = "Modify", Definite(u),
         Sound(State), Clean(State), PatternsAsDefined, NEW st \in EvalUpdate(State, u)
  PROVE  /\ LeftAsDefined(u, st.quads, Removed(u), Added(u), Defined(Removed(u), Added(u)))
         /\ Clean(st)
<1>1. PatternListed(u) /\ ModifyPattern(u) BY DEF PatternsAsDefined, PatternsListed
<1>2. State.known = known BY DEF State
<1>3. /\ SymDiff(st.quads, Defined(Removed(u), Added(u))) \subseteq Removed(u) \cap Added(u)
      /\ ~sparqlUnion /\ Self \notin known => Self \notin st.known
  BY <1>1, ModifyIs
<1> QED BY <1>2, <1>3 DEF LeftAsDefined, Clean

(* DELETE WHERE, also when the default graph is the union of the others.   *)
LEMMA DeletesOnlyMatched ==
  ASSUME UpdateAssumption, NEW u \in Update, u.name = "DeleteWhere",
         Sound(State), PatternsAsDefined, NEW st \in EvalUpdate(State, u)
  PROVE  /\ \A q \in quads \ st.quads : q \in Matched(u) \/ <<AllGraphs, q[2]>> \in Matched(u)
         /\ st.quads \subseteq quads /\ st.known = known
<1>1. PatternListed(u) /\ WherePattern(u) BY DEF PatternsAsDefined, PatternsListed
<1>2. NamesAreNames BY DEF UpdateAssumption
<1>3. st \in EvalDeleteWhere(State, u) BY DEF EvalUpdate
<1>4. CASE u.triples = <<>>
  <2> DEFINE all == Joined(QuadSolutions(DatasetOf(State), u))
  <2>1. st = RemoveQuads(State, FilledBy(u, CtxGraph, ToSet(all)))
    BY <1>3, <1>4 DEF EvalDeleteWhere, DeleteBy
  <2>2. ToSet(all) = WhereSolutions(u, CtxGraph) BY <1>1, <1>4 DEF WherePattern
  <2>3. st = RemoveQuads(State, Matched(u)) BY <2>1, <2>2 DEF Matched
  <2>4. /\ st.known = known
        /\ st.quads = {q \in quads : q \notin Matched(u) /\ <<AllGraphs, q[2]>> \notin Matched(u)}
    <3>1. State.quads = quads /\ State.known = known BY DEF State
    <3> QED BY <2>3, <3>1, RemoveIs
  <2> QED BY <2>4
<1>5. CASE u.triples # <<>>
  <2>1. \E order \in Seq(First(u)) :
          st \in Loop({State}, u, QuadSolutions(DatasetOf(State), u), order)
    BY <1>1, <1>3, <1>5, DeleteWhereIsLoop DEF First
  <2> QED BY <1>1, <1>2, <1>5, <2>1, WhereLoop
<1> QED BY <1>4, <1>5

(* DELETE WHERE leaves what is defined.                                    *)
LEMMA DeleteWhereAsDefined ==
  ASSUME UpdateAssumption, NEW u \in Update, u.name = "DeleteWhere", Definite(u),
         Sound(State), PatternsAsDefined, NEW st \in EvalUpdate(State, u)
  PROVE  LeftAsDefined(u, st.quads, Removed(u), Added(u), Defined(Removed(u), Added(u)))
<1>1. PatternListed(u) /\ WherePattern(u) BY DEF PatternsAsDefined, PatternsListed
<1>2. /\ NamesAreNames /\ Default # AllGraphs
      /\ DOMAIN u.quads \subseteq Named /\ u.triples \in Seq(ToSet(u.triples))
  BY DEF UpdateAssumption, WellFormedUpdate, NamesAreNames
<1>3. st \in EvalDeleteWhere(State, u) BY DEF EvalUpdate
<1>4. Removed(u) = FilledBy(u, Default, WhereSolutions(u, Default)) /\ Added(u) = {}
  BY DEF Removed, Added
<1>5. Defined(Removed(u), Added(u)) = quads \ Removed(u) BY <1>4 DEF Defined
<1>6. CASE u.triples = <<>>
  <2> DEFINE all == WhereSolutions(u, CtxGraph)
             listed == Joined(QuadSolutions(DatasetOf(State), u))
  <2>1. /\ ToSet(listed) = all /\ all = WhereSolutions(u, Default)
        /\ \A c \in all : Fill(<<>>, c) = <<>>
        /\ \A c \in all, h \in DOMAIN u.quads : TermIn(c, h) # AllGraphs
    BY <1>1, <1>6 DEF WherePattern
  <2>2. ToSet(<<>>) = {} BY DEF ToSet
  <2>3. ASSUME NEW c \in all, NEW g
        PROVE  /\ Filled(u, g, c) = Filled(u, Default, c)
               /\ \A q \in Filled(u, g, c) : q[1] # AllGraphs
    <3>1. ToSet(Fill(u.triples, c)) = {} BY <1>6, <2>1, <2>2
    <3> QED BY <2>1, <3>1 DEF Filled
  <2>4. FilledBy(u, CtxGraph, all) = FilledBy(u, Default, all) BY <2>3 DEF FilledBy
  <2>5. FilledBy(u, CtxGraph, ToSet(listed)) = Removed(u) BY <1>4, <2>1, <2>4
  <2>6. st = RemoveQuads(State, Removed(u)) BY <1>3, <1>6, <2>5 DEF EvalDeleteWhere, DeleteBy
  <2>7. AllGraphs \notin GraphsIn(Removed(u))
    <3>1. \A q \in Removed(u) : q[1] # AllGraphs BY <1>4, <2>1, <2>3, FilledByOf
    <3> QED BY <3>1 DEF GraphsIn
  <2>8. st.quads = quads \ Removed(u)
    <3>1. State.quads = quads BY DEF State
    <3> QED BY <2>6, <2>7, <3>1, RemoveIs
  <2>9. ~(Len(u.triples) > 1) BY <1>6
  <2> QED BY <1>5, <2>8, <2>9 DEF LeftAsDefined, SymDiff
<1>7. CASE u.triples # <<>>
  <2>1. ~sparqlUnion /\ CtxGraph = Default BY <1>7 DEF Definite, NamesItsGraphs, CtxGraph
  <2>2. Removed(u) = Matched(u) BY <1>4, <2>1 DEF Matched
  <2>3. PICK order \in Seq(First(u)) :
          /\ ToSet(order) = First(u) /\ Once(order)
          /\ st \in Loop({State}, u, QuadSolutions(DatasetOf(State), u), order)
    BY <1>1, <1>3, <1>7, DeleteWhereIsLoop DEF First
  <2>4. Len(u.triples) \in Nat /\ Len(u.triples) # 0 BY <1>2, <1>7
  <2>5. CASE Len(u.triples) = 1
    <3>1. st.quads = quads \ Matched(u) BY <1>1, <1>2, <1>7, <2>1, <2>3, <2>5, WhereExact
    <3> QED BY <1>5, <2>2, <2>5, <3>1 DEF LeftAsDefined, SymDiff
  <2>6. CASE Len(u.triples) > 1
    <3>1. /\ st.quads \subseteq quads
          /\ \A q \in quads \ st.quads : q \in Matched(u) \/ <<AllGraphs, q[2]>> \in Matched(u)
      BY <1>1, <1>2, <1>7, <2>3, WhereLoop
    <3>2. AllGraphs \notin GraphsIn(Matched(u)) BY <1>1, <1>2, <2>1, MatchedGraphs DEF Matched
    <3>3. \A x : <<AllGraphs, x>> \notin Matched(u) BY <3>2 DEF GraphsIn
    <3>4. quads \ Matched(u) \subseteq st.quads BY <3>1, <3>3
    <3>5. quads \ Matched(u) # quads => st.quads # quads
      BY <1>1, <1>2, <1>7, <2>1, <2>3, WhereDeletes
    <3> QED BY <1>5, <2>2, <2>6, <3>1, <3>4, <3>5 DEF LeftAsDefined
  <2>7. Len(u.triples) = 1 \/ Len(u.triples) > 1
    <3>1. \A n \in Nat : n # 0 => n = 1 \/ n > 1 OBVIOUS
    <3> QED BY <2>4, <3>1, Zenon
  <2> QED BY <2>5, <2>6, <2>7
<1> QED BY <1>6, <1>7

(* Every update leaves what is defined; one case for each operation.       *)
LEMMA UpdateAsDefined ==
  ASSUME UpdateAssumption, NEW u \in Update, Definite(u), Sound(State), Clean(State),
         PatternsAsDefined, NEW st \in EvalUpdate(State, u)
  PROVE  /\ LeftAsDefined(u, st.quads, Removed(u), Added(u), Defined(Removed(u), Added(u)))
         /\ Clean(st)
<1> DEFINE Q == Defined(Removed(u), Added(u))
           src == NameOf(u.graph[1])
           dst == NameOf(u.graph[2])
           same == u.graph[1] = u.graph[2]
           copies == Copies(quads, src, dst)
           emptied == ClearGraphs(State, {dst})
<1>0. /\ NamesAreNames /\ WellFormedUpdate(u) /\ Default # Self
      /\ State.quads = quads /\ State.known = known /\ State.raised = FALSE
  BY DEF UpdateAssumption, NamesAreNames, State
<1>1. Clean(State) => (~sparqlUnion => Self \notin Contexts(State))
  BY <1>0 DEF Clean, Contexts
<1>2. SUFFICES ASSUME u.name \notin {"DeleteWhere", "Modify"} PROVE st.quads = Q /\ Clean(st)
  <2>1. CASE u.name = "Modify" BY <2>1, ModifyAsDefined
  <2>2. CASE u.name = "DeleteWhere"
    <3>1. st.known = known BY <2>2, DeletesOnlyMatched
    <3> QED BY <1>0, <2>2, <3>1, DeleteWhereAsDefined DEF Clean
  <2>3. CASE u.name \notin {"DeleteWhere", "Modify"} BY <1>2, <2>3, ExactIsAsDefined
  <2> QED BY <2>1, <2>2, <2>3
<1>3. CASE u.name = "Clear"
  <2> DEFINE l == Listing(State, u.graphiri)
             G == GraphAll(State, u.graphiri)
  <2>1. st = ClearGraphs(l, G) BY <1>3 DEF EvalUpdate, EvalClear
  <2>2. Sound(l) /\ l.quads = quads /\ l.known \subseteq Contexts(State) BY <1>0, ListingIs
  <2> HIDE DEF l, G
  <2>3. st.known = l.known /\ st.quads = {q \in quads : AllGraphs \notin G /\ q[1] \notin G}
    BY <2>1, <2>2, ClearIs
  <2>4. {q \in quads : AllGraphs \notin G /\ q[1] \notin G} = quads \ Removed(u)
    BY <1>3, ClearedIs DEF G
  <2>5. Added(u) = {} BY <1>3 DEF Added
  <2> QED BY <1>1, <2>2, <2>3, <2>4, <2>5 DEF Defined, Clean
<1>4. CASE u.name = "Drop"
  <2> DEFINE l == Listing(State, u.graphiri)
             G == GraphAll(State, u.graphiri)
             names == {Identifier(g) : g \in G}
  <2>1. st = StoreRemoveGraphs(l, G) BY <1>4 DEF EvalUpdate, EvalDrop
  <2>2. Sound(l) /\ l.quads = quads /\ l.known \subseteq Contexts(State) BY <1>0, ListingIs
  <2> HIDE DEF l, G
  <2>3. st.known = l.known \ names /\ st.quads = {q \in quads : q[1] \notin names}
    BY <2>1, <2>2, StoreRemoveIs
  <2>4. {q \in quads : q[1] \notin names} = quads \ Removed(u)
    BY <1>4, ClearedIs DEF G
  <2>5. Added(u) = {} BY <1>4 DEF Added
  <2> QED BY <1>1, <2>2, <2>3, <2>4, <2>5 DEF Defined, Clean
<1>5. CASE u.name = "Create"
  <2>1. st = [State EXCEPT !.raised = TRUE] BY <1>5 DEF EvalUpdate, EvalCreate, Raised
  <2>2. st.quads = quads /\ st.known = known BY <2>1 DEF State
  <2>3. Removed(u) = {} /\ Added(u) = {} BY <1>5 DEF Removed, Added
  <2> QED BY <1>0, <2>2, <2>3 DEF Defined, Clean
<1>6. CASE u.name = "InsertData"
  <2> DEFINE G == GivenFor(u, Default)
  <2>1. st = AddQuads(State, GivenFor(u, CtxGraph)) BY <1>6 DEF EvalUpdate, EvalInsertData
  <2>2. /\ GivenFor(u, CtxGraph) = G /\ \A q \in G : q = <<q[1], q[2]>>
        /\ AllGraphs \notin GraphsIn(G) /\ Self \notin GraphsIn(G)
    BY <1>6, GivenIs
  <2> HIDE DEF G
  <2>3. st.quads = quads \cup G /\ st.known = known \cup GraphsIn(G)
    BY <1>0, <2>1, <2>2, AddIs
  <2>4. Removed(u) = {} /\ Added(u) = G BY <1>6 DEF Removed, Added, G
  <2> QED BY <1>0, <2>2, <2>3, <2>4 DEF Defined, Clean
<1>7. CASE u.name = "DeleteData"
  <2> DEFINE G == GivenFor(u, Default)
  <2>1. st = RemoveQuads(State, GivenFor(u, CtxGraph)) BY <1>7 DEF EvalUpdate, EvalDeleteData
  <2>2. GivenFor(u, CtxGraph) = G /\ AllGraphs \notin GraphsIn(G) BY <1>7, GivenIs
  <2> HIDE DEF G
  <2>3. st.quads = quads \ G /\ st.known = known BY <1>0, <2>1, <2>2, RemoveIs
  <2>4. Removed(u) = G /\ Added(u) = {} BY <1>7 DEF Removed, Added, G
  <2> QED BY <1>0, <2>3, <2>4 DEF Defined, Clean
<1>8. ASSUME u.name \in {"Add", "Copy", "Move"}
      PROVE  /\ GraphOrDefault(u.graph[1]) = src /\ GraphOrDefault(u.graph[2]) = dst
             /\ src \notin {AllGraphs, Self} /\ dst \notin {AllGraphs, Self} /\ (src = dst <=> same)
             /\ Added(u) = IF same THEN {} ELSE copies
  <2>1. Added(u) = IF same THEN {} ELSE copies BY <1>8 DEF Added, Renamed, Of, Copies
  <2> QED BY <1>8, <2>1, CopyNames
<1>9. ASSUME dst # AllGraphs
      PROVE  /\ Sound(emptied) /\ emptied.known = known /\ emptied.raised = FALSE
             /\ emptied.quads = {q \in quads : q[1] # dst}
  BY <1>0, <1>9, ClearIs
<1>10. CASE u.name = "Add"
  <2>1. st = IF src = dst THEN State ELSE CopyInto(State, dst, src)
    BY <1>8, <1>10 DEF EvalUpdate, EvalAdd
  <2>2. Removed(u) = {} BY <1>10 DEF Removed
  <2>3. CASE same BY <1>0, <1>8, <1>10, <2>1, <2>2, <2>3 DEF Defined
  <2>4. CASE ~same
    <3>1. st = CopyInto(State, dst, src) BY <1>8, <1>10, <2>1, <2>4
    <3>2. st.quads = quads \cup copies /\ st.known \subseteq known \cup {dst}
      <4>1. dst # AllGraphs /\ src # AllGraphs BY <1>8, <1>10
      <4> HIDE DEF src, dst
      <4>2. CopyInto(State, dst, src).known \subseteq State.known \cup {dst}
        BY <1>0, <4>1, CopyIs
      <4>3. CopyInto(State, dst, src).quads = State.quads \cup Copies(State.quads, src, dst)
        BY <1>0, <4>1, CopyIs
      <4> QED BY <1>0, <3>1, <4>2, <4>3
    <3> QED BY <1>0, <1>8, <1>10, <2>2, <2>4, <3>2 DEF Defined, Clean
  <2> QED BY <2>3, <2>4
<1>11. ASSUME u.name \in {"Copy", "Move"}, ~same
       PROVE  LET c == CopyInto(emptied, dst, src)
              IN /\ Sound(c) /\ c.raised = FALSE /\ c.known \subseteq known \cup {dst}
                 /\ c.quads = {q \in quads : q[1] # dst} \cup copies
  <2>1. Copies(emptied.quads, src, dst) = copies BY <1>8, <1>9, <1>11 DEF Copies
  <2>2. dst # AllGraphs /\ src # AllGraphs BY <1>8, <1>11
  <2>3. Sound(emptied) BY <1>9, <2>2
  <2>4. /\ emptied.known = known /\ emptied.raised = FALSE
        /\ emptied.quads = {q \in quads : q[1] # dst}
    BY <1>9, <2>2
  <2> DEFINE c == CopyInto(emptied, dst, src)
  <2> HIDE DEF emptied, src, dst
  <2>5. Sound(c) /\ c.raised = emptied.raised BY <1>0, <2>2, <2>3, CopyIs
  <2>6. c.known \subseteq emptied.known \cup {dst} BY <1>0, <2>2, <2>3, CopyIs
  <2>7. c.quads = emptied.quads \cup Copies(emptied.quads, src, dst)
    BY <1>0, <2>2, <2>3, CopyIs
  <2> HIDE DEF copies, c
  <2>8. /\ Sound(c) /\ c.raised = FALSE /\ c.known \subseteq known \cup {dst}
        /\ c.quads = {q \in quads : q[1] # dst} \cup copies
    BY <2>1, <2>4, <2>5, <2>6, <2>7
  <2> QED BY <2>8 DEF c
<1>12. CASE u.name = "Copy"
  <2>1. st = IF src = dst THEN State ELSE CopyInto(emptied, dst, src)
    BY <1>8, <1>12 DEF EvalUpdate, EvalCopy
  <2>2. Removed(u) = IF same THEN {} ELSE {q \in quads : q[1] = dst}
    BY <1>12 DEF Removed, Of
  <2> HIDE DEF emptied, copies
  <2>3. CASE same BY <1>0, <1>8, <1>12, <2>1, <2>2, <2>3 DEF Defined
  <2>4. CASE ~same
    <3>1. st.quads = {q \in quads : q[1] # dst} \cup copies /\ st.known \subseteq known \cup {dst}
      BY <1>8, <1>11, <1>12, <2>1, <2>4
    <3> QED BY <1>0, <1>8, <1>12, <2>2, <2>4, <3>1 DEF Defined, Clean
  <2> QED BY <2>3, <2>4
<1>13. CASE u.name = "Move"
  <2> DEFINE c == CopyInto(emptied, dst, src)
  <2>1. st = IF src = dst THEN State
             ELSE IF c.raised THEN c ELSE StoreRemoveGraphs(c, {src})
    BY <1>8, <1>13 DEF EvalUpdate, EvalMove
  <2>2. Removed(u) = IF same THEN {} ELSE {q \in quads : q[1] = dst \/ q[1] = src}
    BY <1>13 DEF Removed, Of
  <2>3. CASE same BY <1>0, <1>8, <1>13, <2>1, <2>2, <2>3 DEF Defined
  <2>4. CASE ~same
    <3>1. /\ Sound(c) /\ c.raised = FALSE /\ c.known \subseteq known \cup {dst}
          /\ c.quads = {q \in quads : q[1] # dst} \cup copies
      BY <1>11, <1>13, <2>4
    <3> HIDE DEF c
    <3>2. st = StoreRemoveGraphs(c, {src}) BY <1>8, <1>13, <2>1, <2>4, <3>1
    <3>3. {Identifier(g) : g \in {src}} = {src} BY <1>8, <1>13 DEF Identifier
    <3>4. st.quads = {q \in c.quads : q[1] # src} /\ st.known = c.known \ {src}
      BY <3>1, <3>2, <3>3, StoreRemoveIs
    <3>5. \A q \in copies : q[1] = dst BY DEF Copies
    <3> HIDE DEF copies
    <3>6. st.quads = {q \in quads : q[1] # dst /\ q[1] # src} \cup copies
      BY <1>8, <1>13, <2>4, <3>1, <3>4, <3>5
    <3> QED BY <1>0, <1>8, <1>13, <2>2, <2>4, <3>1, <3>4, <3>6 DEF Defined, Clean
  <2> QED BY <2>3, <2>4
<1> QED BY <1>0, <1>2, <1>3, <1>4, <1>5, <1>6, <1>7, <1>10, <1>12, <1>13 DEF WellFormedUpdate

-----------------------------------------------------------------------------
(* A dataset whose default graph has no union lists no graph of its own    *)
(* name. *)
LEMMA StepClean ==
  ASSUME UpdateAssumption, Sound(State), Clean(State), PatternsAsDefined,
         [UpdateNext]_updateVars
  PROVE  Clean(State)'
<1>0. NamesAreNames /\ State.known = known BY DEF UpdateAssumption, State
<1>1. /\ \A g \in Named \cup {Default} : g \notin {Self, AllGraphs} BY <1>0 DEF NamesAreNames
<1>2. ASSUME NEW st, Clean(st), Become(st) PROVE Clean(State)'
  BY <1>2 DEF Become, Clean, State
<1>3. SUFFICES ASSUME ~sparqlUnion, ~UNCHANGED updateVars PROVE Clean(State)'
  <2>1. CASE UNCHANGED updateVars BY <2>1 DEF updateVars, Clean, State
  <2>2. CASE sparqlUnion /\ ~UNCHANGED updateVars
    <3>1. UpdateNext BY <2>2
    <3>2. UNCHANGED sparqlUnion
      BY <3>1 DEF UpdateNext, RunUpdate, AddTriple, AddGraph, RemoveGraph, LookUpIn, Become
    <3> QED BY <2>2, <3>2 DEF Clean
  <2> QED BY <1>3, <2>1, <2>2
<1>4. ASSUME NEW u \in Update, RunUpdate(u) PROVE Clean(State)'
  <2>1. PICK st \in EvalUpdate(State, u) : Become(st) BY <1>4 DEF RunUpdate
  <2>2. Definite(u) BY <1>3 DEF Definite
  <2>3. Clean(st) BY <2>2, UpdateAsDefined
  <2> QED BY <1>2, <2>1, <2>3
<1>5. ASSUME NEW Q, \A q \in Q : q = <<q[1], q[2]>>,
             \A g \in GraphsIn(Q) : g \notin {Self, AllGraphs}
      PROVE  Clean(AddQuads(State, Q))
  BY <1>0, <1>5, AddIs DEF Clean
<1>6. ASSUME NEW g \in Named \cup {Default}, NEW t, AddTriple(g, t) PROVE Clean(State)'
  <2> DEFINE Q == {<<g, t>>}
  <2>1. Clean(AddQuads(State, Q)) BY <1>1, <1>5 DEF GraphsIn
  <2> QED BY <1>2, <1>6, <2>1 DEF AddTriple
<1>7. ASSUME NEW g \in Named \cup {Default}, AddGraph(g) PROVE Clean(State)'
  <2> DEFINE st == [State EXCEPT !.known = @ \cup {g}]
  <2>1. st.known = known \cup {g} BY DEF State
  <2>2. Clean(st) BY <1>0, <1>1, <2>1 DEF Clean
  <2> QED BY <1>2, <1>7, <2>2 DEF AddGraph
<1>8. ASSUME NEW g \in Named \cup {Default}, RemoveGraph(g) PROVE Clean(State)'
  <2> DEFINE r == StoreRemoveGraphs(State, {g})
             st == [r EXCEPT !.known = @ \cup ({g} \cap {Default})]
  <2>1. Sound(r) /\ r.known \subseteq known BY <1>0, StoreRemoveIs
  <2>2. Become(st) BY <1>8 DEF RemoveGraph
  <2> HIDE DEF r
  <2>3. st.known = r.known \cup ({g} \cap {Default}) BY <2>1 DEF Sound
  <2>4. Clean(st) BY <1>0, <1>1, <2>1, <2>3 DEF Clean
  <2> QED BY <1>2, <2>2, <2>4
<1>9. ASSUME NEW g \in Named, NEW foreign, LookUpIn(g, foreign) PROVE Clean(State)'
  <2> DEFINE Q == {g} \X foreign
  <2>1. Clean(AddQuads(State, Q)) BY <1>1, <1>5 DEF GraphsIn
  <2> QED BY <1>2, <1>9, <2>1 DEF LookUpIn
<1> QED BY <1>3, <1>4, <1>6, <1>7, <1>8, <1>9 DEF UpdateNext

(* So the property holds in every state that is Sound and Clean.           *)
LEMMA AllAsDefined ==
  ASSUME UpdateAssumption, Sound(State), Clean(State), PatternsAsDefined
  PROVE  UpdatesAsDefined
<1>1. \A u \in {v \in Update : Definite(v)} :
        AllLeftAsDefined(u, EvalUpdate(State, u), Removed(u), Added(u))
  BY UpdateAsDefined DEF AllLeftAsDefined
<1>2. ASSUME NEW u \in Update, u.name = "DeleteWhere" PROVE DeletesOnlyMatches(u, CtxGraph)
  BY <1>2, DeletesOnlyMatched DEF DeletesOnlyMatches, DeletesMatches, Matched
<1> QED BY <1>1, <1>2 DEF UpdatesAsDefined

(* Whatever the updates, the graphs and the order of the solutions: as     *)
(* long as the patterns have the solutions that SPARQL defines, an update  *)
(* leaves what its definition says, as far as UpdatesAsDefined says it.    *)
THEOREM UpdatesAlwaysAsDefined == UpdateSpec /\ []PatternsAsDefined => []UpdatesAsDefined
<1>1. UpdateInit => Sound(State) /\ Clean(State)
  BY InitSound, UpdatesAreWellFormed DEF UpdateAssumption, UpdateInit, Clean, State
<1>2. Sound(State) /\ Clean(State) /\ PatternsAsDefined /\ [UpdateNext]_updateVars
        => (Sound(State) /\ Clean(State))'
  BY StepSound, StepClean, UpdatesAreWellFormed DEF PatternsAsDefined
<1>3. Sound(State) /\ Clean(State) /\ PatternsAsDefined => UpdatesAsDefined
  BY AllAsDefined, UpdatesAreWellFormed
<1> QED BY <1>1, <1>2, <1>3, PTL DEF UpdateSpec

=============================================================================
