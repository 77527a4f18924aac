--------------------------- MODULE MemoryReaders ---------------------------
(***************************************************************************)
(* Memory.triples is a generator: between two of the triples it yields the *)
(* caller may add to and remove from the store it walks (a SPARQL update,  *)
(* a rule, a loop that deletes what it visits).  The generator copies the  *)
(* keys of a dictionary before it walks them, and looks at a triple again, *)
(* in __triple_has_context, when its turn comes.                           *)
(*                                                                         *)
(* One call of next() runs without interruption up to the next yield, so   *)
(* it is one step.  The body of a generator starts with its first next():  *)
(* Start is that call, Resume every later one.  The order in which a       *)
(* dictionary or a set lists its keys is left open.                        *)
(***************************************************************************)
EXTENDS MemoryStore

CONSTANT Readers    \* generators that may be running

ASSUME PatternsAreTriples == \A pat \in Pattern : pat = <<pat[1], pat[2], pat[3]>>

VARIABLES
  known,      \* the triples ever indexed: the inner dictionaries stay, empty
  cursor,     \* cursor[r]: where reader r stands
  history     \* history[r]: what r yielded and what the store held meanwhile

readerVars == <<known, cursor, history>>

-----------------------------------------------------------------------------
(* Which index a pattern walks, by the position of its first key, and the  *)
(* position of the key the outer loop runs over.  The patterns not in      *)
(* TwoLevel need no outer loop.                                            *)
Lead(pat) == IF pat[1] # Any THEN 1 ELSE IF pat[2] # Any THEN 2 ELSE 3
Outer(pat) == IF Lead(pat) = 3 THEN 1 ELSE Lead(pat) + 1
TwoLevel(pat) == pat # All /\ pat[Outer(pat)] = Any

(* The keys of the outer dictionary: keys are never deleted from it. *)
Groups(pat) == {t[Outer(pat)] : t \in {u \in known : u[Lead(pat)] = pat[Lead(pat)]}}

(* list(...keys()) of the inner dictionary of one outer key. *)
Inner(pat, g) == {t \in IndexFor(pat) : Matches(t, pat) /\ t[Outer(pat)] = g}

(* A walk that has read the first dictionary and looked at nothing yet. *)
Walk(pat, k) ==
  [pat |-> pat, key |-> k,
   inner |-> IF pat = All
             THEN IF k \in DOMAIN contextTriples THEN contextTriples[k] ELSE {}
             ELSE {t \in IndexFor(pat) : Matches(t, pat) /\ ~TwoLevel(pat)},
   groups |-> IF TwoLevel(pat) THEN Groups(pat) ELSE {}]

NoWalk == [pat |-> All, key |-> None, inner |-> {}, groups |-> {}]

(* A walk that trusts what it read when it opened the dictionary. *)
PassesUnchecked(t, w) == TRUE

(* The check a candidate meets when its turn comes; the dump of a whole    *)
(* context yields its copy unchecked.                                      *)
Passes(t, w) == w.pat = All \/ HasContext(t, w.key)

Failing(T, w) == {t \in T : ~Passes(t, w)}
Barren(w) == {g \in w.groups : Failing(Inner(w.pat, g), w) = Inner(w.pat, g)}

(* A yield from a dictionary, given its keys: the triple, and the walk     *)
(* once some of the candidates that fail the check have been passed too.   *)
YieldsFrom(w, inner) ==
  {<<t, [w EXCEPT !.inner = inner \ (skipped \cup {t})]>> :
     t \in inner \ Failing(inner, w), skipped \in SUBSET Failing(inner, w)}

(* The walk w at the outer key g, past some keys with nothing to yield. *)
MovedTo(w, g) == {[w EXCEPT !.groups = @ \ (passed \cup {g})] : passed \in SUBSET Barren(w)}

(* The triples next() may yield, each with where the walk then stands: one *)
(* from the dictionary being walked, or one from a later dictionary once   *)
(* this one has nothing to yield.                                          *)
Yields(w) ==
  IF Failing(w.inner, w) # w.inner
  THEN YieldsFrom(w, w.inner)
  ELSE UNION {UNION {YieldsFrom(v, Inner(w.pat, g)) : v \in MovedTo(w, g)} : g \in w.groups}

(* A walk that ends at the first dictionary with nothing to yield. *)
ExhaustedEarly(w) ==
  /\ Failing(w.inner, w) = w.inner
  /\ w.groups # {} => Barren(w) # {}

Exhausted(w) == Failing(w.inner, w) = w.inner /\ Barren(w) = w.groups

-----------------------------------------------------------------------------
(* The triples a caller asking for what w asks for may expect now. *)
Expected(w) == {t \in spo : Matches(t, w.pat) /\ HasContext(t, w.key)}

NoHistory == [yielded |-> {}, stored |-> {}, held |-> {}, stable |-> {}]

ReadersInit ==
  /\ Init
  /\ known = {}
  /\ cursor = [r \in Readers |-> [state |-> "created", walk |-> NoWalk]]
  /\ history = [r \in Readers |-> NoHistory]

(* One next() of reader r, which stood at w and has the history h. *)
Advance(r, w, h) ==
  /\ \/ \E y \in Yields(w) :
          /\ cursor' = [cursor EXCEPT ![r] = [state |-> "open", walk |-> y[2]]]
          /\ history' = [history EXCEPT ![r] = [h EXCEPT !.yielded = @ \cup {y[1]}]]
     \/ /\ Exhausted(w)
        /\ cursor' = [cursor EXCEPT ![r] = [state |-> "done", walk |-> [w EXCEPT !.inner = {}, !.groups = {}]]]
        /\ history' = [history EXCEPT ![r] = h]
  /\ UNCHANGED <<vars, known>>

Start(r, pat, k) ==
  LET w == Walk(pat, k)
  IN  /\ cursor[r].state = "created"
      /\ Advance(r, w, [NoHistory EXCEPT !.stored = spo, !.held = Expected(w),
                                         !.stable = Expected(w)])

Resume(r) == cursor[r].state = "open" /\ Advance(r, cursor[r].walk, history[r])

(* An operation of the store while readers are suspended at a yield. *)
Observe(r) ==
  LET w == cursor[r].walk IN
  IF cursor[r].state = "open"
  THEN [history[r] EXCEPT !.stored = @ \cup spo', !.held = @ \cup Expected(w)',
                          !.stable = @ \cap Expected(w)']
  ELSE history[r]

Mutate ==
  /\ Next
  /\ UNCHANGED cursor
  /\ known' = known \cup spo'
  /\ history' = [r \in Readers |-> Observe(r)]

ReadersNext ==
  \/ Mutate
  \/ \E r \in Readers, pat \in Pattern, k \in ContextKey : Start(r, pat, k)
  \/ \E r \in Readers : Resume(r)

ReadersSpec == ReadersInit /\ [][ReadersNext]_<<vars, readerVars>>

-----------------------------------------------------------------------------
(* Properties. *)

(* A generator run to its end has yielded every triple that matched and    *)
(* stayed in the context all the while, whatever was added or removed      *)
(* between its steps.                                                      *)
NothingStableMissed ==
  \A r \in Readers : cursor[r].state = "done" => history[r].stable \subseteq history[r].yielded

(* What a generator yields was in the context it was asked for at some     *)
(* time since it started; if that is one of the default contexts, which a  *)
(* triple that has gone is taken to be in, it was at least in the store.   *)
YieldedWasHeld ==
  \A r \in Readers :
    LET isDefault == defaultContexts # NoDict /\ cursor[r].walk.key \in DOMAIN defaultContexts
    IN  history[r].yielded \subseteq (IF isDefault THEN history[r].stored ELSE history[r].held)
=============================================================================
