-------------------------- MODULE SparqlUpdateStore --------------------------
(***************************************************************************)
(* rdflib.plugins.stores.sparqlstore.SPARQLUpdateStore: a store behind a   *)
(* SPARQL endpoint.  Writes become update requests that wait in a list;    *)
(* commit() sends the whole list as one request.  A request may be         *)
(* rejected, or carried out while its answer is lost: in both cases the    *)
(* list stays and is sent again with the next commit.                      *)
(*                                                                         *)
(* The endpoint is external.  It carries a request out in order and as a   *)
(* whole, and an update is the set of quads it inserts or deletes, with    *)
(* the quads it requires to be there (its WHERE clause).                   *)
(***************************************************************************)
EXTENDS Integers, Sequences

Ext == INSTANCE SequencesExt

CONSTANTS
  Triple, Pattern, Any,
  NamedGraphs,   \* contexts with an identifier of their own
  Default,       \* the default graph of the endpoint
  DefaultName,   \* the graph the endpoint knows as urn:x-rdflib:default
  ContextAware,  \* context_aware
  Faults,        \* may a request be rejected, or its answer be lost?
  Rules,         \* updates with a WHERE clause that callers may send
  Readers,       \* generators triples() has returned
  MaxEdits       \* bound: updates that wait at the same time

ASSUME DefaultsAreUnnamed == {Default, DefaultName} \cap NamedGraphs = {} /\ Default # DefaultName
ASSUME MaxEditsIsPositive == MaxEdits \in Nat \ {0}

Contexts == NamedGraphs \cup {Default}
Quad == Triple \X (Contexts \cup {DefaultName})

ASSUME RulesInsertOrDelete ==
  Rules \subseteq [kind : {"insert", "delete"}, where : SUBSET Quad, quads : SUBSET Quad]

VARIABLES
  config,      \* the attributes autocommit and dirty_reads
  edits,       \* _edits; None and the empty list are one
  endpoint,    \* the quads at the endpoint
  reader,      \* reader[r]: the generator r, and what it is to read
  asked,       \* the quads once all that was written takes effect
  failed,      \* has a request failed since the last one that did not?
  repeated     \* may the endpoint have carried out twice what must run once?

vars == <<config, edits, endpoint, reader, asked, failed, repeated>>

Matches(t, pat) == \A i \in 1..3 : pat[i] = Any \/ pat[i] = t[i]

NoRead == [phase |-> "idle", graph |-> Default, sure |-> FALSE, held |-> {}, result |-> {}]

Init ==
  /\ config \in [autocommit : BOOLEAN, dirtyReads : BOOLEAN]
  /\ edits = <<>>
  /\ endpoint = {}
  /\ reader = [r \in Readers |-> NoRead]
  /\ asked = {} /\ failed = FALSE /\ repeated = FALSE

-----------------------------------------------------------------------------
(* Updates, and what the endpoint makes of them. *)

Insert(Q) == [kind |-> "insert", where |-> {}, quads |-> Q]
Delete(Q) == [kind |-> "delete", where |-> {}, quads |-> Q]
Malformed == [kind |-> "malformed", where |-> {}, quads |-> {}]

Effect(Q, e) ==
  IF ~(e.where \subseteq Q) THEN Q
  ELSE CASE e.kind = "insert" -> Q \cup e.quads
         [] e.kind = "delete" -> Q \ e.quads
         [] OTHER -> Q

(* The endpoint once it has carried out the updates, joined in order. *)
After(Q, queue) == Ext!FoldLeft(Effect, Q, queue)

(* _is_contextual: the graph an update or a query names, if any. *)
Target(c) == IF ContextAware THEN c ELSE Default

InGraph(Q, c) == {q \in Q : q[2] = c}

(* Generators that have not sent their query take note of what is asked.   *)
Noted ==
  [r \in Readers |->
    IF reader[r].phase = "called"
    THEN [reader[r] EXCEPT !.held = @ \cup {InGraph(asked', reader[r].graph)},
                           !.sure = @ /\ ~repeated']
    ELSE reader[r]]

(* The request is carried out and answered. *)
Done(queue, want) ==
  /\ \A i \in DOMAIN queue : queue[i] # Malformed
  /\ endpoint' = After(endpoint, queue)
  /\ edits' = <<>>
  /\ asked' = IF repeated THEN endpoint' ELSE want
  /\ failed' = FALSE /\ repeated' = FALSE

(* A commit() that empties the list before it sends it. *)
FailsForgets(queue, want) ==
  /\ Faults
  /\ edits' = <<>> /\ asked' = want /\ failed' = TRUE
  /\ UNCHANGED <<endpoint, repeated>>

(* The request is rejected, or carried out and the answer lost; commit()   *)
(* raises before it empties the list.                                      *)
Fails(queue, want) ==
  /\ Faults
  /\ edits' = queue /\ asked' = want /\ failed' = TRUE
  /\ \/ UNCHANGED <<endpoint, repeated>>
     \/ /\ \A i \in DOMAIN queue : queue[i] # Malformed
        /\ endpoint' = After(endpoint, queue)
        /\ repeated' = (repeated \/ \E i \in DOMAIN queue : queue[i].where # {})

(* commit() of a list that is not empty. *)
Send(queue, want) == queue # <<>> /\ (Done(queue, want) \/ Fails(queue, want))

(* What add, addN, remove and update do with the update they have made. *)
Write(e) ==
  LET queue == Append(edits, e)
      want == Effect(asked, e)
  IN  /\ Len(edits) < MaxEdits
      /\ \/ config.autocommit /\ Send(queue, want)
         \/ /\ ~config.autocommit
            /\ edits' = queue /\ asked' = want
            /\ UNCHANGED <<endpoint, failed, repeated>>
      /\ UNCHANGED config
      /\ reader' = Noted

Add(t, c) == Write(Insert({<<t, Target(c)>>}))

(* addN names the graph of every quad, also the default graph, which add() *)
(* and remove() do not name.  Its updates, one for each graph, enter the   *)
(* list together and stay together: they are one insertion.                *)
AddN(Q) ==
  /\ Q # {}
  /\ Write(Insert({<<q[1], IF q[2] = Default THEN DefaultName ELSE q[2]>> : q \in Q}))

Remove(pat, c) ==
  Write(Delete({q \in Quad : q[2] = Target(c) /\ Matches(q[1], pat)}))

(* update() with a WHERE clause, or with a text the endpoint rejects. *)
Update == (\E e \in Rules : Write(e)) \/ Write(Malformed)

(* CREATE GRAPH changes no quad; DROP GRAPH and DROP DEFAULT. *)
AddGraph(c) == ContextAware /\ c \in NamedGraphs /\ Write(Insert({}))
RemoveGraph(c) == ContextAware /\ Write(Delete(Triple \X {c}))

Commit ==
  /\ Send(edits, asked)
  /\ UNCHANGED config
  /\ reader' = Noted

Rollback ==
  /\ edits' = <<>>
  /\ asked' = endpoint
  /\ failed' = FALSE /\ repeated' = FALSE
  /\ UNCHANGED <<config, endpoint>>
  /\ reader' = Noted

-----------------------------------------------------------------------------
(* Reads. *)

(* A read that does not commit what waits. *)
PreparedDirty == UNCHANGED <<edits, endpoint, asked, failed, repeated>>

(* A read commits first, unless writes have or the caller does not want    *)
(* it; when that fails the read does not take place, and the step is a     *)
(* Commit that fails.                                                      *)
Prepared ==
  IF config.autocommit \/ config.dirtyReads \/ edits = <<>>
  THEN UNCHANGED <<edits, endpoint, asked, failed, repeated>>
  ELSE Done(edits, asked)

(* A read is to see what was written, unless the caller wants it dirty or  *)
(* a write that failed waits for another write to send it.                 *)
Called(c) ==
  [phase |-> "called", graph |-> Target(c),
   sure |-> ~config.dirtyReads /\ (config.autocommit => edits = <<>>) /\ ~repeated',
   held |-> {InGraph(asked', Target(c))}, result |-> {}]

(* The answer to the query of a read. *)
Answered(walk, Q) ==
  [walk EXCEPT !.phase = "done", !.result = InGraph(Q, walk.graph)]

(* triples(): the commit comes with the call, the query with the first     *)
(* next() of the generator.                                                *)
Call(r, c) ==
  /\ reader[r].phase # "called"
  /\ Prepared
  /\ reader' = [Noted EXCEPT ![r] = Called(c)]
  /\ UNCHANGED config

Fetch(r) ==
  /\ reader[r].phase = "called"
  /\ reader' = [reader EXCEPT ![r] = Answered(@, endpoint)]
  /\ UNCHANGED <<config, edits, endpoint, asked, failed, repeated>>

(* query(), contexts() and len() commit and read in one call. *)
Query(r, c) ==
  /\ reader[r].phase # "called"
  /\ Prepared
  /\ reader' = [Noted EXCEPT ![r] = Answered(Called(c), endpoint')]
  /\ UNCHANGED config

Next ==
  \/ \E c \in Contexts :
       \/ \E t \in Triple : Add(t, c)
       \/ \E pat \in Pattern : Remove(pat, c)
       \/ AddGraph(c) \/ RemoveGraph(c)
       \/ \E r \in Readers : Call(r, c) \/ Query(r, c)
  \/ \E Q \in SUBSET (Triple \X Contexts) : AddN(Q)
  \/ Update \/ Commit \/ Rollback
  \/ \E r \in Readers : Fetch(r)

Spec == Init /\ [][Next]_vars

-----------------------------------------------------------------------------
(* Properties. *)

(* The variables hold values of their Python types, and a generator yields *)
(* triples of its own graph only.                                          *)
TypeOK ==
  /\ endpoint \subseteq Quad /\ asked \subseteq Quad
  /\ Len(edits) <= MaxEdits
  /\ \A r \in Readers : \A q \in reader[r].result : q[2] = reader[r].graph

(* The edits that wait, once carried out, give what the caller asked for,  *)
(* in order, whichever requests failed or went unheard on the way; and     *)
(* with autocommit ("The store will commit after every writing operation") *)
(* nothing waits unless the last request failed.                           *)
QueueCompletes ==
  /\ ~repeated => After(endpoint, edits) = asked
  /\ config.autocommit /\ edits # <<>> => failed

(* "Read and update() calls will automatically commit any outstanding      *)
(* edits": a read returns what the store held at one moment between the    *)
(* call and the answer, its own caller's writes included.                  *)
ReadsOwnWrites ==
  \A r \in Readers : reader[r].phase = "done" /\ reader[r].sure =>
    reader[r].result \in reader[r].held
=============================================================================
