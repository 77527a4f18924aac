---------------------------- MODULE GraphHandles ----------------------------
(***************************************************************************)
(* The Python objects through which a program edits a graph.  Collection   *)
(* (rdflib/collection.py) is a handle on the head of a list, a chain of    *)
(* cells.  Container (rdflib/container.py) is a handle on a node with      *)
(* numbered members.  An operation of theirs is an operator from a graph   *)
(* to a graph; what it raises is in the condition beside it.  A Collection *)
(* keeps nothing but its head, so any cell of a list is the head of        *)
(* another one.  A Container keeps a count of its own besides the graph.   *)
(*                                                                         *)
(* BatchAddGraph (rdflib/graph.py) adds to the graph in batches.  A full   *)
(* batch is written when the next triple comes.  A with block writes what  *)
(* is left, unless it raises.                                              *)
(*                                                                         *)
(* A program starts with a job: the triples it deals with (edits), how     *)
(* many of them at most (most), and the tools it uses, of which the order  *)
(* of terms (TermOrder) is one that keeps no state.                        *)
(***************************************************************************)
EXTENDS RdfGraph, TermOrder

CONSTANTS
  Cell,           \* the blank nodes that new cells of lists are taken from
  Member,         \* the predicates rdf:_1, rdf:_2, ... as a sequence
  List,           \* the head of a list
  Bag,            \* the node of a container
  Handle,         \* Python objects for that container
  Item,           \* what goes into a list or a container
  MaxItems,       \* bound: items in a list or a container
  Jobs,           \* records: tools, edits (a set of triples), most
  BatchSize       \* batch_size

(***************************************************************************)
(* A new blank node is none of the terms in use, predicates are told       *)
(* apart, and no job uses both lists and containers.                       *)
(***************************************************************************)
ASSUME CellsAreNew ==
  /\ IsFiniteSet(Cell) /\ List \notin Cell
  /\ {None, "nil"} \cap (Cell \cup {List}) = {}
  /\ None \notin Item /\ Item \cap Cell = {}
ASSUME MembersDiffer ==
  /\ Member \in Seq(ToSet(Member)) /\ IsInjective(Member)
  /\ {None, "type"} \cap ToSet(Member) = {} /\ Bag # None
  /\ MaxItems \in 0..Len(Member)
ASSUME OneKindOfSequence == \A j \in Jobs : ~({"list", "container"} \subseteq j.tools)
ASSUME BatchAssumption == BatchSize \in Nat \ {0, 1}

VARIABLES
  graph,      \* the triples
  job,        \* the job of the program
  len,        \* len[h]: the count a Container keeps, for those that are open
  batch       \* what is buffered, what it was given since its start

Uses(tool) == tool \in job.tools
-----------------------------------------------------------------------------
(***************************************************************************)
(* Collection.                                                             *)
(***************************************************************************)
\* BNode(): a node that is nowhere in the graph
Fresh(g) == CHOOSE c \in Cell : c \notin AllNodes(g)
HasFresh(g, n) == Cardinality(Cell \ AllNodes(g)) >= n

Length(g, list) == Len(Items(g, list))

HasFirst(g, cell) == Value(g, cell, "first") # None
EndsAt(g, cell) == Value(g, cell, "rest") \in {None, "nil"}

EndOf(g, list) ==
  LET cells == CellsOf(g, list)
  IN  cells[SelectInSeq(cells, LAMBDA cell : EndsAt(g, cell))]

\* __getitem__: KeyError for a cell without an item, or with a false one
GetItem(g, list, k) ==
  LET cell == GetContainer(g, list, k)
      item == IF cell = None THEN None ELSE Value(g, cell, "first")
  IN  IF item \in Falsy THEN None ELSE item

\* index: None stands for what is raised at the end of the list
IndexOf(g, list, item) ==
  LET cells == CellsOf(g, list)
      found(cell) == <<cell, "first", item>> \in g
      stop == SelectInSeq(cells, LAMBDA cell : found(cell) \/ EndsAt(g, cell))
  IN  IF found(cells[stop]) THEN stop - 1 ELSE None

CanSetItem(g, list, k) == GetContainer(g, list, k) # None
SetItem(g, list, k, item) == SetValue(g, GetContainer(g, list, k), "first", item)

(* The cell before the last one is ended; the cell before another one is   *)
(* linked to the next.  The first cell has itself before it.               *)
CanDelItem(g, list, k) ==
  /\ GetItem(g, list, k) # None
  /\ k < Length(g, list) - 1 => GetContainer(g, list, k + 1) # None

\* A deletion that unlinks the cell after the item's
DelItemNext(g, list, k) ==
  IF k = Length(g, list) - 1
  THEN Without(SetValue(g, GetContainer(g, list, k - 1), "rest", "nil"),
               GetContainer(g, list, k), None)
  ELSE SetValue(Without(g, GetContainer(g, list, k + 1), None),
                GetContainer(g, list, k), "rest", GetContainer(g, list, k + 2))

DelItem(g, list, k) ==
  LET current == GetContainer(g, list, k)
      prior == GetContainer(g, list, k - 1)
  IN  IF Length(g, list) = 1 /\ k > 0 THEN g
      ELSE IF k = Length(g, list) - 1
      THEN Without(SetValue(g, prior, "rest", "nil"), current, None)
      ELSE SetValue(Without(g, current, None), prior, "rest", GetContainer(g, list, k + 1))

\* append to a list that does not start at nil
AppendItem(g, list, item) ==
  LET end == EndOf(g, list)
      linked == IF HasFirst(g, end) THEN SetValue(g, end, "rest", Fresh(g)) ELSE g
      node == IF HasFirst(g, end) THEN Fresh(g) ELSE end
  IN  linked \cup {<<node, "first", item>>, <<node, "rest", "nil">>}

\* +=: the end is opened, extended an item at a time and closed
AddAfter(g, end, item) ==
  IF HasFirst(g, end)
  THEN <<g \cup {<<end, "rest", Fresh(g)>>, <<Fresh(g), "first", item>>}, Fresh(g)>>
  ELSE <<g \cup {<<end, "first", item>>}, end>>

ExtendItems(g, list, items) ==
  LET end == EndOf(g, list)
      grown[n \in 0..Len(items)] ==
        IF n = 0 THEN <<Without(g, end, "rest"), end>>
        ELSE LET before == grown[n - 1] IN AddAfter(before[1], before[2], items[n])
      all == grown[Len(items)]
  IN  all[1] \cup {<<all[2], "rest", "nil">>}

\* clear: the links are followed as they are taken away
ClearFrom(g, list) ==
  {t \in g : t[1] \notin ToSet(CellsOf(g, list)) \/ t[2] \notin {"first", "rest"}}
-----------------------------------------------------------------------------
(***************************************************************************)
(* Container: list is the node, len the count of the handle.  An operation *)
(* gives the graph it leaves.                                              *)
(***************************************************************************)
Held(g, list, i) == Value(g, list, Member[i])

\* end: the number of members before the first gap
End(g, list) ==
  CHOOSE n \in 0..Len(Member) :
    /\ \A i \in 1..n : Held(g, list, i) # None
    /\ n = Len(Member) \/ Held(g, list, n + 1) = None

Members(g, list) == [i \in 1..End(g, list) |-> Held(g, list, i)]

\* Seq of graph.py: the members by their number, whatever is missing or there twice
SeqItems(g, list) ==
  FlattenSeq([i \in 1..Len(Member) |-> SetToSeq(Objects(g, list, Member[i]))])

InRange(k, len0) == k \in 1..len0

GetMember(g, list, len0, k) ==
  IF InRange(k, len0) /\ Held(g, list, k) \notin Falsy THEN Held(g, list, k) ELSE None

SetMember(g, list, k, item) == SetValue(g, list, Member[k], item)

AppendMembers(g, list, items) ==
  g \cup {<<list, Member[End(g, list) + i], items[i]>> : i \in 1..Len(items)}

\* One member moved to another number; the graph refuses a member that is none
Moved(g, list, from, to) ==
  (g \ {<<list, Member[from], Held(g, list, from)>>})
    \cup {<<list, Member[to], Held(g, list, from)>>}

MembersHeld(g, list, K) == \A k \in K : Held(g, list, k) # None

\* The members with some numbers moved by one, one after the other
MovedInTurn(g, list, numbers, by) ==
  LET moved[j \in 0..Len(numbers)] ==
        IF j = 0 THEN g ELSE Moved(moved[j - 1], list, numbers[j], numbers[j] + by)
  IN  moved[Len(numbers)]

\* __delitem__: the members after it, in order
DelMember(g, list, len0, k) ==
  MovedInTurn(Without(g, list, Member[k]), list, [j \in 1..(len0 - k) |-> k + j], -1)

\* An insertion that moves the first member first
UpFirst(first, last) == [j \in 1..(last + 1 - first) |-> first - 1 + j]

\* add_at_position: the members from there on, the last one first
Up(first, last) == [j \in 1..(last + 1 - first) |-> last + 1 - j]

AddAt(g, list, len0, pos, item) ==
  IF pos = len0 + 1 THEN AppendMembers(g, list, <<item>>)
  ELSE MovedInTurn(g, list, Up(pos, len0), 1) \cup {<<list, Member[pos], item>>}

ClearMembers(g, list) ==
  g \ UNION {Triples(g, list, Member[i], None) : i \in 1..End(g, list)}
-----------------------------------------------------------------------------
(***************************************************************************)
(* A Collection on any cell of the list.                                   *)
(***************************************************************************)
ListCells == ToSet(CellsOf(graph, List)) \ {"nil"}

Room(n) == /\ Len(Items(graph, List)) + n <= MaxItems
           /\ HasFresh(graph, n)

Edit(g) == graph' = g /\ UNCHANGED <<job, len>>

Append1(c, item) == Uses("list") /\ Room(1) /\ Edit(AppendItem(graph, c, item))
Extend(c, items) == Uses("list") /\ Room(Len(items)) /\ Edit(ExtendItems(graph, c, items))

\* A key of the list: the code would take the length of the list for one as well.
Keys0(c) == 0..(Length(graph, c) - 1)
Assign(c, k, item) ==
  /\ Uses("list") /\ CanSetItem(graph, c, k)
  /\ Edit(SetItem(graph, c, k, item))
Delete(c, k) ==
  /\ Uses("list") /\ CanDelItem(graph, c, k)
  /\ Edit(DelItem(graph, c, k))
ClearList(c) == Uses("list") /\ Edit(ClearFrom(graph, c))

-----------------------------------------------------------------------------
(***************************************************************************)
(* Container objects on one node.                                          *)
(***************************************************************************)
\* MaxItems bounds the numbers of members and the counts.
Fits(count, n) ==
  Uses("container") /\ End(graph, Bag) + n <= MaxItems /\ count + n <= MaxItems

Count(h, g, n) == graph' = g /\ len' = [len EXCEPT ![h] = n] /\ UNCHANGED job

Open(h, items) ==
  /\ Fits(0, Len(items)) /\ h \notin DOMAIN len
  /\ graph' = AppendMembers(graph, Bag, items) \cup {<<Bag, "type", "Seq">>}
  /\ len' = [e \in DOMAIN len \cup {h} |-> IF e = h THEN Len(items) ELSE len[e]]
  /\ UNCHANGED job

AppendAll(h, items) ==
  Fits(len[h], Len(items)) /\ Count(h, AppendMembers(graph, Bag, items), len[h] + Len(items))

AssignMember(h, k, item) ==
  /\ Uses("container") /\ InRange(k, len[h])
  /\ Count(h, SetMember(graph, Bag, k, item), len[h])

DeleteMember(h, k) ==
  /\ Uses("container") /\ InRange(k, len[h])
  /\ MembersHeld(graph, Bag, (k + 1)..len[h])
  /\ Count(h, DelMember(graph, Bag, len[h], k), len[h] - 1)

InsertMember(h, pos, item) ==
  /\ Fits(len[h], 1) /\ pos \in 1..(len[h] + 1)
  /\ pos <= len[h] => MembersHeld(graph, Bag, pos..len[h])
  /\ Count(h, AddAt(graph, Bag, len[h], pos, item), len[h] + 1)

ClearAll(h) == Uses("container") /\ Count(h, ClearMembers(graph, Bag), 0)

-----------------------------------------------------------------------------
ItemLists == {<<>>} \cup {<<x>> : x \in Item} \cup {<<x, y>> : x, y \in Item}

EditList ==
  \E c \in ListCells :
    \/ \E x \in Item : Append1(c, x)
    \/ \E xs \in ItemLists : Extend(c, xs)
    \/ \E k \in Keys0(c), x \in Item : Assign(c, k, x)
    \/ \E k \in Keys0(c) : Delete(c, k)
    \/ ClearList(c)

EditContainer ==
  \/ \E h \in Handle, xs \in ItemLists : Open(h, xs)
  \/ \E h \in DOMAIN len :
       \/ \E xs \in ItemLists : AppendAll(h, xs)
       \/ \E k \in 1..MaxItems, x \in Item : AssignMember(h, k, x)
       \/ \E k \in 1..MaxItems : DeleteMember(h, k)
       \/ \E pos \in 1..MaxItems, x \in Item : InsertMember(h, pos, x)
       \/ ClearAll(h)

SequenceInit == job \in Jobs /\ graph = {} /\ len = <<>>
EditSequence == EditList \/ EditContainer

sequenceVars == <<graph, job, len>>
SequenceSpec == SequenceInit /\ [][EditSequence]_sequenceVars
-----------------------------------------------------------------------------
(***************************************************************************)
(* BatchAddGraph.                                                          *)
(***************************************************************************)
batchVars == <<graph, job, batch>>

NewBatch == [pending |-> <<>>, owed |-> {}, state |-> "idle"]

BatchInit ==
  /\ job \in Jobs
  /\ graph = {}
  /\ batch = NewBatch

-----------------------------------------------------------------------------
\* A full batch that is emptied without being written
BatchedLosing(g, b, t) ==
  <<g, IF Len(b.pending) >= BatchSize THEN <<t>> ELSE Append(b.pending, t)>>

Batched(g, b, t) ==
  IF Len(b.pending) >= BatchSize THEN <<g \cup ToSet(b.pending), <<t>>>>
  ELSE <<g, Append(b.pending, t)>>

Given(gb, T) ==
  /\ graph' = gb[1]
  /\ batch' = [pending |-> gb[2], owed |-> batch.owed \cup T,
               state |-> IF batch.state = "open" THEN "open" ELSE "loose"]
  /\ UNCHANGED job

BatchAdd(t) == Uses("batch") /\ Given(Batched(graph, batch, t), {t})

\* addN: handed on, or with batch_addn taken one by one
BatchAddN(t, u) ==
  LET first == Batched(graph, batch, t)
  IN  /\ Uses("batch")
      /\ Given(IF Uses("batch_addn") THEN Batched(first[1], [batch EXCEPT !.pending = first[2]], u)
               ELSE <<graph \cup {t, u}, batch.pending>>, {t, u})

Enter ==
  /\ Uses("batch") /\ batch.state # "open"
  /\ batch' = [NewBatch EXCEPT !.state = "open"]
  /\ UNCHANGED <<graph, job>>

Exit(raised) ==
  /\ batch.state = "open"
  /\ graph' = IF raised THEN graph ELSE graph \cup ToSet(batch.pending)
  /\ batch' = [batch EXCEPT !.state = IF raised THEN "failed" ELSE "idle"]
  /\ UNCHANGED job

UseBatch ==
  \/ \E t \in job.edits : BatchAdd(t)
  \/ \E t, u \in job.edits : BatchAddN(t, u)
  \/ Enter
  \/ \E raised \in BOOLEAN : Exit(raised)

BatchSpec == BatchInit /\ [][UseBatch]_batchVars
-----------------------------------------------------------------------------
(* Properties. *)

(* A program that sorts terms, or keeps them in dictionaries, gets the one *)
(* order, and one hash for each term (TermOrder).                          *)
TermsOrdered == Uses("terms") => TermsInOrder

(* What a batching wrapper was given since it was entered is in the graph  *)
(* or waits to be written, however full the batch was and whether single   *)
(* triples or several came; and once a with block ends well, it is all in  *)
(* the graph.                                                              *)
BatchKeepsAll ==
  /\ batch.owed \subseteq graph \cup ToSet(batch.pending)
  /\ batch.state = "idle" => batch.owed \subseteq graph

(* Every operation on a list through a Collection, be it on an inner cell, *)
(* changes the items as it would change those of a Python list from there  *)
(* on; with a key, and for a read, as long as the cells that count have    *)
(* items (del l[0] empties the first cell).  The one Container of a node   *)
(* numbers its members without a gap and counts them, and one whose count  *)
(* is right keeps it right and changes the members as a list's.            *)
Aligned(c, held) == \A k \in 1..Len(held) : HasFirst(graph, GetContainer(graph, c, k - 1))

ListReads(c, held) ==
  \A k \in 1..Len(held) :
    /\ held[k] \notin Falsy => GetItem(graph, c, k - 1) = held[k]
    /\ IndexOf(graph, c, held[k]) + 1 = SelectInSeq(held, LAMBDA x : x = held[k])

ListStep(c, before, held, after) ==
  /\ \A x \in Item : Append1(c, x) => after = before \o held \o <<x>>
  /\ \A xs \in ItemLists : Extend(c, xs) => after = before \o held \o xs
  /\ ClearList(c) => after = before
  /\ Aligned(c, held) =>
       /\ ListReads(c, held)
       /\ \A k \in 1..Len(held) :
            /\ \A x \in Item : Assign(c, k - 1, x) => after = before \o ReplaceAt(held, k, x)
            /\ Delete(c, k - 1) => after = before \o RemoveAt(held, k)

ListStepFrom(c, all, held) ==
  ListStep(c, SubSeq(all, 1, Len(all) - Len(held)), held, Items(graph', List))

\* A count is right when it is that of all members, one for each number.
Counts(n, g) == n = End(g, Bag) /\ SeqItems(g, Bag) = Members(g, Bag)

MemberStep(h, held, after) ==
  /\ \A xs \in ItemLists : AppendAll(h, xs) => after = held \o xs
  /\ \A x \in Item, k \in 1..Len(held) :
       /\ AssignMember(h, k, x) => after = ReplaceAt(held, k, x)
       /\ InsertMember(h, k, x) => after = InsertAt(held, k, x)
  /\ \A k \in 1..Len(held) : DeleteMember(h, k) => after = RemoveAt(held, k)
  /\ len'[h] # len[h] => Counts(len'[h], graph')

ListsStep == \A c \in ListCells : ListStepFrom(c, Items(graph, List), Items(graph, c))
MembersStep ==
  \A h \in DOMAIN len :
    /\ DOMAIN len = {h} => Counts(len[h], graph)
    /\ Counts(len[h], graph) => MemberStep(h, Members(graph, Bag), Members(graph', Bag))
SequencesAsPython ==
  [][(Uses("list") => ListsStep) /\ (Uses("container") => MembersStep)]_sequenceVars
=============================================================================
