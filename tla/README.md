# A TLA+ model of rdflib and spicy

This directory holds specifications of the core of the repository: the stores that
keep RDF triples, the wrappers that make them transactional or readable while they
change; the SPARQL engine, from the parse tree of a query or an update to what it
answers or leaves; the tools a program uses on a graph, which are prefixes, paths,
lists, canonical forms and the Turtle serializer; and spicy, the vector index that
SPARQL filters query. The specifications are model-checked with TLC on small
instances; the results that matter most are proved with TLAPS for every value of the
constants. `PROJECT.json` maps every definition to the lines it models.

## 1. The system

| part | source | state | operations |
|---|---|---|---|
| Memory store | `rdflib/plugins/stores/memory.py` | three nested dictionaries (`spo`, `pos`, `osp`), triple → contexts, context → triples, the default contexts, the set of known graphs, prefix tables | `add`, `remove`, `triples` (a generator), `add_graph`, `remove_graph`, `bind` |
| Store interface and graphs | `rdflib/store.py`, `rdflib/graph.py` | a graph is a name and a store; a `QuotedGraph` (formula) holds statements that are not asserted; `ConjunctiveGraph` and `Dataset` see all graphs of a store | `add`, `addN`, `remove`, set algebra, `parse`, `query`, `update` |
| AuditableStore | `rdflib/plugins/stores/auditable.py` | `reverseOps`, the operations that undo the open transaction | `add`, `remove`, `commit`, `rollback` |
| ConcurrentStore | `rdflib/plugins/stores/concurrent.py` | number of readers, two lists of waiting changes, a lock | `add`, `remove`, `triples` (a generator) |
| SPARQLUpdateStore | `rdflib/plugins/stores/sparqlstore.py` | a queue of edits for a remote endpoint | `add`, `remove`, `update`, `commit`, `rollback`, reads |
| BerkeleyDB | `rdflib/plugins/stores/berkeleydb.py` | three sorted tables of keys, a table of contexts, interned terms, a flag shared with the sync thread | `add`, `remove`, `triples` (a generator), `bind`, `open`, `close`, the thread |
| Vector search | `spicy/graph.py`, `index.py`, `functions.py`, `embedder.py` | an index and a score cache per graph; the active index and the top-k sets, both global | `enable_vector_search`, `add`, `parse`, the SPARQL functions |
| Persistent index | `spicy/store.py` | two tables on disk | `write`, `load_rows`, `append`, `is_valid` |
| Datasets | `rdflib/graph.py` | the quads of a store, the graphs it knows, a default graph that may be the union of all | `add`, `+=`, `-=`, `graph`, `remove_graph`, `quads` |
| SPARQL engine | `rdflib/plugins/sparql/` | the bindings of a query, as contexts pushed and forgotten; updates change the graph they read | translation to algebra, evaluation, aggregates, update |
| Namespaces | `rdflib/namespace/__init__.py` | two tables of prefixes in the store; in each manager two caches, a trie and an index of its dictionaries | `bind`, `compute_qname`, `normalizeUri`, `reset` |
| Lists and containers | `rdflib/collection.py`, `container.py` | triples; a count in each Python object | list edits by key, append, clear |
| Paths and walks | `rdflib/paths.py`, `graph.py` | none but that of generators | evaluation between two ends, closures, `cbd` |
| Comparison | `rdflib/compare.py` | a colouring of the blank nodes that is refined | canonical triples, isomorphism |
| Batches | `rdflib/graph.py` | a buffer | `add`, `addN`, a `with` block |
| Serializers, parsers | `rdflib/plugins/serializers/`, `parsers/` | what has been written and how often a node is referred to; a position in a text, a stack of handlers, the nodes that labels stand for | graphs and datasets to text and back |
| Terms | `rdflib/term.py` | none | conversion, comparison, order, hash |

How they interact. A `Graph` calls its store for every operation and passes
itself as the context; `QuotedGraph` passes the flag `quoted`. `remove` in the
memory store walks the generator `triples` and changes, between its steps, the
dictionaries the generator walks; so may any caller. `AuditableStore` and
`ConcurrentStore` wrap another store and decide from what they read of it what
to do with the call. A `SpicyGraph` extends `Graph.add` and `Graph.parse` with
calls of its index; the SPARQL functions read the index through one global
variable.

What is hard here:

* suspended generators over dictionaries that change (section 3.2, 3.4);
* bookkeeping kept twice and compressed, over long sequences of calls (3.1);
* check-then-act without a lock that excludes anybody (3.3);
* undo logs, queues and the order in which they are applied (3.3, 3.4);
* caches and one global that outlive what they were computed from (3.5);
* a crash or an error between the writes of two tables (3.6);
* a list of requests that may fail, or succeed unheard (3.7);
* cursors that hold a key of a table that changes, and two threads that share a
  flag without a lock (3.8);
* tables and caches of names that several objects edit in any order (3.9);
* updates that read what they change, and joins that pass bindings into scopes
  they do not belong to (3.10);
* structure kept as triples that several objects, or nobody, may have made well
  formed (3.11).

`PROJECT.json` lists each of these hazards at the line where it bites, with the
properties that cover it or the reason why none does.

## 2. Modules

| module | what it is |
|---|---|
| `QuadStore` | abstract: what a context-aware, formula-aware store promises |
| `MemoryStore` | `Memory` with its indices and context maps; refines `QuadStore` |
| `MemoryReaders` | composes `MemoryStore` with suspended generators |
| `AuditableStore` | transactions of several wrappers over one store |
| `ConcurrentStore` | readers and waiting writes |
| `SparqlUpdateStore` | edits that wait for a remote endpoint, and reads between them |
| `VectorSearch` | graphs, indices, the active index and both caches |
| `LanceIndex` | the index on disk, processes, crashes and errors |
| `BerkeleyStore` | the tables of `BerkeleyDB` and its generators; refines `QuadStore` |
| `BerkeleySync` | composes `BerkeleyStore` with the thread that writes the tables |
| `Namespaces` | the two tables of prefixes, and managers with their caches and their tries |
| `SparqlAlgebra` | bindings, how they are merged and compared; from the parse tree of a query to its algebra, and the passes over it |
| `SparqlEval` | the evaluation of the algebra over a dataset |
| `DatasetUpdates` | a dataset, its calls and the update operations, and what SPARQL defines them to be; how patterns are matched is a parameter |
| `SparqlUpdates` | composes `SparqlEval` with `DatasetUpdates`, and says what the algebra means by the definitions of SPARQL |
| `RdfGraph` | reading and setting triples of a graph, and the items of a list |
| `RdfPaths` | walks, descriptions and property paths |
| `Canonical` | canonical forms by colour refinement |
| `Turtle` | the Turtle serializer and the parser, with a text as tokens |
| `RdfXml` | the two RDF/XML serializers and the handlers of the parser, with a text as events |
| `DatasetFormats` | JSON-LD without a context, from a dataset to a document and back; N-Quads, HexTuples, RDF patches, TriX and TriG |
| `TermOrder` | how terms compare, sort and hash |
| `Values`, `Durations` | literals with their Python values and the functions on them; dates, times and durations |
| `GraphHandles` | a program and its job, and the objects it edits a graph through: `Collection`, `Container`, `BatchAddGraph` |
| `GraphTools` | composes these ten: programs that work on a graph or a dataset |
| `MemoryStoreProofs`, `AuditableStoreProofs`, `BerkeleyProofs`, `LanceIndexProofs`, `ConcurrentStoreProofs`, `SparqlUpdateStoreProofs`, `SparqlProofs`, `GraphProofs` | the theorems |
| `MC...` | values of the constants for TLC |

Operators with names such as `DeindexForgetsOsp` or `RebuildKeepsScores` stand
beside the operator they vary and are not used by any specification: each is a
plausible mistake in the code, kept to show that a property would notice it.

A property that the code breaks in some corner is dealt with in one of three
ways. Either it is a kind of data, and the property names the data it is about
(`WellScoped` queries, `Rooted` lists, colours that are orbits). Or it is a step, a
crash, an inherited method or a call that comes in the wrong order, and an auxiliary
variable marks what it has spoiled, until the code repairs it (`bypassed` in
`VectorSearch`; `written`, `bypassed`, `torn` and `doubtful` in `LanceIndex`;
`readded` and `theirs` in `AuditableStore`; `outlived` in `ConcurrentStore`;
`repeated` in `SparqlUpdateStore`; `history` in `BerkeleyStore` and `unsynced` in
`BerkeleySync`): the specification has every call, and the property says which part
of the state it is about. Or the property is stated as the documentation has it, and
a run shows that it is violated (`RollbackReturns`, section 3.3). No guard and no
variable of the code depends on an auxiliary variable. Each of these corners is described
below, where the module is. `TypeOK` of a module states the types of its
variables; those of modules with proofs are proved, the others are there to be read.

## 3. What each module models and what its runs show

### 3.1 `MemoryStore`

A nested dictionary `spo[s][p][o]` is the set of triples it holds; the three
are kept apart, because `add` changes two of them only when the triple is not
in the first, and `remove` deletes from each. `__tripleContexts` is a function
whose domain is the set of the dictionary's keys, from triples to functions
from context keys to the flag `quoted`; `__defaultContexts` is such a function
or `NoDict`. A context key is the context's name, or `None` for the default
graph. `AddAll` is the loop of `addN` over a set of triples, done in one step:
the triples of one call do not depend on each other. `Remove` is the whole
loop of `Memory.remove`, with `__remove_triple_context` and the removal from
the default graph when the last assertion goes.

Two properties of the store are checked in the run of the next section.
`Consistent`: the indices agree, the two context maps are inverse of each other, no
triple outlives its contexts and no entry its triple, the compressed form stays
compressed. `ImplementsQuadStore`: the store refines `QuadStore` under
`content[c] = __contextTriples[c]`, `union = __contextTriples[None]`, so the default
graph gains and loses what graphs and formulas come to assert, and a change of one
context leaves the others alone.

`QuotedGraph.addN` goes through `Store.addN` (`store.py:262`), which calls
`add(..., quoted=False)`: it asserts what it is given, although the docstring
(`store.py:247`) says that the quoted argument tells formula-aware stores of quoted
statements. It is an operation like the others (`QuotedAddN`; in `QuadStore`,
`Voice`): a formula may assert some of its statements, and `voiced` is which. Where
`Memory` and `BerkeleyDB` differ, `QuadStore` leaves the choice open: `Memory` lets a
statement that is quoted again lose its assertion and asserts what is already quoted,
`BerkeleyDB` changes nothing in either case.

### 3.2 `MemoryReaders`

A generator's `next()` runs without interruption to the next `yield`, so it is
one action: `Start` for the first, `Resume` for the others. `Yields` gives the
triples it may yield, with the position it then has: the keys of an outer
dictionary were copied once, those of an inner one are copied when the walk
comes to it, and each candidate is looked up again in the context maps when its
turn comes. The order of a dictionary is not fixed by the model. Between two
steps any operation of `MemoryStore` may run. `history` is auxiliary: what the
reader yielded, and what was stored, held by its context, and held throughout.

* `mem_readers` (two triples that differ in their object, one graph, one formula,
  one reader; every operation and four patterns that use each index): the two
  properties of 3.1; a reader that ends has yielded everything its context held all
  along; what it yields was in the store at some time; and its context held it,
  unless the context is one of the default contexts.

One reader suffices, since readers do not change the store. A graph and a formula
differ only in the quoted flag, and a formula that asserts is the second context that
does; two triples are one more than the first, whose contexts become the default.
`NoneDone` cuts a behaviour off where a reader has ended and been judged: what the
store does from there on it also does in states without a reader.

For a default context the last guarantee does not hold. A triple that was taken
out of the store has no entry, and `__triple_has_context` answers for it with
the default contexts, although its docstring says "return True if the triple
exists in the given context": a generator suspended over another context's
triple yields it if it is removed before its turn comes.

### 3.3 `AuditableStore`

Wrappers of one store are transactions, each in a thread, and all of them write the
same quads. `Add`, `RemoveExact` and `Remove` are a call up to the moment it calls the
wrapped store (what it reads and logs), `Apply` is that call; between the two, other
wrappers run, because the lock they take is created anew by each call. `reverseOps` is
kept as one list for each quad, since operations on different quads commute. The store
wrapped is a set of quads without formulas (the class sets `formula_aware = False`
because it cannot restore quoted statements).

Four auxiliary variables tell the story of the transaction under way, which begins with
the first call that is not without effect: `began`, what the store held then; `asked`,
the quads it asked the store to change; `readded`, those it added again after it had
removed them; `theirs`, those others changed meanwhile.

* `audit` (two transactions, both on one triple in two graphs; a pattern on one graph
  and on all; all interleavings of reads, calls, commits and rollbacks): the log of a
  quad is its net change, and a rollback returns it to what it was when the
  transaction began, for all quads but those in `theirs` and `readded`; and a rollback
  leaves alone every quad its transaction did not ask the store to change, also while
  others read and write it. One triple in two graphs is the least with which a pattern
  logs several quads and a transaction meets another on one quad but not on all. The
  other transaction may change for ever what this one is about to log again, so the
  run follows logs of at most two operations on a quad (`MaxLog`), and transactions
  that meet on at most one quad (`MaxMet`).
* `audit_rollback` (one transaction, one quad): a violation. By the module's docstring
  (`auditable.py:5`) the reverse operations are executed "In order to return the store
  to the state it was when the transaction began". A transaction that removes a quad,
  adds it back and rolls back deletes it: `add()` appends "remove" to the log and drops
  the "add" logged before (`auditable.py:95`), where it should do the second alone.

Two transactions that write one quad are not isolated, in spite of the docstring, and no
property says that they are: both see it absent and add it, one commits, and the
rollback of the other deletes what was committed. The properties show that this
does not spread: the rest of the log and of the store is as it should be.

### 3.4 `ConcurrentStore`

A reader is `idle`, in its `scan` of the wrapped store, in its `tail` over the
list of waiting additions, or `done`; `EndRead` runs when the object that counts
the reader dies, which is at the end of the scan, before the tail, or when the
caller drops the generator. Auxiliary are `wanted`, what the calls ask for, in the
order in which they were made, and `outlived`, the triples that were removed while they
waited to be added. Everything runs in one thread, and writes come between the
steps of generators.

* `conc_reads` (two readers, each may read again and again): when nobody reads
  the store holds what was asked for, and nothing else but triples in `outlived`; no
  reader yields what was removed before it began, with the same exception; what was in
  the store and stayed wanted is yielded.

The exception is the code's: `__end_read` makes the removals that wait and then the
additions, so that `add(t)` and then `remove(t)` during one read leave `t` in the store
(`concurrent.py:84`). The other order, `remove(t)` and then `add(t)`, is kept.

The last reader applies the waiting additions before it walks their list, so it
does not yield what was waiting when it began: `StoredNotMissed` is about what
was in the store. `MaxPending` bounds each list by two, one more than it takes
for a reader to be between two waiting additions.

### 3.5 `VectorSearch`

A score is a function of the query and of the text that was embedded, so an
index is a set of entries `<<component, key, text>>`: `key` is `str(term)`,
`text` is what `_term_text` makes of the term. `rows` is kept beside `chunks`,
because scores are computed from the matrices and not from what was embedded.
`get_all_scores` and `top_k` are read through `scoreCache` and `topKCache`.

* `vec_caches` (two graphs, two triples whose objects print alike, every
  operation): cached scores are those the matrices would give, top-k sets name
  terms of the active index, and every key that came by `add`, `parse` or
  `enable_vector_search` has a score in its own graph's index, through whatever
  cache there is. A triple that came by `addN` or `+=` has none until the next
  rebuild.

The second graph to enable vector search takes over the queries of the first:
the terms of any graph but the active one have the score 0.0. `TopKOfActive`
and `KeysScored` are stated for that rule.

Two graphs are what it takes for one index to replace another, and two terms
with one key for one entry to hide another. The queries ask about the objects;
the components do not depend on each other.

### 3.6 `LanceIndex`

`write` is two steps, `Build` and `WriteMeta`, one for each table; a `Restart`
between the two is a crash, `WriteFails` and `EnableFails` are errors. An append
may end in three ways: the rows are added, an error replaces the table by the
new rows, or an error of that replacement leaves it as it was. `Fingerprint` is
`_graph_hash` without the hashing: the sample of subjects, in order and with
repetition, and the number of triples. `SampleSize` is 500 in the code.

`written` is auxiliary, the graph for which the last `write` went through; `bypassed`
is what the index need not know: what `addN` brought in, and of a graph that was taken
for the one written, what that one does not have. `torn` is true while "embeddings"
has been replaced and "meta" has not: between the two halves of `write`, after a crash
there, and after an append that replaced the table. `doubtful` marks an index that was
loaded from such tables.

* `lance` (three triples of which two share a subject, a sample smaller than the
  largest graph, every operation, crash and error): unless the tables are torn, what
  `is_valid` accepts has all rows of the graph that was written, through any sequence
  of processes; the graph at hand is that one or has the same fingerprint, and then
  the rows of its subjects are there, if the sample takes them all. The index in memory
  covers the graph, but for `bypassed`.

The fingerprint (`store.py:20`) is made of subjects and of the number of triples:
two graphs that differ in predicates and objects alone have the same, and a program that
opens the second gets the index of the first. "Return True if the cached index matches
the current graph" (`store.py:48`) is therefore too much to say, and the properties do
not say it. Nor do they say that a graph loaded from torn tables has its rows; it
need not.

### 3.7 `SparqlUpdateStore`

`edits` is the list of update requests that wait. An edit is the set of quads it
inserts or deletes and the quads its WHERE clause requires; `Malformed` is one
the endpoint always rejects. `Write` is what `add`, `addN`, `remove`, `update`,
`add_graph` and `remove_graph` do with the edit they have made: append it, and
with `autocommit` send the list. `Send` is `commit()` of a list that is not
empty: it is carried out and the list emptied (`Done`), or it raises and the
list stays (`Fails`) whether or not the endpoint has carried it out. `triples()`
is a generator: its commit comes with `Call`, its query with `Fetch`; `query()`,
`contexts()` and `__len__` do both in one step. A read whose commit raises does
not take place, which is the step `Commit` with `Fails`.

Auxiliary variables: `asked`, what the endpoint would hold if every call took
effect once, in order; `failed`; `repeated`, which marks that an update with a
WHERE clause may have been carried out before its answer was lost; and in a
reader `held`, what its graph held at each moment since the call, and `sure`,
that the store owes the caller an answer of this kind.

* `sparql` (one triple in the default and one named graph, an update that copies
  it from one to the other, rejected edits, lost requests and lost answers, one
  generator): what waits, once carried out, gives what was asked for; with
  autocommit nothing waits but after an error; a read returns what its graph
  held at one moment between call and answer, earlier writes included.

`MaxEdits` is three: an edit that fails, one that depends on it and one that is
written before a generator is used. The triples do not interact, so one is
enough for the order of insertion, deletion and copying to matter. The docstring
of `commit` says that `update()` commits outstanding edits; without autocommit
it appends its text to the list, so the edits run in order but later. `addN`
names the graph of every quad, the default graph included, which `add` leaves
unnamed: `DefaultName` is the graph it writes to.

### 3.8 `BerkeleyStore` and `BerkeleySync`

`index[i]` is the table whose keys begin with position `i` of a triple: a
function from `<<context, triple>>` to the list of graphs, where `Whole` stands
for the empty context. The order of keys is the order of the terms' numbers, of
which the model asks only that they differ. `Bound`, `Lookup` and `Range` are
`__lookup` and the test `key.startswith(prefix)`. `RemoveRange` is the whole loop
of `remove`, `RemoveExact` the path for a triple that is fully bound in a named
context. A generator reads the key after the one it is about to yield, and is
suspended with it: `next` is that key. If it has gone when the generator comes to
it, `index.get` returns nothing and the generator raises (`failed`).

* `berkeley` (two triples that share a predicate, patterns for each table, two
  graphs, one formula, one generator; every operation, `QuotedGraph.addN` included): the
  tables and the lists agree, the range
  of a lookup is what the pattern matches, `contexts()` names every context that
  holds something, the store refines `QuadStore`; a generator that ends has
  yielded what stayed, and one that fails has lost a triple it had not yielded,
  so a loop may remove what it was just given.
* `berkeley_sync` (one triple, two graphs): see below.

Two triples are what it takes for a generator to hold one key while it yields
another, and for a list of graphs to be edited beside one that is not; readers
do not change the store. `remove()` from the whole store follows the list of
graphs, so a statement stays in the formulas that quote it. `Memory.remove` lets
it go there as well, which is why `QuadStore` leaves it open (`kept`). A statement that
a formula asserts goes from the formula too, in both.

`BerkeleySync` adds the steps of `__sync_run`: `Notice` lowers the flag and
begins to count, `Expire` lowers it again when the time has passed, `Sync`
writes the tables, `Leave` ends the thread when the store is closed. An
operation is two steps, since it raises the flag after it has changed the
tables. `add_graph` does not raise it: a graph without triples is written with
the next change or by `close()`. The clock is left open: `Expire` may come at any
turn of the inner loop.

The run shows that no interleaving of the two threads loses an announcement,
that every change is written some time, and that `close()` returns. One triple
is enough, since the thread does not look at what it writes.

The model takes a cursor with no later key to return nothing, as `__len__` does.
If the library raised `DBNotFoundError` there, `remove()` of an empty range would
assign `False` to the flag another operation had raised.

### 3.9 `Namespaces`

`Namespaces` has the two dictionaries a store keeps for prefixes, `Memory.bind`
and the decision of `NamespaceManager.bind` which prefix to use (`Bind`,
`Instead`, `ReturnsEarly`), and the managers: `cache` and `strict`
are the two caches of qnames, `below` the trie, `strie` the keys in `__strie`. A
URI is a sequence of characters, since a split, a namespace that is a prefix of
another and a name are about characters; what the code asks of a character is
its class. `BindElsewhere` is a bind by another Graph object on the same store.

* `names` (one manager and other objects beside it; two namespaces of which one
  starts with the other, three prefixes, two URIs; every bind with and without
  `override` and `replace`): the tables are inverse of each other, so the two
  deletions of `bind` never raise; the trie is nested as the namespaces are,
  whatever their order; a qname expands to its URI when it is computed, by the
  longest namespace the manager has come across; a bind that does not ask to
  replace takes no prefix from another namespace.

Three things the properties leave aside are the code's. A qname in the cache
outlives the binding it was made with. `reset()` empties one cache and keeps the
strict one. `split_uri` looks for the start of a name from the last delimiter to
the end by negative indices and goes on with index 0, so that a URI whose last
part has no letter is searched again from the front (`Starts`).

### 3.10 `SparqlAlgebra`, `SparqlEval`, `DatasetUpdates`, `SparqlUpdates`

The SPARQL engine in four modules. A query is the record the parser makes of it.
`SparqlAlgebra` translates it as `algebra.py` does, aggregates, HAVING,
projection and ORDER BY included, with the passes that simplify joins, find
variables and decide which joins may be lazy. `SparqlEval` evaluates the algebra
as `evaluate.py` does, from the top: a context holds the bindings, a lazy join
hands each solution of its left side to the right one, OPTIONAL tries again with
fewer bindings, filters forget what is not in their scope. A generator is the
sequence of what it yields. `DatasetUpdates` has a dataset (its quads, the graphs
it lists, its class and the switch `SPARQL_DEFAULT_GRAPH_UNION`) and as actions
the update operations and the calls of `ConjunctiveGraph` and `Dataset`. How
patterns are matched and templates are filled are constants of it, to which the
run gives the operators of `SparqlEval` and `SparqlUpdates` (`Solved <- EvalWhere`,
`PatternMeaning <- Meaning`, ...): so the module has no recursion and is one that
theorems are proved about.

`SparqlUpdates` begins with the reference: it gives each algebra operator the set
of solutions that section 18 of the SPARQL 1.1 specification defines, from the
bottom up, without contexts, order or laziness. The end of `DatasetUpdates`
defines in the same way what each update deletes and inserts, and with
`PatternsAsDefined` what it asks of the engine for that: the solutions of its
pattern come as a list and are those of the reference, for DELETE WHERE also on
what is left of the quads while it deletes.

* `dataset` (every dataset of at most four quads that updates and calls can make
  of five triples, the default and one named graph; both classes, both
  defaults; 28 updates and 77 queries, checked in every state): updates leave what
  they are defined to; DELETE WHERE deletes nothing it has not matched; a graph
  that holds a quad is listed; queries answer what they mean, and so do the patterns
  of updates (`PatternsAsDefined`, in every state, since the theorems rest on it);
  DISTINCT, ORDER BY, LIMIT and OFFSET keep the rows they should.

Four quads are what it takes for a pattern of two triples to match in two ways
that share a triple, beside a triple in another graph; the queries pair every
kind of group part with every other that can change its scope.

The model was compared with the program: for queries and updates of these shapes
both gave the same answers, in the cases below as well. They are the code's
exceptions, and each property names its own.

* A filter of a nested group that asks whether a variable of the outer group is
  bound sees that it is; VALUES before OPTIONAL may lose rows, since its
  variables do not count as bound; a grouped subselect without rows gives one
  empty row (`WellScoped` leaves these three out).
* A join that is not lazy keeps each solution of its right side once.
* `+=` on a `ConjunctiveGraph` lists the dataset among its own graphs; `GRAPH ?g`
  then takes it for all of them at once (`Self \in Contexts`).
* DELETE WHERE goes on matching while it deletes: with two or more triples a
  solution may be gone before it is found. DELETE/INSERT runs solution by
  solution: a quad that one deletes and another inserts depends on their order.
* With the default graph a union, `+=` on a `Dataset` raises, `COPY` and `MOVE` to
  it empty the source, and removing means removing from every graph.

### 3.11 Graphs and datasets: `GraphTools` and the modules it composes

Nine modules of operators over a graph, one of objects that edit it, and a module
that composes them. A graph is a set of triples, a dataset a set of quads; a
generator whose consumer cannot tell the order is a set.

* `RdfGraph` has `value`, `set` and `items`. The walk of `items` from cell to cell
  ends where it meets a cell again, so that the number of links bounds it.
* `RdfPaths` has the transitive walks, `connected` and `cbd`; it evaluates property
  paths as `paths.py` does, and ends with what a path means.
* `GraphHandles` is `Collection` (a handle on a chain of cells), `Container` (a
  handle on numbered members, with a count of its own) and `BatchAddGraph`, with an
  action for each of their operations. `SequenceSpec` and `BatchSpec` are programs
  that use nothing else.
* `Canonical` is `_TripleCanonicalizer`: colours, refinement, individuation, the
  search and its pruning; hashes are small numbers that differ on what occurs.
* `Turtle` is the Turtle serializer as far as it decides what is written
  where: the order of subjects, brackets, lists, what is done; and the Turtle
  part of `SinkParser`, a recursive descent over the tokens.
* `RdfXml` is `XMLSerializer` and `PrettyXMLSerializer`, whose text is a
  sequence of events, and the stack of handlers that takes them.
* `DatasetFormats` is `Converter` of JSON-LD, whose document is a set of objects,
  and `Parser`; and the formats that write a line for each quad or one graph
  after the other; TriG is Turtle within braces, with references counted over all
  graphs.
* `TermOrder` has the comparisons of `Identifier` and `Literal`. A term is a
  record; its text and its value are numbers in their order.
* `Values` makes literals from texts and from Python values as `Literal.__new__`
  does, and has `+`, `-`, negation and rounding, casts, the arithmetic of SPARQL
  with its promotions, and the functions on strings. `Durations` is the class
  `Duration`, the calendar, and what adding a duration to a date, a time or a
  literal of one gives.

`GraphTools` is a program that works on a graph: its `job` says which triples
and which tools. Reading and writing are operators; what changes the graph is
an action, `WriteJson` included, since serializing a dataset as JSON-LD adds
triples to its default graph.

* `graphs`: property paths yield the pairs their definition relates; walks visit
  what can be reached, once, and `connected` and `cbd` see what hangs together;
  isomorphic graphs have one canonical form; what the Turtle and RDF/XML
  serializers write is read back as the same graph, but for literals in collections,
  and what the formats for datasets write as the same dataset, but for the datatype
  HexTuples gives to plain literals; terms are sorted by one order;
  literals keep their values through reading, sums, casts and the calendar; lists and
  containers follow Python's lists; a batch loses nothing.

The bounds, job by job: paths and walks, every graph of three triples over three nodes
and two predicates, which has cycles, confluences and a statement about a resource;
Turtle, every graph of six out of fifteen triples, and RDF/XML, every graph of five
out of eighteen and 24 orders of the nodes, which make lists with items of their own,
shared nodes and cycles; datasets, every one of five out of fifteen quads in a default
graph, a graph with a name and one that a blank node names, which share nodes, and
lists of two cells, and a patch for each quad more or less; canonical forms, every
graph of four triples on four blank nodes and one triple from each of five; terms, all
triples of 29 terms of every kind, with numbers of three datatypes, NaN, ill-typed
numbers, durations, languages and a datatype without values; literals, all pairs and
triples of some texts, datatypes, strings, moments about the ends of months and of
February, and durations of either sign; lists and containers, up to three items, a
list in up to three cells; batches of two.

Where the code departs from what its documentation promises, the property says
for which graphs it holds:

* a literal that is false in Python, such as 0, is taken for an end that is not
  bound (`PathsAsDefined`);
* with five blank nodes, refinement can leave nodes with one colour that no
  automorphism exchanges, for instance in a cycle of four and a node that refers
  to itself; the search takes them for images of each other, and the canonical form
  depends on their names. `CanonicalForms` is about graphs whose refined colours
  are orbits;
* `isValidList` does not see a tail that two lists share, whose triples are then
  written twice or not at all, and does not end on a chain of cells that comes back to
  itself; a list that only a cycle of blank nodes leads to may be written twice
  (`WellFormed`, `Rooted`);
* the last loop of the pretty RDF/XML serializer writes the variable `subject`
  where its comment speaks of the blank nodes that are left, so that these may be
  lost, and a cell of a list may be written once more (`Nestable`);
* the same serializer writes a literal that is an item of a collection as a subject,
  so that its text stands in `rdf:about` (`rdfxml.py:287`, `rdfxml.py:367`) and is
  read back as a URI: `ReadsBack` is about the graph with these URIs (`ItemsAsUris`).
  A literal that such lists have twice is written once and lost the second time, since
  it counts as done (`Nestable` leaves these out);
* HexTuples gives a literal without datatype and language the datatype `xsd:string`,
  and its parser keeps it, so that another term comes back, as `test_roundtrip.py:14`
  says; a plain literal and an `xsd:string` become one. `DatasetsReadBack` is about
  the quads with this datatype (`WithDatatypes`);
* the JSON-LD serializer does not write blank nodes that only refer to each other,
  writes a list with two references twice, and adds what graphs with blank names
  hold to the default graph (`JsonWritable`, `MergedByConvert`); TriG writes `[ ]`
  for a blank node that names a graph, where it is an object just once
  (`ObjectOnce`); TriX does not write the name of a graph that is a blank node;
* the parsers of N-Quads and HexTuples remove the default graph of the dataset
  they read into (`Received`); the property reads into an empty one;
* numbers are compared by value and other literals by the name of their datatype,
  so that decimal, duration and integer can be in a circle; and likewise
  ill-typed numbers, NaN, durations of two kinds and spellings of one
  language (`Sortable`). That a plain literal and an `xsd:string` of one text are a
  tie is as in the code: the branch under "plain-literals come before xsd:string!"
  (`term.py:1237`) is never reached, since both have values;
* in `Values`, a product of two numbers with halves is not compared, since a number
  is counted in halves; a value may leave the limits of its datatype (127 + 1 as
  `xsd:byte`) and `1.5e0 * 2` has another datatype than `2 * 1.5e0`
  (`LiteralsAddUp`, `ProductsAgree`); a text such as "TRUE" has a value and is
  ill-typed, so that reading may change that (`ReadingIsStable`);
* in `Durations`, a duration whose months and rest differ in sign, or that is
  negative in both, cannot be written (`WrittenTrue`); a `Duration` without
  months equals a `timedelta` with another hash; a date plus two durations leaves
  the second out, a duration minus a moment is nothing at all, and
  `isCompatibleDateTimeDatatype` misspells `xsd:duration`, so that SPARQL adds none
  to a date or a time (`SparqlAgrees` is about what both allow);
* `del c[0]` of a longer list empties the first cell, and its keys are then off
  by one; `c[len(c)] = x` writes to `rdf:nil`; an item that is false in Python
  cannot be read (`Aligned`, `Keys0`);
* two `Container` objects of one node each count alone; the property is about a
  count that is right;
* a full batch is written when the next triple comes, and a `with` block that
  raises leaves the last one unwritten (`owed` is what a wrapper was given since
  it was entered).

### Fairness

`BerkeleySync` is the only specification with fairness, and only its run has
liveness properties. It is weak and on single actions: `Raise`, since an
operation that has changed the tables goes on to its last assignment; `Notice`,
`Sync` and `Leave`, since the thread wakes up every second, or every tenth of a
second while it counts; `Expire`, since it counts for 300 seconds at most; and
`Join`, since `Thread.join` returns when the thread has ended. Nothing is assumed
of the caller: it may never call the store again, and never close it. That
`sync()` itself does not raise is assumed; `__sync_run` would log the error and
end. The properties of all other runs are safety properties.

## 4. What is proved

Eight modules of proofs, for the parts that have a state of their own. Each part
begins with an invariant that is inductive, which TLC found to hold on the
instance of its run, and ends with the theorems. The constants are any
that meet the assumptions named with each; those that only say which values are
different from which (`None` is no context, `End` no triple) are not repeated
here.

`MemoryStoreProofs` (any sets of triples, patterns, graphs and formulas; graphs
and formulas are different, the whole-graph pattern exists, a pattern has three
positions).

* `Safe`, the inductive invariant, joins the type invariant with
  agreement of the indices and of the two context maps. None of its parts is
  inductive alone: `remove` finds its victims in one map and edits the other,
  so that it keeps them inverse only if they were, and it can delete an entry
  only if there is one. From it: `TypeCorrect` and `AlwaysConsistent`.
* `Asserted` adds to `Safe` that graphs never quote, and that an entry has the default
  graph among its contexts whenever one of them asserts, and never without another
  context. From it: `ConjunctiveAlwaysUnion`; and `MemoryImplementsQuads`, the
  refinement, with one lemma for each operation that says what it does to
  `__contextTriples` and to the flags.
* `RInv`, of any number of generators beside the store. The properties speak of
  generators that have ended; the invariant says of an open one that what stayed
  and was not yielded is in the dictionary it is in, or under a key of the outer
  dictionary it has still to come to. It needs `known`: an inner dictionary that
  has become empty is still there, and a triple may come back under its key.
  From it: `StableNeverMissed`, `YieldedAlwaysHeld`.

`AuditableStoreProofs` (any wrappers, triples, patterns and graphs; all wrappers may
write all quads).

* `IInv` says of every wrapper that it logs and calls for quads it asked for only, and
  that of a quad that no other changed and it did not add back the log is the difference between
  what the store held when the transaction began and what it will hold once the pending
  call is made. Neither is inductive without the other: what a transaction has not asked
  for must have no log when it first asks, and a quad that others have not changed is,
  until then, as it was at the beginning. One lemma for each action, and one for what
  a step of one wrapper does to the history of the others. From it: `LogAlwaysNetChange`,
  `RollbackAlwaysRestores`, `RollbackAlwaysSpares`.

`BerkeleyProofs` (any triples, patterns, graphs and formulas; contexts of
different kinds differ, a triple is one of the patterns and binds all of its
positions, every term has a number of its own).

* `RangeIsMatches`: of the three rotations one has all that is bound at the
  front, so the prefix of a lookup holds every bound position and the range is
  exactly what the pattern matches (`LookupsAlwaysExact`).
* `Tables`, the inductive invariant, joins the types with the agreement of the
  tables, the lists of graphs and the table of contexts. They need each other:
  `remove()` from the whole store finds the keys to delete in the lists, and what
  it finds in one table it deletes from all. From it: `TablesTyped`,
  `TablesAlwaysAgree`, `ListsAlwaysHolders`, `ContextsAlwaysListed`, and the
  refinement `BerkeleyImplementsQuads`, with one lemma for each operation.
* `ReadersInv`, of any number of generators. The keys of a table are in one line
  (`OrderIsTotal`), and every set of keys that is not empty has a first
  (`LeastIsFirst`, which takes the least first position, then the least second,
  then the least third: there may be infinitely many keys). A
  suspended generator has yielded only what comes before the key it holds, and
  what stayed and was not yielded is that key or comes after it. From it:
  `StableNeverMissed`, and `LoopsMayAlwaysRemove`, since a key that has gone is
  one that was removed and not yielded.
* `Announced` joins the types of the two threads with the announcement of
  changes and is inductive: `ThreadsAlwaysTyped`, `ChangesAlwaysAnnounced`.

`LanceIndexProofs` (any finite set of triples whose subjects are numbers, whether they
share subjects and fingerprints or not; any size of the sample, any faults).

* `Disk` says that tables which are not torn have all rows of `written`, whose
  fingerprint is in "meta". `Covering`, of the index in memory, is stronger than
  `IndexCovers` in that it holds also between the two halves of `write`. From them:
  `CachedAlwaysUnlessTorn`, `IndexAlwaysCovers`.
* The first needs what a fingerprint tells of a graph: `SampleShowsSubjects`, that the
  sample of a graph it can take whole has exactly the subjects of the graph, and
  `FingerprintsShowSubjects`, that two such graphs with one fingerprint have the same
  subjects, and so the same rows for them.

`ConcurrentStoreProofs` (any triples and patterns, any finite set of readers).

* `WantedWaits`, that the store, once all that waits is applied, will have the wanted
  triples and nothing else but those that `outlived` has, is not inductive alone: the
  last reader applies the lists and a write without readers goes past them, so it
  needs `NothingWaits`, and this needs `Counted`, that `visitCount` is the number of
  readers on their first walk. From the three, `WritesAlwaysTakeEffect`.
* `InStep`, of each reader: on its first walk nothing it has to walk can leave
  the store, since the store does not change while it is counted; so what was
  stored and stayed wanted has been yielded or is still to walk. From it:
  `YieldedAlwaysWanted`, `StoredNeverMissed`.

`SparqlUpdateStoreProofs` (any triples, graphs, readers, length of the list, and
rules that insert or delete).

* `QueueCompletes` is inductive with the types. `After` is a fold over the list:
  `AfterAppend` says what one edit more does, and `PlainTwiceIsOnce` that a list
  without WHERE clauses comes to the same when it is carried out twice. That is
  the case in which an answer is lost and `commit()` sends the list again; with a
  WHERE clause it would be false, which is what `repeated` marks. Such a list has
  a net change, some quads gone and some come (`PlainHasNetChange`), and to undo
  and redo that is to do it once.
* `WalkOK`: a generator that was called and has not sent its query would get
  now an answer it may give. From it `ReadsAlwaysSeeOwnWrites`.

`SparqlProofs`, of similarity functions (any number of graphs, triples and queries,
whatever keys and texts terms share).

* `IndexOK` and `TopKCached` say of each index that its rows are its chunks, with
  one entry for a key, and of both caches that they are as if computed now.
  `Indexed` says of every component what `KeysScored` says of those that queries
  ask for. From them: `ScoresAlwaysFresh`, `TopKAlwaysOfActive`,
  `KeysAlwaysScored`.

`SparqlProofs`, of updates (any triples, names of graphs, updates, patterns and
templates; both classes of dataset and both defaults). They rest on the assumption
`UpdatesAreWellFormed` of `DatasetUpdates`: names of graphs are none of the words and
of the graphs without a name, and an update has the parts of its kind. Each theorem
has one hypothesis, that the engine does its part: `[]PatternsListed` for
`GraphsAlwaysListed`, `[]PatternsAsDefined` for `UpdatesAlwaysAsDefined`; TLC checks
the stronger one in every state of `dataset` (within `AnswersAsDefined`). So what
the theorems say is that nothing is wrong between the engine and the quads: the
graph an operation works on under each switch, the order of deletions and
insertions, what is emptied before it is read, what a loop finds that changes
what it loops over.

* `Sound`, that a quad is a pair of a graph that is listed and a triple and that no
  name in the list stands for the whole dataset, is inductive, for the graph an
  operation works on is listed with what it adds: `GraphsAlwaysListed`.
* `Clean`, that the dataset is not listed under its own name unless the default graph
  is the union of all, needs `Sound`, and `UpdatesAsDefined` needs both: CLEAR ALL
  and CLEAR NAMED go through the list, where a name that stands for the whole
  would take more than its own quads.
* An update with a pattern is a fold over its solutions in some order, of sets of
  states (`LoopIsARun`, `LoopAppend`). Each round of DELETE/INSERT keeps a bound on
  what is gone and what has come (`ModifyLoop`), for any order; DELETE WHERE finds, in
  what is left, no more than it would have found at first (`WhereLoop`), and with
  one triple all of it (`WhereExact`).
* The lemmas from `ClearedIs` on compare one operation each with its definition, and
  `UpdateAsDefined` joins them.

`GraphProofs`, of namespaces (any managers, prefixes, and namespaces and URIs that
are strings, of whatever characters).

* `Inv` joins `Paired`, that the two tables are inverse, with `TrieOK` of every
  manager: below a key are the keys that start with it and with no key between,
  and every key is below the root. `TablesAlwaysInverse` and `TriesAlwaysNested`
  follow from it, `QNamesAlwaysExpand` and `BindAlwaysKeepsOthers` are action
  properties of its steps.
* `bind` looks for a number that makes a prefix free. The proof does not ask
  whether there is one, only what was tested: the prefix it then uses stood for
  this namespace or for nothing. It does ask that a caller who replaces also
  overrides, as every caller does; otherwise the tables would come apart.
* The walk of `insert_trie` and of `get_longest_namespace` is a recursive function.
  The keys that a string starts with are a chain (`PrefixOrder`), so the walk comes
  to the deepest of them, whatever way it goes (`HomeIsDeepest`,
  `LongestIsDeepest`). `InsertedIs` says that the trie of one key more is made
  from the trie before by one step at that place; `InsertIs`, that a trie does not
  depend on the order in which its keys came, which is why `reset()` gives the
  trie of the namespaces that are bound.

`GraphProofs`, of batches and terms (any triples and size of a batch; any terms that
have the parts of their kind, `TermAssumption`, and names that are in one line,
`NameAssumption`).

* `BatchInv` is `BatchKeepsAll` with the type of what is buffered; `BatchedKeeps`
  says that what is in the graph or buffered only grows by the triple that came. From
  it: `BatchAlwaysKeepsAll`.
* `__gt__`, `__lt__` and `eq` of literals look at numbers, datatypes, languages, values
  and texts in turn, each in its own order and with errors in between.
  `Below` is the one comparison they come to for terms that are `Sortable`, and
  this is a chain. From it `TermsAlwaysOrdered`; no state is involved, so it is
  a fact about the constants.

`GraphProofs`, of lists and containers (any items, any finite set of blank nodes, any
number of members and of `Container` objects). They rest on the assumptions of
`GraphHandles`: `CellsAreNew` (a new blank node is none of the terms in use, and an
item is none of the cells), `MembersDiffer` (`rdf:_1`, `rdf:_2`, ... are told apart)
and `OneKindOfSequence` (a program that `SequenceSpec` describes edits a list or a
container, as the jobs of the run do).

* `SequenceInv` joins what is true of either kind. `ListThere`: there are cells, all
  different, from `List` on; each has at most one item, and one link, to the next;
  the last may be linked to `rdf:nil`, which has no item and no link. A list may
  have a cell without an item, since `del c[0]` empties one and an empty
  list has one. `HandlesSound`: a container is empty before it is opened, and a count
  that no other object can make wrong is right.
* `ItemsAre` and `WayIs` say what the walk of `items` finds from any cell of such a
  list, `PresentStep` and `AppendProperties` what becomes of the items that are there
  when a cell is put in, filled, emptied or taken out. `Extended`,
  `Replaced`, `Shortened` and `MiddleDeleted` say of each operation which list it
  leaves; that the old cells keep their items matters to every `Collection` on an
  inner cell.
* Members that are counted right are `MembersAre`, one for each number up to the
  count; `Slots` is the same with nothing above the count. `+=` of a
  list, and moving members one after the other, are recursive functions; what each
  has done after a number of steps is shown by induction over the steps. Members
  must be moved from the end that is free: the lemma for an insertion counts down, that
  for a deletion counts up.
* `ListsStepHolds` and `MembersStepHolds` join the operations, and
  `SequencesAlwaysAsPython` follows from them and the invariant.

Recursion and folds. The induction theorems of the library cannot be used, since
they take an operator as a parameter. A statement about one recursive function or one
fold is the statement that a set, of the numbers or lists for which it is true,
is all of them, and this is first-order: `LeastExists` and `LeastNumber` take from
`WFMin`, of the library, that a set of numbers has a least one, and `Induction`,
`ListInduction`, `EveryNumber` and `EveryList` look at the least exception.

For the proofs some definitions were put in a form that can be reasoned about
without a change of what they say, and assumptions were named that the instances
meet: a reader's `Yields` in two parts, `OneForKey`, the actions `FreshExpand`
and `OthersKept` that `QNamesExpand` and `BindKeepsOthers` box, the modules
`DatasetUpdates` and `GraphHandles` apart from the recursive ones, loops of updates
as folds over sets of pairs of a graph and a triple, the walk along the cells of a list
as a recursive function of the number of steps, and
`PatternsAreTriples`, `TermsAreInterned`, `RulesInsertOrDelete`,
`ReadersAreFinite`, `UrisAreStrings`.

Model-checked only:

* liveness: that changes are written and `close()` returns, in `BerkeleySync`;
* what the SPARQL engine answers (`AnswersAsDefined`), paths and walks
  (`PathsAsDefined`), canonical forms (`CanonicalForms`), what serializers write and
  parsers read (`ReadsBack`, `DatasetsReadBack`), and literals (`LiteralsAsDefined`). The
  operators they are about are recursive, since algebra, paths, lists, texts and
  digits are: what they compute for every input is an induction over data, and the
  SMT backend is lost in a module that reaches a recursive operator.

## 5. Not modelled

Hashing, pickling, formatting and embedding arithmetic; the HTTP exchange of
`SPARQLStore`; the grammar of SPARQL and the formats of results, hashes and regular
expressions among its functions, SERVICE, FROM, CONSTRUCT and DESCRIBE, LOAD and
USING; the characters of the texts that parsers read, the layout, prefixes and base
URIs of what serializers write, contexts of JSON-LD; lexical forms other than those of
`Values`; the tables of names in `rdflib/namespace`; the `REGEXMatching` store and
`ReadOnlyGraphAggregate`, which keep no state; convenience layers under
`rdflib/extras` and `rdflib/tools`. Threads in `ConcurrentStore`: the module is about
one thread with several generators. `PROJECT.json` gives the reason for each part
under `components`.

## 6. Plan

1. Proofs. The pure lemmas of `Durations`, such as that a shift by months keeps to
   the calendar; what the formats without nesting (N-Quads, TriX) read back.
2. Models: threads in `ConcurrentStore`; contexts of JSON-LD.
