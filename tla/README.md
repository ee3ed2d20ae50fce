# Specifications of attribute-graph

TLA+ modules for the Rust crate in `src/`: an attribute graph keeps source values
and derived values, finds out what a rule depends on by watching what it reads,
and recomputes lazily. The modules follow the code; where they depart from its
letter, the sections below say so.

## The system

| Part | Code | State it keeps | Operations |
| --- | --- | --- | --- |
| Graph core | `src/src/graph.rs`, `node.rs`, `dependency.rs`, `value.rs`, `error.rs` | node map (kind, state, cached value, rule, active dependencies), `dependents`, `pending_edges`, `evaluation_stack`, `next_node_id` | `add_source`, `add_derived`, `set_source_value`, `mark_changed`, `remove_node`, `read_value`, `update_node`; under them validation, recomputation, commit, `mark_changed`, `mark_unchanged` |
| Rules | `src/src/rule.rs`, `EvaluationContext` in `graph.rs` | the body of a rule, owned by whoever has its descriptor | a callback that reads through the context, sets an output, returns an error or panics; a destroy callback |
| Typed layer | `src/src/attribute.rs`, `value.rs` | none but the types of the handles | `add_static_attribute`, `add_dynamic_attribute`, `set_static`, `read`, `update_dynamic`: encode and decode around the untyped calls |
| Subgraphs | `src/src/graph/subgraphs.rs`, `subgraph.rs` | forest of ownership regions, stack of construction scopes | `create_subgraph`, `with_subgraph`, `build_subgraph`, `remove_subgraph` |
| Identities | `src/src/identity.rs` | one atomic counter per process | `next_graph_id` |
| Snapshot diff | `src/diff/src/{change,timeline,snapshot}.rs` | the snapshots, diffs and labels of a session | `label_node`, `label_subgraph`, `capture`, `between` |
| Diff presentation | `src/diff/src/{render,main}.rs` | none | text, Mermaid and Graphviz output; arguments |

The graph calls the rules and the rules call the graph: `read_value` validates a
node, which validates its dependencies, which may run callbacks, which read other
nodes, which validates those. Everything happens on one thread and on one call
stack, with no step of it atomic as far as the other frames of that stack are
concerned. That is what is hard here: a frame acts on what it saw before a nested
call changed the graph. Failures are the second difficulty: an error or a panic
leaves several frames at once, in the middle of what they were doing, and the
graph is used again afterwards. `PROJECT.json` lists each such place under
`hazards` with the properties that watch it.

What makes each part correct:

* core: the two copies of the edges agree, are acyclic and only touch live nodes;
  staleness reaches every descendant of a change and is never lost; a cache that
  is handed out is current; every call returns, and leaves a usable graph however
  it ends;
* promise: what a consumer reads is what calculating the cell from scratch gives;
* subgraphs and rules: ownership is a forest that mirrors the nodes' owners, a
  failed build leaves nothing behind, a removed region has no edges into the
  survivors, each rule body is destroyed once, after the structure around it is gone;
* typed layer: a handle never meets a value of another type, what is written is
  what is read, and a change that a reader can see is never cut off;
* identities: no two graphs of a process have the same id;
* diff: the changes lead from the earlier snapshot to the later one, nothing is
  reported twice, and what is shown has every item once, under its latest label.

## Modules

| Module | Contents |
| --- | --- |
| `DependencyGraph` | the graph as data, and what the traversals compute: `has_path`, `mark_changed`, `mark_unchanged` |
| `AttributeGraph` | the state machine: the graph, the call in progress, the calls of the consumer (`Request`) and the steps of the recursion (`Continue`) |
| `GraphProperties` | what it keeps true |
| `AttributeGraph_proofs` | theorems about types, edges, cycles, `evaluation_stack` and the recursion, with their proofs |
| `Freshness_proofs` | theorems about staleness and caches, for rules with older handles, with their proofs |
| `MCCallbacks` | instance: callbacks that may do anything |
| `UpdateOutcomes` | `AttributeGraph` with what `update_node` reports to its caller |
| `MCUpdateOutcomes` | instance: `UpdateOutcomes` with the rules of `MCSpreadsheet` |
| `Spreadsheet` | the abstract specification: cells, writes, requests answered with the value calculated from scratch or refused |
| `SpreadsheetRefinement` | `AttributeGraph` implements `Spreadsheet` |
| `MCSpreadsheet` | instance: deterministic rules after those of the repository's tests |
| `Answers_proofs` | theorems about what the callers get: the refinement, fresh caches, the outcomes of updates, with their proofs |
| `Traversals` | the walks of `graph.rs` and `topological_order`, an iteration at a time, against `DependencyGraph` |
| `Traversals_proofs` | theorems about these loops, for any finite graph, with their proofs |
| `Subgraphs` | `GraphProperties` with ownership regions, construction scopes and builds |
| `RuleLifetimes` | `Subgraphs` with the owners of the rule bodies and their destruction |
| `Subgraphs_proofs` | theorems about the regions and about the owners and the destruction of rule bodies, with their proofs |
| `OlderRules` | the rules of the next two instances |
| `MCSubgraphs` | instance: regions over a small graph |
| `MCRuleLifetimes` | instance: rule bodies under regions |
| `Values` | the encodings of `bool`, `i64` and `String` |
| `TypedAttributes` | `AttributeGraph` with the typed calls beside the untyped ones |
| `MCTypedAttributes` | instance: typed and untyped rules along a chain |
| `TypedAttributes_proofs` | theorems about the typed calls and the encodings, with their proofs |
| `DiffSession` | `Subgraphs` with a session that labels, captures snapshots and diffs them |
| `Rendering` | `DiffSession` with the names a text gives and the contents of a drawing |
| `MCDiffSession` | instance: two captures, some labels |
| `DiffSession_proofs` | theorems about snapshots, diffs, names and drawings, with their proofs |
| `Identity` | threads that allocate graph ids from one atomic counter |
| `Identity_proofs` | theorems about it and their proofs |

### State

The node map is kept a field at a time (`kind`, `state`, `value`, `rule`,
`active_dependencies`), `"Absent"` standing for an id without a node. `dependents`,
`pending_edges`, `evaluation_stack` and `next_node_id` are the fields of
`AttributeGraph` of those names. `call`, `frames` and `returning` are the Rust call
stack: a frame is what `validate_derived_node` keeps in its loop (`todo`,
`dependency_changed`) or what `recompute_derived_node` keeps while the callback
runs (`old_value`, and `dependencies_read` and `seen` of the `EvaluationContext`).
`consumed` is a history variable: the values that the committed evaluation of a
node had read. No guard looks at it.

A step of `Continue` is what the top frame does until it calls or returns:
`ValidateDependency`, `DependencyValidated`, `ValidationRecomputes`,
`ValidationSettles`, `ValidationFails` for a validation loop; `RuleReads`,
`RuleObserves`, `RuleFails`, `RulePanics`, `RuleUnwinds`, `RuleRefused`,
`RuleCommits` for an evaluation; `ReturnToCaller` at the end. `&mut self` keeps
the consumer out until then (`Idle`), and a callback can only read, so the calls
that write are single steps.

A callback is not code here but what it may do next, given what it has seen:
`Reads`, `Returns`, `Fails`, `Panics` and `Catches` are constants. `Catches` says
whether it catches the panic of a nested read: then it has seen an error where a
value would be and goes on, with the evaluation below it taken off the stack, as
`recompute_derived_node` does before it resumes the unwinding. An output set before an
error or a panic is dropped by the code and not represented; of several
`set_output` calls the last one counts, so one output at the end is enough.

### Traversals

`mark_changed`, `mark_unchanged` and `has_path` walk with a queue or a stack and a
`seen` set. Such a walk computes the least set that contains where it starts and
is closed under its step, whatever the order. `DependencyGraph` writes that set
down directly (`Downstream`, `Settled`), and `AttributeGraph` takes a walk as part
of the step that calls it: nothing else runs during one. `Traversals` has the loops
themselves, one iteration a step, with the queue, the stack and the `seen` set of
the code, and compares what they leave with the closed forms on every acyclic graph
of four nodes. For `mark_unchanged` this is not obvious: a dependent is passed over
while another edge into it is pending, and must be met again when that edge goes. `VisitedOnce` shows that the `seen` set
of that walk never stops it, so the closed form has nothing to say of a node met twice.

### Regions

`Subgraphs` adds the fields `subgraphs` (with `parent`, `children`, `nodes` of each)
and `construction_subgraphs`, and `closures`, the closures of `with_subgraph` and
`build_subgraph` that are on the Rust call stack. A closure gets the whole graph, so
between two steps of it every operation of the consumer may happen, further closures
and the removal of any region included; `CloseScope` ends the one on top with a
value, an error or a panic. `remove_subgraph` is a sequence of steps after its
checks (`removal` holds its locals): a `RemoveNode` for each member, dependents
first, then the regions. A call that is refused changes nothing and is no step. A
panic that the application does not catch ends the closures one by one.

### Rule bodies

`RuleLifetimes` says for each body who has its descriptor (`holder`): the provider,
the node map, the application (a node that `remove_node` returned), the vector of
`remove_subgraph` (`"condemned"`), or nobody after its `Drop` has run, which
`destroyed` counts. Descriptors move with the nodes: every step of `Subgraphs` that
takes nodes out of the map takes their rules along (`MoveRules`). The drop loop at the
end of `remove_subgraph` and the drop of the graph itself are steps of their own
(`DropRemovedNode`), since a destroy callback is code of someone else. The order in
which a vector or a map drops its elements is left open; no document promises one.
A rule without a destroy callback has nothing to follow and no body here.

### Typed calls

A handle `Attribute<T>` is an id; its type exists at compile time only, and the model
keeps it in `handle_type`. Typed calls are the untyped ones with `IntoStorage` before
or `Decoded` after them, and the untyped calls go on beside them on the same nodes. A
rule that holds typed handles can only be written once they exist (`HandlesExist`).
`Values` has the encodings themselves, two's complement in `Width` bytes of `Base`
values each, and of UTF-8 the characters of one byte.

### Outcomes

`UpdateOutcomes` follows the `UpdateOutcome` of the node that the caller asked for.
Every evaluation makes one; those of nested evaluations are dropped by
`validate_node_for_read` except for `value_changed`, and `read_value` drops its own.
`before` is a history variable.

### Snapshots

`DiffSession` takes the snapshot as the inspection functions of the graph report it,
and `between` from it. The diff reports nodes, regions and edges that came and went,
states, values and edge states, but neither the lists that a node or a region keeps
nor the pending edges, and of the labels only the latest of each item. `After` works
the later snapshot out from the earlier one and from these, as a reader of the diff
has to. A session that ends is stopped by the bound on the captures.

`Rendering` takes a text for the set of its lines, a line for the names it contains
(an id and the label that goes with it), and a drawing for its items with the boxes
around each, whichever of the two languages it is written in. So an item that is drawn in
two places is two items, while one drawn twice in the same place would be one: the code
cannot do that, since what is in a box comes from the keys of a `BTreeMap` or from the
`HashSet` of a region's nodes or children. Nothing else of the
layout matters to the properties.

### Ids

`fetch_update` is a load and a compare-exchange that is repeated until it succeeds.
With `Relaxed` ordering a load may return an older value, not older than what the
thread has read before (`latest`), and a weak exchange may fail without reason. All
threads start from the first value.

## What is checked

| Run | Instance | Properties |
| --- | --- | --- |
| `any_handles` | 3 nodes, rules that hold every handle, a foreign one and their own included, and read any two of them | `TypeOK`, `EvaluationStackMirrorsFrames`, `OldValueStillCached`, and under fairness `CallsReturn` |
| `crossed` | 4 nodes, two rules that hold each other's handle | `EdgesMirror`, `Acyclic`, `StaleEdgesPending`, `SuccessLeavesNodeClean` |
| `weave` | 4 nodes, 1 reads 0, 2 reads 0 and 1, 3 reads 1 and 2 | `CleanIsCurrent`, `EvaluationReadsStayCurrent`, `EvaluatingNodeIsDirty`, `DirtyNeedsEvaluation` |
| `layers` | 5 nodes, deterministic rules, two sources | `CleanIsFresh`, `ReadsAreFresh`, `OutcomeTellsTheDifference` |
| `newer_handle` | the same with a rule that holds a newer node's handle | `CleanIsFresh`, violated |
| `fallback` | a rule that catches the error of a read | `CleanIsFresh`, violated |
| `traversals` | all acyclic graphs of 4 nodes, all staleness they can have | `TypeOK`, `MarksAsSpecified`, `VisitedOnce`, `PathAsSpecified`, `OrderIsTopological`, `StalenessKept` |
| `regions` | 2 nodes, 3 regions, closures nested three deep | `SubgraphTypeOK`, `OwnershipMirror`, `OpenScopesExist`, `RollbackNeverRefused` |
| `teardown` | 3 nodes, 2 regions, one closure at a time, 2 rule bodies | `SurvivorsInvalidated`, `RulesOwnedOnce`, `DestroyedAfterDetachment`, and under fairness `RemovedRulesDestroyed` |
| `typed_attributes` | 3 nodes, i64 of two bytes of four values, encodings of the wrong type and length | `HandlesKeepTheirType`, `WritesReadBack`, `ChangesReachReaders` |
| `diff_session` | 2 nodes, 2 regions, 2 captures, labels | `DiffLeadsToNextSnapshot`, `DiffIsConsistent`, `TimelineIsDrawn`, `NamesAreLatest` |
| `identity` | 3 threads, 5 ids, graphs of one node | `TypeOK`, `GraphIdsUnique`, `ForeignHandlesRefused` |

In the first three runs a callback reads any handle it holds, in any order, stops
at any point, and returns either of two values, sets no output, fails or panics, or
catches the panic of a nested read. Each run takes what its properties are about from
this. In `any_handles` a callback does all of it, with at most two reads in one
evaluation (`TwoReads`): of itself and of another node, of two nodes, of one and the
foreign handle. In `crossed` and `weave` the number of reads is not bounded, and a
callback ends with a value or an error: what a panic or a missing output leaves of the
graph is what an error leaves, and `any_handles` shows that the stack is the same too. In
`crossed` it ends with a value only after it has read something, and goes on after a
failed read or not; in `weave` it reads with `?`, so that a failed read ends it. In
`layers` the rules compute something, so that a fresh value means something, and
the graph is compared with `Spreadsheet` step by step.

Bounds. The theorems below state every one of these properties but the two of liveness
for all values of the constants; so an instance needs to be large enough for the
interesting cases to happen, and for a fault in the code to show, and no larger. Ids are handed out in order, so an instance of n ids covers every graph of
up to n nodes built in any order with creations, writes, removals and reads in
between; a removed id does not come back, as in the code. Three nodes give a cycle
through a validation loop; four give two crossed rules, and in `weave` both shapes in
which a node is reached along two paths, of equal and of different length, one on top
of the other (a callback may leave out any read, so its subgraphs are there as well); five give two layers above
two sources. Two values are enough to make a value change and change back, and
rules never look at more than equality or order of two. One foreign handle stands
for all. Nothing else is bounded: the number of calls, failures, retries and
writes is not.

For the regions: three give a chain and a pair of siblings, three nested closures
(`MaxDepth`) a build inside a scope inside a build, which is what the rollback and
the in-use check are about; they need nodes only as members. `teardown` has the
third node for edges that cross the boundary in both directions, and leaves the nesting of
closures to `regions`. Two bodies (`Body`)
are a body for each derived node, or one that is rejected and one installed. The diff compares
two snapshots at a time and keeps nothing else, so two captures (`MaxCaptures`) are
enough, and after the second the instance stops. That run and `teardown`, where a graph
that has been dropped is the end, are the only ones that do not check for deadlock.
The node with the rule is labelled before the first capture and labelled anew before the
second, and the second region is labelled before the second capture only, or they are not: so
labelled, relabelled and unlabelled items are there. The source is something to depend on and has one value; what changes a
cached value is the rule, which returns another one when it has read the source.
In `typed_attributes` a byte has four values (`Base`) and an i64 two bytes (`Width`),
enough for a sign, for the extremes, and for malformed characters (the upper half); the
first rule of the chain is a typed reader, an untyped one or one of the wrong type, the
second, which nothing reads, a typed one of every type. `Identity` is bounded by `MaxId`, the end of `u64` in the
code, which three threads reach; `MaxNodes` bounds the nodes of a graph, which only
serve to have equal numbers in two graphs. `traversals` needs four nodes for a
dependent with two pending inputs that settle at different distances.

Fairness. `FairSpec` adds weak fairness of `Continue` and of nothing else: the
code is sequential, a call that has begun is executed until it returns, provided
that the callback in it does. Nothing makes the consumer call. `LifetimeSpec` adds weak fairness of `Teardown`, the
rest of a `remove_subgraph` that has begun, for the same reason; when an application
drops a node that it was given is its own business. The callbacks of
`MCCallbacks` read a handle at most once in an evaluation, which makes them finite;
`CallsReturn` says that then the recursion is, cycles and failures included.

### The two disagreements

`newer_handle`: a MaybeDirty node validates its dependencies in the order of their
ids. If an older one of them reads a newer one, the newer one is recomputed inside
the validation of the older, and makes the node Dirty. Its own turn then reports
"unchanged" (it is Clean by now) and `mark_clean` overwrites the Dirty. The node
stays Clean with a stale cache. This needs a rule that holds the handle of a node
created after its own, for instance by looking it up when it runs; with handles of
older nodes only (`OlderHandles`), a dependency that another one reads comes first
in the loop, and `CleanIsCurrent` holds. With more of such rules (it takes six over one source)
the loop may end on dependencies that a nested evaluation of the node has replaced
meanwhile: then the node is Clean above a Dirty dependency, against `StaleEdgesPending`
and `SuccessLeavesNodeClean`. The two rules of `crossed` are too few for that. The cycle checks of the graph are there
for the same kind of rule: with `OlderHandles` there is no cycle to find.

`fallback`: a dependency is recorded when its validation has succeeded, so a rule
that returns a default when a read fails is Clean without an edge to the node it
tried. When that node recovers, the rule is not run again. `layers` has no such
rule: there, an error that a rule gets from a read is the error it returns.

Two more things came up that no document denies. A MaybeDirty node is refused when
one of its committed dependencies fails, also if its rule would not read that
dependency any more. And with newer handles a node may be evaluated again right
after a nested call has made it Clean; `commit_dependencies` refuses that
evaluation when it would close a cycle, and `EvaluatingNodeIsDirty` does not hold
for it. Such a second evaluation also makes the `UpdateOutcome` that the caller gets, as
`README.md` of the crate says ("latest recomputation"): it is then relative to the first
one and not to what the caller knew, which is why `OutcomeTellsTheDifference` is about
`layers`, where no rule holds a newer handle.

## What is proved

`AttributeGraph_proofs`, for every `NodeId` (a set of naturals), every set of
values and rules and every behaviour of the callbacks, from `NodeIdAssumption` and
`ConstantsAssumption` alone:

* `CallsWellFormed`: `Spec => []CallInv`;
* `TypeCorrect`: `Spec => []TypeOK`;
* `EdgesAgree`: `Spec => []EdgesMirror`;
* `NoCycles`: `Spec => []Acyclic`.

`TypeOK` is not inductive. That `RuleObserves` hands a value to a callback, and
that what it records is a node, depends on the frame above having been about the
node that the callback asked for. `CallInv` says so: frames are about derived
nodes of the graph (`FramesLinked`), a callback waits for the node of the frame
above it, a result "ok" that is about to be delivered is about a node that exists
(`ReturningOK`), and nothing is left over between calls (`IdleOK`). The proof has
one lemma for each of the three ways in which a step changes the frames
(`EnterInv`, `ReturnInv`, `ResumeInv`) and one step per action above them.
`EdgesMirror` is inductive with `CallInv` (a callback has only recorded live nodes,
for a derived node) and with `NextIdUnused` (a fresh id has no edges yet).
`Acyclic` is inductive with `EdgesMirror`: of a set of nodes in which each depends on
another of the set, after a commit of n, the members that n does not reach were such a
set before it, and there are some, because `has_path` found no way from n to what n has
read; reaching goes from a node to its dependents. Nothing is assumed of the handles, so the theorem covers the rules of `crossed`.

Also in `AttributeGraph_proofs`, from the same assumptions:

* `StackFollowsFrames`: `Spec => []EvaluationStackMirrorsFrames`;
* `OldValuesHold`: `Spec => []OldValueStillCached`.

The first says that `evaluation_stack`, which the graph keeps for cycle detection, agrees with
the recursion itself. With `CallInv` and the stack's having no node twice it is
inductive: `Recompute` pushes on both only what is not there, and each end of an
evaluation (a commit, a refusal, an error, a panic, an unwinding) pops both. The lemmas
under it count the callbacks among the first frames of a stack when one is pushed,
popped or replaced by a frame of the same kind. The second follows from it: the one step
that stores a value is the commit of the callback on top, and no callback that waits is
that of the same node (`EvaluatedOnce`).

`Freshness_proofs`, from the same assumptions and `OlderHandles` (every rule holds
handles of nodes older than its own; `newer_handle` shows why it is needed):

* `CachesCurrent`: `Spec => []CleanIsCurrent`;
* `StalenessPending`: `Spec => []StaleEdgesPending`;
* `ReadsAreClean`: `Spec => []SuccessLeavesNodeClean`;
* `ReadsHold`: `Spec => []EvaluationReadsStayCurrent`;
* `EvaluatingStaysDirty`: `Spec => [](EvaluatingNodeIsDirty /\ OldValueStillCached)`;
* `DirtyIsEvaluated`: `Spec => DirtyNeedsEvaluation`.

None of these is inductive alone. `FreshInv` puts together what a node keeps
(`NodesOK`), that edges lead to older nodes (`EdgesDescend`), `StaleEdgesPending`,
`CleanIsCurrent`, and what the frames have in common (`StackOK`). The argument: since
edges lead to older nodes, each frame of a call is about an older node than the frame
below it, and everything that waits is newer than what runs. A node that is Clean stays
Clean with its value as long as the call lasts: what a commit marks depends on the node
that commits, which was stale, and staleness had reached every dependent before. So the
dependencies that a validation has gone through, and those that a callback has read, are
Clean with the same values when the frame ends, and its node can be called Clean. A node
becomes Dirty in the middle of a call only if the dependency it waits for has changed,
and that is reported to it when that dependency's frame returns. `Downstream` and
`Settled` come in through the lemmas at the head of the module, which say that the
marks they leave keep `StaleEdgesPending`.

`Answers_proofs` has what the callers of `read_value` and `update_node` are given. From
the assumptions above, `PromiseAssumption` (finitely many ids, and `None` distinct from
cells and answers) and `SoundRules`:

* `CachesFresh`: `Spec => []CleanIsFresh`;
* `GraphIsSpreadsheet`: `Spec => ReadsAreFresh`, that is `Spec => Promise!Spec`.

`SoundRules` asks three things of the rules: handles of older nodes only, one thing to do
at each point (`Deterministic`, without which "the" value of a cell has no meaning), and no
output after a read that failed (`NoFallback`). The two runs that expect a violation,
`newer_handle` and `fallback`, break the first and the last and nothing else, so neither
can be dropped; `layers` satisfies all three, and `MCSpreadsheet` has TLC evaluate
the last two. Rules may fail, panic, omit their output and give one of the wrong type.

`CachesFresh` follows from `FreshInv` and what a callback has seen. Its reads determine each
other, so what it has seen is reached from nothing a read at a time, along the handles it
has recorded, and so is what the committed evaluation of a node had seen (`RunInv`).
A committed evaluation has seen no failure, hence only values, all of them recorded. If some
Clean node were not fresh, take the one with the least id: its dependencies are older
and Clean, so they hold what calculating them from scratch gives; so the calculation
of the node sees what its committed evaluation has seen, and ends as it did. That
calculating from scratch is well defined is itself a consequence of the order of the ids
(`ResultsAreCalculated`, where it is needed that they are finitely many). In the
refinement each call of the consumer has a step: creating, writing and removing are
those of `Spreadsheet`, `Ask` is the request, the step that empties the frames is
`Work`, and all that goes on between them leaves the cells,
the request and the answer as they are. An answer "ok" is about a Clean node
(`SuccessLeavesNodeClean`), which is fresh. A refusal is an answer that `Spreadsheet`
always allows.

From the assumptions of `Freshness_proofs`, in the same module:

* `OutcomesTellTheDifference`: `OutcomeSpec => []OutcomeTellsTheDifference`.

Nested evaluations are of older nodes, so until its own commit the node of the call has
the dependencies and the value that the caller left it with, and nothing is reported
(`CallMade`); its commit is the last step of the call. That the dependents are Dirty and
still those of the node when the caller gets to see them comes from `Freshness_proofs`.

`Traversals_proofs`, for every finite graph without cycles and every staleness it can have,
from `TraversalAssumption`:

* `WalksTyped`: `Spec => []TypeOK`;
* `MarkingIsAsSpecified`: `Spec => []MarksAsSpecified`;
* `SettlesOnce`: `Spec => []VisitedOnce`;
* `PathIsAsSpecified`: `Spec => []PathAsSpecified`;
* `OrderIsRight`: `Spec => []OrderIsTopological`;
* `StalenessIsKept`: `Spec => []StalenessKept`.

These justify taking a walk of the graph as one step with a closed form. The invariant of
each loop says what is in its queue, what it has seen, and that the rest is as it was.
`mark_changed` and `has_path`: what has been seen is reachable, and closed under the step
but for what the queue still holds (`MarkChangedInv`, `HasPathInv`), so that an
empty queue leaves the least closed set. `mark_unchanged` (`MarkUnchangedInv`): the edges it has taken
off are those out of the nodes it has dealt with, a node is Clean or queued exactly if its
last pending edge is gone, and therefore queued once; and what has been settled is
in every set that is closed in the sense of `Settled`. `topological_order` (`OrderInv`): an in-degree counts
the dependencies that are not in the order yet, so what is ready is what the queue
holds, in the order of the ids; the absence of cycles gives a ready node as long
as one is left.

`Subgraphs_proofs`, for any nodes, regions and depth of nesting, from the assumptions of
the graph and of `Subgraphs`:

* `RegionTypes`: `SubgraphSpec => []SubgraphTypeOK`;
* `OwnershipAgrees`: `SubgraphSpec => []OwnershipMirror`;
* `ScopesHaveRegions`: `SubgraphSpec => []OpenScopesExist`;
* `BuildsRollBack`: `SubgraphSpec => []RollbackNeverRefused`;
* `SurvivorsAreDirty`: `SubgraphSpec => []SurvivorsInvalidated`.

Every step of the regions is a step of the graph or none (`SubgraphNextIsNext`), so
`CallInv` and `EdgesMirror` hold here as well. `RegionInv` adds two things to the
invariants above. Region ids grow from parent to child, and the region of a build is
newer than every scope opened before it (`RegionIdsOrdered`): that is why no open
scope is in the subtree that a rollback takes back. And while regions are being removed
(`RemovalOK`), what is left to remove are the members of a subtree that is closed under
`children` and that no open scope is in, and the survivors that have lost an edge are
Dirty and keep out of it.

Also in `Subgraphs_proofs`, for any bodies, nodes, regions and callbacks, from the same
assumptions and that of `RuleLifetimes`:

* `RulesHaveOneOwner`: `LifetimeSpec => []RulesOwnedOnce`;
* `DestroyedWhenDetached`: `LifetimeSpec => DestroyedAfterDetachment`.

`LifetimeInv` says that the bodies in the map and the derived nodes of the graph pair up,
that a body outside the map is the rule of a node that is gone and whose id will not be
used again. The second theorem needs `PendingAreEdges` of `AttributeGraph_proofs`: what
`pending_edges` holds are edges of the graph, so that it loses those of a node with the
node. After the graph is dropped there is no call and nothing in the map.
Every step is one of the regions or leaves them alone (`LifetimeNextIsSubgraphNext`), so
the invariants of the regions hold here.

`Identity_proofs`, for every set of threads, every end of the id space and every
number of nodes, from `IdentityAssumption`:

* `CounterInRange`: `Spec => []TypeOK`;
* `IdsUnique`: `Spec => []GraphIdsUnique`;
* `ForeignRefused`: `Spec => []ForeignHandlesRefused`.

`GraphIdsUnique` needs that all ids are below the counter (`IdsBelowCounter`): a
successful exchange hands out the counter's value, which no graph has, and moves the
counter on. That nothing is said about `prev` and `latest` beyond their types is the
point of the proof: whatever a thread has loaded, the exchange decides.

`TypedAttributes_proofs`, for every `NodeId`, `Storage`, rules and callbacks, every
`Base` and `Width` of the encodings and every set of values of each type, from the assumptions
above and `TypedAssumption` (what is written has the type of the handle, and what is encoded
is a `Storage`):

* `HandlesTyped`: `TypedSpec => []HandlesKeepTheirType`;
* `WritesComeBack`: `TypedSpec => []WritesReadBack`;
* `ChangesAreRead`: `TypedSpec => ChangesReachReaders`.

The inductive invariant `TypedInv` needs more than the handles: a source always has a
value to compare a new one with, and the rule of a derived node declares the type of
the handle (`TypesAgree`); an id that has not been handed out has no handle
(`HandleTypeOK`), no node (`NextIdUnused`) and no value (`AbsentEmpty`); and a commit
is about the node of the frame on top (`CallInv`). Every step of `TypedNext` is one of
`Next` (`TypedNextIsNext`), so what `AttributeGraph_proofs` says of those holds here.
`WritesComeBack` adds that what was written is what is stored (a source changes by writes
only), and that decoding inverts encoding: after k bytes the sum of `as_i64` is the
remainder of the number by the k-th power of the base, and the sign is put back
by the upper half. For `ChangesAreRead`, a change that `MeaningfullyChanged` cuts off
leaves the type and the bytes as they were, which is all that a reader decodes; any other
change goes through `mark_changed`, and the value that a commit compares with is the
cache (`OldValuesHold`).

`DiffSession_proofs`, for any graph, any number of captures, any labels and any depth of
nesting, from the assumptions of the graph and of `Subgraphs` and `SessionAssumption` (a
label is a string, so that what has one keeps having one):

* `DiffsAreComplete`: `SessionSpec => []DiffLeadsToNextSnapshot`;
* `DiffsAreMinimal`: `SessionSpec => []DiffIsConsistent`;
* `TextNamesLatest`: `SessionSpec => []NamesAreLatest`;
* `TimelinesAreComplete`: `SessionSpec => []TimelineIsDrawn`.

The first two are facts about two snapshots, though not about any two: a diff does not
mention what a snapshot says twice (the lists on its nodes and regions), nor what an item
of both snapshots keeps (its kind, its region, the parent of a region). So the
invariant `SessionInv` says two things of the snapshots of a session.

* Each fits together (`WellFormed`). That is the state of the graph between two calls
  (`GraphInv`): `EdgesMirror`, `OwnershipMirror`, `PendingAreEdges` and
  `RegionIdsOrdered` hold there (`SnapshotWellFormed`).
* Each leads on from the one before (`Succeeds`): whatever is done to the graph after a
  capture, an item of it that is still there is what it was (`IsLeftOf`), because ids
  are not used twice (`NodesStay`, `RegionsStay`), and has a label if it had one.

`BetweenLeads` replays a diff of two such snapshots, `BetweenIsMinimal` and `ReportedOnce` read it the
other way. For `NamesAreLatest`, the labels that a diff collects are those of the later
snapshot and, for what is gone, of the earlier one (`LabelsAreLatest`); then each
line is gone through.

A region is drawn by a recursive call from its parent, and the path that the property gives it
is followed from the child. That both exist, as functions over the regions of
a snapshot, is because the id of a child is greater than that of its parent (`BoxesAreRendered`,
`PathsAreFollowed`). What is drawn in a box is on the path that leads
there (`BoxesPlace`, from the greatest id down), and every member of a region is
reached from the root above it (`BoxesAreReached`, from the least id up). In a timeline the
prefix of an item keeps the snapshots apart (`TimelinePlaced`).

Induction has no theorem of its own here: the library's induction theorems cannot be instantiated. The
proofs that need it (a recursive function, a sum over bytes, a chain of reads, boxes
within boxes) take the set of
the numbers for which the claim fails and its smallest element (`UpTo`, `Steps`), or
a set of nodes without a member that depends on none of the others.

Only model-checked are `CallsReturn` and `RemovedRulesDestroyed`: liveness is out of the
prover's reach.

## Not modelled

* Destroy callbacks that panic (rule 8 of the provider contract forbids it), and the
  order of destructions among the rules of one region or one graph.
* A construction closure that swaps the graph it was given for another one
  (`std::mem::swap` on the `&mut`).
* Characters of more than one byte in a `String`: `from_utf8` accepts or refuses.
* The node and region counters reaching 2^64: the code panics before it changes
  anything, and the model has no step there.
* Of snapshots `value_type` and `debug_name`, which are fixed when a node is created;
  the order in which a diff lists its changes.
* Of `render.rs` wording, escapes, colours and the order of lines. `main.rs` parses
  arguments, builds demonstration graphs and writes what `render.rs` returns.
* The patterns of `docs/ui-consumer-contracts.md`, which are conventions of other code.

## Plan

Every module of the plan is there, and every invariant and action property that a run checks
is proved as well; the two liveness properties stay with TLC.
