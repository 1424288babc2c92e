--------------------------- MODULE ConstantFolding ---------------------------
(***************************************************************************)
(* Constant folding by execution (constant_folding.cpp), both the          *)
(* ModelProto folder _FoldConstant and the Graph-resident one              *)
(* _FoldConstantOnGraph; `native` says which of the two a behaviour runs.  *)
(*                                                                         *)
(* One call is a round: scan the nodes in order and classify them          *)
(* (GetConstantNodes), run the constant ones in batches through the        *)
(* executor, bisecting a batch that fails (FoldGroup), then rebuild the    *)
(* node list and sweep the initializers nobody reads.  Rounds repeat while *)
(* the caller sees a change, with shape inference in between.              *)
(*                                                                         *)
(* A node has one output, and node and output share one name.  Values are  *)
(* left out: a node either runs in the executor or it does not.            *)
(***************************************************************************)
EXTENDS Integers, Sequences, FiniteSets, FiniteSetsExt, SequencesExt

CONSTANTS NodeIds,       \* the nodes of the model handed to the folder
          Fresh,         \* names Graph::getNextUniqueName may return
          GraphInputs,   \* the names of the graph's inputs
          Weights,       \* the names of its initializers
          GraphOutputs,  \* the names of its outputs
          Order,         \* the nodes in the order of the model
          WiringChoices, \* what each node reads, were it not a Constant
          KindChoices,   \* the kind of each node
          BrokenChoices, \* the sets of nodes the executor cannot run
          Bytes,         \* EstimateOutputBytes of each name
          BatchBytes,    \* kBatchByteBudget
          BatchNodes,    \* kBatchMaxNodes
          Capacity,      \* what one executor session can hold, in bytes
          MaxFlakes,     \* how often the executor fails for no lasting reason
          MaxSurvivors   \* how often a folded node keeps a use

Nodes == NodeIds \union Fresh
Names == Nodes \union GraphInputs \union Weights

\* "op" is any node folding may evaluate.  "opaque" stands for the ones it may
\* not (unofficial, random, QDQ), "subgraph" for those whose reads are all made
\* by a nested graph.  "defer" and "tile" are the large-tensor operators while
\* their output is large or of unknown size, and "transient" is a Constant
\* marked with kTransientConstantAttr.
Constants == {"constant", "transient"}
Large == {"defer", "tile"}
Kinds == Constants \union Large \union {"op", "opaque", "subgraph"}

Wirings == [NodeIds -> (SUBSET Names) \ {{}}]
Graphs == [nodes : Seq(Nodes), kind : [Nodes -> Kinds],
           inputs : [Nodes -> SUBSET Names], inits : SUBSET Names]

ASSUME NamesAreApart ==
    /\ NodeIds \intersect Fresh = {}
    /\ Nodes \intersect (GraphInputs \union Weights) = {}
    /\ GraphOutputs \subseteq Names \ Fresh
ASSUME OrderListsNodes ==
    Order \in Seq(NodeIds) /\ IsInjective(Order) /\ ToSet(Order) = NodeIds
ASSUME ChoicesFit ==
    /\ WiringChoices \subseteq Wirings
    /\ KindChoices \subseteq [NodeIds -> Kinds]
    /\ BrokenChoices \subseteq SUBSET NodeIds
ASSUME BudgetsFit ==
    /\ Bytes \in [Nodes -> Nat]
    /\ BatchBytes \in Nat /\ BatchNodes \in Nat \ {0}
    /\ Capacity \in Nat /\ \A n \in Nodes : Bytes[n] <= Capacity
    /\ MaxFlakes \in Nat /\ MaxSurvivors \in Nat
    /\ IsFiniteSet(Fresh) /\ Cardinality(Fresh) >= MaxSurvivors

VARIABLES
    native,      \* folding runs on the resident Graph
    asConstants, \* config.initializers_as_constants
    broken,      \* the nodes the executor cannot run
    graph,       \* the model: node list, kinds, reads, initializers
    entry,       \* the graph as this round found it
    pc,
    k,           \* scan position in entry.nodes
    const_names, pure_names,
    const_nodes, \* the nodes to fold, in scan order
    deferred,    \* deferred_outputs: large tensors computed on demand
    impure,      \* impure_outputs: values to keep as Constant nodes
    producers,   \* the names constant_node_producers has an entry for
    i,           \* the batch loop's position in const_nodes
    stack,       \* the ranges FoldGroup has still to fold, the next one last
    new_constant_nodes,
    folded,      \* the nodes folded this round
    num_folded,
    flakes,      \* executor failures that were nobody's fault, so far
    flaky,       \* history: one of them happened this round
    survivors,   \* the fresh names given out so far
    computed,    \* history: what the input model derived from a Constant
    weighty      \* history: what it derived from an initializer

config == <<native, asConstants, broken, computed, weighty>>
partition == <<const_names, pure_names, const_nodes, deferred, impure>>
trouble == <<flakes, flaky, survivors>>
vars == <<config, graph, entry, pc, k, partition, producers, i, stack,
          new_constant_nodes, folded, num_folded, trouble>>

-----------------------------------------------------------------------------
(* Reading a graph *)

\* The members of a list of nodes that are in S, in the order of the list
Only(S, list) ==
    LET upTo[p \in 0 .. Len(list)] ==
            IF p = 0 THEN <<>>
            ELSE IF list[p] \in S THEN Append(upTo[p-1], list[p]) ELSE upTo[p-1]
    IN  upTo[Len(list)]

Before(g, n) == {g.nodes[p] : p \in {q \in DOMAIN g.nodes :
                                       \E r \in DOMAIN g.nodes : q < r /\ g.nodes[r] = n}}

IsConstant(n) == graph.kind[n] \in Constants

\* CollectUsedTensorNames: node reads, nested ones included, and outputs.
Used(g) == (UNION {g.inputs[n] : n \in ToSet(g.nodes)}) \union GraphOutputs

\* EliminateUnusedInitializer: an initializer that doubles as a graph input stays.
EliminateUnusedInitializer(g) ==
    [g EXCEPT !.inits = @ \intersect (Used(g) \union GraphInputs)]

-----------------------------------------------------------------------------
(* GetConstantNodes *)

\* Mutants: a membership test against all initializers, whatever the option
\* says, and a purity test against the wrong set.
FoldableOnAnyInitializer(n) ==
    /\ graph.kind[n] \notin {"opaque", "subgraph"}
    /\ graph.inputs[n] \subseteq const_names \union graph.inits
PureIfConstant(n) == graph.inputs[n] \subseteq const_names

\* IsOfficialOp, IsDeterministic, IsQDQ, HasSubgraph and the inputs
Foldable(n) == /\ graph.kind[n] \notin {"opaque", "subgraph"}
               /\ graph.inputs[n] \subseteq const_names

Pure(n) == graph.inputs[n] \subseteq pure_names

\* GetConstantNodesOnGraph moves a genuine Constant just before the node that
\* was first when the scan began; the ModelProto scan moves nothing.
MovedToFront(c) ==
    LET anchor == entry.nodes[1]
        rest   == Only(Nodes \ {c}, graph.nodes)
        at     == CHOOSE p \in DOMAIN rest : rest[p] = anchor
    IN  IF ~native \/ c = anchor THEN graph.nodes
        ELSE SubSeq(rest, 1, at - 1) \o <<c>> \o SubSeq(rest, at, Len(rest))

Scanning(n) == pc = "scan" /\ k <= Len(entry.nodes) /\ n = entry.nodes[k]
Scanned == /\ k' = k + 1
           /\ UNCHANGED <<config, entry, pc, producers, i, stack,
                          new_constant_nodes, folded, num_folded, trouble>>

ScanConstant(n) ==
    /\ Scanning(n) /\ graph.kind[n] = "constant"
    /\ graph' = [graph EXCEPT !.nodes = MovedToFront(n)]
    /\ const_names' = const_names \union {n}
    /\ Scanned /\ UNCHANGED <<pure_names, const_nodes, deferred, impure>>

ScanFoldable(n) ==
    /\ Scanning(n) /\ graph.kind[n] \notin Large \union {"constant"} /\ Foldable(n)
    /\ const_names' = const_names \union {n}
    /\ const_nodes' = Append(const_nodes, n)
    /\ IF Pure(n) THEN pure_names' = pure_names \union {n} /\ impure' = impure
                  ELSE impure' = impure \union {n} /\ pure_names' = pure_names
    /\ Scanned /\ UNCHANGED <<graph, deferred>>

\* ConstantOfShape and Expand are deferred, Tile is not.
ScanDeferred(n) ==
    /\ Scanning(n) /\ graph.kind[n] = "defer" /\ Foldable(n)
    /\ const_names' = const_names \union {n}
    /\ deferred' = deferred \union {n}
    /\ Scanned /\ UNCHANGED <<graph, pure_names, const_nodes, impure>>

ScanOther(n) ==
    /\ Scanning(n) /\ graph.kind[n] # "constant"
    /\ graph.kind[n] = "tile" \/ ~Foldable(n)
    /\ Scanned /\ UNCHANGED <<graph, partition>>

\* Every Constant, transient or not, seeds constant_node_producers.
ScanDone ==
    /\ pc = "scan" /\ k > Len(entry.nodes)
    /\ pc' = "fold"
    /\ producers' = {n \in ToSet(graph.nodes) : IsConstant(n)}
    /\ UNCHANGED <<config, graph, entry, k, partition, i, stack,
                   new_constant_nodes, folded, num_folded, trouble>>

-----------------------------------------------------------------------------
(* The batch loop *)

ConsumesDeferred(n) == graph.inputs[n] \intersect deferred # {}

BytesOf(a, b) == MapThenSumSet(LAMBDA p : Bytes[const_nodes[p]], a .. b)

\* const_nodes[j] cannot join a batch that starts at i and holds [i, j).
ClosesBatch(j) == \/ j > Len(const_nodes)
                  \/ j - i >= BatchNodes
                  \/ ConsumesDeferred(const_nodes[j])
                  \/ BytesOf(i, j) > BatchBytes

BatchEnd == IF ConsumesDeferred(const_nodes[i]) THEN i + 1
            ELSE Min({j \in i + 1 .. Len(const_nodes) + 1 : ClosesBatch(j)})

NextBatch ==
    /\ pc = "fold" /\ stack = <<>> /\ i <= Len(const_nodes)
    /\ stack' = << <<i, BatchEnd>> >>
    /\ i' = BatchEnd
    /\ UNCHANGED <<config, graph, entry, pc, k, partition, producers,
                   new_constant_nodes, folded, num_folded, trouble>>

-----------------------------------------------------------------------------
(* RunOps and FoldGroup.  A range is <<b, e>>, half open. *)

OpsIn(r) == {const_nodes[p] : p \in r[1] .. r[2] - 1}

\* include_node: the deferred producers inlined, directly or through others
Inlined(ops) ==
    {d \in deferred : \A S \in SUBSET deferred :
        (\A n \in ops \union S : graph.inputs[n] \intersect deferred \subseteq S)
            => d \in S}

\* FindInitializerByName / getInitializer finds whatever is not inlined.
Fed(ops) ==
    \A n \in ops \union Inlined(ops) :
        graph.inputs[n] \subseteq ops \union deferred \union producers \union graph.inits

\* The executor, with everything else going well
Runs(r) == LET ops == OpsIn(r) IN
    /\ Fed(ops)
    /\ (ops \union Inlined(ops)) \intersect broken = {}
    /\ BytesOf(r[1], r[2] - 1) <= Capacity

Popped == /\ pc = "fold" /\ stack # <<>>
          /\ UNCHANGED <<config, entry, pc, k, partition, i>>

\* RunOpsAndAddInitializers: initializers at once, Constant nodes put aside
\* until the node list is rebuilt.
AddFolded(ops) ==
    /\ graph' = [graph EXCEPT !.inits = @ \union (ops \ impure)]
    /\ new_constant_nodes' = new_constant_nodes \o
           Only(ops \intersect impure, const_nodes)
    /\ producers' = producers \union (ops \intersect impure)
    /\ UNCHANGED survivors

\* The splice of FoldGroupOnGraph.  The entry of constant_node_producers is
\* added for an impure output and erased again with its owner; a new Constant
\* is prepended.  A folded node in `kept` still has uses: it stays where it is
\* under a fresh name, without its transient marker.
Splice(ops, kept, name) ==
    LET fresh   == [n \in kept |-> name[n]]
        owner   == [m \in {name[n] : n \in kept} |-> CHOOSE n \in kept : name[n] = m]
        stay    == Only(Nodes \ (ops \ kept), graph.nodes)
        renamed == [p \in DOMAIN stay |->
                       IF stay[p] \in kept THEN fresh[stay[p]] ELSE stay[p]]
        added   == Reverse(Only(ops \intersect impure, const_nodes))
    IN  /\ graph' =
             [nodes  |-> added \o renamed,
              kind   |-> [n \in Nodes |->
                            IF n \in DOMAIN owner
                            THEN IF graph.kind[owner[n]] = "transient"
                                 THEN "constant" ELSE graph.kind[owner[n]]
                            ELSE IF n \in ops \intersect impure
                                 THEN "constant" ELSE graph.kind[n]],
              inputs |-> [n \in Nodes |->
                            IF n \in DOMAIN owner THEN graph.inputs[owner[n]]
                            ELSE IF n \in ops THEN {} ELSE graph.inputs[n]],
              inits  |-> graph.inits \union (ops \ impure)]
        /\ producers' = (producers \union (ops \intersect impure)) \ ops
        /\ survivors' = survivors \union DOMAIN owner
        /\ UNCHANGED new_constant_nodes

Materialise(ops) ==
    \/ ~native /\ AddFolded(ops)
    \/ /\ native
       /\ \E kept \in SUBSET ops :
            /\ Cardinality(survivors) + Cardinality(kept) <= MaxSurvivors
            /\ \E name \in [kept -> Fresh \ survivors] :
                 IsInjective(name) /\ Splice(ops, kept, name)

GroupFolds ==
    /\ Popped
    /\ Runs(Last(stack))
    /\ Materialise(OpsIn(Last(stack)))
    /\ folded' = folded \union OpsIn(Last(stack))
    /\ num_folded' = num_folded + Cardinality(OpsIn(Last(stack)))
    /\ stack' = Front(stack)
    /\ UNCHANGED <<flakes, flaky>>

\* Mutant: the upper half run first.
BisectedUpperFirst(r) ==
    LET m == r[1] + (r[2] - r[1]) \div 2
    IN  IF r[2] - r[1] = 1 THEN <<>> ELSE << <<r[1], m>>, <<m, r[2]>> >>

Mid(r) == r[1] + (r[2] - r[1]) \div 2

\* The lower half is folded first; a single node that fails is skipped.
Bisected(r) == IF r[2] - r[1] = 1 THEN <<>> ELSE << <<Mid(r), r[2]>>, <<r[1], Mid(r)>> >>

GroupFails ==
    /\ Popped
    /\ \/ ~Runs(Last(stack)) /\ UNCHANGED <<flakes, flaky>>
       \/ Runs(Last(stack)) /\ flakes < MaxFlakes /\ flakes' = flakes + 1 /\ flaky' = TRUE
    /\ stack' = Front(stack) \o Bisected(Last(stack))
    /\ UNCHANGED <<graph, producers, new_constant_nodes, folded, num_folded, survivors>>

-----------------------------------------------------------------------------
(* The end of a round *)

\* Mutant: a node that failed to fold goes to the end of the list.
RebuiltFailedLast ==
    LET failed == ToSet(const_nodes) \ folded
        constants == {n \in Nodes : IsConstant(n)}
        kept(S) == Only(S \ folded, graph.nodes)
    IN  [nodes  |-> new_constant_nodes \o kept(constants)
                      \o kept(Nodes \ (constants \union failed)) \o kept(failed \ constants),
         kind   |-> [n \in Nodes |->
                       IF n \in ToSet(new_constant_nodes) THEN "constant" ELSE graph.kind[n]],
         inputs |-> [n \in Nodes |-> IF n \in folded THEN {} ELSE graph.inputs[n]],
         inits  |-> graph.inits]

\* RebuildNodeList: the new Constants, the Constants kept, the other nodes kept.
Rebuilt ==
    LET constants == {n \in Nodes : IsConstant(n)}
        kept(S) == Only(S \ folded, graph.nodes)
    IN  [nodes  |-> new_constant_nodes \o kept(constants) \o kept(Nodes \ constants),
         kind   |-> [n \in Nodes |->
                       IF n \in folded \intersect impure THEN "constant" ELSE graph.kind[n]],
         inputs |-> [n \in Nodes |-> IF n \in folded THEN {} ELSE graph.inputs[n]],
         inits  |-> graph.inits]

EndRound ==
    /\ pc = "fold" /\ stack = <<>> /\ i > Len(const_nodes)
    /\ graph' = EliminateUnusedInitializer(IF native THEN graph ELSE Rebuilt)
    /\ pc' = "rest"
    /\ UNCHANGED <<config, entry, k, partition, producers, i, stack,
                   new_constant_nodes, folded, num_folded, trouble>>

\* Mutants: only initializers count as a change, an attempt counts as one.
ChangedInitializersOnly ==
    IF native THEN graph.inits # entry.inits ELSE graph # entry
ChangedIfTried == IF native THEN const_nodes # <<>> ELSE graph # entry

\* The resident pipeline trusts the folder's verdict, the other one compares.
Changed == IF native THEN num_folded > 0 ELSE graph # entry

\* Shape inference may find that a large-tensor operator's output is small.
BeginRound(small) ==
    LET g == [graph EXCEPT !.kind = [n \in Nodes |-> IF n \in small THEN "op" ELSE @[n]]]
    IN  /\ graph' = g /\ entry' = g
        /\ pc' = "scan" /\ k' = 1
        /\ const_names' = IF asConstants THEN g.inits ELSE {}
        /\ pure_names' = const_names'
        /\ const_nodes' = <<>> /\ deferred' = {} /\ impure' = {}
        /\ producers' = {} /\ i' = 1 /\ stack' = <<>>
        /\ new_constant_nodes' = <<>> /\ folded' = {} /\ num_folded' = 0
        /\ flaky' = FALSE
        /\ UNCHANGED <<config, flakes, survivors>>

NextRound ==
    /\ pc = "rest"
    /\ \E small \in SUBSET {n \in ToSet(graph.nodes) : graph.kind[n] \in Large} :
         (Changed \/ small # {}) /\ BeginRound(small)

Stop ==
    /\ pc = "rest" /\ ~Changed
    /\ pc' = "done"
    /\ UNCHANGED <<config, graph, entry, k, partition, producers, i, stack,
                   new_constant_nodes, folded, num_folded, trouble>>

Finished == pc = "done" /\ UNCHANGED vars

-----------------------------------------------------------------------------
\* A node may read what comes before it.  ONNX's checker also lets it read a
\* Constant that comes later; importing such a model into a Graph fails.
InputGraph(w, kd) ==
    [nodes  |-> Order,
     kind   |-> [n \in Nodes |-> IF n \in NodeIds THEN kd[n] ELSE "op"],
     inputs |-> [n \in Nodes |-> IF n \in Fresh \/ kd[n] \in Constants THEN {} ELSE w[n]],
     inits  |-> Weights]

Legal(g, resident) ==
    \A n \in NodeIds :
        g.inputs[n] \subseteq GraphInputs \union Weights \union Before(g, n)
            \union {c \in NodeIds \ {n} : ~resident /\ g.kind[c] = "constant"}

\* What g derives from the names in seeds
Derived(g, seeds) ==
    {n \in NodeIds : \A S \in SUBSET NodeIds :
        (\A m \in NodeIds : m \in seeds \/ g.inputs[m] \intersect (S \union seeds) # {}
                               => m \in S)
            => n \in S}

Init ==
    /\ native \in BOOLEAN /\ asConstants \in BOOLEAN
    /\ broken \in BrokenChoices
    /\ \E w \in WiringChoices, kd \in KindChoices :
         /\ graph = InputGraph(w, kd)
         /\ Legal(graph, native)
    /\ \A n \in broken : graph.kind[n] \in {"op"} \union Large
    /\ computed = Derived(graph, {n \in NodeIds : graph.kind[n] = "constant"})
    /\ weighty = Derived(graph, Weights)
    /\ entry = graph
    /\ pc = "scan" /\ k = 1
    /\ const_names = (IF asConstants THEN Weights ELSE {})
    /\ pure_names = const_names
    /\ const_nodes = <<>> /\ deferred = {} /\ impure = {}
    /\ producers = {} /\ i = 1 /\ stack = <<>>
    /\ new_constant_nodes = <<>> /\ folded = {} /\ num_folded = 0
    /\ flakes = 0 /\ flaky = FALSE /\ survivors = {}

Scan == \E n \in Nodes : \/ ScanConstant(n) \/ ScanFoldable(n)
                         \/ ScanDeferred(n) \/ ScanOther(n)

Fold == Scan \/ ScanDone \/ NextBatch \/ GroupFolds \/ GroupFails
        \/ EndRound \/ NextRound \/ Stop

Next == Fold \/ Finished

\* The folder is sequential code: it keeps taking steps until it returns.
Spec == Init /\ [][Next]_vars /\ WF_vars(Fold)

-----------------------------------------------------------------------------
\* The types; the ranges FoldGroup has still to try lie inside the batches taken.
TypeOK ==
    /\ native \in BOOLEAN /\ asConstants \in BOOLEAN
    /\ broken \subseteq NodeIds /\ computed \subseteq NodeIds /\ weighty \subseteq NodeIds
    /\ graph \in Graphs /\ entry \in Graphs
    /\ pc \in {"scan", "fold", "rest", "done"}
    /\ k \in 1 .. Len(entry.nodes) + 1
    /\ const_names \subseteq Names /\ pure_names \subseteq const_names
    /\ const_nodes \in Seq(Nodes) /\ deferred \subseteq Nodes /\ impure \subseteq Nodes
    /\ producers \subseteq Nodes
    /\ i \in 1 .. Len(const_nodes) + 1
    /\ stack \in Seq(Nat \X Nat)
    /\ \A p \in DOMAIN stack :
         1 <= stack[p][1] /\ stack[p][1] < stack[p][2] /\ stack[p][2] <= i
    /\ new_constant_nodes \in Seq(Nodes) /\ folded \subseteq Nodes
    /\ num_folded \in Nat
    /\ flakes \in 0 .. MaxFlakes /\ flaky \in BOOLEAN /\ survivors \subseteq Fresh

\* Between rounds
AtRest == pc \in {"rest", "done"}

\* What folding leaves is a model ONNX's checker accepts (issues #238, #335,
\* #352): each name is defined once, and every node and every output finds what
\* it reads, in the order of the node list, whichever folds failed, whatever
\* was swept away and wherever the Constants stood; and on the way there no range
\* of a bisected batch leaves the batch (TypeOK).
WellFormed ==
    /\ TypeOK
    /\ AtRest =>
        /\ IsInjective(graph.nodes)
        /\ ToSet(graph.nodes) \intersect graph.inits = {}
        /\ \A n \in ToSet(graph.nodes) :
             graph.inputs[n] \subseteq GraphInputs \union graph.inits \union Before(graph, n)
        /\ GraphOutputs \subseteq GraphInputs \union graph.inits \union ToSet(graph.nodes)

\* A value the model computed from a Constant node never ends up among the
\* weights, in this round or in a later one that meets it as a Constant itself.
ProvenanceKept == graph.inits \intersect computed = {}

\* With initializers_as_constants off, nothing that depends on a weight is folded.
WeightsUntouched == ~asConstants => folded \intersect weighty = {}

\* n runs once everything in have is there.
Ready(g, n, have) ==
    \/ g.kind[n] = "constant"
    \/ /\ g.kind[n] \in {"op", "transient", "defer"}
       /\ g.inputs[n] \subseteq have /\ n \notin broken

\* What is there when a folder that runs one node at a time, in graph order,
\* has come to the end of g
HaveOneByOne(g) ==
    LET have[p \in 0 .. Len(g.nodes)] ==
            IF p = 0 THEN IF asConstants THEN g.inits ELSE {}
            ELSE have[p-1] \union {n \in {g.nodes[p]} : Ready(g, n, have[p-1])}
    IN  have[Len(g.nodes)]

\* The nodes that folder would fold
FoldsOneByOne(g) ==
    {n \in HaveOneByOne(g) \intersect ToSet(g.nodes) : g.kind[n] \in {"op", "transient"}}

\* Batches, budgets, bisection and inlining never fold more than folding one
\* node at a time would, and on the ModelProto path not less either: a node
\* that cannot run, or a batch too big to run, costs no other node its fold.
FoldsAsOneByOne ==
    pc = "rest" =>
        /\ folded \subseteq FoldsOneByOne(entry)
        /\ ~native /\ ~flaky => folded = FoldsOneByOne(entry)

\* The comment on FoldGroupOnGraph: a later batch can inline the Constant node
\* an earlier batch made.  Then the resident folder loses nothing either.
ResidentFoldsAsOneByOne ==
    pc = "rest" /\ native /\ ~flaky => folded = FoldsOneByOne(entry)

\* Rounds stop only when nothing is left to fold, unless the last one was cut
\* short by an executor failure that would not happen again.
ConvergedIsComplete == pc = "done" /\ ~flaky => FoldsOneByOne(graph) = {}

\* Folding reaches a fixed point: no round undoes or repeats another's work.
Terminates == <>(pc = "done")
=============================================================================
