--------------------------- MODULE MemoryPlanning ---------------------------
(***************************************************************************)
(* The activation memory planner of onnxsim/memory_planning.cpp: in-place  *)
(* aliasing of an operand with a node's output, lifetimes of the groups    *)
(* this makes, and greedy best-fit placement of the groups in one arena.   *)
(* Nodes are numbered from 1 and 0 stands for "before the first node"; the *)
(* code numbers them from 0 and uses -1.                                   *)
(***************************************************************************)
EXTENDS Integers, Sequences

CONSTANTS
    Graphs,   \* the graphs the planner may be called on
    Unknown,  \* a size that is not known or symbolic
    NoName    \* the name of an operand that was omitted

VARIABLES
    graph,    \* the GraphView under planning
    tiled,    \* attention_tiled
    phase,    \* the pass under way
    pos,      \* the node an aliasing pass looks at next
    root,     \* tensor -> representative of its group (UnionFind)
    at,       \* interval -> offset, for those placed so far
    arena     \* plan.arena_bytes

vars == <<graph, tiled, phase, pos, root, at, arena>>

\* What IsInPlaceSafeOp or IsViewOp accept, what IsInPlaceSafeBinaryOp does, the rest.
Ops == {"unary", "binary", "other"}

\* A node over some tensors: what it reads and makes by name, what its bodies
\* read from this graph, the arenas of its bodies and its attention score.
NodeViews(tensors) ==
    [op : Ops, in : Seq(tensors \union {NoName}), out : Seq(tensors \union {NoName}),
     captures : SUBSET tensors, reserved : Nat, score : Nat \union {Unknown}]

SetOf(seq) == {seq[k] : k \in DOMAIN seq} \ {NoName}

NodesOf(g) == DOMAIN g.nodes

\* A graph as ONNX has it: every tensor has one producer, which comes before
\* every node that reads it.
WellFormed(g) ==
    /\ NoName \notin DOMAIN g.size
    /\ g.size \in [DOMAIN g.size -> Nat \union {Unknown}]
    /\ g.nodes \in Seq(NodeViews(DOMAIN g.size))
    /\ g.inputs \subseteq DOMAIN g.size
    /\ g.outputs \subseteq DOMAIN g.size
    /\ g.weights \subseteq DOMAIN g.size
    /\ \A i \in NodesOf(g) :
        /\ SetOf(g.nodes[i].out) \intersect g.inputs = {}
        /\ \A j \in NodesOf(g) :
            /\ i # j => SetOf(g.nodes[i].out) \intersect SetOf(g.nodes[j].out) = {}
            /\ j <= i => SetOf(g.nodes[i].out) \intersect (SetOf(g.nodes[j].in)
                                                          \union g.nodes[j].captures) = {}

ASSUME GraphsAssumption ==
    /\ Unknown \notin Int
    /\ \A g \in Graphs : WellFormed(g)

Tensors == DOMAIN graph.size
Nodes == NodesOf(graph)
End == Len(graph.nodes) + 1

-----------------------------------------------------------------------------
(* Liveness *)

\* produced_at: tensors that take space, and the node that makes each.
Activations == (graph.inputs \union UNION {SetOf(graph.nodes[i].out) : i \in Nodes})
                    \ graph.weights
Makers(t) == {i \in Nodes : t \in SetOf(graph.nodes[i].out)}
ProducedAt(t) == IF Makers(t) = {} THEN 0 ELSE CHOOSE i \in Makers(t) : TRUE

\* The (node, input slot) pairs that consume a tensor; consumer_count counts them.
Slots(t) == {s \in UNION {{i} \X DOMAIN graph.nodes[i].in : i \in Nodes} :
                graph.nodes[s[1]].in[s[2]] = t}
Users(t) == {i \in Nodes : t \in SetOf(graph.nodes[i].in)}

\* The places at which a tensor must still be there; last_use is the last of
\* them. A graph output is used at the end, and so is what nobody uses.
Needed(t) == Users(t) \union IF t \in graph.outputs \/ Users(t) = {} THEN {End} ELSE {}

\* The tensors with a size; the others are listed in unplanned.
Planned == {t \in Activations : graph.size[t] # Unknown}

-----------------------------------------------------------------------------
(* The intervals: groups of aliased tensors, and space a node takes while  *)
(* it runs for the bodies it owns (each planned by itself) and for a       *)
(* materialized attention score.                                           *)

Group(t) == [kind |-> "group", of |-> root[t]]
Reserved(i) == [kind |-> "reserved", of |-> i]
Workspace(i) == [kind |-> "workspace", of |-> i]

HasReserved(i) == graph.nodes[i].reserved > 0
HasWorkspace(i) == ~tiled /\ graph.nodes[i].score # Unknown /\ graph.nodes[i].score > 0

Intervals == {Group(t) : t \in Planned}
             \union {Reserved(i) : i \in {j \in Nodes : HasReserved(j)}}
             \union {Workspace(i) : i \in {j \in Nodes : HasWorkspace(j)}}

Members(v) == {t \in Planned : Group(t) = v}

\* The size of a group is that of its largest member.
Size(v) == CASE v.kind = "group" ->
                    LET sizes == {graph.size[t] : t \in Members(v)}
                    IN  CHOOSE s \in sizes : \A r \in sizes : r <= s
             [] v.kind = "reserved" -> graph.nodes[v.of].reserved
             [] v.kind = "workspace" -> graph.nodes[v.of].score

\* Where the interval starts and ends, as the sets whose least and greatest
\* element the code computes.
Starts(v) == IF v.kind = "group" THEN {ProducedAt(t) : t \in Members(v)} ELSE {v.of}
Ends(v) == IF v.kind = "group" THEN UNION {Needed(t) : t \in Members(v)} ELSE {v.of}

\* Never live at once, with a node's operands and outputs taken to be.
Disjoint(v, w) ==
    \/ \A e \in Ends(v), s \in Starts(w) : e < s
    \/ \A e \in Ends(w), s \in Starts(v) : e < s

-----------------------------------------------------------------------------
(* The passes *)

Init ==
    /\ graph \in Graphs /\ tiled \in BOOLEAN
    /\ phase = "unary" /\ pos = 1
    /\ root = [t \in Tensors |-> t]
    /\ at = [v \in {} |-> 0] /\ arena = 0

\* Mutant: an operand that others read as well.
IsAliasEligibleShared(cand, out) ==
    /\ cand # NoName /\ out # NoName
    /\ cand \notin graph.weights \union graph.inputs \union graph.outputs
    /\ graph.size[cand] # Unknown /\ graph.size[cand] = graph.size[out]

\* Whether the node may write its output over this operand: neither is
\* omitted, the operand is the planner's own, this is its only read, and the
\* sizes agree.
IsAliasEligible(cand, out) ==
    /\ cand # NoName /\ out # NoName
    /\ cand \notin graph.weights \union graph.inputs \union graph.outputs
    /\ \E s \in Slots(cand) : Slots(cand) = {s}
    /\ graph.size[cand] # Unknown /\ graph.size[cand] = graph.size[out]

Union(a, b) == [t \in Tensors |-> IF root[t] = root[a] THEN root[b] ELSE root[t]]

\* The aliasing of a node whose only operand, or first one, is overwritten.
AliasUnary(n) ==
    IF /\ n.op = "unary" /\ n.in # <<>> /\ Len(n.out) = 1
       /\ IsAliasEligible(n.in[1], n.out[1])
    THEN Union(n.in[1], n.out[1])
    ELSE root

\* The aliasing of a node that may overwrite either operand, the first if it can.
AliasBinary(n) ==
    IF n.op = "binary" /\ Len(n.in) = 2 /\ Len(n.out) = 1
    THEN IF IsAliasEligible(n.in[1], n.out[1]) THEN Union(n.in[1], n.out[1])
         ELSE IF IsAliasEligible(n.in[2], n.out[1]) THEN Union(n.in[2], n.out[1])
         ELSE root
    ELSE root

\* One step of a loop over the nodes, and the way on to the next pass.
AliasPass(p, next, aliased) ==
    /\ phase = p
    /\ IF pos <= Len(graph.nodes)
       THEN pos' = pos + 1 /\ root' = aliased /\ UNCHANGED phase
       ELSE pos' = 1 /\ phase' = next /\ UNCHANGED root
    /\ UNCHANGED <<graph, tiled, at, arena>>

UnaryPass == AliasPass("unary", "binary", AliasUnary(graph.nodes[pos]))
BinaryPass == AliasPass("binary", "place", AliasBinary(graph.nodes[pos]))

\* The end of a placed interval's range.
Top(p) == at[p] + Size(p)

Blocking(v) == {p \in DOMAIN at : ~Disjoint(v, p)}

\* The order in which ranges are scanned.
Before(p, q) == at[p] < at[q] \/ (at[p] = at[q] /\ Top(p) < Top(q))

\* c is what cursor holds after the ranges of ps: the furthest end, or 0.
IsCursor(c, ps) == /\ c \in {0} \union {Top(p) : p \in ps}
                   /\ \A p \in ps : Top(p) <= c

\* The gaps in front of a blocking range that are large enough for v.
Gaps(v) ==
    {g \in [from : {0} \union {Top(p) : p \in Blocking(v)}, to : {at[p] : p \in Blocking(v)}] :
        /\ g.to - g.from >= Size(v)
        /\ \E b \in Blocking(v) :
            /\ g.to = at[b]
            /\ IsCursor(g.from, {p \in Blocking(v) : Before(p, b)})}

\* The smallest gap that fits, the first of several, or the end of all that is blocked.
IsBestFit(v, o) ==
    IF Gaps(v) = {}
    THEN IsCursor(o, Blocking(v))
    ELSE \E g \in Gaps(v) :
            /\ o = g.from
            /\ \A h \in Gaps(v) : \/ g.to - g.from < h.to - h.from
                                  \/ g.to - g.from = h.to - h.from /\ g.from <= h.from

\* The intervals are placed by falling size; the order among equals, which the
\* code takes from their names, is left open.
Place(v) ==
    /\ phase = "place"
    /\ v \in Intervals \ DOMAIN at
    /\ \A w \in Intervals \ DOMAIN at : Size(w) <= Size(v)
    /\ \E o \in {0} \union {Top(p) : p \in DOMAIN at} :
        /\ IsBestFit(v, o)
        /\ at' = [p \in DOMAIN at \union {v} |-> IF p = v THEN o ELSE at[p]]
        /\ arena' = IF o + Size(v) > arena THEN o + Size(v) ELSE arena
    /\ UNCHANGED <<graph, tiled, phase, pos, root>>

\* The offset of every tensor is that of its group.
Finish ==
    /\ phase = "place" /\ Intervals \subseteq DOMAIN at
    /\ phase' = "done"
    /\ UNCHANGED <<graph, tiled, pos, root, at, arena>>

Done == phase = "done" /\ UNCHANGED vars

Next == UnaryPass \/ BinaryPass \/ (\E v \in Intervals : Place(v)) \/ Finish \/ Done

Spec == Init /\ [][Next]_vars

-----------------------------------------------------------------------------
(* Properties *)

\* The types of the passes' state.
TypeOK ==
    /\ graph \in Graphs /\ tiled \in BOOLEAN
    /\ phase \in {"unary", "binary", "place", "done"}
    /\ pos \in 1..End
    /\ root \in [Tensors -> Tensors]
    /\ DOMAIN at \subseteq Intervals /\ at \in [DOMAIN at -> Nat]
    /\ arena \in Nat

\* Two intervals have a byte in common.
Overlap(v, w) == /\ Size(v) > 0 /\ Size(w) > 0
                 /\ at[v] < Top(w) /\ at[w] < Top(v)

\* Node i may write u while it reads t: the same bytes, element by element.
InPlace(i, t, u) ==
    LET n == graph.nodes[i] IN
    /\ Group(t) = Group(u) /\ n.out = <<u>>
    /\ \/ n.op = "unary" /\ n.in # <<>> /\ n.in[1] = t
       \/ n.op = "binary" /\ t \in SetOf(n.in)

\* Nothing is written over t from its own production until place i has read it.
IntactUntil(t, i) ==
    /\ \A u \in Planned \ {t} :
        /\ ProducedAt(t) <= ProducedAt(u) /\ ProducedAt(u) <= i
        /\ Overlap(Group(t), Group(u))
        => ProducedAt(u) = i /\ i \in Nodes /\ InPlace(i, t, u)
    /\ \A v \in Intervals :
        v.kind # "group" /\ ProducedAt(t) <= v.of /\ v.of <= i => ~Overlap(Group(t), v)

\* A device that runs the nodes in order inside the planned ranges finds every
\* operand as its producer left it, and at the end every output of the graph;
\* only a kernel that works in place overwrites what it reads.
ReadsIntact ==
    phase = "done" =>
        \A t \in Planned :
            /\ \A i \in Users(t) : IntactUntil(t, i)
            /\ t \in graph.outputs => IntactUntil(t, End)

\* The same for what the body of an If, Loop or Scan reads from its outer graph.
CapturesIntact ==
    phase = "done" =>
        \A i \in Nodes : \A t \in graph.nodes[i].captures \intersect Planned : IntactUntil(t, i)

\* Every planned range lies in the arena.
ArenaHolds == \A v \in DOMAIN at : Top(v) <= arena
=============================================================================
