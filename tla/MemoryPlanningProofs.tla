------------------------ MODULE MemoryPlanningProofs ------------------------
(***************************************************************************)
(* Proofs about MemoryPlanning: its types, that the arena holds every      *)
(* range, and that a run inside the planned ranges finds every operand as  *)
(* its producer left it.                                                   *)
(***************************************************************************)
EXTENDS MemoryPlanning, TLAPS

-----------------------------------------------------------------------------
(* The invariant *)

\* The nodes whose aliasing has been decided.
Decided ==
    {i \in Nodes : \/ graph.nodes[i].op = "unary" /\ (phase = "unary" => i < pos)
                   \/ /\ graph.nodes[i].op = "binary" /\ phase # "unary"
                      /\ phase = "binary" => i < pos}

\* Node i makes u from t, one element after the other.
Overwrites(i, t, u) ==
    /\ graph.nodes[i].out = <<u>>
    /\ \/ graph.nodes[i].op = "unary" /\ graph.nodes[i].in # <<>> /\ graph.nodes[i].in[1] = t
       \/ graph.nodes[i].op = "binary" /\ t \in SetOf(graph.nodes[i].in)

\* u takes over the storage of t: when u is made, t is no longer needed but by
\* the node that makes u in its place.
Succeeds(t, u, P) ==
    /\ ProducedAt(u) \in P /\ Users(t) \subseteq P
    /\ \A k \in Needed(t) : \/ k < ProducedAt(u)
                            \/ k = ProducedAt(u) /\ Overwrites(k, t, u)

\* The tensors of a group, under representatives r, succeed each other.
Chained(r, P) ==
    \A t, u \in Tensors :
        t # u /\ r[t] = r[u] =>
            /\ graph.size[t] # Unknown /\ graph.size[t] = graph.size[u]
            /\ ProducedAt(t) # ProducedAt(u)
            /\ ProducedAt(t) < ProducedAt(u) => Succeeds(t, u, P)

\* Intervals that are live at once have no byte in common.
Apart ==
    \A v, w \in DOMAIN at : v # w => Disjoint(v, w) \/ Top(v) <= at[w] \/ Top(w) <= at[v]

\* Nothing is placed before aliasing is over, and everything in the end.
Stages ==
    /\ phase \in {"unary", "binary"} => DOMAIN at = {}
    /\ phase = "done" => Intervals \subseteq DOMAIN at

PlanInv == TypeOK /\ Stages /\ Chained(root, Decided) /\ Apart /\ ArenaHolds

-----------------------------------------------------------------------------
(* Graphs *)

\* What a well-formed graph is made of.
LEMMA GraphTypes ==
  ASSUME graph \in Graphs
  PROVE  /\ NoName \notin Tensors
         /\ graph.size \in [Tensors -> Nat \union {Unknown}]
         /\ Nodes = 1..Len(graph.nodes) /\ Len(graph.nodes) \in Nat
         /\ \A i \in Nodes :
              /\ graph.nodes[i] \in NodeViews(Tensors)
              /\ SetOf(graph.nodes[i].out) \subseteq Tensors
              /\ SetOf(graph.nodes[i].in) \subseteq Tensors
         /\ graph.inputs \subseteq Tensors /\ Unknown \notin Int
  <1>1. WellFormed(graph)
    BY GraphsAssumption
  <1>2. /\ NoName \notin Tensors
        /\ graph.size \in [Tensors -> Nat \union {Unknown}]
        /\ graph.nodes \in Seq(NodeViews(Tensors))
        /\ graph.inputs \subseteq Tensors
    BY <1>1 DEF WellFormed, Tensors
  <1>3. Nodes = 1..Len(graph.nodes) /\ Len(graph.nodes) \in Nat
    BY <1>2 DEF Nodes, NodesOf
  <1>4. ASSUME NEW i \in Nodes
        PROVE  /\ graph.nodes[i] \in NodeViews(Tensors)
               /\ SetOf(graph.nodes[i].out) \subseteq Tensors
               /\ SetOf(graph.nodes[i].in) \subseteq Tensors
    <2>1. graph.nodes[i] \in NodeViews(Tensors)
      BY <1>2, <1>3, <1>4
    <2>2. /\ graph.nodes[i].out \in Seq(Tensors \union {NoName})
          /\ graph.nodes[i].in \in Seq(Tensors \union {NoName})
      BY <2>1 DEF NodeViews
    <2>3. QED
      BY <2>1, <2>2 DEF SetOf
  <1>5. QED
    BY <1>2, <1>3, <1>4, GraphsAssumption

\* A tensor is made by one node, before every node that reads it.
LEMMA Production ==
  ASSUME graph \in Graphs, NEW t \in Tensors
  PROVE  /\ ProducedAt(t) \in 0..Len(graph.nodes)
         /\ ProducedAt(t) # 0 => t \in SetOf(graph.nodes[ProducedAt(t)].out)
         /\ \A i \in Nodes : t \in SetOf(graph.nodes[i].out) => ProducedAt(t) = i
         /\ \A i \in Users(t) : i \in Nodes /\ ProducedAt(t) < i
         /\ Needed(t) # {}
         /\ \A k \in Needed(t) : k \in 1..End /\ ProducedAt(t) < k
         /\ ProducedAt(t) < End
  <1>1. WellFormed(graph)
    BY GraphsAssumption
  <1>2. Nodes = 1..Len(graph.nodes) /\ Len(graph.nodes) \in Nat
    BY GraphTypes
  <1>3. \A i, j \in Nodes :
          /\ i # j => SetOf(graph.nodes[i].out) \intersect SetOf(graph.nodes[j].out) = {}
          /\ j <= i => SetOf(graph.nodes[i].out) \intersect SetOf(graph.nodes[j].in) = {}
    BY <1>1 DEF WellFormed, Nodes
  <1>4. ASSUME Makers(t) # {}
        PROVE  ProducedAt(t) \in Makers(t)
    BY <1>4 DEF ProducedAt
  <1>5. Makers(t) = {} => ProducedAt(t) = 0
    BY DEF ProducedAt
  <1>6. /\ ProducedAt(t) \in 0..Len(graph.nodes)
        /\ ProducedAt(t) # 0 => t \in SetOf(graph.nodes[ProducedAt(t)].out)
    BY <1>2, <1>4, <1>5 DEF Makers
  <1>7. \A i \in Nodes : t \in SetOf(graph.nodes[i].out) => ProducedAt(t) = i
    <2>1. SUFFICES ASSUME NEW i \in Nodes, t \in SetOf(graph.nodes[i].out)
                   PROVE  ProducedAt(t) = i
      OBVIOUS
    <2>2. i \in Makers(t)
      BY <2>1 DEF Makers
    <2>3. ProducedAt(t) \in Nodes /\ t \in SetOf(graph.nodes[ProducedAt(t)].out)
      BY <2>2, <1>4 DEF Makers
    <2>4. QED
      BY <2>1, <2>3, <1>3
  <1>8. \A i \in Users(t) : i \in Nodes /\ ProducedAt(t) < i
    <2>1. SUFFICES ASSUME NEW i \in Nodes, t \in SetOf(graph.nodes[i].in)
                   PROVE  ProducedAt(t) < i
      BY DEF Users
    <2>2. CASE ProducedAt(t) = 0
      BY <2>1, <2>2, <1>2
    <2>3. CASE ProducedAt(t) # 0
      <3>1. ProducedAt(t) \in Nodes /\ t \in SetOf(graph.nodes[ProducedAt(t)].out)
        BY <2>3, <1>6, <1>2
      <3>2. ~(i <= ProducedAt(t))
        BY <2>1, <3>1, <1>3
      <3>3. QED
        BY <3>1, <3>2, <1>2
    <2>4. QED
      BY <2>2, <2>3
  <1>9. Needed(t) # {}
    BY DEF Needed
  <1>10. \A k \in Needed(t) : k \in 1..End /\ ProducedAt(t) < k
    BY <1>2, <1>6, <1>8 DEF Needed, End
  <1>11. QED
    BY <1>2, <1>6, <1>7, <1>8, <1>9, <1>10 DEF End

-----------------------------------------------------------------------------
(* Aliasing *)

\* An operand that may be overwritten is needed by the node that does it only.
LEMMA OnlyRead ==
  ASSUME graph \in Graphs, NEW i \in Nodes, NEW cand, NEW out,
         IsAliasEligible(cand, out), Overwrites(i, cand, out)
  PROVE  /\ cand \in Tensors /\ out \in Tensors
         /\ ProducedAt(out) = i /\ ProducedAt(cand) < i
         /\ Users(cand) = {i} /\ Needed(cand) = {i}
         /\ \A b \in Tensors : ProducedAt(b) = i => b = out
  <1>1. graph.nodes[i] \in NodeViews(Tensors)
    BY GraphTypes
  <1>2. /\ graph.nodes[i].in \in Seq(Tensors \union {NoName})
        /\ graph.nodes[i].out = <<out>> /\ out # NoName /\ cand # NoName
    BY <1>1 DEF NodeViews, Overwrites, IsAliasEligible
  <1>3. SetOf(graph.nodes[i].out) = {out}
    BY <1>2 DEF SetOf
  <1>4. cand \in SetOf(graph.nodes[i].in)
    BY <1>2 DEF SetOf, Overwrites
  <1>5. cand \in Tensors /\ out \in Tensors
    BY <1>3, <1>4, GraphTypes
  <1>6. Users(cand) = {i}
    <2>1. i \in Users(cand)
      BY <1>4 DEF Users
    <2>2. PICK k \in DOMAIN graph.nodes[i].in : graph.nodes[i].in[k] = cand
      BY <1>4 DEF SetOf
    <2>3. <<i, k>> \in Slots(cand)
      BY <2>2 DEF Slots
    <2>4. ASSUME NEW j \in Users(cand)
          PROVE  j = i
      <3>1. j \in Nodes /\ cand \in SetOf(graph.nodes[j].in)
        BY <2>4 DEF Users
      <3>2. PICK l \in DOMAIN graph.nodes[j].in : graph.nodes[j].in[l] = cand
        BY <3>1 DEF SetOf
      <3>3. <<j, l>> \in Slots(cand)
        BY <3>1, <3>2 DEF Slots
      <3>4. <<j, l>> = <<i, k>>
        BY <2>3, <3>3 DEF IsAliasEligible
      <3>5. QED
        BY <3>4
    <2>5. QED
      BY <2>1, <2>4
  <1>7. Needed(cand) = {i}
    BY <1>6 DEF Needed, IsAliasEligible
  <1>8. ProducedAt(out) = i /\ ProducedAt(cand) < i
    BY <1>3, <1>5, <1>6, Production
  <1>9. \A b \in Tensors : ProducedAt(b) = i => b = out
    BY <1>3, Production, GraphTypes
  <1>10. QED
    BY <1>5, <1>6, <1>7, <1>8, <1>9

\* Joining the group that ends with the operand to the one that starts with
\* the output gives a group whose tensors succeed each other.
LEMMA UnionChains ==
  ASSUME graph \in Graphs, root \in [Tensors -> Tensors],
         NEW P, NEW i \in Nodes, i \notin P, Chained(root, P),
         NEW cand, NEW out, IsAliasEligible(cand, out), Overwrites(i, cand, out)
  PROVE  /\ Union(cand, out) \in [Tensors -> Tensors]
         /\ Chained(Union(cand, out), P \union {i})
  <1>1. /\ cand \in Tensors /\ out \in Tensors
        /\ ProducedAt(out) = i /\ ProducedAt(cand) < i
        /\ Users(cand) = {i} /\ Needed(cand) = {i}
    BY OnlyRead
  <1>2. graph.size[cand] # Unknown /\ graph.size[cand] = graph.size[out]
    BY DEF IsAliasEligible
  <1>3. \A t \in Tensors : ProducedAt(t) \in 0..Len(graph.nodes)
    BY Production
  <1>4. Nodes = 1..Len(graph.nodes) /\ Len(graph.nodes) \in Nat
    BY GraphTypes
  <1>5. ASSUME NEW a \in Tensors, root[a] = root[cand]
        PROVE  /\ graph.size[a] = graph.size[cand]
               /\ ProducedAt(a) < i
               /\ Users(a) \subseteq P \union {i}
               /\ a # cand => \A k \in Needed(a) : k < i
    <2>1. CASE a = cand
      BY <1>1, <2>1
    <2>2. CASE a # cand
      <3>1. ~(ProducedAt(cand) < ProducedAt(a))
        BY <1>1, <1>5, <2>2 DEF Chained, Succeeds
      <3>2. ProducedAt(a) < ProducedAt(cand)
        BY <1>1, <1>3, <1>5, <2>2, <3>1 DEF Chained
      <3>3. Succeeds(a, cand, P) /\ graph.size[a] = graph.size[cand]
        BY <1>1, <1>5, <2>2, <3>2 DEF Chained
      <3>4. \A k \in Needed(a) : k \in Int
        BY <1>4, Production DEF End
      <3>5. QED
        BY <1>1, <1>3, <1>4, <2>2, <3>2, <3>3, <3>4 DEF Succeeds
    <2>3. QED
      BY <2>1, <2>2
  <1>6. ASSUME NEW b \in Tensors, root[b] = root[out]
        PROVE  /\ graph.size[b] = graph.size[out]
               /\ i <= ProducedAt(b)
               /\ ProducedAt(b) \in P \union {i}
               /\ b # out => i < ProducedAt(b)
    <2>1. CASE b = out
      BY <1>1, <1>4, <2>1
    <2>2. CASE b # out
      <3>1. ~(ProducedAt(b) < ProducedAt(out))
        BY <1>1, <1>6, <2>2 DEF Chained, Succeeds
      <3>2. ProducedAt(out) < ProducedAt(b)
        BY <1>1, <1>3, <1>6, <2>2, <3>1 DEF Chained
      <3>3. Succeeds(out, b, P) /\ graph.size[b] = graph.size[out]
        BY <1>1, <1>6, <2>2, <3>2 DEF Chained
      <3>4. QED
        BY <1>1, <1>3, <1>4, <3>2, <3>3 DEF Succeeds
    <2>3. QED
      BY <2>1, <2>2
  <1>7. ASSUME NEW a \in Tensors, root[a] = root[cand],
               NEW b \in Tensors, root[b] = root[out]
        PROVE  /\ graph.size[a] # Unknown /\ graph.size[a] = graph.size[b]
               /\ ProducedAt(a) < ProducedAt(b)
               /\ Succeeds(a, b, P \union {i})
    <2>1. /\ graph.size[a] # Unknown /\ graph.size[a] = graph.size[b]
          /\ ProducedAt(a) < ProducedAt(b)
      BY <1>2, <1>3, <1>4, <1>5, <1>6, <1>7
    <2>2. ASSUME NEW k \in Needed(a)
          PROVE  \/ k < ProducedAt(b)
                 \/ k = ProducedAt(b) /\ Overwrites(k, a, b)
      <3>1. k \in Int
        BY <1>4, <2>2, Production DEF End
      <3>2. CASE a = cand /\ b = out
        BY <1>1, <2>2, <3>2
      <3>3. CASE a = cand /\ b # out
        BY <1>1, <1>6, <1>7, <2>2, <3>3
      <3>4. CASE a # cand
        BY <1>3, <1>4, <1>5, <1>6, <1>7, <2>2, <3>1, <3>4
      <3>5. QED
        BY <3>2, <3>3, <3>4
    <2>3. QED
      BY <1>5, <1>6, <1>7, <2>1, <2>2 DEF Succeeds
  <1>8. ASSUME NEW t \in Tensors, NEW u \in Tensors, t # u,
               Union(cand, out)[t] = Union(cand, out)[u]
        PROVE  \/ root[t] = root[u]
               \/ root[t] = root[cand] /\ root[u] = root[out]
               \/ root[u] = root[cand] /\ root[t] = root[out]
    BY <1>8 DEF Union
  <1>9. ASSUME NEW t \in Tensors, NEW u \in Tensors, Succeeds(t, u, P)
        PROVE  Succeeds(t, u, P \union {i})
    BY <1>9 DEF Succeeds
  <1>10. ASSUME NEW t \in Tensors, NEW u \in Tensors, t # u,
                Union(cand, out)[t] = Union(cand, out)[u]
         PROVE  /\ graph.size[t] # Unknown /\ graph.size[t] = graph.size[u]
                /\ ProducedAt(t) # ProducedAt(u)
                /\ ProducedAt(t) < ProducedAt(u) => Succeeds(t, u, P \union {i})
    <2>1. CASE root[t] = root[u]
      BY <1>9, <1>10, <2>1 DEF Chained
    <2>2. CASE root[t] = root[cand] /\ root[u] = root[out]
      <3>1. /\ graph.size[t] # Unknown /\ graph.size[t] = graph.size[u]
            /\ ProducedAt(t) < ProducedAt(u) /\ Succeeds(t, u, P \union {i})
        BY <1>7, <2>2
      <3>2. QED
        BY <1>3, <1>4, <3>1
    <2>3. CASE root[u] = root[cand] /\ root[t] = root[out]
      <3>1. /\ graph.size[u] # Unknown /\ graph.size[u] = graph.size[t]
            /\ ProducedAt(u) < ProducedAt(t)
        BY <1>7, <2>3
      <3>2. QED
        BY <1>3, <1>4, <3>1
    <2>4. QED
      BY <1>8, <1>10, <2>1, <2>2, <2>3
  <1>11. Union(cand, out) \in [Tensors -> Tensors]
    BY <1>1 DEF Union
  <1>12. QED
    BY <1>10, <1>11 DEF Chained

-----------------------------------------------------------------------------
(* Sizes *)

\* Every interval has a size, which for a group is that of each member.
LEMMA Sizes ==
  ASSUME graph \in Graphs, root \in [Tensors -> Tensors], NEW P, Chained(root, P)
  PROVE  /\ \A t \in Planned : Group(t) \in Intervals /\ Size(Group(t)) = graph.size[t]
         /\ \A v \in Intervals : Size(v) \in Nat
         /\ Planned \subseteq Tensors
  <1>1. Planned \subseteq Tensors
    BY GraphTypes DEF Planned, Activations
  <1>2. ASSUME NEW t \in Planned
        PROVE  graph.size[t] \in Nat /\ Size(Group(t)) = graph.size[t]
    <2>1. graph.size[t] \in Nat
      BY <1>1, GraphTypes DEF Planned
    <2>2. \A u \in Members(Group(t)) : graph.size[u] = graph.size[t]
      BY <1>1 DEF Members, Group, Chained
    <2>3. t \in Members(Group(t))
      BY DEF Members
    <2>4. {graph.size[u] : u \in Members(Group(t))} = {graph.size[t]}
      BY <2>2, <2>3
    <2>5. Size(Group(t)) = CHOOSE s \in {graph.size[t]} : \A r \in {graph.size[t]} : r <= s
      BY <2>4 DEF Size, Group
    <2>6. QED
      BY <2>1, <2>5
  <1>3. ASSUME NEW v \in Intervals
        PROVE  Size(v) \in Nat
    <2>1. CASE \E t \in Planned : v = Group(t)
      BY <1>2, <2>1
    <2>2. CASE \E i \in Nodes : HasReserved(i) /\ v = Reserved(i)
      <3>1. PICK i \in Nodes : v = Reserved(i)
        BY <2>2
      <3>2. Size(v) = graph.nodes[i].reserved
        BY <3>1 DEF Size, Reserved
      <3>3. QED
        BY <3>2, GraphTypes DEF NodeViews
    <2>3. CASE \E i \in Nodes : HasWorkspace(i) /\ v = Workspace(i)
      <3>1. PICK i \in Nodes : HasWorkspace(i) /\ v = Workspace(i)
        BY <2>3
      <3>2. Size(v) = graph.nodes[i].score
        BY <3>1 DEF Size, Workspace
      <3>3. graph.nodes[i].score \in Nat \union {Unknown}
        BY GraphTypes DEF NodeViews
      <3>4. QED
        BY <3>1, <3>2, <3>3 DEF HasWorkspace
    <2>4. QED
      BY <1>3, <2>1, <2>2, <2>3 DEF Intervals
  <1>4. QED
    BY <1>1, <1>2, <1>3 DEF Intervals

-----------------------------------------------------------------------------
(* Placement *)

\* A best fit keeps clear of everything that is live with the interval.
LEMMA FitIsClear ==
  ASSUME NEW v, NEW o \in Nat, IsBestFit(v, o), Size(v) \in Nat,
         \A p \in DOMAIN at : at[p] \in Nat /\ Size(p) \in Nat,
         NEW b \in DOMAIN at
  PROVE  Disjoint(v, b) \/ Top(b) <= o \/ o + Size(v) <= at[b]
  <1>1. SUFFICES ASSUME b \in Blocking(v)
                 PROVE  Top(b) <= o \/ o + Size(v) <= at[b]
    BY DEF Blocking
  <1>2. CASE Gaps(v) = {}
    BY <1>1, <1>2 DEF IsBestFit, IsCursor
  <1>3. CASE Gaps(v) # {}
    <2>1. PICK g \in Gaps(v) : o = g.from
      BY <1>3 DEF IsBestFit
    <2>2. PICK c \in Blocking(v) :
             /\ g.to - g.from >= Size(v) /\ g.to = at[c]
             /\ IsCursor(g.from, {p \in Blocking(v) : Before(p, c)})
      BY DEF Gaps
    <2>3. c \in DOMAIN at /\ at[c] \in Nat /\ at[b] \in Nat
      BY <1>1, <2>2 DEF Blocking
    <2>4. CASE Before(b, c)
      BY <1>1, <2>1, <2>2, <2>4 DEF IsCursor
    <2>5. CASE ~Before(b, c)
      BY <2>1, <2>2, <2>3, <2>5 DEF Before
    <2>6. QED
      BY <2>4, <2>5
  <1>4. QED
    BY <1>2, <1>3

-----------------------------------------------------------------------------
(* What a step leaves as it is *)

\* The lifetimes and nodes are those of the graph, which no step changes.
LEMMA SameGraph ==
  ASSUME graph' = graph
  PROVE  /\ Tensors' = Tensors /\ Nodes' = Nodes /\ End' = End /\ Planned' = Planned
         /\ \A t : ProducedAt(t)' = ProducedAt(t)
         /\ \A t : Users(t)' = Users(t)
         /\ \A t : Needed(t)' = Needed(t)
         /\ \A i, t, u : Overwrites(i, t, u)' <=> Overwrites(i, t, u)
  <1>1. /\ Tensors' = Tensors /\ Nodes' = Nodes /\ End' = End
    BY DEF Tensors, Nodes, End
  <1>2. Planned' = Planned
    BY <1>1 DEF Planned, Activations
  <1>3. ASSUME NEW t
        PROVE  ProducedAt(t)' = ProducedAt(t) /\ Users(t)' = Users(t) /\ Needed(t)' = Needed(t)
    <2>1. Makers(t)' = Makers(t) /\ Users(t)' = Users(t)
      BY <1>1 DEF Makers, Users
    <2>2. QED
      BY <1>1, <2>1 DEF ProducedAt, Needed
  <1>4. \A i, t, u : Overwrites(i, t, u)' <=> Overwrites(i, t, u)
    BY DEF Overwrites
  <1>5. QED
    BY <1>1, <1>2, <1>3, <1>4

\* The intervals are those of the graph and its groups.
LEMMA SameIntervals ==
  ASSUME graph' = graph, root' = root, tiled' = tiled
  PROVE  /\ Intervals' = Intervals
         /\ \A v : Size(v)' = Size(v)
         /\ \A v, w : Disjoint(v, w)' <=> Disjoint(v, w)
  <1>1. /\ Nodes' = Nodes /\ Planned' = Planned
        /\ \A t : ProducedAt(t)' = ProducedAt(t)
        /\ \A t : Needed(t)' = Needed(t)
    BY SameGraph
  <1>2. Intervals' = Intervals
    BY <1>1 DEF Intervals, Group, Reserved, Workspace, HasReserved, HasWorkspace
  <1>3. ASSUME NEW v
        PROVE  Members(v)' = Members(v)
    BY <1>1 DEF Members, Group
  <1>4. ASSUME NEW v
        PROVE  Size(v)' = Size(v) /\ Starts(v)' = Starts(v) /\ Ends(v)' = Ends(v)
    BY <1>1, <1>3 DEF Size, Starts, Ends
  <1>5. \A v, w : Disjoint(v, w)' <=> Disjoint(v, w)
    BY <1>4 DEF Disjoint
  <1>6. QED
    BY <1>2, <1>4, <1>5

\* A step that leaves the graph alone keeps groups chained if their new
\* representatives are.
LEMMA ChainedNext ==
  ASSUME graph' = graph, Chained(root', Decided')
  PROVE  Chained(root, Decided)'
  <1>1. /\ Tensors' = Tensors
        /\ \A t : ProducedAt(t)' = ProducedAt(t)
        /\ \A t : Users(t)' = Users(t)
        /\ \A t : Needed(t)' = Needed(t)
        /\ \A i, t, u : Overwrites(i, t, u)' <=> Overwrites(i, t, u)
    BY SameGraph
  <1>2. QED
    BY <1>1 DEF Chained, Succeeds

\* More nodes decided, the same groups.
LEMMA ChainedMore ==
  ASSUME NEW r, NEW P, NEW Q, P \subseteq Q, Chained(r, P)
  PROVE  Chained(r, Q)
  BY DEF Chained, Succeeds

-----------------------------------------------------------------------------
(* The steps *)

\* One node of an aliasing pass: the new representatives are chained.
LEMMA AliasStep ==
  ASSUME graph \in Graphs, root \in [Tensors -> Tensors], pos \in Nodes,
         NEW Q, Decided \subseteq Q, Chained(root, Decided), NEW r,
         \/ /\ phase = "unary" /\ r = AliasUnary(graph.nodes[pos])
            /\ graph.nodes[pos].op = "unary" => pos \in Q
         \/ /\ phase = "binary" /\ r = AliasBinary(graph.nodes[pos])
            /\ graph.nodes[pos].op = "binary" => pos \in Q
  PROVE  r \in [Tensors -> Tensors] /\ Chained(r, Q)
  <1> DEFINE n == graph.nodes[pos]
  <1>1. n \in NodeViews(Tensors) /\ pos \in Int
    BY GraphTypes
  <1>2. n.in \in Seq(Tensors \union {NoName}) /\ n.out \in Seq(Tensors \union {NoName})
    BY <1>1 DEF NodeViews
  <1>3. CASE r = root
    BY <1>3, ChainedMore
  <1>4. ASSUME NEW cand, NEW out, IsAliasEligible(cand, out), Overwrites(pos, cand, out),
               pos \notin Decided, pos \in Q, r = Union(cand, out)
        PROVE  r \in [Tensors -> Tensors] /\ Chained(r, Q)
    <2>1. r \in [Tensors -> Tensors] /\ Chained(r, Decided \union {pos})
      BY <1>4, UnionChains
    <2>2. Decided \union {pos} \subseteq Q
      BY <1>4
    <2>3. QED
      BY <2>1, <2>2, ChainedMore
  <1>5. CASE phase = "unary" /\ r # root
    <2>1. /\ n.op = "unary" /\ n.in # <<>> /\ Len(n.out) = 1
          /\ IsAliasEligible(n.in[1], n.out[1]) /\ r = Union(n.in[1], n.out[1]) /\ pos \in Q
      BY <1>5 DEF AliasUnary
    <2>2. n.out = <<n.out[1]>>
      BY <1>2, <2>1
    <2>3. Overwrites(pos, n.in[1], n.out[1])
      BY <2>1, <2>2 DEF Overwrites
    <2>4. pos \notin Decided
      BY <1>1, <1>5, <2>1 DEF Decided
    <2>5. QED
      BY <1>4, <2>1, <2>3, <2>4
  <1>6. CASE phase = "binary" /\ r # root
    <2>1. /\ n.op = "binary" /\ Len(n.in) = 2 /\ Len(n.out) = 1 /\ pos \in Q
          /\ \E k \in {1, 2} : /\ IsAliasEligible(n.in[k], n.out[1])
                              /\ r = Union(n.in[k], n.out[1])
      BY <1>6 DEF AliasBinary
    <2>2. PICK k \in {1, 2} : IsAliasEligible(n.in[k], n.out[1]) /\ r = Union(n.in[k], n.out[1])
      BY <2>1
    <2>3. n.out = <<n.out[1]>> /\ k \in DOMAIN n.in
      BY <1>2, <2>1
    <2>4. n.in[k] \in SetOf(n.in)
      BY <2>2, <2>3 DEF SetOf, IsAliasEligible
    <2>5. Overwrites(pos, n.in[k], n.out[1])
      BY <2>1, <2>3, <2>4 DEF Overwrites
    <2>6. pos \notin Decided
      BY <1>1, <1>6, <2>1 DEF Decided
    <2>7. QED
      BY <1>4, <2>1, <2>2, <2>5, <2>6
  <1>7. QED
    BY <1>3, <1>5, <1>6

\* The planner starts with every tensor a group of its own.
LEMMA InitPlan == Init => PlanInv
  <1>1. SUFFICES ASSUME Init PROVE PlanInv
    OBVIOUS
  <1>2. graph \in Graphs /\ Len(graph.nodes) \in Nat
    BY <1>1, GraphTypes DEF Init
  <1>3. TypeOK
    BY <1>1, <1>2 DEF Init, TypeOK, End
  <1>4. Chained(root, Decided)
    BY <1>1 DEF Init, Chained
  <1>5. Stages /\ Apart /\ ArenaHolds
    BY <1>1 DEF Init, Stages, Apart, ArenaHolds
  <1>6. QED
    BY <1>3, <1>4, <1>5 DEF PlanInv

\* An aliasing pass joins groups into longer chains.
LEMMA AliasPlan ==
  ASSUME PlanInv, UnaryPass \/ BinaryPass
  PROVE  PlanInv'
  <1>1. /\ graph \in Graphs /\ root \in [Tensors -> Tensors] /\ pos \in 1..End
        /\ Nodes = 1..Len(graph.nodes) /\ Len(graph.nodes) \in Nat
        /\ tiled \in BOOLEAN /\ DOMAIN at = {} /\ arena \in Nat
        /\ Chained(root, Decided)
    <2>1. phase \in {"unary", "binary"}
      BY DEF UnaryPass, BinaryPass, AliasPass
    <2>2. QED
      BY <2>1, GraphTypes DEF PlanInv, TypeOK, Stages
  <1>2. UNCHANGED <<graph, tiled, at, arena>>
    BY DEF UnaryPass, BinaryPass, AliasPass
  <1>3. Tensors' = Tensors /\ Nodes' = Nodes /\ End' = End /\ End \in Nat
    BY <1>1, <1>2, SameGraph DEF End
  <1>4. CASE pos <= Len(graph.nodes)
    <2>1. pos \in Nodes /\ pos' = pos + 1 /\ phase' = phase
      BY <1>1, <1>4 DEF UnaryPass, BinaryPass, AliasPass, End
    <2>2. \/ phase = "unary" /\ root' = AliasUnary(graph.nodes[pos])
          \/ phase = "binary" /\ root' = AliasBinary(graph.nodes[pos])
      BY <1>4 DEF UnaryPass, BinaryPass, AliasPass
    <2>3. /\ Decided \subseteq Decided'
          /\ phase = "unary" /\ graph.nodes[pos].op = "unary" => pos \in Decided'
          /\ phase = "binary" /\ graph.nodes[pos].op = "binary" => pos \in Decided'
      BY <1>1, <1>2, <1>3, <2>1 DEF Decided
    <2>4. root' \in [Tensors -> Tensors] /\ Chained(root', Decided')
      BY <1>1, <2>1, <2>2, <2>3, AliasStep
    <2>5. Chained(root, Decided)'
      BY <1>2, <2>4, ChainedNext
    <2>6. pos' \in 1..End /\ phase' \in {"unary", "binary"}
      BY <1>1, <2>1, <2>2 DEF End
    <2>7. TypeOK'
      BY <1>1, <1>2, <1>3, <2>4, <2>6 DEF TypeOK, PlanInv
    <2>8. Stages' /\ Apart' /\ ArenaHolds'
      BY <1>1, <1>2, <2>6 DEF Stages, Apart, ArenaHolds
    <2>9. QED
      BY <2>5, <2>7, <2>8 DEF PlanInv
  <1>5. CASE ~(pos <= Len(graph.nodes))
    <2>1. /\ pos' = 1 /\ root' = root
          /\ \/ phase = "unary" /\ phase' = "binary"
             \/ phase = "binary" /\ phase' = "place"
      BY <1>5 DEF UnaryPass, BinaryPass, AliasPass
    <2>2. Decided \subseteq Decided'
      BY <1>1, <1>2, <1>3, <2>1 DEF Decided
    <2>3. Chained(root', Decided')
      BY <1>1, <2>1, <2>2, ChainedMore
    <2>4. Chained(root, Decided)'
      BY <1>2, <2>3, ChainedNext
    <2>5. TypeOK'
      BY <1>1, <1>2, <1>3, <2>1 DEF TypeOK, PlanInv
    <2>6. Stages' /\ Apart' /\ ArenaHolds'
      BY <1>1, <1>2, <2>1 DEF Stages, Apart, ArenaHolds
    <2>7. QED
      BY <2>4, <2>5, <2>6 DEF PlanInv
  <1>6. QED
    BY <1>4, <1>5

\* An interval is placed clear of those that are live with it.
LEMMA PlacePlan ==
  ASSUME PlanInv, NEW v \in Intervals, Place(v)
  PROVE  PlanInv'
  <1>1. /\ graph \in Graphs /\ root \in [Tensors -> Tensors]
        /\ DOMAIN at \subseteq Intervals /\ at \in [DOMAIN at -> Nat] /\ arena \in Nat
        /\ Chained(root, Decided) /\ Apart /\ ArenaHolds
    BY DEF PlanInv, TypeOK
  <1>2. \A w \in Intervals : Size(w) \in Nat
    BY <1>1, Sizes
  <1>3. /\ UNCHANGED <<graph, tiled, phase, pos, root>> /\ phase = "place"
        /\ v \notin DOMAIN at
    BY DEF Place
  <1>4. PICK o \in {0} \union {Top(p) : p \in DOMAIN at} :
          /\ IsBestFit(v, o)
          /\ at' = [p \in DOMAIN at \union {v} |-> IF p = v THEN o ELSE at[p]]
          /\ arena' = IF o + Size(v) > arena THEN o + Size(v) ELSE arena
    BY DEF Place
  <1>5. o \in Nat
    BY <1>1, <1>2, <1>4 DEF Top
  <1>6. /\ Intervals' = Intervals /\ Tensors' = Tensors /\ End' = End
        /\ \A w : Size(w)' = Size(w)
        /\ \A w, x : Disjoint(w, x)' <=> Disjoint(w, x)
    BY <1>3, SameGraph, SameIntervals
  <1>7. /\ DOMAIN at' = DOMAIN at \union {v} /\ at'[v] = o
        /\ \A p \in DOMAIN at : at'[p] = at[p]
    BY <1>3, <1>4
  <1>8. Top(v)' = o + Size(v) /\ \A p \in DOMAIN at : Top(p)' = Top(p)
    BY <1>6, <1>7 DEF Top
  <1>9. TypeOK'
    <2>1. DOMAIN at' \subseteq Intervals /\ at' \in [DOMAIN at' -> Nat] /\ arena' \in Nat
      BY <1>1, <1>2, <1>4, <1>5, <1>7
    <2>2. QED
      BY <1>3, <1>6, <2>1 DEF PlanInv, TypeOK
  <1>10. ASSUME NEW p \in DOMAIN at
         PROVE  Disjoint(v, p) \/ Top(p) <= o \/ o + Size(v) <= at[p]
    <2>1. \A q \in DOMAIN at : at[q] \in Nat /\ Size(q) \in Nat
      BY <1>1, <1>2
    <2>2. QED
      BY <1>2, <1>4, <1>5, <1>10, <2>1, FitIsClear
  <1>11. \A w, x : Disjoint(w, x) <=> Disjoint(x, w)
    BY DEF Disjoint
  <1>12. Apart'
    <2>1. SUFFICES ASSUME NEW w \in DOMAIN at', NEW x \in DOMAIN at', w # x
                   PROVE  Disjoint(w, x) \/ Top(w)' <= at'[x] \/ Top(x)' <= at'[w]
      BY <1>6 DEF Apart
    <2>2. CASE w = v
      BY <1>7, <1>8, <1>10, <2>1, <2>2
    <2>3. CASE x = v
      BY <1>7, <1>8, <1>10, <1>11, <2>1, <2>3
    <2>4. CASE w # v /\ x # v
      BY <1>1, <1>7, <1>8, <2>1, <2>4 DEF Apart
    <2>5. QED
      BY <2>2, <2>3, <2>4
  <1>13. ArenaHolds'
    <2>1. SUFFICES ASSUME NEW p \in DOMAIN at'
                   PROVE  Top(p)' <= arena'
      BY DEF ArenaHolds
    <2>2. CASE p = v
      BY <1>1, <1>2, <1>4, <1>5, <1>8, <2>2
    <2>3. CASE p # v
      <3>1. p \in DOMAIN at /\ Top(p)' = Top(p) /\ Top(p) <= arena /\ Top(p) \in Nat
        BY <1>1, <1>2, <1>7, <1>8, <2>1, <2>3 DEF ArenaHolds, Top
      <3>2. QED
        BY <1>1, <1>2, <1>4, <1>5, <3>1
    <2>4. QED
      BY <2>2, <2>3
  <1>14. Stages'
    BY <1>3 DEF Stages
  <1>15. Chained(root, Decided)'
    <2>1. Decided' = Decided /\ root' = root
      BY <1>3 DEF Decided, Nodes
    <2>2. Chained(root', Decided')
      BY <1>1, <2>1
    <2>3. QED
      BY <1>3, <2>2, ChainedNext
  <1>16. QED
    BY <1>9, <1>12, <1>13, <1>14, <1>15 DEF PlanInv

\* Nothing moves once everything is placed.
LEMMA RestPlan ==
  ASSUME PlanInv, Finish \/ Done \/ UNCHANGED vars
  PROVE  PlanInv'
  <1>1. UNCHANGED <<graph, tiled, pos, root, at, arena>>
    BY DEF Finish, Done, vars
  <1>2. /\ Intervals' = Intervals /\ Tensors' = Tensors /\ End' = End
        /\ \A w : Size(w)' = Size(w)
        /\ \A w, x : Disjoint(w, x)' <=> Disjoint(w, x)
    BY <1>1, SameGraph, SameIntervals
  <1>3. TypeOK'
    BY <1>1, <1>2 DEF PlanInv, TypeOK, Finish, Done, vars
  <1>4. Stages'
    BY <1>1, <1>2 DEF PlanInv, Stages, Finish, Done, vars
  <1>5. Apart' /\ ArenaHolds'
    BY <1>1, <1>2 DEF PlanInv, Apart, ArenaHolds, Top
  <1>6. Chained(root, Decided)'
    <2>1. Decided \subseteq Decided'
      BY <1>1 DEF Decided, Nodes, Finish, Done, vars
    <2>2. Chained(root', Decided')
      BY <1>1, <2>1, ChainedMore DEF PlanInv
    <2>3. QED
      BY <1>1, <2>2, ChainedNext
  <1>7. QED
    BY <1>3, <1>4, <1>5, <1>6 DEF PlanInv

\* The invariant holds throughout a call of the planner.
THEOREM PlanInvariant == Spec => []PlanInv
  <1>1. PlanInv /\ [Next]_vars => PlanInv'
    BY AliasPlan, PlacePlan, RestPlan DEF Next
  <1>2. QED
    BY <1>1, InitPlan, PTL DEF Spec

\* A finished plan leaves every operand intact until it has been read.
LEMMA PlanIsSafe ==
  ASSUME PlanInv
  PROVE  ReadsIntact
  <1>1. SUFFICES ASSUME phase = "done", NEW t \in Planned, NEW i \in Needed(t)
                 PROVE  IntactUntil(t, i)
    BY DEF ReadsIntact, Needed
  <1>2. /\ graph \in Graphs /\ root \in [Tensors -> Tensors]
        /\ at \in [DOMAIN at -> Nat] /\ Intervals \subseteq DOMAIN at
        /\ Chained(root, Decided) /\ Apart
    BY <1>1 DEF PlanInv, TypeOK, Stages
  <1>3. /\ \A x \in Planned : x \in Tensors /\ Group(x) \in Intervals
        /\ \A v \in Intervals : Size(v) \in Nat
        /\ Nodes = 1..Len(graph.nodes) /\ Len(graph.nodes) \in Nat
    BY <1>2, Sizes, GraphTypes
  <1>4. ASSUME NEW x \in Planned
        PROVE  /\ ProducedAt(x) \in Starts(Group(x)) /\ Needed(x) \subseteq Ends(Group(x))
               /\ ProducedAt(x) \in Int /\ Needed(x) # {}
               /\ \A k \in Needed(x) : k \in Int /\ ProducedAt(x) < k
    <2>1. x \in Members(Group(x)) /\ Group(x).kind = "group"
      BY DEF Members, Group
    <2>2. ProducedAt(x) \in Starts(Group(x)) /\ Needed(x) \subseteq Ends(Group(x))
      BY <2>1 DEF Starts, Ends
    <2>3. /\ ProducedAt(x) \in 0..Len(graph.nodes) /\ Needed(x) # {}
          /\ \A k \in Needed(x) : k \in 1..End /\ ProducedAt(x) < k
      BY <1>2, <1>3, Production
    <2>4. QED
      BY <1>3, <2>2, <2>3 DEF End
  <1>5. ASSUME NEW v \in Intervals, NEW w \in Intervals, v # w, Overlap(v, w)
        PROVE  Disjoint(v, w)
    <2>1. /\ at[v] \in Nat /\ at[w] \in Nat /\ Top(v) \in Nat /\ Top(w) \in Nat
          /\ v \in DOMAIN at /\ w \in DOMAIN at
      BY <1>2, <1>3 DEF Top
    <2>2. at[v] < Top(w) /\ at[w] < Top(v)
      BY <1>5 DEF Overlap
    <2>3. QED
      BY <1>2, <1>5, <2>1, <2>2 DEF Apart
  <1>6. ASSUME NEW u \in Planned \ {t}, ProducedAt(t) <= ProducedAt(u), ProducedAt(u) <= i,
               Overlap(Group(t), Group(u))
        PROVE  ProducedAt(u) = i /\ i \in Nodes /\ InPlace(i, t, u)
    <2>1. CASE Group(t) = Group(u)
      <3>1. root[t] = root[u] /\ t # u /\ t \in Tensors /\ u \in Tensors
        BY <1>3, <2>1 DEF Group
      <3>2. ProducedAt(t) # ProducedAt(u)
            /\ (ProducedAt(t) < ProducedAt(u) => Succeeds(t, u, Decided))
        BY <1>2, <3>1 DEF Chained
      <3>3. Succeeds(t, u, Decided)
        BY <1>4, <1>6, <3>2
      <3>4. i = ProducedAt(u) /\ Overwrites(i, t, u) /\ ProducedAt(u) \in Decided
        BY <1>1, <1>4, <1>6, <3>3 DEF Succeeds
      <3>5. QED
        BY <2>1, <3>4 DEF InPlace, Overwrites, Decided
    <2>2. CASE Group(t) # Group(u)
      <3>1. Disjoint(Group(t), Group(u))
        BY <1>3, <1>5, <1>6, <2>2
      <3>2. PICK k \in Needed(u) : k \in Ends(Group(u)) /\ ProducedAt(u) < k /\ k \in Int
        BY <1>4
      <3>3. i < ProducedAt(u) \/ k < ProducedAt(t)
        BY <1>1, <1>4, <3>1, <3>2 DEF Disjoint
      <3>4. QED
        BY <1>1, <1>4, <1>6, <3>2, <3>3
    <2>3. QED
      BY <2>1, <2>2
  <1>7. ASSUME NEW v \in Intervals, v.kind # "group", ProducedAt(t) <= v.of, v.of <= i,
               Overlap(Group(t), v)
        PROVE  FALSE
    <2>1. v.of \in Int /\ Starts(v) = {v.of} /\ Ends(v) = {v.of}
      BY <1>3, <1>7 DEF Intervals, Group, Reserved, Workspace, Starts, Ends
    <2>2. v # Group(t)
      BY <1>7 DEF Group
    <2>3. Disjoint(Group(t), v)
      BY <1>3, <1>5, <1>7, <2>2
    <2>4. i < v.of \/ v.of < ProducedAt(t)
      BY <1>1, <1>4, <2>1, <2>3 DEF Disjoint
    <2>5. QED
      BY <1>1, <1>4, <1>7, <2>1, <2>4
  <1>8. QED
    BY <1>6, <1>7 DEF IntactUntil

\* The passes keep their types for every graph.
THEOREM PlanTypes == Spec => []TypeOK
  <1>1. PlanInv => TypeOK
    BY DEF PlanInv
  <1>2. QED
    BY <1>1, PlanInvariant, PTL

\* Whatever the graph, a run inside the planned ranges reads every operand as
\* its producer left it.
THEOREM PlanReadsIntact == Spec => []ReadsIntact
  <1>1. PlanInv => ReadsIntact
    BY PlanIsSafe
  <1>2. QED
    BY <1>1, PlanInvariant, PTL

\* The arena is large enough for every range placed so far.
THEOREM PlanArena == Spec => []ArenaHolds
  <1>1. PlanInv => ArenaHolds
    BY DEF PlanInv
  <1>2. QED
    BY <1>1, PlanInvariant, PTL
=============================================================================
