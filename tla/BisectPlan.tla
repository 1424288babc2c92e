----------------------------- MODULE BisectPlan -----------------------------
(***************************************************************************)
(* How onnxsim/versioning.py splits the difference between two graphs into *)
(* units and builds the graph in which the first k of them are applied.    *)
(*                                                                         *)
(* A graph is its nodes, in topological order, and its initializers.  The  *)
(* content of a node is its operator, its attributes (a variant number)    *)
(* and the tensors it reads and writes; tensors are numbers, ordered as    *)
(* their names are.  What the body of a control-flow node reads is in its  *)
(* attributes and in no list of inputs, here as in the code.  Base and     *)
(* candidate have the same inputs and outputs.  Indices count from 1.      *)
(***************************************************************************)
EXTENDS Integers, Sequences, FiniteSets, SequencesExt, FiniteSetsExt

CONSTANTS Inputs,   \* the graph's inputs
          Outputs,  \* and its outputs
          Heads,    \* operators that start a fusion block,
          Tails     \* and the ones that may join it

ASSUME InterfaceType == Inputs \subseteq Nat /\ Outputs \subseteq Nat

Ins(n) == ToSet(n.ins)
Outs(n) == ToSet(n.outs)
Nodes(g) == ToSet(g.nodes)

-----------------------------------------------------------------------------
\* _match_nodes: base and candidate nodes with the same first output.
Matched(b, c) ==
    {p \in (DOMAIN b.nodes) \X (DOMAIN c.nodes) : b.nodes[p[1]].outs[1] = c.nodes[p[2]].outs[1]}

\* Matched pairs with the same _node_key.
Same(b, c) == {p \in Matched(b, c) : b.nodes[p[1]] = c.nodes[p[2]]}

DiffBase(b, c) == {i \in DOMAIN b.nodes : \A p \in Same(b, c) : p[1] # i}
DiffCand(b, c) == {j \in DOMAIN c.nodes : \A p \in Same(b, c) : p[2] # j}
DiffInit(b, c) ==
    {n \in (DOMAIN b.inits) \union (DOMAIN c.inits) :
        n \notin (DOMAIN b.inits) \intersect (DOMAIN c.inits) \/ b.inits[n] # c.inits[n]}

\* inverse.get(i, len(cn) + i)
Position(b, c, i) ==
    LET js == {p[2] : p \in {q \in Matched(b, c) : q[1] = i}}
    IN  IF js = {} THEN Len(c.nodes) + i ELSE CHOOSE j \in js : TRUE

\* How often a tensor is read, a graph output counting once more.
Uses(g, t) ==
    Cardinality({ik \in UNION {{i} \X (DOMAIN g.nodes[i].ins) : i \in DOMAIN g.nodes} :
                    g.nodes[ik[1]].ins[ik[2]] = t})
    + (IF t \in Outputs THEN 1 ELSE 0)

\* _fusion_blocks: the first node of each node's block.  A tail joins the
\* block of the node whose first output it reads first, if that node is in a
\* block which can grow and nothing else reads the tensor.
FusionBlocks(g, fused) ==
    LET Block[i \in DOMAIN g.nodes] ==
          LET n == g.nodes[i]
              from == {p \in 1..(i - 1) : /\ n.ins # <<>> /\ g.nodes[p].outs[1] = n.ins[1]
                                          /\ g.nodes[p].op \in Heads \/ Block[p] # p}
          IN  IF fused /\ n.op \in Tails /\ from # {} /\ Uses(g, n.ins[1]) = 1
              THEN Block[CHOOSE p \in from : TRUE] ELSE i
    IN  Block

-----------------------------------------------------------------------------
\* The items of _plan: base nodes that go, candidate nodes that come and
\* initializers that change.  rank is an item's place in the list.
Item(kind, ref, outs, ins, pos, key, rank) ==
    [kind |-> kind, ref |-> ref, outs |-> outs, ins |-> ins, pos |-> pos, key |-> key,
     rank |-> rank]

BaseItem(b, c, fused, i) ==
    LET pos == Position(b, c, i)
    IN  Item("base", i, Outs(b.nodes[i]), Ins(b.nodes[i]), pos,
             <<"block", FusionBlocks(b, fused)[i]>>,
             IF pos > Len(c.nodes) THEN i ELSE Len(b.nodes) + pos)

\* The key is the fusion block of the base node it replaces; for an added node
\* that of the first tensor it reads from a base node, else its own.
CandItem(b, c, fused, j) ==
    LET n == c.nodes[j]
        partner == {p[1] : p \in {q \in Matched(b, c) : q[2] = j}}
        Makers(k) == {i \in DOMAIN b.nodes : n.ins[k] \in Outs(b.nodes[i])}
        read == {k \in DOMAIN n.ins : Makers(k) # {}}
        near == IF partner # {} THEN partner ELSE IF read # {} THEN Makers(Min(read)) ELSE {}
    IN  Item("cand", j, Outs(n), Ins(n), j,
             IF near = {} THEN <<"cand", j>>
                          ELSE <<"block", FusionBlocks(b, fused)[CHOOSE i \in near : TRUE]>>,
             Len(b.nodes) + Len(c.nodes) + j)

InitItem(b, c, n) ==
    Item("init", n, {n}, {}, -1, <<"init", n>>, Len(b.nodes) + 2 * Len(c.nodes) + n)

Items(b, c, fused) ==
           {BaseItem(b, c, fused, i) : i \in DiffBase(b, c)}
    \union {CandItem(b, c, fused, j) : j \in DiffCand(b, c)}
    \union {InitItem(b, c, n) : n \in DiffInit(b, c)}

\* Mutant: an item is not tied to the producers of what it reads.
LinkedByOutput(x, y) == x.outs \intersect y.outs # {} \/ x.key = y.key

\* Mutant: the changes of a fusion block are left apart.
LinkedByTensor(x, y) ==
    \/ (x.ins \union x.outs) \intersect y.outs # {}
    \/ x.outs \intersect y.ins # {}

\* The unions of _plan: an item and the producers of what it reads, the
\* producers of one tensor, and the items of one block.
Linked(x, y) ==
    \/ (x.ins \union x.outs) \intersect y.outs # {}
    \/ x.outs \intersect y.ins # {}
    \/ x.key = y.key

\* The connected group of an item.
Group(items, x) ==
    LET Grow[k \in 0..Cardinality(items)] ==
          IF k = 0 THEN {x}
          ELSE LET known == Grow[k - 1]
               IN  {y \in items : y \in known \/ \E z \in known : Linked(z, y)}
    IN  Grow[Cardinality(items)]

\* ordered: by the earliest position in the candidate, then by place.
GroupBefore(g, h) ==
    LET pg == Min({x.pos : x \in g})
        ph == Min({x.pos : x \in h})
    IN  pg < ph \/ (pg = ph /\ Min({x.rank : x \in g}) < Min({x.rank : x \in h}))

\* ChangeUnit._apply: a change in a fusion block takes all of it along.
UnitOf(b, c, fused, group) ==
    LET block == FusionBlocks(b, fused)
        members == {i \in DOMAIN b.nodes : <<"block", block[i]>> \in {x.key : x \in group}}
        Refs(kind) == {x.ref : x \in {y \in group : y.kind = kind}}
    IN  [rm    |-> Refs("base") \union members,
         add   |-> Refs("cand") \union {p[2] : p \in {q \in Matched(b, c) : q[1] \in members}},
         inits |-> Refs("init")]

Plan(b, c, fused) ==
    LET items == Items(b, c, fused)
        groups == {Group(items, x) : x \in items}
        Place(g) == Cardinality({h \in groups : GroupBefore(h, g)}) + 1
    IN  [k \in 1..Cardinality(groups) |->
            UnitOf(b, c, fused, CHOOSE g \in groups : Place(g) = k)]

-----------------------------------------------------------------------------
\* Mutant: initializers the candidate dropped stay.
StateInitsKeep(b, c, units, k) ==
    LET changed == (UNION {units[u].inits : u \in 1..k}) \intersect DOMAIN c.inits
    IN  [n \in (DOMAIN b.inits) \union changed |-> IF n \in changed THEN c.inits[n] ELSE b.inits[n]]

\* _state: what the first k units leave of the base, what they add, and the
\* initializers.  A pool entry names where its node came from.
StateInits(b, c, units, k) ==
    LET changed == UNION {units[u].inits : u \in 1..k}
        names == ((DOMAIN b.inits) \ changed) \union ((DOMAIN c.inits) \intersect changed)
    IN  [n \in names |-> IF n \in changed THEN c.inits[n] ELSE b.inits[n]]

StatePool(b, c, units, k) ==
    {[from |-> <<0, i>>, pos |-> Position(b, c, i), node |-> b.nodes[i]] :
        i \in (DOMAIN b.nodes) \ UNION {units[u].rm : u \in 1..k}}
    \union UNION {{[from |-> <<u, j>>, pos |-> j, node |-> c.nodes[j]] : j \in units[u].add} :
                    u \in 1..k}

\* _topo_order: nodes that wait for nothing, the earliest position first.
TopoOrder(pool, avail) ==
    LET Waits(e, done) == {t \in Ins(e.node) : t \notin avail
                              /\ \A d \in ToSet(done) : t \notin Outs(d.node)}
        Kahn[k \in 0..Cardinality(pool)] ==
          IF k = 0 THEN <<>>
          ELSE LET done == Kahn[k - 1]
                   ready == {e \in pool \ ToSet(done) : Waits(e, done) = {}}
               IN  IF ready = {} THEN done
                   ELSE Append(done, CHOOSE e \in ready : \A d \in ready : e.pos <= d.pos)
    IN  Kahn[Cardinality(pool)]

\* The errors of _topo_order, in the order of its checks.
Verdict(b, c, units, k) ==
    LET pool == StatePool(b, c, units, k)
        avail == Inputs \union (DOMAIN StateInits(b, c, units, k))
        made == UNION {Outs(e.node) : e \in pool}
    IN  CASE \E e, d \in pool : e # d /\ Outs(e.node) \intersect Outs(d.node) # {} -> "twice"
          [] \E e \in pool : ~(Ins(e.node) \subseteq avail \union made) -> "missing"
          [] Len(TopoOrder(pool, avail)) # Cardinality(pool) -> "cycle"
          [] ~(Outputs \subseteq avail \union made) -> "no output"
          [] OTHER -> "valid"
=============================================================================
