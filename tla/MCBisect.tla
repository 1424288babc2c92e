------------------------------ MODULE MCBisect ------------------------------
EXTENDS Bisect

\* x is the input; w an initializer; y the output; t is only ever added.
x == 1
w == 2
a == 3
b == 4
c == 5
t == 6
y == 7

Conv(outs, ins, attr) == [op |-> "Conv", attr |-> attr, ins |-> ins, outs |-> outs]
Relu(out, in) == [op |-> "Relu", attr |-> 0, ins |-> <<in>>, outs |-> <<out>>]
Nothing == [op |-> "none", attr |-> 0, ins |-> <<>>, outs |-> <<0>>]

\* Two blocks in a row.
Start == [nodes |-> <<Conv(<<a>>, <<x, w>>, 0), Relu(b, a), Conv(<<c>>, <<b>>, 0), Relu(y, c)>>,
          inits |-> [n \in {w} |-> 0]]

\* What the nodes of a candidate may be.
Variants ==
    { {na, nb, nc, nt, ny} \ {Nothing} :
        na \in {Conv(<<a>>, <<x, w>>, 0), Conv(<<a>>, <<x, w>>, 1), Conv(<<a>>, <<y, w>>, 0),
                Conv(<<a>>, <<x>>, 0), Conv(<<a, t>>, <<x, w>>, 0), Conv(<<t, a>>, <<x>>, 0), Nothing},
        nb \in {Relu(b, a), Relu(b, x), Relu(b, t), Nothing},
        nc \in {Conv(<<c>>, <<b>>, 0), Conv(<<c>>, <<b>>, 1), Conv(<<c>>, <<x, a>>, 0), Conv(<<c>>, <<t>>, 0), Nothing},
        nt \in {Nothing, Relu(t, x), Relu(t, b)},
        ny \in {Relu(y, c), Relu(y, b), Conv(<<y>>, <<c>>, 0), Nothing} }

\* The initializers: as they were, changed, dropped, or with a folded a or b.
Inits == { [n \in {w} |-> 0], [n \in {w} |-> 1], <<>>, [n \in {w, a} |-> 0], [n \in {b} |-> 0] }

\* A graph, in two of its orders.
Pool(nodes, sign) == {[from |-> n, pos |-> sign * n.outs[1], node |-> n] : n \in nodes}
Order(v, sign) == TopoOrder(Pool(v[1], sign), Inputs \union (DOMAIN v[2]))

SingleAssignment(v) ==
    /\ \A m, n \in v[1] : m # n => Outs(m) \intersect Outs(n) = {}
    /\ \A n \in v[1] : Outs(n) \intersect (DOMAIN v[2]) = {}

IsGraph(v) == Len(Order(v, 1)) = Cardinality(v[1]) /\ y \in UNION {Outs(n) : n \in v[1]}

Models == {v \in Variants \X Inits : SingleAssignment(v)}

Graph(v, sign) == [nodes |-> [i \in DOMAIN Order(v, sign) |-> Order(v, sign)[i].node], inits |-> v[2]]

Graphs == {Graph(v, sign) : v \in {u \in Models : IsGraph(u)}, sign \in {1, -1}}

\* Models that lack a tensor or go in a circle, which only a backend takes.
Broken == {[nodes |-> SetToSortSeq(v[1], LAMBDA m, n : m.outs[1] < n.outs[1]), inits |-> v[2]] :
              v \in {u \in Models : ~IsGraph(u)}}

\* From the start to a candidate, and from a graph back to the start.
MCChanges == ({Start} \X (Graphs \union Broken)) \union (Graphs \X {Start})
=============================================================================
