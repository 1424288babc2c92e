-------------------------- MODULE MCConstantFolding --------------------------
EXTENDS ConstantFolding

\* Names: nodes are 1 .. 4, 5 is fresh, 0 is a graph input, -1 a weight and -2
\* a weight that doubles as a graph input.
Four == 1 .. 4
FourInOrder == <<1, 2, 3, 4>>
Spare == {5}
InputNames == {0, -2}
WeightNames == {-1, -2}
OutputNames == {2, 4}

\* A chain, a diamond, a runtime value joining in, a read ahead
SomeWirings ==
    {<<{-1}, {1}, {2}, {3}>>,
     <<{-1}, {1}, {1, -2}, {2, 3}>>,
     <<{-1}, {0, 1}, {1}, {2, 3}>>,
     <<{3}, {1}, {-1}, {1, 2}>>}

\* At most Odd nodes are anything but ordinary operators.
Odd == 2
SomeKinds == {kd \in [Four -> Kinds] : Cardinality({n \in Four : kd[n] # "op"}) <= Odd}

AtMostOneBroken == {{}} \union {{n} : n \in Four}

\* Node 2's shape is unknown.
SomeBytes == <<1, 0, 1, 1, 1>>
=============================================================================
