-------------------------- MODULE MCMemoryPlanning --------------------------
(***************************************************************************)
(* Instances of MemoryPlanning: every small graph of three nodes, and      *)
(* graphs chosen for fragmentation, workspaces, unknown sizes and bodies.  *)
(***************************************************************************)
EXTENDS MemoryPlanning

Plain(op, in, out) == [op |-> op, in |-> in, out |-> out, captures |-> {},
                       reserved |-> 0, score |-> 0]

\* What a node may read and be, when it makes o from earlier tensors.
Choices(o, earlier) ==
    {Plain(op, <<t>>, <<o>>) : op \in {"unary", "other"}, t \in earlier}
    \union {Plain("binary", <<t, u>>, <<o>>) : t \in earlier, u \in earlier}

SmallSizes == {s \in [{"x", "a", "b", "c"} -> {1, 2}] : s["x"] = 2 /\ s["c"] = 2}

\* All graphs of three nodes that read the graph's input x and each other; the
\* first cannot be in place, since x is not the planner's.
Small ==
    {[nodes |-> <<n1, n2, n3>>, inputs |-> {"x"}, outputs |-> outs, weights |-> {}, size |-> s] :
        n1 \in {Plain("other", <<"x">>, <<"a">>)}, n2 \in Choices("b", {"x", "a"}),
        n3 \in Choices("c", {"x", "a", "b"}), outs \in {{"c"}, {"b", "c"}}, s \in SmallSizes}

\* Lives that leave gaps of two sizes, and a branch that meets again in place.
Fragmented ==
    [nodes |-> <<Plain("other", <<"x">>, <<"a", "b">>),
                 Plain("other", <<"a">>, <<"c">>),
                 Plain("other", <<"c", "x">>, <<"d", "e">>),
                 Plain("unary", <<"b", "">>, <<"f">>),
                 Plain("binary", <<"w", "d">>, <<"g">>),
                 Plain("binary", <<"f", "g">>, <<"y">>)>>,
     inputs |-> {"x", "w"}, outputs |-> {"y"}, weights |-> {"w"},
     size |-> [t \in {"x", "a", "b", "c", "d", "e", "f", "g", "w", "y"} |->
                 CASE t \in {"x"} -> 2 [] t \in {"a"} -> 3 [] t \in {"c", "e"} -> 1
                   [] t \in {"w"} -> 5 [] OTHER -> 4]]

\* An If over a body of its own, attention with a score matrix, a size nobody knows.
Workspaces(s) ==
    [nodes |-> <<Plain("other", <<"x">>, <<"a">>),
                 [Plain("other", <<"a">>, <<"q", "">>) EXCEPT !.score = 3],
                 Plain("unary", <<"q">>, <<"r">>),
                 [Plain("other", <<"r", "k">>, <<"k2">>) EXCEPT !.reserved = 2, !.score = Unknown],
                 Plain("binary", <<"k2", "r">>, <<"z">>),
                 Plain("unary", <<"z">>, <<"y">>)>>,
     inputs |-> {"x", "k"}, outputs |-> {"y", "k2"}, weights |-> {},
     size |-> [t \in {"x", "k", "a", "q", "r", "k2", "z", "y"} |->
                 CASE t = "k" -> Unknown [] t \in {"q", "r"} -> s [] OTHER -> 2]]

MCGraphs == Small \union {Fragmented} \union {Workspaces(s) : s \in 0..3}

\* a is read by a Relu and by the body of the If after it.
Captured ==
    [nodes |-> <<Plain("other", <<"x">>, <<"a">>),
                 Plain("unary", <<"a">>, <<"b">>),
                 [Plain("other", <<"b">>, <<"y">>) EXCEPT !.captures = {"a"}, !.reserved = 1]>>,
     inputs |-> {"x"}, outputs |-> {"y"}, weights |-> {},
     size |-> [t \in {"x", "a", "b", "y"} |-> 2]]

MCCapturedGraphs == {Captured}
=============================================================================
