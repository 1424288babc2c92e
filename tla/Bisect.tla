------------------------------- MODULE Bisect -------------------------------
(***************************************************************************)
(* bisect_failure of onnxsim/versioning.py: which unit of a change makes   *)
(* the candidate fail.  check_equivalent, which runs the models, is an     *)
(* oracle: it may raise, and what it says of a prefix is arbitrary.  The   *)
(* base runs on ONNX Runtime; the candidate and the prefixes do so too, or *)
(* run on a backend, node by node, where the base itself is never run.     *)
(***************************************************************************)
EXTENDS BisectPlan

CONSTANTS Changes  \* pairs of a base and a candidate graph

\* Graphs are finite.
Finite(g) == g.nodes \in Seq(ToSet(g.nodes)) /\ IsFiniteSet(DOMAIN g.inits)

Tensors(g) == Inputs \union (DOMAIN g.inits) \union UNION {Outs(n) : n \in Nodes(g)}

\* A model as ONNX has it: every node makes a tensor, and no tensor is made
\* twice.
WellFormed(g) ==
    /\ Finite(g)
    /\ g.inits = [n \in DOMAIN g.inits |-> g.inits[n]] /\ DOMAIN g.inits \subseteq Nat \ {0}
    /\ \A i \in DOMAIN g.nodes :
         LET n == g.nodes[i]
         IN  /\ 1 \in DOMAIN n.outs
             /\ \A j \in (DOMAIN g.nodes) \ {i} : Outs(n) \intersect Outs(g.nodes[j]) = {}
             /\ Outs(n) \intersect (DOMAIN g.inits) = {}

\* What a graph reads or returns and does not have.
Lacking(g) == ((UNION {Ins(n) : n \in Nodes(g)}) \union Outputs) \ Tensors(g)

\* What run_model asks for, at least.  run_partial leaves out the nodes whose
\* inputs were not produced, and does not judge the outputs that were not.
Runnable(g) == WellFormed(g) /\ Lacking(g) = {}

ASSUME ChangesType == \A change \in Changes : Runnable(change[1]) /\ WellFormed(change[2])

VARIABLES base, cand, fused,
          backend,            \* the arguments: backend says whether there is one
          pc, units, lo, hi, evaluations,
          passes,             \* the oracle, one verdict for each prefix
          probed              \* prefixes the search has built and run

args == <<base, cand, fused, backend>>
vars == <<args, pc, units, lo, hi, evaluations, passes, probed>>

Init ==
    /\ \E change \in Changes : base = change[1] /\ cand = change[2]
    /\ fused \in BOOLEAN /\ backend \in BOOLEAN
    /\ pc = "check" /\ units = <<>> /\ lo = 0 /\ hi = 0 /\ evaluations = 0
    /\ passes = <<>> /\ probed = {}

\* check_equivalent comes to a result.
Checked == backend \/ Runnable(cand)

\* check_equivalent raises: a model does not run, or the output names differ.
CheckRaises ==
    /\ pc = "check"
    /\ pc' = "raised"
    /\ UNCHANGED <<args, units, lo, hi, evaluations, passes, probed>>

\* The candidate passes every case: None.
NoFailure ==
    /\ pc = "check" /\ Checked
    /\ pc' = "none"
    /\ UNCHANGED <<args, units, lo, hi, evaluations, passes, probed>>

\* It fails, and the difference is split into units.
MakePlan ==
    /\ pc = "check" /\ Checked
    /\ units' = Plan(base, cand, fused)
    /\ units' # <<>>
    /\ lo' = 0 /\ hi' = Len(units')
    /\ pc' = "search"
    /\ passes' \in {v \in [0..Len(units') -> BOOLEAN] : ~v[Len(units')]}
    /\ UNCHANGED <<args, evaluations, probed>>

\* It fails, and no node or initializer differs: BisectError.
NothingDiffers ==
    /\ pc = "check" /\ Checked
    /\ Plan(base, cand, fused) = <<>>
    /\ pc' = "error"
    /\ UNCHANGED <<args, units, lo, hi, evaluations, passes, probed>>

\* Mutant: the units are tried one after the other.
MidNext == lo + 1

Mid == (lo + hi) \div 2

\* One turn of the loop: the prefix is built and run.
Probe ==
    /\ pc = "search" /\ hi - lo > 1
    /\ Verdict(base, cand, units, Mid) = "valid"
    /\ evaluations' = evaluations + 1
    /\ probed' = probed \union {Mid}
    /\ IF passes[Mid] THEN lo' = Mid /\ UNCHANGED hi ELSE hi' = Mid /\ UNCHANGED lo
    /\ UNCHANGED <<args, pc, units, passes>>

\* The prefix is built, and running it raises.
ProbeRaises ==
    /\ pc = "search" /\ hi - lo > 1
    /\ Verdict(base, cand, units, Mid) = "valid"
    /\ evaluations' = evaluations + 1
    /\ pc' = "raised"
    /\ UNCHANGED <<args, units, lo, hi, passes, probed>>

\* _Invalid: BisectError.
ProbeInvalid ==
    /\ pc = "search" /\ hi - lo > 1
    /\ Verdict(base, cand, units, Mid) # "valid"
    /\ pc' = "error"
    /\ UNCHANGED <<args, units, lo, hi, evaluations, passes, probed>>

\* Mutant: the search stops while one prefix is left untried.
ReturnEarly ==
    /\ pc = "search" /\ hi - lo <= 2
    /\ pc' = "found"
    /\ UNCHANGED <<args, units, lo, hi, evaluations, passes, probed>>

\* culprit = units[hi - 1]
Return ==
    /\ pc = "search" /\ hi - lo <= 1
    /\ pc' = "found"
    /\ UNCHANGED <<args, units, lo, hi, evaluations, passes, probed>>

Next == \/ CheckRaises \/ NoFailure \/ MakePlan \/ NothingDiffers
        \/ Probe \/ ProbeRaises \/ ProbeInvalid \/ Return

Spec == Init /\ [][Next]_vars

-----------------------------------------------------------------------------
(* Properties *)

\* The types of the search.
TypeOK ==
    /\ pc \in {"check", "none", "search", "error", "raised", "found"}
    /\ lo \in Nat /\ hi \in Nat /\ evaluations \in Nat
    /\ probed \subseteq 1..(Len(units) - 1)
    /\ pc \in {"search", "found"} => lo < hi /\ hi <= Len(units)

\* The prefix that the culprit completes was run and failed, and the prefix
\* before it was run and passed, whether or not failures persist.  Before the
\* first unit is the base, which is taken to pass and never run: on a backend
\* it may fail as well.
FoundBoundary ==
    pc = "found" =>
        /\ hi \in probed \union {Len(units)} /\ ~passes[hi]
        /\ hi > 1 => hi - 1 \in probed /\ passes[hi - 1]

\* When a prefix that fails only has failing extensions, the culprit completes
\* the first one with any unit applied that fails.
FirstIfMonotone ==
    pc = "found" /\ (\A j, k \in DOMAIN passes : j <= k /\ ~passes[j] => ~passes[k])
        => \A k \in (DOMAIN passes) \ {0} : ~passes[k] => hi <= k

TwoToThe[n \in Nat] == IF n = 0 THEN 1 ELSE 2 * TwoToThe[n - 1]

\* The number of evaluations is the logarithm of the number of units,
\* rounded up: 2^(e-1) < n, and none for a single unit.
FewEvaluations ==
    pc = "found" => TwoToThe[evaluations] < 2 * Len(units)

Planned == pc = "search" /\ probed = {}

\* The two ends of the search are the graphs check_equivalent was asked about:
\* no unit applied is the base, all of them the candidate.
EndsAreTheGraphs ==
    Planned =>
        LET Is(k, g) == /\ {e.node : e \in StatePool(base, cand, units, k)} = Nodes(g)
                        /\ StateInits(base, cand, units, k) = g.inits
        IN  Is(0, base) /\ Is(Len(units), cand)

\* What prefix k reads or returns and does not have.
Lost(b, c, plan, k) ==
    LET pool == StatePool(b, c, plan, k)
    IN  ((UNION {Ins(e.node) : e \in pool}) \union Outputs)
            \ (Inputs \union (DOMAIN StateInits(b, c, plan, k)) \union UNION {Outs(e.node) : e \in pool})

\* No prefix makes a tensor twice, and none reads or returns a tensor it does
\* not have, unless the candidate, on a backend, does so itself.  Without one,
\* only a cycle can make a prefix invalid.  Reads are those that nodes list
\* among their inputs, which is what _topo_order looks at.
OnlyCyclesInvalid ==
    Planned => \A k \in 0..Len(units) :
        /\ Verdict(base, cand, units, k) # "twice"
        /\ Lost(base, cand, units, k) \subseteq Lacking(cand)
        /\ ~backend => Verdict(base, cand, units, k) \in {"valid", "cycle"}

\* A changed node or initializer is in one unit, so that the culprit says
\* which changes it stands for; an unchanged node moves in at most one.
UnitsDisjoint ==
    Planned =>
        \A u, v \in DOMAIN units : u # v =>
            /\ units[u].rm \intersect units[v].rm = {}
            /\ units[u].add \intersect units[v].add = {}
            /\ units[u].inits \intersect units[v].inits = {}
=============================================================================
