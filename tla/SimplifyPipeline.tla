-------------------------- MODULE SimplifyPipeline --------------------------
(***************************************************************************)
(* The fixed point at the heart of onnxsim (SimplifyImpl in onnxsim.cpp    *)
(* and both overloads of FixedPointFn in model_prep.h).                    *)
(*                                                                         *)
(* A model is an opaque value; each transform is an arbitrary function on  *)
(* models, picked once at the start.  What is modelled in full is the      *)
(* control that drives them: which loop runs which transform, what each    *)
(* loop takes for "nothing changed", and when it gives up.                 *)
(*                                                                         *)
(* Without a rewriter the two loops compare change flags the transforms    *)
(* report ("inner" drives InferShapes/Optimize, "outer" drives that pair   *)
(* and FoldConstant).  With a rewriter two loops that compare fingerprints *)
(* ("mid", "outer") are wrapped around the same "inner" loop.              *)
(***************************************************************************)
EXTENDS Naturals

CONSTANTS Models,           \* the models a simplification may pass through
          TransformChoices, \* the assignments of functions to transforms considered
          OptionChoices,    \* the combinations of options considered
          IterChoices,      \* the values of ONNXSIM_FIXED_POINT_ITERS considered
          NoModel           \* the fingerprint of no model

\* EliminateZeroRnn and SweepInitializers are the two parts of a transform
\* that change the graph without being reported.
Transforms == {"ConvertVersion", "InferShapes", "EliminateZeroRnn", "Optimize",
               "EvalPartialShape", "FoldConstant", "SweepInitializers", "Rewrite"}

ASSUME ChoicesAreTransforms ==
    TransformChoices \subseteq [Transforms -> [Models -> Models]]
ASSUME ItersAreNat == IterChoices \subseteq Nat
ASSUME NoModelIsFresh == NoModel \notin Models

Loops == {"inner", "mid", "outer"}

Options == [rewriter : BOOLEAN, importable : BOOLEAN, optimize : BOOLEAN,
            shape_inference : BOOLEAN, constant_folding : BOOLEAN,
            convert : BOOLEAN]
ASSUME ChoicesAreOptions == OptionChoices \subseteq Options

VARIABLES
    T,          \* T[t] is what transform t does to a model
    opt,        \* the options of this Simplify() call
    iters,      \* ONNXSIM_FIXED_POINT_ITERS
    stage,
    model,      \* sim_model (or the graph it was imported into)
    input,      \* history: the model as it entered the fixed point
    left,       \* left[l]: what loop l's _max_iters still holds
    fp,         \* fp[l]: the fingerprint loop l compares the model with next
    c1,         \* the change flag InferShapes reported this round
    anyChanged, \* any_changed of OptAndShapeOnGraph
    cut,        \* cut[l]: the last run of loop l ended by running out of iterations
    converged,  \* the outermost loop's verdict
    warned      \* the "stopped because of timeout" warning was printed

simplifyVars == <<T, opt, iters, stage, model, input, left, fp,
          c1, anyChanged, cut, converged, warned>>
choice == <<T, opt, iters>>

Locations == {"start", "outerRound", "midF1", "innerRound", "InferShapes",
              "Optimize", "OptAndShapeDone", "FoldConstant", "midDone",
              "Rewrite", "finish", "done"}

\* The types; no loop's _max_iters goes below zero.
SimplifyTypeOK ==
    /\ T \in [Transforms -> [Models -> Models]]
    /\ opt \in Options
    /\ iters \in Nat
    /\ stage \in Locations
    /\ model \in Models
    /\ input \in Models
    /\ left \in [Loops -> Nat]
    /\ fp \in [{"mid", "outer"} -> Models \union {NoModel}]
    /\ c1 \in BOOLEAN
    /\ anyChanged \in BOOLEAN
    /\ cut \in [Loops -> BOOLEAN]
    /\ converged \in BOOLEAN
    /\ warned \in BOOLEAN

SimplifyInit ==
    /\ T \in TransformChoices
    /\ opt \in OptionChoices
    /\ iters \in IterChoices
    /\ model \in Models
    /\ input = model
    /\ stage = "start"
    /\ left = [l \in Loops |-> 0]
    /\ fp = [l \in {"mid", "outer"} |-> NoModel]
    /\ c1 = FALSE
    /\ anyChanged = FALSE
    /\ cut = [l \in Loops |-> FALSE]
    /\ converged = FALSE
    /\ warned = FALSE

-----------------------------------------------------------------------------
(* Entering the pipeline.  An unparsable model is left untouched without a *)
(* rewriter; with one, only OptAndShape is skipped, every time it runs.    *)

Converted(m) == IF opt.convert THEN T["ConvertVersion"][m] ELSE m

StartGraph ==
    /\ stage = "start"
    /\ ~opt.rewriter
    /\ IF opt.importable
       THEN /\ model' = Converted(model)
            /\ input' = model'
            /\ left' = [left EXCEPT !["outer"] = iters]
            /\ stage' = "outerRound"
       ELSE /\ stage' = "finish"
            /\ UNCHANGED <<model, input, left>>
    /\ UNCHANGED <<choice, fp, c1, anyChanged, cut, converged, warned>>

StartRewriter ==
    /\ stage = "start"
    /\ opt.rewriter
    /\ model' = Converted(model)
    /\ input' = model'
    /\ left' = [left EXCEPT !["outer"] = iters, !["mid"] = iters]
    /\ stage' = "midF1"
    /\ UNCHANGED <<choice, fp, c1, anyChanged, cut, converged, warned>>

-----------------------------------------------------------------------------
(* The inner loop, OptAndShapeOnGraph: whole rounds of InferShapes then    *)
(* Optimize until a round reports no change from either.                   *)

EnterInner ==
    /\ left' = [left EXCEPT !["inner"] = iters]
    /\ anyChanged' = FALSE
    /\ stage' = "innerRound"

\* Mutant: _max_iters is tested but never decremented.
InnerRoundNoDecrement ==
    /\ stage = "innerRound"
    /\ IF left["inner"] > 0
       THEN stage' = "InferShapes" /\ UNCHANGED cut
       ELSE stage' = "OptAndShapeDone" /\ cut' = [cut EXCEPT !["inner"] = TRUE]
    /\ UNCHANGED <<choice, input, model, left, fp, c1, anyChanged, converged, warned>>

InnerRound ==
    /\ stage = "innerRound"
    /\ IF left["inner"] > 0
       THEN /\ left' = [left EXCEPT !["inner"] = @ - 1]
            /\ stage' = "InferShapes"
            /\ UNCHANGED cut
       ELSE /\ cut' = [cut EXCEPT !["inner"] = TRUE]
            /\ stage' = "OptAndShapeDone"
            /\ UNCHANGED left
    /\ UNCHANGED <<choice, input, model, fp, c1, anyChanged, converged, warned>>

InferShapes ==
    /\ stage = "InferShapes"
    /\ model' = IF opt.shape_inference THEN T["InferShapes"][model] ELSE model
    /\ c1' = (model' # model)
    /\ anyChanged' = (anyChanged \/ c1')
    /\ stage' = "Optimize"
    /\ UNCHANGED <<choice, input, left, fp, cut, converged, warned>>

\* The graph the passes start from: EliminateZeroRnnInitialState has already
\* run on it, and its own effect is not part of the reported change.
PassesInput(m) == IF opt.optimize THEN T["EliminateZeroRnn"][m] ELSE m

\* Mutant: the zero states are unset after the passes instead of before, so
\* that what this leaves dead is for a next round nobody asks for.
OptimizeThenZeroRnn ==
    LET out == IF opt.optimize THEN T["Optimize"][model] ELSE model
        c2 == out # model
    IN  /\ stage = "Optimize"
        /\ model' = PassesInput(out)
        /\ anyChanged' = (anyChanged \/ c2)
        /\ IF ~c1 /\ ~c2
           THEN cut' = [cut EXCEPT !["inner"] = FALSE] /\ stage' = "OptAndShapeDone"
           ELSE stage' = "innerRound" /\ UNCHANGED cut
        /\ UNCHANGED <<choice, input, left, fp, c1, converged, warned>>

\* Mutant: a round ends the loop when InferShapes alone reports no change, as
\* an earlier version of FixedPointFn did.
OptimizeLoneFalse ==
    LET in == PassesInput(model)
        out == IF opt.optimize THEN T["Optimize"][in] ELSE in
    IN  /\ stage = "Optimize"
        /\ model' = out
        /\ anyChanged' = (anyChanged \/ out # in)
        /\ IF ~c1
           THEN cut' = [cut EXCEPT !["inner"] = FALSE] /\ stage' = "OptAndShapeDone"
           ELSE stage' = "innerRound" /\ UNCHANGED cut
        /\ UNCHANGED <<choice, input, left, fp, c1, converged, warned>>

Optimize ==
    LET in == PassesInput(model)
        out == IF opt.optimize THEN T["Optimize"][in] ELSE in
        c2 == out # in
    IN  /\ stage = "Optimize"
        /\ model' = out
        /\ anyChanged' = (anyChanged \/ c2)
        /\ IF ~c1 /\ ~c2
           THEN /\ cut' = [cut EXCEPT !["inner"] = FALSE]
                /\ stage' = "OptAndShapeDone"
           ELSE /\ stage' = "innerRound"
                /\ UNCHANGED cut
        /\ UNCHANGED <<choice, input, left, fp, c1, converged, warned>>

-----------------------------------------------------------------------------
(* Loops that compare fingerprints.  fp[l] is the fingerprint taken before *)
(* the function that just ran, NoModel before the very first function.     *)

\* After the first function of loop l: stop if it changed nothing.
AfterFirst(l, stop, go) ==
    IF model = fp[l]
    THEN /\ cut' = [cut EXCEPT ![l] = FALSE]
         /\ stage' = stop
         /\ UNCHANGED fp
    ELSE /\ fp' = [fp EXCEPT ![l] = model]
         /\ stage' = go
         /\ UNCHANGED cut

OptAndShapeDone ==
    /\ stage = "OptAndShapeDone"
    /\ IF opt.rewriter
       THEN AfterFirst("mid", "midDone", "FoldConstant")
       ELSE stage' = "FoldConstant" /\ UNCHANGED <<fp, cut>>
    /\ UNCHANGED <<choice, input, model, left, c1, anyChanged, converged, warned>>

\* OptAndShape of the rewriter branch imports the model each time it runs.
MidF1 ==
    /\ stage = "midF1"
    /\ IF opt.importable
       THEN EnterInner
       ELSE stage' = "OptAndShapeDone" /\ UNCHANGED <<left, anyChanged>>
    /\ UNCHANGED <<choice, input, model, fp, c1, cut, converged, warned>>

-----------------------------------------------------------------------------
(* Constant folding, the second function of the loop around OptAndShape.   *)

Folded(m) ==
    IF opt.constant_folding
    THEN T["SweepInitializers"][T["FoldConstant"][T["EvalPartialShape"][m]]]
    ELSE m

\* a || b: the sweep that ends _FoldConstantOnGraph is not part of it.
FoldReportsChange(m) ==
    LET e == T["EvalPartialShape"][m]
    IN  opt.constant_folding /\ (e # m \/ T["FoldConstant"][e] # e)

FoldConstantOnGraph ==
    /\ stage = "FoldConstant"
    /\ ~opt.rewriter
    /\ model' = Folded(model)
    /\ IF ~anyChanged /\ ~FoldReportsChange(model)
       THEN converged' = TRUE /\ stage' = "finish"
       ELSE stage' = "outerRound" /\ UNCHANGED converged
    /\ UNCHANGED <<choice, input, left, fp, c1, anyChanged, cut, warned>>

FoldConstant ==
    LET m == Folded(model)
    IN  /\ stage = "FoldConstant"
        /\ opt.rewriter
        /\ model' = m
        /\ IF left["mid"] = 0
           THEN /\ cut' = [cut EXCEPT !["mid"] = TRUE]
                /\ stage' = "midDone"
                /\ UNCHANGED <<left, fp>>
           ELSE /\ left' = [left EXCEPT !["mid"] = @ - 1]
                /\ IF m = fp["mid"]
                   THEN /\ cut' = [cut EXCEPT !["mid"] = FALSE]
                        /\ stage' = "midDone"
                        /\ UNCHANGED fp
                   ELSE /\ fp' = [fp EXCEPT !["mid"] = m]
                        /\ stage' = "midF1"
                        /\ UNCHANGED cut
        /\ UNCHANGED <<choice, input, c1, anyChanged, converged, warned>>

-----------------------------------------------------------------------------
(* The outermost loop, the only one whose verdict is kept.                 *)

\* Mutant: the loop gives up one round early.
OuterRoundOffByOne ==
    /\ stage = "outerRound"
    /\ IF left["outer"] > 1
       THEN /\ left' = [left EXCEPT !["outer"] = @ - 1, !["inner"] = iters]
            /\ anyChanged' = FALSE
            /\ stage' = "innerRound"
            /\ UNCHANGED <<cut, converged>>
       ELSE /\ cut' = [cut EXCEPT !["outer"] = TRUE]
            /\ converged' = FALSE
            /\ stage' = "finish"
            /\ UNCHANGED <<left, anyChanged>>
    /\ UNCHANGED <<choice, input, model, fp, c1, warned>>

OuterRound ==
    /\ stage = "outerRound"
    /\ IF left["outer"] > 0
       THEN /\ left' = [left EXCEPT !["outer"] = @ - 1, !["inner"] = iters]
            /\ anyChanged' = FALSE
            /\ stage' = "innerRound"
            /\ UNCHANGED <<cut, converged>>
       ELSE /\ cut' = [cut EXCEPT !["outer"] = TRUE]
            /\ converged' = FALSE
            /\ stage' = "finish"
            /\ UNCHANGED <<left, anyChanged>>
    /\ UNCHANGED <<choice, input, model, fp, c1, warned>>

\* OptAndShapeAndFold returned to the outer loop of the rewriter branch.
MidDone ==
    /\ stage = "midDone"
    /\ AfterFirst("outer", "finish", "Rewrite")
    /\ converged' = (model = fp["outer"])
    /\ UNCHANGED <<choice, input, model, left, c1, anyChanged, warned>>

Rewrite ==
    LET m == T["Rewrite"][model]
    IN  /\ stage = "Rewrite"
        /\ model' = m
        /\ IF left["outer"] = 0
           THEN /\ cut' = [cut EXCEPT !["outer"] = TRUE]
                /\ converged' = FALSE
                /\ stage' = "finish"
                /\ UNCHANGED <<left, fp>>
           ELSE IF m = fp["outer"]
           THEN /\ left' = [left EXCEPT !["outer"] = @ - 1]
                /\ converged' = TRUE
                /\ stage' = "finish"
                /\ UNCHANGED <<cut, fp>>
           ELSE /\ left' = [left EXCEPT !["outer"] = @ - 1, !["mid"] = iters]
                /\ fp' = [fp EXCEPT !["outer"] = m, !["mid"] = NoModel]
                /\ stage' = "midF1"
                /\ UNCHANGED <<cut, converged>>
        /\ UNCHANGED <<choice, input, c1, anyChanged, warned>>

Finish ==
    /\ stage = "finish"
    /\ warned' = ~converged
    /\ stage' = "done"
    /\ UNCHANGED <<choice, input, model, left, fp, c1, anyChanged, cut, converged>>

SimplifyNext ==
    \/ StartGraph \/ StartRewriter
    \/ OuterRound \/ InnerRound \/ InferShapes \/ Optimize \/ OptAndShapeDone
    \/ FoldConstantOnGraph
    \/ MidF1 \/ FoldConstant \/ MidDone \/ Rewrite
    \/ Finish

\* Simplify() is one thread of straight-line loops: it never stops between
\* two steps.
SimplifySpec == SimplifyInit /\ [][SimplifyNext]_simplifyVars /\ WF_simplifyVars(SimplifyNext)

-----------------------------------------------------------------------------
(* Properties.                                                             *)

FixedBy(t, m) == T[t][m] = m

\* Every transform this call enabled, the unreported ones included, would
\* leave model m as it is.
JointFixedPointOf(m) ==
    /\ opt.shape_inference => FixedBy("InferShapes", m)
    /\ opt.optimize => FixedBy("EliminateZeroRnn", m) /\ FixedBy("Optimize", m)
    /\ opt.constant_folding => Folded(m) = m
    /\ opt.rewriter => FixedBy("Rewrite", m)

\* m is what OptAndShape leaves when it is done: shape inference had nothing
\* to add to a model k, and what EliminateZeroRnnInitialState then made of k,
\* which is m, gave the passes nothing to remove.
PairSettled(m) ==
    \E k \in Models :
        /\ opt.shape_inference => FixedBy("InferShapes", k)
        /\ m = PassesInput(k)
        /\ opt.optimize => FixedBy("Optimize", m)

\* m is what a whole round leaves that found nothing to do: besides, nothing
\* was left to evaluate or to fold before the initializer sweep that gives m.
RoundSettled(m) ==
    \E k \in Models :
        /\ PairSettled(k)
        /\ opt.constant_folding => FixedBy("EvalPartialShape", k) /\ FixedBy("FoldConstant", k)
        /\ m = Folded(k)

\* Without a rewriter, a simplification that ends without the timeout warning
\* has run a whole last round in which no reported transform found anything to
\* do (FixedPointFn's whole-round rule, model_prep.h), whatever its two
\* unreported parts changed: in particular what EliminateZeroRnnInitialState
\* cut off has been offered to the passes.
NoWarningMeansSettled ==
    stage = "done" /\ ~opt.rewriter /\ ~warned => RoundSettled(model)

\* The inductive form of the property above: what is already known of the
\* model at each point of a round that has reported no change so far.
GraphInv ==
    ~opt.rewriter =>
        /\ stage \notin {"midF1", "midDone", "Rewrite"}
        /\ left["outer"] <= iters
        /\ stage = "innerRound" /\ ~anyChanged => left["inner"] > 0
        /\ stage = "Optimize" /\ c1 => anyChanged
        /\ stage = "Optimize" /\ ~c1 /\ opt.shape_inference => FixedBy("InferShapes", model)
        /\ stage \in {"OptAndShapeDone", "FoldConstant"} /\ ~anyChanged => PairSettled(model)
        /\ stage \notin {"finish", "done"} => ~converged
        /\ stage = "done" => warned = ~converged
        /\ converged => RoundSettled(model)

\* With a rewriter, a simplification that ends without the warning has a model
\* that both folding and the rewriter have put out, even where a nested loop
\* ran out of iterations and its verdict was dropped; and one OptAndShape was
\* done with, unless the last run of a nested loop was cut off in that way.
RewriterNoWarningMeansSettled ==
    stage = "done" /\ opt.rewriter /\ ~warned =>
        /\ \E k \in Models : model = Folded(k)
        /\ \E k \in Models : model = T["Rewrite"][k]
        /\ opt.importable /\ ~cut["inner"] /\ ~cut["mid"] => PairSettled(model)

\* Simplifying what is already simplified: a model every enabled transform
\* leaves alone comes back unchanged and without the warning, on both branches
\* and for every number of iterations that allows a round at all.
SimplifiedStaysSimplified ==
    (/\ stage = "done" /\ iters > 0 /\ (opt.rewriter \/ opt.importable)
     /\ JointFixedPointOf(input)
     /\ opt.constant_folding => FixedBy("EvalPartialShape", input)
                               /\ FixedBy("FoldConstant", input))
    => model = input /\ ~warned

\* Both branches stop, whatever the transforms do (an oscillating pair of
\* passes included): max_iters bounds every loop.
SimplifyTerminates == <>(stage = "done")
=============================================================================
