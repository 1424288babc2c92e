----------------------- MODULE SimplifyPipelineProofs -----------------------
(* For every set of models, every assignment of transforms, every option   *)
(* and every iteration limit: the pipeline keeps its type; without the     *)
(* timeout warning the result is that of a round in which no reported      *)
(* transform found anything to do, as far as, with a rewriter, no nested   *)
(* loop was cut off; and a joint fixed point comes back as it is.          *)
(*                                                                         *)
(* Then of the transform that has a module of its own, FoldConstant: where *)
(* folded values come from, that what it leaves is a model, that it folds  *)
(* what folding one node at a time would, and that it stops only when      *)
(* nothing is left to fold.                                                *)
EXTENDS SimplifyPipeline, ConstantFolding, SequenceTheorems, FiniteSetTheorems,
        WellFoundedInduction, TLAPS

\* The types hold when Simplify is entered.
LEMMA InitType == SimplifyInit => SimplifyTypeOK
  <1> SUFFICES ASSUME SimplifyInit PROVE SimplifyTypeOK
    OBVIOUS
  <1>1. T \in [Transforms -> [Models -> Models]]
    BY ChoicesAreTransforms DEF SimplifyInit
  <1>2. opt \in Options /\ iters \in Nat
    BY ChoicesAreOptions, ItersAreNat DEF SimplifyInit
  <1>3. /\ left \in [Loops -> Nat]
        /\ fp \in [{"mid", "outer"} -> Models \cup {NoModel}]
        /\ cut \in [Loops -> BOOLEAN]
    BY DEF SimplifyInit
  <1> QED BY <1>1, <1>2, <1>3 DEF SimplifyInit, SimplifyTypeOK, Locations

\* What a transform returns is a model.
LEMMA TransformType ==
    ASSUME SimplifyTypeOK, NEW t \in Transforms, NEW m \in Models
    PROVE  T[t][m] \in Models
  BY DEF SimplifyTypeOK

\* The names of the transforms.
LEMMA TransformNames ==
    /\ "ConvertVersion" \in Transforms /\ "InferShapes" \in Transforms
    /\ "EliminateZeroRnn" \in Transforms /\ "Optimize" \in Transforms
    /\ "EvalPartialShape" \in Transforms /\ "FoldConstant" \in Transforms
    /\ "SweepInitializers" \in Transforms /\ "Rewrite" \in Transforms
  BY DEF Transforms

\* What a transform, or folding as a whole, makes of a model is a model.
LEMMA HelperTypes ==
    ASSUME SimplifyTypeOK, NEW m \in Models
    PROVE  /\ Converted(m) \in Models
           /\ PassesInput(m) \in Models
           /\ Folded(m) \in Models
  <1>1. Converted(m) \in Models
    BY TransformType, TransformNames DEF Converted
  <1>2. PassesInput(m) \in Models
    BY TransformType, TransformNames DEF PassesInput
  <1>3. Folded(m) \in Models
    <2>1. T["EvalPartialShape"][m] \in Models
      BY TransformType, TransformNames
    <2>2. T["FoldConstant"][T["EvalPartialShape"][m]] \in Models
      BY <2>1, TransformType, TransformNames
    <2>3. T["SweepInitializers"][T["FoldConstant"][T["EvalPartialShape"][m]]] \in Models
      BY <2>2, TransformType, TransformNames
    <2> QED BY <2>3 DEF Folded
  <1> QED BY <1>1, <1>2, <1>3

\* Every step keeps the types.
LEMMA NextType == SimplifyTypeOK /\ [SimplifyNext]_simplifyVars => SimplifyTypeOK'
  <1> SUFFICES ASSUME SimplifyTypeOK, [SimplifyNext]_simplifyVars PROVE SimplifyTypeOK'
    OBVIOUS
  <1> USE DEF choice, Locations, Loops
  <1>1. CASE StartGraph
    BY <1>1, HelperTypes DEF SimplifyTypeOK, StartGraph
  <1>2. CASE StartRewriter
    BY <1>2, HelperTypes DEF SimplifyTypeOK, StartRewriter
  <1>3. CASE OuterRound
    <2>1. left' \in [Loops -> Nat]
      BY <1>3 DEF SimplifyTypeOK, OuterRound
    <2> QED BY <1>3, <2>1 DEF SimplifyTypeOK, OuterRound
  <1>4. CASE InnerRound
    <2>1. left' \in [Loops -> Nat]
      BY <1>4 DEF SimplifyTypeOK, InnerRound
    <2> QED BY <1>4, <2>1 DEF SimplifyTypeOK, InnerRound
  <1>5. CASE InferShapes
    <2>1. model' \in Models
      BY <1>5, TransformType, TransformNames DEF SimplifyTypeOK, InferShapes
    <2> QED BY <1>5, <2>1 DEF SimplifyTypeOK, InferShapes
  <1>6. CASE Optimize
    <2>1. model' \in Models
      BY <1>6, TransformType, TransformNames, HelperTypes DEF SimplifyTypeOK, Optimize
    <2> QED BY <1>6, <2>1 DEF SimplifyTypeOK, Optimize
  <1>7. CASE OptAndShapeDone
    BY <1>7 DEF SimplifyTypeOK, OptAndShapeDone, AfterFirst
  <1>8. CASE FoldConstantOnGraph
    BY <1>8, HelperTypes DEF SimplifyTypeOK, FoldConstantOnGraph
  <1>9. CASE MidF1
    BY <1>9 DEF SimplifyTypeOK, MidF1, EnterInner
  <1>10. CASE FoldConstant
    <2>1. model' \in Models
      BY <1>10, HelperTypes DEF SimplifyTypeOK, FoldConstant
    <2>2. left' \in [Loops -> Nat]
      BY <1>10 DEF SimplifyTypeOK, FoldConstant
    <2>3. fp' \in [{"mid", "outer"} -> Models \cup {NoModel}]
      BY <1>10, HelperTypes DEF SimplifyTypeOK, FoldConstant
    <2>4. cut' \in [Loops -> BOOLEAN]
      BY <1>10 DEF SimplifyTypeOK, FoldConstant
    <2>5. stage' \in Locations
      BY <1>10 DEF FoldConstant
    <2> QED BY <1>10, <2>1, <2>2, <2>3, <2>4, <2>5 DEF SimplifyTypeOK, FoldConstant
  <1>11. CASE MidDone
    BY <1>11 DEF SimplifyTypeOK, MidDone, AfterFirst
  <1>12. CASE Rewrite
    <2>1. model' \in Models
      BY <1>12, TransformType, TransformNames DEF SimplifyTypeOK, Rewrite
    <2>2. left' \in [Loops -> Nat]
      BY <1>12 DEF SimplifyTypeOK, Rewrite
    <2>3. fp' \in [{"mid", "outer"} -> Models \cup {NoModel}]
      BY <1>12, <2>1 DEF SimplifyTypeOK, Rewrite
    <2>4. cut' \in [Loops -> BOOLEAN] /\ stage' \in Locations /\ converged' \in BOOLEAN
      BY <1>12 DEF SimplifyTypeOK, Rewrite
    <2> QED BY <1>12, <2>1, <2>2, <2>3, <2>4 DEF SimplifyTypeOK, Rewrite
  <1>13. CASE Finish
    BY <1>13 DEF SimplifyTypeOK, Finish
  <1>14. CASE UNCHANGED simplifyVars
    BY <1>14 DEF SimplifyTypeOK, simplifyVars
  <1> QED
    BY <1>1, <1>2, <1>3, <1>4, <1>5, <1>6, <1>7, <1>8, <1>9, <1>10, <1>11,
       <1>12, <1>13, <1>14 DEF SimplifyNext

\* The pipeline never leaves its type: in particular no loop counter wraps
\* below zero (the post-decrement of the unsigned _max_iters).
THEOREM TypeCorrect == SimplifySpec => []SimplifyTypeOK
  BY InitType, NextType, PTL DEF SimplifySpec

-----------------------------------------------------------------------------
(* The change flags.                                                       *)

\* No round has been run yet.
LEMMA GraphInvInit == SimplifyInit => GraphInv
  BY ItersAreNat DEF SimplifyInit, GraphInv, Loops

\* The round that ends the inner loop: neither flag was raised, so the only
\* change left is the unreported one.
LEMMA LastInnerRound ==
    ASSUME NEW m \in Models,
           opt.shape_inference => FixedBy("InferShapes", m),
           opt.optimize => T["Optimize"][PassesInput(m)] = PassesInput(m)
    PROVE  PairSettled(PassesInput(m))
  BY DEF PairSettled, FixedBy

\* The folding step that ends the outer loop, likewise.
LEMMA LastFold ==
    ASSUME SimplifyTypeOK, PairSettled(model), ~FoldReportsChange(model)
    PROVE  RoundSettled(Folded(model))
  <1>1. model \in Models
    BY DEF SimplifyTypeOK
  <1>2. opt.constant_folding =>
            FixedBy("EvalPartialShape", model) /\ FixedBy("FoldConstant", model)
    BY DEF FoldReportsChange, FixedBy
  <1> QED BY <1>1, <1>2 DEF RoundSettled

\* What the properties say depends on T and opt alone, which no step changes.
LEMMA ChoiceStable ==
    ASSUME [SimplifyNext]_simplifyVars
    PROVE  UNCHANGED choice
  BY DEF SimplifyNext, simplifyVars, choice, StartGraph, StartRewriter, OuterRound, InnerRound,
         InferShapes, Optimize, OptAndShapeDone, FoldConstantOnGraph, MidF1,
         FoldConstant, MidDone, Rewrite, Finish

\* What a round that reported no change says of the model, step by step.
LEMMA GraphInvNext == SimplifyTypeOK /\ GraphInv /\ [SimplifyNext]_simplifyVars => GraphInv'
  <1> SUFFICES ASSUME SimplifyTypeOK, GraphInv, [SimplifyNext]_simplifyVars, ~opt.rewriter PROVE GraphInv'
    BY ChoiceStable DEF GraphInv, choice
  <1> USE DEF choice
  <1>0. model \in Models /\ left \in [Loops -> Nat] /\ iters \in Nat
    BY DEF SimplifyTypeOK
  <1>a. UNCHANGED <<T, opt, iters>>
    BY ChoiceStable
  <1>b. model' = model => /\ PairSettled(model)' <=> PairSettled(model)
                          /\ RoundSettled(model)' <=> RoundSettled(model)
    BY <1>a DEF PairSettled, RoundSettled, FixedBy, PassesInput, Folded
  <1>1. CASE StartGraph
    BY <1>1, <1>0 DEF GraphInv, StartGraph, Loops
  <1>3. CASE OuterRound
    BY <1>3, <1>0, <1>a DEF GraphInv, OuterRound, Loops
  <1>4. CASE InnerRound
    BY <1>4, <1>0, <1>a, <1>b DEF GraphInv, InnerRound, Loops
  <1>5. CASE InferShapes
    BY <1>5, <1>0, <1>a DEF GraphInv, InferShapes, FixedBy
  <1>6. CASE Optimize
    <2>1. stage = "Optimize" /\ ~converged
      BY <1>6 DEF GraphInv, Optimize
    <2>2. ASSUME ~anyChanged' PROVE PairSettled(model)'
      <3>1. ~c1 /\ (opt.shape_inference => FixedBy("InferShapes", model))
        BY <1>6, <2>1, <2>2 DEF GraphInv, Optimize
      <3>2. /\ model' = PassesInput(model)
            /\ opt.optimize => T["Optimize"][PassesInput(model)] = PassesInput(model)
        BY <1>6, <2>2 DEF Optimize
      <3>3. PairSettled(PassesInput(model))
        BY <1>0, <3>1, <3>2, LastInnerRound
      <3> QED BY <1>a, <3>2, <3>3 DEF PairSettled, FixedBy, PassesInput
    <2> QED BY <1>6, <1>a, <2>1, <2>2 DEF GraphInv, Optimize
  <1>7. CASE OptAndShapeDone
    BY <1>7, <1>a, <1>b DEF GraphInv, OptAndShapeDone
  <1>8. CASE FoldConstantOnGraph
    <2>1. stage = "FoldConstant" /\ ~converged
      BY <1>8 DEF GraphInv, FoldConstantOnGraph
    <2>2. ASSUME converged' PROVE RoundSettled(model)'
      <3>1. ~anyChanged /\ ~FoldReportsChange(model) /\ model' = Folded(model)
        BY <1>8, <2>1, <2>2 DEF FoldConstantOnGraph
      <3>2. PairSettled(model)
        BY <2>1, <3>1 DEF GraphInv
      <3>3. RoundSettled(Folded(model))
        BY <3>1, <3>2, LastFold
      <3>4. PICK seen \in Models :
                /\ PairSettled(seen) /\ Folded(model) = Folded(seen)
                /\ opt.constant_folding =>
                        FixedBy("EvalPartialShape", seen) /\ FixedBy("FoldConstant", seen)
        BY <3>3 DEF RoundSettled
      <3>5. PairSettled(seen)'
        BY <1>a, <3>4 DEF PairSettled, FixedBy, PassesInput
      <3>6. model' = Folded(seen)'
        BY <1>a, <3>1, <3>4 DEF Folded
      <3> QED BY <1>a, <3>4, <3>5, <3>6 DEF RoundSettled, FixedBy
    <2> QED BY <1>8, <1>a, <2>1, <2>2 DEF GraphInv, FoldConstantOnGraph
  <1>13. CASE Finish
    BY <1>13, <1>a, <1>b DEF GraphInv, Finish
  <1>14. CASE UNCHANGED simplifyVars
    BY <1>14, <1>b DEF GraphInv, simplifyVars, FixedBy
  <1>15. CASE StartRewriter \/ MidF1 \/ FoldConstant \/ MidDone \/ Rewrite
    BY <1>15 DEF GraphInv, StartRewriter, MidF1, FoldConstant, MidDone, Rewrite
  <1> QED
    BY <1>1, <1>3, <1>4, <1>5, <1>6, <1>7, <1>8, <1>13, <1>14, <1>15 DEF SimplifyNext

\* Without a rewriter, no timeout warning means that the last round offered its
\* model to every enabled transform and none of those that report their changes
\* found any, for every transform and every limit; nothing is assumed of the
\* two that do not report theirs.
THEOREM NoWarningSettled == SimplifySpec => []NoWarningMeansSettled
  <1>1. GraphInv => NoWarningMeansSettled
    BY DEF GraphInv, NoWarningMeansSettled
  <1> QED
    BY <1>1, GraphInvInit, GraphInvNext, TypeCorrect, PTL DEF SimplifySpec
-----------------------------------------------------------------------------
(* A model that is already simplified.                                     *)

\* Nothing that the call enables has work to do, in the model that enters the
\* fixed point, and there is a round to find that out.
NothingToDo ==
    /\ iters > 0 /\ (opt.rewriter \/ opt.importable)
    /\ JointFixedPointOf(input)
    /\ opt.constant_folding => FixedBy("EvalPartialShape", input)
                              /\ FixedBy("FoldConstant", input)

\* The model stays what it was, no flag is raised, and the loop that decides
\* the verdict has an iteration left until it decides.
StaysInv ==
    /\ opt.rewriter => stage # "outerRound"
    /\ ~opt.rewriter => stage \notin {"midF1", "midDone", "Rewrite"}
    /\ stage = "done" => warned = ~converged
    /\ NothingToDo =>
        /\ model = input
        /\ opt.rewriter /\ stage \notin {"start", "finish", "done"} => left["outer"] > 0
        /\ stage = "outerRound" => left["outer"] > 0
        /\ ~opt.rewriter /\ stage \in {"innerRound", "InferShapes", "Optimize",
                                    "OptAndShapeDone", "FoldConstant"} => ~anyChanged
        /\ stage = "Rewrite" => fp["outer"] = model
        /\ stage \in {"finish", "done"} => converged

\* No transform that runs changes such a model, and none reports a change.
LEMMA NothingChanges ==
    ASSUME NothingToDo, model = input
    PROVE  /\ opt.shape_inference => T["InferShapes"][model] = model
           /\ PassesInput(model) = model
           /\ opt.optimize => T["Optimize"][model] = model
           /\ Folded(model) = model /\ ~FoldReportsChange(model)
           /\ opt.rewriter => T["Rewrite"][model] = model
  BY DEF NothingToDo, JointFixedPointOf, FixedBy, PassesInput, Folded, FoldReportsChange

\* Nothing has been done to the model that enters.
LEMMA StaysInit == SimplifyInit => StaysInv
  BY DEF SimplifyInit, StaysInv

\* Whether there is something to do is settled when the fixed point begins.
LEMMA NothingToDoStable ==
    ASSUME [SimplifyNext]_simplifyVars, stage # "start"
    PROVE  input' = input /\ (NothingToDo' <=> NothingToDo)
  <1>1. UNCHANGED <<input, T, opt, iters>>
    BY DEF SimplifyNext, simplifyVars, choice, StartGraph, StartRewriter, OuterRound, InnerRound,
           InferShapes, Optimize, OptAndShapeDone, FoldConstantOnGraph, MidF1,
           FoldConstant, MidDone, Rewrite, Finish
  <1> QED
    BY <1>1 DEF NothingToDo, JointFixedPointOf, FixedBy, Folded

\* No step does anything to a model with nothing to do.
LEMMA StaysNext == SimplifyTypeOK /\ StaysInv /\ [SimplifyNext]_simplifyVars => StaysInv'
  <1> SUFFICES ASSUME SimplifyTypeOK, StaysInv, [SimplifyNext]_simplifyVars PROVE StaysInv'
    OBVIOUS
  <1> USE DEF choice
  <1>0. /\ model \in Models /\ left \in [Loops -> Nat] /\ iters \in Nat
        /\ fp \in [{"mid", "outer"} -> Models \union {NoModel}]
        /\ opt.rewriter \in BOOLEAN /\ opt.importable \in BOOLEAN
    BY DEF SimplifyTypeOK, Options
  <1>1. CASE StartGraph
    <2>1. NothingToDo' => iters > 0 /\ opt.importable
      BY <1>1 DEF StartGraph, NothingToDo
    <2> HIDE DEF NothingToDo
    <2> QED BY <1>0, <1>1, <2>1 DEF StaysInv, StartGraph, Loops
  <1>2. CASE StartRewriter
    <2>1. NothingToDo' => iters > 0
      BY <1>2 DEF StartRewriter, NothingToDo
    <2> QED BY <1>0, <1>2, <2>1 DEF StaysInv, StartRewriter, Loops
  <1>3. CASE OuterRound
    <2>1. input' = input /\ (NothingToDo' <=> NothingToDo)
      BY <1>3, NothingToDoStable DEF OuterRound
    <2> QED BY <1>0, <1>3, <2>1 DEF StaysInv, OuterRound, Loops
  <1>4. CASE InnerRound
    <2>1. input' = input /\ (NothingToDo' <=> NothingToDo)
      BY <1>4, NothingToDoStable DEF InnerRound
    <2> QED BY <1>0, <1>4, <2>1 DEF StaysInv, InnerRound, Loops
  <1>5. CASE InferShapes
    <2>1. input' = input /\ (NothingToDo' <=> NothingToDo)
      BY <1>5, NothingToDoStable DEF InferShapes
    <2>2. NothingToDo => model' = model
      BY <1>5, NothingChanges DEF StaysInv, InferShapes
    <2> QED BY <1>0, <1>5, <2>1, <2>2 DEF StaysInv, InferShapes
  <1>6. CASE Optimize
    <2>1. input' = input /\ (NothingToDo' <=> NothingToDo)
      BY <1>6, NothingToDoStable DEF Optimize
    <2>2. NothingToDo => model' = model /\ anyChanged' = anyChanged
      BY <1>6, NothingChanges DEF StaysInv, Optimize, SimplifyTypeOK
    <2> QED BY <1>0, <1>6, <2>1, <2>2 DEF StaysInv, Optimize
  <1>7. CASE OptAndShapeDone
    <2>1. input' = input /\ (NothingToDo' <=> NothingToDo)
      BY <1>7, NothingToDoStable DEF OptAndShapeDone
    <2> QED BY <1>0, <1>7, <2>1 DEF StaysInv, OptAndShapeDone, AfterFirst
  <1>8. CASE FoldConstantOnGraph
    <2>1. input' = input /\ (NothingToDo' <=> NothingToDo)
      BY <1>8, NothingToDoStable DEF FoldConstantOnGraph
    <2>2. NothingToDo => model' = model /\ ~FoldReportsChange(model)
      BY <1>8, NothingChanges DEF StaysInv, FoldConstantOnGraph
    <2> QED BY <1>0, <1>8, <2>1, <2>2 DEF StaysInv, FoldConstantOnGraph
  <1>9. CASE MidF1
    <2>1. input' = input /\ (NothingToDo' <=> NothingToDo)
      BY <1>9, NothingToDoStable DEF MidF1
    <2> QED BY <1>0, <1>9, <2>1 DEF StaysInv, MidF1, EnterInner, Loops
  <1>10. CASE FoldConstant
    <2>1. input' = input /\ (NothingToDo' <=> NothingToDo)
      BY <1>10, NothingToDoStable DEF FoldConstant
    <2>2. NothingToDo => model' = model
      BY <1>10, NothingChanges DEF StaysInv, FoldConstant
    <2>3. left'["outer"] = left["outer"] /\ stage' \in {"midDone", "midF1"} /\ opt.rewriter
      BY <1>0, <1>10 DEF FoldConstant, Loops
    <2> QED BY <1>10, <2>1, <2>2, <2>3 DEF StaysInv, FoldConstant
  <1>11. CASE MidDone
    <2>1. input' = input /\ (NothingToDo' <=> NothingToDo)
      BY <1>11, NothingToDoStable DEF MidDone
    <2> QED BY <1>0, <1>11, <2>1 DEF StaysInv, MidDone, AfterFirst
  <1>12. CASE Rewrite
    <2>1. input' = input /\ (NothingToDo' <=> NothingToDo)
      BY <1>12, NothingToDoStable DEF Rewrite
    <2>2. opt.rewriter
      BY <1>0, <1>12 DEF StaysInv, Rewrite
    <2>3. NothingToDo => model' = model /\ stage' = "finish" /\ converged'
      BY <1>0, <1>12, <2>2, NothingChanges DEF StaysInv, Rewrite
    <2> QED BY <1>12, <2>1, <2>2, <2>3 DEF StaysInv, Rewrite
  <1>13. CASE Finish
    <2>1. input' = input /\ (NothingToDo' <=> NothingToDo)
      BY <1>13, NothingToDoStable DEF Finish
    <2> QED BY <1>13, <2>1 DEF StaysInv, Finish
  <1>14. CASE UNCHANGED simplifyVars
    BY <1>14 DEF StaysInv, simplifyVars, NothingToDo, JointFixedPointOf, FixedBy, Folded
  <1> QED
    BY <1>1, <1>2, <1>3, <1>4, <1>5, <1>6, <1>7, <1>8, <1>9, <1>10, <1>11, <1>12,
       <1>13, <1>14 DEF SimplifyNext

\* Simplifying what is already simplified returns it, and prints no warning,
\* on both branches of SimplifyImpl and for every limit above zero.
THEOREM SimplifiedStays == SimplifySpec => []SimplifiedStaysSimplified
  <1>1. StaysInv => SimplifiedStaysSimplified
    BY DEF StaysInv, NothingToDo, SimplifiedStaysSimplified
  <1> QED
    BY <1>1, StaysInit, StaysNext, TypeCorrect, PTL DEF SimplifySpec

-----------------------------------------------------------------------------
(* The fingerprints of the rewriter branch.                                *)

\* m has come out of folding; of the rewriter.
OutOfFold(m) == \E seen \in Models : m = Folded(seen)
OutOfRewrite(m) == \E seen \in Models : m = T["Rewrite"][seen]

\* What an equal fingerprint is worth: the model it was taken of came out of
\* folding (mid) or out of the rewriter (outer), and the functions that ran
\* since have not changed it.
RewriterInv ==
    opt.rewriter =>
        /\ stage # "outerRound"
        /\ stage = "Optimize" /\ ~c1 /\ opt.shape_inference => FixedBy("InferShapes", model)
        /\ stage \in {"OptAndShapeDone", "FoldConstant"} /\ opt.importable /\ ~cut["inner"] =>
                PairSettled(model)
        /\ stage = "FoldConstant" => fp["mid"] = model
        /\ stage \in {"start", "midF1", "innerRound", "InferShapes", "Optimize",
                   "OptAndShapeDone"} =>
                fp["mid"] = NoModel \/ OutOfFold(fp["mid"])
        /\ stage \in {"midDone", "Rewrite"} =>
                /\ OutOfFold(model)
                /\ opt.importable /\ ~cut["inner"] /\ ~cut["mid"] => PairSettled(model)
        /\ stage \notin {"Rewrite", "finish", "done"} =>
                fp["outer"] = NoModel \/ OutOfRewrite(fp["outer"])
        /\ stage = "Rewrite" => fp["outer"] = model
        /\ stage \notin {"finish", "done"} => ~converged
        /\ stage = "done" => warned = ~converged
        /\ converged => /\ OutOfFold(model) /\ OutOfRewrite(model)
                        /\ opt.importable /\ ~cut["inner"] /\ ~cut["mid"] => PairSettled(model)

\* No fingerprint has been taken yet.
LEMMA RewriterInit == SimplifyInit => RewriterInv
  BY DEF SimplifyInit, RewriterInv

\* What is said of a model is about T and opt besides, which no step changes.
LEMMA RewriterStable ==
    ASSUME [SimplifyNext]_simplifyVars
    PROVE  /\ UNCHANGED <<T, opt>>
           /\ model' = model => /\ PairSettled(model)' <=> PairSettled(model)
                                /\ OutOfFold(model)' <=> OutOfFold(model)
                                /\ OutOfRewrite(model)' <=> OutOfRewrite(model)
           /\ fp'["mid"] = fp["mid"] => (OutOfFold(fp["mid"])' <=> OutOfFold(fp["mid"]))
           /\ fp'["outer"] = fp["outer"] =>
                    (OutOfRewrite(fp["outer"])' <=> OutOfRewrite(fp["outer"]))
  <1>1. UNCHANGED <<T, opt>>
    BY ChoiceStable DEF choice
  <1> QED
    BY <1>1 DEF PairSettled, OutOfFold, OutOfRewrite, FixedBy, PassesInput, Folded

\* A fingerprint keeps its worth in every step.
LEMMA RewriterNext == SimplifyTypeOK /\ RewriterInv /\ [SimplifyNext]_simplifyVars => RewriterInv'
  <1> SUFFICES ASSUME SimplifyTypeOK, RewriterInv, [SimplifyNext]_simplifyVars, opt.rewriter
               PROVE  RewriterInv'
    BY RewriterStable DEF RewriterInv
  <1>0. /\ model \in Models /\ left \in [Loops -> Nat]
        /\ fp \in [{"mid", "outer"} -> Models \union {NoModel}]
        /\ cut \in [Loops -> BOOLEAN]
        /\ NoModel \notin Models /\ converged \in BOOLEAN
    BY NoModelIsFresh DEF SimplifyTypeOK
  <1>1. T' = T /\ opt' = opt
    BY RewriterStable
  <1>2. Folded(model) \in Models /\ T["Rewrite"][model] \in Models
    BY <1>0, HelperTypes, TransformType, TransformNames
  <1>4. CASE StartGraph \/ OuterRound \/ FoldConstantOnGraph
    BY <1>4 DEF RewriterInv, StartGraph, OuterRound, FoldConstantOnGraph
  <1>5. CASE StartRewriter
    BY <1>0, <1>1, <1>5, RewriterStable DEF RewriterInv, StartRewriter
  <1>6. CASE InnerRound
    BY <1>0, <1>1, <1>6, RewriterStable DEF RewriterInv, InnerRound, Loops
  <1>7. CASE InferShapes
    BY <1>0, <1>1, <1>7, RewriterStable DEF RewriterInv, InferShapes, FixedBy
  <1>8. CASE Optimize
    <2>1. stage = "Optimize" /\ ~converged
      BY <1>8 DEF RewriterInv, Optimize
    <2>2. ASSUME stage' = "OptAndShapeDone" PROVE PairSettled(model)'
      <3>1. ~c1 /\ (opt.shape_inference => FixedBy("InferShapes", model))
        BY <1>8, <2>1, <2>2 DEF RewriterInv, Optimize
      <3>2. /\ model' = PassesInput(model)
            /\ opt.optimize => T["Optimize"][PassesInput(model)] = PassesInput(model)
        BY <1>8, <2>2 DEF Optimize
      <3>3. PairSettled(PassesInput(model))
        BY <1>0, <3>1, <3>2, LastInnerRound
      <3> QED BY <1>1, <3>2, <3>3 DEF PairSettled, FixedBy, PassesInput
    <2>3. stage' \in {"OptAndShapeDone", "innerRound"} /\ UNCHANGED <<fp, converged>>
      BY <1>8 DEF Optimize
    <2> QED BY <1>1, <2>1, <2>2, <2>3, RewriterStable DEF RewriterInv
  <1>9. CASE OptAndShapeDone
    <2>1. /\ stage = "OptAndShapeDone" /\ model' = model /\ converged' = converged
          /\ AfterFirst("mid", "midDone", "FoldConstant")
      BY <1>9 DEF OptAndShapeDone
    <2>2. CASE model = fp["mid"]
      <3>1. stage' = "midDone" /\ fp' = fp /\ cut'["inner"] = cut["inner"]
        BY <1>0, <2>1, <2>2 DEF AfterFirst, Loops
      <3>2. OutOfFold(model)
        BY <1>0, <2>1, <2>2 DEF RewriterInv
      <3> QED BY <1>1, <2>1, <3>1, <3>2, RewriterStable DEF RewriterInv
    <2>3. CASE model # fp["mid"]
      <3>1. /\ stage' = "FoldConstant" /\ cut' = cut /\ fp'["mid"] = model
            /\ fp'["outer"] = fp["outer"]
        BY <1>0, <2>1, <2>3 DEF AfterFirst
      <3> QED BY <1>1, <2>1, <3>1, RewriterStable DEF RewriterInv
    <2> QED BY <2>2, <2>3
  <1>10. CASE MidF1
    BY <1>0, <1>1, <1>10, RewriterStable DEF RewriterInv, MidF1, EnterInner
  <1>11. CASE FoldConstant
    <2>1. /\ stage = "FoldConstant" /\ model' = Folded(model) /\ converged' = converged
          /\ fp'["outer"] = fp["outer"] /\ cut'["inner"] = cut["inner"] /\ ~converged
      BY <1>0, <1>11 DEF FoldConstant, RewriterInv, Loops
    <2>2. \/ stage' = "midDone" /\ cut'["mid"]
          \/ stage' = "midDone" /\ Folded(model) = fp["mid"]
          \/ stage' = "midF1" /\ fp'["mid"] = Folded(model)
      BY <1>0, <1>11 DEF FoldConstant, Loops
    <2>3. OutOfFold(model)'
      BY <1>0, <1>1, <2>1 DEF OutOfFold, Folded
    <2>4. CASE stage' = "midDone" /\ cut'["mid"]
      BY <1>1, <2>1, <2>3, <2>4, RewriterStable DEF RewriterInv
    <2>5. CASE stage' = "midDone" /\ Folded(model) = fp["mid"]
      <3>1. model' = model
        BY <2>1, <2>5 DEF RewriterInv
      <3> QED BY <1>1, <2>1, <2>3, <2>5, <3>1, RewriterStable DEF RewriterInv
    <2>6. CASE stage' = "midF1" /\ fp'["mid"] = Folded(model)
      <3>1. OutOfFold(fp["mid"])'
        BY <1>0, <1>1, <2>6 DEF OutOfFold, Folded
      <3> QED BY <1>1, <2>1, <2>6, <3>1, RewriterStable DEF RewriterInv
    <2> QED BY <2>2, <2>4, <2>5, <2>6
  <1>12. CASE MidDone
    <2>1. /\ stage = "midDone" /\ model' = model /\ (converged' <=> model = fp["outer"])
          /\ AfterFirst("outer", "finish", "Rewrite")
      BY <1>12 DEF MidDone
    <2>2. CASE model = fp["outer"]
      <3>1. /\ stage' = "finish" /\ fp' = fp /\ cut'["inner"] = cut["inner"]
            /\ cut'["mid"] = cut["mid"]
        BY <1>0, <2>1, <2>2 DEF AfterFirst, Loops
      <3>2. OutOfRewrite(model)
        BY <1>0, <2>1, <2>2 DEF RewriterInv
      <3> QED BY <1>1, <2>1, <3>1, <3>2, RewriterStable DEF RewriterInv
    <2>3. CASE model # fp["outer"]
      <3>1. stage' = "Rewrite" /\ cut' = cut /\ fp'["outer"] = model
        BY <1>0, <2>1, <2>3 DEF AfterFirst
      <3> QED BY <1>1, <2>1, <2>3, <3>1, RewriterStable DEF RewriterInv
    <2> QED BY <2>2, <2>3
  <1>13. CASE Rewrite
    <2>1. /\ stage = "Rewrite" /\ model' = T["Rewrite"][model] /\ ~converged
          /\ fp["outer"] = model
          /\ cut'["inner"] = cut["inner"] /\ cut'["mid"] = cut["mid"]
      BY <1>0, <1>13 DEF Rewrite, RewriterInv, Loops
    <2>2. \/ stage' = "finish" /\ ~converged'
          \/ stage' = "finish" /\ model' = model
          \/ /\ stage' = "midF1" /\ fp'["mid"] = NoModel /\ fp'["outer"] = model'
             /\ converged' = converged
      BY <1>0, <1>13, <2>1 DEF Rewrite
    <2>a. OutOfRewrite(model)'
      BY <1>0, <1>1, <2>1 DEF OutOfRewrite
    <2>3. CASE stage' = "finish" /\ ~converged'
      BY <2>3 DEF RewriterInv
    <2>4. CASE stage' = "finish" /\ model' = model
      BY <1>0, <1>1, <2>1, <2>a, <2>4, RewriterStable DEF RewriterInv
    <2>5. CASE /\ stage' = "midF1" /\ fp'["mid"] = NoModel /\ fp'["outer"] = model'
               /\ converged' = converged
      <3>1. OutOfRewrite(fp["outer"])'
        BY <1>0, <1>1, <2>1, <2>5 DEF OutOfRewrite
      <3> QED BY <1>1, <2>1, <2>5, <3>1 DEF RewriterInv
    <2> QED BY <2>2, <2>3, <2>4, <2>5
  <1>14. CASE Finish
    BY <1>0, <1>1, <1>14, RewriterStable DEF RewriterInv, Finish
  <1>15. CASE UNCHANGED simplifyVars
    BY <1>1, <1>15, RewriterStable DEF RewriterInv, simplifyVars, FixedBy
  <1> QED
    BY <1>4, <1>5, <1>6, <1>7, <1>8, <1>9, <1>10, <1>11, <1>12, <1>13, <1>14, <1>15 DEF SimplifyNext

\* With a rewriter, no timeout warning means that the model is one folding and
\* the rewriter have put out, and, unless a nested loop was cut off, one that
\* OptAndShape was done with, whatever the transforms are.
THEOREM RewriterNoWarningSettled == SimplifySpec => []RewriterNoWarningMeansSettled
  <1>1. RewriterInv => RewriterNoWarningMeansSettled
    BY DEF RewriterInv, RewriterNoWarningMeansSettled, OutOfFold, OutOfRewrite
  <1> QED
    BY <1>1, RewriterInit, RewriterNext, TypeCorrect, PTL DEF SimplifySpec

-----------------------------------------------------------------------------
(* The transform FoldConstant: where folded values come from.              *)

\* A range of the batch loop that is still to be folded, b being where the next batch starts
InBatch(r, b) == r \in Nat \X Nat /\ 1 <= r[1] /\ r[1] < r[2] /\ r[2] <= b

\* The ranges to fold lie in the batches taken, and those in const_nodes; the
\* graph is a record of nodes, kinds, reads and initializers.
RangesInv ==
    /\ const_nodes \in Seq(Nodes) /\ i \in 1 .. Len(const_nodes) + 1
    /\ stack \in Seq(Nat \X Nat) /\ \A p \in 1 .. Len(stack) : InBatch(stack[p], i)
    /\ graph = [nodes |-> graph.nodes, kind |-> graph.kind, inputs |-> graph.inputs,
                inits |-> graph.inits]

\* What came from a Constant of the model still does, as a Constant or from one
\* of its inputs, and what is marked pure does not.
SourceInv ==
    /\ computed \subseteq NodeIds
    /\ \A n \in computed : graph.kind[n] = "constant" \/ graph.inputs[n] \intersect computed # {}
    /\ pure_names \intersect computed = {} /\ graph.inits \intersect computed = {}
    /\ \A p \in 1 .. Len(const_nodes) : const_nodes[p] \in impure \union pure_names
    /\ folded \ impure \subseteq pure_names

\* What depends on a weight still does, and is no constant unless weights are.
WeightInv ==
    ~asConstants =>
        /\ weighty \subseteq NodeIds
        /\ \A n \in weighty : /\ graph.kind[n] # "constant"
                              /\ graph.inputs[n] \intersect (weighty \union Weights) # {}
        /\ const_names \intersect (weighty \union Weights) = {}
        /\ \A p \in 1 .. Len(const_nodes) : const_nodes[p] \in const_names
        /\ folded \intersect weighty = {}

\* Every set of numbers that is not empty has a least one.
LEMMA LeastNumber ==
    ASSUME NEW S \in SUBSET Nat, S # {}
    PROVE  \E x \in S : \A y \in S : x <= y
<1> DEFINE R == OpToRel(<, Nat)
<1>1. IsWellFoundedOn(R, Nat)
  BY NatLessThanWellFounded
<1> HIDE DEF R
<1>2. PICK x \in S : \A y \in S : ~ (<<y, x>> \in R)
  BY <1>1, WFMin
<1>3. ASSUME NEW y \in S PROVE x <= y
  <2>1. x \in Nat /\ y \in Nat
    OBVIOUS
  <2>2. <<y, x>> \in R <=> y < x
    BY <2>1 DEF R, OpToRel
  <2> QED
    BY <1>2, <2>1, <2>2
<1> QED
  BY <1>3

\* A batch is not empty and ends with const_nodes at the latest.
LEMMA BatchEnds ==
    ASSUME RangesInv, i <= Len(const_nodes)
    PROVE  BatchEnd \in i + 1 .. Len(const_nodes) + 1
<1> DEFINE S == {j \in i + 1 .. Len(const_nodes) + 1 : ClosesBatch(j)}
<1>0. Len(const_nodes) \in Nat /\ i \in Nat /\ i >= 1
  BY DEF RangesInv
<1>1. Len(const_nodes) + 1 \in S
  BY <1>0 DEF ClosesBatch
<1>2. S \subseteq Nat /\ S \subseteq i + 1 .. Len(const_nodes) + 1
  BY <1>0
<1> HIDE DEF S
<1>3. \E x \in S : \A y \in S : x <= y
  BY <1>1, <1>2, LeastNumber
<1>4. Min(S) \in S
  BY <1>3 DEF Min
<1>5. Min(S) \in i + 1 .. Len(const_nodes) + 1
  BY <1>2, <1>4
<1>6. i + 1 \in i + 1 .. Len(const_nodes) + 1
  BY <1>0
<1>7. BatchEnd \in {i + 1, Min(S)}
  BY DEF BatchEnd, S
<1> QED
  BY <1>5, <1>6, <1>7

\* The next range to fold names nodes to fold.
LEMMA RangeNodes ==
    ASSUME RangesInv, stack # <<>>, NEW n \in OpsIn(Last(stack))
    PROVE  \E p \in 1 .. Len(const_nodes) : n = const_nodes[p]
<1> DEFINE r == Last(stack)
<1>1. r = stack[Len(stack)] /\ Len(stack) \in 1 .. Len(stack)
  BY DEF RangesInv, Last
<1>2. r \in Nat \X Nat /\ 1 <= r[1] /\ r[2] <= i
  BY <1>1 DEF RangesInv, InBatch
<1>3. i \in Nat /\ i <= Len(const_nodes) + 1 /\ Len(const_nodes) \in Nat
  BY DEF RangesInv
<1> HIDE DEF r
<1>4. PICK p \in r[1] .. r[2] - 1 : n = const_nodes[p]
  BY DEF OpsIn, r
<1>5. r[1] \in Nat /\ r[2] \in Nat
  BY <1>2
<1> QED
  BY <1>2, <1>3, <1>4, <1>5

\* The stack of ranges after one was taken off it and some were put on it.
LEMMA StackShape ==
    ASSUME RangesInv, stack # <<>>, NEW t \in Seq(Nat \X Nat),
           \A p \in 1 .. Len(t) : InBatch(t[p], i), i' = i, stack' = Front(stack) \o t
    PROVE  stack' \in Seq(Nat \X Nat) /\ \A p \in 1 .. Len(stack') : InBatch(stack'[p], i')
<1> DEFINE f == Front(stack)
<1>1. stack \in Seq(Nat \X Nat) /\ Len(stack) \in Nat /\ Len(stack) > 0
  BY DEF RangesInv
<1>2. /\ f \in Seq(Nat \X Nat) /\ Len(f) = Len(stack) - 1
      /\ \A p \in 1 .. Len(f) : f[p] = stack[p]
  <2>1. \A p \in 1 .. Len(stack) - 1 : stack[p] \in Nat \X Nat
    BY <1>1
  <2>2. f = SubSeq(stack, 1, Len(stack) - 1)
    BY DEF Front
  <2> DEFINE n == Len(stack) - 1
  <2>3. n \in Int /\ n \in Nat
    BY <1>1
  <2> HIDE DEF f, n
  <2>4. /\ SubSeq(stack, 1, n) \in Seq(Nat \X Nat)
        /\ Len(SubSeq(stack, 1, n)) = IF 1 <= n THEN n - 1 + 1 ELSE 0
        /\ \A p \in 1 .. n - 1 + 1 : SubSeq(stack, 1, n)[p] = stack[1 + p - 1]
    BY <2>1, <2>3, SubSeqProperties DEF n
  <2>5. f = SubSeq(stack, 1, n) /\ Len(f) = IF 1 <= n THEN n - 1 + 1 ELSE 0
    BY <2>2, <2>4 DEF n
  <2>6. Len(f) = n /\ \A p \in 1 .. n : f[p] = stack[p]
    BY <2>3, <2>4, <2>5
  <2> QED
    BY <2>4, <2>5, <2>6 DEF n
<1>3. \A p \in 1 .. Len(f) : InBatch(f[p], i)
  BY <1>1, <1>2 DEF RangesInv
<1> HIDE DEF f
<1>4. f \o t \in Seq(Nat \X Nat) /\ \A p \in 1 .. Len(f \o t) : InBatch((f \o t)[p], i)
  BY <1>2, <1>3
<1> QED
  BY <1>4 DEF f

\* The halves of a range lie where it lies.
LEMMA HalvesInBatch ==
    ASSUME RangesInv, stack # <<>>, NEW r, r = Last(stack)
    PROVE  /\ Bisected(r) \in Seq(Nat \X Nat)
           /\ \A p \in 1 .. Len(Bisected(r)) : InBatch(Bisected(r)[p], i)
<1>1. r = stack[Len(stack)] /\ Len(stack) \in 1 .. Len(stack)
  BY DEF RangesInv, Last
<1>2. InBatch(r, i)
  BY <1>1 DEF RangesInv
<1>3. r[1] \in Nat /\ r[2] \in Nat /\ 1 <= r[1] /\ r[1] < r[2] /\ r[2] <= i /\ i \in Nat
  BY <1>2 DEF InBatch, RangesInv
<1> DEFINE m == Mid(r)
<1>4. r[2] - r[1] # 1 => m \in Nat /\ r[1] < m /\ m < r[2]
  BY <1>3 DEF Mid
<1> HIDE DEF m
<1>5. r[2] - r[1] # 1 => InBatch(<<m, r[2]>>, i) /\ InBatch(<<r[1], m>>, i)
  BY <1>3, <1>4 DEF InBatch
<1>6. r[2] - r[1] = 1 => Bisected(r) = <<>>
  BY DEF Bisected
<1>7. r[2] - r[1] # 1 => Bisected(r) = << <<m, r[2]>>, <<r[1], m>> >>
  BY DEF Bisected, m
<1>8. CASE r[2] - r[1] = 1
  BY <1>6, <1>8
<1>9. CASE r[2] - r[1] # 1
  <2> DEFINE a == <<m, r[2]>>
             b == <<r[1], m>>
  <2>1. a \in Nat \X Nat /\ b \in Nat \X Nat /\ InBatch(a, i) /\ InBatch(b, i)
    BY <1>3, <1>4, <1>5, <1>9
  <2> HIDE DEF a, b
  <2>2. Bisected(r) = <<a, b>>
    BY <1>7, <1>9 DEF a, b
  <2> QED
    BY <2>1, <2>2
<1> QED
  BY <1>8, <1>9

\* What a step of the folder does to the graph: nothing but to its node list ...
SameReads == /\ graph'.kind = graph.kind /\ graph'.inputs = graph.inputs
             /\ graph' = [nodes |-> graph'.nodes, kind |-> graph'.kind,
                           inputs |-> graph'.inputs, inits |-> graph'.inits]

\* ... or what folding a set of nodes does to them.
Replaces(ops) ==
    /\ graph' = [nodes |-> graph'.nodes, kind |-> graph'.kind,
                  inputs |-> graph'.inputs, inits |-> graph'.inits]
    /\ \A n \in NodeIds :
         /\ graph'.kind[n] = IF n \in ops \intersect impure THEN "constant" ELSE graph.kind[n]
         /\ graph'.inputs[n] = IF n \in ops THEN {} ELSE graph.inputs[n]

\* A batch that runs adds initializers for its pure nodes only.
LEMMA MaterialiseEffect ==
    ASSUME RangesInv, NEW ops, Materialise(ops)
    PROVE  /\ SameReads \/ Replaces(ops)
           /\ graph'.inits \subseteq graph.inits \union (ops \ impure)
<1>0. graph = [nodes |-> graph.nodes, kind |-> graph.kind, inputs |-> graph.inputs,
               inits |-> graph.inits]
  BY DEF RangesInv
<1>1. CASE AddFolded(ops)
  <2>1. graph' = [graph EXCEPT !.inits = graph.inits \union (ops \ impure)]
    BY <1>1 DEF AddFolded
  <2> QED
    BY <1>0, <2>1 DEF SameReads
<1>2. ASSUME NEW kept \in SUBSET ops, NEW name \in [kept -> Fresh \ survivors],
             Splice(ops, kept, name)
      PROVE  Replaces(ops) /\ graph'.inits \subseteq graph.inits \union (ops \ impure)
  <2> DEFINE owner == [m \in {name[n] : n \in kept} |-> CHOOSE n \in kept : name[n] = m]
             kinds == [n \in Nodes |->
                         IF n \in DOMAIN owner
                         THEN IF graph.kind[owner[n]] = "transient"
                              THEN "constant" ELSE graph.kind[owner[n]]
                         ELSE IF n \in ops \intersect impure
                              THEN "constant" ELSE graph.kind[n]]
             reads == [n \in Nodes |->
                         IF n \in DOMAIN owner THEN graph.inputs[owner[n]]
                         ELSE IF n \in ops THEN {} ELSE graph.inputs[n]]
  <2>1. \E l : graph' = [nodes |-> l, kind |-> kinds, inputs |-> reads,
                        inits |-> graph.inits \union (ops \ impure)]
    BY <1>2, Zenon DEF Splice
  <2>2. DOMAIN owner \subseteq Fresh
    OBVIOUS
  <2>3. \A n \in NodeIds : n \in Nodes /\ n \notin DOMAIN owner
    BY <2>2, NamesAreApart DEF Nodes
  <2>4. \A n \in NodeIds :
          /\ kinds[n] = IF n \in ops \intersect impure THEN "constant" ELSE graph.kind[n]
          /\ reads[n] = IF n \in ops THEN {} ELSE graph.inputs[n]
    BY <2>3
  <2> HIDE DEF kinds, reads
  <2> QED
    BY <2>1, <2>4 DEF Replaces
<1> QED
  BY <1>1, <1>2 DEF Materialise

\* The end of a round folds in the graph what was folded, and drops initializers.
LEMMA EndRoundEffect ==
    ASSUME RangesInv, EndRound
    PROVE  (SameReads \/ Replaces(folded)) /\ graph'.inits \subseteq graph.inits
<1>0. graph = [nodes |-> graph.nodes, kind |-> graph.kind, inputs |-> graph.inputs,
               inits |-> graph.inits]
  BY DEF RangesInv
<1>1. ASSUME NEW g, graph' = EliminateUnusedInitializer(g),
             g = [nodes |-> g.nodes, kind |-> g.kind, inputs |-> g.inputs, inits |-> g.inits]
      PROVE  /\ graph'.kind = g.kind /\ graph'.inputs = g.inputs /\ graph'.inits \subseteq g.inits
             /\ graph' = [nodes |-> graph'.nodes, kind |-> graph'.kind,
                           inputs |-> graph'.inputs, inits |-> graph'.inits]
  <2>1. graph' = [g EXCEPT !.inits = g.inits \intersect (Used(g) \union GraphInputs)]
    BY <1>1 DEF EliminateUnusedInitializer
  <2> QED
    BY <1>1, <2>1
<1>2. CASE native
  <2>1. graph' = EliminateUnusedInitializer(graph)
    BY <1>2 DEF EndRound
  <2> QED
    BY <1>0, <1>1, <2>1 DEF SameReads
<1>3. CASE ~native
  <2> DEFINE g == Rebuilt
             kinds == [n \in Nodes |->
                         IF n \in folded \intersect impure THEN "constant" ELSE graph.kind[n]]
             reads == [n \in Nodes |-> IF n \in folded THEN {} ELSE graph.inputs[n]]
  <2>1. graph' = EliminateUnusedInitializer(g)
    BY <1>3 DEF EndRound
  <2>2. PICK l : g = [nodes |-> l, kind |-> kinds, inputs |-> reads, inits |-> graph.inits]
    BY Zenon DEF Rebuilt
  <2>3. \A n \in NodeIds :
          /\ kinds[n] = IF n \in folded \intersect impure THEN "constant" ELSE graph.kind[n]
          /\ reads[n] = IF n \in folded THEN {} ELSE graph.inputs[n]
    BY DEF Nodes
  <2> HIDE DEF g, kinds, reads
  <2>4. /\ g.kind = kinds /\ g.inputs = reads /\ g.inits = graph.inits
        /\ g = [nodes |-> g.nodes, kind |-> g.kind, inputs |-> g.inputs, inits |-> g.inits]
    BY <2>2
  <2>5. /\ graph'.kind = kinds /\ graph'.inputs = reads /\ graph'.inits \subseteq graph.inits
        /\ graph' = [nodes |-> graph'.nodes, kind |-> graph'.kind,
                      inputs |-> graph'.inputs, inits |-> graph'.inits]
    BY <1>1, <2>1, <2>4
  <2> QED
    BY <2>3, <2>5 DEF Replaces
<1> QED
  BY <1>2, <1>3

\* A new round begins with the graph as it is, but for operators whose output
\* turned out small, and with nothing scanned.
LEMMA NextRoundEffect ==
    ASSUME RangesInv, NextRound
    PROVE  /\ graph'.inputs = graph.inputs /\ graph'.inits = graph.inits
           /\ graph' = [nodes |-> graph'.nodes, kind |-> graph'.kind,
                         inputs |-> graph'.inputs, inits |-> graph'.inits]
           /\ \A n \in NodeIds : \/ graph'.kind[n] = graph.kind[n]
                                 \/ graph'.kind[n] = "op" /\ graph.kind[n] # "constant"
           /\ pure_names' = const_names' /\ const_names' = IF asConstants THEN graph.inits ELSE {}
           /\ const_nodes' = <<>> /\ i' = 1 /\ stack' = <<>> /\ impure' = {} /\ folded' = {}
           /\ UNCHANGED config
<1>0. graph = [nodes |-> graph.nodes, kind |-> graph.kind, inputs |-> graph.inputs,
               inits |-> graph.inits]
  BY DEF RangesInv
<1>1. PICK small \in SUBSET {n \in ToSet(graph.nodes) : graph.kind[n] \in Large} :
        BeginRound(small)
  BY DEF NextRound
<1> DEFINE kinds == [n \in Nodes |-> IF n \in small THEN "op" ELSE graph.kind[n]]
<1>2. graph' = [graph EXCEPT !.kind = kinds]
  BY <1>1, Zenon DEF BeginRound
<1>3. \A n \in NodeIds : \/ kinds[n] = graph.kind[n]
                         \/ kinds[n] = "op" /\ graph.kind[n] # "constant"
  BY DEF Nodes, Large
<1> HIDE DEF kinds
<1>4. /\ graph'.inputs = graph.inputs /\ graph'.inits = graph.inits /\ graph'.kind = kinds
      /\ graph' = [nodes |-> graph'.nodes, kind |-> graph'.kind,
                    inputs |-> graph'.inputs, inits |-> graph'.inits]
  BY <1>0, <1>2
<1>5. /\ pure_names' = const_names' /\ const_names' = IF asConstants THEN graph'.inits ELSE {}
      /\ const_nodes' = <<>> /\ i' = 1 /\ stack' = <<>> /\ impure' = {} /\ folded' = {}
      /\ UNCHANGED config
  BY <1>1 DEF BeginRound
<1> QED
  BY <1>3, <1>4, <1>5

\* The steps that neither scan nor change the graph
Idles == \/ ScanDone \/ NextBatch \/ GroupFails \/ Stop
         \/ Finished \/ UNCHANGED vars

\* A step of the folding loop that evaluates nothing leaves the graph and what has
\* been folded alone.
LEMMA IdlesEffect ==
    ASSUME Idles
    PROVE  UNCHANGED <<graph, partition, folded, config>>
BY DEF Idles, ScanDone, NextBatch, GroupFails, Popped, Stop,
       Finished, vars

\* What a scan step of n does: only const_nodes, the two sets of names and the
\* marks change, and n goes where its inputs say.
LEMMA ScanEffect ==
    ASSUME RangesInv, NEW n \in Nodes,
           \/ ScanConstant(n) \/ ScanFoldable(n)
           \/ ScanDeferred(n) \/ ScanOther(n)
    PROVE  /\ SameReads /\ graph'.inits = graph.inits
           /\ UNCHANGED <<i, stack, folded, config>>
           /\ \/ UNCHANGED partition
              \/ /\ const_names' = const_names \union {n} /\ graph.kind[n] = "constant"
                 /\ UNCHANGED <<pure_names, const_nodes, impure>>
              \/ /\ const_names' = const_names \union {n} /\ graph.inputs[n] \subseteq const_names
                 /\ UNCHANGED <<pure_names, const_nodes, impure>>
              \/ /\ const_names' = const_names \union {n} /\ graph.inputs[n] \subseteq const_names
                 /\ const_nodes' = Append(const_nodes, n) /\ graph.kind[n] # "constant"
                 /\ \/ /\ graph.inputs[n] \subseteq pure_names
                       /\ pure_names' = pure_names \union {n} /\ impure' = impure
                    \/ impure' = impure \union {n} /\ pure_names' = pure_names
<1>0. graph = [nodes |-> graph.nodes, kind |-> graph.kind, inputs |-> graph.inputs,
               inits |-> graph.inits]
  BY DEF RangesInv
<1>1. CASE ScanConstant(n)
  <2>1. \E l : graph' = [graph EXCEPT !.nodes = l]
    BY <1>1 DEF ScanConstant
  <2>2. SameReads /\ graph'.inits = graph.inits
    BY <1>0, <2>1 DEF SameReads
  <2> QED
    BY <1>1, <2>2 DEF ScanConstant, Scanned
<1>2. CASE ScanFoldable(n)
  <2>1. SameReads /\ graph'.inits = graph.inits
    BY <1>0, <1>2 DEF SameReads, ScanFoldable
  <2> QED
    BY <1>2, <2>1 DEF ScanFoldable, Scanned, Foldable, Pure
<1>3. CASE ScanDeferred(n)
  <2>1. SameReads /\ graph'.inits = graph.inits
    BY <1>0, <1>3 DEF SameReads, ScanDeferred
  <2> QED
    BY <1>3, <2>1 DEF ScanDeferred, Scanned, Foldable
<1>4. CASE ScanOther(n)
  <2>1. SameReads /\ graph'.inits = graph.inits
    BY <1>0, <1>4 DEF SameReads, ScanOther
  <2> QED
    BY <1>4, <2>1 DEF ScanOther, Scanned
<1> QED
  BY <1>1, <1>2, <1>3, <1>4

\* The steps of the folder, sorted by what they do to the graph
LEMMA FoldingSteps ==
    ASSUME [Next]_vars
    PROVE  \/ Idles \/ GroupFolds \/ EndRound \/ NextRound
           \/ \E n \in Nodes : \/ ScanConstant(n) \/ ScanFoldable(n)
                                       \/ ScanDeferred(n) \/ ScanOther(n)
BY DEF Idles, Next, Fold, Scan

\* What folding a batch does to everything else
LEMMA GroupFoldsEffect ==
    ASSUME RangesInv, GroupFolds
    PROVE  \E ops : /\ \A n \in ops : \E p \in 1 .. Len(const_nodes) : n = const_nodes[p]
                    /\ SameReads \/ Replaces(ops)
                    /\ graph'.inits \subseteq graph.inits \union (ops \ impure)
                    /\ folded' = folded \union ops /\ stack # <<>>
                    /\ stack' = Front(stack)
                    /\ UNCHANGED <<partition, i, config>>
<1> DEFINE ops == OpsIn(Last(stack))
<1>1. /\ Materialise(ops) /\ folded' = folded \union ops /\ stack # <<>>
      /\ stack' = Front(stack) /\ UNCHANGED <<partition, i, config>>
  BY DEF GroupFolds, Popped
<1>2. \A n \in ops : \E p \in 1 .. Len(const_nodes) : n = const_nodes[p]
  BY <1>1, RangeNodes
<1> HIDE DEF ops
<1> QED
  BY <1>1, <1>2, MaterialiseEffect

\* Every step keeps the ranges within const_nodes.
LEMMA RangesKept ==
    ASSUME RangesInv, [Next]_vars
    PROVE  RangesInv'
<1>0. /\ const_nodes \in Seq(Nodes) /\ i \in 1 .. Len(const_nodes) + 1
      /\ Len(const_nodes) \in Nat
      /\ stack \in Seq(Nat \X Nat) /\ \A p \in 1 .. Len(stack) : InBatch(stack[p], i)
      /\ graph = [nodes |-> graph.nodes, kind |-> graph.kind, inputs |-> graph.inputs,
                  inits |-> graph.inits]
  BY DEF RangesInv
<1>1. ASSUME NEW n \in Nodes,
             \/ ScanConstant(n) \/ ScanFoldable(n)
             \/ ScanDeferred(n) \/ ScanOther(n)
      PROVE  RangesInv'
  <2>1. SameReads /\ UNCHANGED <<i, stack>> /\ const_nodes' \in {const_nodes, Append(const_nodes, n)}
    BY <1>1, ScanEffect DEF partition
  <2>2. const_nodes' \in Seq(Nodes) /\ Len(const_nodes') >= Len(const_nodes)
        /\ Len(const_nodes') \in Nat
    <3>1. CASE const_nodes' = const_nodes
      BY <1>0, <3>1
    <3>2. CASE const_nodes' = Append(const_nodes, n)
      BY <1>0, <3>2
    <3> QED
      BY <2>1, <3>1, <3>2
  <2> QED
    BY <1>0, <2>1, <2>2 DEF RangesInv, SameReads
<1>2. CASE GroupFolds
  <2>1. /\ const_nodes' = const_nodes /\ i' = i /\ stack # <<>>
        /\ stack' = Front(stack)
        /\ graph' = [nodes |-> graph'.nodes, kind |-> graph'.kind,
                      inputs |-> graph'.inputs, inits |-> graph'.inits]
    BY <1>2, GroupFoldsEffect DEF partition, SameReads, Replaces
  <2>2. <<>> \in Seq(Nat \X Nat) /\ \A p \in 1 .. Len(<<>>) : InBatch(<<>>[p], i)
    OBVIOUS
  <2>3. Front(stack) = Front(stack) \o <<>>
    <3>1. Front(stack) \in Seq(Nat \X Nat)
      <4> DEFINE n == Len(stack) - 1
      <4>1. n \in Int /\ \A p \in 1 .. n : stack[p] \in Nat \X Nat
        BY <1>0
      <4> HIDE DEF n
      <4>2. SubSeq(stack, 1, n) \in Seq(Nat \X Nat)
        BY <4>1, SubSeqProperties
      <4> QED
        BY <4>2 DEF Front, n
    <3> QED
      BY <3>1
  <2>4. stack' \in Seq(Nat \X Nat) /\ \A p \in 1 .. Len(stack') : InBatch(stack'[p], i')
    <3> DEFINE none == <<>>
    <3> HIDE DEF none
    <3>1. /\ none \in Seq(Nat \X Nat) /\ \A p \in 1 .. Len(none) : InBatch(none[p], i)
          /\ stack' = Front(stack) \o none
      BY <2>1, <2>2, <2>3 DEF none
    <3> QED
      BY <2>1, <3>1, StackShape
  <2> QED
    BY <1>0, <2>1, <2>4 DEF RangesInv
<1>3. CASE EndRound
  <2>1. graph' = [nodes |-> graph'.nodes, kind |-> graph'.kind,
                   inputs |-> graph'.inputs, inits |-> graph'.inits]
    BY <1>3, EndRoundEffect DEF SameReads, Replaces
  <2>2. UNCHANGED <<const_nodes, i, stack>>
    BY <1>3 DEF EndRound, partition
  <2> QED
    BY <1>0, <2>1, <2>2 DEF RangesInv
<1>4. CASE NextRound
  <2>1. /\ graph' = [nodes |-> graph'.nodes, kind |-> graph'.kind,
                      inputs |-> graph'.inputs, inits |-> graph'.inits]
        /\ const_nodes' = <<>> /\ i' = 1 /\ stack' = <<>>
    BY <1>4, NextRoundEffect
  <2> QED
    BY <2>1 DEF RangesInv
<1>5. CASE Idles
  <2>0. graph' = graph /\ const_nodes' = const_nodes
    BY <1>5, IdlesEffect DEF partition
  <2>1. CASE NextBatch
    <3> DEFINE e == BatchEnd
    <3>1. i <= Len(const_nodes) /\ stack' = << <<i, e>> >> /\ i' = e
      BY <2>1 DEF NextBatch
    <3>2. e \in i + 1 .. Len(const_nodes) + 1
      BY <3>1, BatchEnds
    <3> HIDE DEF e
    <3>3. <<i, e>> \in Nat \X Nat /\ InBatch(<<i, e>>, e)
      BY <1>0, <3>2 DEF InBatch
    <3>4. stack' \in Seq(Nat \X Nat) /\ \A p \in 1 .. Len(stack') : InBatch(stack'[p], i')
      <4> DEFINE r == <<i, e>>
      <4> HIDE DEF r
      <4>1. stack' = <<r>> /\ i' = e /\ r \in Nat \X Nat /\ InBatch(r, e)
        BY <3>1, <3>3 DEF r
      <4> QED
        BY <4>1
    <3>5. i' \in 1 .. Len(const_nodes') + 1
      BY <1>0, <2>0, <3>1, <3>2
    <3> QED
      BY <1>0, <2>0, <3>4, <3>5 DEF RangesInv
  <2>2. CASE GroupFails
    <3>1. /\ i' = i /\ stack # <<>>
          /\ stack' = Front(stack) \o Bisected(Last(stack))
      BY <2>2 DEF GroupFails, Popped
    <3>2. stack' \in Seq(Nat \X Nat) /\ \A p \in 1 .. Len(stack') : InBatch(stack'[p], i')
      BY <3>1, HalvesInBatch, StackShape
    <3> QED
      BY <1>0, <2>0, <3>1, <3>2 DEF RangesInv
  <2>3. CASE ScanDone \/ Stop \/ Finished \/ UNCHANGED vars
    <3>1. UNCHANGED <<i, stack>>
      BY <2>3 DEF ScanDone, Stop, Finished, vars
    <3> QED
      BY <1>0, <2>0, <3>1 DEF RangesInv
  <2> QED
    BY <1>5, <2>1, <2>2, <2>3 DEF Idles
<1> QED
  BY <1>1, <1>2, <1>3, <1>4, <1>5, FoldingSteps

\* Nodes that came from a Constant are replaced by Constants only.
LEMMA SourceReplaced ==
    ASSUME SourceInv, NEW ops, ops \ impure \subseteq pure_names,
           SameReads \/ Replaces(ops), computed' = computed
    PROVE  \A n \in computed' : \/ graph'.kind[n] = "constant"
                                \/ graph'.inputs[n] \intersect computed' # {}
<1> SUFFICES ASSUME NEW n \in computed
             PROVE  graph'.kind[n] = "constant" \/ graph'.inputs[n] \intersect computed # {}
  OBVIOUS
<1>1. /\ n \in NodeIds /\ n \notin ops \ impure
      /\ graph.kind[n] = "constant" \/ graph.inputs[n] \intersect computed # {}
  BY DEF SourceInv
<1> QED
  BY <1>1 DEF SameReads, Replaces

\* No step moves to the weights what came from a Constant.
LEMMA SourceKept ==
    ASSUME RangesInv, SourceInv, [Next]_vars
    PROVE  SourceInv'
<1>0. /\ computed \subseteq NodeIds
      /\ \A n \in computed : graph.kind[n] = "constant" \/ graph.inputs[n] \intersect computed # {}
      /\ pure_names \intersect computed = {} /\ graph.inits \intersect computed = {}
      /\ \A p \in 1 .. Len(const_nodes) : const_nodes[p] \in impure \union pure_names
      /\ folded \ impure \subseteq pure_names
      /\ const_nodes \in Seq(Nodes)
  BY DEF SourceInv, RangesInv
<1>1. ASSUME NEW n \in Nodes,
             \/ ScanConstant(n) \/ ScanFoldable(n)
             \/ ScanDeferred(n) \/ ScanOther(n)
      PROVE  SourceInv'
  <2>1. /\ graph'.kind = graph.kind /\ graph'.inputs = graph.inputs /\ graph'.inits = graph.inits
        /\ computed' = computed /\ folded' = folded
    BY <1>1, ScanEffect DEF SameReads, config
  <2>2. CASE UNCHANGED <<pure_names, const_nodes, impure>>
    BY <1>0, <2>1, <2>2 DEF SourceInv
  <2>3. CASE /\ const_nodes' = Append(const_nodes, n) /\ graph.kind[n] # "constant"
             /\ \/ /\ graph.inputs[n] \subseteq pure_names
                   /\ pure_names' = pure_names \union {n} /\ impure' = impure
                \/ impure' = impure \union {n} /\ pure_names' = pure_names
    <3>1. pure_names' \intersect computed' = {}
      BY <1>0, <2>1, <2>3
    <3>2. \A p \in 1 .. Len(const_nodes') : const_nodes'[p] \in impure' \union pure_names'
      BY <1>0, <2>3
    <3>3. folded' \ impure' \subseteq pure_names'
      BY <1>0, <2>1, <2>3
    <3> QED
      BY <1>0, <2>1, <3>1, <3>2, <3>3 DEF SourceInv
  <2> QED
    BY <1>1, <2>2, <2>3, ScanEffect DEF partition
<1>2. CASE GroupFolds
  <2>1. PICK ops : /\ \A n \in ops : \E p \in 1 .. Len(const_nodes) : n = const_nodes[p]
                   /\ SameReads \/ Replaces(ops)
                   /\ graph'.inits \subseteq graph.inits \union (ops \ impure)
                   /\ folded' = folded \union ops
                   /\ UNCHANGED <<partition, config>>
    BY <1>2, GroupFoldsEffect
  <2>2. ops \ impure \subseteq pure_names
    BY <1>0, <2>1
  <2>3. UNCHANGED <<pure_names, const_nodes, impure, computed>>
    BY <2>1 DEF partition, config
  <2>4. \A n \in computed' : graph'.kind[n] = "constant" \/ graph'.inputs[n] \intersect computed' # {}
    BY <2>1, <2>2, <2>3, SourceReplaced
  <2> QED
    BY <1>0, <2>1, <2>2, <2>3, <2>4 DEF SourceInv
<1>3. CASE EndRound
  <2>1. (SameReads \/ Replaces(folded)) /\ graph'.inits \subseteq graph.inits
    BY <1>3, EndRoundEffect
  <2>2. UNCHANGED <<pure_names, const_nodes, impure, computed, folded>>
    BY <1>3 DEF EndRound, partition, config
  <2>3. \A n \in computed' : graph'.kind[n] = "constant" \/ graph'.inputs[n] \intersect computed' # {}
    BY <1>0, <2>1, <2>2, SourceReplaced
  <2> QED
    BY <1>0, <2>1, <2>2, <2>3 DEF SourceInv
<1>4. CASE NextRound
  <2>1. /\ graph'.inputs = graph.inputs /\ graph'.inits = graph.inits
        /\ \A n \in NodeIds : \/ graph'.kind[n] = graph.kind[n]
                              \/ graph'.kind[n] = "op" /\ graph.kind[n] # "constant"
        /\ pure_names' = const_names' /\ const_names' = IF asConstants THEN graph.inits ELSE {}
        /\ const_nodes' = <<>> /\ folded' = {} /\ computed' = computed
    BY <1>4, NextRoundEffect DEF config
  <2> QED
    BY <1>0, <2>1 DEF SourceInv
<1>5. CASE Idles
  BY <1>0, <1>5, IdlesEffect DEF SourceInv, partition, config
<1> QED
  BY <1>1, <1>2, <1>3, <1>4, <1>5, FoldingSteps

\* Nodes that depend on a weight are not among those replaced.
LEMMA WeightReplaced ==
    ASSUME NEW ops, ops \intersect weighty = {}, SameReads \/ Replaces(ops), weighty' = weighty,
           weighty \subseteq NodeIds,
           \A n \in weighty : /\ graph.kind[n] # "constant"
                              /\ graph.inputs[n] \intersect (weighty \union Weights) # {}
    PROVE  \A n \in weighty' : /\ graph'.kind[n] # "constant"
                               /\ graph'.inputs[n] \intersect (weighty' \union Weights) # {}
<1> SUFFICES ASSUME NEW n \in weighty
             PROVE  /\ graph'.kind[n] # "constant"
                    /\ graph'.inputs[n] \intersect (weighty \union Weights) # {}
  OBVIOUS
<1>1. n \in NodeIds /\ n \notin ops
  OBVIOUS
<1> QED
  BY <1>1 DEF SameReads, Replaces

\* No step takes for a constant what depends on a weight, if weights are none.
LEMMA WeightKept ==
    ASSUME RangesInv, WeightInv, [Next]_vars
    PROVE  WeightInv'
<1>a. asConstants' = asConstants /\ weighty' = weighty
  BY FoldingSteps, IdlesEffect, ScanEffect, GroupFoldsEffect, NextRoundEffect
     DEF config, EndRound
<1> SUFFICES ASSUME ~asConstants PROVE WeightInv'
  BY <1>a DEF WeightInv
<1>0. /\ weighty \subseteq NodeIds
      /\ \A n \in weighty : /\ graph.kind[n] # "constant"
                            /\ graph.inputs[n] \intersect (weighty \union Weights) # {}
      /\ const_names \intersect (weighty \union Weights) = {}
      /\ \A p \in 1 .. Len(const_nodes) : const_nodes[p] \in const_names
      /\ folded \intersect weighty = {} /\ const_nodes \in Seq(Nodes)
  BY DEF WeightInv, RangesInv
<1>1. ASSUME NEW n \in Nodes,
             \/ ScanConstant(n) \/ ScanFoldable(n)
             \/ ScanDeferred(n) \/ ScanOther(n)
      PROVE  WeightInv'
  <2>1. /\ graph'.kind = graph.kind /\ graph'.inputs = graph.inputs /\ folded' = folded
    BY <1>1, ScanEffect DEF SameReads
  <2>2. CASE UNCHANGED <<const_names, const_nodes>>
    BY <1>0, <1>a, <2>1, <2>2 DEF WeightInv
  <2>3. CASE /\ const_names' = const_names \union {n}
             /\ graph.kind[n] = "constant" \/ graph.inputs[n] \subseteq const_names
             /\ const_nodes' \in {const_nodes, Append(const_nodes, n)}
    <3>1. n \notin weighty \union Weights
      BY <1>0, <2>3, NamesAreApart DEF Nodes
    <3>2. const_names' \intersect (weighty \union Weights) = {}
      BY <1>0, <2>3, <3>1
    <3>3. \A p \in 1 .. Len(const_nodes') : const_nodes'[p] \in const_names'
      BY <1>0, <2>3
    <3> QED
      BY <1>0, <1>a, <2>1, <3>2, <3>3 DEF WeightInv
  <2> QED
    BY <1>1, <2>2, <2>3, ScanEffect DEF partition
<1>2. CASE GroupFolds
  <2>1. PICK ops : /\ \A n \in ops : \E p \in 1 .. Len(const_nodes) : n = const_nodes[p]
                   /\ (SameReads \/ Replaces(ops)) /\ folded' = folded \union ops
                   /\ UNCHANGED partition
    BY <1>2, GroupFoldsEffect
  <2>2. ops \intersect weighty = {}
    BY <1>0, <2>1
  <2>3. UNCHANGED <<const_names, const_nodes>>
    BY <2>1 DEF partition
  <2>4. \A n \in weighty' : /\ graph'.kind[n] # "constant"
                            /\ graph'.inputs[n] \intersect (weighty' \union Weights) # {}
    BY <1>0, <1>a, <2>1, <2>2, WeightReplaced
  <2> QED
    BY <1>0, <1>a, <2>1, <2>2, <2>3, <2>4 DEF WeightInv
<1>3. CASE EndRound
  <2>1. SameReads \/ Replaces(folded)
    BY <1>3, EndRoundEffect
  <2>2. UNCHANGED <<const_names, const_nodes, folded>>
    BY <1>3 DEF EndRound, partition
  <2>3. \A n \in weighty' : /\ graph'.kind[n] # "constant"
                            /\ graph'.inputs[n] \intersect (weighty' \union Weights) # {}
    BY <1>0, <1>a, <2>1, WeightReplaced
  <2> QED
    BY <1>0, <1>a, <2>2, <2>3 DEF WeightInv
<1>4. CASE NextRound
  <2>1. /\ graph'.inputs = graph.inputs
        /\ \A n \in NodeIds : \/ graph'.kind[n] = graph.kind[n]
                              \/ graph'.kind[n] = "op" /\ graph.kind[n] # "constant"
        /\ const_names' = {} /\ const_nodes' = <<>> /\ folded' = {}
    BY <1>4, NextRoundEffect
  <2> QED
    BY <1>0, <1>a, <2>1 DEF WeightInv
<1>5. CASE Idles
  BY <1>0, <1>5, <1>a, IdlesEffect DEF WeightInv, partition
<1> QED
  BY <1>1, <1>2, <1>3, <1>4, <1>5, FoldingSteps

\* What is derived from seeds is a seed or reads a seed or what is derived.
LEMMA DerivedBack ==
    ASSUME NEW g, NEW seeds, NEW n \in Derived(g, seeds)
    PROVE  /\ n \in NodeIds
           /\ n \in seeds \/ g.inputs[n] \intersect (Derived(g, seeds) \union seeds) # {}
<1> DEFINE D == Derived(g, seeds)
           Closed(S) == \A m \in NodeIds :
                          m \in seeds \/ g.inputs[m] \intersect (S \union seeds) # {} => m \in S
<1>1. D = {m \in NodeIds : \A S \in SUBSET NodeIds : Closed(S) => m \in S}
  BY DEF Derived
<1> HIDE DEF D
<1>2. D \subseteq NodeIds /\ n \in D
  BY <1>1 DEF D
<1>3. \A S \in SUBSET NodeIds : Closed(S) => D \subseteq S
  BY <1>1
<1>4. Closed(D)
  <2> SUFFICES ASSUME NEW m \in NodeIds, m \in seeds \/ g.inputs[m] \intersect (D \union seeds) # {},
                      NEW S \in SUBSET NodeIds, Closed(S)
               PROVE  m \in S
    BY <1>1
  <2>1. D \subseteq S
    BY <1>3
  <2> QED
    BY <2>1
<1>5. SUFFICES ASSUME n \notin seeds, g.inputs[n] \intersect (D \union seeds) = {} PROVE FALSE
  BY <1>2 DEF D
<1>6. Closed(D \ {n})
  BY <1>4, <1>5
<1> HIDE DEF Closed
<1>7. D \subseteq D \ {n}
  BY <1>2, <1>3, <1>6
<1> QED
  BY <1>2, <1>7

\* In the model that is handed in, the three hold.
LEMMA FoldingInit ==
    ASSUME Init
    PROVE  RangesInv /\ SourceInv /\ WeightInv
<1>1. PICK w \in WiringChoices, kd \in KindChoices : graph = InputGraph(w, kd)
  BY DEF Init
<1> DEFINE kinds == [n \in Nodes |-> IF n \in NodeIds THEN kd[n] ELSE "op"]
           reads == [n \in Nodes |->
                       IF n \in Fresh \/ kd[n] \in Constants THEN {} ELSE w[n]]
<1>2. graph = [nodes |-> Order, kind |-> kinds, inputs |-> reads, inits |-> Weights]
  BY <1>1 DEF InputGraph
<1>3. \A n \in NodeIds : kinds[n] = kd[n] /\ (kd[n] = "constant" => reads[n] = {})
  BY DEF Nodes, Constants
<1> HIDE DEF kinds, reads
<1>4. /\ graph.inits = Weights /\ \A n \in NodeIds : graph.kind[n] = "constant" => graph.inputs[n] = {}
      /\ graph = [nodes |-> graph.nodes, kind |-> graph.kind, inputs |-> graph.inputs,
                  inits |-> graph.inits]
  BY <1>2, <1>3
<1>5. /\ const_names = (IF asConstants THEN Weights ELSE {}) /\ pure_names = const_names
      /\ const_nodes = <<>> /\ i = 1 /\ stack = <<>> /\ folded = {}
      /\ computed = Derived(graph, {n \in NodeIds : graph.kind[n] = "constant"})
      /\ weighty = Derived(graph, Weights)
  BY DEF Init
<1>6. NodeIds \intersect Weights = {}
  BY NamesAreApart DEF Nodes
<1>7. RangesInv
  BY <1>4, <1>5 DEF RangesInv
<1>8. SourceInv
  <2> DEFINE seeds == {n \in NodeIds : graph.kind[n] = "constant"}
  <2>1. \A n \in computed : n \in NodeIds /\ (n \in seeds \/ graph.inputs[n] \intersect (computed \union seeds) # {})
    BY <1>5, DerivedBack
  <2>2. seeds \subseteq computed
    BY <1>5 DEF Derived
  <2>3. \A n \in computed : graph.kind[n] = "constant" \/ graph.inputs[n] \intersect computed # {}
    BY <2>1, <2>2
  <2> QED
    BY <1>4, <1>5, <1>6, <2>1, <2>3 DEF SourceInv
<1>9. WeightInv
  <2>1. \A n \in weighty : n \in NodeIds /\ (n \in Weights \/ graph.inputs[n] \intersect (weighty \union Weights) # {})
    BY <1>5, DerivedBack
  <2> QED
    BY <1>4, <1>5, <1>6, <2>1 DEF WeightInv
<1> QED
  BY <1>7, <1>8, <1>9

\* For every model, whatever its size, kinds and wiring, and every way batches
\* fail: folding, however many rounds it takes and on either representation,
\* never makes a weight of what the model computes from a Constant node.
THEOREM FoldingProvenance == Spec => []ProvenanceKept
<1>1. Init => RangesInv /\ SourceInv
  BY FoldingInit
<1>2. RangesInv /\ SourceInv /\ [Next]_vars => (RangesInv /\ SourceInv)'
  BY RangesKept, SourceKept
<1>3. SourceInv => ProvenanceKept
  BY DEF SourceInv, ProvenanceKept
<1> QED
  BY <1>1, <1>2, <1>3, PTL DEF Spec

\* With initializers_as_constants off, no round folds a node that depends on a
\* weight, directly or through any number of others.
THEOREM FoldingSparesWeights == Spec => []WeightsUntouched
<1>1. Init => RangesInv /\ WeightInv
  BY FoldingInit
<1>2. RangesInv /\ WeightInv /\ [Next]_vars => (RangesInv /\ WeightInv)'
  BY RangesKept, WeightKept
<1>3. WeightInv => WeightsUntouched
  BY DEF WeightInv, WeightsUntouched
<1> QED
  BY <1>1, <1>2, <1>3, PTL DEF Spec

-----------------------------------------------------------------------------
(* Lists of nodes *)

\* f is computed in n steps, the p-th by step from what the last one gave.
Stepwise(f, X, a, step, n) ==
    /\ f \in [0 .. n -> X] /\ f[0] = a
    /\ \A p \in 1 .. n : f[p] = step[<<p, f[p - 1]>>]

\* What is defined step by step exists.
LEMMA StepwiseExists ==
    ASSUME NEW X, NEW a \in X, NEW N \in Nat, NEW step \in [(1 .. N) \X X -> X],
           NEW n \in Nat, n <= N
    PROVE  \E f : Stepwise(f, X, a, step, n)
<1> DEFINE Bad == {m \in Nat : m <= N /\ ~ \E f : Stepwise(f, X, a, step, m)}
<1> SUFFICES ASSUME Bad # {} PROVE FALSE
  OBVIOUS
<1>1. PICK m \in Bad : \A y \in Bad : m <= y
  BY LeastNumber
<1>2. m # 0
  <2>1. Stepwise([j \in 0 .. 0 |-> a], X, a, step, 0)
    BY DEF Stepwise
  <2> QED
    BY <1>1, <2>1
<1>3. m - 1 \in Nat /\ m - 1 \notin Bad /\ m \in Nat /\ m <= N
  BY <1>1, <1>2
<1>4. PICK f : Stepwise(f, X, a, step, m - 1)
  BY <1>3
<1> DEFINE g == [j \in 0 .. m |-> IF j = m THEN step[<<m, f[m - 1]>>] ELSE f[j]]
<1>5. f \in [0 .. m - 1 -> X] /\ f[m - 1] \in X /\ step[<<m, f[m - 1]>>] \in X
  <2>1. f \in [0 .. m - 1 -> X] /\ f[m - 1] \in X
    BY <1>3, <1>4 DEF Stepwise
  <2>2. <<m, f[m - 1]>> \in (1 .. N) \X X
    BY <1>2, <1>3, <2>1
  <2> QED
    BY <2>1, <2>2
<1>6. g \in [0 .. m -> X]
  BY <1>3, <1>5
<1>7. g[0] = a
  BY <1>2, <1>3, <1>4 DEF Stepwise
<1>8. ASSUME NEW p \in 1 .. m PROVE g[p] = step[<<p, g[p - 1]>>]
  <2>1. CASE p = m
    <3>1. m \in 0 .. m /\ m - 1 \in 0 .. m /\ m - 1 # m
      BY <1>2, <1>3
    <3>2. g[m] = step[<<m, f[m - 1]>>] /\ g[m - 1] = f[m - 1]
      BY <3>1
    <3> QED
      BY <2>1, <3>2
  <2>2. CASE p # m
    <3>1. p \in 1 .. m - 1 /\ p - 1 \in 0 .. m - 1
      BY <1>3, <2>2
    <3>2. g[p] = f[p] /\ g[p - 1] = f[p - 1]
      BY <1>3, <3>1
    <3> QED
      BY <1>4, <3>1, <3>2 DEF Stepwise
  <2> QED
    BY <2>1, <2>2
<1>9. Stepwise(g, X, a, step, m)
  <2> HIDE DEF g
  <2> QED
    BY <1>6, <1>7, <1>8 DEF Stepwise
<1> QED
  BY <1>1, <1>9

\* x comes before y in a list.
Precedes(s, x, y) == \E q, r \in DOMAIN s : q < r /\ s[q] = x /\ s[r] = y

\* What Only has put together once it has come to position p of s
OnlyUpTo(f, S, X, s, p) ==
    /\ f \in Seq(X)
    /\ \A x \in X : x \in ToSet(f) <=> x \in S /\ \E q \in 1 .. p : s[q] = x
    /\ \A c, d \in DOMAIN f : c < d =>
         \E q, r \in 1 .. p : q < r /\ s[q] = f[c] /\ s[r] = f[d]

\* One more member.
LEMMA OnlyStep ==
    ASSUME NEW S, NEW X, NEW s \in Seq(X), NEW p \in 1 .. Len(s), NEW f,
           OnlyUpTo(f, S, X, s, p - 1)
    PROVE  OnlyUpTo(IF s[p] \in S THEN Append(f, s[p]) ELSE f, S, X, s, p)
<1>0. p \in Nat /\ p >= 1 /\ p - 1 \in Nat /\ s[p] \in X /\ f \in Seq(X) /\ Len(f) \in Nat
  BY DEF OnlyUpTo
<1>1. \A q : q \in 1 .. p <=> q \in 1 .. p - 1 \/ q = p
  BY <1>0
<1>2. CASE s[p] \notin S
  BY <1>0, <1>1, <1>2 DEF OnlyUpTo
<1>3. CASE s[p] \in S
  <2> DEFINE g == Append(f, s[p])
  <2>1. /\ g \in Seq(X) /\ Len(g) = Len(f) + 1 /\ g[Len(f) + 1] = s[p] /\ DOMAIN g = 1 .. Len(f) + 1
        /\ DOMAIN f = 1 .. Len(f) /\ \A c \in 1 .. Len(f) : g[c] = f[c]
    BY <1>0
  <2> HIDE DEF g
  <2>2. \A c : c \in DOMAIN g <=> c \in DOMAIN f \/ c = Len(f) + 1
    BY <1>0, <2>1
  <2>3. \A x : x \in ToSet(g) <=> x \in ToSet(f) \/ x = s[p]
    BY <2>1, <2>2 DEF ToSet
  <2>4. \A x \in X : x \in ToSet(g) <=> x \in S /\ \E q \in 1 .. p : s[q] = x
    BY <1>0, <1>1, <1>3, <2>3 DEF OnlyUpTo
  <2>5. ASSUME NEW c \in DOMAIN g, NEW d \in DOMAIN g, c < d
        PROVE  \E q, r \in 1 .. p : q < r /\ s[q] = g[c] /\ s[r] = g[d]
    <3>1. c \in DOMAIN f /\ g[c] = f[c]
      BY <1>0, <2>1, <2>2, <2>5
    <3>2. CASE d \in DOMAIN f
      <4>1. PICK q \in 1 .. p - 1, r \in 1 .. p - 1 : q < r /\ s[q] = f[c] /\ s[r] = f[d]
        BY <2>5, <3>1, <3>2 DEF OnlyUpTo
      <4> QED
        BY <1>1, <2>1, <3>1, <3>2, <4>1
    <3>3. CASE d \notin DOMAIN f
      <4>1. g[d] = s[p]
        BY <2>1, <2>2, <3>3
      <4>2. f[c] \in X /\ f[c] \in ToSet(f)
        BY <1>0, <3>1 DEF ToSet
      <4>3. PICK q \in 1 .. p - 1 : s[q] = f[c]
        BY <4>2 DEF OnlyUpTo
      <4>4. q \in 1 .. p /\ p \in 1 .. p /\ q < p
        BY <1>0
      <4> QED
        BY <3>1, <4>1, <4>3, <4>4
    <3> QED
      BY <3>2, <3>3
  <2> QED
    BY <1>3, <2>1, <2>4, <2>5 DEF OnlyUpTo, g
<1> QED
  BY <1>2, <1>3

\* Only takes what is in S and keeps the order.
LEMMA OnlyIs ==
    ASSUME NEW S, NEW X, NEW s \in Seq(X)
    PROVE  OnlyUpTo(Only(S, s), S, X, s, Len(s))
<1> DEFINE N == Len(s)
           Def(u) == u = [p \in 0 .. N |-> IF p = 0 THEN <<>>
                            ELSE IF s[p] \in S THEN Append(u[p-1], s[p]) ELSE u[p-1]]
           h == CHOOSE g : Def(g)
           step == [x \in (1 .. N) \X Seq(X) |->
                      IF s[x[1]] \in S THEN Append(x[2], s[x[1]]) ELSE x[2]]
<1>0. N \in Nat
  OBVIOUS
<1>1. Only(S, s) = h[N]
  BY DEF Only
<1>2. step \in [(1 .. N) \X Seq(X) -> Seq(X)]
  <2>1. ASSUME NEW x \in (1 .. N) \X Seq(X)
        PROVE (IF s[x[1]] \in S THEN Append(x[2], s[x[1]]) ELSE x[2]) \in Seq(X)
    <3>1. x[1] \in 1 .. N /\ x[2] \in Seq(X)
      BY <2>1
    <3>2. s[x[1]] \in X
      BY <3>1
    <3> QED
      BY <3>1, <3>2
  <2> QED
    BY <2>1
<1>3. \A p \in 1 .. N : \A y \in Seq(X) :
        step[<<p, y>>] = IF s[p] \in S THEN Append(y, s[p]) ELSE y
  OBVIOUS
<1> HIDE DEF N, step
<1>4. PICK f : Stepwise(f, Seq(X), <<>>, step, N)
  <2>1. <<>> \in Seq(X) /\ N <= N
    BY <1>0
  <2> QED
    BY <1>0, <1>2, <2>1, StepwiseExists
<1>5. f \in [0 .. N -> Seq(X)] /\ f[0] = <<>> /\ \A p \in 1 .. N : f[p] = step[<<p, f[p - 1]>>]
  BY <1>4 DEF Stepwise
<1>6. \A p \in 1 .. N : p - 1 \in 0 .. N
  BY <1>0
<1>7. \A p \in 0 .. N : p # 0 => p \in 1 .. N
  BY <1>0
<1>8. Def(f)
  <2>1. ASSUME NEW p \in 0 .. N, p # 0
        PROVE f[p] = IF s[p] \in S THEN Append(f[p-1], s[p]) ELSE f[p-1]
    BY <1>3, <1>5, <1>6, <1>7, <2>1
  <2> QED
    BY <1>5, <2>1
<1>9. Def(h)
  BY <1>8
<1> HIDE DEF h
<1>10. h[0] = <<>> /\ \A p \in 1 .. N : h[p] = IF s[p] \in S THEN Append(h[p-1], s[p]) ELSE h[p-1]
  <2>1. 0 \in 0 .. N /\ \A p \in 1 .. N : p \in 0 .. N /\ p # 0
    BY <1>0
  <2> QED
    BY <1>9, <2>1
<1> DEFINE Bad == {p \in 0 .. N : ~OnlyUpTo(h[p], S, X, s, p)}
<1>11. CASE Bad = {}
  <2>1. N \in 0 .. N
    BY <1>0
  <2> QED
    BY <1>1, <1>11, <2>1 DEF N
<1>12. CASE Bad # {}
  <2>1. Bad \in SUBSET Nat
    BY <1>0
  <2>2. PICK p \in Bad : \A y \in Bad : p <= y
    <3> HIDE DEF Bad
    <3> QED
      BY <1>12, <2>1, LeastNumber
  <2>3. OnlyUpTo(<<>>, S, X, s, 0)
    BY DEF OnlyUpTo, ToSet
  <2>4. p # 0
    BY <1>10, <2>2, <2>3
  <2>5. p \in 1 .. N /\ p - 1 \in 0 .. N /\ p - 1 < p
    BY <1>0, <2>2, <2>4
  <2>6. OnlyUpTo(h[p - 1], S, X, s, p - 1)
    BY <2>2, <2>5
  <2>7. OnlyUpTo(h[p], S, X, s, p)
    BY <1>10, <2>5, <2>6, OnlyStep DEF N
  <2> QED
    BY <2>2, <2>7
<1> QED
  BY <1>11, <1>12

\* Of a list without repeats Only makes one, of what is in S, in the same order.
LEMMA OnlyKeeps ==
    ASSUME NEW S, NEW X, NEW s \in Seq(X), IsInjective(s)
    PROVE  /\ Only(S, s) \in Seq(X) /\ IsInjective(Only(S, s))
           /\ ToSet(Only(S, s)) = ToSet(s) \intersect S
           /\ \A x, y \in S : Precedes(s, x, y) => Precedes(Only(S, s), x, y)
<1> DEFINE t == Only(S, s)
<1>0. OnlyUpTo(t, S, X, s, Len(s))
  BY OnlyIs
<1> HIDE DEF t
<1>1. t \in Seq(X) /\ DOMAIN t = 1 .. Len(t) /\ Len(t) \in Nat /\ DOMAIN s = 1 .. Len(s)
  BY <1>0 DEF OnlyUpTo
<1>2. \A x \in X : x \in ToSet(t) <=> x \in S /\ \E q \in DOMAIN s : s[q] = x
  BY <1>0, <1>1 DEF OnlyUpTo
<1>3. ToSet(t) \subseteq X /\ ToSet(s) \subseteq X
  BY <1>1 DEF ToSet
<1>4. ToSet(t) = ToSet(s) \intersect S
  <2>1. \A x : x \in ToSet(s) <=> \E q \in DOMAIN s : s[q] = x
    BY DEF ToSet
  <2> QED
    BY <1>2, <1>3, <2>1
<1>5. \A c, d \in DOMAIN t : c < d =>
        \E q, r \in DOMAIN s : q < r /\ s[q] = t[c] /\ s[r] = t[d]
  <2>1. \A c, d \in DOMAIN t : c < d => \E q, r \in 1 .. Len(s) : q < r /\ s[q] = t[c] /\ s[r] = t[d]
    BY <1>0 DEF OnlyUpTo
  <2>2. \A q : q \in 1 .. Len(s) => q \in DOMAIN s
    BY <1>1
  <2> SUFFICES ASSUME NEW c \in DOMAIN t, NEW d \in DOMAIN t, c < d
               PROVE  \E q, r \in DOMAIN s : q < r /\ s[q] = t[c] /\ s[r] = t[d]
    OBVIOUS
  <2>3. PICK q \in 1 .. Len(s), r \in 1 .. Len(s) : q < r /\ s[q] = t[c] /\ s[r] = t[d]
    BY <2>1
  <2>4. q \in DOMAIN s /\ r \in DOMAIN s
    BY <2>2
  <2> QED
    BY ONLY <2>3, <2>4
<1>6. ASSUME NEW c \in DOMAIN t, NEW d \in DOMAIN t, c < d PROVE t[c] # t[d]
  <2>1. PICK q \in DOMAIN s, r \in DOMAIN s : q < r /\ s[q] = t[c] /\ s[r] = t[d]
    BY <1>5, <1>6
  <2>2. q # r
    BY <1>1, <2>1
  <2> QED
    BY <2>1, <2>2 DEF IsInjective
<1>7. IsInjective(t)
  <2>1. ASSUME NEW c \in DOMAIN t, NEW d \in DOMAIN t, t[c] = t[d] PROVE c = d
    <3>1. ~(c < d) /\ ~(d < c)
      BY <1>6, <2>1
    <3> QED
      BY <1>1, <3>1
  <2> QED
    BY <2>1 DEF IsInjective
<1>8. ASSUME NEW x \in S, NEW y \in S, Precedes(s, x, y) PROVE Precedes(t, x, y)
  <2>1. PICK q \in DOMAIN s, r \in DOMAIN s : q < r /\ s[q] = x /\ s[r] = y
    BY <1>8 DEF Precedes
  <2>2. x \in ToSet(t) /\ y \in ToSet(t)
    BY <1>4, <2>1 DEF ToSet
  <2>3. PICK c \in DOMAIN t, d \in DOMAIN t : t[c] = x /\ t[d] = y
    BY <2>2 DEF ToSet
  <2>4. CASE c < d
    BY <2>3, <2>4 DEF Precedes
  <2>5. CASE ~(c < d)
    <3>1. x # y
      BY <1>1, <2>1 DEF IsInjective
    <3>2. d < c
      BY <1>1, <2>3, <2>5, <3>1
    <3>3. PICK a \in DOMAIN s, b \in DOMAIN s : a < b /\ s[a] = y /\ s[b] = x
      BY <1>5, <2>3, <3>2
    <3>4. a = r /\ b = q
      BY <2>1, <3>3 DEF IsInjective
    <3> QED
      BY <1>1, <2>1, <3>3, <3>4
  <2> QED
    BY <2>4, <2>5
<1> QED
  BY <1>1, <1>4, <1>7, <1>8 DEF t

\* One list after another.
LEMMA Joined ==
    ASSUME NEW X, NEW a \in Seq(X), NEW b \in Seq(X)
    PROVE  /\ a \o b \in Seq(X) /\ ToSet(a \o b) = ToSet(a) \union ToSet(b)
           /\ IsInjective(a) /\ IsInjective(b) /\ ToSet(a) \intersect ToSet(b) = {}
                => IsInjective(a \o b)
           /\ \A x, y : Precedes(a, x, y) \/ Precedes(b, x, y) => Precedes(a \o b, x, y)
           /\ \A x \in ToSet(a), y \in ToSet(b) : Precedes(a \o b, x, y)
<1> DEFINE t == a \o b
<1>1. /\ t \in Seq(X) /\ Len(t) = Len(a) + Len(b) /\ Len(a) \in Nat /\ Len(b) \in Nat
      /\ DOMAIN t = 1 .. Len(a) + Len(b) /\ DOMAIN a = 1 .. Len(a) /\ DOMAIN b = 1 .. Len(b)
      /\ \A p \in 1 .. Len(a) : t[p] = a[p]
      /\ \A p \in 1 .. Len(b) : t[p + Len(a)] = b[p]
  OBVIOUS
<1> HIDE DEF t
<1>2. ASSUME NEW p \in DOMAIN b PROVE p + Len(a) \in DOMAIN t /\ t[p + Len(a)] = b[p]
  BY <1>1
<1>3. ASSUME NEW p \in DOMAIN t
      PROVE  \/ p \in DOMAIN a /\ t[p] = a[p]
             \/ p > Len(a) /\ p - Len(a) \in DOMAIN b /\ t[p] = b[p - Len(a)]
  <2>1. CASE p <= Len(a)
    BY <1>1, <2>1
  <2>2. CASE p > Len(a)
    <3>1. p - Len(a) \in DOMAIN b /\ (p - Len(a)) + Len(a) = p
      BY <1>1, <2>2
    <3> QED
      BY <1>2, <2>2, <3>1
  <2> QED
    BY <1>1, <2>1, <2>2
<1>4. \A p \in DOMAIN a : p \in DOMAIN t /\ t[p] = a[p]
  BY <1>1
<1>5. ToSet(t) = ToSet(a) \union ToSet(b)
  <2>1. ASSUME NEW x \in ToSet(t) PROVE x \in ToSet(a) \union ToSet(b)
    BY <1>3, <2>1 DEF ToSet
  <2>2. ASSUME NEW x \in ToSet(a) PROVE x \in ToSet(t)
    BY <1>4, <2>2 DEF ToSet
  <2>3. ASSUME NEW x \in ToSet(b) PROVE x \in ToSet(t)
    <3>1. PICK p \in DOMAIN b : b[p] = x
      BY <2>3 DEF ToSet
    <3>2. p + Len(a) \in DOMAIN t /\ t[p + Len(a)] = x
      BY <1>2, <3>1
    <3> QED
      BY <3>2 DEF ToSet
  <2> QED
    BY <2>1, <2>2, <2>3
<1>6. ASSUME IsInjective(a), IsInjective(b), ToSet(a) \intersect ToSet(b) = {}
      PROVE  IsInjective(t)
  <2> SUFFICES ASSUME NEW p \in DOMAIN t, NEW q \in DOMAIN t, t[p] = t[q] PROVE p = q
    BY DEF IsInjective
  <2>1. \A c \in DOMAIN a, d \in DOMAIN b : a[c] # b[d]
    BY <1>6 DEF ToSet
  <2>2. CASE p \in DOMAIN a /\ t[p] = a[p]
    <3>1. q \in DOMAIN a /\ t[q] = a[q]
      BY <1>3, <2>1, <2>2
    <3> QED
      BY <1>6, <2>2, <3>1 DEF IsInjective
  <2>3. CASE p > Len(a) /\ p - Len(a) \in DOMAIN b /\ t[p] = b[p - Len(a)]
    <3>1. q > Len(a) /\ q - Len(a) \in DOMAIN b /\ t[q] = b[q - Len(a)]
      BY <1>3, <2>1, <2>3
    <3>2. p - Len(a) = q - Len(a)
      BY <1>6, <2>3, <3>1 DEF IsInjective
    <3> QED
      BY <1>1, <3>2
  <2> QED
    BY <1>3, <2>2, <2>3
<1>7. ASSUME NEW x, NEW y, Precedes(a, x, y) PROVE Precedes(t, x, y)
  BY <1>4, <1>7 DEF Precedes
<1>8. ASSUME NEW x, NEW y, Precedes(b, x, y) PROVE Precedes(t, x, y)
  <2>1. PICK q \in DOMAIN b, r \in DOMAIN b : q < r /\ b[q] = x /\ b[r] = y
    BY <1>8 DEF Precedes
  <2>2. q + Len(a) < r + Len(a)
    BY <1>1, <2>1
  <2> QED
    BY <1>2, <2>1, <2>2 DEF Precedes
<1>9. ASSUME NEW x \in ToSet(a), NEW y \in ToSet(b) PROVE Precedes(t, x, y)
  <2>1. PICK q \in DOMAIN a, r \in DOMAIN b : a[q] = x /\ b[r] = y
    BY DEF ToSet
  <2>2. q < r + Len(a)
    BY <1>1
  <2> QED
    BY <1>2, <1>4, <2>1, <2>2 DEF Precedes
<1> QED
  BY <1>1, <1>5, <1>6, <1>7, <1>8, <1>9 DEF t

\* A list read backwards has the same members.
LEMMA Reversed ==
    ASSUME NEW X, NEW s \in Seq(X)
    PROVE  /\ Reverse(s) \in Seq(X) /\ ToSet(Reverse(s)) = ToSet(s)
           /\ IsInjective(s) => IsInjective(Reverse(s))
<1> DEFINE t == Reverse(s)
           n == Len(s)
           back(p) == (n - p) + 1
<1>1. n \in Nat /\ DOMAIN s = 1 .. n
  OBVIOUS
<1>2. t = [p \in 1 .. n |-> s[back(p)]]
  BY DEF Reverse
<1> HIDE DEF n, t
<1>3. \A p \in 1 .. n : back(p) \in 1 .. n /\ back(back(p)) = p
  BY <1>1
<1>4. \A p, q \in 1 .. n : back(p) = back(q) => p = q
  BY <1>1
<1> HIDE DEF back
<1>5. t \in [1 .. n -> X]
  <2>1. \A p \in 1 .. n : s[p] \in X
    BY <1>1
  <2> QED
    BY <1>2, <1>3, <2>1
<1>6. t \in Seq(X) /\ DOMAIN t = 1 .. n
  BY <1>1, <1>5
<1>7. ToSet(t) = ToSet(s)
  <2>1. ASSUME NEW x \in ToSet(t) PROVE x \in ToSet(s)
    BY <1>1, <1>2, <1>3, <1>6 DEF ToSet
  <2>2. ASSUME NEW x \in ToSet(s) PROVE x \in ToSet(t)
    <3>1. PICK p \in 1 .. n : s[p] = x
      BY <1>1 DEF ToSet
    <3>2. back(p) \in DOMAIN t /\ t[back(p)] = x
      BY <1>2, <1>3, <1>6, <3>1
    <3> QED
      BY <3>2 DEF ToSet
  <2> QED
    BY <2>1, <2>2
<1>8. ASSUME IsInjective(s) PROVE IsInjective(t)
  BY <1>1, <1>2, <1>3, <1>4, <1>6, <1>8 DEF IsInjective
<1> QED
  BY <1>6, <1>7, <1>8 DEF t

\* New names in place of the old ones.
LEMMA Relabelled ==
    ASSUME NEW X, NEW s \in Seq(X), NEW name \in [X -> X], IsInjective(s),
           \A x, y \in ToSet(s) : name[x] = name[y] => x = y,
           NEW t \in [DOMAIN s -> X], \A p \in DOMAIN s : t[p] = name[s[p]]
    PROVE  /\ t \in Seq(X) /\ IsInjective(t) /\ ToSet(t) = {name[x] : x \in ToSet(s)}
           /\ \A x, y : Precedes(s, x, y) => Precedes(t, name[x], name[y])
<1>1. DOMAIN s = 1 .. Len(s) /\ Len(s) \in Nat /\ \A p \in DOMAIN s : s[p] \in X /\ s[p] \in ToSet(s)
  BY DEF ToSet
<1>2. t \in [1 .. Len(s) -> X]
  BY <1>1
<1>3. t \in Seq(X) /\ DOMAIN t = DOMAIN s
  BY <1>1, <1>2
<1>4. IsInjective(t)
  BY <1>1, <1>3 DEF IsInjective
<1>5. ToSet(t) = {name[x] : x \in ToSet(s)}
  BY <1>3 DEF ToSet
<1>6. ASSUME NEW x, NEW y, Precedes(s, x, y) PROVE Precedes(t, name[x], name[y])
  BY <1>3, <1>6 DEF Precedes
<1> QED
  BY <1>3, <1>4, <1>5, <1>6

\* A list is what comes before one of its places and what comes from there on.
LEMMA CutAt ==
    ASSUME NEW X, NEW s \in Seq(X), NEW at \in DOMAIN s
    PROVE  \E a, b \in Seq(X) :
             /\ a = SubSeq(s, 1, at - 1) /\ b = SubSeq(s, at, Len(s)) /\ s = a \o b
             /\ s[at] \in ToSet(b) /\ \A y : Precedes(s, s[at], y) => y \in ToSet(b) \/ ~IsInjective(s)
<1> DEFINE n == Len(s)
           a == SubSeq(s, 1, at - 1)
           b == SubSeq(s, at, Len(s))
<1>0. a = SubSeq(s, 1, at - 1) /\ b = SubSeq(s, at, Len(s))
  OBVIOUS
<1> HIDE DEF a, b
<1>1. n \in Nat /\ at \in 1 .. n /\ DOMAIN s = 1 .. n /\ at - 1 \in 0 .. n
  OBVIOUS
<1> HIDE DEF n
<1>2. \A p \in 1 .. n : s[p] \in X
  BY <1>1
<1>3. a = [p \in 1 .. at - 1 |-> s[p]] /\ b = [p \in 1 .. (n - at) + 1 |-> s[(p + at) - 1]]
  <2>1. Len(s) \in Nat /\ at \in 1 .. Len(s) /\ s \in Seq(X)
    BY <1>1 DEF n
  <2> QED
    BY ONLY <1>0, <2>1 DEF n
<1>4. a \in Seq(X) /\ Len(a) = at - 1
  <2> DEFINE l == at - 1
  <2>1. l \in Nat /\ \A p \in 1 .. l : p \in 1 .. n
    BY <1>1
  <2> HIDE DEF l
  <2>2. a \in [1 .. l -> X]
    BY <1>2, <1>3, <2>1 DEF l
  <2>3. a \in Seq(X) /\ Len(a) = l
    BY ONLY <2>1, <2>2
  <2> QED
    BY <2>3 DEF l
<1>5. b \in Seq(X) /\ Len(b) = (n - at) + 1
  <2> DEFINE l == (n - at) + 1
  <2>1. l \in Nat /\ \A p \in 1 .. l : (p + at) - 1 \in 1 .. n
    BY <1>1
  <2> HIDE DEF l
  <2>2. b \in [1 .. l -> X]
    BY <1>2, <1>3, <2>1 DEF l
  <2>3. b \in Seq(X) /\ Len(b) = l
    BY ONLY <2>1, <2>2
  <2> QED
    BY <2>3 DEF l
<1>6. s = a \o b
  <2>1. /\ a \o b \in Seq(X) /\ Len(a \o b) = n
        /\ \A p \in 1 .. n : (a \o b)[p] = IF p <= at - 1 THEN a[p] ELSE b[p - (at - 1)]
    <3>1. Len(a) + Len(b) = n /\ Len(a) = at - 1
      BY <1>1, <1>4, <1>5
    <3>2. a \in Seq(X) /\ b \in Seq(X)
      BY <1>4, <1>5
    <3>3. /\ a \o b \in Seq(X) /\ Len(a \o b) = Len(a) + Len(b)
          /\ \A p \in 1 .. Len(a) + Len(b) :
               (a \o b)[p] = IF p <= Len(a) THEN a[p] ELSE b[p - Len(a)]
      BY ONLY <3>2, ConcatProperties
    <3> QED
      BY <3>1, <3>3
  <2>2. ASSUME NEW p \in 1 .. n PROVE (a \o b)[p] = s[p]
    <3>1. CASE p <= at - 1
      <4>1. p \in 1 .. at - 1
        BY <1>1, <3>1
      <4> QED
        BY <1>3, <2>1, <3>1, <4>1
    <3>2. CASE ~(p <= at - 1)
      <4>1. p - (at - 1) \in 1 .. (n - at) + 1 /\ ((p - (at - 1)) + at) - 1 = p
        BY <1>1, <3>2
      <4> QED
        BY <1>3, <2>1, <3>2, <4>1
    <3> QED
      BY <3>1, <3>2
  <2> QED
    BY <2>1, <2>2, SeqEqual DEF n
<1>7. \A p \in at .. n : s[p] \in ToSet(b)
  <2>1. ASSUME NEW p \in at .. n PROVE s[p] \in ToSet(b)
    <3>1. (p - at) + 1 \in 1 .. (n - at) + 1 /\ (((p - at) + 1) + at) - 1 = p
      BY <1>1
    <3>2. (p - at) + 1 \in DOMAIN b /\ b[(p - at) + 1] = s[p]
      BY <1>3, <3>1
    <3> QED
      BY <3>2 DEF ToSet
  <2> QED
    BY <2>1
<1>8. ASSUME NEW y, Precedes(s, s[at], y), IsInjective(s) PROVE y \in ToSet(b)
  <2>1. PICK q \in DOMAIN s, r \in DOMAIN s : q < r /\ s[q] = s[at] /\ s[r] = y
    BY <1>8 DEF Precedes
  <2>2. q = at
    BY <1>1, <1>8, <2>1 DEF IsInjective
  <2>3. r \in at .. n
    BY <1>1, <2>1, <2>2
  <2> QED
    BY <1>7, <2>1, <2>3
<1>9. at \in at .. n
  BY <1>1
<1> QED
  BY <1>0, <1>4, <1>5, <1>6, <1>7, <1>8, <1>9

\* Who precedes whom in a list made of two
LEMMA JoinedSplit ==
    ASSUME NEW X, NEW a \in Seq(X), NEW b \in Seq(X), NEW x, NEW y, Precedes(a \o b, x, y)
    PROVE  Precedes(a, x, y) \/ Precedes(b, x, y) \/ (x \in ToSet(a) /\ y \in ToSet(b))
<1> DEFINE t == a \o b
<1>1. /\ t \in Seq(X) /\ Len(a) \in Nat /\ Len(b) \in Nat
      /\ DOMAIN t = 1 .. Len(a) + Len(b) /\ DOMAIN a = 1 .. Len(a) /\ DOMAIN b = 1 .. Len(b)
      /\ \A p \in 1 .. Len(a) + Len(b) : t[p] = IF p <= Len(a) THEN a[p] ELSE b[p - Len(a)]
  OBVIOUS
<1> HIDE DEF t
<1>2. PICK q \in DOMAIN t, r \in DOMAIN t : q < r /\ t[q] = x /\ t[r] = y
  BY DEF Precedes, t
<1>3. CASE r <= Len(a)
  <2>1. q \in DOMAIN a /\ r \in DOMAIN a /\ a[q] = x /\ a[r] = y
    BY <1>1, <1>2, <1>3
  <2> QED
    BY <1>2, <2>1 DEF Precedes
<1>4. CASE r > Len(a)
  <2>1. r - Len(a) \in DOMAIN b /\ b[r - Len(a)] = y
    BY <1>1, <1>2, <1>4
  <2>2. CASE q <= Len(a)
    <3>1. q \in DOMAIN a /\ a[q] = x
      BY <1>1, <1>2, <2>2
    <3> QED
      BY <2>1, <3>1 DEF ToSet
  <2>3. CASE q > Len(a)
    <3>1. q - Len(a) \in DOMAIN b /\ b[q - Len(a)] = x /\ q - Len(a) < r - Len(a)
      BY <1>1, <1>2, <2>3
    <3> QED
      BY <2>1, <3>1 DEF Precedes
  <2> QED
    BY <1>1, <1>2, <2>2, <2>3
<1> QED
  BY <1>1, <1>2, <1>3, <1>4

\* In a list without repeats, precedence is an order on the members.
LEMMA PrecedesOrder ==
    ASSUME NEW X, NEW s \in Seq(X), IsInjective(s)
    PROVE  /\ \A x, y : Precedes(s, x, y) => x \in ToSet(s) /\ y \in ToSet(s) /\ x # y
           /\ \A x, y, z : Precedes(s, x, y) /\ Precedes(s, y, z) => Precedes(s, x, z)
<1>1. DOMAIN s = 1 .. Len(s) /\ Len(s) \in Nat
  OBVIOUS
<1>2. ASSUME NEW x, NEW y, Precedes(s, x, y)
      PROVE x \in ToSet(s) /\ y \in ToSet(s) /\ x # y
  <2>1. PICK q \in DOMAIN s, r \in DOMAIN s : q < r /\ s[q] = x /\ s[r] = y
    BY <1>2 DEF Precedes
  <2>2. q # r
    BY <1>1, <2>1
  <2> QED
    BY <2>1, <2>2 DEF ToSet, IsInjective
<1>3. ASSUME NEW x, NEW y, NEW z, Precedes(s, x, y), Precedes(s, y, z)
      PROVE Precedes(s, x, z)
  <2>1. PICK q \in DOMAIN s, r \in DOMAIN s : q < r /\ s[q] = x /\ s[r] = y
    BY <1>3 DEF Precedes
  <2>2. PICK u \in DOMAIN s, v \in DOMAIN s : u < v /\ s[u] = y /\ s[v] = z
    BY <1>3 DEF Precedes
  <2>3. r = u
    BY <2>1, <2>2 DEF IsInjective
  <2>4. q < v
    BY <1>1, <2>1, <2>2, <2>3
  <2> QED
    BY <2>1, <2>2, <2>4 DEF Precedes
<1> QED
  BY <1>2, <1>3

\* t is a list s of members of X with c taken out and put just before a.
MovesAhead(X, s, a, c, rest, at, t) ==
    /\ s \in Seq(X) /\ IsInjective(s) /\ Precedes(s, a, c)
    /\ rest = Only(X \ {c}, s) /\ at = (CHOOSE p \in DOMAIN rest : rest[p] = a)
    /\ t = SubSeq(rest, 1, at - 1) \o <<c>> \o SubSeq(rest, at, Len(rest))

\* t has the members of s and their order, but for c, which may come earlier.
MovedAhead(X, s, c, t) ==
    /\ t \in Seq(X) /\ IsInjective(t) /\ ToSet(t) = ToSet(s)
    /\ \A x, y : Precedes(s, x, y) /\ y # c => Precedes(t, x, y)

\* Taking c out of a list and putting it just before a, which came before it,
\* puts c earlier and changes no other order.
LEMMA ToFront ==
    ASSUME NEW X, NEW s, NEW a, NEW c, NEW rest, NEW at, NEW t,
           MovesAhead(X, s, a, c, rest, at, t)
    PROVE  MovedAhead(X, s, c, t)
<1>0. s \in Seq(X) /\ IsInjective(s) /\ Precedes(s, a, c) /\ rest = Only(X \ {c}, s)
      /\ at = (CHOOSE p \in DOMAIN rest : rest[p] = a)
      /\ t = SubSeq(rest, 1, at - 1) \o <<c>> \o SubSeq(rest, at, Len(rest))
  BY DEF MovesAhead
<1> USE <1>0
<1>1. a \in ToSet(s) /\ c \in ToSet(s) /\ a # c
  BY ONLY <1>0, PrecedesOrder
<1>2. ToSet(s) \subseteq X
  BY DEF ToSet
<1>3. /\ rest \in Seq(X) /\ IsInjective(rest) /\ ToSet(rest) = ToSet(s) \intersect (X \ {c})
      /\ \A x, y \in X \ {c} : Precedes(s, x, y) => Precedes(rest, x, y)
  BY ONLY <1>0, OnlyKeeps
<1>4. a \in ToSet(rest)
  BY <1>1, <1>2, <1>3
<1>5. at \in DOMAIN rest /\ rest[at] = a
  <2>1. \E p \in DOMAIN rest : rest[p] = a
    BY <1>4 DEF ToSet
  <2> QED
    BY ONLY <1>0, <2>1
<1> DEFINE u == SubSeq(rest, 1, at - 1)
           v == SubSeq(rest, at, Len(rest))
           w == u \o <<c>>
<1>6. /\ u \in Seq(X) /\ v \in Seq(X) /\ rest = u \o v
      /\ a \in ToSet(v) /\ \A y : Precedes(rest, a, y) => y \in ToSet(v)
  <2>1. PICK y \in Seq(X), z \in Seq(X) :
          /\ y = SubSeq(rest, 1, at - 1) /\ z = SubSeq(rest, at, Len(rest)) /\ rest = y \o z
          /\ rest[at] \in ToSet(z)
          /\ \A x : Precedes(rest, rest[at], x) => x \in ToSet(z) \/ ~IsInjective(rest)
    BY ONLY <1>3, <1>5, CutAt, Zenon
  <2>2. y = u /\ z = v
    BY <2>1
  <2> HIDE DEF u, v
  <2> QED
    BY ONLY <1>3, <1>5, <2>1, <2>2
<1>7. t = w \o v
  BY <1>0, Zenon
<1> HIDE DEF u, v, w
<1>8. <<c>> \in Seq(X) /\ ToSet(<<c>>) = {c} /\ IsInjective(<<c>>)
  BY <1>1, <1>2 DEF ToSet, IsInjective
<1>9. /\ ToSet(rest) = ToSet(u) \union ToSet(v)
      /\ \A x \in ToSet(u), y \in ToSet(v) : Precedes(rest, x, y)
      /\ \A x, y : Precedes(u, x, y) \/ Precedes(v, x, y) => Precedes(rest, x, y)
  BY ONLY <1>6, Joined
<1>10. ToSet(u) \intersect ToSet(v) = {}
  BY ONLY <1>3, <1>9, PrecedesOrder
<1>11. IsInjective(u) /\ IsInjective(v)
  <2>1. \A z \in {u, v} : DOMAIN z = 1 .. Len(z) /\ Len(z) \in Nat
    BY <1>6
  <2>2. ASSUME NEW z \in {u, v}, NEW p \in DOMAIN z, NEW q \in DOMAIN z, p < q PROVE z[p] # z[q]
    <3>1. Precedes(z, z[p], z[q])
      BY <2>2 DEF Precedes
    <3> QED
      BY ONLY <1>3, <1>9, <2>2, <3>1, PrecedesOrder
  <2>3. ASSUME NEW z \in {u, v}, NEW p \in DOMAIN z, NEW q \in DOMAIN z, z[p] = z[q] PROVE p = q
    <3>1. ~(p < q) /\ ~(q < p)
      BY ONLY <2>2, <2>3
    <3> QED
      BY ONLY <2>1, <2>3, <3>1
  <2> QED
    BY <2>3 DEF IsInjective
<1>12. /\ w \in Seq(X) /\ ToSet(w) = ToSet(u) \union {c}
       /\ \A x, y : Precedes(u, x, y) => Precedes(w, x, y)
       /\ IsInjective(w)
  <2>1. ToSet(u) \intersect {c} = {}
    BY <1>3, <1>9
  <2> DEFINE e == <<c>>
  <2> HIDE DEF e
  <2>2. e \in Seq(X) /\ ToSet(e) = {c} /\ IsInjective(e) /\ w = u \o e
    BY <1>8 DEF e, w
  <2> QED
    <3>1. u \in Seq(X)
      BY <1>6
    <3>2. /\ w \in Seq(X) /\ ToSet(w) = ToSet(u) \union ToSet(e)
          /\ IsInjective(u) /\ IsInjective(e) /\ ToSet(u) \intersect ToSet(e) = {} => IsInjective(w)
          /\ \A x, y : Precedes(u, x, y) \/ Precedes(e, x, y) => Precedes(w, x, y)
      BY ONLY <3>1, <2>2, Joined
    <3> QED
      BY ONLY <1>11, <2>1, <2>2, <3>2
<1>13. /\ t \in Seq(X) /\ ToSet(t) = ToSet(w) \union ToSet(v)
       /\ IsInjective(w) /\ IsInjective(v) /\ ToSet(w) \intersect ToSet(v) = {} => IsInjective(t)
       /\ \A x, y : Precedes(w, x, y) \/ Precedes(v, x, y) => Precedes(t, x, y)
       /\ \A x \in ToSet(w), y \in ToSet(v) : Precedes(t, x, y)
  BY ONLY <1>6, <1>7, <1>12, Joined
<1>14. IsInjective(t) /\ ToSet(t) = ToSet(s)
  BY <1>1, <1>2, <1>3, <1>9, <1>10, <1>11, <1>12, <1>13
<1>15. ASSUME NEW x, NEW y, Precedes(s, x, y), y # c PROVE Precedes(t, x, y)
  <2>1. x \in X /\ y \in X
    BY <1>2, <1>15, PrecedesOrder
  <2>2. CASE x # c
    <3>1. Precedes(rest, x, y)
      BY <1>3, <1>15, <2>1, <2>2
    <3>2. Precedes(u \o v, x, y)
      BY <1>6, <3>1
    <3>3. Precedes(u, x, y) \/ Precedes(v, x, y) \/ (x \in ToSet(u) /\ y \in ToSet(v))
      BY <1>6, <3>2, JoinedSplit
    <3> QED
      BY <1>12, <1>13, <3>3
  <2>3. CASE x = c
    <3>1. Precedes(s, a, y)
      BY <1>15, <2>3, PrecedesOrder
    <3>2. Precedes(rest, a, y)
      BY <1>1, <1>2, <1>3, <1>15, <2>1, <3>1
    <3> QED
      BY <1>6, <1>12, <1>13, <2>3, <3>2
  <2> QED
    BY <2>2, <2>3
<1> QED
  BY <1>13, <1>14, <1>15 DEF MovedAhead

-----------------------------------------------------------------------------
(* Graphs in order *)

\* A graph the folder may be handed or hand on.  Every name is defined once, and
\* what a node reads comes before it or, where `late` allows it, from a Constant
\* anywhere; the fresh names it uses are among those given out.
Sane(g, late, given, bad) ==
    /\ IsInjective(g.nodes) /\ ToSet(g.nodes) \intersect g.inits = {}
    /\ (ToSet(g.nodes) \union g.inits) \intersect Fresh \subseteq given
    /\ \A n \in ToSet(g.nodes) : g.kind[n] \in Constants => g.inputs[n] = {}
    /\ \A n \in ToSet(g.nodes) : \A x \in g.inputs[n] :
         \/ x \in GraphInputs \union g.inits \/ Precedes(g.nodes, x, n)
         \/ late /\ x \in ToSet(g.nodes) /\ g.kind[x] = "constant"
    /\ GraphOutputs \subseteq GraphInputs \union g.inits \union ToSet(g.nodes)
    /\ \A n \in bad : g.kind[n] # "transient"

\* The parts of a graph.
LEMMA GraphFields ==
    ASSUME NEW g \in Graphs
    PROVE  /\ g = [nodes |-> g.nodes, kind |-> g.kind, inputs |-> g.inputs, inits |-> g.inits]
           /\ g.nodes \in Seq(Nodes) /\ g.kind \in [Nodes -> Kinds]
           /\ g.inputs \in [Nodes -> SUBSET Names] /\ g.inits \in SUBSET Names
           /\ ToSet(g.nodes) \subseteq Nodes
BY DEF Graphs, ToSet

\* A node list in which a Constant moved ahead is as good.
LEMMA SaneMoved ==
    ASSUME NEW g \in Graphs, NEW h \in Graphs, NEW given, NEW bad, Sane(g, FALSE, given, bad),
           NEW c \in ToSet(g.nodes), g.kind[c] \in Constants, MovedAhead(Nodes, g.nodes, c, h.nodes),
           h.kind = g.kind, h.inputs = g.inputs, h.inits = g.inits
    PROVE  Sane(h, FALSE, given, bad)
<1> DEFINE l == h.nodes
<1>1. /\ IsInjective(l) /\ ToSet(l) = ToSet(g.nodes)
      /\ \A x, y : Precedes(g.nodes, x, y) /\ y # c => Precedes(l, x, y)
  BY DEF MovedAhead
<1>2. \A n \in ToSet(h.nodes) : \A x \in h.inputs[n] :
         x \in GraphInputs \union h.inits \/ Precedes(h.nodes, x, n)
  <2> SUFFICES ASSUME NEW n \in ToSet(g.nodes), NEW x \in g.inputs[n]
               PROVE  x \in GraphInputs \union g.inits \/ Precedes(l, x, n)
    BY <1>1
  <2>1. n # c
    BY DEF Sane
  <2> QED
    BY <1>1, <2>1 DEF Sane
<1> QED
  BY <1>1, <1>2 DEF Sane

\* l is s with ops taken out of it, those in imp put in front, and those in kept
\* left where they were under a new name.
Spliced(l, s, ops, imp, kept, name) ==
    /\ l \in Seq(Nodes) /\ IsInjective(l)
    /\ ToSet(l) = (ops \intersect imp) \union (ToSet(s) \ ops) \union {name[x] : x \in kept}
    /\ \A x \in ops \intersect imp : \A y \in ToSet(l) \ (ops \intersect imp) : Precedes(l, x, y)
    /\ \A x, y : Precedes(s, x, y) /\ x \notin ops /\ y \notin ops => Precedes(l, x, y)
    /\ \A x, y : Precedes(s, x, y) /\ x \notin ops /\ y \in kept => Precedes(l, x, name[y])

\* What a Splice starts from, and what it leaves of the list, renamed
SplicesFrom(s, cn, ops, kept, free, name, stay, renamed) ==
    /\ s \in Seq(Nodes) /\ IsInjective(s) /\ cn \in Seq(Nodes) /\ IsInjective(cn)
    /\ ops \subseteq ToSet(s) /\ ops \subseteq ToSet(cn) /\ kept \in SUBSET ops
    /\ free \intersect ToSet(s) = {} /\ free \subseteq Nodes
    /\ name \in [kept -> free] /\ IsInjective(name)
    /\ stay = Only(Nodes \ (ops \ kept), s)
    /\ renamed = [p \in DOMAIN stay |-> IF stay[p] \in kept THEN name[stay[p]] ELSE stay[p]]

\* That is what a Splice does to the node list.
LEMMA SpliceList ==
    ASSUME NEW s, NEW cn, NEW ops, NEW imp, NEW kept, NEW free, NEW name, NEW stay, NEW renamed,
           SplicesFrom(s, cn, ops, kept, free, name, stay, renamed),
           NEW l, l = Reverse(Only(ops \intersect imp, cn)) \o renamed
    PROVE  Spliced(l, s, ops, imp, kept, name)
<1>0. /\ s \in Seq(Nodes) /\ IsInjective(s) /\ cn \in Seq(Nodes) /\ IsInjective(cn)
      /\ ops \subseteq ToSet(s) /\ ops \subseteq ToSet(cn) /\ kept \in SUBSET ops
      /\ free \intersect ToSet(s) = {} /\ free \subseteq Nodes
      /\ name \in [kept -> free] /\ IsInjective(name)
      /\ stay = Only(Nodes \ (ops \ kept), s)
      /\ renamed = [p \in DOMAIN stay |-> IF stay[p] \in kept THEN name[stay[p]] ELSE stay[p]]
  BY DEF SplicesFrom
<1>1. s \in Seq(Nodes) /\ IsInjective(s) /\ stay = Only(Nodes \ (ops \ kept), s)
  BY <1>0
<1> USE <1>0
<1>2. /\ stay \in Seq(Nodes) /\ IsInjective(stay)
      /\ ToSet(stay) = ToSet(s) \intersect (Nodes \ (ops \ kept))
      /\ \A x, y \in Nodes \ (ops \ kept) : Precedes(s, x, y) => Precedes(stay, x, y)
  BY ONLY <1>1, OnlyKeeps
<1> DEFINE nm == [x \in Nodes |-> IF x \in kept THEN name[x] ELSE x]
           o == Only(ops \intersect imp, cn)
           added == Reverse(o)
<1>3. nm \in [Nodes -> Nodes] /\ \A x \in Nodes : nm[x] = IF x \in kept THEN name[x] ELSE x
  OBVIOUS
<1>4. renamed \in [DOMAIN stay -> Nodes] /\ \A p \in DOMAIN stay : renamed[p] = nm[stay[p]]
  <2>1. \A p \in DOMAIN stay : stay[p] \in Nodes
    BY <1>2
  <2> QED
    BY <1>3, <2>1
<1>5. ToSet(s) \subseteq Nodes /\ ToSet(cn) \subseteq Nodes /\ ToSet(stay) = (ToSet(s) \ ops) \union kept
  <2>1. ToSet(s) \subseteq Nodes /\ ToSet(cn) \subseteq Nodes
    BY DEF ToSet
  <2> QED
    BY <1>2, <2>1
<1>6. \A x \in kept, y \in ToSet(s) : name[x] \in free /\ name[x] # y
  OBVIOUS
<1>7. \A x, y \in kept : name[x] = name[y] => x = y
  BY DEF IsInjective
<1>8. \A x, y \in ToSet(stay) : nm[x] = nm[y] => x = y
  BY <1>3, <1>5, <1>6, <1>7
<1> HIDE DEF nm, o, added
<1>9. /\ renamed \in Seq(Nodes) /\ IsInjective(renamed) /\ ToSet(renamed) = {nm[x] : x \in ToSet(stay)}
      /\ \A x, y : Precedes(stay, x, y) => Precedes(renamed, nm[x], nm[y])
  BY ONLY <1>2, <1>3, <1>4, <1>8, Relabelled
<1>10. ToSet(renamed) = (ToSet(s) \ ops) \union {name[x] : x \in kept}
  <2>1. ToSet(renamed) = {nm[x] : x \in (ToSet(s) \ ops) \union kept}
    BY <1>5, <1>9
  <2>2. \A x \in kept : x \in Nodes /\ nm[x] = name[x]
    BY <1>3, <1>5
  <2>3. \A x \in ToSet(s) \ ops : nm[x] = x
    BY <1>3, <1>5
  <2>4. ASSUME NEW z \in ToSet(renamed) PROVE z \in (ToSet(s) \ ops) \union {name[x] : x \in kept}
    <3>1. PICK x \in (ToSet(s) \ ops) \union kept : z = nm[x]
      BY <2>1, <2>4
    <3> QED
      BY <2>2, <2>3, <3>1
  <2>5. ASSUME NEW z \in ToSet(s) \ ops PROVE z \in ToSet(renamed)
    <3>1. nm[z] = z
      BY <2>3
    <3>2. nm[z] \in ToSet(renamed)
      BY <2>1
    <3> QED
      BY <3>1, <3>2
  <2>6. ASSUME NEW z \in kept PROVE name[z] \in ToSet(renamed)
    BY <2>1, <2>2
  <2> HIDE DEF nm
  <2> QED
    BY ONLY <2>4, <2>5, <2>6, Zenon
<1>11. o \in Seq(Nodes) /\ IsInjective(o) /\ ToSet(o) = ops \intersect imp
  <2>1. cn \in Seq(Nodes) /\ IsInjective(cn) /\ o = Only(ops \intersect imp, cn)
    BY DEF o
  <2>2. o \in Seq(Nodes) /\ IsInjective(o) /\ ToSet(o) = ToSet(cn) \intersect (ops \intersect imp)
    BY ONLY <2>1, OnlyKeeps
  <2> QED
    BY <2>2
<1>12. added \in Seq(Nodes) /\ IsInjective(added) /\ ToSet(added) = ops \intersect imp
  <2>1. added = Reverse(o)
    BY DEF added
  <2> QED
    BY ONLY <1>11, <2>1, Reversed
<1>13. l = added \o renamed
  BY DEF added, o
<1>14. /\ l \in Seq(Nodes) /\ ToSet(l) = ToSet(added) \union ToSet(renamed)
       /\ IsInjective(added) /\ IsInjective(renamed) /\ ToSet(added) \intersect ToSet(renamed) = {}
            => IsInjective(l)
       /\ \A x, y : Precedes(added, x, y) \/ Precedes(renamed, x, y) => Precedes(l, x, y)
       /\ \A x \in ToSet(added), y \in ToSet(renamed) : Precedes(l, x, y)
  BY ONLY <1>9, <1>12, <1>13, Joined
<1>15. ToSet(added) \intersect ToSet(renamed) = {}
  BY <1>6, <1>10, <1>12
<1>16. IsInjective(l) /\ ToSet(l) = (ops \intersect imp) \union (ToSet(s) \ ops) \union {name[x] : x \in kept}
  BY <1>9, <1>10, <1>12, <1>14, <1>15
<1>17. \A x \in ops \intersect imp : \A y \in ToSet(l) \ (ops \intersect imp) : Precedes(l, x, y)
  BY <1>12, <1>14
<1>18. ASSUME NEW x, NEW y, Precedes(s, x, y), x \notin ops, y \notin ops \/ y \in kept
       PROVE  Precedes(l, x, nm[y])
  <2>1. x \in ToSet(s) /\ y \in ToSet(s)
    BY ONLY <1>1, <1>18, PrecedesOrder
  <2>2. x \in Nodes \ (ops \ kept) /\ y \in Nodes \ (ops \ kept) /\ nm[x] = x
    BY <1>3, <1>5, <1>18, <2>1
  <2>3. Precedes(stay, x, y)
    BY <1>2, <1>18, <2>2
  <2>4. Precedes(renamed, nm[x], nm[y])
    BY ONLY <1>9, <2>3
  <2> QED
    BY ONLY <1>14, <2>2, <2>4
<1>19. ASSUME NEW x, NEW y, Precedes(s, x, y), x \notin ops, y \notin ops PROVE Precedes(l, x, y)
  <2>1. y \in Nodes /\ nm[y] = y
    <3>1. y \in ToSet(s)
      BY ONLY <1>1, <1>19, PrecedesOrder
    <3> QED
      BY <1>3, <1>5, <1>19, <3>1
  <2> QED
    BY ONLY <1>18, <1>19, <2>1
<1>20. ASSUME NEW x, NEW y, Precedes(s, x, y), x \notin ops, y \in kept PROVE Precedes(l, x, name[y])
  <2>1. nm[y] = name[y]
    BY <1>3, <1>5, <1>20
  <2> QED
    BY ONLY <1>18, <1>20, <2>1
<1> QED
  BY <1>14, <1>16, <1>17, <1>19, <1>20 DEF Spliced

\* FoldGroupOnGraph leaves a graph as good as it was.
LEMMA SaneSpliced ==
    ASSUME graph \in Graphs, const_nodes \in Seq(Nodes), IsInjective(const_nodes),
           survivors \subseteq Fresh, broken \subseteq Nodes, Sane(graph, FALSE, survivors, broken),
           NEW ops, ops \subseteq ToSet(graph.nodes), ops \subseteq ToSet(const_nodes),
           NEW kept \in SUBSET ops, NEW name \in [kept -> Fresh \ survivors], IsInjective(name),
           Splice(ops, kept, name)
    PROVE  /\ graph' \in Graphs /\ Sane(graph', FALSE, survivors', broken)
           /\ survivors \subseteq survivors' /\ survivors' \subseteq Fresh
           /\ graph'.inits = graph.inits \union (ops \ impure)
           /\ \A n \in Nodes : n \notin ops /\ (n \in Fresh => n \in survivors) =>
                /\ graph'.kind[n] = graph.kind[n] /\ graph'.inputs[n] = graph.inputs[n]
                /\ n \in ToSet(graph.nodes) => n \in ToSet(graph'.nodes)
<1> DEFINE s == graph.nodes
           fresh == [n \in kept |-> name[n]]
           owner == [m \in {name[n] : n \in kept} |-> CHOOSE n \in kept : name[n] = m]
           stay == Only(Nodes \ (ops \ kept), s)
           renamed == [p \in DOMAIN stay |->
                         IF stay[p] \in kept THEN fresh[stay[p]] ELSE stay[p]]
           added == Reverse(Only(ops \intersect impure, const_nodes))
           l == added \o renamed
           kinds == [n \in Nodes |->
                       IF n \in DOMAIN owner
                       THEN IF graph.kind[owner[n]] = "transient"
                            THEN "constant" ELSE graph.kind[owner[n]]
                       ELSE IF n \in ops \intersect impure
                            THEN "constant" ELSE graph.kind[n]]
           reads == [n \in Nodes |->
                       IF n \in DOMAIN owner THEN graph.inputs[owner[n]]
                       ELSE IF n \in ops THEN {} ELSE graph.inputs[n]]
           inits == graph.inits \union (ops \ impure)
           free == Fresh \ survivors
<1>1. graph' = [nodes |-> l, kind |-> kinds, inputs |-> reads, inits |-> inits]
  BY Zenon DEF Splice
<1>2. survivors' = survivors \union DOMAIN owner
  BY Zenon DEF Splice
<1>3. /\ s \in Seq(Nodes) /\ graph.kind \in [Nodes -> Kinds] /\ graph.inits \in SUBSET Names
      /\ graph.inputs \in [Nodes -> SUBSET Names] /\ ToSet(s) \subseteq Nodes
  BY GraphFields
<1>4. IsInjective(s) /\ free \intersect ToSet(s) = {} /\ free \intersect graph.inits = {} /\ free \subseteq Nodes
  BY DEF Sane, Nodes
<1>5. \A n \in kept : name[n] \in free /\ name[n] \in DOMAIN owner /\ owner[name[n]] = n
  BY DEF IsInjective
<1>6. \A m \in DOMAIN owner : m \in free /\ owner[m] \in kept /\ name[owner[m]] = m
  BY <1>5
<1>7. /\ l \in Seq(Nodes) /\ IsInjective(l)
      /\ ToSet(l) = (ops \intersect impure) \union (ToSet(s) \ ops) \union {name[x] : x \in kept}
      /\ \A x \in ops \intersect impure : \A y \in ToSet(l) \ (ops \intersect impure) : Precedes(l, x, y)
      /\ \A x, y : Precedes(s, x, y) /\ x \notin ops /\ y \notin ops => Precedes(l, x, y)
      /\ \A x, y : Precedes(s, x, y) /\ x \notin ops /\ y \in kept => Precedes(l, x, name[y])
  <2>1. fresh = name
    OBVIOUS
  <2>2. /\ renamed = [p \in DOMAIN stay |-> IF stay[p] \in kept THEN name[stay[p]] ELSE stay[p]]
        /\ stay = Only(Nodes \ (ops \ kept), s)
        /\ l = Reverse(Only(ops \intersect impure, const_nodes)) \o renamed
        /\ name \in [kept -> free]
    BY <2>1
  <2> HIDE DEF l, s, free, renamed, stay
  <2>3. SplicesFrom(s, const_nodes, ops, kept, free, name, stay, renamed)
    BY <1>3, <1>4, <2>2, Zenon DEF SplicesFrom, s
  <2>4. Spliced(l, s, ops, impure, kept, name)
    BY ONLY <2>2, <2>3, SpliceList
  <2> QED
    BY <2>4 DEF Spliced
<1>8. \A n \in Nodes : /\ kinds[n] = IF n \in DOMAIN owner
                                    THEN IF graph.kind[owner[n]] = "transient"
                                         THEN "constant" ELSE graph.kind[owner[n]]
                                    ELSE IF n \in ops \intersect impure
                                         THEN "constant" ELSE graph.kind[n]
                       /\ reads[n] = IF n \in DOMAIN owner THEN graph.inputs[owner[n]]
                                     ELSE IF n \in ops THEN {} ELSE graph.inputs[n]
  OBVIOUS
<1>9. ops \subseteq Nodes /\ kept \subseteq Nodes
  BY <1>3
<1>10. kinds \in [Nodes -> Kinds] /\ reads \in [Nodes -> SUBSET Names] /\ inits \in SUBSET Names
  <2>1. \A n \in Nodes : kinds[n] \in Kinds
    <3>1. "constant" \in Kinds
      BY DEF Kinds, Constants
    <3>2. \A m \in DOMAIN owner : graph.kind[owner[m]] \in Kinds
      BY <1>3, <1>6, <1>9
    <3> HIDE DEF kinds, owner
    <3> QED
      BY <1>3, <1>8, <3>1, <3>2
  <2>2. \A n \in Nodes : reads[n] \in SUBSET Names
    <3>1. \A m \in DOMAIN owner : graph.inputs[owner[m]] \in SUBSET Names
      BY <1>3, <1>6, <1>9
    <3> HIDE DEF reads, owner
    <3> QED
      BY <1>3, <1>8, <3>1
  <2>3. inits \in SUBSET Names
    BY <1>3, <1>9 DEF Names
  <2> QED
    BY <2>1, <2>2, <2>3
<1>11. {name[x] : x \in kept} = DOMAIN owner
  OBVIOUS
<1> HIDE DEF l, kinds, reads, inits, owner, free
<1>12. /\ graph'.nodes = l /\ graph'.kind = kinds /\ graph'.inputs = reads /\ graph'.inits = inits
       /\ graph' \in Graphs
  BY <1>1, <1>7, <1>10 DEF Graphs
<1>13. survivors \subseteq survivors' /\ survivors' \subseteq Fresh
  BY <1>2, <1>6 DEF free
<1>14. \A m \in ToSet(l) : \/ m \in ops \intersect impure /\ m \notin DOMAIN owner
                           \/ m \in ToSet(s) /\ m \notin ops /\ m \notin DOMAIN owner
                           \/ m \in DOMAIN owner
  BY <1>4, <1>6, <1>7, <1>11
<1>15. ToSet(l) \intersect inits = {}
  <2>1. \A m \in DOMAIN owner : m \notin inits
    BY <1>4, <1>6 DEF inits
  <2>2. \A m \in ToSet(s) : m \notin graph.inits
    BY DEF Sane
  <2> QED
    BY <1>14, <2>1, <2>2 DEF inits
<1>16. (ToSet(l) \union inits) \intersect Fresh \subseteq survivors'
  <2>1. \A m \in ToSet(s) \union graph.inits : m \in Fresh => m \in survivors
    BY DEF Sane
  <2> QED
    BY <1>2, <1>14, <2>1 DEF inits
<1>17. ASSUME NEW m \in ToSet(l) PROVE kinds[m] \in Constants => reads[m] = {}
  <2>0. m \in Nodes
    BY <1>7 DEF ToSet
  <2>1. \A n \in ToSet(s) : graph.kind[n] \in Constants => graph.inputs[n] = {}
    BY DEF Sane
  <2>2. CASE m \in DOMAIN owner
    <3>1. owner[m] \in ToSet(s)
      BY <1>6, <2>2
    <3> QED
      BY <1>8, <2>0, <2>1, <2>2, <3>1 DEF Constants
  <2>3. CASE m \notin DOMAIN owner
    BY <1>8, <1>14, <2>0, <2>1, <2>3 DEF Constants
  <2> QED
    BY <2>2, <2>3
<1>18. ASSUME NEW m \in ToSet(l), NEW x \in reads[m]
       PROVE  x \in GraphInputs \union inits \/ Precedes(l, x, m)
  <2>0. m \in Nodes
    BY <1>7 DEF ToSet
  <2>1. \A n \in ToSet(s) : \A z \in graph.inputs[n] :
          z \in GraphInputs \union graph.inits \/ Precedes(s, z, n)
    BY DEF Sane
  <2>2. CASE m \in DOMAIN owner
    <3> DEFINE n == owner[m]
    <3>1. n \in ToSet(s) /\ n \in kept /\ x \in graph.inputs[n] /\ name[n] = m
      BY <1>6, <1>8, <1>18, <2>0, <2>2
    <3> HIDE DEF n
    <3>2. x \in GraphInputs \union graph.inits \/ Precedes(s, x, n)
      BY <2>1, <3>1
    <3>3. m \notin ops
      BY <1>4, <1>6, <2>2
    <3> QED
      BY <1>7, <3>1, <3>2, <3>3 DEF inits
  <2>3. CASE m \notin DOMAIN owner
    <3>1. m \in ToSet(s) /\ m \notin ops /\ x \in graph.inputs[m]
      BY <1>8, <1>14, <1>18, <2>0, <2>3
    <3>2. x \in GraphInputs \union graph.inits \/ Precedes(s, x, m)
      BY <2>1, <3>1
    <3> QED
      BY <1>7, <3>1, <3>2 DEF inits
  <2> QED
    BY <2>2, <2>3
<1>19. GraphOutputs \subseteq GraphInputs \union inits \union ToSet(l)
  BY <1>7 DEF inits, Sane
<1>20. \A n \in broken : kinds[n] # "transient"
  <2>1. ASSUME NEW n \in broken, n \in Nodes, kinds[n] = "transient" PROVE FALSE
    <3>1. graph.kind[n] # "transient"
      BY DEF Sane
    <3> QED
      BY <1>8, <2>1, <3>1
  <2> QED
    BY <2>1
<1>21. Sane(graph', FALSE, survivors', broken)
  BY <1>7, <1>12, <1>15, <1>16, <1>17, <1>18, <1>19, <1>20 DEF Sane
<1>22. ASSUME NEW n \in Nodes, n \notin ops, n \in Fresh => n \in survivors
       PROVE  /\ kinds[n] = graph.kind[n] /\ reads[n] = graph.inputs[n]
              /\ n \in ToSet(s) => n \in ToSet(l)
  <2>1. n \notin DOMAIN owner
    BY <1>6, <1>22 DEF free
  <2> QED
    BY <1>7, <1>8, <1>22, <2>1
<1> QED
  BY <1>12, <1>13, <1>21, <1>22 DEF inits

\* Sweeping initializers nobody reads leaves every read its source.
LEMMA SaneSwept ==
    ASSUME NEW g \in Graphs, NEW given, NEW bad, Sane(g, FALSE, given, bad),
           NEW h, h = EliminateUnusedInitializer(g)
    PROVE  /\ h \in Graphs /\ Sane(h, FALSE, given, bad) /\ h.inits \subseteq g.inits
           /\ h.nodes = g.nodes /\ h.kind = g.kind /\ h.inputs = g.inputs
<1> DEFINE inits == g.inits \intersect (Used(g) \union GraphInputs)
<1>0. h = [g EXCEPT !.inits = inits]
  BY DEF EliminateUnusedInitializer
<1>1. \A n \in ToSet(g.nodes) : \A x \in g.inputs[n] : x \in g.inits => x \in inits
  BY DEF Used
<1>2. GraphOutputs \intersect g.inits \subseteq inits
  BY DEF Used
<1>3. inits \subseteq g.inits
  OBVIOUS
<1> HIDE DEF inits
<1>4. /\ h.nodes = g.nodes /\ h.kind = g.kind /\ h.inputs = g.inputs /\ h.inits = inits
      /\ h \in Graphs
  BY <1>0, <1>3 DEF Graphs
<1>5. \A n \in ToSet(h.nodes) : \A x \in h.inputs[n] :
        x \in GraphInputs \union h.inits \/ Precedes(h.nodes, x, n)
  BY <1>1, <1>4 DEF Sane
<1>6. GraphOutputs \subseteq GraphInputs \union h.inits \union ToSet(h.nodes)
  BY <1>2, <1>4 DEF Sane
<1>7. /\ IsInjective(h.nodes) /\ ToSet(h.nodes) \intersect h.inits = {}
      /\ (ToSet(h.nodes) \union h.inits) \intersect Fresh \subseteq given
      /\ \A n \in ToSet(h.nodes) : h.kind[n] \in Constants => h.inputs[n] = {}
      /\ \A n \in bad : h.kind[n] # "transient"
  BY <1>3, <1>4 DEF Sane
<1> QED
  BY <1>3, <1>4, <1>5, <1>6, <1>7 DEF Sane

\* What shape inference finds out does not touch who reads what.
LEMMA SaneSmall ==
    ASSUME NEW g \in Graphs, NEW given, NEW bad, Sane(g, FALSE, given, bad), bad \subseteq Nodes,
           NEW late, NEW small \in SUBSET {n \in ToSet(g.nodes) : g.kind[n] \in Large},
           NEW h, h = [g EXCEPT !.kind = [n \in Nodes |-> IF n \in small THEN "op" ELSE g.kind[n]]]
    PROVE  /\ h \in Graphs /\ Sane(h, late, given, bad) /\ Sane(h, FALSE, given, bad)
           /\ h.nodes = g.nodes /\ h.inputs = g.inputs /\ h.inits = g.inits
<1> DEFINE kinds == [n \in Nodes |-> IF n \in small THEN "op" ELSE g.kind[n]]
<1>0. h = [g EXCEPT !.kind = kinds]
  OBVIOUS
<1>1. g.kind \in [Nodes -> Kinds] /\ ToSet(g.nodes) \subseteq Nodes
  BY GraphFields
<1>2. kinds \in [Nodes -> Kinds] /\ \A n \in Nodes : kinds[n] = g.kind[n] \/ kinds[n] = "op"
  <2>1. "op" \in Kinds
    BY DEF Kinds
  <2> QED
    BY <1>1, <2>1
<1> HIDE DEF kinds
<1>3. /\ h.nodes = g.nodes /\ h.kind = kinds /\ h.inputs = g.inputs /\ h.inits = g.inits
      /\ h \in Graphs
  BY <1>0, <1>2 DEF Graphs
<1>4. /\ IsInjective(h.nodes) /\ ToSet(h.nodes) \intersect h.inits = {}
      /\ (ToSet(h.nodes) \union h.inits) \intersect Fresh \subseteq given
      /\ GraphOutputs \subseteq GraphInputs \union h.inits \union ToSet(h.nodes)
      /\ \A n \in ToSet(h.nodes) : \A x \in h.inputs[n] :
           x \in GraphInputs \union h.inits \/ Precedes(h.nodes, x, n)
  BY <1>3 DEF Sane
<1>5. \A n \in ToSet(h.nodes) : h.kind[n] \in Constants => h.inputs[n] = {}
  BY <1>1, <1>2, <1>3 DEF Sane, Constants
<1>6. \A n \in bad : h.kind[n] # "transient"
  BY <1>2, <1>3 DEF Sane
<1> QED
  BY <1>3, <1>4, <1>5, <1>6 DEF Sane

\* What RebuildNodeList puts together: new Constants, the Constants of the list and
\* the other nodes of it, without those that are gone
RebuildsFrom(s, u, v, w, gone, consts) ==
    /\ s \in Seq(Nodes) /\ IsInjective(s) /\ u \in Seq(Nodes) /\ IsInjective(u)
    /\ gone \in SUBSET ToSet(s) /\ ToSet(u) \subseteq gone /\ consts \in SUBSET Nodes
    /\ v = Only(consts \ gone, s) /\ w = Only((Nodes \ consts) \ gone, s)

\* Nothing is listed twice or lost, and order is kept but for Constants, which go first.
LEMMA RebuiltList ==
    ASSUME NEW s, NEW u, NEW v, NEW w, NEW gone, NEW consts,
           RebuildsFrom(s, u, v, w, gone, consts)
    PROVE  /\ u \o v \o w \in Seq(Nodes) /\ IsInjective(u \o v \o w)
           /\ ToSet(u \o v \o w) = ToSet(u) \union (ToSet(s) \ gone)
           /\ \A x \in ToSet(u) : \A y \in ToSet(s) \ gone : Precedes(u \o v \o w, x, y)
           /\ \A x \in (ToSet(s) \intersect consts) \ gone : \A y \in ToSet(s) \ (gone \union consts) :
                Precedes(u \o v \o w, x, y)
           /\ \A x, y \in Nodes \ (gone \union consts) : Precedes(s, x, y) => Precedes(u \o v \o w, x, y)
<1>0. /\ s \in Seq(Nodes) /\ IsInjective(s) /\ u \in Seq(Nodes) /\ IsInjective(u)
      /\ gone \in SUBSET ToSet(s) /\ ToSet(u) \subseteq gone /\ consts \in SUBSET Nodes
      /\ v = Only(consts \ gone, s) /\ w = Only((Nodes \ consts) \ gone, s)
  BY DEF RebuildsFrom
<1> USE <1>0
<1>1. s \in Seq(Nodes) /\ IsInjective(s) /\ v = Only(consts \ gone, s) /\ w = Only((Nodes \ consts) \ gone, s)
  OBVIOUS
<1>2. v \in Seq(Nodes) /\ IsInjective(v) /\ ToSet(v) = ToSet(s) \intersect (consts \ gone)
  BY ONLY <1>1, OnlyKeeps
<1>3. /\ w \in Seq(Nodes) /\ IsInjective(w) /\ ToSet(w) = ToSet(s) \intersect ((Nodes \ consts) \ gone)
      /\ \A x, y \in (Nodes \ consts) \ gone : Precedes(s, x, y) => Precedes(w, x, y)
  BY ONLY <1>1, OnlyKeeps
<1>4. ToSet(s) \subseteq Nodes
  BY DEF ToSet
<1> DEFINE uv == u \o v
           l == uv \o w
<1>5. u \in Seq(Nodes) /\ IsInjective(u) /\ ToSet(u) \intersect ToSet(v) = {}
  BY <1>2
<1>6. /\ uv \in Seq(Nodes) /\ ToSet(uv) = ToSet(u) \union ToSet(v) /\ IsInjective(uv)
      /\ \A x \in ToSet(u), y \in ToSet(v) : Precedes(uv, x, y)
  BY ONLY <1>2, <1>5, Joined DEF uv
<1>7. ToSet(uv) \intersect ToSet(w) = {}
  BY <1>2, <1>3, <1>6
<1> HIDE DEF uv
<1>8. /\ l \in Seq(Nodes) /\ ToSet(l) = ToSet(uv) \union ToSet(w) /\ IsInjective(l)
      /\ \A x, y : Precedes(uv, x, y) \/ Precedes(w, x, y) => Precedes(l, x, y)
      /\ \A x \in ToSet(uv), y \in ToSet(w) : Precedes(l, x, y)
  BY ONLY <1>3, <1>6, <1>7, Joined DEF l
<1>9. u \o v \o w = l
  BY DEF uv
<1> HIDE DEF l
<1>10. ToSet(l) = ToSet(u) \union (ToSet(s) \ gone)
  BY <1>2, <1>3, <1>4, <1>6, <1>8
<1>11. \A x \in ToSet(u) : \A y \in ToSet(s) \ gone : Precedes(l, x, y)
  BY <1>2, <1>3, <1>4, <1>6, <1>8
<1>12. \A x \in (ToSet(s) \intersect consts) \ gone : \A y \in ToSet(s) \ (gone \union consts) : Precedes(l, x, y)
  BY <1>2, <1>3, <1>4, <1>6, <1>8
<1>13. \A x, y \in Nodes \ (gone \union consts) : Precedes(s, x, y) => Precedes(l, x, y)
  BY <1>3, <1>8
<1> QED
  BY <1>8, <1>9, <1>10, <1>11, <1>12, <1>13

\* RebuildNodeList makes a graph in order of one that may read Constants ahead.
LEMMA SaneRebuilt ==
    ASSUME entry \in Graphs, graph \in Graphs, NEW given, NEW bad \in SUBSET Nodes, NEW late,
           Sane(entry, late, given, bad),
           graph.nodes = entry.nodes, graph.kind = entry.kind, graph.inputs = entry.inputs,
           graph.inits = entry.inits \union (folded \ impure),
           folded \subseteq ToSet(entry.nodes), \A n \in folded : entry.kind[n] # "constant",
           new_constant_nodes \in Seq(Nodes), IsInjective(new_constant_nodes),
           ToSet(new_constant_nodes) = folded \intersect impure
    PROVE  /\ Rebuilt \in Graphs /\ Sane(Rebuilt, FALSE, given, bad)
           /\ ToSet(Rebuilt.nodes) \intersect folded \subseteq impure
           /\ \A n \in folded \intersect impure : Rebuilt.kind[n] = "constant"
<1> DEFINE g == Rebuilt
           s == entry.nodes
           u == new_constant_nodes
           consts == {n \in Nodes : IsConstant(n)}
           v == Only(consts \ folded, s)
           w == Only((Nodes \ consts) \ folded, s)
           l == u \o v \o w
           kinds == [n \in Nodes |->
                       IF n \in folded \intersect impure THEN "constant" ELSE graph.kind[n]]
           reads == [n \in Nodes |-> IF n \in folded THEN {} ELSE graph.inputs[n]]
<1>1. g = [nodes |-> l, kind |-> kinds, inputs |-> reads, inits |-> graph.inits]
  BY Zenon DEF Rebuilt
<1>2. /\ s \in Seq(Nodes) /\ graph.kind \in [Nodes -> Kinds] /\ graph.inits \in SUBSET Names
      /\ graph.inputs \in [Nodes -> SUBSET Names] /\ ToSet(s) \subseteq Nodes
  BY GraphFields
<1>3. IsInjective(s) /\ folded \in SUBSET ToSet(s) /\ ToSet(u) \subseteq folded /\ consts \in SUBSET Nodes
      /\ u \in Seq(Nodes) /\ IsInjective(u)
      /\ v = Only(consts \ folded, s) /\ w = Only((Nodes \ consts) \ folded, s)
  BY DEF Sane
<1>4. \A n \in Nodes : n \in consts <=> entry.kind[n] \in Constants
  BY DEF IsConstant
<1>5. /\ kinds \in [Nodes -> Kinds] /\ reads \in [Nodes -> SUBSET Names]
      /\ \A n \in Nodes : /\ kinds[n] = IF n \in folded \intersect impure THEN "constant" ELSE entry.kind[n]
                          /\ reads[n] = IF n \in folded THEN {} ELSE entry.inputs[n]
  <2>1. "constant" \in Kinds
    BY DEF Kinds, Constants
  <2> QED
    BY <1>2, <2>1
<1> HIDE DEF g, s, u, v, w, kinds, reads, consts
<1>6. /\ l \in Seq(Nodes) /\ IsInjective(l)
      /\ ToSet(l) = ToSet(u) \union (ToSet(s) \ folded)
      /\ \A x \in ToSet(u) : \A y \in ToSet(s) \ folded : Precedes(l, x, y)
      /\ \A x \in (ToSet(s) \intersect consts) \ folded : \A y \in ToSet(s) \ (folded \union consts) :
           Precedes(l, x, y)
      /\ \A x, y \in Nodes \ (folded \union consts) : Precedes(s, x, y) => Precedes(l, x, y)
  <2>1. RebuildsFrom(s, u, v, w, folded, consts)
    BY ONLY <1>2, <1>3 DEF RebuildsFrom
  <2> QED
    BY ONLY <2>1, RebuiltList DEF l
<1> HIDE DEF l
<1>7. ToSet(u) = folded \intersect impure
  BY DEF u
<1>8. g.nodes = l /\ g.kind = kinds /\ g.inputs = reads /\ g.inits = graph.inits /\ g \in Graphs
  BY <1>1, <1>2, <1>5, <1>6 DEF Graphs
<1>9. /\ ToSet(s) \intersect entry.inits = {}
      /\ (ToSet(s) \union entry.inits) \intersect Fresh \subseteq given
      /\ \A n \in ToSet(s) : entry.kind[n] \in Constants => entry.inputs[n] = {}
      /\ \A n \in ToSet(s) : \A x \in entry.inputs[n] :
           \/ x \in GraphInputs \union entry.inits \/ Precedes(s, x, n)
           \/ x \in ToSet(s) /\ entry.kind[x] = "constant"
      /\ GraphOutputs \subseteq GraphInputs \union entry.inits \union ToSet(s)
      /\ \A n \in bad : entry.kind[n] # "transient"
  BY DEF Sane, s
<1>10. ToSet(l) \intersect graph.inits = {}
  BY <1>3, <1>6, <1>7, <1>9
<1>11. (ToSet(l) \union graph.inits) \intersect Fresh \subseteq given
  BY <1>3, <1>6, <1>7, <1>9
<1>12. \A n \in ToSet(l) : kinds[n] \in Constants => reads[n] = {}
  BY <1>2, <1>3, <1>5, <1>6, <1>7, <1>9
<1>13. ASSUME NEW n \in ToSet(l), NEW x \in reads[n]
       PROVE  x \in GraphInputs \union graph.inits \/ Precedes(l, x, n)
  <2>1. n \in ToSet(s) /\ n \notin folded /\ x \in entry.inputs[n] /\ n \in Nodes
    BY <1>2, <1>3, <1>5, <1>6, <1>7, <1>13
  <2>2. n \notin consts
    BY <1>4, <1>9, <2>1
  <2>3. CASE x \in GraphInputs \union entry.inits
    BY <2>3
  <2>4. CASE x \in folded
    BY <1>6, <1>7, <2>1, <2>4
  <2>5. CASE x \in ToSet(s) /\ x \notin folded /\ x \in consts
    BY <1>6, <2>1, <2>2, <2>5
  <2>6. CASE Precedes(s, x, n) /\ x \in ToSet(s) /\ x \notin folded /\ x \notin consts
    BY <1>2, <1>6, <2>1, <2>2, <2>6
  <2>7. Precedes(s, x, n) => x \in ToSet(s)
    BY ONLY <1>2, <1>3, PrecedesOrder
  <2>8. x \in ToSet(s) /\ entry.kind[x] = "constant" => x \in consts
    BY <1>2, <1>4 DEF Constants
  <2> QED
    BY <1>9, <2>1, <2>3, <2>4, <2>5, <2>6, <2>7, <2>8
<1>14. GraphOutputs \subseteq GraphInputs \union graph.inits \union ToSet(l)
  BY <1>6, <1>7, <1>9
<1>15. \A n \in bad : kinds[n] # "transient"
  BY <1>5, <1>9
<1>16. Sane(g, FALSE, given, bad)
  BY <1>6, <1>8, <1>10, <1>11, <1>12, <1>13, <1>14, <1>15 DEF Sane
<1>17. ToSet(l) \intersect folded \subseteq impure /\ \A n \in folded \intersect impure : kinds[n] = "constant"
  BY <1>2, <1>3, <1>5, <1>6, <1>7
<1> QED
  BY <1>8, <1>16, <1>17 DEF g

-----------------------------------------------------------------------------
(* The ranges FoldGroup has still to fold *)

\* The ranges on the stack join up and end where the next batch begins, ...
Contiguous ==
    /\ stack # <<>> => stack[1][2] = i
    /\ \A p \in 1 .. Len(stack) - 1 : stack[p][1] = stack[p + 1][2]

\* ... so this is how far the folder has come in const_nodes.
Frontier == IF stack = <<>> THEN i ELSE Last(stack)[1]

\* A stack without its top.
LEMMA FrontIs ==
    ASSUME RangesInv, stack # <<>>
    PROVE  /\ Front(stack) \in Seq(Nat \X Nat) /\ Len(Front(stack)) = Len(stack) - 1
           /\ \A p \in 1 .. Len(stack) - 1 : Front(stack)[p] = stack[p]
           /\ Len(stack) \in Nat \ {0}
<1> DEFINE f == Front(stack)
           n == Len(stack) - 1
<1>1. stack \in Seq(Nat \X Nat) /\ Len(stack) \in Nat /\ Len(stack) > 0
  BY DEF RangesInv
<1>2. n \in Int /\ n \in Nat /\ \A p \in 1 .. n : stack[p] \in Nat \X Nat
  BY <1>1
<1>3. f = SubSeq(stack, 1, n)
  BY DEF Front
<1> HIDE DEF f, n
<1>4. /\ SubSeq(stack, 1, n) \in Seq(Nat \X Nat)
      /\ Len(SubSeq(stack, 1, n)) = IF 1 <= n THEN n - 1 + 1 ELSE 0
      /\ \A p \in 1 .. n - 1 + 1 : SubSeq(stack, 1, n)[p] = stack[1 + p - 1]
  BY <1>2, SubSeqProperties
<1>5. Len(f) = IF 1 <= n THEN n - 1 + 1 ELSE 0
  BY <1>3, <1>4
<1>6. Len(f) = n /\ \A p \in 1 .. n : f[p] = stack[p]
  BY <1>2, <1>3, <1>4, <1>5
<1> QED
  BY <1>1, <1>3, <1>4, <1>6 DEF f, n

\* The range on top.
LEMMA TopRange ==
    ASSUME RangesInv, stack # <<>>
    PROVE  LET r == Last(stack) IN
           /\ r = stack[Len(stack)] /\ r[1] \in Nat /\ r[2] \in Nat
           /\ 1 <= r[1] /\ r[1] < r[2] /\ r[2] <= i /\ r[2] <= Len(const_nodes) + 1
           /\ i \in Nat /\ Len(const_nodes) \in Nat
<1>1. Last(stack) = stack[Len(stack)] /\ Len(stack) \in 1 .. Len(stack)
  BY DEF RangesInv, Last
<1>2. InBatch(Last(stack), i)
  BY <1>1 DEF RangesInv
<1>3. i \in Nat /\ i <= Len(const_nodes) + 1 /\ Len(const_nodes) \in Nat
  BY DEF RangesInv
<1> QED
  BY <1>1, <1>2, <1>3 DEF InBatch

\* Taking the top range off moves the frontier to where it ends.
LEMMA PoppedStack ==
    ASSUME RangesInv, Contiguous, stack # <<>>, stack' = Front(stack), i' = i
    PROVE  Contiguous' /\ Frontier' = Last(stack)[2] /\ Frontier = Last(stack)[1]
<1> DEFINE f == Front(stack)
           n == Len(stack)
<1>1. /\ f \in Seq(Nat \X Nat) /\ Len(f) = n - 1 /\ \A p \in 1 .. n - 1 : f[p] = stack[p]
      /\ n \in Nat \ {0}
  BY FrontIs
<1>2. Last(stack) = stack[n]
  BY TopRange
<1>3. stack[1][2] = i /\ \A p \in 1 .. n - 1 : stack[p][1] = stack[p + 1][2]
  BY DEF Contiguous
<1>4. stack' = f
  OBVIOUS
<1> HIDE DEF f, n
<1>5. CASE n = 1
  <2>1. f = <<>>
    BY <1>1, <1>5
  <2> QED
    BY <1>2, <1>3, <1>4, <1>5, <2>1 DEF Contiguous, Frontier
<1>6. CASE n # 1
  <2>1. n - 1 \in 1 .. n - 1 /\ 1 \in 1 .. n - 1 /\ (n - 1) + 1 = n
    BY <1>1, <1>6
  <2>2. f # <<>> /\ Last(f) = f[n - 1]
    BY <1>1, <2>1 DEF Last
  <2>3. \A p \in 1 .. Len(f) - 1 : p \in 1 .. n - 1 /\ p + 1 \in 1 .. n - 1
    BY <1>1
  <2>4. f[1][2] = i /\ \A p \in 1 .. Len(f) - 1 : f[p][1] = f[p + 1][2]
    BY <1>1, <1>3, <2>1, <2>3
  <2>5. f[n - 1][1] = stack[n][2]
    BY <1>1, <1>3, <2>1
  <2> QED
    BY <1>2, <1>4, <2>2, <2>4, <2>5 DEF Contiguous, Frontier
<1> QED
  BY <1>5, <1>6

\* Putting its halves there instead moves it nowhere, a range of one to its end.
LEMMA BisectedStack ==
    ASSUME RangesInv, Contiguous, stack # <<>>, i' = i,
           stack' = Front(stack) \o Bisected(Last(stack))
    PROVE  /\ Contiguous'
           /\ \/ Frontier' = Frontier
              \/ Last(stack)[2] = Last(stack)[1] + 1 /\ Frontier' = Frontier + 1
           /\ Frontier = Last(stack)[1]
<1> DEFINE f == Front(stack)
           n == Len(stack)
           r == Last(stack)
<1>1. /\ f \in Seq(Nat \X Nat) /\ Len(f) = n - 1 /\ \A p \in 1 .. n - 1 : f[p] = stack[p]
      /\ n \in Nat \ {0}
  BY FrontIs
<1>2. r = stack[n] /\ r[1] \in Nat /\ r[2] \in Nat
  BY TopRange
<1>3. stack[1][2] = i /\ \A p \in 1 .. n - 1 : stack[p][1] = stack[p + 1][2]
  BY DEF Contiguous
<1>4. CASE r[2] - r[1] = 1
  <2>1. Bisected(r) = <<>>
    BY <1>4 DEF Bisected
  <2>2. f \o <<>> = f
    BY <1>1
  <2>3. stack' = Front(stack)
    BY <2>1, <2>2
  <2> QED
    BY <1>2, <1>4, <2>3, PoppedStack
<1>5. CASE r[2] - r[1] # 1
  <2> DEFINE a == <<Mid(r), r[2]>>
             b == <<r[1], Mid(r)>>
             t == f \o <<a, b>>
  <2>1. stack' = t
    BY <1>5 DEF Bisected
  <2>2. a[1] = b[2] /\ a[2] = r[2] /\ b[1] = r[1]
    OBVIOUS
  <2> HIDE DEF a, b
  <2>3. \E Y : f \in Seq(Y) /\ a \in Y /\ b \in Y
    <3>1. f \in Seq(ToSet(f) \union {a, b})
      BY <1>1 DEF ToSet
    <3> QED
      BY <3>1
  <2>4. /\ Len(t) = n + 1 /\ t # <<>> /\ t[n] = a /\ t[n + 1] = b
        /\ \A p \in 1 .. n - 1 : t[p] = f[p]
    BY <1>1, <2>3
  <2> HIDE DEF t, f, n, r
  <2>5. Last(t) = b
    BY <1>1, <2>4 DEF Last
  <2>6. t[1][2] = i
    <3>1. CASE n = 1
      BY <1>2, <1>3, <2>2, <2>4, <3>1
    <3>2. CASE n # 1
      <4>1. 1 \in 1 .. n - 1
        BY <1>1, <3>2
      <4> QED
        BY <1>1, <1>3, <2>4, <4>1
    <3> QED
      BY <3>1, <3>2
  <2>7. ASSUME NEW p \in 1 .. Len(t) - 1 PROVE t[p][1] = t[p + 1][2]
    <3>1. CASE p = n
      BY <2>2, <2>4, <3>1
    <3>2. CASE p = n - 1
      <4>1. p \in 1 .. n - 1 /\ p + 1 = n
        BY <1>1, <2>4, <3>2
      <4> QED
        BY <1>1, <1>2, <1>3, <2>2, <2>4, <4>1
    <3>3. CASE p # n /\ p # n - 1
      <4>1. p \in 1 .. n - 1 /\ p + 1 \in 1 .. n - 1
        BY <1>1, <2>4, <3>3
      <4> QED
        BY <1>1, <1>3, <2>4, <4>1
    <3> QED
      BY <3>1, <3>2, <3>3
  <2>8. Frontier = r[1]
    BY DEF Frontier, r
  <2> QED
    BY <2>1, <2>2, <2>4, <2>5, <2>6, <2>7, <2>8 DEF Contiguous, Frontier, r
<1> QED
  BY <1>4, <1>5

\* A new batch is where the frontier is.
LEMMA BatchStack ==
    ASSUME RangesInv, NextBatch
    PROVE  Contiguous' /\ Frontier' = Frontier
<1> DEFINE e == BatchEnd
           r == <<i, e>>
<1>1. stack = <<>> /\ stack' = <<r>> /\ i' = e /\ r[1] = i /\ r[2] = e
  BY DEF NextBatch
<1> HIDE DEF r, e
<1>2. Len(<<r>>) = 1 /\ <<r>>[1] = r /\ <<r>> # <<>>
  OBVIOUS
<1>3. \A p \in 1 .. Len(<<r>>) - 1 : FALSE
  BY <1>2
<1>4. Last(<<r>>) = r
  BY <1>2 DEF Last
<1> QED
  BY <1>1, <1>2, <1>3, <1>4 DEF Contiguous, Frontier

-----------------------------------------------------------------------------
(* What holds throughout a round *)

\* Where a round is says what it has done.
PhaseInv ==
    /\ pc # "scan" => k = Len(entry.nodes) + 1
    /\ pc = "scan" => stack = <<>> /\ i = 1 /\ folded = {} /\ new_constant_nodes = <<>>
    /\ AtRest => stack = <<>> /\ i = Len(const_nodes) + 1
    /\ Contiguous

\* The initializers that count as constants
Seeds(g) == IF asConstants THEN g.inits ELSE {}

\* The nodes scanned so far
Seen == {entry.nodes[q] : q \in 1 .. k - 1}

\* The scan has sorted the nodes by their kind, and const_nodes and deferred
\* hold nodes whose reads were constant when they were met.
PartitionInv ==
    /\ IsInjective(const_nodes)
    /\ ToSet(const_nodes) \subseteq {n \in Seen : entry.kind[n] \in {"op", "transient"}}
    /\ deferred \subseteq {n \in Seen : entry.kind[n] = "defer"}
    /\ const_names = Seeds(entry) \union {n \in Seen : entry.kind[n] = "constant"}
                       \union ToSet(const_nodes) \union deferred
    /\ \A n \in ToSet(const_nodes) \union deferred : \A x \in entry.inputs[n] :
          x \in const_names /\ (x \in Seeds(entry) \/ Precedes(entry.nodes, x, n))
    /\ \A a, b \in DOMAIN const_nodes :
         a < b => Precedes(entry.nodes, const_nodes[a], const_nodes[b])

\* The graph is in order on the resident path, and between rounds on either.
GraphsInv ==
    /\ Sane(entry, ~native, survivors, broken)
    /\ native \/ AtRest => Sane(graph, FALSE, survivors, broken)

SameNodes == /\ ToSet(graph.nodes) = ToSet(entry.nodes)
             /\ graph.kind = entry.kind /\ graph.inputs = entry.inputs

\* What a round has changed is what it has folded.
WorkInv ==
    /\ folded \subseteq ToSet(const_nodes)
    /\ \A q \in 1 .. Len(const_nodes) : q >= Frontier => const_nodes[q] \notin folded
    /\ pc = "scan" => SameNodes
    /\ ~AtRest => graph.inits = entry.inits \union (folded \ impure)
    /\ ~native /\ ~AtRest =>
         /\ graph.nodes = entry.nodes /\ graph.kind = entry.kind /\ graph.inputs = entry.inputs
         /\ IsInjective(new_constant_nodes)
         /\ ToSet(new_constant_nodes) = folded \intersect impure
    /\ native /\ ~AtRest => \A n \in ToSet(entry.nodes) \ folded :
         /\ n \in ToSet(graph.nodes)
         /\ graph.kind[n] = entry.kind[n] /\ graph.inputs[n] = entry.inputs[n]
    /\ native /\ folded = {} => SameNodes /\ graph.inits \subseteq entry.inits
    /\ folded # {} => num_folded > 0
    /\ AtRest /\ ~native => \A n \in folded : n \notin ToSet(graph.nodes) \/ graph.kind[n] = "constant"
    /\ pc = "done" => ~Changed

\* The node GetConstantNodesOnGraph moves Constants in front of is not behind a
\* node it has still to scan.
AnchorInv ==
    native /\ pc = "scan" => \A p \in 1 .. Len(entry.nodes) : p >= k =>
        \/ entry.nodes[p] = entry.nodes[1]
        \/ Precedes(graph.nodes, entry.nodes[1], entry.nodes[p])

FoldInv == TypeOK /\ RangesInv /\ PhaseInv /\ PartitionInv /\ GraphsInv /\ WorkInv /\ AnchorInv

\* The four ways to scan a node
ScanStep(n) == ScanConstant(n) \/ ScanFoldable(n) \/ ScanDeferred(n) \/ ScanOther(n)

\* What they have in common
ScanAlways(n) ==
    /\ pc = "scan" /\ k \in 1 .. Len(entry.nodes) /\ n = entry.nodes[k] /\ k' = k + 1
    /\ native' = native /\ asConstants' = asConstants /\ broken' = broken
    /\ computed' = computed /\ weighty' = weighty
    /\ UNCHANGED <<entry, pc, producers, i, stack, new_constant_nodes, folded, num_folded,
                   flakes, flaky, survivors>>

\* Where they put the node
ScanSorts(n) ==
    \/ /\ graph.kind[n] = "constant" /\ const_names' = const_names \union {n}
       /\ const_nodes' = const_nodes /\ deferred' = deferred
    \/ /\ graph.kind[n] \in {"op", "transient"} /\ graph.inputs[n] \subseteq const_names
       /\ const_names' = const_names \union {n}
       /\ const_nodes' = Append(const_nodes, n) /\ deferred' = deferred
    \/ /\ graph.kind[n] = "defer" /\ graph.inputs[n] \subseteq const_names
       /\ const_names' = const_names \union {n}
       /\ const_nodes' = const_nodes /\ deferred' = deferred \union {n}
    \/ /\ graph.kind[n] # "constant" /\ UNCHANGED <<const_names, const_nodes, deferred>>
       /\ \/ graph.kind[n] \in {"tile", "opaque", "subgraph"}
          \/ ~(graph.inputs[n] \subseteq const_names)

\* A scan step does what the four do in common, and puts the node somewhere.
LEMMA ScanSplits ==
    ASSUME TypeOK, NEW n \in Nodes, ScanStep(n)
    PROVE  /\ ScanAlways(n) /\ ScanSorts(n)
           /\ pure_names' \subseteq const_names' /\ impure' \subseteq Nodes
<1>1. k \in 1 .. Len(entry.nodes) + 1 /\ Len(entry.nodes) \in Nat /\ graph.kind[n] \in Kinds
      /\ pure_names \subseteq const_names /\ impure \subseteq Nodes
  BY GraphFields DEF TypeOK
<1>2. Scanning(n) /\ Scanned
  BY DEF ScanStep, ScanConstant, ScanFoldable, ScanDeferred, ScanOther
<1>3. ScanAlways(n)
  BY <1>1, <1>2 DEF Scanning, Scanned, ScanAlways, config, trouble
<1>4. CASE ScanConstant(n)
  BY <1>1, <1>3, <1>4 DEF ScanConstant, ScanSorts
<1>5. CASE ScanFoldable(n)
  <2>1. graph.kind[n] \in {"op", "transient"}
    BY <1>1, <1>5 DEF ScanFoldable, Foldable, Kinds, Constants, Large
  <2> QED
    BY <1>1, <1>3, <1>5, <2>1 DEF ScanFoldable, Foldable, ScanSorts
<1>6. CASE ScanDeferred(n)
  BY <1>1, <1>3, <1>6 DEF ScanDeferred, Foldable, ScanSorts
<1>7. CASE ScanOther(n)
  BY <1>1, <1>3, <1>7 DEF ScanOther, Foldable, ScanSorts, partition
<1> QED
  BY <1>4, <1>5, <1>6, <1>7 DEF ScanStep

\* What a scan step does to the graph: on the resident path it may move a Constant ahead.
LEMMA ScanGraph ==
    ASSUME FoldInv, NEW n \in Nodes, ScanStep(n)
    PROVE  /\ graph' \in Graphs /\ ToSet(graph'.nodes) = ToSet(graph.nodes)
           /\ graph'.kind = graph.kind /\ graph'.inputs = graph.inputs /\ graph'.inits = graph.inits
           /\ ~native => graph'.nodes = graph.nodes
           /\ native => Sane(graph', FALSE, survivors, broken)
           /\ AnchorInv'
<1>0. /\ graph \in Graphs /\ entry \in Graphs /\ ScanAlways(n)
      /\ native => Sane(graph, FALSE, survivors, broken)
  BY ScanSplits DEF FoldInv, TypeOK, GraphsInv
<1>1. /\ graph = [nodes |-> graph.nodes, kind |-> graph.kind, inputs |-> graph.inputs, inits |-> graph.inits]
      /\ graph.nodes \in Seq(Nodes) /\ entry.nodes \in Seq(Nodes) /\ Len(entry.nodes) \in Nat
  BY <1>0, GraphFields
<1>2. /\ pc = "scan" /\ k \in 1 .. Len(entry.nodes) /\ k' = k + 1 /\ n = entry.nodes[k]
      /\ entry' = entry /\ native' = native /\ pc' = pc
  BY <1>0 DEF ScanAlways
<1>3. IsInjective(entry.nodes) /\ ToSet(graph.nodes) = ToSet(entry.nodes)
  BY <1>2 DEF FoldInv, GraphsInv, Sane, WorkInv, SameNodes
<1>4. CASE graph'.nodes = graph.nodes /\ graph' = [graph EXCEPT !.nodes = graph'.nodes]
  <2>1. graph' = graph
    BY <1>1, <1>4
  <2>2. AnchorInv'
    <3>1. native /\ pc = "scan" => \A p \in 1 .. Len(entry.nodes) : p >= k + 1 =>
             \/ entry.nodes[p] = entry.nodes[1]
             \/ Precedes(graph.nodes, entry.nodes[1], entry.nodes[p])
      BY <1>1, <1>2 DEF FoldInv, AnchorInv
    <3> QED
      BY <1>2, <2>1, <3>1 DEF AnchorInv
  <2> QED
    BY <1>0, <2>1, <2>2
<1>5. CASE /\ native /\ n # entry.nodes[1] /\ graph.kind[n] = "constant"
           /\ graph' = [graph EXCEPT !.nodes = MovedToFront(n)]
  <2> DEFINE s == graph.nodes
             a == entry.nodes[1]
             rest == Only(Nodes \ {n}, s)
             at == CHOOSE p \in DOMAIN rest : rest[p] = a
             l == SubSeq(rest, 1, at - 1) \o <<n>> \o SubSeq(rest, at, Len(rest))
  <2>1. MovedToFront(n) = l
    BY <1>5, Zenon DEF MovedToFront
  <2>2. Precedes(s, a, n)
    <3>1. k \in 1 .. Len(entry.nodes) /\ k >= k
      BY <1>1, <1>2
    <3> QED
      BY <1>2, <1>5, <3>1 DEF FoldInv, AnchorInv
  <2>3. IsInjective(s)
    BY <1>0, <1>5 DEF Sane
  <2>4. s \in Seq(Nodes) /\ rest = Only(Nodes \ {n}, s)
        /\ at = (CHOOSE p \in DOMAIN rest : rest[p] = a)
        /\ l = SubSeq(rest, 1, at - 1) \o <<n>> \o SubSeq(rest, at, Len(rest))
    BY <1>1
  <2>5. graph' = [graph EXCEPT !.nodes = l]
    BY <1>5, <2>1
  <2> HIDE DEF s, a, rest, at, l
  <2>6. MovedAhead(Nodes, s, n, l)
    <3>1. MovesAhead(Nodes, s, a, n, rest, at, l)
      BY ONLY <2>2, <2>3, <2>4 DEF MovesAhead
    <3> QED
      BY ONLY <3>1, ToFront
  <2>7. n \in ToSet(s)
    BY ONLY <2>2, <2>3, <2>4, PrecedesOrder
  <2>8. graph'.nodes = l /\ graph'.kind = graph.kind /\ graph'.inputs = graph.inputs /\ graph'.inits = graph.inits
        /\ graph' \in Graphs
    BY <1>0, <1>1, <2>5, <2>6 DEF Graphs, MovedAhead
  <2>9. Sane(graph', FALSE, survivors, broken)
    <3>1. graph.kind[n] \in Constants /\ Sane(graph, FALSE, survivors, broken)
          /\ n \in ToSet(graph.nodes) /\ MovedAhead(Nodes, graph.nodes, n, graph'.nodes)
      BY <1>0, <1>5, <2>6, <2>7, <2>8 DEF Constants, s
    <3> QED
      BY ONLY <1>0, <2>8, <3>1, SaneMoved
  <2>10. AnchorInv'
    <3> SUFFICES ASSUME NEW p \in 1 .. Len(entry.nodes), p >= k + 1
                 PROVE  entry.nodes[p] = a \/ Precedes(l, a, entry.nodes[p])
      BY <1>2, <2>8 DEF AnchorInv, a
    <3>1. p >= k /\ p # k
      BY <1>1, <1>2
    <3>2. entry.nodes[p] = a \/ Precedes(s, a, entry.nodes[p])
      BY <1>2, <1>5, <3>1 DEF FoldInv, AnchorInv, a, s
    <3>3. entry.nodes[p] # n
      BY <1>1, <1>2, <1>3, <3>1 DEF IsInjective
    <3> QED
      BY <2>6, <3>2, <3>3 DEF MovedAhead
  <2> QED
    BY <1>5, <2>6, <2>8, <2>9, <2>10 DEF s, MovedAhead
<1>6. CASE ScanConstant(n)
  <2>1. graph.kind[n] = "constant" /\ graph' = [graph EXCEPT !.nodes = MovedToFront(n)]
    BY <1>6 DEF ScanConstant
  <2>2. ~(native /\ n # entry.nodes[1]) => MovedToFront(n) = graph.nodes
    BY DEF MovedToFront
  <2>3. ~(native /\ n # entry.nodes[1]) => graph'.nodes = graph.nodes /\ graph' = [graph EXCEPT !.nodes = graph'.nodes]
    BY <1>1, <2>1, <2>2
  <2> QED
    BY <1>4, <1>5, <2>1, <2>3
<1>7. CASE ScanFoldable(n) \/ ScanDeferred(n) \/ ScanOther(n)
  <2>1. graph' = graph
    BY <1>7 DEF ScanFoldable, ScanDeferred, ScanOther
  <2> QED
    BY <1>1, <1>4, <2>1
<1> QED
  BY <1>6, <1>7 DEF ScanStep

\* One more node at the end of a list.
LEMMA AppendedList ==
    ASSUME NEW X, NEW s \in Seq(X), NEW n \in X
    PROVE  /\ Append(s, n) \in Seq(X) /\ Len(Append(s, n)) = Len(s) + 1
           /\ ToSet(Append(s, n)) = ToSet(s) \union {n}
           /\ \A p \in 1 .. Len(s) : Append(s, n)[p] = s[p]
           /\ Append(s, n)[Len(s) + 1] = n
           /\ IsInjective(s) /\ n \notin ToSet(s) => IsInjective(Append(s, n))
<1> DEFINE t == Append(s, n)
           m == Len(s)
<1>1. /\ t \in Seq(X) /\ Len(t) = m + 1 /\ m \in Nat /\ DOMAIN t = 1 .. m + 1 /\ DOMAIN s = 1 .. m
      /\ \A p \in 1 .. m : t[p] = s[p]
      /\ t[m + 1] = n
  OBVIOUS
<1> HIDE DEF t, m
<1>2. \A p : p \in DOMAIN t <=> p \in DOMAIN s \/ p = m + 1
  BY <1>1
<1>3. ToSet(t) = ToSet(s) \union {n}
  BY <1>1, <1>2 DEF ToSet
<1>4. ASSUME IsInjective(s), n \notin ToSet(s) PROVE IsInjective(t)
  <2>1. \A p \in DOMAIN s : s[p] # n
    BY <1>4 DEF ToSet
  <2> QED
    BY <1>1, <1>2, <1>4, <2>1 DEF IsInjective
<1> QED
  BY <1>1, <1>3, <1>4 DEF t, m

\* A scan step sorts one more node by its kind.
LEMMA ScanPartition ==
    ASSUME FoldInv, NEW n \in Nodes, ScanAlways(n), ScanSorts(n)
    PROVE  PartitionInv' /\ Seen' = Seen \union {n} /\ n \notin Seen /\ n \in ToSet(entry.nodes)
<1>1. /\ entry.nodes \in Seq(Nodes) /\ Len(entry.nodes) \in Nat /\ IsInjective(entry.nodes)
      /\ DOMAIN entry.nodes = 1 .. Len(entry.nodes)
      /\ const_nodes \in Seq(Nodes)
  BY GraphFields DEF FoldInv, TypeOK, GraphsInv, Sane
<1>2. /\ k \in 1 .. Len(entry.nodes) /\ n = entry.nodes[k] /\ k' = k + 1 /\ entry' = entry
      /\ asConstants' = asConstants /\ graph.kind = entry.kind /\ graph.inputs = entry.inputs
  BY DEF ScanAlways, FoldInv, WorkInv, SameNodes
<1>3. \A q : q \in 1 .. k' - 1 <=> q \in 1 .. k - 1 \/ q = k
  BY <1>1, <1>2
<1>4. Seen' = Seen \union {n}
  BY <1>2, <1>3 DEF Seen
<1>5. n \notin Seen /\ n \in ToSet(entry.nodes)
  <2>1. \A q \in 1 .. k - 1 : q \in DOMAIN entry.nodes /\ q # k
    BY <1>1, <1>2
  <2> QED
    BY <1>1, <1>2, <2>1 DEF Seen, IsInjective, ToSet
<1>6. \A x \in Seen : Precedes(entry.nodes, x, n)
  <2>1. \A q \in 1 .. k - 1 : q \in DOMAIN entry.nodes /\ k \in DOMAIN entry.nodes /\ q < k
    BY <1>1, <1>2
  <2> QED
    BY <1>2, <2>1 DEF Seen, Precedes
<1>7. Seeds(entry)' = Seeds(entry)
  BY <1>2 DEF Seeds
<1>8. /\ IsInjective(const_nodes)
      /\ ToSet(const_nodes) \subseteq {x \in Seen : entry.kind[x] \in {"op", "transient"}}
      /\ deferred \subseteq {x \in Seen : entry.kind[x] = "defer"}
      /\ const_names = Seeds(entry) \union {x \in Seen : entry.kind[x] = "constant"}
                       \union ToSet(const_nodes) \union deferred
      /\ \A y \in ToSet(const_nodes) \union deferred : \A x \in entry.inputs[y] :
           x \in const_names /\ (x \in Seeds(entry) \/ Precedes(entry.nodes, x, y))
      /\ \A a, b \in DOMAIN const_nodes :
           a < b => Precedes(entry.nodes, const_nodes[a], const_nodes[b])
  BY DEF FoldInv, PartitionInv
<1>9. \A x \in const_names : x \in Seeds(entry) \/ Precedes(entry.nodes, x, n)
  BY <1>6, <1>8
<1>10. CASE /\ entry.kind[n] # "constant" /\ const_names' = const_names
            /\ const_nodes' = const_nodes /\ deferred' = deferred
  <2>1. const_names' = Seeds(entry) \union {x \in Seen' : entry.kind[x] = "constant"}
                       \union ToSet(const_nodes) \union deferred
    BY <1>4, <1>8, <1>10
  <2> QED
    BY <1>2, <1>4, <1>5, <1>7, <1>8, <1>10, <2>1 DEF PartitionInv
<1>11. CASE /\ entry.kind[n] = "constant" /\ const_names' = const_names \union {n}
            /\ const_nodes' = const_nodes /\ deferred' = deferred
  <2>1. const_names' = Seeds(entry) \union {x \in Seen' : entry.kind[x] = "constant"}
                       \union ToSet(const_nodes) \union deferred
    BY <1>4, <1>8, <1>11
  <2> QED
    BY <1>2, <1>4, <1>5, <1>7, <1>8, <1>11, <2>1 DEF PartitionInv
<1>12. CASE /\ entry.kind[n] = "defer" /\ entry.inputs[n] \subseteq const_names
            /\ const_names' = const_names \union {n}
            /\ const_nodes' = const_nodes /\ deferred' = deferred \union {n}
  <2>1. const_names' = Seeds(entry) \union {x \in Seen' : entry.kind[x] = "constant"}
                       \union ToSet(const_nodes) \union deferred'
    BY <1>4, <1>8, <1>12
  <2>2. \A y \in ToSet(const_nodes) \union deferred' : \A x \in entry.inputs[y] :
           x \in const_names' /\ (x \in Seeds(entry) \/ Precedes(entry.nodes, x, y))
    BY <1>8, <1>9, <1>12
  <2> QED
    BY <1>2, <1>4, <1>5, <1>7, <1>8, <1>12, <2>1, <2>2 DEF PartitionInv
<1>13. CASE /\ entry.kind[n] \in {"op", "transient"} /\ entry.inputs[n] \subseteq const_names
            /\ const_names' = const_names \union {n}
            /\ const_nodes' = Append(const_nodes, n) /\ deferred' = deferred
  <2> DEFINE t == const_nodes'
             m == Len(const_nodes)
  <2>0. /\ t \in Seq(Nodes) /\ Len(t) = m + 1 /\ ToSet(t) = ToSet(const_nodes) \union {n}
        /\ \A p \in 1 .. m : t[p] = const_nodes[p]
        /\ t[m + 1] = n /\ m \in Nat
        /\ IsInjective(const_nodes) /\ n \notin ToSet(const_nodes) => IsInjective(t)
    BY <1>1, <1>13, AppendedList
  <2>1. const_names' = Seeds(entry) \union {x \in Seen' : entry.kind[x] = "constant"}
                       \union ToSet(t) \union deferred
    BY <1>4, <1>8, <1>13, <2>0
  <2>2. \A y \in ToSet(t) \union deferred : \A x \in entry.inputs[y] :
           x \in const_names' /\ (x \in Seeds(entry) \/ Precedes(entry.nodes, x, y))
    BY <1>8, <1>9, <1>13, <2>0
  <2>3. n \notin ToSet(const_nodes) /\ ToSet(t) \subseteq {x \in Seen' : entry.kind[x] \in {"op", "transient"}}
    BY <1>4, <1>5, <1>8, <1>13, <2>0
  <2>4. ASSUME NEW a \in DOMAIN t, NEW b \in DOMAIN t, a < b PROVE Precedes(entry.nodes, t[a], t[b])
    <3>0. DOMAIN t = 1 .. m + 1 /\ DOMAIN const_nodes = 1 .. m
      BY <1>1, <2>0
    <3>1. a \in 1 .. m /\ t[a] = const_nodes[a] /\ t[a] \in Seen
      <4>1. a \in 1 .. m
        BY <2>0, <2>4, <3>0
      <4> QED
        BY <1>8, <2>0, <3>0, <4>1 DEF ToSet
    <3>2. CASE b = m + 1
      BY <1>6, <2>0, <3>1, <3>2
    <3>3. CASE b # m + 1
      <4>1. b \in 1 .. m
        BY <2>0, <3>0, <3>3
      <4> QED
        BY <1>8, <2>0, <2>4, <3>0, <3>1, <4>1
    <3> QED
      BY <3>2, <3>3
  <2>5. IsInjective(t) /\ deferred \subseteq {x \in Seen' : entry.kind[x] = "defer"}
    BY <1>4, <1>8, <2>0, <2>3
  <2>6. /\ entry' = entry /\ Seeds(entry)' = Seeds(entry) /\ deferred' = deferred
        /\ \A a, b \in DOMAIN t : a < b => Precedes(entry.nodes, t[a], t[b])
    BY <1>2, <1>7, <1>13, <2>4
  <2> QED
    BY ONLY <1>4, <1>5, <2>1, <2>2, <2>3, <2>5, <2>6 DEF PartitionInv
<1> QED
  BY <1>2, <1>4, <1>5, <1>10, <1>11, <1>12, <1>13 DEF ScanSorts

\* A scan step keeps it all.
LEMMA ScanKeeps ==
    ASSUME FoldInv, NEW n \in Nodes, ScanStep(n)
    PROVE  FoldInv'
<1>1. ScanAlways(n) /\ ScanSorts(n) /\ pure_names' \subseteq const_names' /\ impure' \subseteq Nodes
  BY ScanSplits DEF FoldInv
<1>2. PartitionInv' /\ n \in ToSet(entry.nodes)
  BY <1>1, ScanPartition
<1>3. /\ graph' \in Graphs /\ ToSet(graph'.nodes) = ToSet(graph.nodes)
      /\ graph'.kind = graph.kind /\ graph'.inputs = graph.inputs /\ graph'.inits = graph.inits
      /\ ~native => graph'.nodes = graph.nodes
      /\ native => Sane(graph', FALSE, survivors, broken)
      /\ AnchorInv'
  BY ScanGraph
<1>4. /\ pc = "scan" /\ k \in 1 .. Len(entry.nodes) /\ n = entry.nodes[k] /\ k' = k + 1
      /\ native' = native /\ asConstants' = asConstants /\ broken' = broken
      /\ computed' = computed /\ weighty' = weighty
      /\ UNCHANGED <<entry, pc, producers, i, stack, new_constant_nodes, folded, num_folded,
                     flakes, flaky, survivors>>
  BY <1>1 DEF ScanAlways
<1>5. RangesInv'
  <2>1. [Next]_vars
    BY DEF ScanStep, Next, Fold, Scan
  <2> QED
    BY <2>1, RangesKept DEF FoldInv
<1>6. stack = <<>> /\ i = 1 /\ folded = {} /\ new_constant_nodes = <<>>
  BY <1>4 DEF FoldInv, PhaseInv
<1>7. PhaseInv'
  <2>1. Contiguous'
    BY <1>4, <1>6 DEF Contiguous
  <2> QED
    BY <1>4, <1>6, <2>1 DEF PhaseInv, AtRest
<1>8. GraphsInv'
  BY <1>3, <1>4 DEF FoldInv, GraphsInv, AtRest
<1>9. WorkInv'
  <2>1. /\ SameNodes /\ graph.inits = entry.inits \union (folded \ impure)
        /\ ~native => graph.nodes = entry.nodes
    BY <1>4 DEF FoldInv, WorkInv, AtRest
  <2>2. /\ SameNodes' /\ graph'.inits = entry'.inits
        /\ ~native => graph'.nodes = entry'.nodes
    BY <1>3, <1>4, <1>6, <2>1 DEF SameNodes
  <2>3. IsInjective(<<>>) /\ ToSet(<<>>) = {}
    BY DEF IsInjective, ToSet
  <2>4. folded' = {} /\ pc' = "scan" /\ native' = native /\ new_constant_nodes' = <<>>
    BY <1>4, <1>6
  <2>5. \A z \in ToSet(entry'.nodes) \ folded' :
          /\ z \in ToSet(graph'.nodes)
          /\ graph'.kind[z] = entry'.kind[z] /\ graph'.inputs[z] = entry'.inputs[z]
    BY <2>2 DEF SameNodes
  <2>6. /\ graph'.inits = entry'.inits \union (folded' \ impure')
        /\ IsInjective(new_constant_nodes') /\ ToSet(new_constant_nodes') = folded' \intersect impure'
    BY <2>2, <2>3, <2>4
  <2>7. ~native' => graph'.nodes = entry'.nodes /\ graph'.kind = entry'.kind /\ graph'.inputs = entry'.inputs
    BY <2>2, <2>4 DEF SameNodes
  <2>8. ~AtRest' /\ pc' # "done" /\ folded' \subseteq ToSet(const_nodes)'
        /\ graph'.inits \subseteq entry'.inits
    BY <2>2, <2>4 DEF AtRest
  <2>9. \A q \in 1 .. Len(const_nodes') : const_nodes'[q] \notin folded'
    BY <2>4
  <2> QED
    BY ONLY <2>2, <2>4, <2>5, <2>6, <2>7, <2>8, <2>9 DEF WorkInv
<1>10. TypeOK'
  <2>1. k' \in 1 .. Len(entry.nodes) + 1
    <3>1. Len(entry.nodes) \in Nat
      BY GraphFields DEF FoldInv, TypeOK
    <3> QED
      BY <1>4, <3>1
  <2>2. const_names' \subseteq Names /\ deferred' \subseteq Nodes
    BY <1>1 DEF FoldInv, TypeOK, ScanSorts, Names
  <2>3. const_nodes' \in Seq(Nodes) /\ i' \in 1 .. Len(const_nodes') + 1
    BY <1>5 DEF RangesInv
  <2>4. \A p \in DOMAIN stack' : FALSE
    BY <1>4, <1>6
  <2> QED
    BY <1>1, <1>3, <1>4, <2>1, <2>2, <2>3, <2>4 DEF FoldInv, TypeOK
<1> QED
  BY <1>2, <1>3, <1>5, <1>7, <1>8, <1>9, <1>10 DEF FoldInv

\* More fresh names given out, or a graph read less strictly, change nothing.
LEMMA SaneGiven ==
    ASSUME NEW g, NEW late, NEW given, NEW more, NEW bad, Sane(g, late, given, bad),
           given \subseteq more
    PROVE  Sane(g, late, more, bad)
BY DEF Sane

\* At the beginning of a round
RoundStart ==
    /\ graph \in Graphs /\ entry = graph /\ Sane(graph, ~native, survivors, broken)
    /\ pc = "scan" /\ k = 1
    /\ const_names = Seeds(graph) /\ pure_names = const_names
    /\ const_nodes = <<>> /\ deferred = {} /\ impure = {}
    /\ producers = {} /\ i = 1 /\ stack = <<>>
    /\ new_constant_nodes = <<>> /\ folded = {} /\ num_folded = 0
    /\ native \in BOOLEAN /\ asConstants \in BOOLEAN
    /\ broken \subseteq NodeIds /\ computed \subseteq NodeIds /\ weighty \subseteq NodeIds
    /\ flakes \in 0 .. MaxFlakes /\ flaky \in BOOLEAN /\ survivors \subseteq Fresh

\* A round begins as the invariant says.
LEMMA RoundStarts == RoundStart => FoldInv
<1> SUFFICES ASSUME RoundStart PROVE FoldInv
  OBVIOUS
<1>1. /\ graph.nodes \in Seq(Nodes) /\ Len(graph.nodes) \in Nat /\ graph.inits \in SUBSET Names
      /\ graph = [nodes |-> graph.nodes, kind |-> graph.kind, inputs |-> graph.inputs, inits |-> graph.inits]
      /\ DOMAIN graph.nodes = 1 .. Len(graph.nodes)
  BY GraphFields DEF RoundStart
<1>2. IsInjective(<<>>) /\ ToSet(<<>>) = {} /\ <<>> \in Seq(Nodes) /\ Len(<<>>) = 0
      /\ <<>> \in Seq(Nat \X Nat) /\ DOMAIN <<>> = {}
  BY DEF IsInjective, ToSet
<1>3. Seen = {}
  BY DEF RoundStart, Seen
<1>4. RangesInv
  BY <1>1, <1>2 DEF RoundStart, RangesInv
<1>5. PhaseInv
  BY <1>2 DEF RoundStart, PhaseInv, AtRest, Contiguous
<1>6. PartitionInv
  BY <1>2, <1>3 DEF RoundStart, PartitionInv
<1>7. GraphsInv
  BY DEF RoundStart, GraphsInv, AtRest
<1>8. WorkInv
  <2>1. SameNodes
    BY DEF RoundStart, SameNodes
  <2> QED
    BY <1>2, <2>1 DEF RoundStart, WorkInv, AtRest
<1>9. AnchorInv
  <2>1. ASSUME NEW p \in 1 .. Len(graph.nodes), p # 1
        PROVE  Precedes(graph.nodes, graph.nodes[1], graph.nodes[p])
    <3>1. 1 \in DOMAIN graph.nodes /\ p \in DOMAIN graph.nodes /\ 1 < p
      BY <1>1, <2>1
    <3> QED
      BY <3>1 DEF Precedes
  <2> QED
    BY <2>1 DEF RoundStart, AnchorInv
<1>10. TypeOK
  <2>1. const_names \subseteq Names /\ i \in 1 .. Len(const_nodes) + 1 /\ k \in 1 .. Len(entry.nodes) + 1
    BY <1>1, <1>2 DEF RoundStart, Seeds
  <2> QED
    BY <1>2, <2>1 DEF RoundStart, TypeOK
<1> QED
  BY <1>4, <1>5, <1>6, <1>7, <1>8, <1>9, <1>10 DEF FoldInv

\* The next one begins like the first.
LEMMA NextRoundStarts ==
    ASSUME FoldInv, NextRound
    PROVE  RoundStart'
<1>1. PICK small \in SUBSET {n \in ToSet(graph.nodes) : graph.kind[n] \in Large} : BeginRound(small)
  BY DEF NextRound
<1> DEFINE g == [graph EXCEPT !.kind = [n \in Nodes |-> IF n \in small THEN "op" ELSE graph.kind[n]]]
<1>2. graph' = g /\ entry' = g
  BY <1>1, Zenon DEF BeginRound
<1>3. /\ graph \in Graphs /\ Sane(graph, FALSE, survivors, broken) /\ broken \subseteq Nodes
  BY DEF FoldInv, TypeOK, GraphsInv, NextRound, AtRest, Nodes
<1>4. g \in Graphs /\ Sane(g, ~native, survivors, broken)
  BY <1>3, SaneSmall
<1> HIDE DEF g
<1> QED
  <2>1. /\ const_names' = Seeds(graph)' /\ pure_names' = const_names'
        /\ pc' = "scan" /\ k' = 1
        /\ const_nodes' = <<>> /\ deferred' = {} /\ impure' = {}
        /\ producers' = {} /\ i' = 1 /\ stack' = <<>>
        /\ new_constant_nodes' = <<>> /\ folded' = {} /\ num_folded' = 0
        /\ flaky' = FALSE
        /\ UNCHANGED <<native, asConstants, broken, computed, weighty, flakes, survivors>>
    BY <1>1 DEF BeginRound, Seeds, config
  <2> QED
    BY <1>2, <1>4, <2>1 DEF RoundStart, FoldInv, TypeOK

\* So the invariant holds again.
LEMMA NextRoundKeeps ==
    ASSUME FoldInv, NextRound
    PROVE  FoldInv'
<1>1. RoundStart'
  BY NextRoundStarts
<1> QED
  BY <1>1, RoundStarts, PTL

\* The model that is handed in begins the first round.
LEMMA FirstRound == Init => RoundStart
<1> SUFFICES ASSUME Init PROVE RoundStart
  OBVIOUS
<1>1. PICK w \in WiringChoices, kd \in KindChoices : graph = InputGraph(w, kd) /\ Legal(graph, native)
  BY DEF Init
<1> DEFINE kinds == [n \in Nodes |-> IF n \in NodeIds THEN kd[n] ELSE "op"]
           reads == [n \in Nodes |->
                       IF n \in Fresh \/ kd[n] \in Constants THEN {} ELSE w[n]]
<1>2. graph = [nodes |-> Order, kind |-> kinds, inputs |-> reads, inits |-> Weights]
  BY <1>1 DEF InputGraph
<1>3. w \in [NodeIds -> SUBSET Names] /\ kd \in [NodeIds -> Kinds]
  <2>1. w \in Wirings
    BY ChoicesFit
  <2>2. \A S : S \in (SUBSET Names) \ {{}} => S \in SUBSET Names
    OBVIOUS
  <2> QED
    BY <2>1, <2>2, ChoicesFit DEF Wirings
<1>4. kinds \in [Nodes -> Kinds]
  <2>1. "op" \in Kinds
    BY DEF Kinds
  <2> QED
    BY <1>3, <2>1
<1>5. reads \in [Nodes -> SUBSET Names]
  BY <1>3 DEF Nodes
<1>6. Order \in Seq(NodeIds) /\ IsInjective(Order) /\ ToSet(Order) = NodeIds /\ Order \in Seq(Nodes)
  BY OrderListsNodes DEF Nodes
<1>7. \A n \in NodeIds : /\ kinds[n] = kd[n] /\ (kd[n] \in Constants => reads[n] = {})
  BY DEF Nodes
<1> HIDE DEF kinds, reads
<1>8. /\ graph.nodes = Order /\ graph.kind = kinds /\ graph.inputs = reads /\ graph.inits = Weights
      /\ graph \in Graphs
  BY <1>2, <1>4, <1>5, <1>6 DEF Graphs, Names
<1>9. \A n \in NodeIds : \A x \in reads[n] :
        \/ x \in GraphInputs \union Weights \/ Precedes(Order, x, n)
        \/ ~native /\ x \in NodeIds /\ kinds[x] = "constant"
  <2> SUFFICES ASSUME NEW n \in NodeIds, NEW x \in reads[n]
               PROVE  \/ x \in GraphInputs \union Weights \/ Precedes(Order, x, n)
                      \/ ~native /\ x \in NodeIds /\ kinds[x] = "constant"
    OBVIOUS
  <2>1. x \in GraphInputs \union Weights \union Before(graph, n)
            \union {c \in NodeIds \ {n} : ~native /\ graph.kind[c] = "constant"}
    BY <1>1, <1>8 DEF Legal
  <2>2. x \in Before(graph, n) => Precedes(Order, x, n)
    BY <1>8 DEF Before, Precedes
  <2> QED
    BY <1>8, <2>1, <2>2
<1>10. /\ NodeIds \intersect Weights = {} /\ NodeIds \intersect Fresh = {} /\ Weights \intersect Fresh = {}
       /\ GraphOutputs \subseteq GraphInputs \union Weights \union NodeIds
  BY NamesAreApart DEF Nodes, Names
<1>11. broken \subseteq NodeIds /\ \A n \in broken : kinds[n] # "transient"
  <2>1. broken \in BrokenChoices /\ \A n \in broken : graph.kind[n] \in {"op"} \union Large
    BY DEF Init
  <2> QED
    BY <1>8, <2>1, ChoicesFit DEF Large
<1>12. Sane(graph, ~native, {}, broken)
  BY <1>6, <1>7, <1>8, <1>9, <1>10, <1>11 DEF Sane
<1>13. computed \subseteq NodeIds /\ weighty \subseteq NodeIds
  BY DEF Init, Derived
<1>14. /\ native \in BOOLEAN /\ asConstants \in BOOLEAN
       /\ entry = graph /\ pc = "scan" /\ k = 1
       /\ const_names = (IF asConstants THEN Weights ELSE {}) /\ pure_names = const_names
       /\ const_nodes = <<>> /\ deferred = {} /\ impure = {}
       /\ producers = {} /\ i = 1 /\ stack = <<>>
       /\ new_constant_nodes = <<>> /\ folded = {} /\ num_folded = 0
       /\ flakes = 0 /\ flaky = FALSE /\ survivors = {}
  BY DEF Init
<1>15. flakes \in 0 .. MaxFlakes /\ const_names = Seeds(graph)
  BY <1>8, <1>14, BudgetsFit DEF Seeds
<1> QED
  BY <1>8, <1>11, <1>12, <1>13, <1>14, <1>15 DEF RoundStart

\* What TypeOK says of the ranges
RangesTyped ==
    /\ stack \in Seq(Nat \X Nat) /\ i \in 1 .. Len(const_nodes) + 1
    /\ \A p \in DOMAIN stack : 1 <= stack[p][1] /\ stack[p][1] < stack[p][2] /\ stack[p][2] <= i

\* is part of what RangesInv says.
LEMMA RangesAreTyped == RangesInv => RangesTyped
<1> SUFFICES ASSUME RangesInv PROVE RangesTyped
  OBVIOUS
<1>1. stack \in Seq(Nat \X Nat) /\ i \in 1 .. Len(const_nodes) + 1 /\ DOMAIN stack = 1 .. Len(stack)
  BY DEF RangesInv
<1>2. \A p \in 1 .. Len(stack) : 1 <= stack[p][1] /\ stack[p][1] < stack[p][2] /\ stack[p][2] <= i
  BY DEF RangesInv, InBatch
<1> QED
  BY <1>1, <1>2 DEF RangesTyped

\* The end of the scan, a new batch, a batch that fails, the end: nothing is folded.
LEMMA IdlesKeep ==
    ASSUME FoldInv, Idles
    PROVE  FoldInv'
<1>1. /\ graph' = graph /\ UNCHANGED <<const_names, pure_names, const_nodes, deferred, impure>>
      /\ folded' = folded /\ UNCHANGED <<native, asConstants, broken, computed, weighty>>
  BY IdlesEffect DEF partition, config
<1>2. UNCHANGED <<entry, k, new_constant_nodes, num_folded, survivors>>
  BY DEF Idles, ScanDone, NextBatch, GroupFails, Popped, Stop, Finished, vars, trouble
<1>3. RangesInv'
  <2>1. [Next]_vars
    BY DEF Idles, Next, Fold
  <2> QED
    BY <2>1, RangesKept DEF FoldInv
<1>4. PartitionInv'
  <2>1. PartitionInv
    BY DEF FoldInv
  <2> QED
    BY <1>1, <1>2, <2>1 DEF PartitionInv, Seen, Seeds
<1>5. /\ Contiguous' /\ Frontier' >= Frontier /\ Frontier \in Int /\ Frontier' \in Int
      /\ pc' \in {"scan", "fold", "rest", "done"} /\ (AtRest' <=> AtRest)
      /\ pc' = "scan" => pc = "scan" /\ stack' = stack /\ i' = i
      /\ pc' # "scan" => k = Len(entry.nodes) + 1
      /\ AtRest' => stack' = stack /\ i' = i
      /\ producers' \subseteq Nodes /\ flakes' \in 0 .. MaxFlakes /\ flaky' \in BOOLEAN
      /\ pc' = "done" => ~Changed
  <2>0. /\ RangesInv /\ Contiguous /\ pc \in {"scan", "fold", "rest", "done"}
        /\ pc # "scan" => k = Len(entry.nodes) + 1
        /\ pc = "done" => ~Changed
        /\ k \in 1 .. Len(entry.nodes) + 1 /\ Len(entry.nodes) \in Nat
        /\ producers \subseteq Nodes /\ flakes \in 0 .. MaxFlakes /\ flaky \in BOOLEAN
    BY GraphFields DEF FoldInv, PhaseInv, TypeOK, WorkInv
  <2>1. Frontier \in Int
    <3>1. stack # <<>> => Last(stack)[1] \in Nat
      BY <2>0, TopRange
    <3>2. i \in Nat
      BY <2>0 DEF RangesInv
    <3> QED
      BY <3>1, <3>2 DEF Frontier
  <2>2. CASE ScanDone
    <3>1. /\ pc = "scan" /\ pc' = "fold" /\ k > Len(entry.nodes) /\ UNCHANGED <<i, stack, flakes, flaky>>
          /\ producers' \subseteq ToSet(graph.nodes)
      BY <2>2 DEF ScanDone, trouble
    <3>2. Contiguous' /\ Frontier' = Frontier
      BY <2>0, <3>1 DEF Contiguous, Frontier
    <3>3. ToSet(graph.nodes) \subseteq Nodes
      BY GraphFields DEF FoldInv, TypeOK
    <3> QED
      BY <2>0, <2>1, <3>1, <3>2, <3>3 DEF AtRest
  <2>3. CASE NextBatch
    <3>1. pc = "fold" /\ UNCHANGED <<pc, producers, flakes, flaky>>
      BY <2>3 DEF NextBatch, trouble
    <3> QED
      BY <2>0, <2>1, <2>3, <3>1, BatchStack DEF AtRest
  <2>4. CASE GroupFails
    <3>1. /\ pc = "fold" /\ UNCHANGED <<pc, producers, i>> /\ stack # <<>>
          /\ stack' = Front(stack) \o Bisected(Last(stack))
          /\ \/ UNCHANGED <<flakes, flaky>>
             \/ flakes < MaxFlakes /\ flakes' = flakes + 1 /\ flaky' = TRUE
      BY <2>4 DEF GroupFails, Popped
    <3>2. Contiguous' /\ (Frontier' = Frontier \/ Frontier' = Frontier + 1)
      BY <2>0, <3>1, BisectedStack
    <3>3. flakes' \in 0 .. MaxFlakes
      <4>1. MaxFlakes \in Nat
        BY BudgetsFit
      <4> QED
        BY ONLY <2>0, <3>1, <4>1
    <3>4. flaky' \in BOOLEAN
      BY <2>0, <3>1, Zenon
    <3> QED
      BY <2>0, <2>1, <3>1, <3>2, <3>3, <3>4 DEF AtRest
  <2>5. CASE Stop
    <3>1. pc = "rest" /\ pc' = "done" /\ ~Changed /\ UNCHANGED <<i, stack, producers, flakes, flaky>>
      BY <2>5 DEF Stop, trouble
    <3>2. Contiguous' /\ Frontier' = Frontier
      BY <2>0, <3>1 DEF Contiguous, Frontier
    <3> QED
      BY <2>0, <2>1, <3>1, <3>2 DEF AtRest
  <2>6. CASE UNCHANGED vars
    <3>1. UNCHANGED <<pc, i, stack, producers, flakes, flaky>>
      BY <2>6 DEF vars, trouble
    <3>2. Contiguous' /\ Frontier' = Frontier
      BY <2>0, <3>1 DEF Contiguous, Frontier
    <3> QED
      BY <2>0, <2>1, <3>1, <3>2 DEF AtRest
  <2> QED
    BY <2>2, <2>3, <2>4, <2>5, <2>6 DEF Idles, Finished
<1>6. PhaseInv'
  BY <1>1, <1>2, <1>5 DEF FoldInv, PhaseInv
<1>7. GraphsInv'
  BY <1>1, <1>2, <1>5 DEF FoldInv, GraphsInv
<1>8. AnchorInv'
  BY <1>1, <1>2, <1>5 DEF FoldInv, AnchorInv
<1>9. WorkInv'
  <2>1. WorkInv
    BY DEF FoldInv
  <2>2. \A q \in 1 .. Len(const_nodes') : q >= Frontier' => const_nodes'[q] \notin folded'
    BY <1>1, <1>5, <2>1 DEF WorkInv
  <2>3. SameNodes' = SameNodes /\ Changed' = Changed
    BY <1>1, <1>2 DEF SameNodes, Changed
  <2>4. pc' = "scan" => SameNodes'
    BY <1>5, <2>1, <2>3 DEF WorkInv
  <2>5. /\ graph' = graph /\ entry' = entry /\ native' = native /\ folded' = folded /\ impure' = impure
        /\ new_constant_nodes' = new_constant_nodes /\ num_folded' = num_folded
        /\ const_nodes' = const_nodes /\ (AtRest' <=> AtRest) /\ (pc' = "done" => ~Changed)
    BY <1>1, <1>2, <1>5
  <2> QED
    BY ONLY <2>1, <2>2, <2>3, <2>4, <2>5 DEF WorkInv
<1>10. TypeOK'
  <2>1. RangesTyped'
    BY <1>3, RangesAreTyped, PTL
  <2>2. /\ flakes' \in 0 .. MaxFlakes /\ flaky' \in BOOLEAN /\ producers' \subseteq Nodes
        /\ pc' \in {"scan", "fold", "rest", "done"}
    BY <1>5
  <2>3. TypeOK
    BY DEF FoldInv
  <2> QED
    BY ONLY <1>1, <1>2, <2>1, <2>2, <2>3 DEF TypeOK, RangesTyped
<1> QED
  BY <1>3, <1>4, <1>6, <1>7, <1>8, <1>9, <1>10 DEF FoldInv

\* The nodes of the range on top: some nodes of const_nodes, none folded yet and
\* none behind the range.
LEMMA OpsFacts ==
    ASSUME FoldInv, stack # <<>>, NEW ops, ops = OpsIn(Last(stack))
    PROVE  /\ ops \subseteq ToSet(const_nodes) /\ ops \subseteq Nodes /\ ops \intersect folded = {}
           /\ IsFiniteSet(ops) /\ Cardinality(ops) \in Nat /\ Cardinality(ops) > 0
           /\ \A q \in 1 .. Len(const_nodes) : q >= Last(stack)[2] => const_nodes[q] \notin ops
           /\ \A q \in 1 .. Len(const_nodes) :
                const_nodes[q] \in ops <=> Last(stack)[1] <= q /\ q < Last(stack)[2]
<1> DEFINE a == Last(stack)[1]
           b == Last(stack)[2]
           n == Len(const_nodes)
<1>1. a \in Nat /\ b \in Nat /\ 1 <= a /\ a < b /\ b <= n + 1 /\ n \in Nat /\ RangesInv /\ WorkInv
  BY TopRange DEF FoldInv
<1>2. const_nodes \in Seq(Nodes) /\ IsInjective(const_nodes) /\ DOMAIN const_nodes = 1 .. n
  BY DEF FoldInv, TypeOK, PartitionInv
<1>3. ops = {const_nodes[p] : p \in a .. b - 1}
  BY DEF OpsIn
<1>4. Frontier = a
  BY DEF Frontier
<1> HIDE DEF a, b
<1>5. a .. b - 1 \subseteq 1 .. n /\ a \in a .. b - 1
  BY <1>1
<1>6. ops \subseteq ToSet(const_nodes)
  BY <1>2, <1>3, <1>5 DEF ToSet
<1>7. ToSet(const_nodes) \subseteq Nodes
  BY <1>2 DEF ToSet
<1>8. ops \intersect folded = {}
  <2>1. \A q \in a .. b - 1 : const_nodes[q] \notin folded
    <3>1. \A q \in a .. b - 1 : q \in 1 .. n /\ q >= a
      BY <1>1, <1>5
    <3> QED
      BY <1>1, <1>4, <3>1 DEF WorkInv
  <2> QED
    BY <1>3, <2>1
<1>9. \A q \in 1 .. n : const_nodes[q] \in ops <=> a <= q /\ q < b
  <2>1. \A q \in 1 .. n : q \in a .. b - 1 <=> a <= q /\ q < b
    BY <1>1
  <2>2. \A q \in 1 .. n : const_nodes[q] \in ops <=> q \in a .. b - 1
    BY <1>2, <1>3, <1>5 DEF IsInjective
  <2> QED
    BY <2>1, <2>2
<1>10. \A q \in 1 .. n : q >= b => const_nodes[q] \notin ops
  BY <1>1, <1>9
<1>11. IsFiniteSet(ops)
  <2> DEFINE f == [p \in a .. b - 1 |-> const_nodes[p]]
             D == a .. b - 1
  <2>1. IsFiniteSet(D)
    BY <1>1, FS_Interval
  <2>2. f \in Surjection(D, ops)
    BY <1>3 DEF Surjection
  <2> HIDE DEF f, D
  <2> QED
    BY <2>1, <2>2, FS_Surjection
<1>12. ops # {}
  BY <1>3, <1>5
<1>13. Cardinality(ops) \in Nat /\ Cardinality(ops) # 0
  BY <1>11, <1>12, FS_CardinalityType, FS_EmptySet
<1>14. Cardinality(ops) > 0
  BY <1>13
<1> QED
  BY <1>6, <1>7, <1>8, <1>9, <1>10, <1>11, <1>13, <1>14 DEF a, b

\* The ModelProto folder puts the Constants aside in the order of const_nodes.
LEMMA PutAside ==
    ASSUME NEW X, NEW s \in Seq(X), IsInjective(s), NEW t \in Seq(X), IsInjective(t), NEW S,
           S \subseteq ToSet(s), ToSet(t) \intersect S = {}
    PROVE  /\ t \o Only(S, s) \in Seq(X) /\ IsInjective(t \o Only(S, s))
           /\ ToSet(t \o Only(S, s)) = ToSet(t) \union S
<1>1. /\ Only(S, s) \in Seq(X) /\ IsInjective(Only(S, s))
      /\ ToSet(Only(S, s)) = ToSet(s) \intersect S
  BY OnlyKeeps
<1> DEFINE o == Only(S, s)
<1>2. o \in Seq(X) /\ IsInjective(o) /\ ToSet(o) = S
  BY <1>1
<1> HIDE DEF o
<1>3. /\ t \o o \in Seq(X) /\ ToSet(t \o o) = ToSet(t) \union ToSet(o)
      /\ IsInjective(t) /\ IsInjective(o) /\ ToSet(t) \intersect ToSet(o) = {} => IsInjective(t \o o)
  BY <1>2, Joined
<1> QED
  BY <1>2, <1>3 DEF o

\* What a batch that folds leaves of WorkInv and of the graph.
LEMMA FoldsGraph ==
    ASSUME FoldInv, pc = "fold", NEW ops, ops \subseteq ToSet(const_nodes), ops \subseteq Nodes,
           ops \intersect folded = {}, Materialise(ops), folded' = folded \union ops,
           UNCHANGED <<config, entry, pc, k, partition>>
    PROVE  /\ graph' \in Graphs /\ survivors \subseteq survivors' /\ survivors' \subseteq Fresh
           /\ producers' \subseteq Nodes /\ new_constant_nodes' \in Seq(Nodes)
           /\ native => Sane(graph', FALSE, survivors', broken)
           /\ graph'.inits = entry.inits \union (folded' \ impure)
           /\ ~native => /\ graph'.nodes = entry.nodes /\ graph'.kind = entry.kind
                         /\ graph'.inputs = entry.inputs
                         /\ IsInjective(new_constant_nodes')
                         /\ ToSet(new_constant_nodes') = folded' \intersect impure
           /\ native => \A n \in ToSet(entry.nodes) \ folded' :
                /\ n \in ToSet(graph'.nodes)
                /\ graph'.kind[n] = entry.kind[n] /\ graph'.inputs[n] = entry.inputs[n]
<1>1. /\ graph \in Graphs /\ entry \in Graphs /\ const_nodes \in Seq(Nodes) /\ IsInjective(const_nodes)
      /\ survivors \subseteq Fresh /\ broken \subseteq Nodes /\ producers \subseteq Nodes
      /\ new_constant_nodes \in Seq(Nodes) /\ impure \subseteq Nodes
  BY DEF FoldInv, TypeOK, PartitionInv, Nodes
<1>2. /\ graph.inits = entry.inits \union (folded \ impure)
      /\ ~native => /\ graph.nodes = entry.nodes /\ graph.kind = entry.kind
                    /\ graph.inputs = entry.inputs
                    /\ IsInjective(new_constant_nodes)
                    /\ ToSet(new_constant_nodes) = folded \intersect impure
      /\ native => \A n \in ToSet(entry.nodes) \ folded :
           /\ n \in ToSet(graph.nodes)
           /\ graph.kind[n] = entry.kind[n] /\ graph.inputs[n] = entry.inputs[n]
  BY DEF FoldInv, WorkInv, AtRest
<1>3. ToSet(const_nodes) \subseteq ToSet(entry.nodes)
  <2>1. k \in 1 .. Len(entry.nodes) + 1 /\ entry.nodes \in Seq(Nodes) /\ Len(entry.nodes) \in Nat
    BY <1>1, GraphFields DEF FoldInv, TypeOK
  <2>2. \A q \in 1 .. k - 1 : q \in DOMAIN entry.nodes
    BY <2>1
  <2> QED
    BY <2>2 DEF FoldInv, PartitionInv, Seen, ToSet
<1>4. CASE ~native
  <2>1. AddFolded(ops)
    BY <1>4 DEF Materialise
  <2>2. /\ graph' = [graph EXCEPT !.inits = graph.inits \union (ops \ impure)]
        /\ new_constant_nodes' = new_constant_nodes \o Only(ops \intersect impure, const_nodes)
        /\ producers' = producers \union (ops \intersect impure)
        /\ survivors' = survivors
    BY <2>1 DEF AddFolded
  <2> DEFINE S == ops \intersect impure
  <2>3. S \subseteq ToSet(const_nodes) /\ ToSet(new_constant_nodes) \intersect S = {}
    BY <1>2, <1>4
  <2> HIDE DEF S
  <2>4. /\ new_constant_nodes \o Only(S, const_nodes) \in Seq(Nodes)
        /\ IsInjective(new_constant_nodes \o Only(S, const_nodes))
        /\ ToSet(new_constant_nodes \o Only(S, const_nodes)) = ToSet(new_constant_nodes) \union S
    BY <1>1, <1>2, <1>4, <2>3, PutAside
  <2>5. /\ graph'.nodes = graph.nodes /\ graph'.kind = graph.kind /\ graph'.inputs = graph.inputs
        /\ graph'.inits = graph.inits \union (ops \ impure) /\ graph' \in Graphs
    <3>1. graph.inits \union (ops \ impure) \subseteq Names
      BY <1>1, GraphFields DEF Names
    <3> QED
      BY <1>1, <2>2, <3>1 DEF Graphs
  <2> QED
    BY <1>1, <1>2, <1>4, <2>2, <2>4, <2>5 DEF S
<1>5. CASE native
  <2>1. PICK kept \in SUBSET ops : \E name \in [kept -> Fresh \ survivors] :
                 IsInjective(name) /\ Splice(ops, kept, name)
    BY <1>5 DEF Materialise
  <2>2. PICK name \in [kept -> Fresh \ survivors] : IsInjective(name) /\ Splice(ops, kept, name)
    BY <2>1
  <2>3. Sane(graph, FALSE, survivors, broken) /\ Sane(entry, ~native, survivors, broken)
    BY <1>5 DEF FoldInv, GraphsInv
  <2>4. ops \subseteq ToSet(graph.nodes)
    BY <1>2, <1>3, <1>5
  <2>5. /\ graph' \in Graphs /\ Sane(graph', FALSE, survivors', broken)
        /\ survivors \subseteq survivors' /\ survivors' \subseteq Fresh
        /\ graph'.inits = graph.inits \union (ops \ impure)
        /\ \A n \in Nodes : n \notin ops /\ (n \in Fresh => n \in survivors) =>
                /\ graph'.kind[n] = graph.kind[n] /\ graph'.inputs[n] = graph.inputs[n]
                /\ n \in ToSet(graph.nodes) => n \in ToSet(graph'.nodes)
    BY <1>1, <2>2, <2>3, <2>4, SaneSpliced
  <2>6. new_constant_nodes' = new_constant_nodes /\ producers' \subseteq Nodes
    BY <1>1, <2>2 DEF Splice
  <2>7. \A n \in ToSet(entry.nodes) : n \in Nodes /\ (n \in Fresh => n \in survivors)
    BY <1>1, <2>3, GraphFields DEF Sane
  <2> QED
    BY <1>1, <1>2, <1>5, <2>5, <2>6, <2>7
<1> QED
  BY <1>4, <1>5

\* A batch that folds keeps it all.
LEMMA GroupFoldsKeep ==
    ASSUME FoldInv, GroupFolds
    PROVE  FoldInv'
<1> DEFINE ops == OpsIn(Last(stack))
<1>1. /\ pc = "fold" /\ stack # <<>> /\ Materialise(ops) /\ folded' = folded \union ops
      /\ stack' = Front(stack) /\ UNCHANGED <<config, entry, pc, k, partition, i>>
      /\ num_folded' = num_folded + Cardinality(ops) /\ UNCHANGED <<flakes, flaky>>
  BY DEF GroupFolds, Popped
<1>2. /\ ops \subseteq ToSet(const_nodes) /\ ops \subseteq Nodes /\ ops \intersect folded = {}
      /\ Cardinality(ops) \in Nat /\ Cardinality(ops) > 0
      /\ \A q \in 1 .. Len(const_nodes) : q >= Last(stack)[2] => const_nodes[q] \notin ops
  BY <1>1, OpsFacts
<1> HIDE DEF ops
<1>3. UNCHANGED <<native, asConstants, broken, computed, weighty, entry, pc, k, const_names,
                  pure_names, const_nodes, deferred, impure, i>>
  BY <1>1 DEF config, partition
<1>4. /\ graph' \in Graphs /\ survivors \subseteq survivors' /\ survivors' \subseteq Fresh
      /\ producers' \subseteq Nodes /\ new_constant_nodes' \in Seq(Nodes)
      /\ native => Sane(graph', FALSE, survivors', broken)
      /\ graph'.inits = entry.inits \union (folded' \ impure)
      /\ ~native => /\ graph'.nodes = entry.nodes /\ graph'.kind = entry.kind
                    /\ graph'.inputs = entry.inputs
                    /\ IsInjective(new_constant_nodes')
                    /\ ToSet(new_constant_nodes') = folded' \intersect impure
      /\ native => \A n \in ToSet(entry.nodes) \ folded' :
           /\ n \in ToSet(graph'.nodes)
           /\ graph'.kind[n] = entry.kind[n] /\ graph'.inputs[n] = entry.inputs[n]
  BY <1>1, <1>2, FoldsGraph
<1>5. RangesInv'
  <2>1. [Next]_vars
    BY DEF Next, Fold
  <2> QED
    BY <2>1, RangesKept DEF FoldInv
<1>6. Contiguous' /\ Frontier' = Last(stack)[2] /\ Frontier = Last(stack)[1]
  BY <1>1, PoppedStack DEF FoldInv, PhaseInv
<1>7. Last(stack)[1] \in Nat /\ Last(stack)[2] \in Nat /\ Last(stack)[1] < Last(stack)[2]
  BY <1>1, TopRange DEF FoldInv
<1>8. PhaseInv'
  BY <1>1, <1>3, <1>6 DEF FoldInv, PhaseInv, AtRest
<1>9. PartitionInv'
  <2>1. PartitionInv /\ Seen' = Seen /\ Seeds(entry)' = Seeds(entry)
    BY <1>3 DEF FoldInv, Seen, Seeds
  <2> QED
    BY <1>3, <2>1 DEF PartitionInv
<1>10. GraphsInv'
  <2>1. Sane(entry, ~native, survivors, broken)
    BY DEF FoldInv, GraphsInv
  <2>2. Sane(entry, ~native, survivors', broken)
    BY <1>4, <2>1, SaneGiven
  <2> QED
    BY <1>1, <1>3, <1>4, <2>2 DEF GraphsInv, AtRest
<1>11. WorkInv'
  <2>0. WorkInv /\ num_folded \in Nat
    BY DEF FoldInv, TypeOK
  <2>1. folded' \subseteq ToSet(const_nodes')
    BY <1>1, <1>2, <1>3, <2>0 DEF WorkInv
  <2>2. ASSUME NEW q \in 1 .. Len(const_nodes), q >= Frontier' PROVE const_nodes[q] \notin folded'
    <3>1. q >= Last(stack)[2]
      BY <1>6, <2>2
    <3>2. q >= Frontier
      BY <1>6, <1>7, <3>1
    <3> QED
      BY <1>1, <1>2, <2>0, <3>1, <3>2 DEF WorkInv
  <2>3. folded' # {} /\ num_folded' > 0
    <3>1. ops # {}
      BY <1>2, FS_EmptySet
    <3> QED
      BY <1>1, <1>2, <2>0, <3>1
  <2>4. /\ pc' = "fold" /\ ~AtRest' /\ native' = native /\ impure' = impure /\ entry' = entry
        /\ const_nodes' = const_nodes
    BY <1>1, <1>3 DEF AtRest
  <2>5. \A q \in 1 .. Len(const_nodes) : q >= Frontier' => const_nodes[q] \notin folded'
    BY <2>2
  <2> QED
    BY ONLY <1>4, <2>1, <2>5, <2>3, <2>4 DEF WorkInv
<1>12. AnchorInv'
  BY <1>1, <1>3 DEF AnchorInv
<1>13. TypeOK'
  <2>1. RangesTyped'
    BY <1>5, RangesAreTyped, PTL
  <2>2. TypeOK /\ folded \subseteq Nodes /\ num_folded \in Nat
    BY DEF FoldInv, TypeOK
  <2>3. UNCHANGED <<flakes, flaky>>
    BY <1>1
  <2>4. folded' \subseteq Nodes /\ num_folded' \in Nat
    BY <1>1, <1>2, <2>2
  <2> QED
    BY ONLY <1>3, <1>4, <2>1, <2>2, <2>3, <2>4 DEF TypeOK, RangesTyped
<1> QED
  BY <1>5, <1>8, <1>9, <1>10, <1>11, <1>12, <1>13 DEF FoldInv

\* The end of a round keeps it all.
LEMMA EndRoundKeeps ==
    ASSUME FoldInv, EndRound
    PROVE  FoldInv'
<1> DEFINE g == IF native THEN graph ELSE Rebuilt
<1>1. /\ pc = "fold" /\ stack = <<>> /\ i > Len(const_nodes) /\ pc' = "rest"
      /\ graph' = EliminateUnusedInitializer(g)
      /\ UNCHANGED <<config, entry, k, partition, producers, i, stack,
                     new_constant_nodes, folded, num_folded, trouble>>
  BY DEF EndRound
<1>2. UNCHANGED <<native, asConstants, broken, computed, weighty, entry, k, const_names, pure_names,
                  const_nodes, deferred, impure, producers, i, stack, new_constant_nodes, folded,
                  num_folded, flakes, flaky, survivors>>
  BY <1>1 DEF config, partition, trouble
<1>3. /\ graph \in Graphs /\ entry \in Graphs /\ broken \in SUBSET Nodes
      /\ new_constant_nodes \in Seq(Nodes) /\ i \in 1 .. Len(const_nodes) + 1 /\ Len(const_nodes) \in Nat
      /\ Sane(entry, ~native, survivors, broken) /\ (native => Sane(graph, FALSE, survivors, broken))
  <2>1. /\ graph \in Graphs /\ entry \in Graphs /\ broken \subseteq NodeIds
        /\ new_constant_nodes \in Seq(Nodes) /\ i \in 1 .. Len(const_nodes) + 1
        /\ const_nodes \in Seq(Nodes)
    BY DEF FoldInv, TypeOK
  <2>2. broken \in SUBSET Nodes /\ Len(const_nodes) \in Nat
    <3>1. NodeIds \subseteq Nodes
      BY DEF Nodes
    <3> QED
      BY <2>1, <3>1
  <2> QED
    BY <2>1, <2>2 DEF FoldInv, GraphsInv
<1>4. /\ graph.inits = entry.inits \union (folded \ impure) /\ folded \subseteq ToSet(const_nodes)
      /\ ~native => /\ graph.nodes = entry.nodes /\ graph.kind = entry.kind
                    /\ graph.inputs = entry.inputs
                    /\ IsInjective(new_constant_nodes)
                    /\ ToSet(new_constant_nodes) = folded \intersect impure
  BY <1>1 DEF FoldInv, WorkInv, AtRest
<1>5. folded \subseteq ToSet(entry.nodes) /\ \A n \in folded : entry.kind[n] # "constant"
  <2>1. k \in 1 .. Len(entry.nodes) + 1 /\ entry.nodes \in Seq(Nodes) /\ Len(entry.nodes) \in Nat
    BY <1>3, GraphFields DEF FoldInv, TypeOK
  <2>2. \A q \in 1 .. k - 1 : q \in DOMAIN entry.nodes
    BY <2>1
  <2>3. ToSet(const_nodes) \subseteq {n \in Seen : entry.kind[n] \in {"op", "transient"}}
    BY DEF FoldInv, PartitionInv
  <2> QED
    BY <1>4, <2>2, <2>3 DEF Seen, ToSet
<1>6. /\ g \in Graphs /\ Sane(g, FALSE, survivors, broken)
      /\ ~native => \A n \in folded : n \notin ToSet(g.nodes) \/ g.kind[n] = "constant"
  <2>1. CASE native
    BY <1>3, <2>1
  <2>2. CASE ~native
    <3>1. /\ Rebuilt \in Graphs /\ Sane(Rebuilt, FALSE, survivors, broken)
          /\ ToSet(Rebuilt.nodes) \intersect folded \subseteq impure
          /\ \A n \in folded \intersect impure : Rebuilt.kind[n] = "constant"
      BY <1>3, <1>4, <1>5, <2>2, SaneRebuilt
    <3> QED
      BY <2>2, <3>1
  <2> QED
    BY <2>1, <2>2
<1>7. native => g = graph
  OBVIOUS
<1> HIDE DEF g
<1>8. /\ graph' \in Graphs /\ Sane(graph', FALSE, survivors, broken) /\ graph'.inits \subseteq g.inits
      /\ graph'.nodes = g.nodes /\ graph'.kind = g.kind /\ graph'.inputs = g.inputs
  BY <1>1, <1>6, SaneSwept
<1>9. RangesInv'
  <2>1. [Next]_vars
    BY DEF Next, Fold
  <2> QED
    BY <2>1, RangesKept DEF FoldInv
<1>10. PhaseInv'
  <2>1. i = Len(const_nodes) + 1
    BY <1>1, <1>3
  <2> QED
    BY <1>1, <1>2, <2>1 DEF FoldInv, PhaseInv, AtRest, Contiguous
<1>11. PartitionInv'
  <2>1. PartitionInv /\ Seen' = Seen /\ Seeds(entry)' = Seeds(entry)
    BY <1>2 DEF FoldInv, Seen, Seeds
  <2> QED
    BY <1>2, <2>1 DEF PartitionInv
<1>12. GraphsInv'
  BY <1>1, <1>2, <1>3, <1>8 DEF GraphsInv, AtRest
<1>13. WorkInv'
  <2>0. WorkInv
    BY DEF FoldInv
  <2>1. \A q \in 1 .. Len(const_nodes) : q >= Frontier' => const_nodes[q] \notin folded
    BY <1>2, <2>0 DEF WorkInv, Frontier
  <2>2. native /\ folded = {} => SameNodes' /\ graph'.inits \subseteq entry.inits
    BY <1>2, <1>7, <1>8, <2>0 DEF WorkInv, SameNodes
  <2>3. ~native => \A n \in folded : n \notin ToSet(graph'.nodes) \/ graph'.kind[n] = "constant"
    BY <1>6, <1>8
  <2>4. /\ pc' = "rest" /\ AtRest' /\ folded \subseteq ToSet(const_nodes)
        /\ folded # {} => num_folded > 0
        /\ native' = native /\ entry' = entry /\ const_nodes' = const_nodes /\ folded' = folded
        /\ num_folded' = num_folded
    BY <1>1, <1>2, <2>0 DEF AtRest, WorkInv
  <2> QED
    BY ONLY <2>1, <2>2, <2>3, <2>4 DEF WorkInv
<1>14. AnchorInv'
  BY <1>1 DEF AnchorInv
<1>15. TypeOK'
  <2>1. RangesTyped'
    BY <1>9, RangesAreTyped, PTL
  <2>2. TypeOK /\ pc' \in {"scan", "fold", "rest", "done"} /\ graph' \in Graphs
    BY <1>1, <1>8 DEF FoldInv
  <2> QED
    BY ONLY <1>2, <2>1, <2>2 DEF TypeOK, RangesTyped
<1> QED
  BY <1>9, <1>10, <1>11, <1>12, <1>13, <1>14, <1>15 DEF FoldInv

\* Every step keeps it all.
LEMMA FoldInvKept ==
    ASSUME FoldInv, [Next]_vars
    PROVE  FoldInv'
<1>1. CASE Idles
  BY <1>1, IdlesKeep
<1>2. CASE GroupFolds
  BY <1>2, GroupFoldsKeep
<1>3. CASE EndRound
  BY <1>3, EndRoundKeeps
<1>4. CASE NextRound
  BY <1>4, NextRoundKeeps
<1>5. CASE \E n \in Nodes : ScanConstant(n) \/ ScanFoldable(n) \/ ScanDeferred(n) \/ ScanOther(n)
  <2>1. PICK n \in Nodes : ScanStep(n)
    BY <1>5 DEF ScanStep
  <2> QED
    BY <2>1, ScanKeeps
<1> QED
  BY <1>1, <1>2, <1>3, <1>4, <1>5, FoldingSteps

\* It holds throughout.
LEMMA FoldingInvariant == Spec => []FoldInv
<1>1. Init => FoldInv
  BY FirstRound, RoundStarts
<1>2. FoldInv /\ [Next]_vars => FoldInv'
  BY FoldInvKept
<1> QED
  BY <1>1, <1>2, PTL DEF Spec

\* What folding leaves is a model ONNX's checker accepts, on either path and
\* whichever folds fail: each name is defined once, and every node and output
\* finds what it reads, in the order RebuildNodeList or the splice gave the nodes.
THEOREM FoldingWellFormed == Spec => []WellFormed
<1>1. FoldInv => WellFormed
  <2> SUFFICES ASSUME FoldInv PROVE WellFormed
    OBVIOUS
  <2>1. TypeOK
    BY DEF FoldInv
  <2> SUFFICES ASSUME AtRest
               PROVE  /\ IsInjective(graph.nodes)
                      /\ ToSet(graph.nodes) \intersect graph.inits = {}
                      /\ \A n \in ToSet(graph.nodes) :
                           graph.inputs[n] \subseteq GraphInputs \union graph.inits \union Before(graph, n)
                      /\ GraphOutputs \subseteq GraphInputs \union graph.inits \union ToSet(graph.nodes)
    BY <2>1 DEF WellFormed
  <2>2. Sane(graph, FALSE, survivors, broken)
    BY DEF FoldInv, GraphsInv
  <2>3. \A x, n : Precedes(graph.nodes, x, n) => x \in Before(graph, n)
    BY DEF Precedes, Before
  <2> QED
    BY <2>2, <2>3 DEF Sane
<1> QED
  BY <1>1, FoldingInvariant, PTL

-----------------------------------------------------------------------------
(* Folding one node at a time *)

\* n can be computed in g from what is in have and comes before it.
Computable(g, n, have) ==
    \/ g.kind[n] = "constant"
    \/ /\ g.kind[n] \in {"op", "transient", "defer"} /\ n \notin broken
       /\ \A x \in g.inputs[n] : x \in have /\ (x \in Seeds(g) \/ Precedes(g.nodes, x, n))

\* h[p] is what is there when the folder that runs one node at a time has come
\* to position p.
OneByOne(h, g) ==
    /\ h[0] = Seeds(g)
    /\ \A p \in 1 .. Len(g.nodes) :
         h[p] = h[p-1] \union {n \in {g.nodes[p]} : Ready(g, n, h[p-1])}

\* HaveOneByOne is where that ends.
LEMMA HaveSteps ==
    ASSUME NEW g \in Graphs
    PROVE  \E h : OneByOne(h, g) /\ HaveOneByOne(g) = h[Len(g.nodes)]
<1> DEFINE s == g.nodes
           N == Len(s)
           Def(u) == u = [p \in 0 .. N |-> IF p = 0 THEN IF asConstants THEN g.inits ELSE {}
                            ELSE u[p-1] \union {n \in {s[p]} : Ready(g, n, u[p-1])}]
           h == CHOOSE u : Def(u)
           X == SUBSET Names
           step == [x \in (1 .. N) \X X |-> x[2] \union {n \in {s[x[1]]} : Ready(g, n, x[2])}]
<1>0. s \in Seq(Nodes) /\ N \in Nat /\ Seeds(g) \in X
  BY GraphFields DEF Seeds
<1>1. HaveOneByOne(g) = h[N]
  BY DEF HaveOneByOne
<1>2. step \in [(1 .. N) \X X -> X]
  <2>1. ASSUME NEW x \in (1 .. N) \X X
        PROVE  x[2] \union {n \in {s[x[1]]} : Ready(g, n, x[2])} \in X
    <3>1. x[1] \in 1 .. N /\ x[2] \in X
      BY <2>1
    <3>2. s[x[1]] \in Nodes
      BY <1>0, <3>1
    <3>3. s[x[1]] \in Names
      BY <3>2 DEF Names
    <3> QED
      BY <3>1, <3>3
  <2> QED
    BY <2>1
<1>3. \A p \in 1 .. N : \A y \in X : step[<<p, y>>] = y \union {n \in {s[p]} : Ready(g, n, y)}
  OBVIOUS
<1> HIDE DEF N, step, s, X
<1>4. PICK f : Stepwise(f, X, Seeds(g), step, N)
  <2>1. N <= N
    BY <1>0
  <2> QED
    BY <1>0, <1>2, <2>1, StepwiseExists
<1>5. f \in [0 .. N -> X] /\ f[0] = Seeds(g) /\ \A p \in 1 .. N : f[p] = step[<<p, f[p - 1]>>]
  BY <1>4 DEF Stepwise
<1>6. \A p \in 1 .. N : p - 1 \in 0 .. N
  BY <1>0
<1>7. \A p \in 0 .. N : p # 0 => p \in 1 .. N
  BY <1>0
<1>8. Def(f)
  <2>1. ASSUME NEW p \in 0 .. N, p # 0
        PROVE  f[p] = f[p-1] \union {n \in {s[p]} : Ready(g, n, f[p-1])}
    BY <1>3, <1>5, <1>6, <1>7, <2>1
  <2> QED
    BY <1>5, <2>1 DEF Seeds
<1>9. Def(h)
  BY <1>8
<1> HIDE DEF h
<1>10. h[0] = Seeds(g) /\ \A p \in 1 .. N : h[p] = h[p-1] \union {n \in {s[p]} : Ready(g, n, h[p-1])}
  <2>1. 0 \in 0 .. N /\ \A p \in 1 .. N : p \in 0 .. N /\ p # 0
    BY <1>0
  <2> QED
    BY <1>9, <2>1 DEF Seeds
<1> QED
  BY <1>1, <1>10 DEF OneByOne, N, s

\* What is there stays there.
LEMMA OneByOneGrows ==
    ASSUME NEW g \in Graphs, NEW h, OneByOne(h, g), NEW p \in 0 .. Len(g.nodes),
           NEW q \in 0 .. Len(g.nodes), p <= q
    PROVE  h[p] \subseteq h[q]
<1> DEFINE N == Len(g.nodes)
           Bad == {m \in 0 .. N : p <= m /\ ~(h[p] \subseteq h[m])}
<1> SUFFICES ASSUME Bad # {} PROVE FALSE
  OBVIOUS
<1>0. N \in Nat /\ Bad \in SUBSET Nat
  BY GraphFields
<1>1. PICK m \in Bad : \A y \in Bad : m <= y
  <2> HIDE DEF Bad
  <2> QED
    BY <1>0, LeastNumber
<1>2. m # p /\ m \in 0 .. N /\ p \in 0 .. N /\ p <= m
  BY <1>1
<1>3. m \in 1 .. N /\ m - 1 \in 0 .. N /\ p <= m - 1 /\ m - 1 < m
  BY <1>0, <1>2
<1>4. h[p] \subseteq h[m - 1]
  BY <1>1, <1>3
<1>5. h[m - 1] \subseteq h[m]
  BY <1>3 DEF OneByOne
<1> QED
  BY <1>1, <1>4, <1>5

\* What is there was there before or ran when it was its turn.
LEMMA OneByOneRan ==
    ASSUME NEW g \in Graphs, NEW h, OneByOne(h, g), NEW p \in 0 .. Len(g.nodes),
           NEW x \in h[p], x \notin Seeds(g)
    PROVE  \E q \in 1 .. p : x = g.nodes[q] /\ Ready(g, x, h[q - 1])
<1> DEFINE N == Len(g.nodes)
           In == {m \in 0 .. p : x \in h[m]}
<1>0. N \in Nat /\ In \in SUBSET Nat /\ In # {} /\ p \in 0 .. N
  BY GraphFields
<1>1. PICK m \in In : \A y \in In : m <= y
  <2> HIDE DEF In
  <2> QED
    BY <1>0, LeastNumber
<1>2. m # 0 /\ m \in 0 .. p /\ x \in h[m]
  BY <1>1 DEF OneByOne
<1>3. m \in 1 .. N /\ m \in 1 .. p /\ m - 1 \in 0 .. p /\ m - 1 < m
  BY <1>0, <1>2
<1>4. x \notin h[m - 1]
  BY <1>1, <1>3
<1>5. h[m] = h[m-1] \union {n \in {g.nodes[m]} : Ready(g, n, h[m-1])}
  BY <1>3 DEF OneByOne
<1> QED
  BY <1>2, <1>3, <1>4, <1>5

\* What a folder that runs one node at a time ends up with.
LEMMA HaveIs ==
    ASSUME NEW g \in Graphs, IsInjective(g.nodes), ToSet(g.nodes) \intersect g.inits = {}
    PROVE  /\ Seeds(g) \subseteq HaveOneByOne(g)
           /\ HaveOneByOne(g) \subseteq Seeds(g) \union ToSet(g.nodes)
           /\ \A n \in ToSet(g.nodes) : n \in HaveOneByOne(g) <=> Computable(g, n, HaveOneByOne(g))
<1> DEFINE N == Len(g.nodes)
           H == HaveOneByOne(g)
<1>0. N \in Nat /\ DOMAIN g.nodes = 1 .. N /\ 0 \in 0 .. N /\ N \in 0 .. N
  BY GraphFields
<1>1. PICK h : OneByOne(h, g) /\ H = h[N]
  BY HaveSteps
<1> HIDE DEF H
<1>2. \A p \in 0 .. N : h[p] \subseteq H
  BY <1>0, <1>1, OneByOneGrows
<1>3. Seeds(g) \subseteq H
  BY <1>0, <1>1, <1>2 DEF OneByOne
<1>4. H \subseteq Seeds(g) \union ToSet(g.nodes)
  <2> SUFFICES ASSUME NEW x \in H, x \notin Seeds(g) PROVE x \in ToSet(g.nodes)
    OBVIOUS
  <2>1. \E q \in 1 .. N : x = g.nodes[q] /\ Ready(g, x, h[q - 1])
    BY <1>0, <1>1, OneByOneRan
  <2> QED
    BY <1>0, <2>1 DEF ToSet
<1>5. ASSUME NEW n \in ToSet(g.nodes) PROVE n \in H <=> Computable(g, n, H)
  <2>1. PICK r \in 1 .. N : n = g.nodes[r]
    BY <1>0 DEF ToSet
  <2>2. n \notin Seeds(g)
    BY DEF Seeds
  <2>3. r - 1 \in 0 .. N /\ r \in 0 .. N
    BY <1>0
  <2>4. \A q \in 1 .. N : g.nodes[q] = n => q = r
    BY <1>0, <2>1 DEF IsInjective
  <2>5. n \in H <=> Ready(g, n, h[r - 1])
    <3>1. n \in H => Ready(g, n, h[r - 1])
      <4>1. n \in H => \E q \in 1 .. N : n = g.nodes[q] /\ Ready(g, n, h[q - 1])
        BY <1>0, <1>1, <2>2, OneByOneRan
      <4> QED
        BY <2>4, <4>1
    <3>2. Ready(g, n, h[r - 1]) => n \in h[r]
      BY <1>1, <2>1 DEF OneByOne
    <3> QED
      BY <1>2, <2>3, <3>1, <3>2
  <2>6. ASSUME NEW x PROVE x \in h[r - 1] <=> x \in H /\ (x \in Seeds(g) \/ Precedes(g.nodes, x, n))
    <3>1. ASSUME x \in h[r - 1], x \notin Seeds(g) PROVE Precedes(g.nodes, x, n)
      <4>1. PICK q \in 1 .. r - 1 : x = g.nodes[q] /\ Ready(g, x, h[q - 1])
        BY <1>1, <2>3, <3>1, OneByOneRan
      <4>2. q \in DOMAIN g.nodes /\ r \in DOMAIN g.nodes /\ q < r
        BY <1>0
      <4> QED
        BY <2>1, <4>1, <4>2 DEF Precedes
    <3>2. x \in Seeds(g) => x \in h[r - 1]
      <4>1. h[0] \subseteq h[r - 1]
        BY <1>0, <1>1, <2>3, OneByOneGrows
      <4> QED
        BY <1>1, <4>1 DEF OneByOne
    <3>3. ASSUME x \in H, x \notin Seeds(g), Precedes(g.nodes, x, n) PROVE x \in h[r - 1]
      <4>1. PICK q \in DOMAIN g.nodes, t \in DOMAIN g.nodes : q < t /\ g.nodes[q] = x /\ g.nodes[t] = n
        BY <3>3 DEF Precedes
      <4>2. t = r /\ q \in 1 .. N /\ q < r
        BY <1>0, <2>4, <4>1
      <4>3. PICK u \in 1 .. N : x = g.nodes[u] /\ Ready(g, x, h[u - 1])
        BY <1>0, <1>1, <3>3, OneByOneRan
      <4>4. u = q
        BY <1>0, <4>1, <4>2, <4>3 DEF IsInjective
      <4>5. x \in h[q]
        BY <1>1, <4>2, <4>3, <4>4 DEF OneByOne
      <4>6. q \in 0 .. N /\ r - 1 \in 0 .. N /\ q <= r - 1
        BY <1>0, <4>2
      <4>7. h[q] \subseteq h[r - 1]
        BY <1>1, <4>6, OneByOneGrows
      <4> QED
        BY <4>5, <4>7
    <3> QED
      BY <1>2, <2>3, <3>1, <3>2, <3>3
  <2> QED
    BY <2>5, <2>6 DEF Ready, Computable
<1> QED
  BY <1>3, <1>4, <1>5 DEF H

\* The Constants this round began with
EntryConstants == {n \in ToSet(entry.nodes) : entry.kind[n] \in Constants}

\* What has been folded, and what a ModelProto round has come past without folding,
\* is what folding one node at a time would fold, and would not.
OneByOneInv ==
    /\ HaveOneByOne(entry) \intersect Seen \subseteq const_names
    /\ folded \subseteq HaveOneByOne(entry)
    /\ pc = "fold" => producers \subseteq EntryConstants \union folded
    /\ ~native \/ folded = {} =>
         /\ pc = "fold" => EntryConstants \union (folded \intersect impure) \subseteq producers
         /\ ~flaky => \A q \in 1 .. Len(const_nodes) :
              q < Frontier /\ const_nodes[q] \in HaveOneByOne(entry) => const_nodes[q] \in folded

\* The graph a round began with, and what can be computed in it.
LEMMA EntryFacts ==
    ASSUME FoldInv
    PROVE  /\ entry \in Graphs /\ entry.nodes \in Seq(Nodes) /\ IsInjective(entry.nodes)
           /\ DOMAIN entry.nodes = 1 .. Len(entry.nodes) /\ Len(entry.nodes) \in Nat
           /\ ToSet(entry.nodes) \intersect Seeds(entry) = {} /\ Seeds(entry) \subseteq entry.inits
           /\ ToSet(entry.nodes) \intersect entry.inits = {}
           /\ Seen \subseteq ToSet(entry.nodes) /\ (pc # "scan" => Seen = ToSet(entry.nodes))
           /\ EntryConstants \subseteq HaveOneByOne(entry)
           /\ Seeds(entry) \subseteq HaveOneByOne(entry)
           /\ \A n \in ToSet(entry.nodes) :
                n \in HaveOneByOne(entry) <=> Computable(entry, n, HaveOneByOne(entry))
<1>1. /\ entry \in Graphs /\ Sane(entry, ~native, survivors, broken) /\ k \in 1 .. Len(entry.nodes) + 1
      /\ pc # "scan" => k = Len(entry.nodes) + 1
  BY DEF FoldInv, TypeOK, GraphsInv, PhaseInv
<1>2. /\ entry.nodes \in Seq(Nodes) /\ DOMAIN entry.nodes = 1 .. Len(entry.nodes) /\ Len(entry.nodes) \in Nat
  BY <1>1, GraphFields
<1>3. IsInjective(entry.nodes) /\ ToSet(entry.nodes) \intersect entry.inits = {}
  BY <1>1 DEF Sane
<1>4. Seeds(entry) \subseteq entry.inits
  BY DEF Seeds
<1>5. Seen \subseteq ToSet(entry.nodes)
  <2>1. \A q \in 1 .. k - 1 : q \in DOMAIN entry.nodes
    BY <1>1, <1>2
  <2> QED
    BY <2>1 DEF Seen, ToSet
<1>6. pc # "scan" => Seen = ToSet(entry.nodes)
  <2>1. pc # "scan" => 1 .. k - 1 = DOMAIN entry.nodes
    BY <1>1, <1>2
  <2> QED
    BY <2>1 DEF Seen, ToSet
<1>7. /\ Seeds(entry) \subseteq HaveOneByOne(entry)
      /\ \A n \in ToSet(entry.nodes) :
           n \in HaveOneByOne(entry) <=> Computable(entry, n, HaveOneByOne(entry))
  BY <1>1, <1>3, HaveIs
<1>8. EntryConstants \subseteq HaveOneByOne(entry)
  <2> SUFFICES ASSUME NEW n \in EntryConstants PROVE Computable(entry, n, HaveOneByOne(entry))
    BY <1>7 DEF EntryConstants
  <2>1. n \in ToSet(entry.nodes) /\ entry.kind[n] \in Constants /\ entry.inputs[n] = {}
    BY <1>1 DEF EntryConstants, Sane
  <2>2. entry.kind[n] = "transient" => n \notin broken
    BY <1>1 DEF Sane
  <2> QED
    BY <2>1, <2>2 DEF Computable, Constants
<1> QED
  BY <1>1, <1>2, <1>3, <1>4, <1>5, <1>6, <1>7, <1>8

\* What the scan found to be constant and is not folded yet is as the round found it.
LEMMA StillThere ==
    ASSUME FoldInv, pc = "fold", NEW n \in ToSet(const_nodes) \union deferred, n \notin folded
    PROVE  /\ graph.inputs[n] = entry.inputs[n] /\ n \in ToSet(entry.nodes)
           /\ entry.kind[n] \in {"op", "transient", "defer"}
           /\ \A x \in entry.inputs[n] :
                x \in const_names /\ (x \in Seeds(entry) \/ Precedes(entry.nodes, x, n))
<1>1. n \in ToSet(entry.nodes) /\ entry.kind[n] \in {"op", "transient", "defer"}
  BY EntryFacts DEF FoldInv, PartitionInv
<1>2. graph.inputs[n] = entry.inputs[n]
  <2>1. /\ ~native => graph.inputs = entry.inputs
        /\ native => \A x \in ToSet(entry.nodes) \ folded : graph.inputs[x] = entry.inputs[x]
    BY DEF FoldInv, WorkInv, AtRest
  <2> QED
    BY <1>1, <2>1
<1> QED
  BY <1>1, <1>2 DEF FoldInv, PartitionInv

\* What is inlined reads, of what is deferred, only what is inlined.
LEMMA InlinedClosed ==
    ASSUME NEW ops, NEW n \in ops \union Inlined(ops)
    PROVE  graph.inputs[n] \intersect deferred \subseteq Inlined(ops)
<1> SUFFICES ASSUME NEW x \in graph.inputs[n] \intersect deferred, NEW S \in SUBSET deferred,
                    \A m \in ops \union S : graph.inputs[m] \intersect deferred \subseteq S
             PROVE  x \in S
  BY DEF Inlined
<1>1. n \in ops \union S
  BY DEF Inlined
<1> QED
  BY <1>1

\* Nodes that run together, and what is inlined for them, could run one by one.
LEMMA RunsAreSound ==
    ASSUME FoldInv, OneByOneInv, pc = "fold", stack # <<>>, Runs(Last(stack))
    PROVE  OpsIn(Last(stack)) \subseteq HaveOneByOne(entry)
<1> DEFINE ops == OpsIn(Last(stack))
           C == ops \union Inlined(ops)
           H == HaveOneByOne(entry)
           s == entry.nodes
<1>1. ops \subseteq ToSet(const_nodes) /\ ops \intersect folded = {}
  BY OpsFacts
<1>2. Fed(ops) /\ C \intersect broken = {}
  BY DEF Runs
<1>3. Inlined(ops) \subseteq deferred
  BY DEF Inlined
<1>4. C \subseteq ToSet(const_nodes) \union deferred /\ C \intersect folded = {}
  <2>1. /\ folded \subseteq ToSet(const_nodes)
        /\ \A x \in ToSet(const_nodes) : entry.kind[x] # "defer"
        /\ \A x \in deferred : entry.kind[x] = "defer"
    BY DEF FoldInv, WorkInv, PartitionInv
  <2> QED
    BY <1>1, <1>3, <2>1
<1>5. \A n \in C : graph.inputs[n] \subseteq ops \union deferred \union producers \union graph.inits
  BY <1>2 DEF Fed
<1>6. \A n \in C : graph.inputs[n] \intersect deferred \subseteq C
  BY InlinedClosed
<1> HIDE DEF C, ops
<1>7. /\ \A n \in C : /\ graph.inputs[n] = entry.inputs[n] /\ n \in ToSet(s)
                      /\ entry.kind[n] \in {"op", "transient", "defer"}
                      /\ \A x \in entry.inputs[n] :
                           x \in const_names /\ (x \in Seeds(entry) \/ Precedes(s, x, n))
  BY <1>4, StillThere
<1>8. /\ DOMAIN s = 1 .. Len(s) /\ Len(s) \in Nat
      /\ ToSet(s) \intersect entry.inits = {} /\ Seen \subseteq ToSet(s)
      /\ EntryConstants \subseteq H /\ Seeds(entry) \subseteq H
      /\ \A n \in ToSet(s) : n \in H <=> Computable(entry, n, H)
      /\ IsInjective(s)
  BY EntryFacts
<1>9. producers \subseteq H /\ folded \subseteq H
  BY <1>8 DEF OneByOneInv
<1>10. graph.inits \intersect const_names \subseteq H
  <2>1. graph.inits \subseteq entry.inits \union folded
    BY DEF FoldInv, WorkInv, AtRest
  <2>2. entry.inits \intersect const_names \subseteq Seeds(entry)
    BY <1>8 DEF FoldInv, PartitionInv
  <2> QED
    BY <1>8, <1>9, <2>1, <2>2
<1> DEFINE Bad == {p \in DOMAIN s : s[p] \in C /\ s[p] \notin H}
<1>11. CASE Bad = {}
  <2>1. \A n \in C : \E p \in DOMAIN s : s[p] = n
    BY <1>7 DEF ToSet
  <2>2. C \subseteq H
    BY <1>11, <2>1
  <2> QED
    BY <2>2 DEF C, ops
<1>12. CASE Bad # {}
  <2>1. Bad \in SUBSET Nat
    BY <1>8
  <2>2. PICK p \in Bad : \A y \in Bad : p <= y
    <3> HIDE DEF Bad
    <3> QED
      BY <1>12, <2>1, LeastNumber
  <2> DEFINE n == s[p]
  <2>3. n \in C /\ n \notin H /\ n \in ToSet(s) /\ p \in 1 .. Len(s)
    BY <1>7, <1>8, <2>2
  <2>4. \A x \in C : Precedes(s, x, n) => x \in H
    <3> SUFFICES ASSUME NEW x \in C, Precedes(s, x, n) PROVE x \in H
      OBVIOUS
    <3>1. PICK q \in DOMAIN s, r \in DOMAIN s : q < r /\ s[q] = x /\ s[r] = n
      BY DEF Precedes
    <3>2. r = p
      BY <1>8, <2>2, <3>1 DEF IsInjective
    <3>3. q \notin Bad
      BY <1>8, <2>1, <2>2, <3>1, <3>2
    <3> QED
      BY <3>1, <3>3
  <2>5. ASSUME NEW x \in entry.inputs[n] PROVE x \in H
    <3>1. /\ x \in ops \union deferred \union producers \union graph.inits /\ x \in const_names
          /\ x \in Seeds(entry) \/ Precedes(s, x, n)
          /\ x \in deferred => x \in C
      BY <1>5, <1>6, <1>7, <2>3
    <3>2. ops \subseteq C
      BY DEF C
    <3> QED
      BY <1>8, <1>9, <1>10, <2>4, <3>1, <3>2
  <2>6. Computable(entry, n, H)
    BY <1>2, <1>7, <2>3, <2>5 DEF Computable, C, ops
  <2> QED
    BY <1>8, <2>3, <2>6
<1> QED
  BY <1>11, <1>12

\* What a batch of one node needs is what EstimateOutputBytes says of it.
LEMMA OneNodeBytes ==
    ASSUME NEW a \in Nat, NEW b \in Nat, Bytes[const_nodes[a]] = b
    PROVE  BytesOf(a, a) = b
<1> DEFINE R == a .. a
           pick(s) == CHOOSE x \in s : TRUE
           Def(h) == h = [s \in SUBSET R |->
                             IF s = {} THEN 0 ELSE Bytes[const_nodes[pick(s)]] + h[s \ {pick(s)}]]
           h == CHOOSE g : Def(g)
           sum == [s \in SUBSET R |-> IF s = {} THEN 0 ELSE b]
<1>1. BytesOf(a, a) = h[R]
  BY DEF BytesOf, MapThenSumSet, MapThenFoldSet
<1>2. R = {a}
  OBVIOUS
<1>3. ASSUME NEW s \in SUBSET R, s # {} PROVE pick(s) = a /\ s \ {pick(s)} = {}
  <2>1. s = {a}
    BY <1>2, <1>3
  <2> QED
    BY <2>1
<1> HIDE DEF R, pick
<1>4. Def(sum)
  <2>1. \A s \in SUBSET R : s # {} => b = Bytes[const_nodes[pick(s)]] + sum[s \ {pick(s)}]
    BY <1>3
  <2> QED
    BY <2>1
<1>5. Def(h)
  BY <1>4
<1> HIDE DEF h
<1>6. h[{}] = 0 /\ h[R] = Bytes[const_nodes[pick(R)]] + h[R \ {pick(R)}]
  BY <1>2, <1>5
<1> QED
  BY <1>1, <1>2, <1>3, <1>6

\* A node that can be folded one by one runs when its turn comes.
LEMMA RunsAreComplete ==
    ASSUME FoldInv, OneByOneInv, pc = "fold", stack # <<>>, Last(stack)[2] = Last(stack)[1] + 1,
           ~native \/ folded = {}, ~flaky, const_nodes[Last(stack)[1]] \in HaveOneByOne(entry)
    PROVE  Runs(Last(stack))
<1> DEFINE a == Last(stack)[1]
           n == const_nodes[a]
           ops == OpsIn(Last(stack))
           H == HaveOneByOne(entry)
           s == entry.nodes
           S == {d \in deferred : d \in H /\ Precedes(s, d, n)}
<1>1. a \in Nat /\ 1 <= a /\ a + 1 <= Len(const_nodes) + 1 /\ Len(const_nodes) \in Nat
      /\ Last(stack)[2] = a + 1
  BY TopRange DEF FoldInv
<1>2. /\ const_nodes \in Seq(Nodes) /\ IsInjective(const_nodes) /\ DOMAIN const_nodes = 1 .. Len(const_nodes)
      /\ \A c, d \in DOMAIN const_nodes : c < d => Precedes(s, const_nodes[c], const_nodes[d])
      /\ const_names = Seeds(entry) \union {x \in Seen : entry.kind[x] = "constant"}
                       \union ToSet(const_nodes) \union deferred
  BY DEF FoldInv, TypeOK, PartitionInv
<1>3. a \in 1 .. Len(const_nodes) /\ n \in ToSet(const_nodes) /\ n \in Nodes
  BY <1>1, <1>2 DEF ToSet
<1>4. ops = {n}
  <2>1. \A p : p \in a .. (a + 1) - 1 <=> p = a
    BY <1>1
  <2> QED
    BY <1>1, <2>1 DEF OpsIn
<1>5. Frontier = a
  BY DEF Frontier
<1>6. ops \intersect folded = {}
  BY OpsFacts
<1>7. /\ entry.nodes \in Seq(Nodes) /\ IsInjective(s) /\ ToSet(s) \intersect Seeds(entry) = {}
      /\ Seeds(entry) \subseteq entry.inits /\ Seen \subseteq ToSet(s)
      /\ \A x \in ToSet(s) : x \in H <=> Computable(entry, x, H)
  BY EntryFacts
<1>8. /\ \A x \in ToSet(const_nodes) : entry.kind[x] # "defer"
      /\ \A x \in deferred : entry.kind[x] = "defer" /\ x \in ToSet(s)
      /\ folded \subseteq ToSet(const_nodes)
  BY EntryFacts DEF FoldInv, WorkInv, PartitionInv
<1> HIDE DEF a, n, ops, H, s
<1>9. /\ \A x, y : Precedes(s, x, y) => x \in ToSet(s) /\ y \in ToSet(s) /\ x # y
      /\ \A x, y, z : Precedes(s, x, y) /\ Precedes(s, y, z) => Precedes(s, x, z)
  BY <1>7, PrecedesOrder DEF s
\* What the node and what is deferred before it read
<1>10. ASSUME NEW m \in ops \union S
       PROVE  /\ m \notin broken /\ graph.inputs[m] = entry.inputs[m]
              /\ \A x \in graph.inputs[m] :
                   x \in H /\ x \in const_names /\ (x \in Seeds(entry) \/ Precedes(s, x, n))
  <2>1. m \in ToSet(const_nodes) \union deferred /\ m \notin folded /\ m \in H
    <3>1. n \in H
      BY DEF n, a, H
    <3> QED
      BY <1>3, <1>4, <1>6, <1>8, <3>1
  <2>2. /\ graph.inputs[m] = entry.inputs[m] /\ m \in ToSet(s)
        /\ entry.kind[m] \in {"op", "transient", "defer"}
        /\ \A x \in entry.inputs[m] : x \in const_names /\ (x \in Seeds(entry) \/ Precedes(s, x, m))
    BY <2>1, StillThere DEF s
  <2>3. m \notin broken /\ \A x \in entry.inputs[m] : x \in H
    BY <1>7, <2>1, <2>2 DEF Computable
  <2>4. m = n \/ Precedes(s, m, n)
    BY <1>4
  <2>5. \A x : Precedes(s, x, m) => Precedes(s, x, n)
    BY <1>9, <2>4
  <2> QED
    BY <2>2, <2>3, <2>5
<1>11. \A m \in ops \union S : graph.inputs[m] \intersect deferred \subseteq S
  <2> SUFFICES ASSUME NEW m \in ops \union S, NEW x \in graph.inputs[m] \intersect deferred PROVE x \in S
    OBVIOUS
  <2>1. x \in H /\ (x \in Seeds(entry) \/ Precedes(s, x, n))
    BY <1>10
  <2> QED
    BY <1>7, <1>8, <2>1
<1>12. Inlined(ops) \subseteq S
  <2>1. S \in SUBSET deferred
    OBVIOUS
  <2> HIDE DEF S
  <2> QED
    BY <1>11, <2>1 DEF Inlined
\* What was folded before is there.
<1>13. ASSUME NEW x \in ToSet(const_nodes), x \in H, Precedes(s, x, n) PROVE x \in folded
  <2>1. PICK q \in 1 .. Len(const_nodes) : const_nodes[q] = x
    BY <1>2 DEF ToSet
  <2>2. q < a
    <3>1. q # a
      BY <1>9, <1>13, <2>1 DEF n
    <3>2. ~(a < q)
      <4>1. a < q => Precedes(s, n, x)
        BY <1>2, <1>3, <2>1 DEF n
      <4> QED
        BY <1>9, <1>13, <4>1
    <3> QED
      BY <1>1, <3>1, <3>2
  <2> QED
    BY <1>5, <1>13, <2>1, <2>2 DEF OneByOneInv, H
<1>14. folded \subseteq producers \union graph.inits /\ entry.inits \subseteq graph.inits
       /\ EntryConstants \subseteq producers
  BY DEF OneByOneInv, FoldInv, WorkInv, AtRest
<1>15. ASSUME NEW m \in ops \union Inlined(ops), NEW x \in graph.inputs[m]
       PROVE  x \in ops \union deferred \union producers \union graph.inits
  <2>1. x \in H /\ x \in const_names /\ (x \in Seeds(entry) \/ Precedes(s, x, n))
    BY <1>10, <1>12
  <2>2. x \in Seen /\ entry.kind[x] = "constant" => x \in EntryConstants
    BY <1>7 DEF EntryConstants, Constants, s
  <2>3. x \in ToSet(const_nodes) => x \in folded \/ x \in Seeds(entry)
    BY <1>13, <2>1
  <2> QED
    BY <1>2, <1>7, <1>14, <2>1, <2>2, <2>3
<1>16. Fed(ops)
  BY <1>15 DEF Fed
<1>17. (ops \union Inlined(ops)) \intersect broken = {}
  BY <1>10, <1>12
<1>18. BytesOf(a, a) <= Capacity
  <2>1. Bytes[n] \in Nat /\ Bytes[n] <= Capacity
    BY <1>3, BudgetsFit
  <2>2. BytesOf(a, a) = Bytes[n]
    BY <1>1, <2>1, OneNodeBytes DEF n
  <2> QED
    BY <2>1, <2>2
<1>19. Last(stack)[1] = a /\ Last(stack)[2] - 1 = a
  <2>1. Last(stack)[1] = a
    BY DEF a
  <2> QED
    BY <1>1, <2>1
<1> QED
  BY <1>16, <1>17, <1>18, <1>19 DEF Runs, ops

\* At the beginning of a round there is nothing to say.
LEMMA OneByOneStarts == RoundStart => OneByOneInv
<1> SUFFICES ASSUME RoundStart PROVE OneByOneInv
  OBVIOUS
<1>1. Seen = {} /\ Len(const_nodes) = 0
  BY DEF RoundStart, Seen
<1> QED
  BY <1>1 DEF RoundStart, OneByOneInv

\* What can be computed in the graph a round began with does not change during the round.
LEMMA HaveStays ==
    ASSUME entry' = entry, asConstants' = asConstants, broken' = broken
    PROVE  /\ HaveOneByOne(entry)' = HaveOneByOne(entry) /\ EntryConstants' = EntryConstants
           /\ k' = k => Seen' = Seen
BY DEF HaveOneByOne, Ready, EntryConstants, Seen

\* A scan step finds what can be computed.
LEMMA ScanOneByOne ==
    ASSUME FoldInv, OneByOneInv, NEW n \in Nodes, ScanStep(n)
    PROVE  OneByOneInv'
<1> DEFINE H == HaveOneByOne(entry)
<1>1. ScanAlways(n) /\ ScanSorts(n)
  BY ScanSplits DEF FoldInv
<1>2. Seen' = Seen \union {n} /\ n \in ToSet(entry.nodes)
  BY <1>1, ScanPartition
<1>3. /\ pc = "scan" /\ k \in 1 .. Len(entry.nodes) /\ n = entry.nodes[k] /\ pc' = pc /\ entry' = entry
      /\ asConstants' = asConstants /\ broken' = broken /\ folded' = folded /\ stack' = stack /\ i' = i
      /\ graph.kind = entry.kind /\ graph.inputs = entry.inputs
      /\ stack = <<>> /\ i = 1 /\ folded = {}
  BY <1>1 DEF ScanAlways, FoldInv, PhaseInv, WorkInv, SameNodes
<1>4. HaveOneByOne(entry)' = H
  BY <1>3, HaveStays
<1>5. /\ IsInjective(entry.nodes) /\ DOMAIN entry.nodes = 1 .. Len(entry.nodes)
      /\ H \intersect Seen \subseteq const_names /\ Seeds(entry) \subseteq const_names
      /\ n \in H <=> Computable(entry, n, H)
  BY <1>2, EntryFacts DEF FoldInv, PartitionInv, OneByOneInv
<1> HIDE DEF H
<1>6. \A x : Precedes(entry.nodes, x, n) => x \in Seen
  <2> SUFFICES ASSUME NEW x, Precedes(entry.nodes, x, n) PROVE x \in Seen
    OBVIOUS
  <2>1. PICK q \in DOMAIN entry.nodes, r \in DOMAIN entry.nodes :
          q < r /\ entry.nodes[q] = x /\ entry.nodes[r] = n
    BY DEF Precedes
  <2>2. r = k
    BY <1>3, <1>5, <2>1 DEF IsInjective
  <2>3. q \in 1 .. k - 1
    BY <1>3, <1>5, <2>1, <2>2
  <2> QED
    BY <2>1, <2>3 DEF Seen
<1>7. n \in H => n \in const_names'
  <2>1. CASE n \in H /\ entry.kind[n] # "constant"
    <3>1. entry.kind[n] \in {"op", "transient", "defer"} /\ \A x \in entry.inputs[n] :
            x \in H /\ (x \in Seeds(entry) \/ Precedes(entry.nodes, x, n))
      BY <1>5, <2>1 DEF Computable
    <3>2. entry.inputs[n] \subseteq const_names
      BY <1>5, <1>6, <3>1
    <3> QED
      BY <1>1, <1>3, <3>1, <3>2 DEF ScanSorts
  <2>2. CASE entry.kind[n] = "constant"
    BY <1>1, <1>3, <2>2 DEF ScanSorts
  <2> QED
    BY <2>1, <2>2
<1>8. const_names \subseteq const_names'
  BY <1>1 DEF ScanSorts
<1>9. Frontier' = 1 /\ \A q \in 1 .. Len(const_nodes') : ~(q < 1)
  BY <1>3 DEF Frontier
<1>10. H \intersect Seen' \subseteq const_names'
  BY <1>2, <1>5, <1>7, <1>8
<1> QED
  BY <1>3, <1>4, <1>9, <1>10 DEF OneByOneInv

\* A batch that fails costs no node its fold; nor does any other step that folds nothing.
LEMMA IdlesOneByOne ==
    ASSUME FoldInv, OneByOneInv, Idles
    PROVE  OneByOneInv'
<1>1. /\ graph' = graph /\ UNCHANGED <<const_names, pure_names, const_nodes, deferred, impure>>
      /\ folded' = folded /\ UNCHANGED <<native, asConstants, broken, computed, weighty>>
  BY IdlesEffect DEF partition, config
<1>2. UNCHANGED <<entry, k>>
  BY DEF Idles, ScanDone, NextBatch, GroupFails, Popped, Stop, Finished, vars
<1>3. HaveOneByOne(entry)' = HaveOneByOne(entry) /\ EntryConstants' = EntryConstants /\ Seen' = Seen
  BY <1>1, <1>2, HaveStays
<1>4. OneByOneInv /\ RangesInv /\ Contiguous
  BY DEF FoldInv, PhaseInv
<1>5. CASE ScanDone
  <2>1. /\ pc = "scan" /\ UNCHANGED <<i, stack, flaky>> /\ producers' = {n \in ToSet(graph.nodes) : IsConstant(n)}
    BY <1>5 DEF ScanDone, trouble
  <2>2. producers' = EntryConstants /\ folded = {} /\ Frontier' = Frontier
    BY <2>1 DEF FoldInv, PhaseInv, WorkInv, SameNodes, EntryConstants, IsConstant, Frontier
  <2> QED
    BY <1>1, <1>3, <1>4, <2>1, <2>2 DEF OneByOneInv
<1>6. CASE NextBatch
  <2>1. UNCHANGED <<pc, producers, flaky>>
    BY <1>6 DEF NextBatch, trouble
  <2>2. Frontier' = Frontier
    BY <1>4, <1>6, BatchStack
  <2> QED
    BY <1>1, <1>3, <1>4, <2>1, <2>2 DEF OneByOneInv
<1>7. CASE GroupFails
  <2>1. /\ pc = "fold" /\ stack # <<>> /\ UNCHANGED <<pc, producers, i>>
        /\ stack' = Front(stack) \o Bisected(Last(stack))
        /\ ~flaky' => ~flaky /\ ~Runs(Last(stack))
    BY <1>7 DEF GroupFails, Popped
  <2>2. /\ Frontier = Last(stack)[1]
        /\ \/ Frontier' = Frontier
           \/ Last(stack)[2] = Last(stack)[1] + 1 /\ Frontier' = Frontier + 1
    BY <1>4, <2>1, BisectedStack
  <2>3. Frontier \in Nat
    BY <1>4, <2>1, <2>2, TopRange
  <2>4. ASSUME ~native \/ folded = {}, ~flaky', NEW q \in 1 .. Len(const_nodes), q < Frontier',
               const_nodes[q] \in HaveOneByOne(entry)
        PROVE  const_nodes[q] \in folded
    <3>1. CASE q < Frontier
      BY <1>4, <2>1, <2>4, <3>1 DEF OneByOneInv
    <3>2. CASE ~(q < Frontier)
      <4>1. q = Last(stack)[1] /\ Last(stack)[2] = Last(stack)[1] + 1
        BY <2>2, <2>3, <2>4, <3>2
      <4>2. Runs(Last(stack))
        BY <2>1, <2>4, <4>1, RunsAreComplete
      <4> QED
        BY <2>1, <2>4, <4>2
    <3> QED
      BY <3>1, <3>2
  <2> QED
    BY <1>1, <1>3, <1>4, <2>1, <2>4 DEF OneByOneInv
<1>8. CASE Stop
  <2>1. pc' = "done" /\ UNCHANGED <<i, stack, flaky>>
    BY <1>8 DEF Stop, trouble
  <2>2. Frontier' = Frontier
    BY <2>1 DEF Frontier
  <2> QED
    BY <1>1, <1>3, <1>4, <2>1, <2>2 DEF OneByOneInv
<1>9. CASE UNCHANGED vars
  <2>1. UNCHANGED <<pc, i, stack, producers, flaky>>
    BY <1>9 DEF vars, trouble
  <2>2. Frontier' = Frontier
    BY <2>1 DEF Frontier
  <2> QED
    BY <1>1, <1>3, <1>4, <2>1, <2>2 DEF OneByOneInv
<1> QED
  BY <1>5, <1>6, <1>7, <1>8, <1>9 DEF Idles, Finished

\* A batch folds what could be folded one by one.
LEMMA GroupOneByOne ==
    ASSUME FoldInv, OneByOneInv, GroupFolds
    PROVE  OneByOneInv'
<1> DEFINE ops == OpsIn(Last(stack))
           H == HaveOneByOne(entry)
<1>1. /\ pc = "fold" /\ stack # <<>> /\ Materialise(ops) /\ folded' = folded \union ops
      /\ stack' = Front(stack) /\ UNCHANGED <<config, entry, pc, k, partition, i>>
      /\ Runs(Last(stack)) /\ UNCHANGED <<flakes, flaky>>
  BY DEF GroupFolds, Popped
<1>2. UNCHANGED <<native, asConstants, broken, entry, pc, k, const_names, const_nodes, impure, i, flaky>>
  BY <1>1 DEF config, partition
<1>3. ops \subseteq H
  BY <1>1, RunsAreSound
<1>4. /\ IsFiniteSet(ops) /\ Cardinality(ops) > 0
      /\ \A q \in 1 .. Len(const_nodes) :
           const_nodes[q] \in ops <=> Last(stack)[1] <= q /\ q < Last(stack)[2]
  BY <1>1, OpsFacts
<1>5. Frontier' = Last(stack)[2] /\ Frontier = Last(stack)[1]
  BY <1>1, PoppedStack DEF FoldInv, PhaseInv
<1>6. Last(stack)[1] \in Nat /\ Last(stack)[2] \in Nat
  BY <1>1, TopRange DEF FoldInv
<1>7. HaveOneByOne(entry)' = H /\ EntryConstants' = EntryConstants /\ Seen' = Seen
  BY <1>2, HaveStays
<1>8. folded' # {}
  <2>1. ops # {}
    BY <1>4, FS_EmptySet
  <2> QED
    BY <1>1, <2>1
<1> HIDE DEF ops, H
<1>9. /\ producers' \subseteq producers \union ops
      /\ ~native => producers' = producers \union (ops \intersect impure)
  BY <1>1 DEF Materialise, AddFolded, Splice
<1>10. /\ H \intersect Seen \subseteq const_names /\ folded \subseteq H
       /\ producers \subseteq EntryConstants \union folded
       /\ ~native => EntryConstants \union (folded \intersect impure) \subseteq producers
       /\ ~native /\ ~flaky => \A q \in 1 .. Len(const_nodes) :
            q < Frontier /\ const_nodes[q] \in H => const_nodes[q] \in folded
  BY <1>1 DEF OneByOneInv, H
<1>11. ASSUME ~native, ~flaky, NEW q \in 1 .. Len(const_nodes), q < Frontier', const_nodes[q] \in H
       PROVE  const_nodes[q] \in folded'
  <2>1. CASE q < Frontier
    BY <1>1, <1>10, <1>11, <2>1
  <2>2. CASE ~(q < Frontier)
    <3>1. Last(stack)[1] <= q /\ q < Last(stack)[2]
      BY <1>5, <1>6, <1>11, <2>2
    <3> QED
      BY <1>1, <1>4, <3>1
  <2> QED
    BY <2>1, <2>2
<1>12. /\ producers' \subseteq EntryConstants \union folded'
       /\ ~native => EntryConstants \union (folded' \intersect impure) \subseteq producers'
       /\ folded' \subseteq H
  BY <1>1, <1>3, <1>9, <1>10
<1> QED
  BY <1>2, <1>7, <1>8, <1>10, <1>11, <1>12 DEF OneByOneInv

\* Every step keeps it.
LEMMA OneByOneKept ==
    ASSUME FoldInv, OneByOneInv, [Next]_vars
    PROVE  OneByOneInv'
<1>1. CASE Idles
  BY <1>1, IdlesOneByOne
<1>2. CASE GroupFolds
  BY <1>2, GroupOneByOne
<1>3. CASE EndRound
  <2>1. /\ pc' = "rest"
        /\ UNCHANGED <<config, entry, k, partition, i, stack, folded, trouble>>
    BY <1>3 DEF EndRound
  <2>2. UNCHANGED <<native, asConstants, broken, entry, k, const_names, const_nodes, i, stack, folded, flaky>>
    BY <2>1 DEF config, partition, trouble
  <2>3. HaveOneByOne(entry)' = HaveOneByOne(entry) /\ Seen' = Seen /\ Frontier' = Frontier
    BY <2>2, HaveStays DEF Frontier
  <2> QED
    BY <2>1, <2>2, <2>3 DEF OneByOneInv
<1>4. CASE NextRound
  <2>1. RoundStart'
    BY <1>4, NextRoundStarts
  <2> QED
    BY <2>1, OneByOneStarts, PTL
<1>5. CASE \E n \in Nodes : ScanConstant(n) \/ ScanFoldable(n) \/ ScanDeferred(n) \/ ScanOther(n)
  <2>1. PICK n \in Nodes : ScanStep(n)
    BY <1>5 DEF ScanStep
  <2> QED
    BY <2>1, ScanOneByOne
<1> QED
  BY <1>1, <1>2, <1>3, <1>4, <1>5, FoldingSteps

\* Both invariants hold throughout.
LEMMA OneByOneInvariant == Spec => [](FoldInv /\ OneByOneInv)
<1>1. Init => FoldInv /\ OneByOneInv
  BY FirstRound, RoundStarts, OneByOneStarts
<1>2. FoldInv /\ OneByOneInv /\ [Next]_vars => (FoldInv /\ OneByOneInv)'
  BY FoldInvKept, OneByOneKept
<1> QED
  BY <1>1, <1>2, PTL DEF Spec

\* What a round has folded when it is over.
LEMMA RoundFolded ==
    ASSUME FoldInv, OneByOneInv, AtRest
    PROVE  /\ folded \subseteq FoldsOneByOne(entry)
           /\ (~native \/ folded = {}) /\ ~flaky => folded = FoldsOneByOne(entry)
<1>1. /\ Seen = ToSet(entry.nodes) /\ ToSet(entry.nodes) \intersect Seeds(entry) = {}
  BY EntryFacts DEF AtRest
<1>2. /\ ToSet(const_nodes) \subseteq {n \in Seen : entry.kind[n] \in {"op", "transient"}}
      /\ deferred \subseteq {n \in Seen : entry.kind[n] = "defer"}
      /\ const_names = Seeds(entry) \union {n \in Seen : entry.kind[n] = "constant"}
                       \union ToSet(const_nodes) \union deferred
      /\ folded \subseteq ToSet(const_nodes)
  BY DEF FoldInv, PartitionInv, WorkInv
<1>3. folded \subseteq FoldsOneByOne(entry)
  BY <1>1, <1>2 DEF OneByOneInv, FoldsOneByOne
<1>4. ASSUME ~native \/ folded = {}, ~flaky, NEW n \in FoldsOneByOne(entry) PROVE n \in folded
  <2>1. n \in HaveOneByOne(entry) /\ n \in ToSet(entry.nodes) /\ entry.kind[n] \in {"op", "transient"}
    BY <1>4 DEF FoldsOneByOne
  <2>2. n \in ToSet(const_nodes)
    BY <1>1, <1>2, <2>1 DEF OneByOneInv
  <2>3. const_nodes \in Seq(Nodes) /\ Frontier = Len(const_nodes) + 1
    BY DEF FoldInv, TypeOK, PhaseInv, Frontier
  <2>4. PICK q \in 1 .. Len(const_nodes) : const_nodes[q] = n
    BY <2>2, <2>3 DEF ToSet
  <2>5. q < Frontier
    BY <2>3
  <2> QED
    BY <1>4, <2>1, <2>4, <2>5 DEF OneByOneInv
<1> QED
  BY <1>3, <1>4

\* A round folds only nodes that folding one node at a time would fold; on the
\* ModelProto path it folds them all, unless the executor failed for no lasting reason.
THEOREM FoldingOneByOne == Spec => []FoldsAsOneByOne
<1>1. FoldInv /\ OneByOneInv => FoldsAsOneByOne
  BY RoundFolded DEF FoldsAsOneByOne, AtRest
<1> QED
  BY <1>1, OneByOneInvariant, PTL

\* A resident round that folded nothing and swept some initializers leaves nothing
\* to compute that was not there to compute when it began.
LEMMA SweptHasNoMore ==
    ASSUME FoldInv, AtRest, native, folded = {}
    PROVE  HaveOneByOne(graph) \intersect ToSet(graph.nodes) \subseteq HaveOneByOne(entry)
<1> DEFINE G == HaveOneByOne(graph)
           H == HaveOneByOne(entry)
           s == graph.nodes
<1>1. /\ graph \in Graphs /\ entry \in Graphs
      /\ Sane(graph, FALSE, survivors, broken) /\ Sane(entry, FALSE, survivors, broken)
      /\ ToSet(s) = ToSet(entry.nodes) /\ graph.kind = entry.kind /\ graph.inputs = entry.inputs
      /\ graph.inits \subseteq entry.inits
  BY DEF FoldInv, TypeOK, GraphsInv, WorkInv, SameNodes
<1>2. /\ s \in Seq(Nodes) /\ DOMAIN s = 1 .. Len(s) /\ Len(s) \in Nat /\ ToSet(s) \subseteq Nodes
  BY <1>1, GraphFields
<1>3. IsInjective(s) /\ ToSet(s) \intersect graph.inits = {}
      /\ IsInjective(entry.nodes) /\ ToSet(s) \intersect entry.inits = {}
  BY <1>1 DEF Sane
<1>4. /\ G \subseteq Seeds(graph) \union ToSet(s)
      /\ \A n \in ToSet(s) : n \in G <=> Computable(graph, n, G)
  BY <1>1, <1>3, HaveIs
<1>5. Seeds(entry) \subseteq H /\ \A n \in ToSet(s) : n \in H <=> Computable(entry, n, H)
  BY <1>1, <1>3, HaveIs
<1>6. Seeds(graph) \subseteq Seeds(entry)
  BY <1>1 DEF Seeds
<1>7. \A n \in ToSet(s) : \A x \in entry.inputs[n] :
        x \in GraphInputs \union entry.inits \/ Precedes(entry.nodes, x, n)
  BY <1>1 DEF Sane
<1>8. ToSet(s) \intersect GraphInputs = {}
  BY <1>2, NamesAreApart
<1> HIDE DEF G, H
<1> DEFINE Bad == {p \in DOMAIN s : s[p] \in G /\ s[p] \notin H}
<1>9. CASE Bad = {}
  <2>1. G \intersect ToSet(s) \subseteq H
    BY <1>9 DEF ToSet
  <2> QED
    BY <2>1 DEF G, H
<1>10. CASE Bad # {}
  <2>1. Bad \in SUBSET Nat
    BY <1>2
  <2>2. PICK p \in Bad : \A y \in Bad : p <= y
    <3> HIDE DEF Bad
    <3> QED
      BY <1>10, <2>1, LeastNumber
  <2> DEFINE n == s[p]
  <2>3. n \in G /\ n \notin H /\ n \in ToSet(s) /\ p \in DOMAIN s
    BY <2>2 DEF ToSet
  <2>4. Computable(graph, n, G)
    BY <1>4, <2>3
  <2>5. ASSUME NEW x \in entry.inputs[n], x \in G, x \in Seeds(graph) \/ Precedes(s, x, n)
        PROVE  x \in H /\ (x \in Seeds(entry) \/ Precedes(entry.nodes, x, n))
    <3>1. CASE x \in Seeds(graph)
      BY <1>5, <1>6, <3>1
    <3>2. CASE Precedes(s, x, n)
      <4>1. PICK q \in DOMAIN s, r \in DOMAIN s : q < r /\ s[q] = x /\ s[r] = n
        BY <3>2 DEF Precedes
      <4>2. r = p /\ x \in ToSet(s)
        BY <1>3, <2>3, <4>1 DEF IsInjective, ToSet
      <4>3. q \notin Bad
        BY <1>2, <2>1, <2>2, <4>1, <4>2
      <4>4. x \in H
        BY <2>5, <4>1, <4>3
      <4>5. Precedes(entry.nodes, x, n)
        BY <1>3, <1>7, <1>8, <2>3, <4>2
      <4> QED
        BY <4>4, <4>5
    <3> QED
      BY <2>5, <3>1, <3>2
  <2>6. Computable(entry, n, H)
    BY <1>1, <2>4, <2>5 DEF Computable
  <2> QED
    BY <1>5, <2>3, <2>6
<1> QED
  BY <1>9, <1>10

\* When rounds stop there is nothing left to fold, unless the executor failed for
\* no lasting reason in the last one: both pipelines ask the right question.
THEOREM FoldingComplete == Spec => []ConvergedIsComplete
<1>1. FoldInv /\ OneByOneInv => ConvergedIsComplete
  <2> SUFFICES ASSUME FoldInv, OneByOneInv, pc = "done", ~flaky PROVE FoldsOneByOne(graph) = {}
    BY DEF ConvergedIsComplete
  <2>1. AtRest /\ ~Changed
    BY DEF AtRest, FoldInv, WorkInv
  <2>2. folded = {}
    <3>1. CASE native
      <4>1. ~(num_folded > 0)
        BY <2>1, <3>1 DEF Changed
      <4> QED
        BY <4>1 DEF FoldInv, WorkInv
    <3>2. CASE ~native
      <4>1. graph = entry
        BY <2>1, <3>2 DEF Changed
      <4>2. \A n \in folded : n \notin ToSet(entry.nodes) \/ entry.kind[n] = "constant"
        BY <2>1, <3>2, <4>1 DEF FoldInv, WorkInv
      <4>3. \A n \in folded : n \in ToSet(entry.nodes) /\ entry.kind[n] \in {"op", "transient"}
        BY EntryFacts DEF FoldInv, WorkInv, PartitionInv
      <4> QED
        BY <4>2, <4>3
    <3> QED
      BY <3>1, <3>2
  <2>3. FoldsOneByOne(entry) = {}
    BY <2>1, <2>2, RoundFolded
  <2>4. CASE native
    <3>1. HaveOneByOne(graph) \intersect ToSet(graph.nodes) \subseteq HaveOneByOne(entry)
      BY <2>1, <2>2, <2>4, SweptHasNoMore
    <3>2. ToSet(graph.nodes) = ToSet(entry.nodes) /\ graph.kind = entry.kind
      BY <2>2, <2>4 DEF FoldInv, WorkInv, SameNodes
    <3>3. FoldsOneByOne(graph) \subseteq FoldsOneByOne(entry)
      BY <3>1, <3>2 DEF FoldsOneByOne
    <3> QED
      BY <2>3, <3>3
  <2>5. CASE ~native
    <3>1. graph = entry
      BY <2>1, <2>5 DEF Changed
    <3> QED
      BY <2>3, <3>1
  <2> QED
    BY <2>4, <2>5
<1> QED
  BY <1>1, OneByOneInvariant, PTL
=============================================================================
