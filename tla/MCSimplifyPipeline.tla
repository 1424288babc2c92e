------------------------ MODULE MCSimplifyPipeline ------------------------
(* Small instances of SimplifyPipeline: every assignment of functions over *)
(* two models, and of functions that only move forward over three.         *)
EXTENDS SimplifyPipeline

TwoModels == 0..1
ThreeModels == 0..2

AnyFn == [TwoModels -> TwoModels]
\* Transforms that only ever move towards a simpler model.
Forward == {f \in [ThreeModels -> ThreeModels] : \A m \in ThreeModels : f[m] >= m}

Id(S) == [m \in S |-> m]

Assign(id, infer, zero, passes, eval, fold, sweep, rewrite) ==
    [t \in Transforms |->
        CASE t = "ConvertVersion" -> id
          [] t = "InferShapes" -> infer
          [] t = "EliminateZeroRnn" -> zero
          [] t = "Optimize" -> passes
          [] t = "EvalPartialShape" -> eval
          [] t = "FoldConstant" -> fold
          [] t = "SweepInitializers" -> sweep
          [] t = "Rewrite" -> rewrite]

\* A rewriter and a folder that have nothing to do: only the inner loop works.
InnerOnlyChoices ==
    LET id == Id(ThreeModels)
    IN  {Assign(id, i, id, p, id, id, id, id) : i, p \in Forward}

\* Arbitrary transforms (oscillating ones too); the ones whose changes nobody
\* reports move forward or do nothing.
MixedChoices ==
    LET id == Id(TwoModels)
        quiet == {id, [m \in TwoModels |-> 1]}
    IN  {Assign(c, i, z, p, e, f, s, r) :
            c, z, s \in quiet, e \in {id}, i, p, f, r \in AnyFn}

\* Each transform switched off by itself, the conversion on or off, with the
\* rewriter and the importability free.
OneOff == {o \in Options :
              LET off == {x \in {"shape", "passes", "fold"} :
                            \/ x = "shape" /\ ~o.shape_inference
                            \/ x = "passes" /\ ~o.optimize
                            \/ x = "fold" /\ ~o.constant_folding}
              IN  IF o.convert THEN off = {} ELSE \A x, y \in off : x = y}
AllOn == {o \in Options : /\ o.shape_inference /\ o.optimize /\ o.constant_folding
                          /\ ~o.convert}
=============================================================================
