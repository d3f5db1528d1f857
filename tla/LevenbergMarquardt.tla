------------------------- MODULE LevenbergMarquardt -------------------------
(***************************************************************************)
(* The regularization of LevenbergMarquardtStrategy                        *)
(* (mpc/ocs2_ddp/src/search_strategy/LevenbergMarquardtStrategy.cpp).      *)
(*                                                                         *)
(* Reductions of the merit are percentages of the expected one, and a      *)
(* reduction within minRelCost is 0.  The adaptive ratio is its exponent   *)
(* to the base riccatiMultipleDefaultRatio; the Riccati multiple is 0, or  *)
(* n + 1 when it is riccatiMultipleDefaultFactor times the base to the n.  *)
(***************************************************************************)
EXTENDS Integers

CONSTANTS
    MinAcceptedPho,     \* settings_.minAcceptedPho, in percent
    MaxRejections,      \* settings_.maxNumSuccessiveRejections
    MaxExponent         \* bound on the multiple and the ratio

ASSUME LevenbergMarquardtAssumption ==
    /\ MinAcceptedPho \in 0..25
    /\ MaxRejections \in Nat
    /\ MaxExponent \in Nat \ {0}

Expected == {0, 100}
Actual == {-100, 0, 10, 50, 100}
Failed == -1000         \* the reduction when the rollout threw: the merit is
                        \* the greatest number there is

Module == [riccatiMultiple : 0..MaxExponent,
           riccatiMultipleAdaptiveRatio : (-MaxExponent)..MaxExponent,
           numSuccessiveRejections : 0..(MaxRejections + 1)]

InitialModule == [riccatiMultiple |-> 0, riccatiMultipleAdaptiveRatio |-> 0,
                  numSuccessiveRejections |-> 0]

reductionToPredictedReduction(actual, expected) ==
    CASE actual = 0 \/ expected = 0 -> 100
      [] actual < 0 /\ expected # 0 -> 0
      [] OTHER -> actual

AtMost(bound, n) == IF n > bound THEN bound ELSE n
AtLeast(bound, n) == IF n < bound THEN bound ELSE n

\* Mutant: the multiple grows with the old ratio, which may be shrinking.
Strengthened_OldRatio(lm) ==
    LET ratio == AtMost(MaxExponent,
                        AtLeast(0, lm.riccatiMultipleAdaptiveRatio) + 1)
    IN  [lm EXCEPT
          !.riccatiMultipleAdaptiveRatio = ratio,
          !.riccatiMultiple = AtMost(MaxExponent, AtLeast(1,
              lm.riccatiMultiple + lm.riccatiMultipleAdaptiveRatio))]

Strengthened(lm) ==
    LET ratio == AtMost(MaxExponent,
                        AtLeast(0, lm.riccatiMultipleAdaptiveRatio) + 1)
        multiple == IF lm.riccatiMultiple = 0
                    THEN 1 ELSE lm.riccatiMultiple + ratio
    IN  [lm EXCEPT !.riccatiMultipleAdaptiveRatio = ratio,
                   !.riccatiMultiple = AtMost(MaxExponent, multiple)]

Weakened(lm) ==
    LET ratio == AtLeast(-MaxExponent,
                         AtMost(0, lm.riccatiMultipleAdaptiveRatio) - 1)
        multiple == lm.riccatiMultiple + ratio
    IN  [lm EXCEPT !.riccatiMultipleAdaptiveRatio = ratio,
                   !.riccatiMultiple = IF multiple > 1 THEN multiple ELSE 0]

Adjusted(lm, pho) ==
    CASE pho < 25 -> Strengthened(lm)
      [] pho > 75 -> Weakened(lm)
      [] OTHER -> [lm EXCEPT !.riccatiMultipleAdaptiveRatio = 0]

\* Mutant: the limit is one off.
tooManyRejections_OneOff(lm) == lm.numSuccessiveRejections > MaxRejections + 1

\* The limit is tested before a rejection is counted, and before an acceptance.
tooManyRejections(lm) == lm.numSuccessiveRejections > MaxRejections

accepted(pho) == pho >= MinAcceptedPho

Counted(lm, pho) ==
    [Adjusted(lm, pho) EXCEPT
        !.numSuccessiveRejections = IF accepted(pho) THEN 0 ELSE @ + 1]

=============================================================================
