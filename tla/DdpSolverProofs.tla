--------------------------- MODULE DdpSolverProofs ---------------------------
(***************************************************************************)
(* The data of the solver is consistent for any number of iterations and   *)
(* runs, any length of the horizon and any settings of the strategies.     *)
(***************************************************************************)
EXTENDS DdpSolver, TLAPS

-----------------------------------------------------------------------------
(* Types.                                                                  *)

\* While the bound on the rollouts is not reached, a new one is a rollout.
LEMMA NewRolloutIsOne == rolloutLeft => NewRollout \in Rollout
BY DEF rolloutLeft, NewRollout

LEMMA WholeIsPrimal == \A r \in Rollout : Whole(r) \in Primal
BY SolverAssumption DEF Whole, Primal

LEMMA NothingIsTyped == NoPrimal \in Primal /\ NoData \in Data
BY SolverAssumption DEF NoPrimal, NoData, Primal, Data

LEMMA GivenAwayIsPrimal ==
    \A p \in Primal : [p EXCEPT !.controller = None, !.covered = 0] \in Primal
<1>1. 0 \in 0..Horizon
  BY SolverAssumption
<1>2. QED
  BY <1>1 DEF Primal

\* What is left of something within the horizon is within the horizon.
LEMMA LeftIsWithin ==
    ASSUME NEW length \in 0..Horizon, NEW shift \in 0..(Horizon - 1),
           NEW cut \in 0..Horizon
    PROVE  Left(length, shift, cut) \in 0..Horizon
BY SolverAssumption DEF Left, AtMost, AtLeast

LEMMA ReductionIsInt ==
    ASSUME NEW actual \in Actual \cup {Failed}, NEW expected \in Expectations
    PROVE  reductionToPredictedReduction(actual, expected) \in Int
BY DEF reductionToPredictedReduction, Actual, Failed

\* The adaptive ratio and the multiple stay within their bounds.
LEMMA AdjustedIsModule ==
    ASSUME NEW lm \in Module, NEW pho \in Int
    PROVE  /\ Adjusted(lm, pho) \in Module
           /\ Adjusted(lm, pho).numSuccessiveRejections
                = lm.numSuccessiveRejections
<1> USE LevenbergMarquardtAssumption
<1>1. /\ lm.riccatiMultiple \in 0..MaxExponent
      /\ lm.riccatiMultipleAdaptiveRatio \in (-MaxExponent)..MaxExponent
  BY DEF Module
<1> DEFINE Changed(x, n) == [lm EXCEPT !.riccatiMultipleAdaptiveRatio = x,
                                       !.riccatiMultiple = n]
<1>2. ASSUME NEW x \in (-MaxExponent)..MaxExponent, NEW n \in 0..MaxExponent
      PROVE  /\ Changed(x, n) \in Module
             /\ Changed(x, n).numSuccessiveRejections
                  = lm.numSuccessiveRejections
  BY DEF Module
<1>3. /\ Strengthened(lm) \in Module
      /\ Strengthened(lm).numSuccessiveRejections = lm.numSuccessiveRejections
  <2> DEFINE ratio == AtMost(MaxExponent,
                             AtLeast(0, lm.riccatiMultipleAdaptiveRatio) + 1)
             multiple == IF lm.riccatiMultiple = 0
                         THEN 1 ELSE lm.riccatiMultiple + ratio
  <2>1. ratio \in 1..MaxExponent
    BY <1>1 DEF AtMost, AtLeast
  <2> HIDE DEF ratio
  <2>2. AtMost(MaxExponent, multiple) \in 0..MaxExponent
    BY <1>1, <2>1 DEF AtMost
  <2>3. Strengthened(lm) = Changed(ratio, AtMost(MaxExponent, multiple))
    BY DEF Strengthened, ratio
  <2>4. ratio \in (-MaxExponent)..MaxExponent
    BY <2>1
  <2> HIDE DEF multiple, Changed
  <2>5. QED
    BY <1>2, <2>2, <2>3, <2>4
<1>4. /\ Weakened(lm) \in Module
      /\ Weakened(lm).numSuccessiveRejections = lm.numSuccessiveRejections
  <2> DEFINE ratio == AtLeast(-MaxExponent,
                              AtMost(0, lm.riccatiMultipleAdaptiveRatio) - 1)
             multiple == lm.riccatiMultiple + ratio
             result == IF multiple > 1 THEN multiple ELSE 0
  <2>1. ratio \in (-MaxExponent)..(-1)
    BY <1>1 DEF AtMost, AtLeast
  <2> HIDE DEF ratio
  <2>2. result \in 0..MaxExponent
    BY <1>1, <2>1
  <2>3. Weakened(lm) = Changed(ratio, result)
    BY DEF Weakened, ratio
  <2>4. ratio \in (-MaxExponent)..MaxExponent
    BY <2>1
  <2> HIDE DEF result, multiple, Changed
  <2>5. QED
    BY <1>2, <2>2, <2>3, <2>4
<1>5. LET kept == [lm EXCEPT !.riccatiMultipleAdaptiveRatio = 0]
      IN  /\ kept \in Module
          /\ kept.numSuccessiveRejections = lm.numSuccessiveRejections
  BY DEF Module
<1>6. QED
  BY <1>3, <1>4, <1>5 DEF Adjusted

\* A rejection is only counted below the limit.
LEMMA CountedIsModule ==
    ASSUME NEW lm \in Module, NEW pho \in Int, ~tooManyRejections(lm)
    PROVE  Counted(lm, pho) \in Module
<1>1. lm.numSuccessiveRejections \in 0..MaxRejections
  BY LevenbergMarquardtAssumption DEF Module, tooManyRejections
<1>2. /\ Adjusted(lm, pho) \in Module
      /\ Adjusted(lm, pho).numSuccessiveRejections \in 0..MaxRejections
  BY <1>1, AdjustedIsModule
<1>3. QED
  BY <1>2, LevenbergMarquardtAssumption DEF Counted, Module

LEMMA InitialModuleIsTyped == InitialModule \in Module
BY LevenbergMarquardtAssumption DEF InitialModule, Module

-----------------------------------------------------------------------------
(* The inductive invariant.                                                *)

LEMMA SolverInit == Init => SolverIInv
<1> SUFFICES ASSUME Init PROVE SolverIInv
  OBVIOUS
<1>1. SolverTypeOK
  <2>1. nominal \in Data /\ cached \in Data /\ optimized \in Primal
    BY NothingIsTyped DEF Init
  <2>2. lmModule_ \in Module
    BY InitialModuleIsTyped DEF Init
  <2>3. totalNumIterations_ \in 0..MaxIterations
        /\ initIteration \in 0..MaxIterations
    BY SolverAssumption DEF Init
  <2>4. QED
    BY <2>1, <2>2, <2>3 DEF Init, SolverTypeOK
<1>2. IterationIsLeft /\ NominalIsEvaluated /\ SolvedIsCached /\ StepIsEvaluated
  BY DEF Init, IterationIsLeft, NominalIsEvaluated, SolvedIsCached,
         StepIsEvaluated, readsCache
<1>3. QED
  BY <1>1, <1>2 DEF SolverIInv

\* The solved nominal data becomes the cached one.
LEMMA SolverStartRun == SolverIInv /\ StartRun => SolverIInv'
<1> SUFFICES ASSUME SolverIInv, StartRun PROVE SolverIInv'
  OBVIOUS
<1>1. [cached EXCEPT !.primal = NoPrimal] \in Data
  BY NothingIsTyped DEF SolverIInv, SolverTypeOK, Data
<1>2. SolverTypeOK'
  BY <1>1 DEF SolverIInv, SolverTypeOK, StartRun
<1>3. (IterationIsLeft /\ NominalIsEvaluated /\ SolvedIsCached
         /\ StepIsEvaluated)'
  BY DEF SolverIInv, IterationIsLeft, NominalIsEvaluated, SolvedIsCached,
         StepIsEvaluated,
         StartRun, readsCache, Solved
<1>4. QED
  BY <1>2, <1>3 DEF SolverIInv

\* The cached data is left alone; the nominal rollout is a new one, which
\* the performance index belongs to.
LEMMA SolverInitialize == SolverIInv /\ Initialize => SolverIInv'
<1> SUFFICES ASSUME SolverIInv, Initialize PROVE SolverIInv'
  OBVIOUS
<1>1. PICK shift \in 0..(Horizon - 1), cut \in 0..Horizon :
          \/ InitializeWithController(shift, cut)
          \/ InitializeWithTrajectories(shift, cut)
          \/ InitializeWithInitializer(shift, cut)
  BY DEF Initialize
<1> DEFINE r == NewRollout
<1>2. r \in Rollout /\ r # None
  BY <1>1, NewRolloutIsOne, SolverAssumption
     DEF InitializeWithController, InitializeWithTrajectories,
         InitializeWithInitializer, Initialized
<1>3. pc = "initialize" /\ Initialized(r)
  BY <1>1 DEF InitializeWithController, InitializeWithTrajectories,
              InitializeWithInitializer
<1>4. optimized \in Primal /\ nominal \in Data
  BY DEF SolverIInv, SolverTypeOK
<1>5. \E c \in Rollout \cup {None}, n \in 0..Horizon :
          nominal' = [nominal EXCEPT !.primal =
                        [trajectory |-> r, controller |-> c,
                         covered |-> n, metrics |-> r]]
  <2>1. CASE InitializeWithController(shift, cut)
    <3>1. optimized.covered \in 0..Horizon
      BY <1>4 DEF Primal
    <3>2. Left(optimized.covered, shift, cut) \in 0..Horizon
      BY <3>1, LeftIsWithin
    <3>3. QED
      BY <2>1, <1>2, <3>2 DEF InitializeWithController
  <2>2. CASE \/ InitializeWithTrajectories(shift, cut)
             \/ InitializeWithInitializer(shift, cut)
    BY <2>2, SolverAssumption
       DEF InitializeWithTrajectories, InitializeWithInitializer
  <2>3. QED
    BY <1>1, <2>1, <2>2
<1>6. optimized' \in Primal
  <2>1. [optimized EXCEPT !.controller = None, !.covered = 0] \in Primal
    BY <1>4, GivenAwayIsPrimal
  <2>2. QED
    BY <1>1, <1>4, <2>1
       DEF InitializeWithController, InitializeWithTrajectories,
           InitializeWithInitializer
<1>7. initialSolutionExists' \in BOOLEAN
  BY <1>1 DEF InitializeWithController, InitializeWithTrajectories,
              InitializeWithInitializer
<1>8. /\ nominal' \in Data
      /\ nominal'.primal.trajectory = r
      /\ nominal'.primal.metrics = r
  <2>1. PICK c \in Rollout \cup {None}, n \in 0..Horizon :
          nominal' = [nominal EXCEPT !.primal =
                        [trajectory |-> r, controller |-> c,
                         covered |-> n, metrics |-> r]]
    BY <1>5
  <2>2. [trajectory |-> r, controller |-> c, covered |-> n, metrics |-> r]
            \in Primal
    BY <1>2 DEF Primal
  <2> HIDE DEF r
  <2>3. QED
    BY <1>4, <2>1, <2>2 DEF Data
<1> HIDE DEF r
<1>9. SolverTypeOK'
  BY <1>2, <1>3, <1>6, <1>7, <1>8 DEF SolverIInv, SolverTypeOK, Initialized
<1>10. NominalIsEvaluated'
  BY <1>2, <1>3, <1>8 DEF NominalIsEvaluated, Initialized
<1>11. (IterationIsLeft /\ SolvedIsCached /\ StepIsEvaluated)'
  BY <1>3 DEF SolverIInv, IterationIsLeft, SolvedIsCached, StepIsEvaluated,
              Initialized,
              readsCache, Solved
<1>12. QED
  BY <1>9, <1>10, <1>11 DEF SolverIInv

\* Exceptions leave nothing to be relied on but the types.
LEMMA SolverThrows ==
    SolverIInv /\ (InitializeThrows \/ SolveRiccatiThrows) => SolverIInv'
<1> SUFFICES ASSUME SolverIInv, InitializeThrows \/ SolveRiccatiThrows
             PROVE  SolverIInv'
  OBVIOUS
<1>1. optimized \in Primal /\ nominal \in Data
  BY DEF SolverIInv, SolverTypeOK
<1>2. [optimized EXCEPT !.controller = None, !.covered = 0] \in Primal
  BY <1>1, GivenAwayIsPrimal
<1>3. [nominal EXCEPT !.valueFunction = None] \in Data
  BY <1>1 DEF Data
<1>4. SolverTypeOK'
  BY <1>2, <1>3
     DEF SolverIInv, SolverTypeOK, InitializeThrows, SolveRiccatiThrows
<1>5. (IterationIsLeft /\ NominalIsEvaluated /\ SolvedIsCached
         /\ StepIsEvaluated)'
  BY DEF IterationIsLeft, NominalIsEvaluated, SolvedIsCached, StepIsEvaluated,
         InitializeThrows, SolveRiccatiThrows
<1>6. QED
  BY <1>4, <1>5 DEF SolverIInv

\* The value function is that of the nominal trajectory.
LEMMA SolverRiccati == SolverIInv /\ SolveRiccati => SolverIInv'
<1> SUFFICES ASSUME SolverIInv, SolveRiccati PROVE SolverIInv'
  OBVIOUS
<1>1. nominal \in Data
  BY DEF SolverIInv, SolverTypeOK
<1>2. nominal.primal.trajectory \in Rollout \cup {None}
  BY <1>1 DEF Data, Primal
<1>3. /\ nominal' \in Data
      /\ nominal'.primal = nominal.primal
      /\ nominal'.valueFunction = nominal.primal.trajectory
  BY <1>1, <1>2 DEF SolveRiccati, Data
<1>4. SolverTypeOK'
  BY <1>3 DEF SolverIInv, SolverTypeOK, SolveRiccati
<1>5. NominalIsEvaluated'
  BY <1>3 DEF SolverIInv, NominalIsEvaluated, SolveRiccati
<1>6. SolvedIsCached'
  BY <1>3 DEF SolverIInv, NominalIsEvaluated, SolvedIsCached, SolveRiccati,
              Solved
<1>7. IterationIsLeft' /\ StepIsEvaluated'
  BY DEF IterationIsLeft, StepIsEvaluated, SolveRiccati
<1>8. QED
  BY <1>4, <1>5, <1>6, <1>7 DEF SolverIInv

\* Either the step and its index are new, or both are the nominal ones.
LEMMA SolverStep == SolverIInv /\ TakePrimalDualStep => SolverIInv'
<1> SUFFICES ASSUME SolverIInv, TakePrimalDualStep PROVE SolverIInv'
  OBVIOUS
<1>1. /\ optimized \in Primal /\ nominal \in Data /\ lmModule_ \in Module
      /\ performanceIndex_ \in Rollout \cup {None}
      /\ performanceIndexHistory_ \in Rollout \cup {None}
      /\ nominal.primal \in Primal
  BY DEF SolverIInv, SolverTypeOK, Data
<1>2. /\ nominal.primal.trajectory # None
      /\ nominal.primal.metrics = nominal.primal.trajectory
      /\ performanceIndexHistory_ = nominal.primal.trajectory
      /\ Solved(nominal)
  BY DEF SolverIInv, NominalIsEvaluated, SolvedIsCached, TakePrimalDualStep
<1> DEFINE Evaluated ==
      /\ optimized.trajectory # None
      /\ optimized.metrics = optimized.trajectory
      /\ performanceIndex_ = optimized.trajectory
      /\ strategy = "LINE_SEARCH" => optimized = Whole(optimized.trajectory)
<1> DEFINE Typed == /\ optimized \in Primal
                    /\ performanceIndex_ \in Rollout \cup {None}
                    /\ lmModule_ \in Module
<1>3. ASSUME NEW r, r = NewRollout, TakeStep(r)
      PROVE  /\ optimized' \in Primal
             /\ performanceIndex_' \in Rollout \cup {None}
             /\ optimized' = Whole(r) /\ performanceIndex_' = r
             /\ r # None
             /\ optimized'.trajectory = r /\ optimized'.metrics = r
  <2>1. r \in Rollout
    BY <1>3, NewRolloutIsOne DEF TakeStep
  <2>2. Whole(r) \in Primal
    BY <2>1, WholeIsPrimal
  <2>3. r # None /\ Whole(r).trajectory = r /\ Whole(r).metrics = r
    BY <2>1, SolverAssumption DEF Whole
  <2>4. QED
    BY <1>3, <2>1, <2>2, <2>3 DEF TakeStep
<1>4. Typed' /\ pc' \in {"count", "thrown", "undefined"}
      /\ strategy' = strategy /\ (pc' = "count" => Evaluated')
  <2>1. CASE LineSearchStep
    <3>1. TakeStep(NewRollout)
      BY <2>1 DEF LineSearchStep
    <3>2. QED
      BY <1>1, <1>3, <2>1, <3>1 DEF LineSearchStep, TakePrimalDualStep
  <2>2. CASE LineSearchThrows
    BY <1>1, <2>2 DEF LineSearchThrows, TakePrimalDualStep
  <2>3. ASSUME NEW actual \in Actual \cup {Failed},
               NEW expected \in Expectations,
               LevenbergMarquardtStep(actual, expected)
        PROVE  Typed' /\ pc' \in {"count", "thrown", "undefined"}
               /\ strategy' = strategy /\ (pc' = "count" => Evaluated')
    <3>1. lmModule_' \in Module
      BY <1>1, <2>3, ReductionIsInt, CountedIsModule
         DEF LevenbergMarquardtStep
    <3>2. strategy' = strategy /\ strategy # "LINE_SEARCH"
      BY <2>3 DEF LevenbergMarquardtStep, TakePrimalDualStep
    <3>3. CASE TakeStep(NewRollout) /\ pc' = "count"
      BY <1>3, <3>1, <3>2, <3>3
    <3>4. CASE /\ optimized' = NoPrimal /\ performanceIndex_' = None
               /\ pc' = "undefined"
      BY <3>1, <3>2, <3>4, NothingIsTyped
    <3>5. CASE KeepNominal(NewRollout) /\ pc' = "count"
      BY <1>1, <1>2, <3>1, <3>2, <3>5 DEF KeepNominal
    <3>6. QED
      BY <2>3, <3>3, <3>4, <3>5 DEF LevenbergMarquardtStep
  <2>4. ASSUME NEW actual \in Actual \cup {Failed},
               NEW expected \in Expectations,
               LevenbergMarquardtThrows(actual, expected)
        PROVE  Typed' /\ pc' = "thrown" /\ strategy' = strategy
    BY <1>1, <2>4, ReductionIsInt, AdjustedIsModule
       DEF LevenbergMarquardtThrows, TakePrimalDualStep
  <2>5. QED
    BY <2>1, <2>2, <2>3, <2>4 DEF TakePrimalDualStep
<1>5. SolverTypeOK'
  BY <1>4 DEF SolverIInv, SolverTypeOK, TakePrimalDualStep
<1>6. (NominalIsEvaluated /\ SolvedIsCached)'
  BY <1>2, <1>4 DEF NominalIsEvaluated, SolvedIsCached, TakePrimalDualStep,
                    Solved
<1>7. IterationIsLeft' /\ StepIsEvaluated'
  BY <1>4 DEF SolverIInv, IterationIsLeft, StepIsEvaluated, TakePrimalDualStep
<1>8. QED
  BY <1>5, <1>6, <1>7 DEF SolverIInv

\* The solved nominal data stays, or is cached; the optimized one, which its
\* index belongs to, becomes nominal.
LEMMA SolverCounting == SolverIInv /\ (Finish \/ Continue) => SolverIInv'
<1> SUFFICES ASSUME SolverIInv, Finish \/ Continue PROVE SolverIInv'
  OBVIOUS
<1>1. /\ optimized \in Primal /\ nominal \in Data /\ cached \in Data
      /\ cached.primal \in Primal
      /\ totalNumIterations_ \in 0..MaxIterations
  BY DEF SolverIInv, SolverTypeOK, Data
<1>2. pc = "count" /\ Counting
  BY DEF Finish, Continue, Counting
<1>3. totalNumIterations_' \in 0..MaxIterations
  BY <1>1, <1>2, SolverAssumption DEF SolverIInv, IterationIsLeft, Counting
<1>4. /\ Solved(nominal)
      /\ optimized.trajectory # None
      /\ optimized.metrics = optimized.trajectory
      /\ performanceIndex_ = optimized.trajectory
      /\ strategy = "LINE_SEARCH" => optimized = Whole(optimized.trajectory)
  BY <1>2 DEF SolverIInv, SolvedIsCached, StepIsEvaluated
<1>5. CASE Finish
  <2>1. SolverTypeOK'
    BY <1>3, <1>5 DEF SolverIInv, SolverTypeOK, Finish, Counting
  <2>2. (IterationIsLeft /\ NominalIsEvaluated /\ SolvedIsCached)'
    BY <1>4, <1>5 DEF IterationIsLeft, NominalIsEvaluated, SolvedIsCached,
                      Finish, Solved
  <2>3. StepIsEvaluated'
    BY <1>4, <1>5 DEF StepIsEvaluated, Finish, Counting
  <2>4. QED
    BY <2>1, <2>2, <2>3 DEF SolverIInv
<1>6. CASE Continue
  <2>1. /\ nominal' \in Data
        /\ nominal'.primal = optimized
    BY <1>1, <1>6 DEF Continue, Data
  <2>2. SolverTypeOK'
    BY <1>1, <1>3, <1>6, <2>1 DEF SolverIInv, SolverTypeOK, Continue, Counting
  <2>3. (IterationIsLeft /\ StepIsEvaluated)'
    BY <1>6 DEF IterationIsLeft, StepIsEvaluated, Continue
  <2>4. NominalIsEvaluated'
    BY <1>4, <1>6, <2>1 DEF NominalIsEvaluated, Continue, Counting
  <2>5. SolvedIsCached'
    BY <1>4, <1>6 DEF SolvedIsCached, Continue, Solved
  <2>6. QED
    BY <2>2, <2>3, <2>4, <2>5 DEF SolverIInv
<1>7. QED
  BY <1>5, <1>6

\* Nothing is left, and no iteration is counted any more.
LEMMA SolverReset == SolverIInv /\ Reset => SolverIInv'
<1> SUFFICES ASSUME SolverIInv, Reset PROVE SolverIInv'
  OBVIOUS
<1>1. totalNumIterations_' = 0 /\ 0 \in 0..MaxIterations
  BY SolverAssumption DEF Reset
<1>2. SolverTypeOK'
  BY <1>1, NothingIsTyped, InitialModuleIsTyped
     DEF SolverIInv, SolverTypeOK, Reset
<1>3. (IterationIsLeft /\ NominalIsEvaluated /\ SolvedIsCached
         /\ StepIsEvaluated)'
  BY <1>1 DEF IterationIsLeft, NominalIsEvaluated, SolvedIsCached,
              StepIsEvaluated, Reset, readsCache
<1>4. QED
  BY <1>2, <1>3 DEF SolverIInv

LEMMA SolverNext == SolverIInv /\ [Next]_solverVars => SolverIInv'
<1>1. SolverIInv /\ UNCHANGED solverVars => SolverIInv'
  BY DEF SolverIInv, SolverTypeOK, IterationIsLeft, NominalIsEvaluated,
         SolvedIsCached, StepIsEvaluated, readsCache, Solved, solverVars
<1>2. QED
  BY <1>1, SolverStartRun, SolverInitialize, SolverThrows, SolverRiccati,
     SolverStep, SolverCounting, SolverReset DEF Next, runImpl

-----------------------------------------------------------------------------
(* The theorems.                                                           *)

\* In every state of the solver the invariant holds.
THEOREM SolverInvariance == Spec => []SolverIInv
<1>1. QED
  BY SolverInit, SolverNext, PTL DEF Spec

\* The parallel Riccati solver only reads a value function together with the
\* trajectory it was computed around.
THEOREM CacheCanBeRead == Spec => []CacheIsConsistent
<1>1. SolverIInv => CacheIsConsistent
  BY DEF SolverIInv, SolvedIsCached, CacheIsConsistent
<1>2. QED
  BY <1>1, SolverInvariance, PTL

\* Between two runs the value function belongs to the nominal trajectory.
THEOREM ValueFunctionCanBeRead == Spec => []NominalIsConsistent
<1>1. SolverIInv => NominalIsConsistent
  BY DEF SolverIInv, SolvedIsCached, NominalIsConsistent
<1>2. QED
  BY <1>1, SolverInvariance, PTL

\* Whatever steps were rejected, what is published belongs together.
THEOREM PublishedBelongsTogether == Spec => []PublishedTogether
<1>1. SolverIInv => PublishedTogether
  BY DEF SolverIInv, StepIsEvaluated, PublishedTogether
<1>2. QED
  BY <1>1, SolverInvariance, PTL

-----------------------------------------------------------------------------
(* Rejected steps.                                                         *)

\* Below 25 percent the multiple grows, whatever the ratio was before.
LEMMA StrengthenedGrows ==
    ASSUME NEW lm \in Module
    PROVE  \/ Strengthened(lm).riccatiMultiple > lm.riccatiMultiple
           \/ Strengthened(lm).riccatiMultiple = MaxExponent
<1> USE LevenbergMarquardtAssumption
<1> DEFINE ratio == AtMost(MaxExponent,
                           AtLeast(0, lm.riccatiMultipleAdaptiveRatio) + 1)
           multiple == IF lm.riccatiMultiple = 0
                       THEN 1 ELSE lm.riccatiMultiple + ratio
<1>1. /\ lm.riccatiMultiple \in 0..MaxExponent
      /\ lm.riccatiMultipleAdaptiveRatio \in (-MaxExponent)..MaxExponent
  BY DEF Module
<1>2. ratio \in 1..MaxExponent
  BY <1>1 DEF AtMost, AtLeast
<1>3. Strengthened(lm).riccatiMultiple = AtMost(MaxExponent, multiple)
  BY DEF Strengthened, Module
<1> HIDE DEF ratio
<1>4. multiple \in Int /\ multiple > lm.riccatiMultiple
  BY <1>1, <1>2
<1> HIDE DEF multiple
<1>5. QED
  BY <1>1, <1>3, <1>4 DEF AtMost

\* A counted rejection is below minAcceptedPho, and so below 25 percent.
LEMMA CountedRejectionGrows ==
    ASSUME NEW lm \in Module, NEW pho \in Int,
           Counted(lm, pho).numSuccessiveRejections
              > lm.numSuccessiveRejections
    PROVE  \/ Counted(lm, pho).riccatiMultiple > lm.riccatiMultiple
           \/ Counted(lm, pho).riccatiMultiple = MaxExponent
<1>1. Adjusted(lm, pho) \in Module
  BY AdjustedIsModule
<1>2. lm.numSuccessiveRejections \in Nat
  BY LevenbergMarquardtAssumption DEF Module
<1>3. /\ Counted(lm, pho).riccatiMultiple = Adjusted(lm, pho).riccatiMultiple
      /\ accepted(pho) => Counted(lm, pho).numSuccessiveRejections = 0
  BY <1>1 DEF Counted, Module
<1>4. ~accepted(pho)
  BY <1>2, <1>3
<1>5. pho < 25
  BY <1>4, LevenbergMarquardtAssumption DEF accepted
<1>6. Adjusted(lm, pho) = Strengthened(lm)
  BY <1>5 DEF Adjusted
<1>7. QED
  BY <1>3, <1>6, StrengthenedGrows

\* Every rejection the strategy counts raises the damping of the next step.
THEOREM RejectionsAreDamped == Spec => RejectedStepIsDamped
<1> DEFINE damped ==
      lmModule_'.numSuccessiveRejections > lmModule_.numSuccessiveRejections
         => \/ lmModule_'.riccatiMultiple > lmModule_.riccatiMultiple
            \/ lmModule_'.riccatiMultiple = MaxExponent
<1>1. SolverIInv /\ [Next]_solverVars => [damped]_lmModule_
  <2> SUFFICES ASSUME SolverIInv, [Next]_solverVars, lmModule_' # lmModule_
               PROVE  damped
    OBVIOUS
  <2>1. lmModule_ \in Module /\ lmModule_.numSuccessiveRejections \in Nat
    BY LevenbergMarquardtAssumption DEF SolverIInv, SolverTypeOK, Module
  <2>2. CASE TakePrimalDualStep
    <3>1. PICK actual \in Actual \cup {Failed}, expected \in Expectations :
             \/ LevenbergMarquardtStep(actual, expected)
             \/ LevenbergMarquardtThrows(actual, expected)
      BY <2>2 DEF TakePrimalDualStep, LineSearchStep, LineSearchThrows
    <3> DEFINE pho == reductionToPredictedReduction(actual, expected)
    <3>2. pho \in Int
      BY ReductionIsInt
    <3> HIDE DEF pho
    <3>3. CASE lmModule_' = Counted(lmModule_, pho)
      BY <2>1, <3>2, <3>3, CountedRejectionGrows
    <3>4. CASE lmModule_' = Adjusted(lmModule_, pho)
      BY <2>1, <3>2, <3>4, AdjustedIsModule
    <3>5. QED
      BY <3>1, <3>3, <3>4
         DEF LevenbergMarquardtStep, LevenbergMarquardtThrows, pho
  <2>3. CASE Reset
    BY <2>1, <2>3 DEF Reset, InitialModule
  <2>4. QED
    BY <2>2, <2>3 DEF Next, runImpl, StartRun, Initialize,
       InitializeWithController, InitializeWithTrajectories,
       InitializeWithInitializer, Initialized, InitializeThrows, SolveRiccati,
       SolveRiccatiThrows, Finish, Continue, Counting, solverVars
<1>2. QED
  BY <1>1, SolverInvariance, PTL DEF Spec, RejectedStepIsDamped

=============================================================================
