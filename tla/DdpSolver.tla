------------------------------ MODULE DdpSolver ------------------------------
(***************************************************************************)
(* The iterations of GaussNewtonDDP (mpc/ocs2_ddp/src/GaussNewtonDDP.cpp), *)
(* as MPC_BASE runs it over and over on a receding horizon: which data is  *)
(* where.  Nominal, cached and optimized data are swapped, partly moved    *)
(* and partly copied, and whatever is published or read from the cache     *)
(* must belong together.                                                   *)
(*                                                                         *)
(* A rollout is a model value: trajectories, metrics, performance indices  *)
(* and value functions carry the rollout they belong to, a controller the  *)
(* one it was last rolled out to.  Times are relative to the begin of the  *)
(* horizon.                                                                *)
(***************************************************************************)
EXTENDS LevenbergMarquardt, FiniteSets

CONSTANTS
    Rollout,            \* enough values for all rollouts that are in use
    None,               \* nothing there
    maxNumIterations,   \* ddpSettings_.maxNumIterations_
    Horizon,            \* the length of the horizon, in steps of the caller
    MaxIterations,      \* bound on totalNumIterations_
    Strategies          \* the search strategies to be chosen from

ASSUME SolverAssumption ==
    /\ None \notin Rollout
    /\ maxNumIterations \in Nat \ {0}
    /\ Horizon \in Nat \ {0}
    /\ MaxIterations \in Nat
    /\ Strategies \subseteq {"LINE_SEARCH", "LEVENBERG_MARQUARDT"}

VARIABLES
    strategy,               \* ddpSettings_.strategy_
    pc,                     \* where runImpl() is
    nominal, cached,        \* the primal and dual data containers
    optimized,              \* the optimized primal solution and its metrics
    performanceIndex_,
    performanceIndexHistory_,           \* its last element
    initialSolutionExists,
    totalNumIterations_, initIteration,
    lmModule_

solverVars == <<strategy, pc, nominal, cached, optimized, performanceIndex_,
                performanceIndexHistory_, initialSolutionExists,
                totalNumIterations_, initIteration, lmModule_>>

\* covered is how much of the horizon the controller covers.
NoPrimal == [trajectory |-> None, controller |-> None, covered |-> 0,
             metrics |-> None]
NoData == [primal |-> NoPrimal, valueFunction |-> None]

\* Everything that belongs to rollout r, whose controller covers the horizon.
Whole(r) == [trajectory |-> r, controller |-> r, covered |-> Horizon,
             metrics |-> r]

InUse == UNION {{p.trajectory, p.controller, p.metrics} :
                    p \in {nominal.primal, cached.primal, optimized}}
         \cup {nominal.valueFunction, cached.valueFunction, performanceIndex_}
NewRollout == CHOOSE r \in Rollout : r \notin InUse

\* Bound: there is a rollout that is not in use.
rolloutLeft == ~(Rollout \subseteq InUse)

Init ==
    /\ strategy \in Strategies
    /\ pc = "idle"
    /\ nominal = NoData /\ cached = NoData
    /\ optimized = NoPrimal
    /\ performanceIndex_ = None /\ performanceIndexHistory_ = None
    /\ initialSolutionExists = FALSE
    /\ totalNumIterations_ = 0 /\ initIteration = 0
    /\ lmModule_ = InitialModule

-----------------------------------------------------------------------------
(* Initialization.                                                         *)

\* The nominal data becomes the cached one, and the nominal primal data is
\* cleared.
StartRun ==
    /\ pc = "idle"
    /\ totalNumIterations_ + maxNumIterations <= MaxIterations
    /\ cached' = nominal
    /\ nominal' = [cached EXCEPT !.primal = NoPrimal]
    /\ initIteration' = totalNumIterations_
    /\ pc' = "initialize"
    /\ UNCHANGED <<strategy, optimized, performanceIndex_,
                   performanceIndexHistory_, initialSolutionExists,
                   totalNumIterations_, lmModule_>>

Initialized(r) ==
    /\ rolloutLeft
    /\ performanceIndex_' = r
    /\ performanceIndexHistory_' = r
    /\ pc' = "riccati"
    /\ UNCHANGED <<strategy, cached, totalNumIterations_, initIteration,
                   lmModule_>>

\* What is left of something that covered length when the horizon has moved by
\* shift and a change of the mode schedule has cut the rest off.
Left(length, shift, cut) == AtMost(cut, AtLeast(0, length - shift))

\* rolloutInitialController(): the controller, as far as it reaches, is moved
\* and rolled out; rolloutInitializer() completes the trajectory.
InitializeWithController(shift, cut) ==
    /\ pc = "initialize"
    /\ optimized.controller # None
    /\ Left(optimized.covered, shift, cut) > 0
    /\ nominal' = [nominal EXCEPT !.primal =
          [trajectory |-> NewRollout, controller |-> NewRollout,
           covered |-> Left(optimized.covered, shift, cut),
           metrics |-> NewRollout]]
    /\ optimized' = [optimized EXCEPT !.controller = None, !.covered = 0]
    /\ initialSolutionExists' = TRUE
    /\ Initialized(NewRollout)

\* extractInitialTrajectories(): the rest of the trajectories, when there is
\* nothing left of the controller.
InitializeWithTrajectories(shift, cut) ==
    /\ pc = "initialize"
    /\ Left(optimized.covered, shift, cut) = 0
    /\ optimized.trajectory # None
    /\ Left(Horizon, shift, cut) > 0
    /\ nominal' = [nominal EXCEPT !.primal =
          [trajectory |-> NewRollout, controller |-> None, covered |-> 0,
           metrics |-> NewRollout]]
    /\ initialSolutionExists' = TRUE
    /\ Initialized(NewRollout)
    /\ UNCHANGED optimized

\* rolloutInitializer() alone.
InitializeWithInitializer(shift, cut) ==
    /\ pc = "initialize"
    /\ Left(optimized.covered, shift, cut) = 0
    /\ optimized.trajectory = None \/ Left(Horizon, shift, cut) = 0
    /\ nominal' = [nominal EXCEPT !.primal =
          [trajectory |-> NewRollout, controller |-> None, covered |-> 0,
           metrics |-> NewRollout]]
    /\ initialSolutionExists' = FALSE
    /\ Initialized(NewRollout)
    /\ UNCHANGED optimized

\* The caller moves the horizon by less than its length, for MPC_BASE::run()
\* refuses to move it further.
Initialize ==
    \E shift \in 0..(Horizon - 1), cut \in 0..Horizon :
        \/ InitializeWithController(shift, cut)
        \/ InitializeWithTrajectories(shift, cut)
        \/ InitializeWithInitializer(shift, cut)


\* The initial rollout is unstable, with the controller taken over or not.
InitializeThrows ==
    /\ pc = "initialize"
    /\ \/ UNCHANGED optimized
       \/ optimized' = [optimized EXCEPT !.controller = None, !.covered = 0]
    /\ pc' = "thrown"
    /\ UNCHANGED <<strategy, nominal, cached, performanceIndex_,
                   performanceIndexHistory_, initialSolutionExists,
                   totalNumIterations_, initIteration, lmModule_>>

-----------------------------------------------------------------------------
(* One iteration.                                                          *)

\* Only the first iteration since the reset does not need the cache.
readsCache == totalNumIterations_ > 0

\* solveSequentialRiccatiEquations() and calculateController().
SolveRiccati ==
    /\ pc = "riccati"
    /\ totalNumIterations_ < MaxIterations
    /\ nominal' = [nominal EXCEPT !.valueFunction = nominal.primal.trajectory]
    /\ pc' = "step"
    /\ UNCHANGED <<strategy, cached, optimized, performanceIndex_,
                   performanceIndexHistory_, initialSolutionExists,
                   totalNumIterations_, initIteration, lmModule_>>

\* The Riccati equations turn out to be unstable; some of the value function
\* may have been written.
SolveRiccatiThrows ==
    /\ pc = "riccati"
    /\ totalNumIterations_ < MaxIterations
    /\ nominal' = [nominal EXCEPT !.valueFunction = None]
    /\ pc' = "thrown"
    /\ UNCHANGED <<strategy, cached, optimized, performanceIndex_,
                   performanceIndexHistory_, initialSolutionExists,
                   totalNumIterations_, initIteration, lmModule_>>

\* A rollout with the new controller is taken over.
TakeStep(r) ==
    /\ rolloutLeft
    /\ optimized' = Whole(r)
    /\ performanceIndex_' = r

\* Mutant: the metrics stay those of the rejected rollout.
KeepNominal_OwnIndex(r) ==
    /\ optimized' = nominal.primal
    /\ performanceIndex_' = r

\* The nominal solution is copied, and its performance index is taken from the
\* history.
KeepNominal(r) ==
    /\ optimized' = nominal.primal
    /\ performanceIndex_' = performanceIndexHistory_

\* The line search takes some rollout, at worst that of step length zero.
LineSearchStep ==
    /\ strategy = "LINE_SEARCH"
    /\ TakeStep(NewRollout)
    /\ pc' = "count"
    /\ UNCHANGED lmModule_

\* The rollout of step length zero is unstable.
LineSearchThrows ==
    /\ strategy = "LINE_SEARCH"
    /\ pc' = "thrown"
    /\ UNCHANGED <<optimized, performanceIndex_, lmModule_>>

\* The expected merit is reliable only when there was an initial solution.
Expectations == IF initialSolutionExists THEN Expected ELSE {0}

LevenbergMarquardtStep(actual, expected) ==
    LET pho == reductionToPredictedReduction(actual, expected)
    IN  /\ strategy = "LEVENBERG_MARQUARDT"
        /\ ~tooManyRejections(lmModule_)
        /\ lmModule_' = Counted(lmModule_, pho)
        /\ \/ /\ accepted(pho) /\ actual # Failed
              /\ TakeStep(NewRollout)
              /\ pc' = "count"
           \/ /\ accepted(pho) /\ actual = Failed
              /\ optimized' = NoPrimal     \* what there is of the rollout
              /\ performanceIndex_' = None
              /\ pc' = "undefined"
           \/ /\ ~accepted(pho)
              /\ KeepNominal(NewRollout)
              /\ pc' = "count"

\* The limit of successive rejections: also a step is thrown away that would
\* be accepted.
LevenbergMarquardtThrows(actual, expected) ==
    /\ strategy = "LEVENBERG_MARQUARDT"
    /\ tooManyRejections(lmModule_)
    /\ lmModule_' = Adjusted(lmModule_,
                             reductionToPredictedReduction(actual, expected))
    /\ pc' = "thrown"
    /\ UNCHANGED <<optimized, performanceIndex_>>

\* takePrimalDualStep().
TakePrimalDualStep ==
    /\ pc = "step"
    /\ \/ LineSearchStep
       \/ LineSearchThrows
       \/ \E actual \in Actual \cup {Failed}, expected \in Expectations :
             \/ LevenbergMarquardtStep(actual, expected)
             \/ LevenbergMarquardtThrows(actual, expected)
    /\ UNCHANGED <<strategy, nominal, cached, performanceIndexHistory_,
                   initialSolutionExists, totalNumIterations_, initIteration>>

\* checkConvergence(): the costs may be close at any time, and the
\* Levenberg-Marquardt strategy does not trust a rejected step, nor the first
\* step from nothing.
mayConverge ==
    strategy = "LEVENBERG_MARQUARDT" =>
        lmModule_.numSuccessiveRejections = 0 /\ initialSolutionExists

\* Mutant: the limit holds for all iterations since the reset.
limitReached_Total == totalNumIterations_ + 1 = maxNumIterations
limitReached == totalNumIterations_ + 1 - initIteration = maxNumIterations

Counting ==
    /\ pc = "count"
    /\ totalNumIterations_' = totalNumIterations_ + 1
    /\ performanceIndexHistory_' = performanceIndex_
    /\ initialSolutionExists' = TRUE
    /\ UNCHANGED <<strategy, performanceIndex_, initIteration, lmModule_>>

Finish ==
    /\ Counting
    /\ mayConverge \/ limitReached
    /\ pc' = "idle"
    /\ UNCHANGED <<nominal, cached, optimized>>

\* Mutant: the optimized data becomes nominal, and the nominal is not cached.
Continue_NotCached ==
    /\ Counting
    /\ ~limitReached
    /\ nominal' = [nominal EXCEPT !.primal = optimized]
    /\ optimized' = nominal.primal
    /\ pc' = "riccati"
    /\ UNCHANGED cached

\* Nominal and cached data are swapped, and then the primal solution and the
\* metrics with the optimized ones; the value function is not.
Continue ==
    /\ Counting
    /\ ~limitReached
    /\ cached' = nominal
    /\ nominal' = [cached EXCEPT !.primal = optimized]
    /\ optimized' = cached.primal
    /\ pc' = "riccati"

\* Mutant: the iterations go on being counted.
Reset_KeepsIterations ==
    /\ pc \in {"idle", "thrown"}
    /\ nominal' = NoData /\ cached' = NoData
    /\ optimized' = NoPrimal
    /\ performanceIndexHistory_' = None
    /\ lmModule_' = InitialModule
    /\ pc' = "idle"
    /\ UNCHANGED <<strategy, performanceIndex_, initialSolutionExists,
                   totalNumIterations_, initIteration>>

Reset ==
    /\ pc \in {"idle", "thrown"}
    /\ nominal' = NoData /\ cached' = NoData
    /\ optimized' = NoPrimal
    /\ performanceIndexHistory_' = None
    /\ totalNumIterations_' = 0
    /\ lmModule_' = InitialModule
    /\ pc' = "idle"
    /\ UNCHANGED <<strategy, performanceIndex_, initialSolutionExists,
                   initIteration>>

-----------------------------------------------------------------------------
runImpl == \/ Initialize \/ InitializeThrows
           \/ SolveRiccati \/ SolveRiccatiThrows
           \/ TakePrimalDualStep
           \/ Finish \/ Continue

\* No caller runs the solver again after an exception, without a reset.
Next == StartRun \/ runImpl \/ Reset

Spec == Init /\ [][Next]_solverVars

\* A run is one call: it goes on until it returns or throws.
FairSpec == Spec /\ WF_solverVars(runImpl)

-----------------------------------------------------------------------------
Primal == [trajectory : Rollout \cup {None}, controller : Rollout \cup {None},
           covered : 0..Horizon, metrics : Rollout \cup {None}]
Data == [primal : Primal, valueFunction : Rollout \cup {None}]

\* The values each variable can have.
SolverTypeOK ==
    /\ strategy \in Strategies
    /\ pc \in {"idle", "initialize", "riccati", "step", "count", "thrown",
               "undefined"}
    /\ nominal \in Data /\ cached \in Data
    /\ optimized \in Primal
    /\ performanceIndex_ \in Rollout \cup {None}
    /\ performanceIndexHistory_ \in Rollout \cup {None}
    /\ initialSolutionExists \in BOOLEAN
    /\ totalNumIterations_ \in 0..MaxIterations
    /\ initIteration \in 0..MaxIterations
    /\ lmModule_ \in Module

\* What has been solved belongs together: there is a trajectory, and the value
\* function is the one around it.
Solved(data) ==
    /\ data.primal.trajectory # None
    /\ data.valueFunction = data.primal.trajectory

\* Whenever the parallel Riccati solver reads final values from the cache, the
\* cache holds a trajectory and the value function that was computed around
\* this very trajectory, however nominal, cached and optimized data have been
\* swapped since (GaussNewtonDDP::getValueFunctionFromCache()).
CacheIsConsistent == pc = "riccati" /\ readsCache => Solved(cached)

\* Between two runs getValueFunction() interpolates the nominal value function
\* on the nominal times: both are of the same rollout.
NominalIsConsistent == pc = "idle" /\ readsCache => Solved(nominal)

\* What a run leaves to be published belongs together: trajectory, metrics and
\* performance index are of one rollout, even if the step was rejected; after
\* a line search also the controller, which covers the horizon.
PublishedTogether ==
    pc = "idle" /\ readsCache =>
        /\ optimized.trajectory # None
        /\ optimized.metrics = optimized.trajectory
        /\ performanceIndex_ = optimized.trajectory
        /\ strategy = "LINE_SEARCH" => optimized = Whole(optimized.trajectory)

\* Why the three hold.  Since the caches are swapped at the begin of a run and
\* again after each iteration, the solved data is where it will be read from at
\* every point of the run; and until a step is taken, the performance index and
\* its history are those of the nominal rollout, to which a rejection returns.
NominalIsEvaluated ==
    pc \in {"riccati", "step", "count"} =>
        /\ nominal.primal.trajectory # None
        /\ nominal.primal.metrics = nominal.primal.trajectory
        /\ performanceIndexHistory_ = nominal.primal.trajectory

SolvedIsCached ==
    /\ pc \in {"initialize", "riccati"} /\ readsCache => Solved(cached)
    /\ pc \in {"step", "count"} => Solved(nominal)
    /\ pc = "idle" /\ readsCache => Solved(nominal)

StepIsEvaluated ==
    pc = "count" \/ (pc = "idle" /\ readsCache) =>
        /\ optimized.trajectory # None
        /\ optimized.metrics = optimized.trajectory
        /\ performanceIndex_ = optimized.trajectory
        /\ strategy = "LINE_SEARCH" => optimized = Whole(optimized.trajectory)

\* A step is only taken below the bound on the iterations.
IterationIsLeft ==
    pc \in {"step", "count"} => totalNumIterations_ < MaxIterations

SolverIInv ==
    /\ SolverTypeOK
    /\ IterationIsLeft
    /\ NominalIsEvaluated
    /\ SolvedIsCached
    /\ StepIsEvaluated

\* A rejected step raises the Riccati multiple, so that the next one, from the
\* same nominal trajectory, is a different one: even right after a series of
\* good steps that let it fall.
RejectedStepIsDamped ==
    [][lmModule_'.numSuccessiveRejections > lmModule_.numSuccessiveRejections
       => \/ lmModule_'.riccatiMultiple > lmModule_.riccatiMultiple
          \/ lmModule_'.riccatiMultiple = MaxExponent]_lmModule_

\* Every run ends, converged, at its limit of iterations or with an exception,
\* as many iterations as there have been since the reset.
RunEnds == pc = "initialize" ~> pc \in {"idle", "thrown", "undefined"}

=============================================================================
