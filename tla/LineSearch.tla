----------------------------- MODULE LineSearch -----------------------------
(***************************************************************************)
(* The parallel Armijo line search of the DDP solver                       *)
(* (mpc/ocs2_ddp/src/search_strategy/LineSearchStrategy.cpp).  run() rolls *)
(* out the unmodified controller, then starts one lineSearchTask per pool  *)
(* thread.  The tasks draw exponents from an atomic counter, roll out the  *)
(* candidate step maxStepLength * contractionRate^e, decide under a mutex  *)
(* whether it is the best so far, and, once every larger candidate has     *)
(* been decided, abort the rollouts that are still integrating.            *)
(*                                                                         *)
(* Step lengths are integers in a fixed-point unit and decrease with the   *)
(* exponent.  What a rollout computes is abstracted to one bit: whether    *)
(* its merit meets the Armijo condition (a rollout that throws does not).  *)
(***************************************************************************)
EXTENDS Naturals, FiniteSets

CONSTANTS
    Tasks,          \* the lineSearchTask instances runParallel starts
    LastExp,        \* the first exponent whose step is below the minimum
    StepTable,      \* [0..LastExp -> Nat], maxStepLength * contractionRate^e
    MinStepLength   \* settings_.minStepLength in the same unit

\* The constructor refuses maxStepLength < minStepLength; the contraction rate
\* is below one; minStepLength is positive, so the exponents run out.
ASSUME StepAssumption ==
    /\ LastExp \in Nat \ {0}
    /\ StepTable \in [0..LastExp -> Nat]
    /\ \A e, f \in 0..LastExp : e < f => StepTable[e] > StepTable[f]
    /\ MinStepLength \in Nat \ {0}
    /\ \A e \in 0..LastExp : StepTable[e] < MinStepLength <=> e = LastExp

ASSUME TasksAssumption == IsFiniteSet(Tasks) /\ Tasks # {}

\* The step a task computes from its exponent; the exponents a task draws
\* after the table has run out are all below the minimum.
stepLength(e) == StepTable[IF e < LastExp THEN e ELSE LastExp]

\* The exponents the search tries: almost_ge(stepLength, minStepLength).
Candidates == 0..(LastExp - 1)

\* The size of alphaProcessed_: the logarithm of (min/max + epsilon) counts
\* the steps strictly above the minimum, whereas almost_ge keeps equality.
maxNumOfSearches ==
    IF StepTable[0] = MinStepLength
    THEN 1
    ELSE Cardinality({e \in Candidates : StepTable[e] > MinStepLength})

Slots == 0..(Cardinality(Tasks) - 1)   \* the rollouts and solutions in use
NoSlot == Cardinality(Tasks)

VARIABLES
    phase,           \* where the thread that called run() is
    armijo,          \* the candidates whose rollout meets the Armijo condition
    bestStepSize_,
    bestSolution,    \* the step whose rollout *bestSolutionRef_ holds
    workersSolution_,\* per slot, the step whose rollout it holds
    nextTaskId_,
    alphaExpNext_,
    alphaProcessed_, \* the exponents marked true
    killIntegration_,\* per slot, the abort flag of its rollout
    pc, taskId, alphaExp, accepted, abortNext   \* the locals of each task

shared == <<bestStepSize_, bestSolution, workersSolution_, nextTaskId_,
            alphaExpNext_, alphaProcessed_, killIntegration_>>
locals == <<pc, taskId, alphaExp, accepted, abortNext>>
vars == <<phase, armijo, shared, locals>>

Init ==
    /\ phase = "idle"
    /\ armijo = {}
    /\ bestStepSize_ = 0
    /\ bestSolution = 0
    /\ workersSolution_ = [s \in Slots |-> 0]
    /\ nextTaskId_ = 0
    /\ alphaExpNext_ = 0
    /\ alphaProcessed_ = {}
    /\ killIntegration_ = [s \in Slots |-> FALSE]
    /\ pc = [t \in Tasks |-> "done"]
    /\ taskId = [t \in Tasks |-> NoSlot]
    /\ alphaExp = [t \in Tasks |-> 0]
    /\ accepted = [t \in Tasks |-> FALSE]
    /\ abortNext = [t \in Tasks |-> 0]

-----------------------------------------------------------------------------
(* The thread that calls run().                                            *)

\* The rollout with step length zero succeeds, becomes the best solution, and
\* the tasks are handed to the pool.
Run(outcome) ==
    /\ phase \in {"idle", "returned", "threw"}
    /\ phase' = "searching"
    /\ armijo' = outcome
    /\ bestStepSize_' = 0
    /\ bestSolution' = 0
    /\ workersSolution_' = [workersSolution_ EXCEPT ![0] = bestSolution]
    /\ nextTaskId_' = 0
    /\ alphaExpNext_' = 0
    /\ alphaProcessed_' = {}
    /\ killIntegration_' = [killIntegration_ EXCEPT ![0] = FALSE]
    /\ pc' = [t \in Tasks |-> "queued"]
    /\ taskId' = [t \in Tasks |-> NoSlot]
    /\ alphaExp' = [t \in Tasks |-> 0]
    /\ accepted' = [t \in Tasks |-> FALSE]
    /\ abortNext' = [t \in Tasks |-> 0]

\* That rollout diverges: run() throws and the search never starts.
BaselineThrows ==
    /\ phase \in {"idle", "returned", "threw"}
    /\ phase' = "threw"
    /\ workersSolution_' = [workersSolution_ EXCEPT ![0] = 0]
    /\ killIntegration_' = [killIntegration_ EXCEPT ![0] = FALSE]
    /\ UNCHANGED <<armijo, bestStepSize_, bestSolution, nextTaskId_,
                   alphaExpNext_, alphaProcessed_, locals>>

\* Every future is ready: the rollouts are reactivated and run() returns.
Return ==
    /\ phase = "searching"
    /\ \A t \in Tasks : pc[t] = "done"
    /\ phase' = "returned"
    /\ killIntegration_' = [s \in Slots |-> FALSE]
    /\ UNCHANGED <<armijo, bestStepSize_, bestSolution, workersSolution_,
                   nextTaskId_, alphaExpNext_, alphaProcessed_, locals>>

-----------------------------------------------------------------------------
(* One lineSearchTask.                                                     *)

\* Mutant: the task takes the pool's worker index for its id.
Start_WorkerIndex(t) ==
    /\ pc[t] = "queued"
    /\ \E w \in Slots : taskId' = [taskId EXCEPT ![t] = w]
    /\ nextTaskId_' = nextTaskId_ + 1
    /\ pc' = [pc EXCEPT ![t] = "fetch"]
    /\ UNCHANGED <<phase, armijo, bestStepSize_, bestSolution,
                   workersSolution_, alphaExpNext_, alphaProcessed_,
                   killIntegration_, alphaExp, accepted, abortNext>>

\* A pool thread, or the caller itself, picks the task up.
Start(t) ==
    /\ pc[t] = "queued"
    /\ taskId' = [taskId EXCEPT ![t] = nextTaskId_]
    /\ nextTaskId_' = nextTaskId_ + 1
    /\ pc' = [pc EXCEPT ![t] = "fetch"]
    /\ UNCHANGED <<phase, armijo, bestStepSize_, bestSolution,
                   workersSolution_, alphaExpNext_, alphaProcessed_,
                   killIntegration_, alphaExp, accepted, abortNext>>

\* The atomic increment, and the test against the minimum step.
Fetch(t) ==
    /\ pc[t] = "fetch"
    /\ alphaExp' = [alphaExp EXCEPT ![t] = alphaExpNext_]
    /\ alphaExpNext_' = alphaExpNext_ + 1
    /\ pc' = [pc EXCEPT ![t] =
                IF stepLength(alphaExpNext_) < MinStepLength
                THEN "done" ELSE "check"]
    /\ UNCHANGED <<phase, armijo, bestStepSize_, bestSolution,
                   workersSolution_, nextTaskId_, alphaProcessed_,
                   killIntegration_, taskId, accepted, abortNext>>

\* The unlocked read of the best step so far.
Check(t) ==
    /\ pc[t] = "check"
    /\ pc' = [pc EXCEPT ![t] =
                IF stepLength(alphaExp[t]) < bestStepSize_
                THEN "done" ELSE "rollout"]
    /\ UNCHANGED <<phase, armijo, shared, taskId, alphaExp, accepted,
                   abortNext>>

\* Rollout run() begins by resetting its event handler, which clears an abort
\* that arrived before the integration started.
StartRollout(t) ==
    /\ pc[t] = "rollout"
    /\ killIntegration_' = [killIntegration_ EXCEPT ![taskId[t]] = FALSE]
    /\ pc' = [pc EXCEPT ![t] = "integrating"]
    /\ UNCHANGED <<phase, armijo, bestStepSize_, bestSolution,
                   workersSolution_, nextTaskId_, alphaExpNext_,
                   alphaProcessed_, taskId, alphaExp, accepted, abortNext>>

\* The rollout ends; an aborted one may still have made it to the end.
FinishRollout(t) ==
    /\ pc[t] = "integrating"
    /\ \E ok \in BOOLEAN :
          /\ ok => alphaExp[t] \in armijo
          /\ alphaExp[t] \in armijo /\ ~killIntegration_[taskId[t]] => ok
          /\ accepted' = [accepted EXCEPT ![t] = ok]
    /\ workersSolution_' =
          [workersSolution_ EXCEPT ![taskId[t]] = stepLength(alphaExp[t])]
    /\ pc' = [pc EXCEPT ![t] = "decide"]
    /\ UNCHANGED <<phase, armijo, bestStepSize_, bestSolution, nextTaskId_,
                   alphaExpNext_, alphaProcessed_, killIntegration_, taskId,
                   alphaExp, abortNext>>

\* Mutants: the last task to decide wins; any acceptance aborts the
\* others.
improves_Always(t) == accepted[t]
allLargerProcessed_Always(t) == TRUE

\* The acceptance test, the test that ends the search, the abort loop's.
improves(t) == accepted[t] /\ stepLength(alphaExp[t]) > bestStepSize_
allLargerProcessed(t) == \A e \in 0..(alphaExp[t] - 1) : e \in alphaProcessed_
moreRollouts(t) == abortNext[t] + 1 < Cardinality(Tasks)

\* The block under lineSearchResultMutex_ that keeps a better step ...
Accept(t) ==
    /\ pc[t] = "decide"
    /\ improves(t)
    /\ bestStepSize_' = stepLength(alphaExp[t])
    /\ bestSolution' = workersSolution_[taskId[t]]
    /\ workersSolution_' =
          [workersSolution_ EXCEPT ![taskId[t]] = bestSolution]
    /\ pc' = [pc EXCEPT ![t] =
                IF allLargerProcessed(t) THEN "abort" ELSE "fetch"]
    /\ abortNext' = [abortNext EXCEPT ![t] = 0]
    /\ alphaProcessed_' = alphaProcessed_ \cup {alphaExp[t]}
    /\ UNCHANGED <<phase, armijo, nextTaskId_, alphaExpNext_,
                   killIntegration_, taskId, alphaExp, accepted>>

\* Mutant: a rejected step is rolled out again instead of the next one.
Reject_Retry(t) ==
    /\ pc[t] = "decide"
    /\ ~improves(t)
    /\ pc' = [pc EXCEPT ![t] = "check"]
    /\ alphaProcessed_' = alphaProcessed_ \cup {alphaExp[t]}
    /\ UNCHANGED <<phase, armijo, bestStepSize_, bestSolution,
                   workersSolution_, nextTaskId_, alphaExpNext_,
                   killIntegration_, taskId, alphaExp, accepted, abortNext>>

\* ... or leaves the best one alone.
Reject(t) ==
    /\ pc[t] = "decide"
    /\ ~improves(t)
    /\ pc' = [pc EXCEPT ![t] = "fetch"]
    /\ alphaProcessed_' = alphaProcessed_ \cup {alphaExp[t]}
    /\ UNCHANGED <<phase, armijo, bestStepSize_, bestSolution,
                   workersSolution_, nextTaskId_, alphaExpNext_,
                   killIntegration_, taskId, alphaExp, accepted, abortNext>>

\* abortRollout() on one rollout after the other, outside the lock.
Abort(t) ==
    /\ pc[t] = "abort"
    /\ killIntegration_' = [killIntegration_ EXCEPT ![abortNext[t]] = TRUE]
    /\ IF moreRollouts(t)
       THEN /\ abortNext' = [abortNext EXCEPT ![t] = @ + 1]
            /\ UNCHANGED pc
       ELSE /\ pc' = [pc EXCEPT ![t] = "done"]
            /\ UNCHANGED abortNext
    /\ UNCHANGED <<phase, armijo, bestStepSize_, bestSolution,
                   workersSolution_, nextTaskId_, alphaExpNext_,
                   alphaProcessed_, taskId, alphaExp, accepted>>

TaskStep(t) ==
    \/ Start(t) \/ Fetch(t) \/ Check(t) \/ StartRollout(t)
    \/ FinishRollout(t) \/ Accept(t) \/ Reject(t) \/ Abort(t)

Next ==
    \/ \E outcome \in SUBSET Candidates : Run(outcome)
    \/ BaselineThrows
    \/ Return
    \/ \E t \in Tasks : TaskStep(t)

Spec == Init /\ [][Next]_vars

\* The pool runs every task it was given, and run() returns when they have
\* ended; nothing obliges the solver to search again.
FairSpec ==
    /\ Spec
    /\ WF_vars(Return)
    /\ \A t \in Tasks : WF_vars(TaskStep(t))

-----------------------------------------------------------------------------
(* Correctness.                                                            *)

PCs == {"queued", "fetch", "check", "rollout", "integrating", "decide",
        "abort", "done"}
Steps == {StepTable[e] : e \in 0..LastExp} \cup {0}

\* Every variable stays in its type; in particular the slot a working task
\* writes to exists in workersSolution_ (LineSearchStrategy.cpp:169-170).
TypeOK ==
    /\ phase \in {"idle", "searching", "returned", "threw"}
    /\ armijo \in SUBSET Candidates
    /\ bestStepSize_ \in Steps /\ bestSolution \in Steps
    /\ workersSolution_ \in [Slots -> Steps]
    /\ nextTaskId_ \in 0..Cardinality(Tasks)
    /\ alphaExpNext_ \in Nat
    /\ alphaProcessed_ \in SUBSET Candidates
    /\ killIntegration_ \in [Slots -> BOOLEAN]
    /\ pc \in [Tasks -> PCs]
    /\ taskId \in [Tasks -> Slots \cup {NoSlot}]
    /\ alphaExp \in [Tasks -> Nat]
    /\ accepted \in [Tasks -> BOOLEAN]
    /\ abortNext \in [Tasks -> Slots]

\* The step a sequential backtracking search would choose: the largest
\* candidate that meets the Armijo condition, or zero when none does.
armijoStep ==
    IF armijo = {}
    THEN 0
    ELSE stepLength(CHOOSE e \in armijo : \A f \in armijo : e <= f)

\* However the tasks interleave, overtake and abort one another, run() returns
\* with the step length of the single-core search (the comment at
\* LineSearchStrategy.cpp:230-234): as high as possible.
LargestArmijoStep == phase = "returned" => bestStepSize_ = armijoStep

\* The solution handed back is the rollout of the chosen step and no other
\* task's (LineSearchStrategy.cpp:241 swaps the slot of the deciding task).
ChosenRollout == phase = "returned" => bestSolution = bestStepSize_

\* An abort only ever hits a rollout whose step has already lost: it cannot
\* turn a larger acceptable step into a failed one
\* (LineSearchStrategy.cpp:242-253).
AbortSparesLargerSteps ==
    \A t \in Tasks :
        pc[t] = "integrating" /\ killIntegration_[taskId[t]]
            => stepLength(alphaExp[t]) < bestStepSize_

\* Two tasks never roll out into the same slot: ids come from the counter and
\* not from the pool's worker index, which may repeat (ThreadPool.h:76).
SlotsNotShared ==
    \A t, u \in Tasks :
        /\ t # u
        /\ pc[t] \in {"integrating", "decide"}
        /\ pc[u] \in {"integrating", "decide"}
        => taskId[t] # taskId[u]

\* The header calls maxNumOfSearches "number of line search iterations"
\* (LineSearchStrategy.h:103) and alphaProcessed_ is sized by it, so every
\* exponent that is marked lies inside the vector.
ProcessedInBounds == \A e \in alphaProcessed_ : e < maxNumOfSearches

\* Every search that starts comes back: no task waits for a rollout that was
\* aborted, and the caller is not left waiting for a future.
SearchReturns == phase = "searching" ~> phase = "returned"

-----------------------------------------------------------------------------
(* The inductive invariant behind these properties.                        *)

Holding(t) == pc[t] \in {"check", "rollout", "integrating", "decide"}

\* Ids are handed out in order, one per started task, and the slot of a task
\* that decides still holds its own rollout.
SlotInv ==
    /\ phase = "searching" =>
          /\ nextTaskId_ = Cardinality({t \in Tasks : pc[t] # "queued"})
          /\ bestSolution = bestStepSize_
    /\ phase # "searching" => \A t \in Tasks : pc[t] = "done"
    /\ \A t \in Tasks :
          /\ pc[t] \notin {"queued", "done"} => taskId[t] \in 0..(nextTaskId_ - 1)
          /\ pc[t] = "decide" =>
                workersSolution_[taskId[t]] = stepLength(alphaExp[t])
    /\ \A t, u \in Tasks :
          t # u /\ pc[t] \notin {"queued", "done"} /\ pc[u] \notin {"queued", "done"}
              => taskId[t] # taskId[u]

\* A drawn exponent is held by one task until it is decided, and every drawn
\* candidate is held, decided or already beaten.
DrawInv ==
    /\ \A e \in alphaProcessed_ : e < alphaExpNext_
    /\ \A t \in Tasks : Holding(t) =>
          /\ alphaExp[t] \in Candidates
          /\ alphaExp[t] < alphaExpNext_
          /\ alphaExp[t] \notin alphaProcessed_
    /\ \A t, u \in Tasks :
          t # u /\ Holding(t) /\ Holding(u) => alphaExp[t] # alphaExp[u]
    /\ \A e \in Candidates : e < alphaExpNext_ =>
          \/ e \in alphaProcessed_
          \/ stepLength(e) < bestStepSize_
          \/ \E t \in Tasks : Holding(t) /\ alphaExp[t] = e

\* The best step is an acceptable one; deciding an acceptable candidate leaves
\* the best step at least that large; a verdict is wrong only for a candidate
\* that has lost; a task that aborts the others or has ended leaves no larger
\* candidate undecided, respectively undrawn.
BestInv ==
    /\ bestStepSize_ = 0 \/ \E e \in armijo : bestStepSize_ = stepLength(e)
    /\ \A e \in alphaProcessed_ \cap armijo : bestStepSize_ >= stepLength(e)
    /\ \A t \in Tasks : pc[t] = "decide" =>
          /\ accepted[t] => alphaExp[t] \in armijo
          /\ alphaExp[t] \in armijo /\ ~accepted[t]
                => stepLength(alphaExp[t]) < bestStepSize_
    /\ \A t \in Tasks : pc[t] = "abort" =>
          \A e \in Candidates :
              stepLength(e) >= bestStepSize_ => e \in alphaProcessed_
    /\ \A t \in Tasks : phase = "searching" /\ pc[t] = "done" =>
          \A e \in Candidates :
              e >= alphaExpNext_ => stepLength(e) < bestStepSize_

\* A search that has returned chose the largest acceptable step, and every
\* task stayed in its slot and within its verdicts on the way there.
IInv ==
    /\ TypeOK /\ SlotInv /\ DrawInv /\ BestInv
    /\ AbortSparesLargerSteps /\ LargestArmijoStep /\ ChosenRollout

=============================================================================
