-------------------------- MODULE LineSearchProofs --------------------------
(***************************************************************************)
(* For every number of tasks and every table of steps, the parallel line   *)
(* search returns the step a sequential backtracking search would, with    *)
(* the rollout of that step, and never aborts a rollout that could win.    *)
(* Of the thread pool that runs the tasks, for any number of threads,      *)
(* calls and instances: no instance is lost or run twice, and a call that  *)
(* did not throw has waited for all of its instances.                      *)
(***************************************************************************)
EXTENDS LineSearch, ThreadPool, FiniteSetTheorems, TLAPS

-----------------------------------------------------------------------------
(* The parallel line search.                                               *)

\* The steps decrease with the exponent down to the minimum, and stay below
\* it from LastExp on (LineSearchStrategy.cpp:189-196).
LEMMA StepFacts ==
    /\ \A e \in Nat : stepLength(e) \in Steps /\ stepLength(e) \in Nat
    /\ \A e \in Candidates : e \in Nat /\ stepLength(e) > 0
    /\ \A e \in Nat : stepLength(e) < MinStepLength <=> e \notin Candidates
    /\ \A e \in Candidates, f \in Nat :
          e < f => stepLength(e) > stepLength(f)
    /\ \A e, f \in Candidates :
          stepLength(e) >= stepLength(f) => e <= f
    /\ Steps \subseteq Nat
BY StepAssumption DEF stepLength, Candidates, Steps

\* There is at least one task, so slot 0 exists (LineSearchStrategy.cpp:148).
LEMMA TaskCount ==
    /\ Cardinality(Tasks) \in Nat \ {0}
    /\ 0 \in Slots
    /\ NoSlot \in Nat /\ NoSlot \notin Slots
    /\ Slots \subseteq Nat
BY TasksAssumption, FS_CardinalityType, FS_EmptySet DEF Slots, NoSlot

\* While some task is still queued, fewer ids than tasks have been handed out.
LEMMA QueuedMeansFreeId ==
    ASSUME NEW t \in Tasks, NEW S \in SUBSET Tasks, t \notin S
    PROVE  /\ Cardinality(S) \in Nat
           /\ Cardinality(S) < Cardinality(Tasks)
           /\ Cardinality(S \cup {t}) = Cardinality(S) + 1
<1>1. IsFiniteSet(S)
  BY TasksAssumption, FS_Subset
<1>2. Cardinality(S) \in Nat /\ Cardinality(S \cup {t}) = Cardinality(S) + 1
  BY <1>1, FS_CardinalityType, FS_AddElement
<1>3. S \cup {t} \subseteq Tasks
  OBVIOUS
<1>4. Cardinality(S \cup {t}) <= Cardinality(Tasks)
  BY <1>3, TasksAssumption, FS_Subset
<1> QED
  BY <1>2, <1>4, TaskCount

-----------------------------------------------------------------------------
\* The initial state satisfies the invariant: no search has run yet.
LEMMA InitInv == Init => IInv
<1> SUFFICES ASSUME Init PROVE IInv
  OBVIOUS
<1> USE StepFacts, TaskCount DEF Init
<1>1. TypeOK
  BY DEF TypeOK, PCs, Steps
<1>2. SlotInv
  BY DEF SlotInv
<1>3. DrawInv
  BY DEF DrawInv, Holding, Candidates
<1>4. BestInv
  BY DEF BestInv
<1>5. AbortSparesLargerSteps /\ LargestArmijoStep /\ ChosenRollout
  BY DEF AbortSparesLargerSteps, LargestArmijoStep, ChosenRollout
<1> QED
  BY <1>1, <1>2, <1>3, <1>4, <1>5 DEF IInv

-----------------------------------------------------------------------------
\* A task between its start and its end works in a slot that exists.
LEMMA WorkingSlot ==
    ASSUME IInv, NEW t \in Tasks, pc[t] \notin {"queued", "done"}
    PROVE  taskId[t] \in Slots
<1>1. taskId[t] \in 0..(nextTaskId_ - 1)
  BY DEF IInv, SlotInv
<1>2. nextTaskId_ \in 0..Cardinality(Tasks)
  BY DEF IInv, TypeOK
<1> QED
  BY <1>1, <1>2, TaskCount DEF Slots

\* Every action keeps every variable in its type.
LEMMA TypeStep == IInv /\ [Next]_vars => TypeOK'
<1> SUFFICES ASSUME IInv, [Next]_vars PROVE TypeOK'
  OBVIOUS
<1> USE StepFacts, TaskCount
<1> TypeOK /\ SlotInv /\ DrawInv
  BY DEF IInv
<1>1. ASSUME NEW o \in SUBSET Candidates, Run(o) PROVE TypeOK'
  BY <1>1 DEF TypeOK, Run, PCs, Steps
<1>2. CASE BaselineThrows
  BY <1>2 DEF TypeOK, BaselineThrows, locals, Steps
<1>3. CASE Return
  BY <1>3 DEF TypeOK, Return, locals
<1>4. ASSUME NEW t \in Tasks, Start(t) PROVE TypeOK'
  <2> DEFINE S == {u \in Tasks : pc[u] # "queued"}
  <2>1. phase = "searching" /\ nextTaskId_ = Cardinality(S)
    BY <1>4 DEF Start, SlotInv, TypeOK
  <2>2. t \notin S /\ S \in SUBSET Tasks
    BY <1>4 DEF Start
  <2> HIDE DEF S
  <2>3. Cardinality(S) \in Nat /\ Cardinality(S) < Cardinality(Tasks)
    BY <2>2, QueuedMeansFreeId
  <2>4. nextTaskId_ \in Slots /\ nextTaskId_ + 1 \in 0..Cardinality(Tasks)
    BY <2>1, <2>3 DEF Slots
  <2> QED
    BY <1>4, <2>4 DEF TypeOK, Start, PCs
<1>5. ASSUME NEW t \in Tasks, Fetch(t) PROVE TypeOK'
  BY <1>5 DEF TypeOK, Fetch, PCs
<1>6. ASSUME NEW t \in Tasks, Check(t) PROVE TypeOK'
  BY <1>6 DEF TypeOK, Check, PCs, shared
<1>7. ASSUME NEW t \in Tasks, StartRollout(t) PROVE TypeOK'
  BY <1>7 DEF TypeOK, StartRollout, PCs
<1>8. ASSUME NEW t \in Tasks, FinishRollout(t) PROVE TypeOK'
  <2>1. accepted' \in [Tasks -> BOOLEAN]
    BY <1>8 DEF TypeOK, FinishRollout
  <2>2. workersSolution_' \in [Slots -> Steps]
    BY <1>8 DEF TypeOK, FinishRollout
  <2> QED
    BY <1>8, <2>1, <2>2 DEF TypeOK, FinishRollout, PCs
<1>9. ASSUME NEW t \in Tasks, Accept(t) PROVE TypeOK'
  <2>1. taskId[t] \in Slots
    BY <1>9, WorkingSlot DEF Accept
  <2>2. alphaExp[t] \in Candidates
    BY <1>9 DEF Accept, DrawInv, Holding
  <2>3. bestStepSize_' \in Steps /\ bestSolution' \in Steps
    BY <1>9, <2>1 DEF TypeOK, Accept
  <2>4. workersSolution_' \in [Slots -> Steps]
    BY <1>9 DEF TypeOK, Accept
  <2> QED
    BY <1>9, <2>2, <2>3, <2>4 DEF TypeOK, Accept, PCs
<1>10. ASSUME NEW t \in Tasks, Reject(t) PROVE TypeOK'
  BY <1>10 DEF TypeOK, Reject, DrawInv, Holding, PCs
<1>11. ASSUME NEW t \in Tasks, Abort(t) PROVE TypeOK'
  <2>1. abortNext'[t] \in Slots
    <3>1. abortNext[t] \in Slots
      BY DEF TypeOK
    <3>2. CASE moreRollouts(t)
      <4>1. abortNext[t] + 1 \in Slots
        BY <3>1, <3>2 DEF moreRollouts, Slots
      <4> QED
        BY <1>11, <3>2, <4>1 DEF Abort, TypeOK
    <3> QED
      BY <1>11, <3>1, <3>2 DEF Abort, TypeOK
  <2> QED
    BY <1>11, <2>1 DEF TypeOK, Abort, PCs
<1>12. CASE UNCHANGED vars
  BY <1>12 DEF TypeOK, vars, shared, locals
<1> QED
  BY <1>1, <1>2, <1>3, <1>4, <1>5, <1>6, <1>7, <1>8, <1>9, <1>10, <1>11,
     <1>12 DEF Next, TaskStep

-----------------------------------------------------------------------------
\* Every action hands out ids one by one and keeps the slots apart.
LEMMA SlotStep == IInv /\ [Next]_vars => SlotInv'
<1> SUFFICES ASSUME IInv, [Next]_vars PROVE SlotInv'
  OBVIOUS
<1> USE StepFacts, TaskCount
<1> TypeOK /\ SlotInv
  BY DEF IInv
<1> DEFINE Started == {u \in Tasks : pc[u] # "queued"}
<1>1. ASSUME NEW t \in Tasks, pc[t] # "queued", pc'[t] # "queued",
             \A u \in Tasks \ {t} : pc'[u] = pc[u]
      PROVE  Started' = Started
  BY <1>1
<1>2. ASSUME NEW o \in SUBSET Candidates, Run(o) PROVE SlotInv'
  <2>1. Started' = {}
    BY <1>2 DEF Run
  <2>2. nextTaskId_' = Cardinality(Started')
    BY <1>2, <2>1, FS_EmptySet DEF Run
  <2> QED
    BY <1>2, <2>2 DEF SlotInv, Run
<1>3. CASE BaselineThrows
  BY <1>3 DEF SlotInv, BaselineThrows, locals
<1>4. CASE Return
  BY <1>4 DEF SlotInv, Return, locals
<1>5. ASSUME NEW t \in Tasks, Start(t) PROVE SlotInv'
  <2>1. phase = "searching" /\ nextTaskId_ = Cardinality(Started)
    BY <1>5 DEF Start, SlotInv
  <2>2. t \notin Started /\ Started \in SUBSET Tasks
    BY <1>5 DEF Start
  <2>3. Started' = Started \cup {t}
    BY <1>5 DEF Start, TypeOK
  <2> HIDE DEF Started
  <2>4. Cardinality(Started') = nextTaskId_ + 1
    BY <2>1, <2>2, <2>3, QueuedMeansFreeId
  <2>5. phase' = "searching" => /\ nextTaskId_' = Cardinality(Started')
                                /\ bestSolution' = bestStepSize_'
    BY <1>5, <2>1, <2>4 DEF Start, SlotInv
  <2>6. nextTaskId_ \in Nat
    BY DEF TypeOK
  <2>7. \A u \in Tasks :
          /\ pc'[u] \notin {"queued", "done"}
               => taskId'[u] \in 0..(nextTaskId_' - 1)
          /\ pc'[u] = "decide" =>
                workersSolution_'[taskId'[u]] = stepLength(alphaExp'[u])
    BY <1>5, <2>6 DEF Start, SlotInv, TypeOK
  <2>8. \A u, v \in Tasks :
          u # v /\ pc'[u] \notin {"queued", "done"} /\ pc'[v] \notin {"queued", "done"}
              => taskId'[u] # taskId'[v]
    BY <1>5, <2>6 DEF Start, SlotInv, TypeOK
  <2>9. phase' = "searching"
    BY <1>5, <2>1 DEF Start
  <2> QED
    BY <2>5, <2>7, <2>8, <2>9 DEF SlotInv, Started
<1>6. ASSUME NEW t \in Tasks, Fetch(t) PROVE SlotInv'
  <2>1. Started' = Started
    BY <1>6, <1>1 DEF Fetch, TypeOK
  <2> QED
    BY <1>6, <2>1 DEF Fetch, SlotInv, TypeOK
<1>7. ASSUME NEW t \in Tasks, Check(t) PROVE SlotInv'
  <2>1. Started' = Started
    BY <1>7, <1>1 DEF Check, TypeOK
  <2> QED
    BY <1>7, <2>1 DEF Check, SlotInv, TypeOK, shared
<1>8. ASSUME NEW t \in Tasks, StartRollout(t) PROVE SlotInv'
  <2>1. Started' = Started
    BY <1>8, <1>1 DEF StartRollout, TypeOK
  <2> QED
    BY <1>8, <2>1 DEF StartRollout, SlotInv, TypeOK
<1>9. ASSUME NEW t \in Tasks, FinishRollout(t) PROVE SlotInv'
  <2>1. Started' = Started
    BY <1>9, <1>1 DEF FinishRollout, TypeOK
  <2>2. taskId[t] \in Slots
    BY <1>9, WorkingSlot DEF FinishRollout
  <2>3. ASSUME NEW u \in Tasks, u # t, pc[u] = "decide"
        PROVE  workersSolution_'[taskId[u]] = workersSolution_[taskId[u]]
    BY <1>9, <2>2, <2>3 DEF FinishRollout, SlotInv, TypeOK
  <2>4. workersSolution_'[taskId[t]] = stepLength(alphaExp[t])
    BY <1>9, <2>2 DEF FinishRollout, TypeOK
  <2>5. \A u \in Tasks : pc'[u] = "decide" =>
          workersSolution_'[taskId'[u]] = stepLength(alphaExp'[u])
    BY <1>9, <2>3, <2>4 DEF FinishRollout, SlotInv, TypeOK
  <2>6. \A u \in Tasks : /\ pc'[u] \notin {"queued", "done"} =>
                               /\ pc[u] \notin {"queued", "done"}
                          /\ taskId'[u] = taskId[u]
    BY <1>9 DEF FinishRollout, TypeOK
  <2>7. phase' = "searching"
    BY <1>9 DEF FinishRollout, SlotInv
  <2> QED
    BY <1>9, <2>1, <2>5, <2>6, <2>7 DEF FinishRollout, SlotInv
<1>10. ASSUME NEW t \in Tasks, Accept(t) PROVE SlotInv'
  <2>1. Started' = Started
    BY <1>10, <1>1 DEF Accept, TypeOK
  <2>2. workersSolution_[taskId[t]] = stepLength(alphaExp[t])
    BY <1>10 DEF Accept, SlotInv
  <2>3. ASSUME NEW u \in Tasks, u # t, pc[u] = "decide"
        PROVE  workersSolution_'[taskId[u]] = workersSolution_[taskId[u]]
    BY <1>10, <2>3 DEF Accept, SlotInv, TypeOK
  <2>4. \A u \in Tasks : pc'[u] = "decide" =>
          workersSolution_'[taskId'[u]] = stepLength(alphaExp'[u])
    BY <1>10, <2>3 DEF Accept, SlotInv, TypeOK
  <2>5. phase' = "searching" => /\ nextTaskId_' = Cardinality(Started')
                                /\ bestSolution' = bestStepSize_'
    BY <1>10, <2>1, <2>2 DEF Accept, SlotInv
  <2>6. phase' = "searching"
    BY <1>10 DEF Accept, SlotInv
  <2>7. \A u \in Tasks : /\ pc'[u] \notin {"queued", "done"} =>
                               /\ pc[u] \notin {"queued", "done"}
                          /\ taskId'[u] = taskId[u]
    BY <1>10 DEF Accept, TypeOK
  <2> QED
    BY <1>10, <2>4, <2>5, <2>6, <2>7 DEF Accept, SlotInv
<1>11. ASSUME NEW t \in Tasks, Reject(t) PROVE SlotInv'
  <2>1. Started' = Started
    BY <1>11, <1>1 DEF Reject, TypeOK
  <2> QED
    BY <1>11, <2>1 DEF Reject, SlotInv, TypeOK
<1>12. ASSUME NEW t \in Tasks, Abort(t) PROVE SlotInv'
  <2>1. Started' = Started
    BY <1>12, <1>1 DEF Abort, TypeOK
  <2> QED
    BY <1>12, <2>1 DEF Abort, SlotInv, TypeOK
<1>13. CASE UNCHANGED vars
  BY <1>13 DEF SlotInv, vars, shared, locals
<1> QED
  BY <1>2, <1>3, <1>4, <1>5, <1>6, <1>7, <1>8, <1>9, <1>10, <1>11, <1>12,
     <1>13 DEF Next, TaskStep

-----------------------------------------------------------------------------
\* Every action keeps the drawn exponents accounted for.
LEMMA DrawStep == IInv /\ [Next]_vars => DrawInv'
<1> SUFFICES ASSUME IInv, [Next]_vars PROVE DrawInv'
  OBVIOUS
<1> USE StepFacts
<1> TypeOK /\ DrawInv
  BY DEF IInv
<1>1. ASSUME NEW o \in SUBSET Candidates, Run(o) PROVE DrawInv'
  BY <1>1 DEF DrawInv, Holding, Run, Candidates
<1>2. CASE BaselineThrows
  BY <1>2 DEF DrawInv, Holding, BaselineThrows, locals
<1>3. CASE Return
  BY <1>3 DEF DrawInv, Holding, Return, locals
<1>4. ASSUME NEW t \in Tasks, Start(t) PROVE DrawInv'
  BY <1>4 DEF DrawInv, Holding, Start, TypeOK
<1>5. ASSUME NEW t \in Tasks, Fetch(t) PROVE DrawInv'
  <2>1. alphaExpNext_ \in Nat /\ alphaExpNext_' = alphaExpNext_ + 1
    BY <1>5 DEF Fetch, TypeOK
  <2>2. pc'[t] = "check" <=> alphaExpNext_ \in Candidates
    BY <1>5, <2>1 DEF Fetch, TypeOK
  <2>3. ~Holding(t) /\ alphaExp'[t] = alphaExpNext_ /\ pc'[t] \in {"check", "done"}
    BY <1>5 DEF Fetch, TypeOK, Holding
  <2>4. \A u \in Tasks \ {t} : pc'[u] = pc[u] /\ alphaExp'[u] = alphaExp[u]
    BY <1>5 DEF Fetch, TypeOK
  <2>5. UNCHANGED <<bestStepSize_, alphaProcessed_>>
    BY <1>5 DEF Fetch
  <2>6. \A e \in Candidates : e < alphaExpNext_' =>
          e < alphaExpNext_ \/ e = alphaExpNext_
    BY <2>1
  <2>7. \A u \in Tasks \ {t} : Holding(u)' <=> Holding(u)
    BY <2>4 DEF Holding
  <2>8. Holding(t)' <=> alphaExpNext_ \in Candidates
    BY <2>2, <2>3 DEF Holding
  <2> QED
    BY <2>1, <2>3, <2>4, <2>5, <2>6, <2>7, <2>8 DEF DrawInv, TypeOK
<1>6. ASSUME NEW t \in Tasks, Check(t) PROVE DrawInv'
  BY <1>6 DEF DrawInv, Holding, Check, TypeOK, shared
<1>7. ASSUME NEW t \in Tasks, StartRollout(t) PROVE DrawInv'
  BY <1>7 DEF DrawInv, Holding, StartRollout, TypeOK
<1>8. ASSUME NEW t \in Tasks, FinishRollout(t) PROVE DrawInv'
  BY <1>8 DEF DrawInv, Holding, FinishRollout, TypeOK
<1>9. ASSUME NEW t \in Tasks, Accept(t) PROVE DrawInv'
  <2>1. bestStepSize_' > bestStepSize_ /\ bestStepSize_' \in Nat /\ bestStepSize_ \in Nat
    BY <1>9 DEF Accept, improves, TypeOK
  <2> QED
    BY <1>9, <2>1 DEF DrawInv, Holding, Accept, TypeOK
<1>10. ASSUME NEW t \in Tasks, Reject(t) PROVE DrawInv'
  BY <1>10 DEF DrawInv, Holding, Reject, TypeOK
<1>11. ASSUME NEW t \in Tasks, Abort(t) PROVE DrawInv'
  BY <1>11 DEF DrawInv, Holding, Abort, TypeOK
<1>12. CASE UNCHANGED vars
  BY <1>12 DEF DrawInv, Holding, vars, shared, locals
<1> QED
  BY <1>1, <1>2, <1>3, <1>4, <1>5, <1>6, <1>7, <1>8, <1>9, <1>10, <1>11,
     <1>12 DEF Next, TaskStep

-----------------------------------------------------------------------------
\* No action leaves the best step below a candidate it should have taken.
LEMMA BestStep == IInv /\ [Next]_vars => BestInv'
<1> SUFFICES ASSUME IInv, [Next]_vars PROVE BestInv'
  OBVIOUS
<1> USE StepFacts
<1> TypeOK /\ SlotInv /\ DrawInv /\ BestInv /\ AbortSparesLargerSteps
  BY DEF IInv
<1>1. ASSUME NEW o \in SUBSET Candidates, Run(o) PROVE BestInv'
  BY <1>1 DEF BestInv, Run
<1>2. CASE BaselineThrows
  BY <1>2 DEF BestInv, BaselineThrows, locals
<1>3. CASE Return
  BY <1>3 DEF BestInv, Return, locals
<1>4. ASSUME NEW t \in Tasks, Start(t) PROVE BestInv'
  BY <1>4 DEF BestInv, Start, TypeOK
<1>5. ASSUME NEW t \in Tasks, Fetch(t) PROVE BestInv'
  <2>1. alphaExpNext_ \in Nat /\ alphaExpNext_' = alphaExpNext_ + 1
    BY <1>5 DEF Fetch, TypeOK
  <2>2. pc'[t] = "done" => alphaExpNext_ \notin Candidates
    BY <1>5, <2>1 DEF Fetch, TypeOK
  <2>3. \A e \in Candidates : e >= alphaExpNext_ => alphaExpNext_ \in Candidates
    BY <2>1, StepAssumption DEF Candidates
  <2> QED
    BY <1>5, <2>1, <2>2, <2>3 DEF BestInv, Fetch, TypeOK
<1>6. ASSUME NEW t \in Tasks, Check(t) PROVE BestInv'
  <2>1. /\ alphaExp[t] \in Candidates
        /\ alphaExp[t] < alphaExpNext_ /\ alphaExpNext_ \in Nat
    BY <1>6 DEF Check, DrawInv, Holding, TypeOK
  <2>2. ASSUME pc'[t] = "done", NEW e \in Candidates, e >= alphaExpNext_
        PROVE  stepLength(e) < bestStepSize_
    <3>1. stepLength(alphaExp[t]) < bestStepSize_
      BY <1>6, <2>2 DEF Check, TypeOK
    <3>2. stepLength(e) < stepLength(alphaExp[t])
      BY <2>1, <2>2
    <3>3. stepLength(e) \in Nat /\ stepLength(alphaExp[t]) \in Nat /\ bestStepSize_ \in Nat
      BY <2>1 DEF TypeOK
    <3> QED
      BY <3>1, <3>2, <3>3
  <2> QED
    BY <1>6, <2>2 DEF BestInv, Check, TypeOK, shared
<1>7. ASSUME NEW t \in Tasks, StartRollout(t) PROVE BestInv'
  BY <1>7 DEF BestInv, StartRollout, TypeOK
<1>8. ASSUME NEW t \in Tasks, FinishRollout(t) PROVE BestInv'
  <2>1. /\ accepted'[t] => alphaExp[t] \in armijo
        /\ alphaExp[t] \in armijo /\ ~accepted'[t]
              => stepLength(alphaExp[t]) < bestStepSize_
    BY <1>8 DEF FinishRollout, TypeOK, AbortSparesLargerSteps
  <2>2. \A u \in Tasks \ {t} : accepted'[u] = accepted[u] /\ pc'[u] = pc[u]
    BY <1>8 DEF FinishRollout, TypeOK
  <2> QED
    BY <1>8, <2>1, <2>2 DEF BestInv, FinishRollout, TypeOK
<1>9. ASSUME NEW t \in Tasks, Accept(t) PROVE BestInv'
  <2>1. /\ bestStepSize_' = stepLength(alphaExp[t])
        /\ bestStepSize_' > bestStepSize_
        /\ bestStepSize_' \in Nat /\ bestStepSize_ \in Nat
        /\ alphaExp[t] \in armijo /\ alphaExp[t] \in Candidates
    BY <1>9 DEF Accept, improves, TypeOK, BestInv, DrawInv, Holding
  <2>2. \A e \in alphaProcessed_' \cap armijo' : bestStepSize_' >= stepLength(e)
    BY <1>9, <2>1 DEF Accept, BestInv, TypeOK
  <2>3. ASSUME NEW u \in Tasks, pc'[u] = "abort", NEW e \in Candidates,
               stepLength(e) >= bestStepSize_'
        PROVE  e \in alphaProcessed_'
    <3>1. CASE u = t
      <4>1. allLargerProcessed(t)
        BY <1>9, <2>3, <3>1 DEF Accept, TypeOK
      <4>2. e <= alphaExp[t]
        BY <2>1, <2>3
      <4>3. e = alphaExp[t] \/ e \in 0..(alphaExp[t] - 1)
        BY <2>1, <4>2
      <4> QED
        BY <1>9, <4>1, <4>3 DEF Accept, allLargerProcessed
    <3>2. CASE u # t
      <4>1. pc[u] = "abort"
        BY <1>9, <2>3, <3>2 DEF Accept, TypeOK
      <4>2. stepLength(e) >= bestStepSize_
        BY <2>1, <2>3
      <4> QED
        BY <1>9, <4>1, <4>2 DEF Accept, BestInv
    <3> QED
      BY <3>1, <3>2
  <2>4. \A u \in Tasks : pc'[u] \in {"decide", "done"} => pc'[u] = pc[u] /\ u # t
    BY <1>9 DEF Accept, TypeOK
  <2>5. \A u \in Tasks : pc'[u] = "decide" =>
          /\ accepted'[u] => alphaExp'[u] \in armijo'
          /\ alphaExp'[u] \in armijo' /\ ~accepted'[u]
                => stepLength(alphaExp'[u]) < bestStepSize_'
    BY <1>9, <2>1, <2>4 DEF Accept, BestInv, TypeOK
  <2>6. \A u \in Tasks : phase' = "searching" /\ pc'[u] = "done" =>
          \A e \in Candidates :
              e >= alphaExpNext_' => stepLength(e) < bestStepSize_'
    BY <1>9, <2>1, <2>4 DEF Accept, BestInv, TypeOK
  <2>7. \E e \in armijo' : bestStepSize_' = stepLength(e)
    BY <1>9, <2>1 DEF Accept
  <2> QED
    BY <2>2, <2>3, <2>5, <2>6, <2>7 DEF BestInv
<1>10. ASSUME NEW t \in Tasks, Reject(t) PROVE BestInv'
  <2>1. alphaExp[t] \in Candidates /\ bestStepSize_ \in Nat
    BY <1>10 DEF Reject, DrawInv, Holding, TypeOK
  <2>2. alphaExp[t] \in armijo => bestStepSize_ >= stepLength(alphaExp[t])
    BY <1>10, <2>1 DEF Reject, improves, BestInv
  <2> QED
    BY <1>10, <2>1, <2>2 DEF BestInv, Reject, TypeOK
<1>11. ASSUME NEW t \in Tasks, Abort(t) PROVE BestInv'
  <2>1. ASSUME NEW e \in Candidates, e >= alphaExpNext_
        PROVE  stepLength(e) < bestStepSize_
    <3>1. e \notin alphaProcessed_
      BY <2>1 DEF DrawInv, TypeOK
    <3>2. ~(stepLength(e) >= bestStepSize_)
      BY <1>11, <3>1 DEF Abort, BestInv
    <3> QED
      BY <3>2 DEF TypeOK
  <2> QED
    BY <1>11, <2>1 DEF BestInv, Abort, TypeOK
<1>12. CASE UNCHANGED vars
  BY <1>12 DEF BestInv, vars, shared, locals
<1> QED
  BY <1>1, <1>2, <1>3, <1>4, <1>5, <1>6, <1>7, <1>8, <1>9, <1>10, <1>11,
     <1>12 DEF Next, TaskStep

-----------------------------------------------------------------------------
\* No action aborts a rollout that could still win.
LEMMA AbortStep == IInv /\ [Next]_vars => AbortSparesLargerSteps'
<1> SUFFICES ASSUME IInv, [Next]_vars PROVE AbortSparesLargerSteps'
  OBVIOUS
<1> USE StepFacts DEF AbortSparesLargerSteps
<1> TypeOK /\ SlotInv /\ DrawInv /\ BestInv /\ AbortSparesLargerSteps
  BY DEF IInv
<1>1. ASSUME NEW o \in SUBSET Candidates, Run(o) PROVE AbortSparesLargerSteps'
  BY <1>1 DEF Run
<1>2. CASE BaselineThrows
  BY <1>2 DEF BaselineThrows, SlotInv, locals
<1>3. CASE Return
  BY <1>3 DEF Return, locals
<1>4. ASSUME NEW t \in Tasks, Start(t) PROVE AbortSparesLargerSteps'
  BY <1>4 DEF Start, TypeOK
<1>5. ASSUME NEW t \in Tasks, Fetch(t) PROVE AbortSparesLargerSteps'
  BY <1>5 DEF Fetch, TypeOK
<1>6. ASSUME NEW t \in Tasks, Check(t) PROVE AbortSparesLargerSteps'
  BY <1>6 DEF Check, TypeOK, shared
<1>7. ASSUME NEW t \in Tasks, StartRollout(t) PROVE AbortSparesLargerSteps'
  <2>1. taskId[t] \in Slots
    BY <1>7, WorkingSlot DEF StartRollout
  <2>2. killIntegration_'[taskId[t]] = FALSE
    BY <1>7, <2>1 DEF StartRollout, TypeOK
  <2>3. ASSUME NEW u \in Tasks, u # t, pc[u] = "integrating",
               killIntegration_'[taskId[u]]
        PROVE  killIntegration_[taskId[u]]
    BY <1>7, <2>2, <2>3 DEF StartRollout, TypeOK
  <2> QED
    BY <1>7, <2>2, <2>3 DEF StartRollout, TypeOK
<1>8. ASSUME NEW t \in Tasks, FinishRollout(t) PROVE AbortSparesLargerSteps'
  BY <1>8 DEF FinishRollout, TypeOK
<1>9. ASSUME NEW t \in Tasks, Accept(t) PROVE AbortSparesLargerSteps'
  <2>1. bestStepSize_' > bestStepSize_ /\ bestStepSize_' \in Nat /\ bestStepSize_ \in Nat
    BY <1>9 DEF Accept, improves, TypeOK
  <2>2. \A u \in Tasks : stepLength(alphaExp[u]) \in Nat
    BY DEF TypeOK
  <2> QED
    BY <1>9, <2>1, <2>2 DEF Accept, TypeOK
<1>10. ASSUME NEW t \in Tasks, Reject(t) PROVE AbortSparesLargerSteps'
  BY <1>10 DEF Reject, TypeOK
<1>11. ASSUME NEW t \in Tasks, Abort(t) PROVE AbortSparesLargerSteps'
  <2>1. ASSUME NEW u \in Tasks, pc[u] = "integrating"
        PROVE  stepLength(alphaExp[u]) < bestStepSize_
    <3>1. alphaExp[u] \in Candidates /\ alphaExp[u] \notin alphaProcessed_
      BY <2>1 DEF DrawInv, Holding
    <3>2. ~(stepLength(alphaExp[u]) >= bestStepSize_)
      BY <1>11, <3>1 DEF Abort, BestInv
    <3> QED
      BY <3>1, <3>2 DEF TypeOK
  <2>2. \A u \in Tasks : pc'[u] = "integrating" => pc[u] = "integrating"
    BY <1>11 DEF Abort, TypeOK
  <2> QED
    BY <1>11, <2>1, <2>2 DEF Abort
<1>12. CASE UNCHANGED vars
  BY <1>12 DEF vars, shared, locals
<1> QED
  BY <1>1, <1>2, <1>3, <1>4, <1>5, <1>6, <1>7, <1>8, <1>9, <1>10, <1>11,
     <1>12 DEF Next, TaskStep

-----------------------------------------------------------------------------
\* The only way to return is with every task ended, and then the accounting
\* leaves the largest acceptable step as the best one.
LEMMA ReturnStep == IInv /\ [Next]_vars => (LargestArmijoStep /\ ChosenRollout)'
<1> SUFFICES ASSUME IInv, [Next]_vars PROVE (LargestArmijoStep /\ ChosenRollout)'
  OBVIOUS
<1> USE StepFacts
<1> /\ TypeOK /\ SlotInv /\ DrawInv /\ BestInv
    /\ LargestArmijoStep /\ ChosenRollout
  BY DEF IInv
<1>1. CASE Return
  <2>1. bestSolution = bestStepSize_
    BY <1>1 DEF Return, SlotInv
  <2>2. ASSUME NEW e \in armijo PROVE stepLength(e) <= bestStepSize_
    <3>1. e \in Candidates /\ bestStepSize_ \in Nat /\ alphaExpNext_ \in Nat
      BY DEF TypeOK
    <3>2. CASE e >= alphaExpNext_
      <4>1. PICK t \in Tasks : TRUE
        BY TasksAssumption
      <4> QED
        BY <1>1, <3>1, <3>2, <4>1 DEF Return, BestInv
    <3>3. CASE e < alphaExpNext_
      <4>1. \A t \in Tasks : ~Holding(t)
        BY <1>1 DEF Return, Holding
      <4> QED
        BY <3>1, <3>3, <4>1 DEF DrawInv, BestInv
    <3> QED
      BY <3>1, <3>2, <3>3
  <2>3. bestStepSize_ = armijoStep
    <3>1. CASE armijo = {}
      BY <3>1 DEF armijoStep, BestInv
    <3>2. CASE armijo # {}
      <4>1. PICK b \in armijo : bestStepSize_ = stepLength(b)
        BY <2>2, <3>2 DEF BestInv, TypeOK
      <4>2. \A f \in armijo : b <= f
        BY <2>2, <4>1 DEF TypeOK
      <4>3. \A c \in armijo : (\A f \in armijo : c <= f) => c = b
        BY <4>1, <4>2 DEF TypeOK
      <4> DEFINE least == CHOOSE e \in armijo : \A f \in armijo : e <= f
      <4>4. least \in armijo /\ \A f \in armijo : least <= f
        BY <4>2
      <4>5. armijoStep = stepLength(least)
        BY <3>2 DEF armijoStep
      <4> QED
        BY <4>1, <4>3, <4>4, <4>5
    <3> QED
      BY <3>1, <3>2
  <2> QED
    BY <1>1, <2>1, <2>3 DEF Return, LargestArmijoStep, ChosenRollout, armijoStep
<1>2. CASE ~Return
  <2>1. phase' = "returned" =>
           UNCHANGED <<phase, armijo, bestStepSize_, bestSolution>>
    <3>1. ASSUME NEW t \in Tasks, TaskStep(t)
          PROVE phase = "searching" /\ phase' = phase
      BY <3>1 DEF TaskStep, Start, Fetch, Check, StartRollout, FinishRollout,
                  Accept, Reject, Abort, SlotInv
    <3> QED
      BY <1>2, <3>1 DEF Next, Run, BaselineThrows, vars, shared
  <2> QED
    BY <2>1 DEF LargestArmijoStep, ChosenRollout, armijoStep
<1> QED
  BY <1>1, <1>2

-----------------------------------------------------------------------------
\* The invariant holds in every reachable state (LineSearchStrategy.cpp:132-261).
THEOREM Invariance == Spec => []IInv
<1>1. IInv /\ [Next]_vars => IInv'
  BY TypeStep, SlotStep, DrawStep, BestStep, AbortStep, ReturnStep DEF IInv
<1> QED
  BY InitInv, <1>1, PTL DEF Spec

\* The variables keep their types (LineSearchStrategy.h:118-141).
THEOREM Typing == Spec => []TypeOK
<1>1. IInv => TypeOK
  BY DEF IInv
<1> QED
  BY Invariance, <1>1, PTL

\* run() returns with the step of the single-core search
\* (the comment at LineSearchStrategy.cpp:230-234).
THEOREM ReturnsLargestArmijoStep == Spec => []LargestArmijoStep
<1>1. IInv => LargestArmijoStep
  BY DEF IInv
<1> QED
  BY Invariance, <1>1, PTL

\* The solution handed back belongs to that step (LineSearchStrategy.cpp:241).
THEOREM ReturnsChosenRollout == Spec => []ChosenRollout
<1>1. IInv => ChosenRollout
  BY DEF IInv
<1> QED
  BY Invariance, <1>1, PTL

\* Aborting the other tasks loses no acceptable step
\* (LineSearchStrategy.cpp:242-259).
THEOREM AbortIsHarmless == Spec => []AbortSparesLargerSteps
<1>1. IInv => AbortSparesLargerSteps
  BY DEF IInv
<1> QED
  BY Invariance, <1>1, PTL

\* Two tasks never write the same worker slot (LineSearchStrategy.cpp:166-169).
THEOREM SlotsExclusive == Spec => []SlotsNotShared
<1>1. IInv => SlotsNotShared
  BY DEF IInv, SlotInv, SlotsNotShared
<1> QED
  BY Invariance, <1>1, PTL

-----------------------------------------------------------------------------
(* The thread pool.                                                        *)

\* The instances are numbered by call and future, the owner's own has number 0
\* and is never handed to a worker.
Numbering ==
    /\ \A t \in created : t[1] \in 1..call /\ (t[1] = call => t[2] <= futures)
    /\ owner \in {"launch", "notify"} => <<call, 0>> \notin created
    /\ owner \in {"launch", "notify", "own", "collect"} => call > 0
    /\ \A t \in Queued \cup Taken : t[2] # 0

Excused(t) == \E u \in threw : u[1] = t[1]

\* Who is behind: instances of earlier calls only if their call has thrown, and
\* of the current one only above the futures collected.
Accounting ==
    /\ \A t \in created \ completed : t[1] < call => Excused(t)
    /\ owner \in {"launch", "notify", "own"} => collected = 0
    /\ owner = "collect" => \A k \in 0..collected : <<call, k>> \in completed
    /\ owner \in {"idle", "join", "gone"} =>
          \A t \in created \ completed : Excused(t)

PoolInv == PoolTypeOK /\ EachTaskOnce /\ Numbering /\ Accounting

-----------------------------------------------------------------------------
(* The queue.                                                              *)

Elements(s) == {s[i] : i \in DOMAIN s}
Distinct(s) == \A i, j \in DOMAIN s : s[i] = s[j] => i = j

\* A new element behind the others.
LEMMA Appending ==
    ASSUME NEW S, NEW s \in Seq(S), NEW x \in S, Distinct(s), x \notin Elements(s)
    PROVE  /\ Append(s, x) \in Seq(S)
           /\ Elements(Append(s, x)) = Elements(s) \cup {x}
           /\ Distinct(Append(s, x))
<1>1. /\ Append(s, x) \in Seq(S) /\ Len(s) \in Nat
      /\ DOMAIN s = 1..Len(s) /\ DOMAIN Append(s, x) = 1..(Len(s) + 1)
      /\ \A i \in 1..Len(s) : Append(s, x)[i] = s[i]
      /\ Append(s, x)[Len(s) + 1] = x
  OBVIOUS
<1>2. \A i \in 1..(Len(s) + 1) : i \in 1..Len(s) \/ i = Len(s) + 1
  BY <1>1
<1>3. Elements(Append(s, x)) = Elements(s) \cup {x}
  BY <1>1, <1>2 DEF Elements
<1>4. Distinct(Append(s, x))
  BY <1>1, <1>2 DEF Distinct, Elements
<1> QED BY <1>1, <1>3, <1>4

\* The first element leaves.
LEMMA Popping ==
    ASSUME NEW S, NEW s \in Seq(S), s # <<>>, Distinct(s)
    PROVE  /\ Tail(s) \in Seq(S) /\ Head(s) \in Elements(s)
           /\ Elements(Tail(s)) = Elements(s) \ {Head(s)}
           /\ Distinct(Tail(s))
<1>1. /\ Tail(s) \in Seq(S) /\ Len(s) \in Nat \ {0} /\ Head(s) = s[1]
      /\ DOMAIN s = 1..Len(s) /\ DOMAIN Tail(s) = 1..(Len(s) - 1)
      /\ \A i \in 1..(Len(s) - 1) : Tail(s)[i] = s[i + 1]
  OBVIOUS
<1>2. Head(s) \in Elements(s)
  BY <1>1 DEF Elements
<1>3. Distinct(Tail(s))
  BY <1>1 DEF Distinct
<1>4. ASSUME NEW y \in Elements(Tail(s)) PROVE y \in Elements(s) \ {Head(s)}
  <2>1. PICK i \in 1..(Len(s) - 1) : y = s[i + 1]
    BY <1>1 DEF Elements
  <2>2. i + 1 \in DOMAIN s /\ 1 \in DOMAIN s /\ i + 1 # 1
    BY <1>1
  <2> QED BY <1>1, <2>1, <2>2 DEF Elements, Distinct
<1>5. ASSUME NEW y \in Elements(s) \ {Head(s)} PROVE y \in Elements(Tail(s))
  <2>1. PICK i \in 1..Len(s) : y = s[i]
    BY <1>1 DEF Elements
  <2>2. i # 1
    BY <1>1, <2>1
  <2>3. i - 1 \in 1..(Len(s) - 1) /\ s[(i - 1) + 1] = s[i]
    BY <1>1, <2>1, <2>2
  <2> QED BY <1>1, <2>1, <2>3 DEF Elements
<1> QED BY <1>1, <1>2, <1>3, <1>4, <1>5

-----------------------------------------------------------------------------
(* The invariant.                                                          *)

LEMMA PoolInitial == PoolInit => PoolInv
<1> SUFFICES ASSUME PoolInit PROVE PoolInv
  OBVIOUS
<1> USE PoolAssumption DEF PoolInit
<1>1. PoolTypeOK
  <2>1. worker \in [Thread -> {"none", "lock", "waiting", "run", "exited"}]
    OBVIOUS
  <2>2. task \in [Thread -> Task \cup {NoTask}]
    OBVIOUS
  <2>3. taskQueue_ \in Seq(Task)
    OBVIOUS
  <2>4. /\ numThreads \in 0..MaxThreads
        /\ call \in 0..MaxCalls /\ N \in 1..MaxParallel
        /\ futures \in 0..(MaxParallel - 1) /\ collected \in 0..futures
        /\ created = {} /\ completed = {} /\ threw = {} /\ owner = "idle"
    <3>1. 0 \in 0..MaxCalls /\ 1 \in 1..MaxParallel /\ 0 \in 0..(MaxParallel - 1)
      BY SMT
    <3>2. /\ numThreads \in 0..MaxThreads
          /\ call = 0 /\ N = 1 /\ futures = 0 /\ collected = 0
          /\ created = {} /\ completed = {} /\ threw = {} /\ owner = "idle"
      BY Zenon
    <3> HIDE DEF PoolInit
    <3> QED BY <3>1, <3>2
  <2>5. stop_ \in BOOLEAN
    BY Zenon
  <2> HIDE DEF PoolInit
  <2> QED BY <2>1, <2>2, <2>3, <2>4, <2>5 DEF PoolTypeOK
<1>2. Queued = {} /\ Running = {} /\ Taken = {}
  BY DEF Queued, Running, Taken
<1>3. EachTaskOnce
  BY <1>2 DEF EachTaskOnce
<1>4. Numbering /\ Accounting
  BY <1>2 DEF Numbering, Accounting
<1> QED BY <1>1, <1>3, <1>4 DEF PoolInv

\* Where the instances are, said of the queue as a sequence.
LEMMA Places ==
    ASSUME PoolInv
    PROVE  /\ taskQueue_ \in Seq(Task) /\ Distinct(taskQueue_)
           /\ Queued = Elements(taskQueue_)
           /\ Queued \cup Taken \cup completed \subseteq created
           /\ created \subseteq Task
BY DEF PoolInv, PoolTypeOK, EachTaskOnce, Distinct, Elements, Queued

\* Instances stay where they are when neither the queue nor what is run changes.
LEMMA PlacesKept ==
    ASSUME UNCHANGED <<taskQueue_, task>>,
           \A w \in Thread : worker'[w] = "run" <=> worker[w] = "run"
    PROVE  Queued' = Queued /\ Running' = Running /\ Taken' = Taken
<1>1. Queued' = Queued /\ Running' = Running
  BY DEF Queued, Running
<1> QED BY <1>1 DEF Taken

\* Calls of the owner that move no instance.
LEMMA OwnerKeeps ==
    ASSUME PoolInv,
           RunParallel \/ NotifyOne \/ Collect \/ ReturnFromCall \/ Join \/ Destroy
    PROVE  PoolInv'
<1> USE PoolAssumption DEF PoolInv
<1>1. /\ UNCHANGED <<taskQueue_, task, instances>>
      /\ \A w \in Thread : worker'[w] = "run" <=> worker[w] = "run"
      /\ owner # "own" /\ owner' # "own"
  BY DEF RunParallel, NotifyOne, Collect, ReturnFromCall, Join, Destroy, Waiting, pool,
         workers, PoolTypeOK
<1>2. Queued' = Queued /\ Running' = Running /\ Taken' = Taken
  BY <1>1, PlacesKept
<1>3. EachTaskOnce'
  BY <1>1, <1>2 DEF EachTaskOnce, instances
<1>4. CASE RunParallel
  <2>1. PoolTypeOK'
    BY <1>4 DEF RunParallel, PoolTypeOK, pool, workers, instances
  <2>2. \A t \in created : t[1] \in 1..call /\ t[1] # call' /\ t[1] < call'
    BY <1>4 DEF RunParallel, PoolTypeOK, Numbering
  <2>3. <<call', 0>> \notin created
    BY <2>2
  <2>4. Numbering'
    BY <1>1, <1>2, <1>4, <2>2, <2>3 DEF RunParallel, Numbering, PoolTypeOK, instances
  <2>5. Accounting'
    BY <1>1, <1>4 DEF RunParallel, Accounting, Excused, instances
  <2> QED BY <1>3, <2>1, <2>4, <2>5
<1>5. CASE NotifyOne
  <2>1. PoolTypeOK'
    BY <1>5 DEF NotifyOne, PoolTypeOK, Waiting, pool, calls, instances
  <2>2. Numbering' /\ Accounting'
    BY <1>1, <1>2, <1>5
       DEF NotifyOne, Numbering, Accounting, Excused, instances, calls
  <2> QED BY <1>3, <2>1, <2>2
<1>6. CASE Collect
  <2>1. PoolTypeOK'
    BY <1>6 DEF Collect, PoolTypeOK, pool, workers, instances
  <2>2. Numbering'
    BY <1>1, <1>2, <1>6 DEF Collect, Numbering, instances
  <2>3. \A k \in 0..collected' : <<call', k>> \in completed'
    BY <1>6 DEF Collect, Accounting, PoolTypeOK, instances
  <2>4. owner' = "idle" => \A t \in created \ completed : Excused(t)
    <3> SUFFICES ASSUME owner' = "idle", NEW t \in created \ completed
                 PROVE  Excused(t)
      OBVIOUS
    <3>1. <<call, collected'>> \in threw
      BY <1>6 DEF Collect
    <3>2. t[1] \in 1..call
      BY DEF Numbering
    <3>3. CASE t[1] = call
      BY <3>1, <3>3 DEF Excused
    <3>4. CASE t[1] < call
      BY <3>4 DEF Accounting
    <3> QED BY <3>2, <3>3, <3>4 DEF PoolTypeOK
  <2>5. Accounting'
    BY <1>1, <1>6, <2>3, <2>4 DEF Collect, Accounting, Excused, instances
  <2> QED BY <1>3, <2>1, <2>2, <2>5
<1>7. CASE ReturnFromCall
  <2>1. PoolTypeOK'
    BY <1>7 DEF ReturnFromCall, PoolTypeOK, pool, workers, calls, instances
  <2>2. Numbering'
    BY <1>1, <1>2, <1>7 DEF ReturnFromCall, Numbering, instances, calls
  <2>3. \A t \in created \ completed : Excused(t)
    <3> SUFFICES ASSUME NEW t \in created \ completed PROVE Excused(t)
      OBVIOUS
    <3>1. t[1] \in 1..call /\ (t[1] = call => t[2] <= futures)
      BY DEF Numbering
    <3>2. t = <<t[1], t[2]>> /\ t[2] \in Nat
      BY Places DEF Task
    <3>3. t[1] # call
      BY <1>7, <3>1, <3>2 DEF ReturnFromCall, Accounting, PoolTypeOK
    <3>4. t[1] < call
      BY <3>1, <3>3 DEF PoolTypeOK
    <3> QED BY <3>4 DEF Accounting
  <2>4. Accounting'
    BY <1>1, <1>7, <2>3 DEF ReturnFromCall, Accounting, Excused, instances, calls
  <2> QED BY <1>3, <2>1, <2>2, <2>4
<1>8. CASE Join
  <2>1. PoolTypeOK'
    BY <1>8 DEF Join, PoolTypeOK, pool, workers, calls, instances
  <2>2. Numbering' /\ Accounting'
    BY <1>1, <1>2, <1>8 DEF Join, Numbering, Accounting, Excused, instances, calls
  <2> QED BY <1>3, <2>1, <2>2
<1>9. CASE Destroy
  <2>1. PoolTypeOK'
    BY <1>9 DEF Destroy, PoolTypeOK, calls, instances
  <2>2. Numbering' /\ Accounting'
    BY <1>1, <1>2, <1>9
       DEF Destroy, Numbering, Accounting, Excused, instances, calls
  <2> QED BY <1>3, <2>1, <2>2
<1> QED BY <1>4, <1>5, <1>6, <1>7, <1>8, <1>9

\* An instance that is about to be created is a new one.
LEMMA NextIsNew ==
    ASSUME PoolInv, owner = "launch"
    PROVE  /\ futures < N - 1 => /\ <<call, futures + 1>> \in Task
                                 /\ <<call, futures + 1>> \notin created
           /\ <<call, 0>> \notin created
           /\ <<call, 0>> \in Task
<1>1. <<call, futures + 1>> \notin created /\ <<call, 0>> \notin created
  BY DEF PoolInv, Numbering, PoolTypeOK
<1>2. call \in 1..MaxCalls /\ 0 \in 0..(MaxParallel - 1)
  BY PoolAssumption DEF PoolInv, PoolTypeOK, Numbering
<1>3. futures < N - 1 => futures + 1 \in 0..(MaxParallel - 1)
  BY PoolAssumption DEF PoolInv, PoolTypeOK
<1> QED BY <1>1, <1>2, <1>3 DEF Task

\* run() on a pool with threads: a new instance behind the others.
LEMMA QueueKeeps == PoolInv /\ Queue => PoolInv'
<1> SUFFICES ASSUME PoolInv, Queue PROVE PoolInv'
  OBVIOUS
<1> DEFINE t == <<call, futures + 1>>
<1>1. /\ t \in Task /\ t \notin created /\ t # <<call, 0>>
      /\ t[1] = call /\ t[1] \in 1..call /\ t[2] = futures + 1 /\ t[2] # 0
  BY NextIsNew DEF Queue, PoolInv, PoolTypeOK, Numbering
<1>2. /\ taskQueue_ \in Seq(Task) /\ Distinct(taskQueue_)
      /\ Queued = Elements(taskQueue_) /\ t \notin Queued \cup Taken \cup completed
  BY <1>1, Places
<1>3. /\ taskQueue_' = Append(taskQueue_, t) /\ created' = created \cup {t}
      /\ UNCHANGED <<numThreads, stop_, worker, task, call, N, collected,
                     completed, threw>>
      /\ futures' = futures + 1 /\ owner = "launch" /\ owner' = "notify"
      /\ futures < N - 1
  BY DEF Queue, workers
<1> HIDE DEF t
<1>4. /\ taskQueue_' \in Seq(Task) /\ Distinct(taskQueue_')
      /\ Queued' = Queued \cup {t}
  BY <1>1, <1>2, <1>3, Appending DEF Queued, Elements
<1>5. Running' = Running /\ Taken' = Taken
  BY <1>3 DEF Running, Taken
<1>6. PoolTypeOK'
  BY <1>1, <1>3, <1>4, PoolAssumption DEF PoolInv, PoolTypeOK
<1>7. EachTaskOnce'
  BY <1>2, <1>3, <1>4, <1>5 DEF PoolInv, EachTaskOnce, Distinct, Running
<1>8. Numbering'
  <2>1. <<call, 0>> \notin created'
    BY <1>1, <1>3, NextIsNew
  <2>2. \A u \in created' : u[1] \in 1..call /\ (u[1] = call => u[2] <= futures')
    <3>1. futures \in Nat /\ futures' = futures + 1
      BY <1>3 DEF PoolInv, PoolTypeOK
    <3>2. \A u \in created : u[2] \in Nat
      BY Places DEF Task
    <3>3. \A u \in created : u[1] \in 1..call /\ (u[1] = call => u[2] <= futures')
      BY <3>1, <3>2 DEF PoolInv, Numbering
    <3>4. t[1] \in 1..call /\ t[2] <= futures'
      BY <1>1, <3>1
    <3> QED BY <1>3, <3>3, <3>4
  <2>3. \A u \in (Queued \cup Taken)' : u[2] # 0
    BY <1>1, <1>3, <1>4, <1>5 DEF PoolInv, Numbering, PoolTypeOK
  <2> QED BY <1>3, <2>1, <2>2, <2>3 DEF PoolInv, Numbering
<1>9. Accounting'
  BY <1>1, <1>3 DEF PoolInv, Accounting, Excused, PoolTypeOK
<1> QED BY <1>6, <1>7, <1>8, <1>9 DEF PoolInv

\* Instances the owner runs, those of a pool without threads and its own.
LEMMA RunInlineKeeps == PoolInv /\ RunInline => PoolInv'
<1> SUFFICES ASSUME PoolInv, RunInline PROVE PoolInv'
  OBVIOUS
<1> DEFINE t == <<call, futures + 1>>
<1>1. /\ t \in Task /\ t \notin created /\ t # <<call, 0>>
      /\ t[1] = call /\ t[1] \in 1..call /\ t[2] = futures + 1 /\ t[2] # 0
  BY NextIsNew DEF RunInline, PoolInv, PoolTypeOK, Numbering
<1>2. t \notin Queued \cup Taken \cup completed
  BY <1>1, Places
<1>3. /\ created' = created \cup {t} /\ completed' = completed \cup {t}
      /\ threw' \in {threw, threw \cup {t}}
      /\ UNCHANGED <<numThreads, taskQueue_, stop_, worker, task, owner, call, N,
                     collected>>
      /\ futures' = futures + 1 /\ owner = "launch" /\ futures < N - 1
  BY DEF RunInline, Completes, pool, workers
<1> HIDE DEF t
<1>4. Queued' = Queued /\ Running' = Running /\ Taken' = Taken
  BY <1>3, PlacesKept
<1>5. PoolTypeOK'
  BY <1>1, <1>3, PoolAssumption DEF PoolInv, PoolTypeOK
<1>6. EachTaskOnce'
  BY <1>2, <1>3, <1>4 DEF PoolInv, EachTaskOnce
<1>7. Numbering'
  <2>1. <<call, 0>> \notin created'
    BY <1>1, <1>3, NextIsNew
  <2>2. \A u \in created' : u[1] \in 1..call /\ (u[1] = call => u[2] <= futures')
    <3>1. futures \in Nat /\ futures' = futures + 1
      BY <1>3 DEF PoolInv, PoolTypeOK
    <3>2. \A u \in created : u[2] \in Nat
      BY Places DEF Task
    <3>3. \A u \in created : u[1] \in 1..call /\ (u[1] = call => u[2] <= futures')
      BY <3>1, <3>2 DEF PoolInv, Numbering
    <3>4. t[1] \in 1..call /\ t[2] <= futures'
      BY <1>1, <3>1
    <3> QED BY <1>3, <3>3, <3>4
  <2> QED BY <1>3, <1>4, <2>1, <2>2 DEF PoolInv, Numbering
<1>8. Accounting'
  BY <1>1, <1>3 DEF PoolInv, Accounting, Excused, PoolTypeOK
<1> QED BY <1>5, <1>6, <1>7, <1>8 DEF PoolInv

LEMMA RunOwnKeeps == PoolInv /\ RunOwn => PoolInv'
<1> SUFFICES ASSUME PoolInv, RunOwn PROVE PoolInv'
  OBVIOUS
<1> DEFINE t == <<call, 0>>
<1>1. t \in Task /\ t \notin created /\ t[1] = call /\ t[2] = 0
  BY NextIsNew DEF RunOwn
<1>2. /\ created' = created \cup {t} /\ owner = "launch" /\ owner' = "own"
      /\ UNCHANGED <<numThreads, taskQueue_, stop_, worker, task, call, N, futures,
                     collected, completed, threw>>
  BY DEF RunOwn, pool, workers, calls
<1> HIDE DEF t
<1>3. Queued' = Queued /\ Running' = Running /\ Taken' = Taken
  BY <1>2, PlacesKept
<1>4. PoolTypeOK'
  BY <1>1, <1>2 DEF PoolInv, PoolTypeOK
<1>5. EachTaskOnce'
  BY <1>2, <1>3 DEF PoolInv, EachTaskOnce, t
<1>6. Numbering'
  BY <1>1, <1>2, <1>3 DEF PoolInv, Numbering, PoolTypeOK
<1>7. Accounting'
  BY <1>1, <1>2 DEF PoolInv, Accounting, Excused, PoolTypeOK
<1> QED BY <1>4, <1>5, <1>6, <1>7 DEF PoolInv

LEMMA FinishOwnKeeps == PoolInv /\ FinishOwn => PoolInv'
<1> SUFFICES ASSUME PoolInv, FinishOwn PROVE PoolInv'
  OBVIOUS
<1> DEFINE t == <<call, 0>>
<1>1. /\ owner = "own" /\ completed' = completed \cup {t}
      /\ threw' \in {threw, threw \cup {t}}
      /\ owner' = IF t \in threw' THEN "idle" ELSE "collect"
      /\ UNCHANGED <<numThreads, taskQueue_, stop_, worker, task, call, N, futures,
                     collected, created>>
  BY DEF FinishOwn, Completes, pool, workers, calls
<1>2. t \in created /\ t[1] = call /\ t[2] = 0
  BY <1>1 DEF PoolInv, EachTaskOnce
<1>3. t \notin Queued \cup Taken
  BY <1>2 DEF PoolInv, Numbering
<1>4. Queued' = Queued /\ Running' = Running /\ Taken' = Taken
  BY <1>1, PlacesKept
<1>5. PoolTypeOK'
  BY <1>1, <1>2 DEF PoolInv, PoolTypeOK
<1>6. EachTaskOnce'
  BY <1>1, <1>3, <1>4 DEF PoolInv, EachTaskOnce
<1>7. Numbering'
  BY <1>1, <1>4 DEF PoolInv, Numbering
<1>8. ASSUME NEW u \in created \ completed' PROVE u[1] < call => Excused(u)'
  BY <1>1 DEF PoolInv, Accounting, Excused
<1>9. \A u \in created : u[1] \in 1..call
  BY DEF PoolInv, Numbering
<1>10. CASE owner' = "idle"
  <2>1. t \in threw'
    BY <1>1, <1>10
  <2>2. ASSUME NEW u \in created \ completed', u[1] = call PROVE Excused(u)'
    BY <2>1, <2>2, <1>2 DEF Excused
  <2>3. \A u \in created \ completed' : Excused(u)'
    BY <1>8, <1>9, <2>2 DEF PoolInv, PoolTypeOK
  <2> QED BY <1>1, <1>5, <1>6, <1>7, <1>10, <2>3 DEF PoolInv, Accounting
<1>11. CASE owner' = "collect"
  <2>1. collected = 0
    BY <1>1 DEF PoolInv, Accounting
  <2>2. \A k \in 0..collected' : <<call', k>> \in completed'
    BY <1>1, <2>1
  <2> QED BY <1>1, <1>5, <1>6, <1>7, <1>8, <1>11, <2>2 DEF PoolInv, Accounting
<1> QED BY <1>1, <1>10, <1>11

\* Workers that wait, wake or leave move no instance.
LEMMA IdleWorkerKeeps ==
    ASSUME PoolInv, NEW w \in Thread, Wait(w) \/ Exit(w) \/ SpuriousWakeup(w)
    PROVE  PoolInv'
<1>1. /\ UNCHANGED <<numThreads, pool, task, owner, calls, instances>>
      /\ worker' \in [Thread -> {"none", "lock", "waiting", "run", "exited"}]
      /\ \A v \in Thread : worker'[v] = "run" <=> worker[v] = "run"
  BY DEF Wait, Exit, SpuriousWakeup, PoolInv, PoolTypeOK
<1>2. Queued' = Queued /\ Running' = Running /\ Taken' = Taken
  BY <1>1, PlacesKept DEF pool
<1>3. PoolTypeOK'
  BY <1>1 DEF PoolInv, PoolTypeOK, pool, calls, instances
<1>4. EachTaskOnce' /\ Numbering' /\ Accounting'
  BY <1>1, <1>2
     DEF PoolInv, EachTaskOnce, Numbering, Accounting, Excused, pool, calls, instances
<1> QED BY <1>3, <1>4 DEF PoolInv

\* A worker takes the first instance: it leaves the queue for the worker.
LEMMA PopKeeps ==
    ASSUME PoolInv, NEW w \in Thread, Pop(w)
    PROVE  PoolInv'
<1> DEFINE t == Head(taskQueue_)
<1>1. /\ worker[w] = "lock" /\ taskQueue_ # <<>>
      /\ task' = [task EXCEPT ![w] = t] /\ taskQueue_' = Tail(taskQueue_)
      /\ worker' = [worker EXCEPT ![w] = "run"]
      /\ UNCHANGED <<numThreads, stop_, owner, call, N, futures, collected, created,
                     completed, threw>>
  BY DEF Pop, calls, instances
<1>2. /\ taskQueue_ \in Seq(Task) /\ Distinct(taskQueue_)
      /\ Queued = Elements(taskQueue_)
      /\ Queued \cup Taken \cup completed \subseteq created /\ created \subseteq Task
  BY Places
<1>3. /\ taskQueue_' \in Seq(Task) /\ t \in Queued /\ Distinct(taskQueue_')
      /\ Queued' = Queued \ {t}
  BY <1>1, <1>2, Popping DEF Queued, Elements
<1> HIDE DEF t
<1>4. /\ task \in [Thread -> Task \cup {NoTask}] /\ DOMAIN worker = Thread
      /\ worker \in [Thread -> {"none", "lock", "waiting", "run", "exited"}]
  BY DEF PoolInv, PoolTypeOK
<1>5. /\ Running' = Running \cup {w} /\ w \notin Running
      /\ task'[w] = t /\ \A v \in Running : task'[v] = task[v]
  BY <1>1, <1>4 DEF Running
<1>6. Taken' = Taken \cup {t}
  BY <1>5 DEF Taken
<1>7. t \notin Taken /\ t \notin completed
  BY <1>3 DEF PoolInv, EachTaskOnce
<1>8. PoolTypeOK'
  BY <1>1, <1>2, <1>3, <1>4 DEF PoolInv, PoolTypeOK
<1>9. EachTaskOnce'
  <2>1. \A u, v \in Running' : task'[u] = task'[v] => u = v
    BY <1>5, <1>7 DEF PoolInv, EachTaskOnce, Taken
  <2> QED BY <1>1, <1>3, <1>6, <1>7, <2>1 DEF PoolInv, EachTaskOnce, Distinct
<1>10. Numbering' /\ Accounting'
  BY <1>1, <1>3, <1>6 DEF PoolInv, Numbering, Accounting, Excused
<1> QED BY <1>8, <1>9, <1>10 DEF PoolInv

\* A worker finishes its instance, with or without an exception.
LEMMA ExecuteKeeps ==
    ASSUME PoolInv, NEW w \in Thread, Execute(w)
    PROVE  PoolInv'
<1> DEFINE t == task[w]
<1>1. /\ worker[w] = "run"
      /\ completed' = completed \cup {t} /\ threw' \in {threw, threw \cup {t}}
      /\ task' = [task EXCEPT ![w] = NoTask]
      /\ worker' = [worker EXCEPT ![w] = "lock"]
      /\ UNCHANGED <<numThreads, taskQueue_, stop_, owner, call, N, futures,
                     collected, created>>
  BY DEF Execute, Completes, pool, calls
<1>2. /\ task \in [Thread -> Task \cup {NoTask}]
      /\ worker \in [Thread -> {"none", "lock", "waiting", "run", "exited"}]
  BY DEF PoolInv, PoolTypeOK
<1>3. /\ Running' = Running \ {w} /\ w \in Running
      /\ \A v \in Running' : task'[v] = task[v]
  BY <1>1, <1>2 DEF Running
<1>4. t \in Taken /\ t \in created /\ t \in Task
  BY <1>3, Places DEF Taken
<1>5. Taken' = Taken \ {t}
  BY <1>3 DEF Taken, PoolInv, EachTaskOnce
<1>6. Queued' = Queued
  BY <1>1 DEF Queued
<1> HIDE DEF t
<1>7. PoolTypeOK'
  BY <1>1, <1>2, <1>4 DEF PoolInv, PoolTypeOK, NoTask
<1>8. EachTaskOnce'
  <2>1. \A u, v \in Running' : task'[u] = task'[v] => u = v
    BY <1>3 DEF PoolInv, EachTaskOnce
  <2>2. t \notin Queued
    BY <1>4 DEF PoolInv, EachTaskOnce
  <2> QED BY <1>1, <1>4, <1>5, <1>6, <2>1, <2>2 DEF PoolInv, EachTaskOnce
<1>9. Numbering' /\ Accounting'
  BY <1>1, <1>5, <1>6 DEF PoolInv, Numbering, Accounting, Excused
<1> QED BY <1>7, <1>8, <1>9 DEF PoolInv

LEMMA PoolInductive == PoolInv /\ [PoolNext]_poolVars => PoolInv'
<1> SUFFICES ASSUME PoolInv, [PoolNext]_poolVars PROVE PoolInv'
  OBVIOUS
<1>1. CASE OwnerStep \/ RunParallel \/ Destroy
  BY <1>1, OwnerKeeps, QueueKeeps, RunInlineKeeps, RunOwnKeeps, FinishOwnKeeps
     DEF OwnerStep
<1>2. CASE \E w \in Thread : WorkerStep(w) \/ SpuriousWakeup(w)
  BY <1>2, IdleWorkerKeeps, PopKeeps, ExecuteKeeps DEF WorkerStep
<1>3. CASE UNCHANGED poolVars
  <2>1. UNCHANGED <<numThreads, taskQueue_, stop_, worker, task, owner, call, N,
                    futures, collected, created, completed, threw>>
    BY <1>3 DEF poolVars, pool, workers, calls, instances
  <2>2. Queued' = Queued /\ Running' = Running /\ Taken' = Taken
    BY <2>1, PlacesKept
  <2> QED
    BY <2>1, <2>2
       DEF PoolInv, PoolTypeOK, EachTaskOnce, Numbering, Accounting, Excused
<1> QED BY <1>1, <1>2, <1>3 DEF PoolNext

-----------------------------------------------------------------------------
(* The theorems.                                                           *)

THEOREM PoolInvariance == PoolSpec => []PoolInv
BY PoolInitial, PoolInductive, PTL DEF PoolSpec

\* The queue hands each instance to exactly one worker, whatever the number of
\* threads, calls and instances, and loses none (ThreadPool.cpp:66-69, 84).
THEOREM NoTaskLostOrRepeated == PoolSpec => []EachTaskOnce
<1>1. PoolInv => EachTaskOnce
  BY DEF PoolInv
<1> QED BY <1>1, PoolInvariance, PTL

\* runParallel() "returns when all tasks are completed" (ThreadPool.h:75) unless
\* an instance of that call has thrown.
THEOREM CallsWaitForTheirTasks == PoolSpec => []OnlyThrowingLeavesTasks
<1>1. PoolInv => OnlyThrowingLeavesTasks
  BY DEF PoolInv, Accounting, Excused, OnlyThrowingLeavesTasks
<1> QED BY <1>1, PoolInvariance, PTL

=============================================================================
