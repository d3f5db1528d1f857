-------------------------- MODULE MpcRosNodeProofs --------------------------
(***************************************************************************)
(* Proofs about the MPC node (MpcRosNode), for any horizon and any bounds  *)
(* on times and resets: its types, and that the policy computed last is    *)
(* published once nothing is pending any more.                             *)
(***************************************************************************)
EXTENDS MpcRosNode, TLAPS

\* One reset is pending at a time, and what the solver holds after a reset is
\* of the time before it.
ResetInv ==
    /\ resetRequests > 0 => resetRequests = 1 /\ epoch < MaxResets
    /\ resetRequestedEver_ => epoch > 0
    /\ executor = "run" => resetRequestedEver_
    /\ solution.epoch <= epoch
    /\ executor = "unready" => solution.epoch < epoch

\* The solver's policy is one that was computed since the last reset.
Current == solution # NullPolicy /\ solution.epoch = epoch

\* Such a policy, once copied and until published, is in the buffer and will be
\* asked for, or has been swapped in by a worker that is about to publish it.
PipelineInv ==
    Current /\ executor # "copy" /\ solution \notin published =>
        \/ /\ buffer = solution
           /\ \/ executor = "signal"
              \/ workerPc = "swap"
              \/ MutexFree /\ readyToPublish_
        \/ publisher = solution /\ workerPc = "publish"

NodeInv == TypeOK /\ ResetInv /\ PipelineInv

-----------------------------------------------------------------------------
(* Topics and policies.                                                    *)

\* A topic carries messages of one type, whatever is done with it.
LEMMA TopicTyping ==
    ASSUME NEW M, NEW topic \in Topics(M)
    PROVE  /\ \A m \in M : Published(topic, m) \in Topics(M)
           /\ Delivered(topic) \in Topics(M)
           /\ Taken(topic) \in Topics(M)
           /\ CanTake(topic) => Message(topic) \in M
<1>1. \A m \in M : Published(topic, m) \in Topics(M)
  BY DEF Topics, Published
<1>2. Delivered(topic) \in Topics(M)
  BY DEF Topics, Delivered
<1>3. Taken(topic) \in Topics(M)
  BY DEF Topics, Taken
<1>4. CanTake(topic) => Message(topic) \in M
  BY DEF Topics, CanTake, Message
<1> QED BY <1>1, <1>2, <1>3, <1>4

LEMMA EmptyTyping == \A M : Empty \in Topics(M)
BY DEF Empty, Topics

\* The constructor's solution is none that was computed.
LEMMA PolicyTyping ==
    /\ NullPolicy \notin ComputedPolicy
    /\ \A p \in ComputedPolicy \cup {NullPolicy} : p.epoch \in 0..MaxResets
BY MpcNodeAssumption DEF NullPolicy, ComputedPolicy, Time

-----------------------------------------------------------------------------
(* The invariant.                                                          *)

LEMMA NodeInitial == Init => NodeInv
<1> SUFFICES ASSUME Init PROVE NodeInv
  OBVIOUS
<1>1. TypeOK
  <2>1. 0 \in Time /\ 0 \in 0..MaxResets /\ 0 \in 0..(MaxTime + Horizon)
    BY MpcNodeAssumption DEF Time
  <2> QED BY <2>1, EmptyTyping DEF Init, NodeInit, TypeOK
<1>2. ResetInv
  BY DEF Init, NodeInit, ResetInv, NullPolicy
<1>3. PipelineInv
  BY DEF Init, NodeInit, PipelineInv, Current
<1> QED BY <1>1, <1>2, <1>3 DEF NodeInv

\* The callback of an observation and its run of the MPC.
LEMMA ObservationKeeps == NodeInv /\ ObservationCallback /\ UNCHANGED now => NodeInv'
<1> SUFFICES ASSUME NodeInv, ObservationCallback, UNCHANGED now PROVE NodeInv'
  OBVIOUS
<1> USE DEF NodeInv
<1>1. Taken(obsTopic) \in Topics(Time) /\ Message(obsTopic) \in Time
  BY TopicTyping DEF TypeOK, ObservationCallback
<1>2. TypeOK'
  BY <1>1 DEF ObservationCallback, TypeOK, solver, store, flags
<1>3. ResetInv'
  BY DEF ObservationCallback, ResetInv, solver
<1>4. PipelineInv'
  BY DEF ObservationCallback, PipelineInv, Current, MutexFree, solver, store, flags
<1> QED BY <1>2, <1>3, <1>4

LEMMA RunMpcKeeps == NodeInv /\ RunMpc /\ UNCHANGED now => NodeInv'
<1> SUFFICES ASSUME NodeInv, RunMpc, UNCHANGED now PROVE NodeInv'
  OBVIOUS
<1> USE DEF NodeInv
<1> DEFINE p == [time |-> observation, epoch |-> epoch]
<1>1. p \in ComputedPolicy /\ p.epoch = epoch
  BY MpcNodeAssumption DEF ComputedPolicy, RunMpc, TypeOK, ResetInv
<1>2. observation + Horizon \in 0..(MaxTime + Horizon)
  BY MpcNodeAssumption DEF TypeOK, Time
<1>3. CASE runs
  <2>1. /\ initRun_' = FALSE /\ finalTime' = observation + Horizon
        /\ solution' = p /\ executor' = "copy"
        /\ UNCHANGED <<channels, observation, resetRequestedEver_, epoch, store,
                       flags, workerPc, published, now>>
    BY <1>3 DEF RunMpc
  <2> HIDE DEF p
  <2>2. TypeOK'
    BY <1>1, <1>2, <2>1 DEF TypeOK, channels, store, flags
  <2>3. ResetInv' /\ PipelineInv'
    BY <1>1, <2>1 DEF ResetInv, PipelineInv, TypeOK, channels
  <2> QED BY <2>2, <2>3
<1>4. CASE ~runs
  <2>1. TypeOK'
    BY <1>4 DEF RunMpc, TypeOK, channels, store, flags
  <2>2. ResetInv' /\ PipelineInv'
    BY <1>4
       DEF RunMpc, ResetInv, PipelineInv, Current, MutexFree, channels, store, flags
  <2> QED BY <2>1, <2>2
<1> QED BY <1>3, <1>4

\* The policy goes to the buffer, and is announced.
LEMMA HandOverKeeps ==
    NodeInv /\ (CopyToBuffer \/ Signal) /\ UNCHANGED now => NodeInv'
<1> SUFFICES ASSUME NodeInv, CopyToBuffer \/ Signal, UNCHANGED now PROVE NodeInv'
  OBVIOUS
<1> USE DEF NodeInv
<1>1. CASE CopyToBuffer
  <2>1. TypeOK'
    BY <1>1 DEF CopyToBuffer, TypeOK, channels, solver, flags
  <2>2. ResetInv' /\ PipelineInv'
    BY <1>1 DEF CopyToBuffer, ResetInv, PipelineInv, channels, solver
  <2> QED BY <2>1, <2>2
<1>2. CASE Signal
  <2>1. TypeOK'
    BY <1>2 DEF Signal, Notified, TypeOK, channels, solver, store
  <2>2. ResetInv'
    BY <1>2 DEF Signal, ResetInv, channels, solver
  <2>3. PipelineInv'
    BY <1>2 DEF Signal, Notified, PipelineInv, Current, MutexFree, solver, store
  <2> QED BY <2>1, <2>2, <2>3
<1> QED BY <1>1, <1>2

\* A reset, and the end of the node.
LEMMA ResetKeeps ==
    /\ NodeInv
    /\ ResetCallback \/ ResetFlags \/ Shutdown \/ Join
    /\ UNCHANGED now
    => NodeInv'
<1> SUFFICES ASSUME NodeInv, ResetCallback \/ ResetFlags \/ Shutdown \/ Join,
                    UNCHANGED now
             PROVE  NodeInv'
  OBVIOUS
<1> USE DEF NodeInv
<1>1. CASE ResetCallback
  <2>1. /\ resetRequests' = 0 /\ epoch' = epoch + 1 /\ epoch + 1 \in 0..MaxResets
        /\ 0 \in 0..MaxResets /\ epoch \in Nat
    BY <1>1, MpcNodeAssumption DEF ResetCallback, ResetInv, TypeOK
  <2>2. TypeOK'
    BY <1>1, <2>1 DEF ResetCallback, TypeOK, store, flags
  <2>3. solution.epoch \in 0..MaxResets /\ solution.epoch < epoch'
    BY <2>1, PolicyTyping DEF TypeOK, ResetInv
  <2>4. ResetInv' /\ PipelineInv'
    BY <1>1, <2>1, <2>3 DEF ResetCallback, ResetInv, PipelineInv, Current
  <2> QED BY <2>2, <2>4
<1>2. CASE ResetFlags
  <2>1. TypeOK'
    BY <1>2 DEF ResetFlags, TypeOK, channels, solver, store
  <2>2. ~Current
    BY <1>2, PolicyTyping DEF ResetFlags, ResetInv, TypeOK, Current
  <2>3. ResetInv' /\ PipelineInv'
    BY <1>2, <2>2 DEF ResetFlags, ResetInv, PipelineInv, Current, channels, solver
  <2> QED BY <2>1, <2>3
<1>3. CASE Shutdown
  <2>1. TypeOK'
    BY <1>3 DEF Shutdown, Notified, TypeOK, channels, solver, store
  <2>2. ResetInv' /\ PipelineInv'
    BY <1>3 DEF Shutdown, Notified, ResetInv, PipelineInv, Current, MutexFree,
                channels, solver, store
  <2> QED BY <2>1, <2>2
<1>4. CASE Join
  <2>1. TypeOK'
    BY <1>4 DEF Join, TypeOK, channels, solver, store, flags
  <2>2. ResetInv' /\ PipelineInv'
    BY <1>4
       DEF Join, ResetInv, PipelineInv, Current, MutexFree, channels, solver, store,
           flags
  <2> QED BY <2>1, <2>2
<1> QED BY <1>1, <1>2, <1>3, <1>4

\* The publishing worker.
LEMMA WorkerKeeps ==
    NodeInv /\ (WorkerStep \/ WorkerSpuriousWakeup) /\ UNCHANGED now => NodeInv'
<1> SUFFICES ASSUME NodeInv, WorkerStep \/ WorkerSpuriousWakeup, UNCHANGED now
             PROVE  NodeInv'
  OBVIOUS
<1> USE DEF NodeInv
<1>1. UNCHANGED <<obsTopic, resetRequests, main>> /\ ResetInv'
  BY DEF WorkerStep, WorkerTest, WorkerLock, WorkerSpuriousWakeup, WorkerSwap,
         WorkerCrash, WorkerPublish, WorkerClear, ResetInv, channels, main, solver
<1>2. CASE WorkerTest \/ WorkerLock \/ WorkerSpuriousWakeup \/ WorkerCrash
  <2>1. UNCHANGED <<channels, main, store, flags, published>>
    BY <1>2 DEF WorkerTest, WorkerLock, WorkerSpuriousWakeup, WorkerCrash
  <2>2. TypeOK'
    BY <1>2, <2>1
       DEF WorkerTest, WorkerLock, WorkerSpuriousWakeup, WorkerCrash, TypeOK,
           channels, main, solver, store, flags
  <2>3. PipelineInv'
    BY <1>2, <2>1
       DEF WorkerTest, WorkerLock, WorkerSpuriousWakeup, WorkerCrash, PipelineInv,
           Current, MutexFree, main, solver, store, flags
  <2> QED BY <1>1, <2>2, <2>3
<1>3. CASE WorkerSwap
  <2>1. TypeOK'
    BY <1>3 DEF WorkerSwap, TypeOK, channels, main, solver, flags
  <2>2. PipelineInv'
    BY <1>3 DEF WorkerSwap, PipelineInv, Current, MutexFree, main, solver, flags
  <2> QED BY <1>1, <2>1, <2>2
<1>4. CASE WorkerPublish
  <2>1. publisher \in ComputedPolicy
    BY <1>4 DEF WorkerPublish, TypeOK
  <2>2. TypeOK'
    BY <1>4, <2>1, TopicTyping
       DEF WorkerPublish, TypeOK, main, solver, store, flags
  <2>3. PipelineInv'
    BY <1>4 DEF WorkerPublish, PipelineInv, Current, MutexFree, main, solver, store,
                flags
  <2> QED BY <1>1, <2>2, <2>3
<1>5. CASE WorkerClear
  <2>1. TypeOK'
    BY <1>5 DEF WorkerClear, TypeOK, channels, main, solver, store
  <2>2. PipelineInv'
    BY <1>5 DEF WorkerClear, PipelineInv, Current, MutexFree, main, solver, store
  <2> QED BY <1>1, <2>1, <2>2
<1> QED BY <1>2, <1>3, <1>4, <1>5 DEF WorkerStep

\* The rest of the world.
LEMMA EnvironmentKeeps == NodeInv /\ Environment => NodeInv'
<1> SUFFICES ASSUME NodeInv, Environment PROVE NodeInv'
  OBVIOUS
<1> USE DEF NodeInv
<1>1. /\ UNCHANGED <<policyTopic, nodeVars>>
      /\ obsTopic' \in Topics(Time) /\ now' \in Time
      /\ \/ UNCHANGED resetRequests
         \/ resetRequests' = 1 /\ epoch < MaxResets
  BY TopicTyping
     DEF Environment, SendObservation, RepeatObservation, RequestReset,
         DeliverObservation, TypeOK
<1>2. resetRequests' \in 0..MaxResets
  BY <1>1, MpcNodeAssumption DEF TypeOK
<1>3. TypeOK'
  BY <1>1, <1>2 DEF TypeOK, nodeVars, main, solver, store, flags
<1>4. ResetInv' /\ PipelineInv'
  BY <1>1
     DEF ResetInv, PipelineInv, Current, MutexFree, nodeVars, main, solver, store,
         flags
<1> QED BY <1>3, <1>4

LEMMA NodeInductive == NodeInv /\ [Next]_<<vars, now>> => NodeInv'
<1> SUFFICES ASSUME NodeInv, [Next]_<<vars, now>> PROVE NodeInv'
  OBVIOUS
<1>1. CASE NodeNext /\ UNCHANGED now
  BY <1>1, ObservationKeeps, RunMpcKeeps, HandOverKeeps, ResetKeeps, WorkerKeeps
     DEF NodeNext, MainStep
<1>2. CASE Environment
  BY <1>2, EnvironmentKeeps
<1>3. CASE UNCHANGED <<vars, now>>
  BY <1>3
     DEF NodeInv, TypeOK, ResetInv, PipelineInv, Current, MutexFree, vars, channels,
         nodeVars, main, solver, store, flags
<1> QED BY <1>1, <1>2, <1>3 DEF Next

-----------------------------------------------------------------------------
(* The theorems.                                                           *)

THEOREM NodeInvariance == Spec => []NodeInv
BY NodeInitial, NodeInductive, PTL DEF Spec

\* The state keeps its types.  In particular a policy is only ever computed and
\* published after a reset, whenever the observations arrive
\* (MPC_ROS_Interface.cpp:232-235).
THEOREM NodeTyping == Spec => []TypeOK
<1>1. NodeInv => TypeOK
  BY DEF NodeInv
<1> QED BY <1>1, NodeInvariance, PTL

\* A policy that was computed is published in the end or cancelled by a reset:
\* neither the two mutexes nor the reset's unlocked write to the flag lose it
\* (MPC_ROS_Interface.cpp:61, 199, 282-285).
THEOREM NewestPublished == Spec => []NewestIsPublished
<1>1. NodeInv => NewestIsPublished
  <2> SUFFICES ASSUME NodeInv, executor = "spin", ~readyToPublish_, MutexFree,
                      solution \notin published, solution # NullPolicy
               PROVE  solution.epoch < epoch
    BY DEF NewestIsPublished
  <2>1. ~Current
    BY DEF NodeInv, PipelineInv, MutexFree
  <2>2. solution.epoch <= epoch /\ solution.epoch # epoch
    BY <2>1 DEF NodeInv, ResetInv, Current
  <2> QED BY <2>2, PolicyTyping DEF NodeInv, TypeOK
<1> QED BY <1>1, NodeInvariance, PTL

=============================================================================
