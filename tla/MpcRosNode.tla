----------------------------- MODULE MpcRosNode -----------------------------
(***************************************************************************)
(* The MPC node                                                            *)
(* (robotics/ocs2_ros_interfaces/src/mpc/MPC_ROS_Interface.cpp).  Its main *)
(* thread spins a single-threaded executor that serves the observation     *)
(* callback and the reset service, one after the other, and shuts the node *)
(* down when the executor returns.  A second thread, publisherWorker(),    *)
(* waits on a condition variable, swaps the buffered policy in and         *)
(* publishes it while it holds publisherMutex_.                            *)
(*                                                                         *)
(* A policy is the time of the observation it was computed from and the    *)
(* number of resets the node had served by then.                           *)
(***************************************************************************)
EXTENDS Naturals, Topic

CONSTANTS
    MaxTime,    \* bound on the time of an observation
    MaxResets,  \* bound on the resets the node serves
    Horizon     \* mpcSettings_.timeHorizon_

ASSUME MpcNodeAssumption ==
    /\ MaxTime \in Nat
    /\ MaxResets \in Nat
    /\ Horizon \in Nat \ {0}

Time == 0..MaxTime
ComputedPolicy == [time : Time, epoch : 1..MaxResets]

\* The PrimalSolution the constructor puts in both buffers: it has no
\* controller.
NullPolicy == [time |-> 0, epoch |-> 0]

VARIABLES
    obsTopic, policyTopic,   \* the topics the node subscribes and publishes
    resetRequests,           \* calls of the reset service not served yet
    executor,                \* where the main thread is
    observation,             \* the observation of the running callback
    resetRequestedEver_,
    initRun_, finalTime,     \* MPC_BASE and the solver's horizon
    solution,                \* the policy in the solver
    epoch,                   \* how many resets have been served
    buffer, publisher,       \* buffer*Ptr_ and publisher*Ptr_
    readyToPublish_, terminateThread_,
    workerPc,                \* where publisherWorker() is
    published                \* what it has published: for the properties only

channels == <<obsTopic, policyTopic, resetRequests>>
solver == <<initRun_, finalTime, solution, epoch>>
main == <<executor, observation, resetRequestedEver_, solver>>
store == <<buffer, publisher>>
flags == <<readyToPublish_, terminateThread_>>
nodeVars == <<main, store, flags, workerPc, published>>
vars == <<channels, nodeVars>>

\* The node before it was ever reset.
NodeInit ==
    /\ executor = "spin"
    /\ observation = 0
    /\ resetRequestedEver_ = FALSE
    /\ initRun_ = TRUE
    /\ finalTime = 0
    /\ solution = NullPolicy
    /\ epoch = 0
    /\ buffer = NullPolicy
    /\ publisher = NullPolicy
    /\ readyToPublish_ = FALSE
    /\ terminateThread_ = FALSE
    /\ workerPc = "test"
    /\ published = {}

\* publisherMutex_ is held by the worker from the end of its wait until it has
\* cleared the flag; the main thread's critical sections are single steps.
MutexFree == workerPc \notin {"swap", "publish", "clear"}

\* A crash of the worker takes the process with it.
Alive == workerPc # "crashed"

\* notify_one() and notify_all(): the worker is the only waiter.
Notified(pc) == IF pc = "waiting" THEN "lock" ELSE pc

-----------------------------------------------------------------------------
(* mpcObservationCallback()                                                *)

\* Mutant: the MPC runs although the node has not been reset.
ObservationCallback_NoGate ==
    /\ Alive /\ executor = "spin"
    /\ CanTake(obsTopic)
    /\ obsTopic' = Taken(obsTopic)
    /\ observation' = Message(obsTopic)
    /\ executor' = "run"
    /\ UNCHANGED <<policyTopic, resetRequests, resetRequestedEver_, solver,
                   store, flags, workerPc, published>>

\* The callback drops the observation until the node has been reset once.
ObservationCallback ==
    /\ Alive /\ executor = "spin"
    /\ CanTake(obsTopic)
    /\ obsTopic' = Taken(obsTopic)
    /\ IF resetRequestedEver_
       THEN observation' = Message(obsTopic) /\ executor' = "run"
       ELSE UNCHANGED <<observation, executor>>
    /\ UNCHANGED <<policyTopic, resetRequests, resetRequestedEver_, solver,
                   store, flags, workerPc, published>>

\* The test at the head of MPC_BASE::run().
runs == initRun_ \/ observation < finalTime

\* MPC_BASE::run(): the solver moves its horizon and computes a policy, or
\* refuses an observation beyond the horizon, and the callback returns.
RunMpc ==
    /\ Alive /\ executor = "run"
    /\ IF runs
       THEN /\ initRun_' = FALSE
            /\ finalTime' = observation + Horizon
            /\ solution' = [time |-> observation, epoch |-> epoch]
            /\ executor' = "copy"
       ELSE executor' = "spin" /\ UNCHANGED <<initRun_, finalTime, solution>>
    /\ UNCHANGED <<channels, observation, resetRequestedEver_, epoch, store,
                   flags, workerPc, published>>

\* copyToBuffer(), under bufferMutex_.
CopyToBuffer ==
    /\ Alive /\ executor = "copy"
    /\ buffer' = solution
    /\ executor' = "signal"
    /\ UNCHANGED <<channels, observation, resetRequestedEver_, solver,
                   publisher, flags, workerPc, published>>

\* Mutant: the mutex is not taken, and the worker clears the flag raised while
\* it was publishing.
Signal_NoLock ==
    /\ Alive /\ executor = "signal"
    /\ readyToPublish_' = TRUE
    /\ workerPc' = Notified(workerPc)
    /\ executor' = "spin"
    /\ UNCHANGED <<channels, observation, resetRequestedEver_, solver, store,
                   terminateThread_, published>>

\* Mutant: the worker is not woken.
Signal_NoNotify ==
    /\ Alive /\ executor = "signal"
    /\ MutexFree
    /\ readyToPublish_' = TRUE
    /\ executor' = "spin"
    /\ UNCHANGED <<channels, observation, resetRequestedEver_, solver, store,
                   terminateThread_, workerPc, published>>

\* The flag is raised under publisherMutex_ and the worker is woken after the
\* mutex is released; a late wake-up is no more than a spurious one.
Signal ==
    /\ Alive /\ executor = "signal"
    /\ MutexFree
    /\ readyToPublish_' = TRUE
    /\ workerPc' = Notified(workerPc)
    /\ executor' = "spin"
    /\ UNCHANGED <<channels, observation, resetRequestedEver_, solver, store,
                   terminateThread_, published>>

-----------------------------------------------------------------------------
(* resetMpcCallback() and resetMpcNode()                                   *)

ResetCallback ==
    /\ Alive /\ executor = "spin"
    /\ resetRequests > 0
    /\ resetRequests' = resetRequests - 1
    /\ initRun_' = TRUE
    /\ epoch' = epoch + 1
    /\ resetRequestedEver_' = TRUE
    /\ executor' = "unready"
    /\ UNCHANGED <<obsTopic, policyTopic, observation, finalTime, solution,
                   store, flags, workerPc, published>>

\* The flags are cleared without publisherMutex_, and the buffers are kept.
ResetFlags ==
    /\ Alive /\ executor = "unready"
    /\ terminateThread_' = FALSE
    /\ readyToPublish_' = FALSE
    /\ executor' = "spin"
    /\ UNCHANGED <<channels, observation, resetRequestedEver_, solver, store,
                   workerPc, published>>

-----------------------------------------------------------------------------
(* shutdownNode(), from the destructor once the executor has returned.     *)

\* Mutant: the waiting worker is not woken.
Shutdown_NoNotify ==
    /\ Alive /\ executor = "spin"
    /\ MutexFree
    /\ terminateThread_' = TRUE
    /\ executor' = "join"
    /\ UNCHANGED <<channels, observation, resetRequestedEver_, solver, store,
                   readyToPublish_, workerPc, published>>

Shutdown ==
    /\ Alive /\ executor = "spin"
    /\ MutexFree
    /\ terminateThread_' = TRUE
    /\ workerPc' = Notified(workerPc)
    /\ executor' = "join"
    /\ UNCHANGED <<channels, observation, resetRequestedEver_, solver, store,
                   readyToPublish_, published>>

Join ==
    /\ executor = "join"
    /\ workerPc = "exited"
    /\ executor' = "stopped"
    /\ UNCHANGED <<channels, observation, resetRequestedEver_, solver, store,
                   flags, workerPc, published>>

-----------------------------------------------------------------------------
(* publisherWorker()                                                       *)

\* The condition of the while loop, read without a lock.
WorkerTest ==
    /\ workerPc = "test"
    /\ workerPc' = IF terminateThread_ THEN "exited" ELSE "lock"
    /\ UNCHANGED <<channels, main, store, flags, published>>

\* The worker takes the mutex, for the first time or after a wake-up, and
\* tests the predicate of the wait; a termination leaves the loop.
WorkerLock ==
    /\ workerPc = "lock"
    /\ workerPc' = IF terminateThread_ THEN "exited"
                   ELSE IF readyToPublish_ THEN "swap" ELSE "waiting"
    /\ UNCHANGED <<channels, main, store, flags, published>>

\* Condition variables wake spuriously.
WorkerSpuriousWakeup ==
    /\ workerPc = "waiting"
    /\ workerPc' = "lock"
    /\ UNCHANGED <<channels, main, store, flags, published>>

\* The pointers are swapped under bufferMutex_: what was published before goes
\* back into the buffer.
WorkerSwap ==
    /\ workerPc = "swap"
    /\ buffer' = publisher
    /\ publisher' = buffer
    /\ workerPc' = "publish"
    /\ UNCHANGED <<channels, main, flags, published>>

\* createMpcPolicyMsg() dereferences the controller, which the solution the
\* constructor made does not have.
WorkerCrash ==
    /\ workerPc = "publish"
    /\ publisher = NullPolicy
    /\ workerPc' = "crashed"
    /\ UNCHANGED <<channels, main, store, flags, published>>

WorkerPublish ==
    /\ workerPc = "publish"
    /\ publisher # NullPolicy
    /\ policyTopic' = Published(policyTopic, publisher)
    /\ published' = published \cup {publisher}
    /\ workerPc' = "clear"
    /\ UNCHANGED <<obsTopic, resetRequests, main, store, flags>>

\* The flag is cleared and the mutex released.
WorkerClear ==
    /\ workerPc = "clear"
    /\ readyToPublish_' = FALSE
    /\ workerPc' = "test"
    /\ UNCHANGED <<channels, main, store, terminateThread_, published>>

-----------------------------------------------------------------------------
MainStep ==
    \/ ObservationCallback \/ RunMpc \/ CopyToBuffer \/ Signal
    \/ ResetCallback \/ ResetFlags
    \/ Join

WorkerStep ==
    \/ WorkerTest \/ WorkerLock \/ WorkerSwap
    \/ WorkerCrash \/ WorkerPublish \/ WorkerClear

NodeNext == MainStep \/ Shutdown \/ WorkerStep \/ WorkerSpuriousWakeup

\* The threads are scheduled.  The executor serves everything that was ready
\* when it last looked before it looks again, so that a reset is not passed
\* over for ever.  Nothing obliges the process to shut down or a wait to end
\* spuriously.
NodeFairness ==
    WF_vars(MainStep) /\ WF_vars(WorkerStep) /\ SF_vars(ResetCallback)

-----------------------------------------------------------------------------
(* The world around a node of its own: observations come in the order of   *)
(* their time, a client asks for resets, and somebody reads the policies.  *)

VARIABLE now   \* the time of the last observation sent

SendObservation ==
    /\ \E t \in Time :
          /\ t > now
          /\ now' = t
          /\ obsTopic' = Published(obsTopic, t)
    /\ UNCHANGED <<policyTopic, resetRequests, nodeVars>>

\* A client repeats the observation it sent last.
RepeatObservation ==
    /\ obsTopic' = Published(obsTopic, now)
    /\ UNCHANGED <<policyTopic, resetRequests, nodeVars, now>>

RequestReset ==
    /\ resetRequests = 0 /\ epoch < MaxResets
    /\ resetRequests' = 1
    /\ UNCHANGED <<obsTopic, policyTopic, nodeVars, now>>

DeliverObservation ==
    /\ CanDeliver(obsTopic)
    /\ obsTopic' = Delivered(obsTopic)
    /\ UNCHANGED <<policyTopic, resetRequests, nodeVars, now>>

Environment ==
    \/ SendObservation \/ RepeatObservation \/ RequestReset
    \/ DeliverObservation

Init ==
    /\ obsTopic = Empty /\ policyTopic = Empty /\ resetRequests = 0
    /\ now = 0
    /\ NodeInit

Next ==
    \/ NodeNext /\ UNCHANGED now
    \/ Environment

Spec == Init /\ [][Next]_<<vars, now>>

FairSpec == Spec /\ NodeFairness

-----------------------------------------------------------------------------
(* Correctness.                                                            *)

TypeOK ==
    /\ obsTopic \in Topics(Time)
    /\ policyTopic \in Topics(ComputedPolicy)
    /\ resetRequests \in 0..MaxResets
    /\ executor \in {"spin", "run", "copy", "signal", "unready", "join",
                     "stopped"}
    /\ observation \in Time /\ now \in Time
    /\ resetRequestedEver_ \in BOOLEAN /\ initRun_ \in BOOLEAN
    /\ finalTime \in 0..(MaxTime + Horizon)
    /\ epoch \in 0..MaxResets
    /\ {solution, buffer, publisher}
          \subseteq ComputedPolicy \cup {NullPolicy}
    /\ published \subseteq ComputedPolicy
    /\ readyToPublish_ \in BOOLEAN /\ terminateThread_ \in BOOLEAN
    /\ workerPc \in {"test", "lock", "waiting", "swap", "publish", "clear",
                     "exited", "crashed"}

\* A policy that was copied and signalled is not lost between the two threads:
\* when nothing is pending any more it has been published, unless a reset
\* cancelled the publication (MPC_ROS_Interface.cpp:61, 199, 282-285).
NewestIsPublished ==
    executor = "spin" /\ ~readyToPublish_ /\ MutexFree /\ Alive
        => \/ solution \in published
           \/ solution = NullPolicy
           \/ solution.epoch < epoch

\* The observation callback "receives the current observation, invokes the MPC
\* algorithm, and finally publishes the optimized policy"
\* (MPC_ROS_Interface.h:134-135): the worker finds a policy in its buffer.
PublishesComputedPolicies == Alive

\* A policy handed over for publication is published, if no newer one, reset
\* or shutdown comes in between: the wake-up cannot be lost
\* (MPC_ROS_Interface.cpp:179-187, 282-285).
HandedOverIsPublished ==
    \A p \in ComputedPolicy :
        executor = "signal" /\ solution = p
            ~> \/ p \in published
               \/ solution # p
               \/ epoch > p.epoch
               \/ terminateThread_
               \/ ~Alive

\* The main thread neither hangs in a callback behind the publishing worker
\* nor in the join of the destructor (MPC_ROS_Interface.cpp:282, 300-308).
MainThreadReturns ==
    executor \notin {"spin", "stopped"}
        ~> executor \in {"spin", "stopped"} \/ ~Alive

=============================================================================
