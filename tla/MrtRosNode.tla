----------------------------- MODULE MrtRosNode -----------------------------
(***************************************************************************)
(* The MRT side of the ROS connection                                      *)
(* (robotics/ocs2_ros_interfaces/src/mrt/MRT_ROS_Interface.cpp): the class *)
(* a tracking loop uses to send observations to the MPC node and to        *)
(* receive its policies.  The user's thread makes every call, and spinMRT  *)
(* runs the policy callback inside it; a second thread,                    *)
(* publisherWorkerThread(), publishes the observations.                    *)
(*                                                                         *)
(* The critical sections under publisherMutex_ are short and touch nothing *)
(* that is read outside them but terminateThread_, so each is one step.    *)
(* The policy buffer is the mailbox that MRT_BASE implements (MrtBase).    *)
(***************************************************************************)
EXTENDS Naturals, Topic

CONSTANTS
    Observation,    \* the observations, numbered by their time
    NoObservation,  \* an observation message that was moved away or never set
    Policy,         \* the policies the MPC node may send
    NoPolicy        \* the null pointer

ASSUME ObservationAssumption ==
    Observation \subseteq Nat /\ NoObservation \notin Observation
ASSUME NoPolicyAssumption == NoPolicy \notin Policy

VARIABLES
    obsTopic, policyTopic,      \* the topics of the node
    resetRequests,              \* reset requests sent and not yet served
    active, latest, received,   \* the policy buffer of MRT_BASE
    mpcObservationMsg_,
    mpcObservationMsgBuffer_,
    readyToPublish_, terminateThread_,
    worker,                     \* where publisherWorkerThread() is
    user                        \* whether the user's thread is free to call

buffers == <<active, latest, received>>
messages == <<mpcObservationMsg_, mpcObservationMsgBuffer_, readyToPublish_>>
nodeVars == <<buffers, messages, terminateThread_, worker, user>>
channels == <<obsTopic, policyTopic, resetRequests>>
vars == <<channels, nodeVars>>

Buffer == INSTANCE PolicyMailbox

NodeInit ==
    /\ Buffer!Init
    /\ mpcObservationMsg_ = NoObservation
    /\ mpcObservationMsgBuffer_ = NoObservation
    /\ readyToPublish_ = FALSE
    /\ terminateThread_ = FALSE
    /\ worker = "test"
    /\ user = "free"

-----------------------------------------------------------------------------
(* Calls of the user's thread.                                             *)

\* spinMRT(): spin_some() runs mpcPolicyCallback() once if a message waits.
SpinMrt ==
    /\ user = "free"
    /\ IF CanTake(policyTopic)
       THEN Buffer!Put(Message(policyTopic)) /\ policyTopic' = Taken(policyTopic)
       ELSE UNCHANGED <<policyTopic, buffers>>
    /\ UNCHANGED <<obsTopic, resetRequests, messages, terminateThread_,
                   worker, user>>

\* Mutant: the waiting worker is not woken.
SetCurrentObservation_NoNotify(t) ==
    /\ user = "free"
    /\ mpcObservationMsg_' = t
    /\ readyToPublish_' = TRUE
    /\ UNCHANGED <<channels, buffers, mpcObservationMsgBuffer_,
                   terminateThread_, worker, user>>

\* setCurrentObservation().  The worker is notified after the mutex has been
\* released; a late wake-up is no more than a spurious one.
SetCurrentObservation(t) ==
    /\ user = "free"
    /\ mpcObservationMsg_' = t
    /\ readyToPublish_' = TRUE
    /\ worker' = IF worker = "waiting" THEN "lock" ELSE worker
    /\ UNCHANGED <<channels, buffers, mpcObservationMsgBuffer_,
                   terminateThread_, user>>

\* updatePolicy(), which returns whether there was a policy to take.
UpdatePolicy ==
    /\ user = "free"
    /\ Buffer!Take
    /\ UNCHANGED <<channels, messages, terminateThread_, worker, user>>

\* resetMpcNode(): the request is sent, and its response is not awaited.
ResetMpcNode ==
    /\ user = "free"
    /\ Buffer!Clear
    /\ resetRequests' = resetRequests + 1
    /\ UNCHANGED <<obsTopic, policyTopic, messages, terminateThread_, worker,
                   user>>

\* Mutant: the waiting worker is not woken.
Shutdown_NoNotify ==
    /\ user = "free"
    /\ terminateThread_' = TRUE
    /\ user' = "join"
    /\ UNCHANGED <<channels, buffers, messages, worker>>

\* shutdownPublisher(), from the destructor: raise the flag and wake the
\* worker, then join it.
Shutdown ==
    /\ user = "free"
    /\ terminateThread_' = TRUE
    /\ worker' = IF worker = "waiting" THEN "lock" ELSE worker
    /\ user' = "join"
    /\ UNCHANGED <<channels, buffers, messages>>

Join ==
    /\ user = "join" /\ worker = "exited"
    /\ user' = "gone"
    /\ UNCHANGED <<channels, buffers, messages, terminateThread_, worker>>

-----------------------------------------------------------------------------
(* publisherWorkerThread()                                                 *)

\* The condition of the while loop, read without the mutex.
WorkerTest ==
    /\ worker = "test"
    /\ worker' = IF terminateThread_ THEN "exited" ELSE "lock"
    /\ UNCHANGED <<channels, buffers, messages, terminateThread_, user>>

\* With the mutex, for the first time or after a wake-up: leave the loop, or
\* wait, ...
WorkerWait ==
    /\ worker = "lock"
    /\ terminateThread_ \/ ~readyToPublish_
    /\ worker' = IF terminateThread_ THEN "exited" ELSE "waiting"
    /\ UNCHANGED <<channels, buffers, messages, terminateThread_, user>>

\* Mutant: the flag is not cleared, as if that were left to the next call.
WorkerMove_KeepsFlag ==
    /\ worker = "lock"
    /\ readyToPublish_ /\ ~terminateThread_
    /\ mpcObservationMsgBuffer_' = mpcObservationMsg_
    /\ mpcObservationMsg_' = NoObservation
    /\ worker' = "publish"
    /\ UNCHANGED <<channels, buffers, readyToPublish_, terminateThread_, user>>

\* ... or move the message away, clear the flag and release the mutex.
WorkerMove ==
    /\ worker = "lock"
    /\ readyToPublish_ /\ ~terminateThread_
    /\ mpcObservationMsgBuffer_' = mpcObservationMsg_
    /\ mpcObservationMsg_' = NoObservation
    /\ readyToPublish_' = FALSE
    /\ worker' = "publish"
    /\ UNCHANGED <<channels, buffers, terminateThread_, user>>

\* The message is published without the mutex.
WorkerPublish ==
    /\ worker = "publish"
    /\ obsTopic' = Published(obsTopic, mpcObservationMsgBuffer_)
    /\ worker' = "test"
    /\ UNCHANGED <<policyTopic, resetRequests, buffers, messages,
                   terminateThread_, user>>

WorkerSpuriousWakeup ==
    /\ worker = "waiting"
    /\ worker' = "lock"
    /\ UNCHANGED <<channels, buffers, messages, terminateThread_, user>>

WorkerStep == WorkerTest \/ WorkerWait \/ WorkerMove \/ WorkerPublish

=============================================================================
