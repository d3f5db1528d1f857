---------------------------- MODULE MpcMrtSystem ----------------------------
(***************************************************************************)
(* A tracking loop and an MPC node, connected by the observation topic,    *)
(* the policy topic and the reset service, as the launch files of          *)
(* robotics/ocs2_mobile_manipulator_ros start them.  The middleware        *)
(* delivers each topic in order but after any delay, and the service is    *)
(* independent of the topics.  The process of the tracking loop may be     *)
(* killed and started anew, while the MPC node keeps running.              *)
(***************************************************************************)
EXTENDS DummyLoop

CONSTANTS
    Horizon         \* mpcSettings_.timeHorizon_, in simulation steps

ASSUME SystemAssumption ==
    /\ Horizon \in Nat \ {0}
    /\ Observation = 0..MaxTime
    /\ Policy = [time : 0..MaxTime, epoch : 1..MaxSessions]

VARIABLES
    executor, observation, resetRequestedEver_, initRun_, finalTime, solution,
    epoch, buffer, publisher, mpcReady, mpcTerminate, mpcWorker,
    published,                      \* the MPC node (MpcRosNode)
    session                         \* the run of the tracking process

Mpc == INSTANCE MpcRosNode WITH
    MaxResets <- MaxSessions,
    readyToPublish_ <- mpcReady,
    terminateThread_ <- mpcTerminate,
    workerPc <- mpcWorker,
    now <- currentTime

mpcVars == <<executor, observation, resetRequestedEver_, initRun_, finalTime,
             solution, epoch, buffer, publisher, mpcReady, mpcTerminate,
             mpcWorker, published>>
mrtVars == <<nodeVars, loopVars, session>>
systemVars == <<channels, mpcVars, mrtVars>>

Init ==
    /\ obsTopic = Empty /\ policyTopic = Empty /\ resetRequests = 0
    /\ Mpc!NodeInit
    /\ NodeInit /\ LoopInit
    /\ session = 1

MpcStep == (Mpc!MainStep \/ Mpc!WorkerStep) /\ UNCHANGED mrtVars
MpcWakeup == Mpc!WorkerSpuriousWakeup /\ UNCHANGED mrtVars

LoopNext == LoopStep /\ UNCHANGED <<mpcVars, session>>
MrtWorkerNext == WorkerStep /\ UNCHANGED <<mpcVars, loopVars, session>>
MrtWakeup == WorkerSpuriousWakeup /\ UNCHANGED <<mpcVars, loopVars, session>>

DeliverObservation ==
    /\ CanDeliver(obsTopic)
    /\ obsTopic' = Delivered(obsTopic)
    /\ UNCHANGED <<policyTopic, resetRequests, mpcVars, mrtVars>>

DeliverPolicy ==
    /\ CanDeliver(policyTopic)
    /\ policyTopic' = Delivered(policyTopic)
    /\ UNCHANGED <<obsTopic, resetRequests, mpcVars, mrtVars>>

\* The process of the tracking loop is killed and started again.  A request or
\* an observation on its way still arrives, and so does a policy, at the new
\* subscription; what the old one had in its queue is gone.
Restart ==
    /\ session < settings.maxSessions
    /\ session' = session + 1
    /\ policyTopic' = Taken(policyTopic)
    /\ Buffer!Clear
    /\ mpcObservationMsg_' = NoObservation
    /\ mpcObservationMsgBuffer_' = NoObservation
    /\ readyToPublish_' = FALSE
    /\ terminateThread_' = FALSE
    /\ worker' = "test"
    /\ user' = "free"
    /\ loop' = "reset" /\ currentTime' = 0
    /\ UNCHANGED <<obsTopic, resetRequests, mpcVars, settings>>

Next ==
    \/ MpcStep \/ MpcWakeup
    \/ LoopNext \/ MrtWorkerNext \/ MrtWakeup
    \/ DeliverObservation \/ DeliverPolicy
    \/ Restart

Spec == Init /\ [][Next]_systemVars

\* Every thread is scheduled, a message that is published arrives, and the
\* executor of the MPC node does not pass over a reset for ever.
FairSpec ==
    /\ Spec
    /\ WF_systemVars(Mpc!MainStep /\ UNCHANGED mrtVars)
    /\ SF_systemVars(Mpc!ResetCallback /\ UNCHANGED mrtVars)
    /\ WF_systemVars(Mpc!WorkerStep /\ UNCHANGED mrtVars)
    /\ WF_systemVars(LoopNext)
    /\ WF_systemVars(MrtWorkerNext)
    /\ WF_systemVars(DeliverObservation)
    /\ WF_systemVars(DeliverPolicy)

-----------------------------------------------------------------------------
(* Correctness.                                                            *)

\* Once the loop has left the wait for the initial policy it has one, received
\* or already in use, however often the process was started anew; and it never
\* simulates without one in use, which evaluatePolicy() and rolloutPolicy()
\* would refuse (MRT_ROS_Dummy_Loop.cpp:63, 111, 158, 181-202).
SimulatesWithPolicy ==
    /\ loop \notin {"reset", "initial", "send_initial"} =>
          latest # NoPolicy \/ active # NoPolicy
    /\ loop = "simulate" => active # NoPolicy

\* A synchronized loop never runs ahead of the solver's horizon, so that the
\* MPC does not refuse its observations (MPC_BASE.cpp:48-53), whatever was
\* delayed, overwritten or repeated on the topics, until the tracking process is
\* started anew: the next one may take an old policy for the awaited one.
NeverBeyondHorizon ==
    synchronized /\ session = 1 /\ executor = "run" =>
        initRun_ \/ observation < finalTime

\* The initial observation is repeated until it has been answered, although
\* the reset is asynchronous, the MPC node drops what arrives before it, and
\* the reset may cancel a publication (MRT_ROS_Dummy_Loop.cpp:60-67).
InitialPolicyArrives ==
    loop = "initial" ~> loop = "spin" \/ ~Mpc!Alive

\* "Runs a loop where mpc optimizations are synchronized with the forward
\* simulation of the system" (MRT_ROS_Dummy_Loop.h:94-95): the wait for the
\* policy of the current time ends.
SynchronizedLoopAdvances ==
    loop = "await" ~> loop = "simulate" \/ ~Mpc!Alive

=============================================================================
