---------------------------- MODULE G7ControlLoop ----------------------------
(***************************************************************************)
(* The G7 OpenArm robot in simulation (src/g7_openarm): the controller     *)
(* manager, whose thread reads the MuJoCo hardware, updates the policy     *)
(* controller and the observation broadcaster and writes the hardware,     *)
(* cycle after cycle; its executor thread, which receives policies; the    *)
(* reset coordinator; and the MPC node of MpcRosNode.                      *)
(*                                                                         *)
(* Time is counted in control cycles, one observation each, and stands     *)
(* still at MaxTime.  The command interfaces, which are set together, hold *)
(* the policy their values were computed with, or Zero.  Messages of the   *)
(* MPC node are well-formed and fit the robot.                             *)
(***************************************************************************)
EXTENDS Naturals, Topic

CONSTANTS
    MaxTime,        \* bound on the control cycles that are told apart
    Horizon,        \* the MPC's horizon, in cycles
    MaxRepeats      \* bound on the repeated activations of the policy
                    \* controller and the deaths of the MPC node together

ASSUME G7Assumption ==
    /\ MaxTime \in Nat
    /\ Horizon \in Nat \ {0}
    /\ MaxRepeats \in Nat

VARIABLES
    phase,              \* what the control thread does next: "update" or "write"
    sim_time_state_,
    command,            \* the command interfaces
    driven,             \* what the simulation was driven with last
    policyController, broadcaster,  \* "inactive" or "active"
    switches,           \* how often the policy controller was activated
    active_policy_,
    rtData, nonRtData, newData,     \* policy_buffer_, a RealtimeBuffer
    callback,           \* the message policy_callback() is to store
    newest,             \* the last message it stored, for properties only
    observed,           \* an observation waits for the coordinator
    reset_requested_, reset_completed_,
    response,           \* the MPC node's answer: "none" or "sent"
    mpcUp, mpcKills     \* whether the MPC node runs, and how often it died

VARIABLES
    obsTopic, policyTopic, resetRequests,
    executor, observation, resetRequestedEver_, initRun_, finalTime, solution,
    epoch, buffer, publisher, readyToPublish_, terminateThread_, workerPc,
    published           \* the MPC node (MpcRosNode)

Mpc == INSTANCE MpcRosNode WITH MaxResets <- 1, now <- sim_time_state_

Policy == Mpc!ComputedPolicy
NoPolicy == Mpc!NullPolicy
Zero == NoPolicy

channels == <<obsTopic, policyTopic, resetRequests>>
mpcVars == <<executor, observation, resetRequestedEver_, initRun_, finalTime,
             solution, epoch, buffer, publisher, readyToPublish_,
             terminateThread_, workerPc, published>>
process == <<mpcUp, mpcKills>>
coordinator == <<reset_requested_, reset_completed_>>
lifecycle == <<policyController, broadcaster, switches>>
policy_buffer_ == <<rtData, nonRtData, newData>>
receiver == <<callback, newest>>
control == <<phase, sim_time_state_, command, driven, lifecycle,
             active_policy_>>
vars == <<channels, mpcVars, process, coordinator, policy_buffer_, receiver,
          control, observed, response>>

Init ==
    /\ phase = "update" /\ sim_time_state_ = 0
    /\ command = Zero /\ driven = Zero
    /\ policyController = "inactive" /\ broadcaster = "inactive"
    /\ switches = 0
    /\ active_policy_ = NoPolicy
    /\ rtData = NoPolicy /\ nonRtData = NoPolicy /\ newData = FALSE
    /\ callback = NoPolicy /\ newest = NoPolicy
    /\ observed = FALSE
    /\ reset_requested_ = FALSE /\ reset_completed_ = FALSE
    /\ response = "none"
    /\ mpcUp = FALSE /\ mpcKills = 0
    /\ obsTopic = Empty /\ policyTopic = Empty /\ resetRequests = 0
    /\ Mpc!NodeInit

\* Whether one more activation or death is within the bound.
MayRepeat ==
    (IF switches = 0 THEN 0 ELSE switches - 1) + mpcKills < MaxRepeats

outside == <<mpcVars, process, coordinator, response>>

-----------------------------------------------------------------------------
(* The control thread.                                                     *)

\* RealtimeBuffer::readFromRT() swaps if there is new data and its try-lock
\* succeeds, as it does unless the callback is about to store.
ReadFromRT(locked) ==
    IF newData /\ locked
    THEN /\ rtData' = nonRtData /\ nonRtData' = rtData
         /\ newData' = FALSE
    ELSE UNCHANGED policy_buffer_

\* update() of an active policy controller takes the policy in the buffer, or
\* keeps the one it has, and commands zero as long as it has none.  The time of
\* the policy is not compared with the clock.
UpdatePolicyController ==
    /\ \E locked \in {TRUE, callback = NoPolicy} : ReadFromRT(locked)
    /\ active_policy_' = IF rtData' # NoPolicy THEN rtData' ELSE active_policy_
    /\ command' = active_policy_'

\* update() of an active broadcaster publishes an observation, to the MPC node
\* and to the coordinator.
UpdateBroadcaster ==
    /\ obsTopic' = Published(obsTopic, sim_time_state_)
    /\ observed' = TRUE

\* One pass of read() and of the updates of the active controllers, of which
\* none sees what the other does.
Update ==
    /\ phase = "update"
    /\ phase' = "write"
    /\ \/ policyController = "active" /\ UpdatePolicyController
       \/ /\ policyController = "inactive"
          /\ UNCHANGED <<policy_buffer_, active_policy_, command>>
    /\ \/ broadcaster = "active" /\ UpdateBroadcaster
       \/ broadcaster = "inactive" /\ UNCHANGED <<obsTopic, observed>>
    /\ UNCHANGED <<policyTopic, resetRequests, outside, receiver,
                   sim_time_state_, driven, lifecycle>>

\* The controller manager switches controllers between its updates and the
\* write.
Activate ==
    /\ phase = "write"
    /\ policyController = "inactive" /\ (switches = 0 \/ MayRepeat)
    /\ policyController' = "active" /\ switches' = switches + 1
    /\ active_policy_' = NoPolicy
    /\ command' = Zero
    /\ UNCHANGED <<channels, outside, policy_buffer_, receiver, observed,
                   phase, sim_time_state_, driven, broadcaster>>

\* Mutant: the command interfaces keep what they hold.
Deactivate_KeepsCommand ==
    /\ phase = "write"
    /\ policyController = "active"
    /\ policyController' = "inactive"
    /\ UNCHANGED <<channels, outside, policy_buffer_, receiver, observed,
                   phase, sim_time_state_, driven, broadcaster, switches,
                   active_policy_, command>>

Deactivate ==
    /\ phase = "write"
    /\ policyController = "active"
    /\ policyController' = "inactive"
    /\ command' = Zero
    /\ UNCHANGED <<channels, outside, policy_buffer_, receiver, observed,
                   phase, sim_time_state_, driven, broadcaster, switches,
                   active_policy_>>

ActivateBroadcaster ==
    /\ phase = "write"
    /\ broadcaster = "inactive"
    /\ broadcaster' = "active"
    /\ UNCHANGED <<channels, outside, policy_buffer_, receiver, observed,
                   phase, sim_time_state_, driven, policyController, switches,
                   active_policy_, command>>

\* write(): the servo takes the command, and the simulation and its clock go on
\* by at least one step, whatever the MPC node does meanwhile.
Write ==
    /\ phase = "write"
    /\ driven' = command
    /\ sim_time_state_' = IF sim_time_state_ < MaxTime
                          THEN sim_time_state_ + 1 ELSE MaxTime
    /\ phase' = "update"
    /\ UNCHANGED <<channels, outside, policy_buffer_, receiver, observed,
                   command, lifecycle, active_policy_>>

Switch == Activate \/ Deactivate \/ ActivateBroadcaster

-----------------------------------------------------------------------------
(* policy_callback(), on the executor's thread; the subscription exists    *)
(* from the configuration of the controller on.                            *)

TakePolicy ==
    /\ callback = NoPolicy
    /\ CanTake(policyTopic)
    /\ callback' = Message(policyTopic)
    /\ policyTopic' = Taken(policyTopic)
    /\ UNCHANGED <<obsTopic, resetRequests, outside, policy_buffer_, newest,
                   control, observed>>

\* Mutant: the data is announced before it is there.
StorePolicy_FlagOnly ==
    /\ callback # NoPolicy
    /\ newData' = TRUE
    /\ nonRtData' = IF newData THEN callback ELSE nonRtData
    /\ newest' = callback
    /\ callback' = NoPolicy
    /\ UNCHANGED <<channels, outside, rtData, control, observed>>

\* writeFromNonRT(), which holds the lock from the call on.
StorePolicy ==
    /\ callback # NoPolicy
    /\ nonRtData' = callback
    /\ newData' = TRUE
    /\ newest' = callback
    /\ callback' = NoPolicy
    /\ UNCHANGED <<channels, outside, rtData, control, observed>>

-----------------------------------------------------------------------------
(* The reset coordinator.                                                  *)

\* Mutant: the request is marked only when it is answered.
ObservationCallback_NotMarked ==
    /\ observed
    /\ ~reset_requested_ /\ ~reset_completed_
    /\ observed' = FALSE
    /\ resetRequests' = IF mpcUp THEN resetRequests + 1 ELSE resetRequests
    /\ UNCHANGED <<obsTopic, policyTopic, mpcVars, process, coordinator,
                   response, policy_buffer_, receiver, control>>

\* Mutant: the request is sent without waiting for the service.
ObservationCallback_NoWait ==
    /\ observed
    /\ ~reset_requested_ /\ ~reset_completed_
    /\ observed' = FALSE
    /\ reset_requested_' = TRUE
    /\ resetRequests' = IF mpcUp THEN resetRequests + 1 ELSE resetRequests
    /\ UNCHANGED <<obsTopic, policyTopic, mpcVars, process, reset_completed_,
                   response, policy_buffer_, receiver, control>>

\* observation_callback(): the first observation for which the service is
\* there makes the request; after that it returns at once.
ObservationCallback ==
    /\ observed
    /\ ~reset_requested_ /\ ~reset_completed_
    /\ observed' = FALSE
    /\ IF mpcUp
       THEN resetRequests' = resetRequests + 1 /\ reset_requested_' = TRUE
       ELSE UNCHANGED <<resetRequests, reset_requested_>>
    /\ UNCHANGED <<obsTopic, policyTopic, mpcVars, process, reset_completed_,
                   response, policy_buffer_, receiver, control>>

\* The response of a reset that was asked for is always "done".
ResetResponse ==
    /\ response = "sent"
    /\ response' = "none"
    /\ reset_completed_' = TRUE
    /\ UNCHANGED <<channels, mpcVars, process, reset_requested_, policy_buffer_,
                   receiver, control, observed>>

-----------------------------------------------------------------------------
(* The MPC node, its process, and the topics.                              *)

robot == <<process, coordinator, policy_buffer_, receiver, control, observed>>

\* The reset service answers when its callback returns.
Answer == response' = IF executor = "unready" /\ executor' # executor
                      THEN "sent" ELSE response

MpcMain == mpcUp /\ Mpc!MainStep /\ Answer /\ UNCHANGED robot
ServeReset == mpcUp /\ Mpc!ResetCallback /\ Answer /\ UNCHANGED robot
MpcWorker == mpcUp /\ Mpc!WorkerStep /\ UNCHANGED <<robot, response>>

StartMpc ==
    /\ ~mpcUp
    /\ mpcUp' = TRUE
    /\ UNCHANGED <<channels, mpcVars, mpcKills, coordinator, policy_buffer_,
                   receiver, control, observed, response>>

\* The process dies; what it had received and a request it had not answered
\* are lost.
KillMpc ==
    /\ mpcUp /\ MayRepeat
    /\ mpcUp' = FALSE /\ mpcKills' = mpcKills + 1
    /\ executor' = "spin" /\ observation' = 0
    /\ resetRequestedEver_' = FALSE /\ initRun_' = TRUE /\ finalTime' = 0
    /\ solution' = NoPolicy /\ epoch' = 0
    /\ buffer' = NoPolicy /\ publisher' = NoPolicy
    /\ readyToPublish_' = FALSE /\ terminateThread_' = FALSE
    /\ workerPc' = "test" /\ published' = {}
    /\ obsTopic' = Taken(obsTopic) /\ resetRequests' = 0
    /\ UNCHANGED <<policyTopic, coordinator, policy_buffer_, receiver,
                   control, observed, response>>

DeliverObservation ==
    /\ CanDeliver(obsTopic)
    /\ obsTopic' = Delivered(obsTopic)
    /\ UNCHANGED <<policyTopic, resetRequests, mpcVars, robot, response>>

DeliverPolicy ==
    /\ CanDeliver(policyTopic)
    /\ policyTopic' = Delivered(policyTopic)
    /\ UNCHANGED <<obsTopic, resetRequests, mpcVars, robot, response>>

Next ==
    \/ Update \/ Write \/ Switch
    \/ TakePolicy \/ StorePolicy
    \/ ObservationCallback \/ ResetResponse
    \/ MpcMain \/ MpcWorker
    \/ StartMpc \/ KillMpc
    \/ DeliverObservation \/ DeliverPolicy

Spec == Init /\ [][Next]_vars

\* The threads are scheduled, messages arrive, the spawners activate both
\* controllers and the launch file starts the MPC node; the lock that the callback
\* holds for one copy in a cycle is not always in the way.  Nobody has to
\* deactivate a controller or to kill the MPC node.
FairSpec ==
    /\ Spec
    /\ WF_vars(Update \/ Write) /\ SF_vars(Update /\ rtData' # rtData)
    /\ SF_vars(ActivateBroadcaster)
    /\ WF_vars(TakePolicy \/ StorePolicy)
    /\ WF_vars(ObservationCallback)
    /\ WF_vars(ResetResponse)
    /\ WF_vars(MpcMain) /\ SF_vars(ServeReset)
    /\ WF_vars(MpcWorker)
    /\ WF_vars(StartMpc /\ mpcKills = 0)
    /\ WF_vars(DeliverObservation) /\ WF_vars(DeliverPolicy)

-----------------------------------------------------------------------------
(* Correctness.                                                            *)

\* The simulation is never driven by a policy while the policy controller is
\* inactive, whatever the interfaces held before the switch
\* (g7_openarm_policy_controller.cpp:186-199), nor before the coordinator has
\* asked for "the initial MPC reset" (g7_openarm/README.md:97).
DrivenOnlyWhenActive ==
    driven # Zero => /\ phase = "update" => policyController = "active"
                     /\ reset_requested_

\* The reset is asked for once, however many observations arrive before the
\* answer does: a second one would throw away the targets set in between
\* (G7OpenarmMpcResetCoordinator.cpp:70-73, 94-117).
ResetOnce ==
    /\ epoch <= 1
    /\ reset_completed_ => resetRequests = 0 /\ response = "none"

\* An update that gets the lock uses the policy received last, also the first
\* one after an activation (g7_openarm_policy_controller.cpp:186-208).
UsesNewest ==
    [][/\ phase = "update" /\ phase' = "write"
       /\ policyController = "active" /\ callback = NoPolicy
       => active_policy_' = newest]_vars

\* "g7_openarm_mpc_reset_coordinator completes the initial MPC reset"
\* (g7_openarm/README.md:97), in whatever order the processes come up, if the
\* MPC node is not killed.
InitialResetCompletes == <>(reset_completed_ \/ mpcKills > 0)

\* A robot whose reset is completed and whose controller stays active is driven
\* by a policy in the end.
RobotIsDriven ==
    reset_completed_ /\ policyController = "active"
        ~> \/ driven # Zero
           \/ policyController = "inactive"
           \/ mpcKills > 0 \/ ~Mpc!Alive

=============================================================================
