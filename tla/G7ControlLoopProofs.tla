------------------------- MODULE G7ControlLoopProofs -------------------------
(***************************************************************************)
(* Proofs about the control loop of the G7 robot (G7ControlLoop), for any  *)
(* horizon and any number of cycles, activations of the policy controller  *)
(* and deaths of the MPC node: when the robot is driven, by which policy,  *)
(* and that the MPC node is reset once.                                    *)
(***************************************************************************)
EXTENDS G7ControlLoop, TLAPS

\* The policies the MPC node holds, those on their way, and those that the
\* controller holds or has used.
Computed == {solution, buffer, publisher}
Received == {callback, newest, rtData, nonRtData, active_policy_, command, driven}

\* Until the reset is asked for there is no policy anywhere.
QuietInv ==
    ~reset_requested_ =>
        /\ resetRequests = 0 /\ epoch = 0
        /\ executor = "spin" /\ ~resetRequestedEver_
        /\ response = "none" /\ ~reset_completed_
        /\ Computed \cup Received = {NoPolicy} /\ policyTopic = Empty

\* The one reset is on its way, being served, answered or completed, or it died
\* with the MPC node.
Count(holds) == IF holds THEN 1 ELSE 0

ResetInv ==
    /\ response \in {"none", "sent"}
    /\ epoch \in Nat /\ resetRequests \in Nat /\ epoch + resetRequests <= 1
    /\ resetRequests + Count(executor = "unready") + Count(response = "sent")
          + Count(reset_completed_) <= 1

\* What was stored last is in the half of the buffer that is read next.
BufferInv ==
    /\ IF newData THEN nonRtData = newest ELSE rtData = newest
    /\ newest = NoPolicy => {rtData, nonRtData, active_policy_} = {NoPolicy}

\* An inactive controller commands nothing.
CommandInv ==
    /\ command # Zero => policyController = "active"
    /\ DrivenOnlyWhenActive

G7Inv == QuietInv /\ ResetInv /\ BufferInv /\ CommandInv

-----------------------------------------------------------------------------
(* The invariant.                                                          *)

LEMMA G7Initial == Init => G7Inv
<1> SUFFICES ASSUME Init PROVE G7Inv
  OBVIOUS
<1>1. /\ resetRequests = 0 /\ epoch = 0 /\ executor = "spin"
      /\ ~resetRequestedEver_ /\ response = "none" /\ ~reset_completed_
      /\ solution = NoPolicy /\ buffer = NoPolicy /\ publisher = NoPolicy
      /\ policyTopic = Empty
  BY DEF Init, Mpc!NodeInit, NoPolicy
<1>2. /\ callback = NoPolicy /\ newest = NoPolicy /\ rtData = NoPolicy
      /\ nonRtData = NoPolicy /\ active_policy_ = NoPolicy /\ command = NoPolicy
      /\ driven = NoPolicy /\ newData = FALSE
  BY DEF Init, Zero
<1>3. QuietInv
  BY <1>1, <1>2 DEF QuietInv, Computed, Received
<1>4. ResetInv
  BY <1>1 DEF ResetInv, Count
<1>5. BufferInv /\ CommandInv
  BY <1>2 DEF BufferInv, CommandInv, DrivenOnlyWhenActive, Zero
<1> QED BY <1>3, <1>4, <1>5 DEF G7Inv

\* A step of the other processes leaves the controllers and the coordinator alone.
LEMMA RobotKept ==
    ASSUME G7Inv, UNCHANGED robot
    PROVE  /\ BufferInv' /\ CommandInv'
           /\ UNCHANGED <<Received, reset_requested_, reset_completed_>>
<1>1. UNCHANGED <<callback, newest, rtData, nonRtData, newData, active_policy_, command,
                  driven, phase, policyController, reset_requested_, reset_completed_>>
  BY DEF robot, coordinator, policy_buffer_, receiver, control, lifecycle
<1> QED
  BY <1>1 DEF G7Inv, BufferInv, CommandInv, DrivenOnlyWhenActive, Received

\* A step of the robot that does not concern the reset leaves the MPC node alone.
LEMMA OutsideKept ==
    ASSUME G7Inv, UNCHANGED <<outside, resetRequests>>
    PROVE  /\ ResetInv'
           /\ Received' \subseteq Received \cup {NoPolicy} /\ policyTopic' = policyTopic
                 => QuietInv'
<1>1. /\ UNCHANGED <<executor, resetRequestedEver_, epoch, response, resetRequests,
                     reset_requested_, reset_completed_>>
      /\ UNCHANGED Computed
  BY DEF outside, mpcVars, coordinator, Computed
<1>2. ResetInv'
  BY <1>1 DEF G7Inv, ResetInv
<1>3. Computed' # {} /\ Received' # {}
  BY DEF Computed, Received
<1> QED BY <1>1, <1>2, <1>3 DEF G7Inv, QuietInv

-----------------------------------------------------------------------------
(* The control thread and the callback.                                    *)

\* What an update does to the policies: it uses the newest if it gets the lock.
LEMMA UpdateTakes ==
    ASSUME G7Inv, UpdatePolicyController
    PROVE  /\ {rtData', nonRtData'} = {rtData, nonRtData}
           /\ IF newData' THEN nonRtData' = newest ELSE rtData' = newest
           /\ newest = NoPolicy => active_policy_' = NoPolicy
           /\ active_policy_' \in {rtData', active_policy_}
           /\ command' = active_policy_'
           /\ callback = NoPolicy => active_policy_' = newest
<1>1. PICK locked \in {TRUE, callback = NoPolicy} : ReadFromRT(locked)
  BY DEF UpdatePolicyController
<1>2. /\ active_policy_' = IF rtData' # NoPolicy THEN rtData' ELSE active_policy_
      /\ command' = active_policy_'
  BY DEF UpdatePolicyController
<1>3. CASE newData /\ locked
  BY <1>1, <1>2, <1>3 DEF ReadFromRT, G7Inv, BufferInv
<1>4. CASE ~(newData /\ locked)
  <2>1. UNCHANGED <<rtData, nonRtData, newData>>
    BY <1>1, <1>4 DEF ReadFromRT, policy_buffer_
  <2>2. callback = NoPolicy => ~newData
    BY <1>1, <1>4
  <2> QED BY <1>2, <2>1, <2>2 DEF G7Inv, BufferInv
<1> QED BY <1>3, <1>4

LEMMA UpdateKeeps == G7Inv /\ Update => G7Inv'
<1> SUFFICES ASSUME G7Inv, Update PROVE G7Inv'
  OBVIOUS
<1>1. /\ phase' = "write" /\ UNCHANGED <<policyTopic, resetRequests, outside, callback,
                                         newest, driven, policyController>>
      /\ UNCHANGED <<reset_requested_>>
  BY DEF Update, receiver, lifecycle, outside, coordinator
<1>2. CASE policyController = "active" /\ UpdatePolicyController
  <2>1. BufferInv' /\ Received' \subseteq Received
    BY <1>1, <1>2, UpdateTakes DEF G7Inv, BufferInv, Received
  <2>2. CommandInv'
    BY <1>1, <1>2 DEF G7Inv, CommandInv, DrivenOnlyWhenActive
  <2> QED BY <1>1, <2>1, <2>2, OutsideKept DEF G7Inv
<1>3. CASE UNCHANGED <<policy_buffer_, active_policy_, command>>
  <2>1. BufferInv' /\ UNCHANGED Received
    BY <1>1, <1>3 DEF G7Inv, BufferInv, Received, policy_buffer_
  <2>2. CommandInv'
    BY <1>1, <1>3 DEF G7Inv, CommandInv, DrivenOnlyWhenActive
  <2> QED BY <1>1, <2>1, <2>2, OutsideKept DEF G7Inv
<1> QED BY <1>2, <1>3 DEF Update

\* A controller that is switched starts and ends with the command at zero.
LEMMA SwitchKeeps == G7Inv /\ Switch => G7Inv'
<1> SUFFICES ASSUME G7Inv, Switch PROVE G7Inv'
  OBVIOUS
<1>1. /\ phase = "write" /\ phase' = "write"
      /\ UNCHANGED <<policyTopic, resetRequests, outside, callback, newest, driven, rtData,
                     nonRtData, newData, reset_requested_>>
      /\ active_policy_' \in {active_policy_, NoPolicy}
      /\ \/ command' = Zero
         \/ UNCHANGED <<command, policyController>>
  BY DEF Switch, Activate, Deactivate, ActivateBroadcaster, channels, receiver,
         policy_buffer_, outside, coordinator
<1>2. Received' \subseteq Received \cup {NoPolicy}
  BY <1>1 DEF Received, Zero
<1>3. BufferInv'
  BY <1>1 DEF G7Inv, BufferInv
<1>4. CommandInv'
  BY <1>1 DEF G7Inv, CommandInv, DrivenOnlyWhenActive
<1> QED BY <1>1, <1>2, <1>3, <1>4, OutsideKept DEF G7Inv

LEMMA WriteKeeps == G7Inv /\ Write => G7Inv'
<1> SUFFICES ASSUME G7Inv, Write PROVE G7Inv'
  OBVIOUS
<1>1. /\ driven' = command
      /\ UNCHANGED <<policyTopic, resetRequests, outside, callback, newest, rtData, nonRtData,
                     newData, active_policy_, command, policyController, reset_requested_>>
  BY DEF Write, channels, receiver, policy_buffer_, lifecycle, outside, coordinator
<1>2. Received' \subseteq Received
  BY <1>1 DEF Received
<1>3. BufferInv'
  BY <1>1 DEF G7Inv, BufferInv
<1>4. ~reset_requested_ => command = Zero
  BY DEF G7Inv, QuietInv, Received, Zero
<1>5. CommandInv'
  BY <1>1, <1>4 DEF G7Inv, CommandInv, DrivenOnlyWhenActive
<1> QED BY <1>1, <1>2, <1>3, <1>5, OutsideKept DEF G7Inv

LEMMA CallbackKeeps == G7Inv /\ (TakePolicy \/ StorePolicy) => G7Inv'
<1> SUFFICES ASSUME G7Inv, TakePolicy \/ StorePolicy PROVE G7Inv'
  OBVIOUS
<1>1. UNCHANGED <<resetRequests, outside, active_policy_, command, driven, phase,
                  policyController, reset_requested_>>
  BY DEF TakePolicy, StorePolicy, channels, control, lifecycle, outside, coordinator
<1>2. CommandInv'
  BY <1>1 DEF G7Inv, CommandInv, DrivenOnlyWhenActive
<1>3. CASE TakePolicy
  <2>1. UNCHANGED <<newest, rtData, nonRtData, newData>>
    BY <1>3 DEF TakePolicy, policy_buffer_
  <2>2. BufferInv' /\ ResetInv'
    BY <1>1, <2>1, OutsideKept DEF G7Inv, BufferInv
  <2>3. reset_requested_
    BY <1>3 DEF TakePolicy, CanTake, Empty, G7Inv, QuietInv
  <2>4. QuietInv'
    BY <1>1, <2>3 DEF QuietInv
  <2> QED BY <1>2, <2>2, <2>4 DEF G7Inv
<1>4. CASE StorePolicy
  <2>1. /\ callback # NoPolicy /\ nonRtData' = callback /\ newData' = TRUE
        /\ newest' = callback /\ callback' = NoPolicy /\ UNCHANGED <<rtData, policyTopic>>
    BY <1>4 DEF StorePolicy, channels
  <2>2. BufferInv'
    BY <2>1 DEF BufferInv
  <2>3. Received' \subseteq Received \cup {NoPolicy}
    BY <1>1, <2>1 DEF Received
  <2> QED BY <1>1, <1>2, <2>1, <2>2, <2>3, OutsideKept DEF G7Inv
<1> QED BY <1>3, <1>4

-----------------------------------------------------------------------------
(* The coordinator and the MPC node.                                       *)

\* The first observation with the service there makes the one request.
LEMMA RequestKeeps == G7Inv /\ ObservationCallback => G7Inv'
<1> SUFFICES ASSUME G7Inv, ObservationCallback PROVE G7Inv'
  OBVIOUS
<1>1. /\ ~reset_requested_ /\ ~reset_completed_
      /\ UNCHANGED <<policyTopic, executor, resetRequestedEver_, epoch, response, callback,
                     newest, rtData, nonRtData, newData, active_policy_, command, driven,
                     phase, policyController, reset_completed_>>
      /\ UNCHANGED <<Computed, Received>>
  BY DEF ObservationCallback, mpcVars, policy_buffer_, receiver, control, lifecycle,
         Computed, Received
<1>2. BufferInv' /\ CommandInv'
  BY <1>1 DEF G7Inv, BufferInv, CommandInv, DrivenOnlyWhenActive
<1>3. resetRequests = 0 /\ epoch = 0 /\ executor = "spin" /\ response = "none"
  BY <1>1 DEF G7Inv, QuietInv
<1>4. \/ resetRequests' = 1 /\ reset_requested_' = TRUE
      \/ UNCHANGED <<resetRequests, reset_requested_>>
  BY <1>3 DEF ObservationCallback
<1>5. QuietInv' /\ ResetInv'
  BY <1>1, <1>3, <1>4 DEF G7Inv, QuietInv, ResetInv, Count
<1> QED BY <1>2, <1>5 DEF G7Inv

LEMMA ResponseKeeps == G7Inv /\ ResetResponse => G7Inv'
<1> SUFFICES ASSUME G7Inv, ResetResponse PROVE G7Inv'
  OBVIOUS
<1>1. /\ response = "sent" /\ response' = "none" /\ reset_completed_' = TRUE
      /\ UNCHANGED <<resetRequests, policyTopic, executor, resetRequestedEver_, epoch,
                     callback, newest, rtData, nonRtData, newData, active_policy_, command,
                     driven, phase, policyController, reset_requested_>>
      /\ UNCHANGED <<Computed, Received>>
  BY DEF ResetResponse, channels, mpcVars, policy_buffer_, receiver, control, lifecycle,
         Computed, Received
<1>2. BufferInv' /\ CommandInv'
  BY <1>1 DEF G7Inv, BufferInv, CommandInv, DrivenOnlyWhenActive
<1>3. reset_requested_
  BY <1>1 DEF G7Inv, QuietInv
<1>4. QuietInv' /\ ResetInv'
  BY <1>1, <1>3 DEF G7Inv, QuietInv, ResetInv, Count
<1> QED BY <1>2, <1>4 DEF G7Inv

\* The main thread of the MPC node moves only after a reset was asked for.
LEMMA MpcMainKeeps == G7Inv /\ MpcMain => G7Inv'
<1> SUFFICES ASSUME G7Inv, MpcMain PROVE G7Inv'
  OBVIOUS
<1>1. /\ BufferInv' /\ CommandInv' /\ Answer /\ Mpc!MainStep
      /\ UNCHANGED <<Received, reset_requested_, reset_completed_>>
  BY RobotKept DEF MpcMain
<1>2. CASE Mpc!ObservationCallback
  <2>1. /\ executor = "spin" /\ executor' # "unready"
        /\ UNCHANGED <<policyTopic, resetRequests, resetRequestedEver_, epoch, Computed>>
        /\ resetRequestedEver_ \/ UNCHANGED executor
    BY <1>2 DEF Mpc!ObservationCallback, Mpc!solver, Mpc!store, Computed
  <2>2. UNCHANGED response
    BY <1>1, <2>1 DEF Answer
  <2>3. QuietInv' /\ ResetInv'
    BY <1>1, <2>1, <2>2 DEF G7Inv, QuietInv, ResetInv, Count
  <2> QED BY <1>1, <2>3 DEF G7Inv
<1>3. CASE Mpc!ResetCallback
  <2>1. /\ executor = "spin" /\ executor' = "unready" /\ resetRequests > 0
        /\ resetRequests' = resetRequests - 1 /\ epoch' = epoch + 1
    BY <1>3 DEF Mpc!ResetCallback
  <2>2. UNCHANGED response
    BY <1>1, <2>1 DEF Answer
  <2>3. reset_requested_
    BY <2>1 DEF G7Inv, QuietInv
  <2>4. epoch \in Nat /\ resetRequests \in Nat
    BY DEF G7Inv, ResetInv
  <2>5. ResetInv'
    BY <1>1, <2>1, <2>2, <2>4 DEF G7Inv, ResetInv, Count
  <2> QED BY <1>1, <2>3, <2>5 DEF G7Inv, QuietInv
<1>4. CASE Mpc!RunMpc \/ Mpc!CopyToBuffer \/ Mpc!Signal \/ Mpc!ResetFlags \/ Mpc!Join
  <2>1. /\ executor # "spin" /\ executor' # "unready"
        /\ UNCHANGED <<resetRequests, epoch>>
    BY <1>4
       DEF Mpc!RunMpc, Mpc!CopyToBuffer, Mpc!Signal, Mpc!ResetFlags, Mpc!Join,
           Mpc!channels, Mpc!solver
  <2>2. reset_requested_
    BY <2>1 DEF G7Inv, QuietInv
  <2>3. IF executor = "unready" THEN response' = "sent" ELSE UNCHANGED response
    BY <1>1, <2>1 DEF Answer
  <2>4. ResetInv'
    BY <1>1, <2>1, <2>3 DEF G7Inv, ResetInv, Count
  <2> QED BY <1>1, <2>2, <2>4 DEF G7Inv, QuietInv
<1> QED BY <1>1, <1>2, <1>3, <1>4 DEF Mpc!MainStep

\* Its worker has nothing to publish until then.
LEMMA MpcWorkerKeeps == G7Inv /\ MpcWorker => G7Inv'
<1> SUFFICES ASSUME G7Inv, MpcWorker PROVE G7Inv'
  OBVIOUS
<1>1. /\ BufferInv' /\ CommandInv' /\ Mpc!WorkerStep /\ UNCHANGED response
      /\ UNCHANGED <<Received, reset_requested_, reset_completed_>>
  BY RobotKept DEF MpcWorker
<1>2. UNCHANGED <<executor, resetRequestedEver_, epoch, resetRequests, solution>>
  BY <1>1
     DEF Mpc!WorkerStep, Mpc!WorkerTest, Mpc!WorkerLock, Mpc!WorkerSwap, Mpc!WorkerCrash,
         Mpc!WorkerPublish, Mpc!WorkerClear, Mpc!channels, Mpc!main, Mpc!solver
<1>3. Computed' = Computed
  BY <1>1, <1>2
     DEF Mpc!WorkerStep, Mpc!WorkerTest, Mpc!WorkerLock, Mpc!WorkerSwap, Mpc!WorkerCrash,
         Mpc!WorkerPublish, Mpc!WorkerClear, Mpc!store, Computed
<1>4. UNCHANGED policyTopic \/ publisher # NoPolicy
  BY <1>1
     DEF Mpc!WorkerStep, Mpc!WorkerTest, Mpc!WorkerLock, Mpc!WorkerSwap, Mpc!WorkerCrash,
         Mpc!WorkerPublish, Mpc!WorkerClear, Mpc!channels, NoPolicy
<1>5. QuietInv'
  BY <1>1, <1>2, <1>3, <1>4 DEF G7Inv, QuietInv, Computed
<1>6. ResetInv'
  BY <1>1, <1>2 DEF G7Inv, ResetInv
<1> QED BY <1>1, <1>5, <1>6 DEF G7Inv

\* The request and the reset it has made die with the node, the answer does not.
LEMMA ProcessKeeps == G7Inv /\ (StartMpc \/ KillMpc) => G7Inv'
<1> SUFFICES ASSUME G7Inv, StartMpc \/ KillMpc PROVE G7Inv'
  OBVIOUS
<1>1. /\ UNCHANGED <<policyTopic, response, callback, newest, rtData, nonRtData, newData,
                     active_policy_, command, driven, phase, policyController,
                     reset_requested_, reset_completed_>>
      /\ UNCHANGED Received
  BY DEF StartMpc, KillMpc, channels, coordinator, policy_buffer_, receiver, control,
         lifecycle, Received
<1>2. BufferInv' /\ CommandInv'
  BY <1>1 DEF G7Inv, BufferInv, CommandInv, DrivenOnlyWhenActive
<1>3. \/ UNCHANGED <<resetRequests, epoch, executor, resetRequestedEver_, Computed>>
      \/ /\ resetRequests' = 0 /\ epoch' = 0 /\ executor' = "spin"
         /\ resetRequestedEver_' = FALSE /\ Computed' = {NoPolicy}
  BY DEF StartMpc, KillMpc, channels, mpcVars, Computed
<1>4. QuietInv'
  BY <1>1, <1>3 DEF G7Inv, QuietInv, Received
<1>5. ResetInv'
  BY <1>1, <1>3 DEF G7Inv, ResetInv, Count
<1> QED BY <1>2, <1>4, <1>5 DEF G7Inv

LEMMA DeliveryKeeps == G7Inv /\ (DeliverObservation \/ DeliverPolicy) => G7Inv'
<1> SUFFICES ASSUME G7Inv, DeliverObservation \/ DeliverPolicy PROVE G7Inv'
  OBVIOUS
<1>1. /\ BufferInv' /\ CommandInv' /\ UNCHANGED <<resetRequests, mpcVars, response>>
      /\ UNCHANGED <<Received, reset_requested_, reset_completed_>>
  BY RobotKept DEF DeliverObservation, DeliverPolicy
<1>2. UNCHANGED <<executor, resetRequestedEver_, epoch, Computed>>
  BY <1>1 DEF mpcVars, Computed
<1>3. UNCHANGED policyTopic \/ policyTopic # Empty
  BY DEF DeliverObservation, DeliverPolicy, CanDeliver, Empty
<1>4. QuietInv' /\ ResetInv'
  BY <1>1, <1>2, <1>3 DEF G7Inv, QuietInv, ResetInv
<1> QED BY <1>1, <1>4 DEF G7Inv

LEMMA G7Inductive == G7Inv /\ [Next]_vars => G7Inv'
<1> SUFFICES ASSUME G7Inv, [Next]_vars PROVE G7Inv'
  OBVIOUS
<1>1. CASE UNCHANGED vars
  <2>1. /\ BufferInv' /\ CommandInv' /\ UNCHANGED <<resetRequests, policyTopic, outside>>
        /\ UNCHANGED Received
    BY <1>1, RobotKept
       DEF vars, robot, channels, outside
  <2> QED BY <2>1, OutsideKept DEF G7Inv
<1>2. CASE Next
  BY <1>2, UpdateKeeps, WriteKeeps, SwitchKeeps, CallbackKeeps, RequestKeeps,
     ResponseKeeps, MpcMainKeeps, MpcWorkerKeeps, ProcessKeeps, DeliveryKeeps
     DEF Next
<1> QED BY <1>1, <1>2

-----------------------------------------------------------------------------
(* The theorems.                                                           *)

THEOREM G7Invariance == Spec => []G7Inv
BY G7Initial, G7Inductive, PTL DEF Spec

\* No policy drives the simulation while the policy controller is inactive, nor
\* before the coordinator has asked for the reset, however the control thread,
\* the callback, the coordinator and the MPC node interleave.
THEOREM DrivenByActiveController == Spec => []DrivenOnlyWhenActive
<1>1. G7Inv => DrivenOnlyWhenActive
  BY DEF G7Inv, CommandInv
<1> QED BY <1>1, G7Invariance, PTL

\* One reset is asked for, and once it is completed none is pending, although
\* the MPC node may die before, while and after it serves it.
THEOREM OneReset == Spec => []ResetOnce
<1>1. G7Inv => ResetOnce
  <2> SUFFICES ASSUME G7Inv PROVE ResetOnce
    OBVIOUS
  <2>1. epoch \in Nat /\ resetRequests \in Nat /\ epoch + resetRequests <= 1
    BY DEF G7Inv, ResetInv
  <2>2. reset_completed_ => resetRequests = 0 /\ response = "none"
    BY <2>1 DEF G7Inv, ResetInv, Count
  <2> QED BY <2>1, <2>2 DEF ResetOnce
<1> QED BY <1>1, G7Invariance, PTL

\* An update that gets the lock uses what the callback stored last.
THEOREM NewestIsUsed == Spec => UsesNewest
<1>1. ASSUME G7Inv, [Next]_vars
      PROVE  [/\ phase = "update" /\ phase' = "write"
              /\ policyController = "active" /\ callback = NoPolicy
              => active_policy_' = newest]_vars
  <2> SUFFICES ASSUME Next, phase = "update", phase' = "write",
                      policyController = "active", callback = NoPolicy
               PROVE  active_policy_' = newest
    BY <1>1
  <2>1. CASE Update
    <3>1. UpdatePolicyController
      BY <2>1 DEF Update
    <3> QED BY <1>1, <3>1, UpdateTakes
  <2>2. CASE ~Update
    BY <2>2
       DEF Next, Write, Switch, Activate, Deactivate, ActivateBroadcaster, TakePolicy,
           StorePolicy, ObservationCallback, ResetResponse, MpcMain, MpcWorker, StartMpc,
           KillMpc, DeliverObservation, DeliverPolicy, robot, control
  <2> QED BY <2>1, <2>2
<1> QED BY <1>1, G7Invariance, PTL DEF Spec, UsesNewest

=============================================================================
