------------------------------ MODULE DummyLoop ------------------------------
(***************************************************************************)
(* The tracking loop that simulates the robot                              *)
(* (robotics/ocs2_ros_interfaces/src/mrt/MRT_ROS_Dummy_Loop.cpp), the user *)
(* of an MRT node: it resets the MPC node, repeats the initial observation *)
(* until a policy arrives, and then simulates step by step, synchronized   *)
(* with the MPC (a new policy every mpcUpdateRatio steps) or in real time. *)
(*                                                                         *)
(* Time is counted in simulation steps from the initial observation, so    *)
(* that currentObservation.time and loopCounter are one number.  A policy  *)
(* belongs to an observation if their times differ by no more than         *)
(* 0.1 / mpcDesiredFrequency_, a tenth of the mpcUpdateRatio steps between *)
(* two observations that the synchronized loop sends: only if the policy   *)
(* was computed for this observation.                                      *)
(***************************************************************************)
EXTENDS MrtRosNode

CONSTANTS
    MaxTime,        \* bound on the steps of a simulation
    MaxSessions,    \* bound on the runs of the tracking process
    Settings        \* the settings to be chosen from, each with its bounds

ASSUME LoopAssumption ==
    /\ MaxTime \in Nat
    /\ MaxSessions \in Nat \ {0}
    /\ Settings \subseteq [synchronized : BOOLEAN, mpcUpdateRatio : Nat \ {0},
                           maxTime : 0..MaxTime, maxSessions : 1..MaxSessions]

VARIABLES
    settings,
    loop,           \* where run() is
    currentTime     \* currentObservation.time

loopVars == <<settings, loop, currentTime>>

\* Whether mpcDesiredFrequency_ is positive.
synchronized == settings.synchronized

LoopInit ==
    /\ settings \in Settings
    /\ loop = "reset" /\ currentTime = 0

\* The loop moves on to pc without simulating.
Goto(pc) == loop' = pc /\ UNCHANGED currentTime

-----------------------------------------------------------------------------
(* run(): the reset and the initial policy.                                *)

Reset ==
    /\ loop = "reset"
    /\ ResetMpcNode
    /\ Goto("initial")

InitialSpin ==
    /\ loop = "initial" /\ ~received
    /\ SpinMrt
    /\ Goto("send_initial")

\* Mutant: the initial observation is sent once.
InitialSend_Once ==
    /\ loop = "send_initial"
    /\ IF {mpcObservationMsg_, mpcObservationMsgBuffer_} = {NoObservation}
       THEN SetCurrentObservation(0)
       ELSE UNCHANGED vars
    /\ Goto("initial")

InitialSend ==
    /\ loop = "send_initial"
    /\ SetCurrentObservation(0)
    /\ Goto("initial")

\* Mutant: the loop starts as soon as the observation has been sent.
InitialReceived_Anyway ==
    /\ loop = "initial"
    /\ mpcObservationMsgBuffer_ # NoObservation
    /\ Goto("spin")
    /\ UNCHANGED vars

InitialReceived ==
    /\ loop = "initial" /\ received
    /\ Goto("spin")
    /\ UNCHANGED vars

-----------------------------------------------------------------------------
(* One pass of synchronizedDummyLoop() or realtimeDummyLoop().             *)

policyIsDue == currentTime % settings.mpcUpdateRatio = 0

Spin ==
    /\ loop = "spin" /\ currentTime < settings.maxTime
    /\ SpinMrt
    /\ Goto(IF ~synchronized THEN "update"
            ELSE IF policyIsDue THEN "await" ELSE "simulate")

\* realtimeDummyLoop(): the policy is updated if a new one was received.
Update ==
    /\ loop = "update"
    /\ IF latest # NoPolicy THEN UpdatePolicy ELSE UNCHANGED vars
    /\ Goto("simulate")

\* Mutant: any new policy will do, as in the real-time loop.
Await_AnyPolicy ==
    /\ loop = "await"
    /\ IF latest # NoPolicy THEN UpdatePolicy ELSE UNCHANGED vars
    /\ Goto(IF latest # NoPolicy THEN "simulate" ELSE "spin_again")

\* policyUpdatedForTime(): the update takes whatever policy has been received,
\* and the loop goes on if it starts at the current time.
Await ==
    /\ loop = "await"
    /\ IF latest # NoPolicy THEN UpdatePolicy ELSE UNCHANGED vars
    /\ Goto(IF latest # NoPolicy /\ latest.time = currentTime
            THEN "simulate" ELSE "spin_again")

SpinAgain ==
    /\ loop = "spin_again"
    /\ SpinMrt
    /\ Goto("await")

\* forwardSimulation() and modifyObservation().
Simulate ==
    /\ loop = "simulate"
    /\ currentTime' = currentTime + 1
    /\ loop' = "send"
    /\ UNCHANGED vars

\* The synchronized loop sends the observation for which it will want a policy.
Send ==
    /\ loop = "send"
    /\ IF synchronized /\ ~policyIsDue
       THEN UNCHANGED vars
       ELSE SetCurrentObservation(currentTime)
    /\ Goto(IF synchronized THEN "spin_last" ELSE "spin")

SpinLast ==
    /\ loop = "spin_last"
    /\ SpinMrt
    /\ Goto("spin")

LoopStep ==
    /\ \/ Reset \/ InitialSpin \/ InitialSend \/ InitialReceived
       \/ Spin \/ Update \/ Await \/ SpinAgain \/ Simulate \/ Send \/ SpinLast
    /\ UNCHANGED settings

=============================================================================
