----------------------------- MODULE MrtClient ------------------------------
(***************************************************************************)
(* The MRT node with a user of its own: every order of calls the class     *)
(* allows, observations set in the order of their time, against a topic    *)
(* on which any policy may arrive.                                         *)
(***************************************************************************)
EXTENDS MrtRosNode

VARIABLES
    lastSet,    \* the last observation the user has set, and
    lastSent    \* the last one published

clientVars == <<vars, lastSet, lastSent>>

Init ==
    /\ NodeInit
    /\ obsTopic = Empty /\ policyTopic = Empty /\ resetRequests = 0
    /\ lastSet = NoObservation /\ lastSent = NoObservation

NotOlder(s, t) == t = NoObservation \/ (s # NoObservation /\ s >= t)

SetNext ==
    \E t \in Observation :
        /\ ~NotOlder(lastSet, t)
        /\ SetCurrentObservation(t)
        /\ lastSet' = t
        /\ UNCHANGED lastSent

ResetOnce == resetRequests = 0 /\ ResetMpcNode

Send == WorkerPublish /\ lastSent' = mpcObservationMsgBuffer_ /\ UNCHANGED lastSet

MpcNode ==
    /\ \/ \E p \in Policy : policyTopic' = Published(policyTopic, p)
       \/ CanDeliver(policyTopic) /\ policyTopic' = Delivered(policyTopic)
    /\ UNCHANGED <<obsTopic, resetRequests, nodeVars, lastSet, lastSent>>

Next ==
    \/ SetNext
    \/ Send
    \/ (\/ SpinMrt \/ UpdatePolicy \/ ResetOnce \/ Shutdown \/ Join
        \/ WorkerTest \/ WorkerWait \/ WorkerMove \/ WorkerSpuriousWakeup)
       /\ UNCHANGED <<lastSet, lastSent>>
    \/ MpcNode

Spec == Init /\ [][Next]_clientVars

\* The worker thread is scheduled and the destructor gets on with its join;
\* nothing obliges the user to call, the MPC to answer or a wait to end by
\* itself.
FairSpec ==
    /\ Spec
    /\ WF_clientVars(\/ Send
                     \/ (WorkerTest \/ WorkerWait \/ WorkerMove)
                        /\ UNCHANGED <<lastSet, lastSent>>)
    /\ WF_clientVars(Join /\ UNCHANGED <<lastSet, lastSent>>)

-----------------------------------------------------------------------------
(* Correctness.                                                            *)

TypeOK ==
    /\ Buffer!TypeOK
    /\ obsTopic \in Topics(Observation)
    /\ policyTopic \in Topics(Policy)
    /\ resetRequests \in Nat
    /\ {mpcObservationMsg_, mpcObservationMsgBuffer_, lastSet, lastSent}
          \subseteq Observation \cup {NoObservation}
    /\ readyToPublish_ \in BOOLEAN /\ terminateThread_ \in BOOLEAN
    /\ worker \in {"test", "lock", "waiting", "publish", "exited"}
    /\ user \in {"free", "join", "gone"}

\* A raised flag stands for a message that was not moved away, and that is the
\* last one set (MRT_ROS_Interface.cpp:82-88, 108-110).
FlagMeansMessage ==
    /\ readyToPublish_ <=> mpcObservationMsg_ # NoObservation
    /\ readyToPublish_ => mpcObservationMsg_ = lastSet

\* Neither the overwriting of the message nor the publication outside the
\* mutex reorders the observations, and an observation is sent once
\* (MRT_ROS_Interface.cpp:108-115).
SendsInOrder ==
    [][Send => NotOlder(lastSent', lastSent) /\ lastSent' # lastSent]_clientVars

\* The last observation set is published, or a newer one is, unless the node
\* is shut down: no wake-up is lost between the test of the predicate and the
\* wait (MRT_ROS_Interface.cpp:88-90, 97-101).
LastObservationIsSent ==
    \A t \in Observation :
        lastSet = t ~> NotOlder(lastSent, t) \/ terminateThread_

\* The destructor joins the worker wherever it is (MRT_ROS_Interface.cpp:230-240).
ShutdownReturns == user = "join" ~> user = "gone"

\* initialPolicyReceived() is true exactly when the loops can count on a policy:
\* one is active, or waits for the next update
\* (MRT_ROS_Dummy_Loop.cpp:63, 111 and 158 count on it).
ReceivedMeansPolicy == received <=> {active, latest} # {NoPolicy}
=============================================================================
