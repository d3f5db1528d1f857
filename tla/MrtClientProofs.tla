-------------------------- MODULE MrtClientProofs ---------------------------
(***************************************************************************)
(* Proofs about the MRT node (MrtClient), for any set of observations and  *)
(* policies: its state keeps its types, a raised flag stands for the last  *)
(* observation set, policyReceivedEver_ for a policy that is there, and    *)
(* observations are sent at most once and in the order they were set.      *)
(***************************************************************************)
EXTENDS MrtClient, TLAPS

\* s is an observation, and a newer one than t if that is one.
Newer(s, t) == s # NoObservation /\ (t = NoObservation \/ s > t)

\* What has been sent, what is being sent and what waits to be sent follow each
\* other in this order, and none is newer than what was set last.
InOrder ==
    /\ NotOlder(lastSet, lastSent)
    /\ readyToPublish_ => Newer(mpcObservationMsg_, lastSent)
    /\ worker = "publish" =>
          /\ Newer(mpcObservationMsgBuffer_, lastSent)
          /\ NotOlder(lastSet, mpcObservationMsgBuffer_)
          /\ readyToPublish_ => Newer(mpcObservationMsg_, mpcObservationMsgBuffer_)

ClientInv == TypeOK /\ FlagMeansMessage /\ ReceivedMeansPolicy /\ InOrder

-----------------------------------------------------------------------------
(* Topics.                                                                 *)

\* A topic carries messages of one type, whatever is done with it.
LEMMA TopicTyping ==
    ASSUME NEW M, NEW topic \in Topics(M)
    PROVE  /\ \A m \in M : Published(topic, m) \in Topics(M)
           /\ Delivered(topic) \in Topics(M)
           /\ Taken(topic) \in Topics(M)
           /\ CanTake(topic) => Message(topic) \in M
<1>1. \A m \in M : Published(topic, m) \in Topics(M)
  BY DEF Topics, Published
<1>2. Delivered(topic) \in Topics(M)
  BY DEF Topics, Delivered
<1>3. Taken(topic) \in Topics(M)
  BY DEF Topics, Taken
<1>4. CanTake(topic) => Message(topic) \in M
  BY DEF Topics, CanTake, Message
<1> QED BY <1>1, <1>2, <1>3, <1>4

\* A topic starts out empty.
LEMMA EmptyTyping == \A M : Empty \in Topics(M)
BY DEF Empty, Topics

-----------------------------------------------------------------------------
(* The order of observations, the missing one being older than any.        *)

MaybeObservation == Observation \cup {NoObservation}

\* The newer of two is not the older.
LEMMA NewerIsLater ==
    \A s, t \in MaybeObservation : Newer(s, t) => NotOlder(s, t) /\ s # t
<1> SUFFICES ASSUME NEW s \in MaybeObservation, NEW t \in MaybeObservation, Newer(s, t)
             PROVE  NotOlder(s, t) /\ s # t
  OBVIOUS
<1>1. s \in Nat
  BY ObservationAssumption DEF MaybeObservation, Newer
<1>2. CASE t = NoObservation
  BY <1>2 DEF Newer, NotOlder
<1>3. CASE t \in Nat
  BY <1>1, <1>3 DEF Newer, NotOlder
<1> QED BY <1>2, <1>3, ObservationAssumption DEF MaybeObservation

\* What is newer than the last is newer than all before.
LEMMA NewerThanAll ==
    \A r, s \in MaybeObservation, t \in Observation :
        ~NotOlder(s, t) /\ NotOlder(s, r) => Newer(t, r)
<1> SUFFICES ASSUME NEW r \in MaybeObservation, NEW s \in MaybeObservation, NEW t \in Observation,
                    ~NotOlder(s, t), NotOlder(s, r)
             PROVE  Newer(t, r)
  OBVIOUS
<1>1. t \in Nat /\ t # NoObservation
  BY ObservationAssumption
<1>2. CASE r = NoObservation
  BY <1>1, <1>2 DEF Newer
<1>3. CASE r \in Observation /\ s \in Observation
  <2>1. r \in Nat /\ s \in Nat /\ r # NoObservation /\ s # NoObservation
    BY <1>3, ObservationAssumption
  <2>2. s >= r /\ ~(s >= t)
    BY <2>1, <1>1 DEF NotOlder
  <2>3. t > r
    BY <2>1, <2>2, <1>1
  <2> QED BY <2>3, <1>1 DEF Newer
<1>4. CASE r \in Observation /\ s = NoObservation
  BY <1>4, ObservationAssumption DEF NotOlder
<1> QED BY <1>2, <1>3, <1>4 DEF MaybeObservation

-----------------------------------------------------------------------------
(* The invariant.                                                          *)

LEMMA ClientInitial == Init => ClientInv
<1> SUFFICES ASSUME Init PROVE ClientInv
  OBVIOUS
<1> USE ObservationAssumption, NoPolicyAssumption DEF Init, NodeInit, Buffer!Init
<1>1. TypeOK
  BY EmptyTyping DEF TypeOK, Buffer!TypeOK
<1>2. FlagMeansMessage /\ ReceivedMeansPolicy
  BY DEF FlagMeansMessage, ReceivedMeansPolicy
<1>3. InOrder
  BY DEF InOrder, NotOlder
<1> QED BY <1>1, <1>2, <1>3 DEF ClientInv

\* Steps that touch neither the messages nor the place of a sending worker.
LEMMA OrderKept ==
    ASSUME InOrder, FlagMeansMessage, UNCHANGED <<messages, lastSet, lastSent>>,
           worker' = worker \/ worker' # "publish"
    PROVE  InOrder' /\ FlagMeansMessage'
BY DEF InOrder, FlagMeansMessage, messages, NotOlder, Newer

\* Steps that leave the policy buffer alone.
LEMMA ReceivedKept ==
    ASSUME ReceivedMeansPolicy, UNCHANGED buffers
    PROVE  ReceivedMeansPolicy'
BY DEF ReceivedMeansPolicy, buffers

\* The user's calls and the callback they run.
LEMMA UserKeeps ==
    ASSUME ClientInv,
           \/ SpinMrt \/ UpdatePolicy \/ ResetOnce \/ Shutdown \/ Join,
           UNCHANGED <<lastSet, lastSent>>
    PROVE  ClientInv'
<1> USE ObservationAssumption, NoPolicyAssumption DEF ClientInv
<1>1. CASE SpinMrt
  <2>1. CanTake(policyTopic) =>
            Message(policyTopic) \in Policy /\ Taken(policyTopic) \in Topics(Policy)
    BY TopicTyping DEF TypeOK
  <2>2. TypeOK'
    BY <1>1, <2>1 DEF SpinMrt, TypeOK, Buffer!TypeOK, Buffer!Put, buffers, messages
  <2>3. ReceivedMeansPolicy'
    BY <1>1, <2>1 DEF SpinMrt, ReceivedMeansPolicy, Buffer!Put, buffers
  <2>4. InOrder' /\ FlagMeansMessage'
    BY <1>1, OrderKept DEF SpinMrt
  <2> QED BY <2>2, <2>3, <2>4
<1>2. CASE UpdatePolicy
  <2>1. TypeOK'
    BY <1>2 DEF UpdatePolicy, TypeOK, Buffer!TypeOK, Buffer!Take, channels, messages
  <2>2. ReceivedMeansPolicy'
    BY <1>2 DEF UpdatePolicy, ReceivedMeansPolicy, Buffer!Take
  <2>3. InOrder' /\ FlagMeansMessage'
    BY <1>2, OrderKept DEF UpdatePolicy
  <2> QED BY <2>1, <2>2, <2>3
<1>3. CASE ResetOnce
  <2>1. TypeOK'
    <3>1. resetRequests' \in Nat
      BY <1>3 DEF ResetOnce, ResetMpcNode, TypeOK
    <3> QED
      BY <1>3, <3>1
         DEF ResetOnce, ResetMpcNode, TypeOK, Buffer!TypeOK, Buffer!Clear, messages
  <2>2. ReceivedMeansPolicy'
    BY <1>3 DEF ResetOnce, ResetMpcNode, ReceivedMeansPolicy, Buffer!Clear
  <2>3. InOrder' /\ FlagMeansMessage'
    BY <1>3, OrderKept DEF ResetOnce, ResetMpcNode
  <2> QED BY <2>1, <2>2, <2>3
<1>4. CASE Shutdown
  <2>1. TypeOK'
    BY <1>4 DEF Shutdown, TypeOK, Buffer!TypeOK, buffers, channels, messages
  <2>2. InOrder' /\ FlagMeansMessage' /\ ReceivedMeansPolicy'
    BY <1>4, OrderKept, ReceivedKept DEF Shutdown
  <2> QED BY <2>1, <2>2
<1>5. CASE Join
  <2>1. TypeOK'
    BY <1>5 DEF Join, TypeOK, Buffer!TypeOK, buffers, channels, messages
  <2>2. InOrder' /\ FlagMeansMessage' /\ ReceivedMeansPolicy'
    BY <1>5, OrderKept, ReceivedKept DEF Join
  <2> QED BY <2>1, <2>2
<1> QED BY <1>1, <1>2, <1>3, <1>4, <1>5

\* An observation set is newer than every one before it.
LEMMA SetKeeps == ClientInv /\ SetNext => ClientInv'
<1> SUFFICES ASSUME ClientInv, SetNext PROVE ClientInv'
  OBVIOUS
<1> USE ObservationAssumption DEF ClientInv
<1> PICK t \in Observation : /\ ~NotOlder(lastSet, t)
                             /\ SetCurrentObservation(t)
                             /\ lastSet' = t /\ UNCHANGED lastSent
  BY DEF SetNext
<1>1. TypeOK'
  BY DEF TypeOK, SetCurrentObservation, Buffer!TypeOK, buffers, channels
<1>2. FlagMeansMessage'
  BY DEF FlagMeansMessage, SetCurrentObservation
<1>3. Newer(t, lastSent) /\ NotOlder(t, lastSent)
  <2>1. lastSet \in MaybeObservation /\ lastSent \in MaybeObservation /\ t \in MaybeObservation
    BY DEF TypeOK, MaybeObservation
  <2> QED BY <2>1, NewerThanAll, NewerIsLater DEF InOrder
<1>4. worker = "publish" =>
          /\ Newer(t, mpcObservationMsgBuffer_)
          /\ NotOlder(t, mpcObservationMsgBuffer_)
  <2>1. /\ lastSet \in MaybeObservation /\ mpcObservationMsgBuffer_ \in MaybeObservation
        /\ t \in MaybeObservation
    BY DEF TypeOK, MaybeObservation
  <2> QED BY <2>1, NewerThanAll, NewerIsLater DEF InOrder
<1>5. InOrder'
  <2>1. /\ UNCHANGED <<lastSent, mpcObservationMsgBuffer_>>
        /\ lastSet' = t /\ mpcObservationMsg_' = t
        /\ worker' = "publish" => worker = "publish"
    BY DEF SetCurrentObservation
  <2> QED BY <1>3, <1>4, <2>1 DEF InOrder, Newer, NotOlder
<1>6. ReceivedMeansPolicy'
  BY ReceivedKept DEF SetCurrentObservation
<1> QED BY <1>1, <1>2, <1>5, <1>6

\* The worker moves the message and publishes it outside the mutex.
LEMMA WorkerKeeps ==
    ASSUME ClientInv,
           \/ Send
           \/ (WorkerTest \/ WorkerWait \/ WorkerMove \/ WorkerSpuriousWakeup)
              /\ UNCHANGED <<lastSet, lastSent>>
    PROVE  ClientInv'
<1> USE ObservationAssumption DEF ClientInv
<1>1. CASE Send
  <2>1. mpcObservationMsgBuffer_ \in Observation
    BY <1>1 DEF Send, WorkerPublish, TypeOK, InOrder, Newer
  <2>2. Published(obsTopic, mpcObservationMsgBuffer_) \in Topics(Observation)
    BY <2>1, TopicTyping DEF TypeOK
  <2>3. TypeOK'
    BY <1>1, <2>1, <2>2
       DEF Send, WorkerPublish, TypeOK, Buffer!TypeOK, buffers, messages
  <2>4. FlagMeansMessage' /\ ReceivedMeansPolicy'
    BY <1>1, ReceivedKept DEF Send, WorkerPublish, FlagMeansMessage, messages
  <2>5. InOrder'
    BY <1>1 DEF Send, WorkerPublish, InOrder, messages, NotOlder, Newer
  <2> QED BY <2>3, <2>4, <2>5
<1>2. CASE WorkerMove /\ UNCHANGED <<lastSet, lastSent>>
  <2>1. TypeOK'
    BY <1>2 DEF WorkerMove, TypeOK, Buffer!TypeOK, buffers, channels
  <2>2. FlagMeansMessage' /\ ReceivedMeansPolicy'
    BY <1>2, ReceivedKept DEF WorkerMove, FlagMeansMessage
  <2>3. NotOlder(lastSet, mpcObservationMsg_)
    <3>1. mpcObservationMsg_ = lastSet /\ lastSet \in Nat
      BY <1>2 DEF WorkerMove, FlagMeansMessage, TypeOK
    <3> QED BY <3>1 DEF NotOlder, FlagMeansMessage, WorkerMove
  <2>4. InOrder'
    BY <1>2, <2>3 DEF WorkerMove, InOrder, NotOlder, Newer
  <2> QED BY <2>1, <2>2, <2>4
<1>3. CASE (WorkerTest \/ WorkerWait \/ WorkerSpuriousWakeup)
           /\ UNCHANGED <<lastSet, lastSent>>
  <2>1. /\ UNCHANGED <<channels, buffers, messages, terminateThread_, user>>
        /\ worker' \in {"lock", "exited", "waiting"}
    BY <1>3 DEF WorkerTest, WorkerWait, WorkerSpuriousWakeup
  <2>2. TypeOK'
    BY <1>3, <2>1 DEF TypeOK, Buffer!TypeOK, buffers, channels, messages
  <2>3. InOrder' /\ FlagMeansMessage' /\ ReceivedMeansPolicy'
    BY <1>3, <2>1, OrderKept, ReceivedKept
  <2> QED BY <2>2, <2>3
<1> QED BY <1>1, <1>2, <1>3

\* The other end of the topics.
LEMMA MpcNodeKeeps == ClientInv /\ MpcNode => ClientInv'
<1> SUFFICES ASSUME ClientInv, MpcNode PROVE ClientInv'
  OBVIOUS
<1> USE DEF ClientInv
<1>1. policyTopic' \in Topics(Policy)
  BY TopicTyping DEF MpcNode, TypeOK
<1>2. TypeOK'
  BY <1>1 DEF MpcNode, TypeOK, Buffer!TypeOK, nodeVars, buffers, messages
<1>3. InOrder' /\ FlagMeansMessage' /\ ReceivedMeansPolicy'
  BY OrderKept, ReceivedKept DEF MpcNode, nodeVars
<1> QED BY <1>2, <1>3

LEMMA ClientStuttering == ClientInv /\ UNCHANGED clientVars => ClientInv'
<1> SUFFICES ASSUME ClientInv, UNCHANGED clientVars PROVE ClientInv'
  OBVIOUS
<1> USE DEF ClientInv, clientVars, vars, nodeVars
<1>1. TypeOK'
  BY DEF TypeOK, Buffer!TypeOK, buffers, channels, messages
<1>2. InOrder' /\ FlagMeansMessage' /\ ReceivedMeansPolicy'
  BY OrderKept, ReceivedKept
<1> QED BY <1>1, <1>2

LEMMA ClientInductive == ClientInv /\ [Next]_clientVars => ClientInv'
<1> SUFFICES ASSUME ClientInv, [Next]_clientVars PROVE ClientInv'
  OBVIOUS
<1>1. CASE SetNext
  BY <1>1, SetKeeps
<1>2. CASE \/ Send
           \/ (WorkerTest \/ WorkerWait \/ WorkerMove \/ WorkerSpuriousWakeup)
              /\ UNCHANGED <<lastSet, lastSent>>
  BY <1>2, WorkerKeeps
<1>3. CASE (SpinMrt \/ UpdatePolicy \/ ResetOnce \/ Shutdown \/ Join)
           /\ UNCHANGED <<lastSet, lastSent>>
  BY <1>3, UserKeeps
<1>4. CASE MpcNode
  BY <1>4, MpcNodeKeeps
<1>5. CASE UNCHANGED clientVars
  BY <1>5, ClientStuttering
<1> QED BY <1>1, <1>2, <1>3, <1>4, <1>5 DEF Next

-----------------------------------------------------------------------------
(* The theorems.                                                           *)

\* The state of the node keeps its types, with any observations and policies;
\* what is published on the topic is always an observation, and what the policy
\* buffer holds a policy or the null pointer.
THEOREM ClientInvariance == Spec => []ClientInv
BY ClientInitial, ClientInductive, PTL DEF Spec

\* A raised readyToPublish_ stands for the message set last, which has not been
\* moved away, whichever thread had the mutex last
\* (MRT_ROS_Interface.cpp:82-88, 108-110).
THEOREM FlagIsRight == Spec => []FlagMeansMessage
<1>1. ClientInv => FlagMeansMessage
  BY DEF ClientInv
<1> QED BY <1>1, ClientInvariance, PTL

\* initialPolicyReceived() can be relied on: there is a policy, active or
\* waiting for the next update (MRT_ROS_Dummy_Loop.cpp:63).
THEOREM ReceivedIsRight == Spec => []ReceivedMeansPolicy
<1>1. ClientInv => ReceivedMeansPolicy
  BY DEF ClientInv
<1> QED BY <1>1, ClientInvariance, PTL

\* Every observation published is newer than all published before
\* (MRT_ROS_Interface.cpp:108-115).
THEOREM SentInOrder == Spec => SendsInOrder
<1>1. ClientInv /\ [Next]_clientVars =>
          [Send => NotOlder(lastSent', lastSent) /\ lastSent' # lastSent]_clientVars
  <2> SUFFICES ASSUME ClientInv, Send
               PROVE  NotOlder(lastSent', lastSent) /\ lastSent' # lastSent
    OBVIOUS
  <2>1. Newer(mpcObservationMsgBuffer_, lastSent)
    BY DEF ClientInv, InOrder, Send, WorkerPublish
  <2>2. mpcObservationMsgBuffer_ \in MaybeObservation /\ lastSent \in MaybeObservation
    BY DEF ClientInv, TypeOK, MaybeObservation
  <2> QED BY <2>1, <2>2, NewerIsLater DEF Send
<1> QED BY <1>1, ClientInvariance, PTL DEF Spec, SendsInOrder

=============================================================================
