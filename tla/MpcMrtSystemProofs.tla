------------------------- MODULE MpcMrtSystemProofs -------------------------
(***************************************************************************)
(* Proofs about the tracking loop with its MPC node (MpcMrtSystem), for    *)
(* any bounds and settings. However often the tracking process is started  *)
(* anew, the loop never evaluates a policy it does not have: what reaches  *)
(* it over the topic is a policy because the MPC node publishes none       *)
(* before a reset, and the loop starts after one has been received. And a  *)
(* synchronized loop never runs ahead of the horizon of the MPC, because   *)
(* it goes on only with a policy for the period it is in.                  *)
(***************************************************************************)
EXTENDS MpcMrtSystem, Integers, TLAPS

Sent == 0..MaxTime
MaybePolicy == Policy \cup {Mpc!NullPolicy}

\* What is on its way between the two processes.
ChannelInv ==
    /\ obsTopic \in Topics(Sent) /\ policyTopic \in Topics(Policy)
    /\ resetRequests \in Nat

\* The MPC node computes policies for observations it has received, and only
\* after a reset; it has served no more resets than there have been sessions.
MpcInv ==
    /\ observation \in Sent /\ epoch \in Nat
    /\ {solution, buffer, publisher} \subseteq MaybePolicy
    /\ resetRequestedEver_ => epoch > 0
    /\ executor = "run" => resetRequestedEver_

\* The MRT node sends what was set, and has a policy if it says so.
ClientInv ==
    /\ readyToPublish_ => mpcObservationMsg_ \in Sent
    /\ worker = "publish" => mpcObservationMsgBuffer_ \in Sent
    /\ {active, latest} \subseteq Policy \cup {NoPolicy}
    /\ received => latest # NoPolicy \/ active # NoPolicy

\* The loop simulates only below its bound.
LoopInv ==
    /\ settings \in Settings /\ currentTime \in 0..settings.maxTime
    /\ loop \in {"update", "await", "spin_again", "simulate"} =>
          currentTime < settings.maxTime
    /\ session \in 1..MaxSessions

\* The first step, at time 0, waits for a policy and makes it the active one;
\* from then on there is one.
StartInv ==
    /\ SimulatesWithPolicy
    /\ loop \in {"reset", "initial", "send_initial"} => currentTime = 0
    /\ loop \in {"send", "spin_last"} \/ (loop = "spin" /\ currentTime > 0) =>
          active # NoPolicy

\* Each session asks for one reset.
ResetsInv ==
    /\ epoch + resetRequests <= session
    /\ loop = "reset" => epoch + resetRequests < session

SystemInv ==
    /\ ChannelInv /\ MpcInv /\ ClientInv /\ LoopInv /\ ResetsInv
    /\ StartInv

-----------------------------------------------------------------------------
(* Topics and constants.                                                   *)

\* A topic carries messages of one type, whatever is done with it.
LEMMA TopicTyping ==
    ASSUME NEW M, NEW topic \in Topics(M)
    PROVE  /\ \A m \in M : Published(topic, m) \in Topics(M)
           /\ Delivered(topic) \in Topics(M)
           /\ Taken(topic) \in Topics(M)
           /\ CanTake(topic) => Message(topic) \in M
<1>1. \A m \in M : Published(topic, m) \in Topics(M)
  BY DEF Topics, Published
<1>2. Delivered(topic) \in Topics(M)
  BY DEF Topics, Delivered
<1>3. Taken(topic) \in Topics(M)
  BY DEF Topics, Taken
<1>4. CanTake(topic) => Message(topic) \in M
  BY DEF Topics, CanTake, Message
<1> QED BY <1>1, <1>2, <1>3, <1>4

LEMMA EmptyTyping == \A M : Empty \in Topics(M)
BY DEF Empty, Topics

LEMMA ConstantTyping ==
    /\ Policy = [time : Sent, epoch : 1..MaxSessions]
    /\ NoPolicy \notin Policy
    /\ 0 \in Sent
    /\ \A s \in Settings : /\ s.maxTime \in 0..MaxTime
                           /\ s.maxSessions \in 1..MaxSessions
BY LoopAssumption, SystemAssumption, NoPolicyAssumption DEF Sent

-----------------------------------------------------------------------------
(* The invariant.                                                          *)

LEMMA SystemInitial == Init => SystemInv
<1> SUFFICES ASSUME Init PROVE SystemInv
  OBVIOUS
<1>1. ChannelInv
  BY EmptyTyping DEF Init, ChannelInv
<1>2. MpcInv
  BY ConstantTyping DEF Init, Mpc!NodeInit, MpcInv, MaybePolicy
<1>3. ClientInv
  BY DEF Init, NodeInit, Buffer!Init, ClientInv
<1>4. settings \in Settings /\ loop = "reset" /\ currentTime = 0 /\ session = 1
  BY DEF Init, LoopInit
<1>5. LoopInv
  BY <1>4, ConstantTyping, LoopAssumption DEF LoopInv
<1>6. ResetsInv
  BY <1>4 DEF Init, Mpc!NodeInit, ResetsInv
<1>7. StartInv
  BY <1>4 DEF StartInv, SimulatesWithPolicy
<1> QED BY <1>1, <1>2, <1>3, <1>5, <1>6, <1>7 DEF SystemInv

\* A step of the MPC node leaves the tracking process alone.
LEMMA MrtKept ==
    ASSUME SystemInv, UNCHANGED mrtVars
    PROVE  ClientInv' /\ LoopInv' /\ StartInv'
BY DEF SystemInv, ClientInv, LoopInv, StartInv, SimulatesWithPolicy, mrtVars, nodeVars,
       loopVars, buffers, messages

LEMMA MpcKeeps == SystemInv /\ (MpcStep \/ MpcWakeup) => SystemInv'
<1> SUFFICES ASSUME SystemInv, MpcStep \/ MpcWakeup PROVE SystemInv'
  OBVIOUS
<1>1. UNCHANGED mrtVars /\ ClientInv' /\ LoopInv' /\ StartInv'
  BY MrtKept DEF MpcStep, MpcWakeup
<1>2. UNCHANGED <<loop, session>>
  BY <1>1 DEF mrtVars, loopVars
<1> USE DEF SystemInv
<1>3. CASE Mpc!ObservationCallback
  <2>1. Taken(obsTopic) \in Topics(Sent) /\ Message(obsTopic) \in Sent
    BY <1>3, TopicTyping DEF Mpc!ObservationCallback, Mpc!CanTake, CanTake, ChannelInv
  <2>2. ChannelInv' /\ MpcInv'
    BY <1>3, <2>1
       DEF Mpc!ObservationCallback, Mpc!Taken, Mpc!Message, Taken, Message,
           ChannelInv, MpcInv, Mpc!solver, Mpc!store
  <2>3. ResetsInv'
    BY <1>2, <1>3 DEF Mpc!ObservationCallback, ResetsInv, Mpc!solver
  <2> QED BY <1>1, <2>2, <2>3
<1>4. CASE Mpc!RunMpc
  <2>1. [time |-> observation, epoch |-> epoch] \in Policy
    <3>1. epoch \in Nat /\ epoch > 0 /\ resetRequests \in Nat
      BY <1>4 DEF Mpc!RunMpc, MpcInv, ChannelInv
    <3>2. /\ epoch + resetRequests <= session /\ session \in 1..MaxSessions
          /\ MaxSessions \in Nat
      BY LoopAssumption DEF ResetsInv, LoopInv
    <3>3. epoch \in 1..MaxSessions
      BY <3>1, <3>2
    <3> QED BY <3>3, ConstantTyping DEF MpcInv
  <2>2. ChannelInv' /\ MpcInv'
    BY <1>4, <2>1
       DEF Mpc!RunMpc, ChannelInv, MpcInv, MaybePolicy, Mpc!channels, Mpc!store
  <2>3. ResetsInv'
    BY <1>2, <1>4 DEF Mpc!RunMpc, ResetsInv, Mpc!channels
  <2> QED BY <1>1, <2>2, <2>3
<1>5. CASE Mpc!ResetCallback
  <2>1. ChannelInv' /\ MpcInv'
    BY <1>5 DEF Mpc!ResetCallback, ChannelInv, MpcInv, Mpc!store
  <2>2. ResetsInv'
    <3>1. /\ resetRequests \in Nat /\ epoch \in Nat
          /\ resetRequests' = resetRequests - 1 /\ epoch' = epoch + 1
      BY <1>5 DEF Mpc!ResetCallback, ChannelInv, MpcInv
    <3>2. epoch' + resetRequests' = epoch + resetRequests
      BY <3>1
    <3> QED BY <1>2, <3>2 DEF ResetsInv
  <2> QED BY <1>1, <2>1, <2>2
<1>6. CASE Mpc!WorkerPublish
  <2>1. publisher \in Policy
    BY <1>6 DEF Mpc!WorkerPublish, MpcInv, MaybePolicy
  <2>2. policyTopic' \in Topics(Policy)
    BY <1>6, <2>1, TopicTyping
       DEF Mpc!WorkerPublish, Mpc!Published, Published, ChannelInv
  <2>3. ChannelInv' /\ MpcInv' /\ ResetsInv'
    BY <1>2, <1>6, <2>2
       DEF Mpc!WorkerPublish, ChannelInv, MpcInv, ResetsInv, Mpc!main, Mpc!solver,
           Mpc!store
  <2> QED BY <1>1, <2>3
<1>7. CASE Mpc!CopyToBuffer \/ Mpc!WorkerSwap
  <2>1. ChannelInv' /\ MpcInv' /\ ResetsInv'
    BY <1>2, <1>7
       DEF Mpc!CopyToBuffer, Mpc!WorkerSwap, ChannelInv, MpcInv, ResetsInv,
           Mpc!channels, Mpc!main, Mpc!solver
  <2> QED BY <1>1, <2>1
<1>8. CASE Mpc!Signal \/ Mpc!ResetFlags \/ Mpc!Join
  <2>1. ChannelInv' /\ MpcInv' /\ ResetsInv'
    BY <1>2, <1>8
       DEF Mpc!Signal, Mpc!ResetFlags, Mpc!Join, ChannelInv, MpcInv, ResetsInv,
           Mpc!channels, Mpc!solver, Mpc!store
  <2> QED BY <1>1, <2>1
<1>9. CASE \/ Mpc!WorkerTest \/ Mpc!WorkerLock \/ Mpc!WorkerCrash
           \/ Mpc!WorkerClear \/ Mpc!WorkerSpuriousWakeup
  <2>1. ChannelInv' /\ MpcInv' /\ ResetsInv'
    BY <1>2, <1>9
       DEF Mpc!WorkerTest, Mpc!WorkerLock, Mpc!WorkerCrash, Mpc!WorkerClear,
           Mpc!WorkerSpuriousWakeup, ChannelInv, MpcInv, ResetsInv,
           Mpc!channels, Mpc!main, Mpc!solver, Mpc!store
  <2> QED BY <1>1, <2>1
<1> QED
  BY <1>3, <1>4, <1>5, <1>6, <1>7, <1>8, <1>9
     DEF MpcStep, MpcWakeup, Mpc!MainStep, Mpc!WorkerStep

\* spinMRT() takes a policy from the topic, if there is one.
LEMMA SpinMrtKeeps ==
    ASSUME ChannelInv, ClientInv, SpinMrt
    PROVE  /\ ChannelInv' /\ ClientInv' /\ UNCHANGED <<active, resetRequests>>
           /\ latest # NoPolicy => latest' # NoPolicy
           /\ received => received'
<1>1. CanTake(policyTopic) =>
          /\ Message(policyTopic) \in Policy /\ Message(policyTopic) # NoPolicy
          /\ Taken(policyTopic) \in Topics(Policy)
  BY TopicTyping, ConstantTyping DEF ChannelInv
<1>2. CASE CanTake(policyTopic)
  BY <1>1, <1>2 DEF SpinMrt, Buffer!Put, ChannelInv, ClientInv, messages
<1>3. CASE ~CanTake(policyTopic)
  BY <1>3 DEF SpinMrt, ChannelInv, ClientInv, messages, buffers
<1> QED BY <1>2, <1>3

\* updatePolicy() with a policy waiting.
LEMMA UpdatePolicyKeeps ==
    ASSUME ChannelInv, ClientInv, UpdatePolicy
    PROVE  ChannelInv' /\ ClientInv' /\ active' # NoPolicy /\ UNCHANGED resetRequests
BY DEF UpdatePolicy, Buffer!Take, ChannelInv, ClientInv, channels, messages

\* setCurrentObservation().
LEMMA SetObservationKeeps ==
    ASSUME ChannelInv, ClientInv, NEW t \in Sent, SetCurrentObservation(t)
    PROVE  /\ ChannelInv' /\ ClientInv'
           /\ UNCHANGED <<active, latest, received, resetRequests>>
BY DEF SetCurrentObservation, ChannelInv, ClientInv, channels, buffers

\* A step that leaves the MRT node alone.
LEMMA NodeKept ==
    ASSUME ChannelInv, ClientInv, UNCHANGED vars
    PROVE  /\ ChannelInv' /\ ClientInv'
           /\ UNCHANGED <<active, latest, received, resetRequests>>
BY DEF vars, channels, nodeVars, buffers, messages, ChannelInv, ClientInv

LEMMA LoopKeeps == SystemInv /\ LoopNext => SystemInv'
<1> SUFFICES ASSUME SystemInv, LoopNext PROVE SystemInv'
  OBVIOUS
<1>1. UNCHANGED <<mpcVars, session, settings>> /\ MpcInv'
  BY DEF LoopNext, LoopStep, SystemInv, MpcInv, mpcVars
<1>2. /\ ChannelInv /\ ClientInv /\ LoopInv /\ ResetsInv /\ StartInv
      /\ UNCHANGED epoch /\ currentTime \in Nat /\ settings.maxTime \in 0..MaxTime
  <2>1. settings.maxTime \in 0..MaxTime /\ MaxTime \in Nat
    BY ConstantTyping, LoopAssumption DEF SystemInv, LoopInv
  <2>2. currentTime \in 0..settings.maxTime
    BY DEF SystemInv, LoopInv
  <2>3. currentTime \in Nat
    BY <2>1, <2>2
  <2> QED BY <1>1, <2>1, <2>3 DEF SystemInv, mpcVars
<1>3. currentTime \in Sent
  <2>1. MaxTime \in Nat /\ settings.maxTime \in 0..MaxTime
    BY <1>2, LoopAssumption
  <2>2. currentTime \in 0..settings.maxTime
    BY <1>2 DEF LoopInv
  <2> QED BY <2>1, <2>2 DEF Sent
<1>4. CASE Reset
  <2>1. /\ loop = "reset" /\ loop' = "initial" /\ UNCHANGED currentTime
        /\ resetRequests' = resetRequests + 1
        /\ UNCHANGED <<obsTopic, policyTopic, messages, worker>>
        /\ active' = NoPolicy /\ latest' = NoPolicy /\ received' = FALSE
    BY <1>4 DEF Reset, Goto, ResetMpcNode, Buffer!Clear
  <2>2. ChannelInv' /\ ClientInv' /\ LoopInv' /\ StartInv'
    BY <1>1, <1>2, <2>1
       DEF ChannelInv, ClientInv, LoopInv, StartInv, SimulatesWithPolicy, messages
  <2>3. resetRequests \in Nat /\ epoch \in Nat /\ session \in Nat
    <3>1. session \in 1..MaxSessions /\ MaxSessions \in Nat
      BY LoopAssumption DEF SystemInv, LoopInv
    <3> QED BY <3>1 DEF SystemInv, ChannelInv, MpcInv
  <2>4. ResetsInv'
    BY <1>1, <1>2, <2>1, <2>3 DEF ResetsInv
  <2> QED BY <1>1, <2>2, <2>4 DEF SystemInv
<1>5. CASE InitialSpin \/ Spin \/ SpinAgain \/ SpinLast
  <2>1. SpinMrt /\ UNCHANGED currentTime /\ loop # "reset"
    BY <1>5 DEF InitialSpin, Spin, SpinAgain, SpinLast, Goto
  <2>2. /\ ChannelInv' /\ ClientInv' /\ UNCHANGED <<active, resetRequests>>
        /\ latest # NoPolicy => latest' # NoPolicy
    BY <1>2, <2>1, SpinMrtKeeps
  <2>3. /\ loop' \in {"send_initial", "update", "await", "simulate", "spin"}
        /\ loop \in {"reset", "initial", "send_initial"}
              => loop' = "send_initial"
        /\ loop' \in {"update", "await", "simulate"} =>
              currentTime < settings.maxTime
        /\ loop' \in {"update", "await", "spin", "simulate"} =>
              loop \notin {"reset", "initial", "send_initial"}
    BY <1>2, <1>5 DEF InitialSpin, Spin, SpinAgain, SpinLast, Goto, LoopInv
  <2>4. LoopInv' /\ ResetsInv'
    BY <1>1, <1>2, <2>1, <2>2, <2>3 DEF LoopInv, ResetsInv
  <2>5. StartInv'
    <3>1. loop' = "simulate" => loop = "spin" /\ currentTime > 0
      <4>1. settings.mpcUpdateRatio \in Nat \ {0}
        BY <1>2, LoopAssumption DEF LoopInv
      <4>2. 0 % settings.mpcUpdateRatio = 0
        BY <4>1
      <4> QED
        BY <1>2, <1>5, <4>2
           DEF InitialSpin, Spin, SpinAgain, SpinLast, Goto, policyIsDue
    <3>2. /\ loop' = "spin" => loop = "spin_last"
          /\ loop' = "send_initial" => loop = "initial"
      BY <1>5 DEF InitialSpin, Spin, SpinAgain, SpinLast, Goto
    <3> QED
      BY <1>2, <2>1, <2>2, <2>3, <3>1, <3>2 DEF StartInv, SimulatesWithPolicy
  <2> QED BY <1>1, <2>2, <2>4, <2>5 DEF SystemInv
<1>6. CASE InitialSend \/ Send
  <2>1. /\ loop \in {"send_initial", "send"} /\ UNCHANGED currentTime
        /\ loop' \in {"initial", "spin_last", "spin"}
        /\ loop = "send_initial" <=> loop' = "initial"
        /\ \/ \E t \in Sent : SetCurrentObservation(t)
           \/ UNCHANGED vars
    BY <1>3, <1>6, ConstantTyping DEF InitialSend, Send, Goto
  <2>2. /\ ChannelInv' /\ ClientInv'
        /\ UNCHANGED <<active, latest, received, resetRequests>>
    BY <1>2, <2>1, SetObservationKeeps, NodeKept
  <2>3. LoopInv' /\ ResetsInv' /\ StartInv'
    BY <1>1, <1>2, <2>1, <2>2 DEF LoopInv, ResetsInv, StartInv, SimulatesWithPolicy
  <2> QED BY <1>1, <2>2, <2>3 DEF SystemInv
<1>7. CASE InitialReceived
  <2>1. /\ loop = "initial" /\ loop' = "spin" /\ received
        /\ UNCHANGED currentTime /\ UNCHANGED vars
    BY <1>7 DEF InitialReceived, Goto
  <2>2. /\ ChannelInv' /\ ClientInv'
        /\ UNCHANGED <<active, latest, received, resetRequests>>
    BY <1>2, <2>1, NodeKept
  <2>3. LoopInv' /\ ResetsInv' /\ StartInv'
    BY <1>1, <1>2, <2>1, <2>2
       DEF LoopInv, ResetsInv, StartInv, SimulatesWithPolicy, ClientInv
  <2> QED BY <1>1, <2>2, <2>3 DEF SystemInv
<1>8. CASE Update \/ Await
  <2>1. /\ loop \in {"update", "await"} /\ UNCHANGED currentTime
        /\ loop' \in {"simulate", "spin_again"}
        /\ IF latest # NoPolicy THEN UpdatePolicy ELSE UNCHANGED vars
        /\ loop = "await" /\ latest = NoPolicy => loop' = "spin_again"
    BY <1>8 DEF Update, Await, Goto
  <2>2. CASE latest # NoPolicy
    <3>1. ChannelInv' /\ ClientInv' /\ active' # NoPolicy /\ UNCHANGED resetRequests
      BY <1>2, <2>1, <2>2, UpdatePolicyKeeps
    <3>2. LoopInv' /\ ResetsInv' /\ StartInv'
      BY <1>1, <1>2, <2>1, <3>1 DEF LoopInv, ResetsInv, StartInv, SimulatesWithPolicy
    <3> QED BY <1>1, <3>1, <3>2 DEF SystemInv
  <2>3. CASE latest = NoPolicy
    <3>1. /\ ChannelInv' /\ ClientInv'
          /\ UNCHANGED <<active, latest, received, resetRequests>>
      BY <1>2, <2>1, <2>3, NodeKept
    <3>2. LoopInv' /\ ResetsInv' /\ StartInv'
      BY <1>1, <1>2, <2>1, <2>3, <3>1 DEF LoopInv, ResetsInv, StartInv, SimulatesWithPolicy
    <3> QED BY <1>1, <3>1, <3>2 DEF SystemInv
  <2> QED BY <2>2, <2>3
<1>9. CASE Simulate
  <2>1. /\ loop = "simulate" /\ loop' = "send" /\ currentTime' = currentTime + 1
        /\ UNCHANGED vars
    BY <1>9 DEF Simulate
  <2>2. /\ ChannelInv' /\ ClientInv'
        /\ UNCHANGED <<active, latest, received, resetRequests>>
    BY <1>2, <2>1, NodeKept
  <2>3. LoopInv' /\ ResetsInv' /\ StartInv'
    BY <1>1, <1>2, <2>1, <2>2 DEF LoopInv, ResetsInv, StartInv, SimulatesWithPolicy
  <2> QED BY <1>1, <2>2, <2>3 DEF SystemInv
<1> QED BY <1>4, <1>5, <1>6, <1>7, <1>8, <1>9 DEF LoopNext, LoopStep

\* The thread that publishes the observations.
LEMMA MrtWorkerKeeps == SystemInv /\ (MrtWorkerNext \/ MrtWakeup) => SystemInv'
<1> SUFFICES ASSUME SystemInv, MrtWorkerNext \/ MrtWakeup PROVE SystemInv'
  OBVIOUS
<1> USE DEF SystemInv
<1>1. /\ UNCHANGED <<mpcVars, loopVars, session, policyTopic, resetRequests, buffers>>
      /\ WorkerStep \/ WorkerSpuriousWakeup
  BY DEF MrtWorkerNext, MrtWakeup, WorkerStep, WorkerTest, WorkerWait, WorkerMove,
         WorkerPublish, WorkerSpuriousWakeup, channels
<1>2. MpcInv' /\ LoopInv' /\ ResetsInv' /\ StartInv'
  BY <1>1
     DEF MpcInv, LoopInv, ResetsInv, StartInv, SimulatesWithPolicy, mpcVars, loopVars, buffers
<1>3. CASE WorkerPublish
  <2>1. obsTopic' \in Topics(Sent)
    BY <1>3, TopicTyping DEF WorkerPublish, ChannelInv, ClientInv
  <2>2. ChannelInv' /\ ClientInv'
    BY <1>1, <1>3, <2>1 DEF WorkerPublish, ChannelInv, ClientInv, buffers, messages
  <2> QED BY <1>2, <2>2
<1>4. CASE WorkerMove
  <2>1. ChannelInv' /\ ClientInv'
    BY <1>4 DEF WorkerMove, ChannelInv, ClientInv, channels, buffers
  <2> QED BY <1>2, <2>1
<1>5. CASE WorkerTest \/ WorkerWait \/ WorkerSpuriousWakeup
  <2>1. ChannelInv' /\ ClientInv'
    BY <1>5
       DEF WorkerTest, WorkerWait, WorkerSpuriousWakeup, ChannelInv, ClientInv,
           channels, buffers, messages
  <2> QED BY <1>2, <2>1
<1> QED BY <1>1, <1>3, <1>4, <1>5 DEF WorkerStep

LEMMA DeliveryKeeps == SystemInv /\ (DeliverObservation \/ DeliverPolicy) => SystemInv'
<1> SUFFICES ASSUME SystemInv, DeliverObservation \/ DeliverPolicy PROVE SystemInv'
  OBVIOUS
<1>1. UNCHANGED <<resetRequests, mpcVars, mrtVars>> /\ ChannelInv'
  BY TopicTyping DEF DeliverObservation, DeliverPolicy, SystemInv, ChannelInv
<1>2. ClientInv' /\ LoopInv' /\ StartInv'
  BY <1>1, MrtKept
<1>3. MpcInv' /\ ResetsInv'
  BY <1>1 DEF SystemInv, MpcInv, ResetsInv, mpcVars, mrtVars, loopVars
<1> QED BY <1>1, <1>2, <1>3 DEF SystemInv

\* A new session may ask for one reset more.
LEMMA RestartKeeps == SystemInv /\ Restart => SystemInv'
<1> SUFFICES ASSUME SystemInv, Restart PROVE SystemInv'
  OBVIOUS
<1> USE DEF SystemInv
<1>1. /\ session' = session + 1 /\ session < settings.maxSessions
      /\ loop' = "reset" /\ currentTime' = 0
      /\ UNCHANGED <<obsTopic, resetRequests, mpcVars, settings>>
      /\ policyTopic' = Taken(policyTopic)
      /\ active' = NoPolicy /\ latest' = NoPolicy /\ received' = FALSE
      /\ readyToPublish_' = FALSE /\ worker' = "test"
  BY DEF Restart, Buffer!Clear
<1>2. ChannelInv' /\ ClientInv'
  BY <1>1, TopicTyping DEF ChannelInv, ClientInv
<1>3. /\ session \in Nat /\ settings.maxTime \in 0..MaxTime
      /\ settings.maxSessions \in 1..MaxSessions /\ session' \in 1..MaxSessions
  <2>1. /\ settings.maxTime \in 0..MaxTime /\ settings.maxSessions \in 1..MaxSessions
        /\ MaxSessions \in Nat
    BY ConstantTyping, LoopAssumption DEF LoopInv
  <2>2. session \in 1..MaxSessions
    BY DEF LoopInv
  <2> QED BY <1>1, <2>1, <2>2
<1>4. LoopInv'
  <2>1. currentTime' \in 0..settings'.maxTime
    BY <1>1, <1>3
  <2> QED BY <1>1, <1>3, <2>1 DEF LoopInv
<1>5. MpcInv'
  BY <1>1 DEF MpcInv, mpcVars
<1>6. ResetsInv'
  BY <1>1, <1>3 DEF ResetsInv, MpcInv, ChannelInv, mpcVars
<1>7. StartInv'
  BY <1>1 DEF StartInv, SimulatesWithPolicy
<1> QED BY <1>2, <1>4, <1>5, <1>6, <1>7

LEMMA SystemInductive == SystemInv /\ [Next]_systemVars => SystemInv'
<1> SUFFICES ASSUME SystemInv, [Next]_systemVars PROVE SystemInv'
  OBVIOUS
<1>1. CASE UNCHANGED systemVars
  <2>1. UNCHANGED <<channels, mpcVars, mrtVars>>
    BY <1>1 DEF systemVars
  <2>2. ClientInv' /\ LoopInv' /\ StartInv'
    BY <2>1, MrtKept
  <2>3. ChannelInv' /\ MpcInv' /\ ResetsInv'
    BY <2>1
       DEF SystemInv, ChannelInv, MpcInv, ResetsInv, channels, mpcVars, mrtVars,
           loopVars
  <2> QED BY <2>2, <2>3 DEF SystemInv
<1>2. CASE Next
  BY <1>2, MpcKeeps, LoopKeeps, MrtWorkerKeeps, DeliveryKeeps, RestartKeeps DEF Next
<1> QED BY <1>1, <1>2

-----------------------------------------------------------------------------
(* The pace of the synchronized loop, until the first restart.             *)

Contents(queue) == {queue[i] : i \in DOMAIN queue}

\* The observations on their way from the loop to the solver, the oldest first.
Running == IF executor = "run" THEN {observation} ELSE {}
Inbox == Contents(obsTopic.inbox)
OnWire == Contents(obsTopic.wire)
Copied == IF worker = "publish" THEN {mpcObservationMsgBuffer_} ELSE {}
Ready == IF readyToPublish_ THEN {mpcObservationMsg_} ELSE {}
OnTheWay == Running \cup Inbox \cup OnWire \cup Copied \cup Ready

Precede(S, T) == \A s \in S, t \in T : s <= t

InOrder ==
    /\ Precede(Running, Inbox \cup OnWire \cup Copied \cup Ready)
    /\ Precede(Inbox, OnWire \cup Copied \cup Ready)
    /\ Precede(OnWire, Copied \cup Ready)
    /\ Precede(Copied, Ready)
    /\ Precede(OnTheWay, {currentTime})

\* The policies of the MPC node, and those on their way to the loop or there.
Computed == {solution, buffer, publisher}
Answers == Contents(policyTopic.inbox) \cup Contents(policyTopic.wire)
              \cup ({active, latest} \ {NoPolicy})

\* The time of the last run of the solver, and the last time not after t for
\* which the loop wants a policy.
Solved == finalTime - Horizon
LastDue(t) == t - (t % settings.mpcUpdateRatio)

\* Before the first run of the solver there are no policies, and the loop waits.
Fresh ==
    /\ Computed \subseteq {Mpc!NullPolicy} /\ Answers = {} /\ ~received
    /\ loop \in {"reset", "initial", "send_initial"}
    /\ OnTheWay \subseteq {0}

\* After it no observation is more than one period ahead of the last run, ...
Followed ==
    /\ epoch > 0 /\ finalTime \in Nat /\ Solved \in 0..currentTime
    /\ \A o \in OnTheWay : Solved <= o /\ o <= Solved + settings.mpcUpdateRatio
    /\ \A p \in Computed \cup Answers : p.time <= Solved

\* ... because the loop goes on only with a policy for the period it is in.
InPeriod ==
    /\ loop # "update"
    /\ loop = "simulate" => LastDue(currentTime) <= Solved
    /\ loop = "send" => currentTime > 0 /\ LastDue(currentTime - 1) <= Solved
    /\ loop \in {"spin", "spin_last"} /\ ~policyIsDue =>
          LastDue(currentTime) <= Solved

PaceInv ==
    synchronized /\ session = 1 =>
        /\ InOrder
        /\ initRun_ => Fresh
        /\ ~initRun_ => Followed /\ InPeriod

\* Remainders of successive numbers.
LEMMA Remainders ==
    ASSUME NEW r \in Nat \ {0}, NEW t \in Nat
    PROVE  /\ t % r \in 0..(r - 1) /\ t % r <= t
           /\ (t + 1) % r # 0 => (t + 1) % r = (t % r) + 1
           /\ (t + 1) % r = 0 => t % r = r - 1
<1>1. PICK p \in Int, m \in 0..(r - 1) : t = r * p + m /\ m = t % r
  OBVIOUS
<1>2. PICK q \in Int, n \in 0..(r - 1) : t + 1 = r * q + n /\ n = (t + 1) % r
  OBVIOUS
<1>3. p >= 0 /\ r * p >= 0
  <2>1. CASE p < 0
    <3>1. r * p <= -r
      BY <2>1
    <3> QED BY <1>1, <3>1
  <2> QED BY <2>1
<1>4. r * (q - p) = 1 + m - n
  BY <1>1, <1>2
<1>5. q - p < 2
  <2>1. CASE q - p >= 2
    <3>1. r * (q - p) >= 2 * r
      BY <2>1
    <3> QED BY <1>4, <3>1
  <2> QED BY <2>1
<1>6. q - p > -1
  <2>1. CASE q - p <= -1
    <3>1. r * (q - p) <= -r
      BY <2>1
    <3> QED BY <1>4, <3>1
  <2> QED BY <2>1
<1>7. t % r <= t
  BY <1>1, <1>3
<1>8. CASE q = p
  <2>1. q - p = 0 /\ r * 0 = 0
    BY <1>8
  <2>2. n = m + 1
    BY <1>4, <2>1
  <2> QED BY <1>1, <1>2, <2>2, <1>7
<1>9. CASE q = p + 1
  <2>1. q - p = 1 /\ r * 1 = r
    BY <1>9
  <2>2. r = 1 + m - n
    BY <1>4, <2>1
  <2>3. n = 0 /\ m = r - 1
    BY <2>2
  <2> QED BY <1>1, <1>2, <2>3, <1>7
<1> QED BY <1>5, <1>6, <1>8, <1>9

\* The messages in a topic, whatever is done with it.
LEMMA TopicContents ==
    ASSUME NEW M, NEW topic \in Topics(M)
    PROVE  /\ Contents(topic.wire) \subseteq M /\ Contents(topic.inbox) \subseteq M
           /\ \A m \in M : /\ Contents(Published(topic, m).wire) = {m}
                           /\ Published(topic, m).inbox = topic.inbox
           /\ Delivered(topic).inbox = topic.wire
           /\ Contents(Delivered(topic).wire) = {}
           /\ Taken(topic).wire = topic.wire
           /\ Contents(Taken(topic).inbox) = {}
           /\ CanTake(topic) => Contents(topic.inbox) = {Message(topic)}
<1>1. Contents(<<>>) = {} /\ \A m : Contents(<<m>>) = {m}
  BY DEF Contents
<1>2. /\ topic.wire = <<>> \/ \E m \in M : topic.wire = <<m>>
      /\ topic.inbox = <<>> \/ \E m \in M : topic.inbox = <<m>>
  BY DEF Topics
<1>3. Contents(topic.wire) \subseteq M /\ Contents(topic.inbox) \subseteq M
  BY <1>1, <1>2
<1>4. \A m \in M : Published(topic, m).wire = <<m>> /\ Published(topic, m).inbox = topic.inbox
  BY DEF Published, Topics
<1>5. /\ Delivered(topic).inbox = topic.wire /\ Delivered(topic).wire = <<>>
      /\ Taken(topic).wire = topic.wire /\ Taken(topic).inbox = <<>>
  BY DEF Delivered, Taken, Topics
<1>6. CanTake(topic) => Contents(topic.inbox) = {Message(topic)}
  <2>1. \A m \in M : topic.inbox = <<m>> => Message(topic) = m
    BY DEF Message
  <2> QED BY <1>1, <1>2, <2>1 DEF CanTake
<1> QED BY <1>1, <1>3, <1>4, <1>5, <1>6

-----------------------------------------------------------------------------

\* What is on its way or held has its type.
LEMMA TravellersTyping ==
    ASSUME SystemInv
    PROVE  /\ OnTheWay \subseteq Sent
           /\ Computed \cup Answers \subseteq MaybePolicy
           /\ \A p \in MaybePolicy : p.time \in Sent
           /\ Mpc!NullPolicy.time = 0
           /\ Sent \subseteq Nat /\ currentTime \in Nat
<1>1. Contents(obsTopic.wire) \subseteq Sent /\ Contents(obsTopic.inbox) \subseteq Sent
  BY TopicContents DEF SystemInv, ChannelInv
<1>2. OnTheWay \subseteq Sent
  BY <1>1 DEF SystemInv, MpcInv, ClientInv, OnTheWay, Running, Inbox, OnWire, Copied, Ready
<1>3. /\ Contents(policyTopic.wire) \subseteq Policy
      /\ Contents(policyTopic.inbox) \subseteq Policy
  BY TopicContents DEF SystemInv, ChannelInv
<1>4. Computed \cup Answers \subseteq MaybePolicy
  BY <1>3 DEF SystemInv, MpcInv, ClientInv, Computed, Answers, MaybePolicy
<1>5. \A p \in MaybePolicy : p.time \in Sent
  BY ConstantTyping DEF MaybePolicy, Mpc!NullPolicy
<1>6. Sent \subseteq Nat
  BY LoopAssumption DEF Sent
<1>7. currentTime \in Nat
  <2>1. currentTime \in 0..settings.maxTime /\ settings.maxTime \in 0..MaxTime
    BY ConstantTyping DEF SystemInv, LoopInv
  <2> QED BY <2>1, LoopAssumption
<1> QED BY <1>2, <1>4, <1>5, <1>6, <1>7 DEF Mpc!NullPolicy

\* Nothing new enters, and the observations of one stage replace those of the
\* next, or leave.
ObservationsMove ==
    \/ /\ Running' \subseteq Running
       /\ UNCHANGED <<Inbox, OnWire, Copied, Ready>>
    \/ /\ Running' \subseteq Inbox /\ Inbox' = {}
       /\ UNCHANGED <<OnWire, Copied, Ready>>
    \/ /\ Inbox' = OnWire /\ OnWire' = {}
       /\ UNCHANGED <<Running, Copied, Ready>>
    \/ /\ OnWire' = Copied /\ Copied' = {}
       /\ UNCHANGED <<Running, Inbox, Ready>>
    \/ /\ Copied' = Ready /\ Ready' = {}
       /\ UNCHANGED <<Running, Inbox, OnWire>>

\* No policy is computed, and the MPC node publishes only what it has computed.
PoliciesMove ==
    /\ Computed' \subseteq Computed
    /\ Answers' \subseteq Answers \cup (Computed \ {Mpc!NullPolicy})

LEMMA OrderKept ==
    ASSUME SystemInv, InOrder, ObservationsMove,
           currentTime' \in {currentTime, currentTime + 1}
    PROVE  InOrder' /\ OnTheWay' \subseteq OnTheWay
<1>1. OnTheWay' \subseteq OnTheWay
  BY DEF ObservationsMove, OnTheWay
<1>2. Precede(OnTheWay, {currentTime})'
  BY <1>1, TravellersTyping DEF InOrder, Precede
<1>3. /\ Precede(Running, Inbox \cup OnWire \cup Copied \cup Ready)'
      /\ Precede(Inbox, OnWire \cup Copied \cup Ready)'
  BY DEF ObservationsMove, InOrder, Precede
<1>4. Precede(OnWire, Copied \cup Ready)' /\ Precede(Copied, Ready)'
  BY DEF ObservationsMove, InOrder, Precede
<1> QED BY <1>1, <1>2, <1>3, <1>4 DEF InOrder

\* A step that moves things on and does not run or reset the solver.
LEMMA PaceKept ==
    ASSUME SystemInv, PaceInv, ObservationsMove, PoliciesMove,
           UNCHANGED <<settings, session, initRun_, finalTime, epoch>>,
           currentTime' \in {currentTime, currentTime + 1},
           Fresh => ~received' /\ loop' \in {"reset", "initial", "send_initial"},
           synchronized /\ Followed /\ InPeriod => InPeriod'
    PROVE  PaceInv'
<1> SUFFICES ASSUME synchronized, session = 1
             PROVE  /\ InOrder'
                    /\ initRun_ => Fresh'
                    /\ ~initRun_ => (Followed /\ InPeriod)'
  BY DEF PaceInv, synchronized
<1>1. InOrder /\ InOrder' /\ OnTheWay' \subseteq OnTheWay
  BY OrderKept DEF PaceInv
<1>2. CASE initRun_
  BY <1>1, <1>2 DEF PaceInv, Fresh, PoliciesMove
<1>3. CASE ~initRun_
  <2>1. Followed /\ InPeriod
    BY <1>3 DEF PaceInv
  <2>2. UNCHANGED Solved /\ Solved \in 0..currentTime'
    BY <2>1, TravellersTyping DEF Solved, Followed
  <2>3. \A o \in OnTheWay' : /\ Solved' <= o
                             /\ o <= Solved' + settings'.mpcUpdateRatio
    BY <1>1, <2>1, <2>2 DEF Followed
  <2>4. \A p \in Computed' \cup Answers' : p.time <= Solved'
    BY <2>1, <2>2 DEF Followed, PoliciesMove
  <2>5. Followed'
    BY <2>1, <2>2, <2>3, <2>4 DEF Followed
  <2> QED BY <1>1, <1>3, <2>1, <2>5
<1> QED BY <1>1, <1>2, <1>3

\* The stages an unchanged variable leaves as they are.
LEMMA StagesKept ==
    /\ UNCHANGED <<executor, observation>> => UNCHANGED Running
    /\ UNCHANGED obsTopic => UNCHANGED <<Inbox, OnWire>>
    /\ UNCHANGED <<messages, worker>> => UNCHANGED <<Copied, Ready>>
    /\ UNCHANGED <<solution, buffer, publisher>> => UNCHANGED Computed
    /\ UNCHANGED <<policyTopic, active, latest>> => UNCHANGED Answers
    /\ UNCHANGED <<loop, currentTime, settings, finalTime>> /\ InPeriod => InPeriod'
    /\ UNCHANGED settings => (synchronized <=> synchronized')
<1>1. /\ UNCHANGED <<executor, observation>> => UNCHANGED Running
      /\ UNCHANGED obsTopic => UNCHANGED <<Inbox, OnWire>>
  BY DEF Running, Inbox, OnWire
<1>2. UNCHANGED <<messages, worker>> => UNCHANGED <<Copied, Ready>>
  BY DEF Copied, Ready, messages
<1>3. /\ UNCHANGED <<solution, buffer, publisher>> => UNCHANGED Computed
      /\ UNCHANGED <<policyTopic, active, latest>> => UNCHANGED Answers
  BY DEF Computed, Answers
<1>4. UNCHANGED <<loop, currentTime, settings, finalTime>> /\ InPeriod => InPeriod'
  BY DEF InPeriod, Solved, LastDue, policyIsDue
<1>5. UNCHANGED settings => (synchronized <=> synchronized')
  BY DEF synchronized
<1> QED BY <1>1, <1>2, <1>3, <1>4, <1>5

\* The solver runs: with the first observation it leaves the fresh state, with
\* another it catches up with the loop.
LEMMA RunPace ==
    ASSUME SystemInv, PaceInv, Mpc!RunMpc, UNCHANGED mrtVars
    PROVE  PaceInv'
<1>1. /\ UNCHANGED <<obsTopic, policyTopic, active, latest, received, messages, worker,
                     settings, loop, currentTime, session, epoch, buffer, publisher>>
      /\ executor = "run" /\ executor' # "run"
      /\ Running = {observation} /\ Running' = {}
  BY DEF Mpc!RunMpc, mrtVars, nodeVars, loopVars, buffers, Mpc!channels, Mpc!store, Running
<1>2. ObservationsMove /\ UNCHANGED <<Inbox, OnWire, Copied, Ready, Answers>>
  BY <1>1, StagesKept DEF ObservationsMove
<1>3. CASE Mpc!runs
  <2>1. /\ initRun_' = FALSE /\ finalTime' = observation + Horizon
        /\ solution' = [time |-> observation, epoch |-> epoch]
    BY <1>3 DEF Mpc!RunMpc
  <2> SUFFICES ASSUME synchronized, session = 1
               PROVE  InOrder' /\ Followed' /\ InPeriod'
    BY <1>1, <2>1 DEF PaceInv, synchronized
  <2>2. /\ InOrder /\ InOrder' /\ OnTheWay' \subseteq OnTheWay
        /\ observation \in OnTheWay /\ observation \in Sent /\ OnTheWay \subseteq Sent
        /\ Sent \subseteq Nat /\ currentTime \in Nat /\ Mpc!NullPolicy.time = 0
        /\ \A p \in Computed \cup Answers : p.time \in Sent
    BY <1>1, <1>2, OrderKept, TravellersTyping DEF PaceInv, OnTheWay
  <2>3. observation <= currentTime /\ \A o \in OnTheWay' : observation <= o
    BY <1>1, <1>2, <2>2 DEF InOrder, Precede, OnTheWay
  <2>4. Solved' = observation /\ Horizon \in Nat /\ finalTime' \in Nat
    BY <2>1, <2>2, SystemAssumption DEF Solved
  <2>5. epoch > 0 /\ settings.mpcUpdateRatio \in Nat \ {0}
    BY <1>1, LoopAssumption DEF SystemInv, MpcInv, LoopInv
  <2>6. \A p \in Computed' \cup Answers' : p \in Computed \cup Answers \/ p = solution'
    BY <1>1, <1>2 DEF Computed
  <2>7. solution'.time = observation
    BY <2>1
  <2>8. CASE initRun_
    <3>1. Fresh
      BY <2>8 DEF PaceInv
    <3>2. observation = 0 /\ \A o \in OnTheWay' : o = 0
      BY <2>2, <3>1 DEF Fresh
    <3>3. \A p \in Computed' \cup Answers' : p.time = 0
      BY <2>2, <2>6, <2>7, <3>1, <3>2 DEF Fresh
    <3>4. Followed'
      BY <1>1, <2>2, <2>3, <2>4, <2>5, <3>2, <3>3 DEF Followed
    <3>5. InPeriod'
      BY <1>1, <3>1 DEF Fresh, InPeriod
    <3> QED BY <2>2, <3>4, <3>5
  <2>9. CASE ~initRun_
    <3>1. Followed /\ InPeriod /\ Solved \in Nat
      BY <2>2, <2>9 DEF PaceInv, Followed
    <3>2. Solved <= observation
      BY <2>2, <3>1 DEF Followed
    <3>3. \A o \in OnTheWay' : o <= observation + settings.mpcUpdateRatio
      <4> SUFFICES ASSUME NEW o \in OnTheWay' PROVE o <= observation + settings.mpcUpdateRatio
        OBVIOUS
      <4>1. o \in Nat /\ o <= Solved + settings.mpcUpdateRatio
        BY <2>2, <3>1 DEF Followed
      <4> QED BY <2>2, <2>5, <3>1, <3>2, <4>1
    <3>4. \A p \in Computed' \cup Answers' : p.time <= observation
      <4> SUFFICES ASSUME NEW p \in Computed' \cup Answers' PROVE p.time <= observation
        OBVIOUS
      <4>1. CASE p \in Computed \cup Answers
        <5>1. p.time \in Nat /\ p.time <= Solved
          BY <2>2, <3>1, <4>1 DEF Followed
        <5> QED BY <2>2, <3>1, <3>2, <5>1
      <4>2. CASE p = solution'
        BY <2>2, <2>7, <4>2
      <4> QED BY <2>6, <4>1, <4>2
    <3>5. Followed'
      BY <1>1, <2>2, <2>3, <2>4, <2>5, <3>3, <3>4 DEF Followed
    <3>6. \A t \in Nat : LastDue(t) \in Int /\ LastDue(t)' = LastDue(t)
      <4> DEFINE r == settings.mpcUpdateRatio
      <4>1. r \in Nat \ {0} /\ settings' = settings
        BY <1>1, <2>5
      <4>2. \A t \in Nat : t % r \in Int
        BY <4>1
      <4> QED BY <4>1, <4>2 DEF LastDue
    <3>7. \A t \in Nat : LastDue(t) <= Solved => LastDue(t)' <= Solved'
      BY <2>2, <2>4, <3>1, <3>2, <3>6
    <3>8. InPeriod'
      BY <1>1, <2>2, <3>1, <3>7 DEF InPeriod, policyIsDue, LastDue
    <3> QED BY <2>2, <3>5, <3>8
  <2> QED BY <2>8, <2>9
<1>4. CASE ~Mpc!runs
  <2>1. UNCHANGED <<initRun_, finalTime, solution>>
    BY <1>4 DEF Mpc!RunMpc
  <2>2. PoliciesMove
    BY <1>1, <1>2, <2>1, StagesKept DEF PoliciesMove
  <2>3. synchronized /\ Followed /\ InPeriod => InPeriod'
    BY <1>1, <2>1, StagesKept
  <2>4. Fresh => ~received' /\ loop' \in {"reset", "initial", "send_initial"}
    BY <1>1 DEF Fresh
  <2> QED BY <1>1, <1>2, <2>1, <2>2, <2>3, <2>4, PaceKept
<1> QED BY <1>3, <1>4

LEMMA MpcPace == SystemInv /\ PaceInv /\ (MpcStep \/ MpcWakeup) => PaceInv'
<1> SUFFICES ASSUME SystemInv, PaceInv, MpcStep \/ MpcWakeup PROVE PaceInv'
  OBVIOUS
<1>1. UNCHANGED mrtVars
  BY DEF MpcStep, MpcWakeup
<1>2. /\ UNCHANGED <<active, latest, received, messages, worker, settings, loop,
                     currentTime, session>>
      /\ UNCHANGED <<Copied, Ready>>
  BY <1>1, StagesKept DEF mrtVars, nodeVars, loopVars, buffers
<1>3. ASSUME ObservationsMove, PoliciesMove, UNCHANGED <<initRun_, finalTime, epoch>>
      PROVE  PaceInv'
  <2>1. Fresh => ~received' /\ loop' \in {"reset", "initial", "send_initial"}
    BY <1>2 DEF Fresh
  <2>2. synchronized /\ Followed /\ InPeriod => InPeriod'
    BY <1>2, <1>3, StagesKept
  <2> QED BY <1>2, <1>3, <2>1, <2>2, PaceKept
<1>4. CASE Mpc!ObservationCallback
  <2>1. /\ CanTake(obsTopic) /\ Taken(obsTopic) = obsTopic'
        /\ executor' = "run" => observation' = Message(obsTopic)
        /\ UNCHANGED <<policyTopic, solution, buffer, publisher, initRun_, finalTime,
                       epoch>>
    BY <1>4
       DEF Mpc!ObservationCallback, Mpc!CanTake, Mpc!Taken, Mpc!Message, CanTake,
           Taken, Message, Mpc!solver, Mpc!store
  <2>2. Running' \subseteq Inbox /\ Inbox' = {} /\ OnWire' = OnWire
    BY <2>1, TopicContents DEF SystemInv, ChannelInv, Running, Inbox, OnWire
  <2>3. ObservationsMove /\ PoliciesMove
    BY <1>2, <2>1, <2>2, StagesKept DEF ObservationsMove, PoliciesMove
  <2> QED BY <1>3, <2>1, <2>3
<1>5. CASE Mpc!RunMpc
  BY <1>1, <1>5, RunPace
<1>6. CASE Mpc!CopyToBuffer \/ Mpc!Signal \/ Mpc!ResetFlags \/ Mpc!Join
  <2>1. /\ UNCHANGED <<obsTopic, policyTopic, initRun_, finalTime, epoch, solution,
                       publisher>>
        /\ buffer' \in {buffer, solution} /\ executor' # "run"
    BY <1>6
       DEF Mpc!CopyToBuffer, Mpc!Signal, Mpc!ResetFlags, Mpc!Join, Mpc!channels,
           Mpc!solver, Mpc!store
  <2>2. Running' = {} /\ Computed' \subseteq Computed
    BY <2>1 DEF Running, Computed
  <2>3. ObservationsMove /\ PoliciesMove
    BY <1>2, <2>1, <2>2, StagesKept DEF ObservationsMove, PoliciesMove
  <2> QED BY <1>3, <2>1, <2>3
<1>7. CASE Mpc!ResetCallback
  <2> SUFFICES ASSUME synchronized, session = 1
               PROVE  InOrder' /\ Fresh' /\ initRun_'
    BY <1>2 DEF PaceInv, synchronized
  <2>1. /\ UNCHANGED <<obsTopic, policyTopic, solution, buffer, publisher>>
        /\ executor' # "run" /\ initRun_' /\ resetRequests > 0
    BY <1>7 DEF Mpc!ResetCallback, Mpc!store
  <2>2. epoch \in Nat /\ resetRequests \in Nat /\ epoch + resetRequests <= 1
    BY DEF SystemInv, MpcInv, ChannelInv, ResetsInv
  <2>3. epoch = 0
    BY <2>1, <2>2
  <2>4. Fresh /\ InOrder
    BY <2>3 DEF PaceInv, Followed
  <2>5. Running' = {}
    BY <2>1 DEF Running
  <2>6. ObservationsMove /\ PoliciesMove
    BY <1>2, <2>1, <2>5, StagesKept DEF ObservationsMove, PoliciesMove
  <2>7. InOrder' /\ OnTheWay' \subseteq OnTheWay
    BY <1>2, <2>4, <2>6, OrderKept
  <2> QED BY <1>2, <2>1, <2>4, <2>6, <2>7 DEF Fresh, PoliciesMove
<1>8. CASE Mpc!WorkerPublish
  <2>1. /\ publisher # Mpc!NullPolicy /\ policyTopic' = Published(policyTopic, publisher)
        /\ UNCHANGED <<obsTopic, executor, observation, initRun_, finalTime, epoch,
                       solution, buffer, publisher>>
    BY <1>8
       DEF Mpc!WorkerPublish, Mpc!Published, Published, Mpc!main, Mpc!solver, Mpc!store
  <2>2. publisher \in Policy
    BY <2>1 DEF SystemInv, MpcInv, MaybePolicy
  <2>3. Answers' \subseteq Answers \cup {publisher}
    BY <1>2, <2>1, <2>2, TopicContents DEF SystemInv, ChannelInv, Answers
  <2>4. PoliciesMove
    BY <2>1, <2>3, StagesKept DEF PoliciesMove, Computed
  <2>5. ObservationsMove
    BY <1>2, <2>1, StagesKept DEF ObservationsMove
  <2> QED BY <1>3, <2>1, <2>4, <2>5
<1>9. CASE \/ Mpc!WorkerTest \/ Mpc!WorkerLock \/ Mpc!WorkerCrash
           \/ Mpc!WorkerClear \/ Mpc!WorkerSpuriousWakeup \/ Mpc!WorkerSwap
  <2>1. /\ UNCHANGED <<obsTopic, policyTopic, executor, observation, initRun_, finalTime,
                       epoch, solution>>
        /\ {buffer', publisher'} = {buffer, publisher}
    BY <1>9
       DEF Mpc!WorkerTest, Mpc!WorkerLock, Mpc!WorkerCrash, Mpc!WorkerClear,
           Mpc!WorkerSpuriousWakeup, Mpc!WorkerSwap, Mpc!channels, Mpc!main, Mpc!solver,
           Mpc!store
  <2>2. Computed' = Computed
    BY <2>1 DEF Computed
  <2>3. ObservationsMove /\ PoliciesMove
    BY <1>2, <2>1, <2>2, StagesKept DEF ObservationsMove, PoliciesMove
  <2> QED BY <1>3, <2>1, <2>3
<1> QED
  BY <1>4, <1>5, <1>6, <1>7, <1>8, <1>9
     DEF MpcStep, MpcWakeup, Mpc!MainStep, Mpc!WorkerStep

\* setCurrentObservation() in the loop: what is sent joins the observations on
\* their way as the newest of them.
LEMMA SendPace ==
    ASSUME SystemInv, PaceInv, SetCurrentObservation(currentTime),
           UNCHANGED <<settings, session, mpcVars, currentTime>>,
           Fresh => currentTime = 0 /\ loop' = "initial",
           synchronized /\ Followed /\ InPeriod =>
              currentTime <= Solved + settings.mpcUpdateRatio /\ InPeriod'
    PROVE  PaceInv'
<1> SUFFICES ASSUME synchronized, session = 1
             PROVE  /\ InOrder'
                    /\ initRun_ => Fresh'
                    /\ ~initRun_ => (Followed /\ InPeriod)'
  BY DEF PaceInv, synchronized, mpcVars
<1>1. /\ UNCHANGED <<executor, observation, initRun_, finalTime, epoch, solution, buffer,
                     publisher, obsTopic, policyTopic, active, latest, received>>
      /\ readyToPublish_' /\ mpcObservationMsg_' = currentTime
      /\ UNCHANGED mpcObservationMsgBuffer_
      /\ worker' = "publish" <=> worker = "publish"
  BY DEF SetCurrentObservation, mpcVars, channels, buffers
<1>2. /\ UNCHANGED <<Running, Inbox, OnWire, Copied, Computed, Answers>>
      /\ Ready' = {currentTime}
  BY <1>1, StagesKept DEF Copied, Ready
<1>3. OnTheWay' \subseteq OnTheWay \cup {currentTime}
  BY <1>2 DEF OnTheWay
<1>4. currentTime \in Nat /\ OnTheWay \subseteq Nat
  BY TravellersTyping
<1>5. InOrder'
  <2>1. InOrder
    BY DEF PaceInv
  <2>2. Precede(OnTheWay', {currentTime'})
    BY <1>3, <1>4, <2>1 DEF InOrder, Precede
  <2>3. /\ Precede(Running, Inbox \cup OnWire \cup Copied \cup Ready)'
        /\ Precede(Inbox, OnWire \cup Copied \cup Ready)'
    BY <1>2, <2>1 DEF InOrder, Precede, OnTheWay
  <2>4. Precede(OnWire, Copied \cup Ready)' /\ Precede(Copied, Ready)'
    BY <1>2, <2>1 DEF InOrder, Precede, OnTheWay
  <2> QED BY <2>2, <2>3, <2>4 DEF InOrder
<1>6. CASE initRun_
  <2>1. Fresh
    BY <1>6 DEF PaceInv
  <2>2. Fresh'
    BY <1>1, <1>2, <1>3, <2>1 DEF Fresh
  <2> QED BY <1>5, <1>6, <2>2
<1>7. CASE ~initRun_
  <2>1. Followed /\ InPeriod /\ UNCHANGED Solved
    BY <1>1, <1>7 DEF PaceInv, Solved
  <2>2. Solved <= currentTime
    BY <1>4, <2>1 DEF Followed
  <2>3. Followed'
    BY <1>1, <1>2, <1>3, <2>1, <2>2 DEF Followed
  <2> QED BY <1>5, <1>7, <2>1, <2>3
<1> QED BY <1>6, <1>7

\* The numbers of the loop.
LEMMA PeriodTyping ==
    ASSUME SystemInv
    PROVE  /\ currentTime \in Nat /\ settings.mpcUpdateRatio \in Nat \ {0}
           /\ \A t \in Nat : LastDue(t) \in Int /\ LastDue(t) <= t
           /\ Followed => Solved \in Nat
<1> DEFINE r == settings.mpcUpdateRatio
<1>1. r \in Nat \ {0}
  BY LoopAssumption DEF SystemInv, LoopInv
<1>2. \A t \in Nat : t % r \in Nat
  BY <1>1
<1>3. \A t \in Nat : LastDue(t) \in Int /\ LastDue(t) <= t
  BY <1>1, <1>2 DEF LastDue
<1>4. currentTime \in Nat
  BY TravellersTyping
<1> QED BY <1>1, <1>3, <1>4 DEF Followed

\* At time 0 a policy is due; where none is due the last one is still that of
\* the step before, and where one is due that was a whole period ago.
LEMMA Periods ==
    ASSUME SystemInv
    PROVE  /\ currentTime = 0 => policyIsDue
           /\ \A t \in Nat : t + 1 = currentTime =>
                IF policyIsDue THEN LastDue(t) = currentTime - settings.mpcUpdateRatio
                               ELSE LastDue(currentTime) = LastDue(t)
<1> DEFINE r == settings.mpcUpdateRatio
<1>1. r \in Nat \ {0} /\ currentTime \in Nat
  BY PeriodTyping
<1>2. 0 % r = 0
  BY <1>1
<1>3. currentTime = 0 => policyIsDue
  BY <1>2 DEF policyIsDue
<1>4. ASSUME NEW t \in Nat, t + 1 = currentTime
      PROVE  IF policyIsDue THEN LastDue(t) = currentTime - r
                            ELSE LastDue(currentTime) = LastDue(t)
  <2>1. /\ (t + 1) % r # 0 => (t + 1) % r = (t % r) + 1
        /\ (t + 1) % r = 0 => t % r = r - 1
    BY <1>1, Remainders
  <2>2. t % r \in Int
    BY <1>1
  <2>3. CASE policyIsDue
    <3>1. t % r = r - 1
      BY <1>4, <2>1, <2>3 DEF policyIsDue
    <3>2. LastDue(t) = t - (r - 1)
      BY <3>1 DEF LastDue
    <3>3. t - (r - 1) = currentTime - r
      BY <1>1, <1>4
    <3> QED BY <2>3, <3>2, <3>3
  <2>4. CASE ~policyIsDue
    <3>1. currentTime % r = (t % r) + 1
      BY <1>4, <2>1, <2>4 DEF policyIsDue
    <3>2. LastDue(currentTime) = LastDue(t)
      BY <1>1, <1>4, <2>2, <3>1 DEF LastDue
    <3> QED BY <2>4, <3>2
  <2> QED BY <2>3, <2>4
<1> QED BY <1>3, <1>4

LEMMA LoopPace == SystemInv /\ PaceInv /\ LoopNext => PaceInv'
<1> SUFFICES ASSUME SystemInv, PaceInv, LoopNext PROVE PaceInv'
  OBVIOUS
<1>1. /\ UNCHANGED <<settings, session, mpcVars>>
      /\ UNCHANGED <<executor, observation, initRun_, finalTime, epoch, solution, buffer,
                     publisher>>
      /\ UNCHANGED <<Running, Computed, Solved>>
      /\ \A t \in Nat : LastDue(t)' = LastDue(t)
  BY StagesKept DEF LoopNext, LoopStep, mpcVars, Solved, LastDue
<1>2. /\ currentTime \in Nat /\ (UNCHANGED currentTime => (policyIsDue <=> policyIsDue'))
      /\ LastDue(currentTime) \in Int /\ LastDue(currentTime) <= currentTime
      /\ Followed => Solved \in Nat
  BY <1>1, PeriodTyping DEF policyIsDue
<1>3. ASSUME UNCHANGED <<obsTopic, messages, worker>>, Answers' \subseteq Answers,
             currentTime' \in {currentTime, currentTime + 1},
             Fresh => ~received' /\ loop' \in {"reset", "initial", "send_initial"},
             synchronized /\ Followed /\ InPeriod => InPeriod'
      PROVE  PaceInv'
  <2>1. ObservationsMove /\ PoliciesMove
    BY <1>1, <1>3, StagesKept DEF ObservationsMove, PoliciesMove
  <2> QED BY <1>1, <1>3, <2>1, PaceKept
<1>4. CASE Reset
  <2>1. /\ loop' = "initial" /\ UNCHANGED currentTime
        /\ UNCHANGED <<obsTopic, policyTopic, messages, worker>>
        /\ active' = NoPolicy /\ latest' = NoPolicy /\ received' = FALSE
    BY <1>4 DEF Reset, Goto, ResetMpcNode, Buffer!Clear
  <2>2. Answers' \subseteq Answers
    BY <2>1 DEF Answers
  <2>3. InPeriod'
    BY <2>1 DEF InPeriod
  <2> QED BY <1>3, <2>1, <2>2, <2>3
<1>5. CASE InitialSpin \/ Spin \/ SpinAgain \/ SpinLast
  <2>1. SpinMrt /\ UNCHANGED currentTime
    BY <1>5 DEF InitialSpin, Spin, SpinAgain, SpinLast, Goto
  <2>2. UNCHANGED <<obsTopic, messages, worker, active>>
    BY <2>1 DEF SpinMrt, Buffer!Put, buffers
  <2>3. Answers' \subseteq Answers /\ (Answers = {} => UNCHANGED received)
    <3>1. CASE CanTake(policyTopic)
      <4>1. /\ Contents(policyTopic.inbox) = {Message(policyTopic)}
            /\ Contents(Taken(policyTopic).inbox) = {}
            /\ Taken(policyTopic).wire = policyTopic.wire
        BY <3>1, TopicContents DEF SystemInv, ChannelInv
      <4>2. policyTopic' = Taken(policyTopic) /\ latest' = Message(policyTopic)
        BY <2>1, <3>1 DEF SpinMrt, Buffer!Put
      <4> QED BY <2>2, <4>1, <4>2 DEF Answers
    <3>2. CASE ~CanTake(policyTopic)
      <4>1. UNCHANGED <<policyTopic, active, latest, received>>
        BY <2>1, <3>2 DEF SpinMrt, buffers
      <4> QED BY <4>1, StagesKept
    <3> QED BY <3>1, <3>2
  <2>4. Fresh => ~received' /\ loop' \in {"reset", "initial", "send_initial"}
    BY <1>5, <2>3 DEF Fresh, InitialSpin, Spin, SpinAgain, SpinLast, Goto
  <2>5. ASSUME synchronized, InPeriod PROVE InPeriod'
    <3>1. /\ loop' # "update" /\ loop' # "send"
          /\ loop' = "simulate" => loop = "spin" /\ ~policyIsDue
          /\ loop' \in {"spin", "spin_last"} => loop = "spin_last"
      BY <1>5, <2>5 DEF InitialSpin, Spin, SpinAgain, SpinLast, Goto
    <3> QED BY <1>1, <1>2, <2>1, <2>5, <3>1 DEF InPeriod
  <2> QED BY <1>3, <2>1, <2>2, <2>3, <2>4, <2>5
<1>6. CASE InitialSend
  <2>1. loop = "send_initial" /\ loop' = "initial" /\ UNCHANGED currentTime
    BY <1>6 DEF InitialSend, Goto
  <2>2. currentTime = 0
    BY <2>1 DEF SystemInv, StartInv
  <2>3. SetCurrentObservation(currentTime)
    BY <1>6, <2>2 DEF InitialSend
  <2>4. Followed => currentTime <= Solved + settings.mpcUpdateRatio
    BY <1>2, <2>2, PeriodTyping
  <2>5. InPeriod'
    BY <2>1 DEF InPeriod
  <2> QED BY <1>1, <2>1, <2>2, <2>3, <2>4, <2>5, SendPace
<1>7. CASE InitialReceived
  <2>1. /\ loop' = "spin" /\ received /\ UNCHANGED currentTime /\ UNCHANGED vars
        /\ currentTime = 0
    BY <1>7 DEF InitialReceived, Goto, SystemInv, StartInv
  <2>2. UNCHANGED <<obsTopic, messages, worker, Answers>>
    BY <2>1, StagesKept DEF vars, channels, nodeVars, buffers
  <2>3. InPeriod'
    BY <1>2, <2>1, Periods DEF InPeriod
  <2> QED BY <1>3, <2>1, <2>2, <2>3 DEF Fresh
<1>8. CASE Update \/ Await
  <2>1. /\ loop \in {"update", "await"} /\ UNCHANGED currentTime
        /\ loop' \in {"simulate", "spin_again"}
        /\ IF latest # NoPolicy THEN UpdatePolicy ELSE UNCHANGED vars
        /\ loop = "await" /\ loop' = "simulate" =>
              latest # NoPolicy /\ latest.time = currentTime
    BY <1>8 DEF Update, Await, Goto
  <2>2. UNCHANGED <<obsTopic, messages, worker>> /\ Answers' \subseteq Answers
    <3>1. CASE latest # NoPolicy
      BY <2>1, <3>1 DEF UpdatePolicy, Buffer!Take, channels, Answers
    <3>2. CASE latest = NoPolicy
      BY <2>1, <3>2, StagesKept DEF vars, channels, nodeVars, buffers
    <3> QED BY <3>1, <3>2
  <2>3. ASSUME Followed, InPeriod PROVE InPeriod'
    <3>1. loop = "await"
      BY <2>1, <2>3 DEF InPeriod
    <3>2. CASE loop' = "simulate"
      <4>1. latest \in Answers /\ latest.time = currentTime
        BY <2>1, <3>1, <3>2 DEF Answers
      <4>2. currentTime <= Solved
        BY <2>3, <4>1 DEF Followed
      <4>3. LastDue(currentTime) <= Solved
        BY <1>2, <2>3, <4>2
      <4> QED BY <1>1, <1>2, <2>1, <3>2, <4>3 DEF InPeriod
    <3>3. CASE loop' # "simulate"
      BY <2>1, <3>3 DEF InPeriod
    <3> QED BY <3>2, <3>3
  <2>4. ~Fresh
    BY <2>1 DEF Fresh
  <2> QED BY <1>3, <2>1, <2>2, <2>3, <2>4
<1>9. CASE Simulate
  <2>1. /\ loop = "simulate" /\ loop' = "send" /\ currentTime' = currentTime + 1
        /\ UNCHANGED vars
    BY <1>9 DEF Simulate
  <2>2. UNCHANGED <<obsTopic, messages, worker, Answers>>
    BY <2>1, StagesKept DEF vars, channels, nodeVars, buffers
  <2>3. currentTime' > 0 /\ currentTime' - 1 = currentTime
    BY <1>2, <2>1
  <2>4. InPeriod => InPeriod'
    BY <1>1, <1>2, <2>1, <2>3 DEF InPeriod
  <2> QED BY <1>3, <2>1, <2>2, <2>4 DEF Fresh
<1>10. CASE Send
  <2>1. /\ loop = "send" /\ UNCHANGED currentTime
        /\ synchronized => loop' = "spin_last"
    BY <1>10 DEF Send, Goto
  <2>2. ~Fresh
    BY <2>1 DEF Fresh
  <2>3. CASE synchronized /\ ~policyIsDue
    <3>1. UNCHANGED vars
      BY <1>10, <2>3 DEF Send
    <3>2. UNCHANGED <<obsTopic, messages, worker, Answers>>
      BY <3>1, StagesKept DEF vars, channels, nodeVars, buffers
    <3>3. ASSUME InPeriod PROVE InPeriod'
      <4>1. currentTime - 1 \in Nat /\ (currentTime - 1) + 1 = currentTime
        BY <1>2, <2>1, <3>3 DEF InPeriod
      <4>2. LastDue(currentTime) = LastDue(currentTime - 1)
        BY <2>3, <4>1, Periods
      <4> QED BY <1>1, <1>2, <2>1, <2>3, <3>3, <4>2 DEF InPeriod
    <3> QED BY <1>3, <2>1, <2>2, <3>2, <3>3
  <2>4. CASE ~synchronized
    BY <1>1, <2>4, StagesKept DEF PaceInv
  <2>5. CASE synchronized /\ policyIsDue
    <3>1. SetCurrentObservation(currentTime)
      BY <1>10, <2>5 DEF Send
    <3>2. ASSUME Followed, InPeriod
          PROVE  currentTime <= Solved + settings.mpcUpdateRatio
      <4>1. /\ currentTime - 1 \in Nat /\ (currentTime - 1) + 1 = currentTime
            /\ LastDue(currentTime - 1) <= Solved
        BY <1>2, <2>1, <3>2 DEF InPeriod
      <4>2. LastDue(currentTime - 1) = currentTime - settings.mpcUpdateRatio
        BY <2>5, <4>1, Periods
      <4> QED BY <1>2, <3>2, <4>1, <4>2, PeriodTyping
    <3>3. InPeriod'
      BY <1>2, <2>1, <2>5 DEF InPeriod
    <3> QED BY <1>1, <2>1, <2>2, <3>1, <3>2, <3>3, SendPace
  <2> QED BY <2>3, <2>4, <2>5
<1> QED BY <1>4, <1>5, <1>6, <1>7, <1>8, <1>9, <1>10 DEF LoopNext, LoopStep

LEMMA MrtWorkerPace == SystemInv /\ PaceInv /\ (MrtWorkerNext \/ MrtWakeup) => PaceInv'
<1> SUFFICES ASSUME SystemInv, PaceInv, MrtWorkerNext \/ MrtWakeup PROVE PaceInv'
  OBVIOUS
<1>1. /\ UNCHANGED <<mpcVars, loopVars, session, policyTopic, buffers>>
      /\ WorkerStep \/ WorkerSpuriousWakeup
  BY DEF MrtWorkerNext, MrtWakeup, WorkerStep, WorkerTest, WorkerWait, WorkerMove,
         WorkerPublish, WorkerSpuriousWakeup, channels
<1>2. /\ UNCHANGED <<executor, observation, initRun_, finalTime, epoch, solution, buffer,
                     publisher, active, latest, received, settings, loop, currentTime>>
      /\ UNCHANGED <<Running, Computed, Answers>>
  BY <1>1, StagesKept DEF mpcVars, loopVars, buffers
<1>3. ObservationsMove
  <2>1. CASE WorkerPublish
    <3>1. /\ worker = "publish" /\ worker' = "test" /\ UNCHANGED messages
          /\ obsTopic' = Published(obsTopic, mpcObservationMsgBuffer_)
          /\ obsTopic \in Topics(Sent) /\ mpcObservationMsgBuffer_ \in Sent
      BY <2>1 DEF WorkerPublish, SystemInv, ChannelInv, ClientInv
    <3>2. OnWire' = Copied /\ UNCHANGED Inbox
      BY <3>1, TopicContents DEF OnWire, Inbox, Copied
    <3>3. Copied' = {} /\ UNCHANGED Ready
      BY <3>1 DEF Copied, Ready, messages
    <3> QED BY <1>2, <3>2, <3>3 DEF ObservationsMove
  <2>2. CASE WorkerMove
    <3>1. /\ worker = "lock" /\ worker' = "publish" /\ readyToPublish_ /\ ~readyToPublish_'
          /\ mpcObservationMsgBuffer_' = mpcObservationMsg_ /\ UNCHANGED obsTopic
      BY <2>2 DEF WorkerMove, channels
    <3>2. Copied' = Ready /\ Ready' = {}
      BY <3>1 DEF Copied, Ready
    <3> QED BY <1>2, <3>1, <3>2, StagesKept DEF ObservationsMove
  <2>3. CASE WorkerTest \/ WorkerWait \/ WorkerSpuriousWakeup
    <3>1. UNCHANGED <<obsTopic, messages>> /\ worker # "publish" /\ worker' # "publish"
      BY <2>3 DEF WorkerTest, WorkerWait, WorkerSpuriousWakeup, channels
    <3>2. UNCHANGED <<Copied, Ready>>
      BY <3>1 DEF Copied, Ready, messages
    <3> QED BY <1>2, <3>1, <3>2, StagesKept DEF ObservationsMove
  <2> QED BY <1>1, <2>1, <2>2, <2>3 DEF WorkerStep
<1>4. PoliciesMove
  BY <1>2 DEF PoliciesMove
<1>5. Fresh => ~received' /\ loop' \in {"reset", "initial", "send_initial"}
  BY <1>2 DEF Fresh
<1>6. synchronized /\ Followed /\ InPeriod => InPeriod'
  BY <1>2, StagesKept
<1> QED BY <1>1, <1>2, <1>3, <1>4, <1>5, <1>6, PaceKept

LEMMA DeliveryPace == SystemInv /\ PaceInv /\ (DeliverObservation \/ DeliverPolicy) => PaceInv'
<1> SUFFICES ASSUME SystemInv, PaceInv, DeliverObservation \/ DeliverPolicy PROVE PaceInv'
  OBVIOUS
<1>1. /\ UNCHANGED <<executor, observation, initRun_, finalTime, epoch, solution, buffer,
                     publisher, active, latest, received, settings, loop, currentTime,
                     session, messages, worker>>
      /\ UNCHANGED <<Running, Copied, Ready, Computed>>
  BY StagesKept DEF DeliverObservation, DeliverPolicy, mpcVars, mrtVars, nodeVars, loopVars,
                    buffers
<1>2. ObservationsMove /\ Answers' \subseteq Answers
  <2>1. CASE DeliverObservation
    <3>1. obsTopic' = Delivered(obsTopic) /\ UNCHANGED policyTopic
      BY <2>1 DEF DeliverObservation
    <3>2. Inbox' = OnWire /\ OnWire' = {}
      BY <3>1, TopicContents DEF SystemInv, ChannelInv, Inbox, OnWire
    <3> QED BY <1>1, <3>1, <3>2, StagesKept DEF ObservationsMove
  <2>2. CASE DeliverPolicy
    <3>1. policyTopic' = Delivered(policyTopic) /\ UNCHANGED obsTopic
      BY <2>2 DEF DeliverPolicy
    <3>2. /\ Contents(policyTopic'.inbox) = Contents(policyTopic.wire)
          /\ Contents(policyTopic'.wire) = {}
      BY <3>1, TopicContents DEF SystemInv, ChannelInv
    <3> QED BY <1>1, <3>1, <3>2, StagesKept DEF ObservationsMove, Answers
  <2> QED BY <2>1, <2>2
<1>3. PoliciesMove
  BY <1>1, <1>2 DEF PoliciesMove
<1>4. Fresh => ~received' /\ loop' \in {"reset", "initial", "send_initial"}
  BY <1>1 DEF Fresh
<1>5. synchronized /\ Followed /\ InPeriod => InPeriod'
  BY <1>1, StagesKept
<1> QED BY <1>1, <1>2, <1>3, <1>4, <1>5, PaceKept

LEMMA PaceInitial == Init => PaceInv
<1> SUFFICES ASSUME Init PROVE PaceInv
  OBVIOUS
<1>1. /\ obsTopic = Empty /\ policyTopic = Empty
      /\ executor # "run" /\ worker = "test" /\ readyToPublish_ = FALSE
      /\ {solution, buffer, publisher} = {Mpc!NullPolicy}
      /\ active = NoPolicy /\ latest = NoPolicy /\ received = FALSE
      /\ loop = "reset" /\ initRun_ = TRUE
  BY DEF Init, Mpc!NodeInit, NodeInit, Buffer!Init, LoopInit
<1>2. Contents(Empty.inbox) = {} /\ Contents(Empty.wire) = {}
  BY DEF Empty, Contents
<1>3. OnTheWay = {} /\ Running = {} /\ Inbox = {} /\ OnWire = {} /\ Copied = {}
  BY <1>1, <1>2 DEF OnTheWay, Running, Inbox, OnWire, Copied, Ready
<1>4. Answers = {} /\ Computed = {Mpc!NullPolicy}
  BY <1>1, <1>2 DEF Answers, Computed
<1>5. InOrder
  BY <1>3 DEF InOrder, Precede
<1> QED BY <1>1, <1>3, <1>4, <1>5 DEF PaceInv, Fresh

LEMMA PaceInductive == SystemInv /\ PaceInv /\ [Next]_systemVars => PaceInv'
<1> SUFFICES ASSUME SystemInv, PaceInv, [Next]_systemVars PROVE PaceInv'
  OBVIOUS
<1>1. CASE UNCHANGED systemVars
  <2>1. /\ UNCHANGED <<executor, observation, initRun_, finalTime, epoch, solution, buffer,
                       publisher, active, latest, received, settings, loop, currentTime,
                       session, messages, worker, obsTopic, policyTopic>>
    BY <1>1 DEF systemVars, channels, mpcVars, mrtVars, nodeVars, loopVars, buffers
  <2>2. ObservationsMove /\ PoliciesMove
    BY <2>1, StagesKept DEF ObservationsMove, PoliciesMove
  <2>3. Fresh => ~received' /\ loop' \in {"reset", "initial", "send_initial"}
    BY <2>1 DEF Fresh
  <2>4. synchronized /\ Followed /\ InPeriod => InPeriod'
    BY <2>1, StagesKept
  <2> QED BY <2>1, <2>2, <2>3, <2>4, PaceKept
<1>2. CASE Restart
  <2>1. session' # 1
    <3>1. session \in 1..MaxSessions /\ session' = session + 1
      BY <1>2 DEF Restart, SystemInv, LoopInv
    <3> QED BY <3>1, LoopAssumption
  <2> QED BY <2>1 DEF PaceInv
<1>3. CASE Next /\ ~Restart
  BY <1>3, MpcPace, LoopPace, MrtWorkerPace, DeliveryPace DEF Next
<1> QED BY <1>1, <1>2, <1>3

-----------------------------------------------------------------------------
(* The theorems.                                                           *)

THEOREM SystemInvariance == Spec => []SystemInv
BY SystemInitial, SystemInductive, PTL DEF Spec

\* evaluatePolicy() and rolloutPolicy() find a policy whenever the loop calls
\* them, with either loop, any update ratio and any number of restarts
\* (MRT_ROS_Dummy_Loop.cpp:63, 111, 158, 181-202).
THEOREM NeverWithoutPolicy == Spec => []SimulatesWithPolicy
<1>1. SystemInv => SimulatesWithPolicy
  BY DEF SystemInv, StartInv
<1> QED BY <1>1, SystemInvariance, PTL

\* The MPC does not refuse an observation for being behind its horizon: the
\* loop of the first tracking process, synchronized with the MPC at a ratio
\* that fits into the horizon, is never more than one period ahead of the last
\* run of the solver (MPC_BASE.cpp:48-53, MRT_ROS_Dummy_Loop.cpp:81-125).
THEOREM NeverRunsAhead ==
    ASSUME \A s \in Settings : s.synchronized => s.mpcUpdateRatio < Horizon
    PROVE  Spec => []NeverBeyondHorizon
<1>1. SystemInv /\ PaceInv => NeverBeyondHorizon
  <2> SUFFICES ASSUME SystemInv, PaceInv, synchronized, session = 1, executor = "run",
                      ~initRun_
               PROVE  observation < finalTime
    BY DEF NeverBeyondHorizon
  <2>1. settings \in Settings /\ settings.mpcUpdateRatio < Horizon
    BY DEF SystemInv, LoopInv, synchronized
  <2>2. observation \in OnTheWay /\ observation \in Sent /\ Sent \subseteq Nat
    BY TravellersTyping DEF OnTheWay, Running
  <2>3. Followed
    BY DEF PaceInv
  <2>4. observation <= Solved + settings.mpcUpdateRatio /\ Solved \in Nat
    BY <2>2, <2>3, PeriodTyping DEF Followed
  <2>5. Horizon \in Nat /\ settings.mpcUpdateRatio \in Nat /\ finalTime \in Nat
    BY <2>1, <2>3, PeriodTyping, SystemAssumption DEF Followed
  <2> QED BY <2>1, <2>2, <2>4, <2>5 DEF Solved
<1>2. Spec => []PaceInv
  BY PaceInitial, PaceInductive, SystemInvariance, PTL DEF Spec
<1> QED BY <1>1, <1>2, SystemInvariance, PTL

=============================================================================
