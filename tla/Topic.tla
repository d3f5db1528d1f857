-------------------------------- MODULE Topic --------------------------------
(***************************************************************************)
(* A ROS 2 topic with one publisher and one subscription, both with a      *)
(* history of depth 1, as MPC_ROS_Interface and MRT_ROS_Interface create   *)
(* them (queue length 1).  The middleware is external: it keeps the order, *)
(* delivers after an arbitrary delay, and on either side a newer message   *)
(* overwrites one that has not moved on.                                   *)
(***************************************************************************)

Empty == [wire |-> <<>>, inbox |-> <<>>]

Topics(Messages) ==
    [wire : {<<>>} \cup {<<m>> : m \in Messages},
     inbox : {<<>>} \cup {<<m>> : m \in Messages}]

\* publish(): the message replaces one that is still on its way.
Published(topic, m) == [topic EXCEPT !.wire = <<m>>]

\* The message arrives and replaces one the subscription has not taken.
CanDeliver(topic) == topic.wire # <<>>
Delivered(topic) == [wire |-> <<>>, inbox |-> topic.wire]

\* The executor takes the message for the subscription's callback.
CanTake(topic) == topic.inbox # <<>>
Message(topic) == topic.inbox[1]
Taken(topic) == [topic EXCEPT !.inbox = <<>>]

=============================================================================
