---------------------------- MODULE PolicyMailbox ----------------------------
(***************************************************************************)
(* What the policy buffer of MRT_BASE promises                             *)
(* (mpc/ocs2_mpc/include/ocs2_mpc/MRT_BASE.h): a mailbox with one place.   *)
(* A new policy overwrites one that was not taken; taking a policy makes   *)
(* it the active one and empties the mailbox, so that no policy is taken   *)
(* twice; reset() returns to the instantiated state.                       *)
(***************************************************************************)
CONSTANTS
    Policy,     \* the policies that can be sent
    NoPolicy    \* the null pointer

VARIABLES
    active,     \* the policy in use, NoPolicy before the first update
    latest,     \* the policy waiting to be taken, NoPolicy if there is none
    received    \* policyReceivedEver_

vars == <<active, latest, received>>

TypeOK ==
    /\ active \in Policy \cup {NoPolicy}
    /\ latest \in Policy \cup {NoPolicy}
    /\ received \in BOOLEAN

Init ==
    /\ active = NoPolicy
    /\ latest = NoPolicy
    /\ received = FALSE

\* moveToBuffer()
Put(p) ==
    /\ latest' = p
    /\ received' = TRUE
    /\ UNCHANGED active

\* updatePolicy() that returns true
Take ==
    /\ latest # NoPolicy
    /\ active' = latest
    /\ latest' = NoPolicy
    /\ UNCHANGED received

\* reset()
Clear ==
    /\ active' = NoPolicy
    /\ latest' = NoPolicy
    /\ received' = FALSE

Next ==
    \/ \E p \in Policy : Put(p)
    \/ Take
    \/ Clear

Spec == Init /\ [][Next]_vars

=============================================================================
