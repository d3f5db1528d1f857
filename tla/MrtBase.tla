------------------------------ MODULE MrtBase ------------------------------
(***************************************************************************)
(* The double buffer of MRT_BASE (mpc/ocs2_mpc/src/MRT_BASE.cpp) between   *)
(* two threads: the writer, which receives or computes policies and calls  *)
(* moveToBuffer(), and the user, the tracking loop, which calls            *)
(* updatePolicy(), reset() and reads the active policy without a lock.     *)
(*                                                                         *)
(* A policy travels in three parts behind three pointers, swapped one by   *)
(* one under bufferMutex_.  Policies are numbered in the order in which    *)
(* the writer moves them; the observers called under the lock and the      *)
(* counter behind the warning on failed try-locks are left out.            *)
(***************************************************************************)
EXTENDS Naturals

CONSTANT MaxPolicies      \* bound on the number of policies the writer moves

ASSUME MaxPoliciesAssumption == MaxPolicies \in Nat

Parts == {"command", "primal", "performance"}
Policy == 1..MaxPolicies
NoPolicy == 0             \* a null unique_ptr

VARIABLES
    policyReceivedEver_, newPolicyInBuffer_,
    active,         \* active*Ptr_, per part
    buffer,         \* buffer*Ptr_, per part
    bufferMutex_,   \* the thread that holds it, or "none"
    writerPc,       \* where the writer is: "idle", "lock", a part, "finish"
    incoming,       \* the three pointers moveToBuffer() was called with
    written,        \* how many policies the writer has started to move
    userPc,         \* where the user is: "idle", a part, "finish", "reset"
    moved           \* the last policy moved since the last reset, for the
                    \* properties only

writer == <<writerPc, incoming, written>>
vars == <<policyReceivedEver_, newPolicyInBuffer_, active, buffer,
          bufferMutex_, writer, userPc, moved>>

Whole(p) == [part \in Parts |-> p]

\* The order in which both functions swap the three pointers.
After == [command |-> "primal", primal |-> "performance",
          performance |-> "finish"]

Init ==
    /\ policyReceivedEver_ = FALSE
    /\ newPolicyInBuffer_ = FALSE
    /\ active = Whole(NoPolicy)
    /\ buffer = Whole(NoPolicy)
    /\ bufferMutex_ = "none"
    /\ writerPc = "idle"
    /\ incoming = Whole(NoPolicy)
    /\ written = 0
    /\ userPc = "idle"
    /\ moved = NoPolicy

-----------------------------------------------------------------------------
(* moveToBuffer(), called by the writer with three pointers to one policy. *)

MoveToBuffer ==
    /\ writerPc = "idle"
    /\ written < MaxPolicies
    /\ written' = written + 1
    /\ incoming' = Whole(written + 1)
    /\ writerPc' = "lock"
    /\ UNCHANGED <<policyReceivedEver_, newPolicyInBuffer_, active, buffer,
                   bufferMutex_, userPc, moved>>

\* Mutant: the writer swaps without taking the mutex.
MoveLock_Missing ==
    /\ writerPc = "lock"
    /\ writerPc' = "command"
    /\ UNCHANGED <<policyReceivedEver_, newPolicyInBuffer_, active, buffer,
                   bufferMutex_, incoming, written, userPc, moved>>

MoveLock ==
    /\ writerPc = "lock"
    /\ bufferMutex_ = "none"
    /\ bufferMutex_' = "writer"
    /\ writerPc' = "command"
    /\ UNCHANGED <<policyReceivedEver_, newPolicyInBuffer_, active, buffer,
                   incoming, written, userPc, moved>>

MoveSwap ==
    /\ writerPc \in Parts
    /\ buffer' = [buffer EXCEPT ![writerPc] = incoming[writerPc]]
    /\ incoming' = [incoming EXCEPT ![writerPc] = buffer[writerPc]]
    /\ writerPc' = After[writerPc]
    /\ moved' = IF writerPc' = "finish" THEN written ELSE moved
    /\ UNCHANGED <<policyReceivedEver_, newPolicyInBuffer_, active,
                   bufferMutex_, written, userPc>>

\* The flags; then the lock is released and the old objects are destroyed.
MoveFinish ==
    /\ writerPc = "finish"
    /\ newPolicyInBuffer_' = TRUE
    /\ policyReceivedEver_' = TRUE
    /\ bufferMutex_' = "none"
    /\ incoming' = Whole(NoPolicy)
    /\ writerPc' = "idle"
    /\ UNCHANGED <<active, buffer, written, userPc, moved>>

-----------------------------------------------------------------------------
(* updatePolicy(), called by the user.                                     *)

\* The try-lock succeeds and a new policy waits.  When the mutex is taken or
\* the buffer holds nothing new the function returns false and changes nothing.
UpdatePolicy ==
    /\ userPc = "idle"
    /\ bufferMutex_ = "none"
    /\ newPolicyInBuffer_
    /\ bufferMutex_' = "user"
    /\ userPc' = "command"
    /\ UNCHANGED <<policyReceivedEver_, newPolicyInBuffer_, active, buffer,
                   writer, moved>>

UpdateSwap ==
    /\ userPc \in Parts
    /\ active' = [active EXCEPT ![userPc] = buffer[userPc]]
    /\ buffer' = [buffer EXCEPT ![userPc] = active[userPc]]
    /\ userPc' = After[userPc]
    /\ UNCHANGED <<policyReceivedEver_, newPolicyInBuffer_, bufferMutex_,
                   writer, moved>>

\* Mutant: the flag stays up, so that the next update swaps the old one in.
UpdateFinish_KeepsFlag ==
    /\ userPc = "finish"
    /\ bufferMutex_' = "none"
    /\ userPc' = "idle"
    /\ UNCHANGED <<policyReceivedEver_, newPolicyInBuffer_, active, buffer,
                   writer, moved>>

UpdateFinish ==
    /\ userPc = "finish"
    /\ newPolicyInBuffer_' = FALSE
    /\ bufferMutex_' = "none"
    /\ userPc' = "idle"
    /\ UNCHANGED <<policyReceivedEver_, active, buffer, writer, moved>>

-----------------------------------------------------------------------------
(* reset(), called by the user; it waits for the mutex.                    *)

ResetLock ==
    /\ userPc = "idle"
    /\ bufferMutex_ = "none"
    /\ bufferMutex_' = "user"
    /\ userPc' = "reset"
    /\ UNCHANGED <<policyReceivedEver_, newPolicyInBuffer_, active, buffer,
                   writer, moved>>

\* Mutant: the flag survives while the pointers are released.
Reset_KeepsFlag ==
    /\ userPc = "reset"
    /\ policyReceivedEver_' = FALSE
    /\ active' = Whole(NoPolicy)
    /\ buffer' = Whole(NoPolicy)
    /\ bufferMutex_' = "none"
    /\ userPc' = "idle"
    /\ moved' = NoPolicy
    /\ UNCHANGED <<newPolicyInBuffer_, writer>>

Reset ==
    /\ userPc = "reset"
    /\ policyReceivedEver_' = FALSE
    /\ newPolicyInBuffer_' = FALSE
    /\ active' = Whole(NoPolicy)
    /\ buffer' = Whole(NoPolicy)
    /\ bufferMutex_' = "none"
    /\ userPc' = "idle"
    /\ moved' = NoPolicy
    /\ UNCHANGED writer

-----------------------------------------------------------------------------
WriterStep == MoveToBuffer \/ MoveLock \/ MoveSwap \/ MoveFinish
UserStep == UpdatePolicy \/ UpdateSwap \/ UpdateFinish \/ ResetLock \/ Reset

Next == WriterStep \/ UserStep

Spec == Init /\ [][Next]_vars

-----------------------------------------------------------------------------
(* Correctness.                                                            *)

TypeOK ==
    /\ policyReceivedEver_ \in BOOLEAN /\ newPolicyInBuffer_ \in BOOLEAN
    /\ active \in [Parts -> Policy \cup {NoPolicy}]
    /\ buffer \in [Parts -> Policy \cup {NoPolicy}]
    /\ incoming \in [Parts -> Policy \cup {NoPolicy}]
    /\ bufferMutex_ \in {"none", "writer", "user"}
    /\ writerPc \in Parts \cup {"idle", "lock", "finish"}
    /\ userPc \in Parts \cup {"idle", "reset", "finish"}
    /\ written \in 0..MaxPolicies
    /\ moved \in 0..MaxPolicies

\* Whenever the user is outside the class, command, trajectories and
\* performance indices of the active policy come from one and the same message
\* (MRT_BASE.cpp:169-171, and getCommand() and getPolicy() read together in
\* the loops of MRT_ROS_Dummy_Loop.cpp:133,173).
ActiveIsOnePolicy ==
    userPc \in {"idle", "reset"} => active = Whole(active["primal"])

\* Between two calls the newest policy moved since the last reset is never
\* lost: it waits in the buffer behind the flag, or it is the active one
\* (MRT_BASE.cpp:172 and 218).
NewestIsKept ==
    bufferMutex_ = "none" =>
        /\ newPolicyInBuffer_ => buffer = Whole(moved) /\ moved # NoPolicy
        /\ ~newPolicyInBuffer_ => active = Whole(moved)

\* No step but a reset replaces the active policy by an older one: "make sure
\* we don't swap in the old policy again" (MRT_BASE.cpp:172).
NeverBackwards ==
    [][active["primal"]' >= active["primal"] \/ userPc = "reset"]_vars

\* The mailbox this buffer implements.  A move and an update take effect with
\* their last swap: the flag is only set, respectively cleared, after it.
waiting == (newPolicyInBuffer_ /\ userPc # "finish") \/ writerPc = "finish"

Mailbox == INSTANCE PolicyMailbox WITH
    active <- active["performance"],
    latest <- IF waiting THEN buffer["performance"] ELSE NoPolicy,
    received <- policyReceivedEver_ \/ writerPc = "finish"

\* MRT_BASE implements the mailbox: no policy is taken twice, none is taken
\* in pieces, an untaken one is overwritten by the next.
ImplementsMailbox == Mailbox!Spec

-----------------------------------------------------------------------------
(* The inductive invariant behind these properties.                        *)

\* The parts that have been swapped when a thread is at pc.
Swapped(pc) ==
    CASE pc = "primal" -> {"command"}
      [] pc = "performance" -> {"command", "primal"}
      [] pc = "finish" -> Parts
      [] OTHER -> {}

\* The mutex is held exactly by the thread inside a critical section.
LockInv ==
    /\ bufferMutex_ = "writer" <=> writerPc \in Parts \cup {"finish"}
    /\ bufferMutex_ = "user" <=> userPc \in Parts \cup {"finish", "reset"}

\* Half-way through a move the swapped parts are the new policy and the others
\* still the old content, which is the newest policy if the flag is up.
MoveInv ==
    /\ moved <= written
    /\ writerPc = "lock" => incoming = Whole(written)
    /\ writerPc # "idle" => written > 0
    /\ writerPc \in Parts \cup {"finish"} =>
          \A part \in Parts :
              IF part \in Swapped(writerPc)
              THEN buffer[part] = written
              ELSE incoming[part] = written
    /\ writerPc \in Parts =>
          /\ newPolicyInBuffer_ => moved # NoPolicy
          /\ ~newPolicyInBuffer_ => active = Whole(moved)
    /\ writerPc = "finish" => moved = written

\* Half-way through an update the swapped parts of the active policy are the
\* newest one, and the others still wait in the buffer.
UpdateInv ==
    /\ \A part \in Parts : active[part] <= moved
    /\ userPc \in Parts \cup {"finish"} =>
          /\ newPolicyInBuffer_ /\ moved # NoPolicy
          /\ \A part \in Parts :
                IF part \in Swapped(userPc)
                THEN active[part] = moved
                ELSE buffer[part] = moved

\* Command, trajectories and indices stay together, and the newest policy is
\* where the flag says, through every interleaving of the two threads.
IInv ==
    /\ TypeOK /\ LockInv /\ MoveInv /\ UpdateInv
    /\ ActiveIsOnePolicy /\ NewestIsKept

=============================================================================
