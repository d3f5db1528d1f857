------------------------ MODULE MpcMrtInterfaceProofs ------------------------
(***************************************************************************)
(* Proofs about the policy buffer (MrtBase) and about MPC and tracking in  *)
(* one process, which use it (MpcMrtInterface).  The double buffer         *)
(* implements the mailbox, keeps the three parts of a policy together and  *)
(* never loses the newest one; the two threads of the process use it as    *)
(* MRT_BASE demands, so that what is proved of the buffer holds there, and *)
(* a command always describes the policy it travels with, for any number   *)
(* of policies, references and observations.                               *)
(***************************************************************************)
EXTENDS MpcMrtInterface, Integers, TLAPS

-----------------------------------------------------------------------------
(* The policy buffer of its own: Spec is that of MrtBase.                  *)

\* The initial state satisfies the invariant.
LEMMA InitInv == Init => IInv
<1> SUFFICES ASSUME Init PROVE IInv
  OBVIOUS
<1> USE MaxPoliciesAssumption DEF Init, Parts, Policy, NoPolicy, Whole
<1>1. TypeOK
  <2>1. [part \in Parts |-> 0] \in [Parts -> Policy \cup {NoPolicy}]
    OBVIOUS
  <2>2. active \in [Parts -> Policy \cup {NoPolicy}] /\ buffer = active /\ incoming = active
    BY <2>1
  <2>3. written \in 0..MaxPolicies /\ moved \in 0..MaxPolicies
    OBVIOUS
  <2> QED
    BY ONLY <2>2, <2>3, Init DEF TypeOK, Init
<1>2. LockInv /\ MoveInv /\ UpdateInv
  BY DEF LockInv, MoveInv, UpdateInv
<1>3. ActiveIsOnePolicy /\ NewestIsKept
  BY DEF ActiveIsOnePolicy, NewestIsKept
<1> QED
  BY <1>1, <1>2, <1>3 DEF IInv

\* Every action preserves the invariant.
LEMMA NextInv == IInv /\ [Next]_vars => IInv'
<1> SUFFICES ASSUME IInv, [Next]_vars PROVE IInv'
  OBVIOUS
<1> USE MaxPoliciesAssumption
    DEF Parts, Policy, NoPolicy, Whole, After, Swapped
<1>1. CASE MoveToBuffer
  BY <1>1 DEF MoveToBuffer, IInv, TypeOK, LockInv, MoveInv, UpdateInv,
              ActiveIsOnePolicy, NewestIsKept
<1>2. CASE MoveLock
  BY <1>2 DEF MoveLock, IInv, TypeOK, LockInv, MoveInv, UpdateInv,
              ActiveIsOnePolicy, NewestIsKept, writer
<1>3. CASE MoveSwap
  BY <1>3 DEF MoveSwap, IInv, TypeOK, LockInv, MoveInv, UpdateInv,
              ActiveIsOnePolicy, NewestIsKept
<1>4. CASE MoveFinish
  BY <1>4 DEF MoveFinish, IInv, TypeOK, LockInv, MoveInv, UpdateInv,
              ActiveIsOnePolicy, NewestIsKept
<1>5. CASE UpdatePolicy
  BY <1>5 DEF UpdatePolicy, IInv, TypeOK, LockInv, MoveInv, UpdateInv,
              ActiveIsOnePolicy, NewestIsKept, writer
<1>6. CASE UpdateSwap
  BY <1>6 DEF UpdateSwap, IInv, TypeOK, LockInv, MoveInv, UpdateInv,
              ActiveIsOnePolicy, NewestIsKept, writer
<1>7. CASE UpdateFinish
  BY <1>7 DEF UpdateFinish, IInv, TypeOK, LockInv, MoveInv, UpdateInv,
              ActiveIsOnePolicy, NewestIsKept, writer
<1>8. CASE ResetLock
  BY <1>8 DEF ResetLock, IInv, TypeOK, LockInv, MoveInv, UpdateInv,
              ActiveIsOnePolicy, NewestIsKept, writer
<1>9. CASE Reset
  <2>1. [part \in Parts |-> 0] \in [Parts -> Policy \cup {NoPolicy}]
    OBVIOUS
  <2>2. /\ active' \in [Parts -> Policy \cup {NoPolicy}]
        /\ buffer' \in [Parts -> Policy \cup {NoPolicy}]
        /\ moved' \in 0..MaxPolicies
    BY <1>9, <2>1 DEF Reset
  <2>3. TypeOK'
    BY <1>9, <2>2 DEF Reset, IInv, TypeOK, writer
  <2>4. LockInv'
    BY <1>9 DEF Reset, IInv, TypeOK, LockInv, writer
  <2>5. writerPc \in {"idle", "lock"}
    BY <1>9 DEF Reset, IInv, TypeOK, LockInv
  <2>6. MoveInv'
    BY <1>9, <2>5 DEF Reset, IInv, TypeOK, MoveInv, writer
  <2>7. UpdateInv' /\ ActiveIsOnePolicy' /\ NewestIsKept'
    BY <1>9 DEF Reset, UpdateInv, ActiveIsOnePolicy, NewestIsKept
  <2> QED
    BY <2>6, <2>7, <2>3, <2>4 DEF IInv
<1>10. CASE UNCHANGED vars
  BY <1>10 DEF vars, writer, IInv, TypeOK, LockInv, MoveInv, UpdateInv,
              ActiveIsOnePolicy, NewestIsKept
<1> QED
  BY <1>1, <1>2, <1>3, <1>4, <1>5, <1>6, <1>7, <1>8, <1>9, <1>10
     DEF Next, WriterStep, UserStep

-----------------------------------------------------------------------------
\* The invariant holds in every reachable state (MRT_BASE.cpp:42-56, 160-220).
THEOREM Invariance == Spec => []IInv
BY InitInv, NextInv, PTL DEF Spec

\* The variables keep their types (MRT_BASE.h:172-184).
THEOREM Typing == Spec => []TypeOK
<1>1. IInv => TypeOK
  BY DEF IInv
<1> QED
  BY Invariance, <1>1, PTL

\* The active policy is never a mixture of two (MRT_BASE.cpp:169-171).
THEOREM ActiveIsWhole == Spec => []ActiveIsOnePolicy
<1>1. IInv => ActiveIsOnePolicy
  BY DEF IInv
<1> QED
  BY Invariance, <1>1, PTL

\* The newest policy is never lost between two calls (MRT_BASE.cpp:172, 218).
THEOREM NothingLost == Spec => []NewestIsKept
<1>1. IInv => NewestIsKept
  BY DEF IInv
<1> QED
  BY Invariance, <1>1, PTL

\* Only a reset brings an older policy back (MRT_BASE.cpp:172).
THEOREM Monotone == Spec => NeverBackwards
<1>1. IInv /\ [Next]_vars =>
        [active["primal"]' >= active["primal"] \/ userPc = "reset"]_vars
  <2> SUFFICES ASSUME IInv, Next
               PROVE  active["primal"]' >= active["primal"] \/ userPc = "reset"
    BY DEF vars
  <2> USE MaxPoliciesAssumption DEF Parts, Policy, NoPolicy
  <2>1. active["primal"] \in Nat /\ moved \in Nat /\ active["primal"] <= moved
    BY DEF IInv, TypeOK, UpdateInv
  <2>2. CASE UpdateSwap
    <3>1. buffer["primal"] = moved \/ userPc # "primal"
      BY <2>2 DEF UpdateSwap, IInv, UpdateInv, Swapped
    <3> QED
      BY <2>1, <2>2, <3>1 DEF UpdateSwap, IInv, TypeOK
  <2>3. CASE Reset
    BY <2>3 DEF Reset
  <2>4. CASE ~(UpdateSwap \/ Reset)
    BY <2>1, <2>4 DEF Next, WriterStep, UserStep, MoveToBuffer, MoveLock,
                 MoveSwap, MoveFinish, UpdatePolicy, UpdateFinish, ResetLock
  <2> QED
    BY <2>2, <2>3, <2>4
<1> QED
  BY Invariance, <1>1, PTL DEF Spec, NeverBackwards

-----------------------------------------------------------------------------
(* The refinement.  The last swap of a move is Put, the last swap of an    *)
(* update is Take, reset() is Clear, and every other step stutters.        *)

\* Every step of the buffer is a step of the mailbox or leaves it alone.
LEMMA StepSimulation == IInv /\ [Next]_vars => [Mailbox!Next]_(Mailbox!vars)
<1> SUFFICES ASSUME IInv, [Next]_vars
             PROVE  Mailbox!Next \/ UNCHANGED Mailbox!vars
  OBVIOUS
<1> USE MaxPoliciesAssumption
    DEF Parts, Policy, NoPolicy, Mailbox!vars, waiting
<1>1. CASE MoveToBuffer
  BY <1>1 DEF MoveToBuffer
<1>2. CASE MoveLock
  BY <1>2 DEF MoveLock, writer
<1>3. CASE MoveSwap
  <2>1. CASE writerPc = "performance"
    <3>1. Mailbox!Put(written)
      BY <1>3, <2>1 DEF MoveSwap, After, Mailbox!Put, IInv, TypeOK, MoveInv,
                        Swapped
    <3>2. written \in Policy
      BY <2>1 DEF IInv, TypeOK, MoveInv
    <3> QED
      BY <3>1, <3>2 DEF Mailbox!Next
  <2>2. CASE writerPc # "performance"
    BY <1>3, <2>2 DEF MoveSwap, After, IInv, TypeOK
  <2> QED
    BY <2>1, <2>2
<1>4. CASE MoveFinish
  BY <1>4 DEF MoveFinish, IInv, LockInv
<1>5. CASE UpdatePolicy
  BY <1>5 DEF UpdatePolicy, writer
<1>6. CASE UpdateSwap
  <2>1. newPolicyInBuffer_ /\ writerPc # "finish"
    BY <1>6 DEF UpdateSwap, IInv, LockInv, UpdateInv
  <2>2. CASE userPc = "performance"
    <3>1. buffer["performance"] # NoPolicy
      BY <2>2 DEF IInv, UpdateInv, Swapped
    <3>2. Mailbox!Take
      BY <1>6, <2>1, <2>2, <3>1 DEF UpdateSwap, After, Mailbox!Take, IInv,
                                    TypeOK, writer
    <3> QED
      BY <3>2 DEF Mailbox!Next
  <2>3. CASE userPc # "performance"
    BY <1>6, <2>1, <2>3 DEF UpdateSwap, After, IInv, TypeOK, writer
  <2> QED
    BY <2>2, <2>3
<1>7. CASE UpdateFinish
  BY <1>7 DEF UpdateFinish, IInv, LockInv, writer
<1>8. CASE ResetLock
  BY <1>8 DEF ResetLock, writer
<1>9. CASE Reset
  <2>1. writerPc # "finish"
    BY <1>9 DEF Reset, IInv, LockInv
  <2>2. Mailbox!Clear
    BY <1>9, <2>1 DEF Reset, Whole, writer, Mailbox!Clear
  <2> QED
    BY <2>2 DEF Mailbox!Next
<1>10. CASE UNCHANGED vars
  BY <1>10 DEF vars, writer
<1> QED
  BY <1>1, <1>2, <1>3, <1>4, <1>5, <1>6, <1>7, <1>8, <1>9, <1>10
     DEF Next, WriterStep, UserStep

\* The double buffer implements the one-place mailbox (MRT_BASE.cpp:160-220).
THEOREM Refinement == Spec => ImplementsMailbox
<1>1. Init => Mailbox!Init
  BY DEF Init, Mailbox!Init, waiting, Whole, Parts
<1> QED
  BY Invariance, <1>1, StepSimulation, PTL DEF Spec, ImplementsMailbox, Mailbox!Spec

-----------------------------------------------------------------------------
(* The policy buffer within one process.                                   *)

\* Every step is one of the writer's, one of the user's, or leaves the buffer
\* alone.
LEMMA BufferStep == [InterfaceNext]_interfaceVars => [Next]_vars
<1> SUFFICES ASSUME [InterfaceNext]_interfaceVars PROVE Next \/ UNCHANGED vars
  OBVIOUS
<1>1. CASE AdvanceMpc \/ PreSolverRun \/ Solve \/ SolveThrows
  BY <1>1 DEF AdvanceMpc, PreSolverRun, Solve, SolveThrows
<1>2. CASE CopyToBuffer
  BY <1>2 DEF CopyToBuffer, Next, WriterStep
<1>3. CASE Move
  BY <1>3 DEF Move, Next, WriterStep
<1>4. CASE MrtStep
  BY <1>4 DEF MrtStep, Next
<1>5. CASE SetCurrentObservation \/ ResetMpcNode
  BY <1>5 DEF SetCurrentObservation, ResetMpcNode
<1>6. CASE SetTargetTrajectories \/ SetModeSchedule
  BY <1>6 DEF SetTargetTrajectories, SetModeSchedule
<1>7. CASE UNCHANGED interfaceVars
  BY <1>7 DEF interfaceVars
<1> QED
  BY <1>1, <1>2, <1>3, <1>4, <1>5, <1>6, <1>7 DEF InterfaceNext, MpcStep

\* advanceMpc() is the only writer of the policy buffer and the user its only
\* reader (MPC_MRT_Interface.cpp:121, MRT_BASE.cpp:160-220).
THEOREM UsesBuffer == InterfaceSpec => UsesMrtBase
<1>1. InterfaceInit => Init
  BY DEF InterfaceInit
<1> QED
  BY <1>1, BufferStep, PTL DEF InterfaceSpec, UsesMrtBase, Spec

\* The invariant of the policy buffer holds within one process as well.
LEMMA BufferInvariance == InterfaceSpec => []IInv
BY UsesBuffer, Invariance, PTL DEF UsesMrtBase

-----------------------------------------------------------------------------
(* References.                                                             *)

\* The variables the references live in keep their types.
ReferencesTyped ==
    /\ mpc \in {"idle", "targets", "schedule", "solve", "copy", "move"}
    /\ targetTrajectories_ \in
          [activeValue_ : TargetTrajectories,
           buffer_ : TargetTrajectories \cup {NoValue}]
    /\ modeSchedule_ \in [activeValue_ : ModeSchedule,
                          buffer_ : ModeSchedule \cup {NoValue}]
    /\ set \in References /\ known \in References

\* What waits in a buffer is the newest that was set, and if nothing waits it
\* has become the active value.
TargetsInv ==
    /\ targetTrajectories_.activeValue_.number <= set.target
    /\ targetTrajectories_.activeValue_.after <= set.schedule
    /\ IF targetTrajectories_.buffer_ = NoValue
       THEN targetTrajectories_.activeValue_.number = set.target
       ELSE /\ targetTrajectories_.buffer_.number = set.target
            /\ targetTrajectories_.buffer_.after <= set.schedule

ScheduleInv ==
    /\ modeSchedule_.activeValue_ <= set.schedule
    /\ IF modeSchedule_.buffer_ = NoValue
       THEN modeSchedule_.activeValue_ = set.schedule
       ELSE modeSchedule_.buffer_ = set.schedule

\* From the start of the MPC on, each half of the references that has been
\* taken is as new as what had been set by then.
KnownInv ==
    /\ known.target <= set.target /\ known.schedule <= set.schedule
    /\ mpc \in {"schedule", "solve", "copy"} =>
          known.target <= targetTrajectories_.activeValue_.number
    /\ mpc \in {"solve", "copy"} =>
          known.schedule <= modeSchedule_.activeValue_

RefInv ==
    /\ ReferencesTyped /\ TargetsInv /\ ScheduleInv /\ KnownInv
    /\ ScheduleAsNewAsTargets

\* The invariant of the references holds at the beginning.
LEMMA RefInit == InterfaceInit => RefInv
BY InterfaceAssumption
   DEF InterfaceInit, RefInv, ReferencesTyped, TargetsInv, ScheduleInv,
       KnownInv, ScheduleAsNewAsTargets, Buffered, InitialTarget,
       NoReferences, References, TargetTrajectories, ModeSchedule

\* New targets replace those that wait and keep the invariant.
LEMMA RefTargets ==
    ASSUME RefInv, BufferTargets, UNCHANGED <<mpc, known>>
    PROVE  RefInv'
<1> DEFINE new == [number |-> set.target + 1, after |-> set.schedule]
<1> USE DEF RefInv
<1>1. /\ new \in TargetTrajectories /\ new # NoValue
      /\ new.number = set.target + 1 /\ new.after = set.schedule
  BY InterfaceAssumption
     DEF BufferTargets, ReferencesTyped, References, TargetTrajectories,
         ModeSchedule
<1>2. /\ targetTrajectories_' \in [activeValue_ : TargetTrajectories,
                                   buffer_ : TargetTrajectories \cup {NoValue}]
      /\ targetTrajectories_'.activeValue_ = targetTrajectories_.activeValue_
      /\ targetTrajectories_'.buffer_ = new
  BY <1>1 DEF BufferTargets, SetBuffer, ReferencesTyped
<1>3. /\ set' \in References
      /\ set'.target = set.target + 1 /\ set'.schedule = set.schedule
  BY InterfaceAssumption DEF BufferTargets, ReferencesTyped, References
<1>4. ReferencesTyped'
  BY <1>2, <1>3 DEF BufferTargets, ReferencesTyped
<1> HIDE DEF new
<1>5. TargetsInv'
  BY <1>1, <1>2, <1>3, InterfaceAssumption
     DEF TargetsInv, ReferencesTyped, References, TargetTrajectories,
         ModeSchedule
<1>6. ScheduleInv'
  BY <1>3 DEF ScheduleInv, BufferTargets
<1>7. KnownInv' /\ ScheduleAsNewAsTargets'
  BY <1>2, <1>3, InterfaceAssumption
     DEF KnownInv, ScheduleAsNewAsTargets, BufferTargets, ReferencesTyped,
         References
<1> QED
  BY <1>4, <1>5, <1>6, <1>7

\* Taking the targets makes the newest ones active.
LEMMA RefTakeTargets ==
    ASSUME RefInv, mpc = "targets", mpc' = "schedule", TakeTargets,
           UNCHANGED <<set, known>>
    PROVE  RefInv'
<1> USE DEF RefInv
<1>1. /\ targetTrajectories_' \in [activeValue_ : TargetTrajectories,
                                   buffer_ : TargetTrajectories \cup {NoValue}]
      /\ targetTrajectories_'.buffer_ = NoValue
      /\ targetTrajectories_'.activeValue_.number = set.target
      /\ targetTrajectories_'.activeValue_.after <= set.schedule
  BY DEF TakeTargets, UpdateFromBuffer, Buffered, ReferencesTyped, TargetsInv
<1>2. ReferencesTyped' /\ TargetsInv'
  BY <1>1, InterfaceAssumption
     DEF TakeTargets, ReferencesTyped, TargetsInv, References
<1>3. ScheduleInv' /\ KnownInv' /\ ScheduleAsNewAsTargets'
  BY <1>1 DEF TakeTargets, ScheduleInv, KnownInv, ScheduleAsNewAsTargets
<1> QED
  BY <1>2, <1>3

\* Taking the mode schedule makes the newest one active, which is as new as
\* the targets taken before.
LEMMA RefTakeSchedule ==
    ASSUME RefInv, mpc = "schedule", mpc' = "solve", TakeSchedule,
           UNCHANGED <<set, known>>
    PROVE  RefInv'
<1> USE DEF RefInv
<1>1. /\ modeSchedule_' \in [activeValue_ : ModeSchedule,
                             buffer_ : ModeSchedule \cup {NoValue}]
      /\ modeSchedule_'.buffer_ = NoValue
      /\ modeSchedule_'.activeValue_ = set.schedule
  BY DEF TakeSchedule, UpdateFromBuffer, Buffered, ReferencesTyped, ScheduleInv
<1>2. ReferencesTyped'
  BY <1>1 DEF TakeSchedule, ReferencesTyped
<1>3. set.schedule \in Nat
  BY InterfaceAssumption DEF ReferencesTyped, References, ModeSchedule
<1>4. TargetsInv' /\ ScheduleInv' /\ KnownInv' /\ ScheduleAsNewAsTargets'
  BY <1>1, <1>3 DEF TakeSchedule, TargetsInv, ScheduleInv, KnownInv,
                    ScheduleAsNewAsTargets
<1> QED
  BY <1>2, <1>4

\* A new mode schedule replaces the one that waits.
LEMMA RefSetSchedule ==
    ASSUME RefInv, SetModeSchedule PROVE RefInv'
<1> USE DEF RefInv
<1>1. /\ modeSchedule_' \in [activeValue_ : ModeSchedule,
                             buffer_ : ModeSchedule \cup {NoValue}]
      /\ modeSchedule_'.activeValue_ = modeSchedule_.activeValue_
      /\ modeSchedule_'.buffer_ = set.schedule + 1
      /\ set.schedule + 1 # NoValue
  BY InterfaceAssumption DEF SetModeSchedule, SetBuffer, ReferencesTyped,
                             References, ModeSchedule
<1>2. /\ set' \in References
      /\ set'.target = set.target /\ set'.schedule = set.schedule + 1
  BY InterfaceAssumption DEF SetModeSchedule, ReferencesTyped, References,
                             ModeSchedule
<1>3. /\ set.schedule \in Nat /\ modeSchedule_.activeValue_ \in Nat
      /\ targetTrajectories_.activeValue_.after \in Nat
      /\ known.schedule \in Nat
  BY InterfaceAssumption DEF ReferencesTyped, References, ModeSchedule,
                             TargetTrajectories
<1>4. ReferencesTyped'
  BY <1>1, <1>2 DEF SetModeSchedule, ReferencesTyped
<1>5. targetTrajectories_.buffer_ # NoValue =>
          targetTrajectories_.buffer_.after \in Nat
  BY InterfaceAssumption DEF ReferencesTyped, TargetTrajectories, ModeSchedule
<1>6. TargetsInv'
  BY <1>2, <1>3, <1>5 DEF SetModeSchedule, TargetsInv
<1>7. ScheduleInv' /\ KnownInv' /\ ScheduleAsNewAsTargets'
  BY <1>1, <1>2, <1>3 DEF SetModeSchedule, ScheduleInv, KnownInv,
                          ScheduleAsNewAsTargets
<1> QED
  BY <1>4, <1>6, <1>7

\* Every step keeps the invariant of the references.
LEMMA RefNext == RefInv /\ [InterfaceNext]_interfaceVars => RefInv'
<1> SUFFICES ASSUME RefInv, [InterfaceNext]_interfaceVars PROVE RefInv'
  OBVIOUS
<1>1. CASE AdvanceMpc
  <2>1. mpc' \in {"idle", "targets"} /\ known' \in {known, set}
    BY <1>1 DEF AdvanceMpc
  <2>2. set.target \in Nat /\ set.schedule \in Nat
    BY InterfaceAssumption DEF RefInv, ReferencesTyped, References, ModeSchedule
  <2> QED
    BY <1>1, <2>1, <2>2 DEF AdvanceMpc, references, RefInv, ReferencesTyped,
       TargetsInv, ScheduleInv, KnownInv, ScheduleAsNewAsTargets
<1>2. CASE PreSolverRun
  BY <1>2, RefTakeTargets, RefTakeSchedule DEF PreSolverRun
<1>3. CASE SetTargetTrajectories \/ ResetMpcNode
  BY <1>3, RefTargets DEF SetTargetTrajectories, ResetMpcNode
<1>4. CASE SetModeSchedule
  BY <1>4, RefSetSchedule
<1>5. CASE Solve \/ SolveThrows \/ CopyToBuffer \/ Move
  BY <1>5 DEF Solve, SolveThrows, CopyToBuffer, Move, references, RefInv,
     ReferencesTyped, TargetsInv, ScheduleInv, KnownInv, ScheduleAsNewAsTargets
<1>6. CASE MrtStep \/ SetCurrentObservation \/ UNCHANGED interfaceVars
  BY <1>6 DEF MrtStep, SetCurrentObservation, interfaceVars, references, RefInv,
     ReferencesTyped, TargetsInv, ScheduleInv, KnownInv, ScheduleAsNewAsTargets
<1> QED
  BY <1>1, <1>2, <1>3, <1>4, <1>5, <1>6 DEF InterfaceNext, MpcStep

\* The invariant of the references holds throughout.
LEMMA RefInvariance == InterfaceSpec => []RefInv
BY RefInit, RefNext, PTL DEF InterfaceSpec

\* The solver runs with what had been set before it was started, or newer
\* (ReferenceManager.cpp:39-40, BufferedValue.h:61-83).
THEOREM SetReferencesAreUsed == InterfaceSpec => []RunsWithSetReferences
<1>1. RefInv => RunsWithSetReferences
  <2> SUFFICES ASSUME RefInv PROVE RunsWithSetReferences
    OBVIOUS
  <2>1. /\ targetTrajectories_.activeValue_.number \in Int
        /\ modeSchedule_.activeValue_ \in Int
    BY InterfaceAssumption
       DEF RefInv, ReferencesTyped, TargetTrajectories, ModeSchedule
  <2> QED
    BY <2>1 DEF RefInv, TargetsInv, ScheduleInv, KnownInv,
                RunsWithSetReferences, activeReferences
<1> QED
  BY RefInvariance, <1>1, PTL

\* Targets are never paired with a mode schedule that was out of date when
\* they were set (ReferenceManager.cpp:39-40).
THEOREM SchedulesKeepUp == InterfaceSpec => []ScheduleAsNewAsTargets
<1>1. RefInv => ScheduleAsNewAsTargets
  BY DEF RefInv
<1> QED
  BY RefInvariance, <1>1, PTL

-----------------------------------------------------------------------------
(* Commands.                                                               *)

\* Each command describes its solution, and the solver's solution is that of
\* the observation and the targets at hand until it has been copied.
CommandInv ==
    /\ primals \in Seq([time : Time, references : References])
    /\ commands \in Seq([time : Time, target : 0..MaxTargets])
    /\ Len(primals) = written /\ Len(commands) = written
    /\ solution \in [time : Time, references : References]
    /\ currentObservation_ \in Time /\ observation \in Time
    /\ \A i \in 1..written :
          /\ commands[i].time = primals[i].time
          /\ commands[i].target = primals[i].references.target
    /\ mpc = "copy" =>
          /\ solution.time = observation
          /\ solution.references.target
                = targetTrajectories_.activeValue_.number

\* It holds at the beginning.
LEMMA CommandInit == InterfaceInit => CommandInv
BY InterfaceAssumption DEF InterfaceInit, Init, CommandInv, NoSolution,
   NoReferences, References, ModeSchedule, Time

\* Every step keeps it.
LEMMA CommandNext ==
    CommandInv /\ RefInv /\ IInv /\ [InterfaceNext]_interfaceVars => CommandInv'
<1> SUFFICES ASSUME CommandInv, RefInv, IInv, [InterfaceNext]_interfaceVars
             PROVE  CommandInv'
  OBVIOUS
<1> USE DEF CommandInv
<1>1. activeReferences \in References
  BY InterfaceAssumption DEF activeReferences, References, RefInv,
     ReferencesTyped, TargetTrajectories
<1>2. CASE AdvanceMpc \/ PreSolverRun \/ SolveThrows
  BY <1>2 DEF AdvanceMpc, PreSolverRun, SolveThrows, vars, writer, solver,
              policies
<1>3. CASE Solve
  BY <1>1, <1>3 DEF Solve, vars, writer, policies, references, activeReferences
<1>4. CASE CopyToBuffer
  <2> DEFINE command == [time |-> observation,
                         target |-> targetTrajectories_.activeValue_.number]
  <2>1. command \in [time : Time, target : 0..MaxTargets]
    BY DEF RefInv, ReferencesTyped, TargetTrajectories
  <2>2. /\ primals' = Append(primals, solution)
        /\ commands' = Append(commands, command)
        /\ written' = written + 1 /\ written \in Nat
    BY <1>4, MaxPoliciesAssumption
       DEF CopyToBuffer, MoveToBuffer, IInv, TypeOK
  <2>3. /\ command.time = solution.time
        /\ command.target = solution.references.target
    BY <1>4 DEF CopyToBuffer
  <2> HIDE DEF command
  <2>4. /\ primals' \in Seq([time : Time, references : References])
        /\ commands' \in Seq([time : Time, target : 0..MaxTargets])
        /\ Len(primals') = written' /\ Len(commands') = written'
    BY <2>1, <2>2
  <2>5. \A i \in 1..written' :
           /\ commands'[i].time = primals'[i].time
           /\ commands'[i].target = primals'[i].references.target
    BY <2>1, <2>2, <2>3
  <2> QED
    BY <1>4, <2>4, <2>5 DEF CopyToBuffer, solver
<1>5. CASE Move
  <2>1. written' = written
    BY <1>5 DEF Move, MoveLock, MoveSwap, MoveFinish
  <2> QED
    BY <1>5, <2>1 DEF Move, solver, policies
<1>6. CASE MrtStep
  <2>1. written' = written
    BY <1>6 DEF MrtStep, UserStep, UpdatePolicy, UpdateSwap, UpdateFinish,
                ResetLock, Reset, writer
  <2> QED
    BY <1>6, <2>1 DEF MrtStep, solver, policies, references
<1>7. CASE SetCurrentObservation
  BY <1>7, InterfaceAssumption
     DEF SetCurrentObservation, vars, writer, solver, policies, references, Time
<1>8. CASE SetTargetTrajectories
  <2>1. targetTrajectories_'.activeValue_ = targetTrajectories_.activeValue_
    BY <1>8 DEF SetTargetTrajectories, BufferTargets, SetBuffer, RefInv,
                ReferencesTyped
  <2> QED
    BY <1>8, <2>1 DEF SetTargetTrajectories, vars, writer, solver, policies
<1>9. CASE SetModeSchedule
  BY <1>9 DEF SetModeSchedule, vars, writer, solver, policies
<1>10. CASE ResetMpcNode
  <2>1. NoSolution \in [time : Time, references : References]
    BY InterfaceAssumption DEF NoSolution, NoReferences, References,
                               ModeSchedule, Time
  <2> QED
    BY <1>10, <2>1 DEF ResetMpcNode, vars, writer, policies
<1>11. CASE UNCHANGED interfaceVars
  BY <1>11 DEF interfaceVars, vars, writer, solver, policies, references
<1> QED
  BY <1>2, <1>3, <1>4, <1>5, <1>6, <1>7, <1>8, <1>9, <1>10, <1>11
     DEF InterfaceNext, MpcStep

\* A command always describes the policy it is handed out with
\* (MPC_MRT_Interface.cpp:68-77 and 112-115, MRT_BASE.cpp:169-171).
THEOREM CommandsDescribe == InterfaceSpec => []CommandDescribesPolicy
<1>1. InterfaceSpec => []CommandInv
  BY CommandInit, CommandNext, RefInvariance, BufferInvariance, PTL
     DEF InterfaceSpec
<1>2. CommandInv /\ IInv => CommandDescribesPolicy
  <2> SUFFICES ASSUME CommandInv, IInv, userPc \in {"idle", "reset"},
                      active["primal"] # NoPolicy
               PROVE  CommandDescribesPolicy
    BY DEF CommandDescribesPolicy
  <2>1. active["command"] = active["primal"]
    BY DEF IInv, ActiveIsOnePolicy, Whole, Parts
  <2>2. active["primal"] \in 1..written
    BY MaxPoliciesAssumption
       DEF IInv, TypeOK, UpdateInv, MoveInv, Parts, Policy, NoPolicy
  <2> QED
    BY <2>1, <2>2 DEF CommandInv, CommandDescribesPolicy
<1> QED
  BY <1>1, <1>2, BufferInvariance, PTL

=============================================================================
