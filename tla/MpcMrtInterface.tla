--------------------------- MODULE MpcMrtInterface ---------------------------
(***************************************************************************)
(* MPC_MRT_Interface (mpc/ocs2_mpc/src/MPC_MRT_Interface.cpp): MPC and     *)
(* tracking in one process.  One thread calls advanceMpc() over and over,  *)
(* and is the writer of the policy buffer that the class inherits from     *)
(* MRT_BASE; the user's thread sets observations, takes policies and       *)
(* resets; any thread hands references to the ReferenceManager, whose two  *)
(* buffers the solver empties one after the other before it runs.          *)
(*                                                                         *)
(* An observation is its time.  Mode schedules are numbered in the order   *)
(* in which they are set, and so are target trajectories, which also carry *)
(* the number of the newest mode schedule at that moment.                  *)
(***************************************************************************)
EXTENDS MrtBase, BufferedValue, Sequences

CONSTANTS
    MaxTime,        \* bound on the time of an observation
    Horizon,        \* mpcSettings_.timeHorizon_
    MaxTargets,     \* bound on the target trajectories set
    MaxSchedules    \* bound on the mode schedules set

Time == 0..MaxTime
ModeSchedule == 0..MaxSchedules
TargetTrajectories == [number : 0..MaxTargets, after : ModeSchedule]
References == [target : 0..MaxTargets, schedule : ModeSchedule]

ASSUME InterfaceAssumption ==
    /\ MaxTime \in Nat /\ Horizon \in Nat \ {0}
    /\ MaxTargets \in Nat /\ MaxSchedules \in Nat
    /\ NoValue \notin ModeSchedule \cup TargetTrajectories

\* The references of the constructor.
InitialTarget == [number |-> 0, after |-> 0]

VARIABLES
    currentObservation_,
    mpc,                    \* where advanceMpc() is
    observation,            \* its copy of the observation
    initRun_, finalTime,    \* MPC_BASE and the solver's horizon
    targetTrajectories_, modeSchedule_,     \* the ReferenceManager
    set,                    \* the newest references that have been set
    solution,               \* what the policy in the solver was computed from
    primals, commands,      \* what the policies moved so far came from and
                            \* what their commands say, in order
    known                   \* set, when the MPC was last started: for the
                            \* properties only

solver == <<initRun_, finalTime, solution>>
references == <<targetTrajectories_, modeSchedule_, set>>
policies == <<primals, commands>>
interfaceVars == <<vars, currentObservation_, mpc, observation, solver,
                   references, policies, known>>

NoReferences == [target |-> 0, schedule |-> 0]
NoSolution == [time |-> 0, references |-> NoReferences]

InterfaceInit ==
    /\ Init
    /\ currentObservation_ = 0
    /\ mpc = "idle"
    /\ observation = 0
    /\ initRun_ = TRUE
    /\ finalTime = 0
    /\ targetTrajectories_ = Buffered(InitialTarget)
    /\ modeSchedule_ = Buffered(0)
    /\ set = NoReferences
    /\ solution = NoSolution
    /\ primals = <<>> /\ commands = <<>>
    /\ known = NoReferences

-----------------------------------------------------------------------------
(* advanceMpc()                                                            *)

\* The test at the head of MPC_BASE::run().
runs(time) == initRun_ \/ time < finalTime

\* The observation is copied under observationMutex_; MPC_BASE::run() refuses
\* it or starts the solver.
AdvanceMpc ==
    /\ mpc = "idle"
    /\ written < MaxPolicies
    /\ observation' = currentObservation_
    /\ mpc' = IF runs(currentObservation_) THEN "targets" ELSE "idle"
    /\ known' = IF mpc' = "targets" THEN set ELSE known
    /\ UNCHANGED <<vars, currentObservation_, solver, references, policies>>

TakeTargets ==
    /\ targetTrajectories_' = UpdateFromBuffer(targetTrajectories_)
    /\ UNCHANGED modeSchedule_

TakeSchedule ==
    /\ modeSchedule_' = UpdateFromBuffer(modeSchedule_)
    /\ UNCHANGED targetTrajectories_

\* Mutant: the mode schedule is taken before the targets.
PreSolverRun_ScheduleFirst ==
    /\ \/ mpc = "targets" /\ mpc' = "schedule" /\ TakeSchedule
       \/ mpc = "schedule" /\ mpc' = "solve" /\ TakeTargets
    /\ UNCHANGED <<vars, currentObservation_, observation, solver, set,
                   policies, known>>

\* ReferenceManager::preSolverRun() empties its buffers one after the other.
PreSolverRun ==
    /\ \/ mpc = "targets" /\ mpc' = "schedule" /\ TakeTargets
       \/ mpc = "schedule" /\ mpc' = "solve" /\ TakeSchedule
    /\ UNCHANGED <<vars, currentObservation_, observation, solver, set,
                   policies, known>>

activeReferences == [target |-> targetTrajectories_.activeValue_.number,
                     schedule |-> modeSchedule_.activeValue_]

\* runImpl(); MPC_BASE::run() returns true.
Solve ==
    /\ mpc = "solve"
    /\ solution' = [time |-> observation, references |-> activeReferences]
    /\ finalTime' = observation + Horizon
    /\ initRun_' = FALSE
    /\ mpc' = "copy"
    /\ UNCHANGED <<vars, currentObservation_, observation, references,
                   policies, known>>

\* runImpl() throws, and advanceMpc() with it; the references stay active, and
\* the solver has its new final time already.
SolveThrows ==
    /\ mpc = "solve"
    /\ finalTime' = observation + Horizon
    /\ mpc' = "idle"
    /\ UNCHANGED <<vars, currentObservation_, observation, initRun_, solution,
                   references, policies, known>>

\* Mutant: the command reports the observation of now.
CopyToBuffer_CurrentObservation ==
    /\ mpc = "copy"
    /\ MoveToBuffer
    /\ primals' = Append(primals, solution)
    /\ commands' = Append(commands, [time |-> currentObservation_,
          target |-> targetTrajectories_.activeValue_.number])
    /\ mpc' = "move"
    /\ UNCHANGED <<currentObservation_, observation, solver, references, known>>

\* copyToBuffer() collects the solution and its command, and calls
\* moveToBuffer() of MRT_BASE.
CopyToBuffer ==
    /\ mpc = "copy"
    /\ MoveToBuffer
    /\ primals' = Append(primals, solution)
    /\ commands' = Append(commands, [time |-> observation,
          target |-> targetTrajectories_.activeValue_.number])
    /\ mpc' = "move"
    /\ UNCHANGED <<currentObservation_, observation, solver, references, known>>

\* moveToBuffer(), and the return of advanceMpc().
Move ==
    /\ mpc = "move"
    /\ MoveLock \/ MoveSwap \/ MoveFinish
    /\ mpc' = IF writerPc' = "idle" THEN "idle" ELSE "move"
    /\ UNCHANGED <<currentObservation_, observation, solver, references,
                   policies, known>>

MpcStep ==
    \/ AdvanceMpc \/ PreSolverRun \/ Solve \/ SolveThrows
    \/ CopyToBuffer \/ Move

-----------------------------------------------------------------------------
(* The user's thread and the threads that set references.                  *)

\* updatePolicy() and reset(), which are those of MRT_BASE.
MrtStep ==
    /\ UserStep
    /\ UNCHANGED <<currentObservation_, mpc, observation, solver, references,
                   policies, known>>

\* The user's clock has advanced.
SetCurrentObservation ==
    /\ userPc = "idle"
    /\ currentObservation_ < MaxTime
    /\ currentObservation_' = currentObservation_ + 1
    /\ UNCHANGED <<vars, mpc, observation, solver, references, policies, known>>

BufferTargets ==
    /\ set.target < MaxTargets
    /\ set' = [set EXCEPT !.target = @ + 1]
    /\ targetTrajectories_' = SetBuffer(targetTrajectories_,
          [number |-> set.target + 1, after |-> set.schedule])
    /\ UNCHANGED modeSchedule_

\* setTargetTrajectories(), by any thread.
SetTargetTrajectories ==
    /\ BufferTargets
    /\ UNCHANGED <<vars, currentObservation_, mpc, observation, solver,
                   policies, known>>

\* setModeSchedule(), by any thread.
SetModeSchedule ==
    /\ set.schedule < MaxSchedules
    /\ set' = [set EXCEPT !.schedule = @ + 1]
    /\ modeSchedule_' = SetBuffer(modeSchedule_, set.schedule + 1)
    /\ UNCHANGED <<vars, currentObservation_, mpc, observation, solver,
                   targetTrajectories_, policies, known>>

\* resetMpcNode() is the user's call.  Only the evaluation of policies may
\* overlap advanceMpc(), so that the user has to wait for its return.
ResetMpcNode ==
    /\ mpc = "idle" /\ userPc = "idle"
    /\ initRun_' = TRUE
    /\ solution' = NoSolution
    /\ BufferTargets
    /\ UNCHANGED <<vars, currentObservation_, mpc, observation, finalTime,
                   policies, known>>

InterfaceNext ==
    \/ MpcStep
    \/ MrtStep \/ SetCurrentObservation \/ ResetMpcNode
    \/ SetTargetTrajectories \/ SetModeSchedule

InterfaceSpec == InterfaceInit /\ [][InterfaceNext]_interfaceVars

-----------------------------------------------------------------------------
(* Correctness.                                                            *)

\* The policy buffer is used as MRT_BASE demands: one writer, one user.  What
\* is proved of MrtBase therefore holds of this class.
UsesMrtBase == Spec

\* "Sets the ModeSchedule to the buffer. The buffer will move to active
\* ModeSchedule once preSolverRun() is called" (ReferenceManagerInterface.h:68):
\* what was set before the solver started is what it runs with, unless
\* something newer was set, whichever threads set it meanwhile.
RunsWithSetReferences ==
    mpc \in {"solve", "copy"} =>
        /\ activeReferences.target \in known.target..set.target
        /\ activeReferences.schedule \in known.schedule..set.schedule

\* The two buffers are not taken together, but in an order that cannot pair
\* new targets with a mode schedule that had been replaced when they were set
\* (ReferenceManager.cpp:39-40): a command that sets its mode schedule first
\* is never torn that way.
ScheduleAsNewAsTargets ==
    mpc \in {"solve", "copy"} =>
        modeSchedule_.activeValue_ >= targetTrajectories_.activeValue_.after

\* The command of the active policy names the observation and the targets from
\* which its primal solution was computed, although observations and targets
\* are replaced while the solver runs (MPC_MRT_Interface.cpp:68-77, 112-115).
CommandDescribesPolicy ==
    userPc \in {"idle", "reset"} /\ active["primal"] # NoPolicy =>
        LET command == commands[active["command"]]
            primal == primals[active["primal"]]
        IN  /\ command.time = primal.time
            /\ command.target = primal.references.target

=============================================================================
