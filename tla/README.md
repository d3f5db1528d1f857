# A TLA+ verification of the OCS2 control stack

OCS2 computes optimal controllers for switched systems. Its numerical core
(Riccati equations, integration, automatic differentiation) is sequential
mathematics. What makes a robot move with it is a set of threads and processes
around that core: a line search that races rollouts against one another, a
thread pool, a double buffer that hands policies to a tracking loop, two ROS
nodes that exchange observations, policies and resets, and the control loop of
a robot. This directory models that part, the bookkeeping of the solver between
its iterations, and the algorithms over event times; it checks them with TLC and
proves their safety properties, for any size, with TLAPS.

Every definition is translated from the source; `PROJECT.json` maps each one to
the lines it stands for. Paths below are relative to the repository.

## 1. Inventory

### 1.1 Parts of the system

| Part | Source | State | Operations |
|---|---|---|---|
| Parallel line search | `mpc/ocs2_ddp/.../LineSearchStrategy.cpp` | best step and solution, one rollout and one solution slot per thread, an atomic exponent, the table of decided exponents, one abort flag per rollout | `run`, `lineSearchTask`, `computeSolution`, `maxNumOfSearches` |
| Thread pool | `core/ocs2_core/.../ThreadPool.{h,cpp}` | task queue, stop flag, workers | `run`, `runParallel`, the worker loop, the destructor |
| MRT policy buffer | `mpc/ocs2_mpc/.../MRT_BASE.{h,cpp}` | three pointers to the active policy and three to the buffered one, two flags, a mutex | `moveToBuffer`, `updatePolicy`, `reset`, `evaluatePolicy` |
| MPC node | `robotics/ocs2_ros_interfaces/.../MPC_ROS_Interface.{h,cpp}`, `MPC_BASE.cpp` | solver, buffered and published policy, three flags, two mutexes, a condition variable | observation callback, reset service, publishing thread, shutdown |
| MRT node | `robotics/ocs2_ros_interfaces/.../MRT_ROS_Interface.{h,cpp}` | an MRT policy buffer, an observation message and its copy, two flags, a mutex, a condition variable | `spinMRT`, `setCurrentObservation`, `resetMpcNode`, publishing thread, shutdown |
| Simulated tracking loop | `robotics/ocs2_ros_interfaces/.../MRT_ROS_Dummy_Loop.cpp` | current observation, loop counter | `run`, the synchronized and the real-time loop |
| MPC-MRT within a process | `mpc/ocs2_mpc/src/MPC_MRT_Interface.cpp` | an observation under a mutex, an MRT policy buffer | `advanceMpc`, `setCurrentObservation`, `resetMpcNode` |
| Reference manager | `core/ocs2_oc/.../ReferenceManager.cpp`, `BufferedValue.h`, `RosReferenceManager.cpp` | buffered target trajectories and mode schedule | `preSolverRun`, setters, two subscriptions |
| DDP iteration | `mpc/ocs2_ddp/src/GaussNewtonDDP.cpp`, `LevenbergMarquardtStrategy.cpp` | nominal, cached and optimized data, counters, the Riccati multiple | `runImpl`, the search strategies, convergence |
| Rollouts, mode schedules, trajectory spreading | `core/ocs2_oc`, `core/ocs2_core` | none that outlives a call | algorithms over event times |
| G7 OpenArm control loop | `g7_openarm` | real-time policy buffer, simulation clock, reset coordinator | controller-manager cycle, activation, callbacks |
| Numerical parts | Riccati solvers, costs, constraints, penalties, integration, Pinocchio, CppAD, multiple shooting, QP | matrices | numerical |
| User interfaces and examples | target publishers, visualization, mobile manipulator | - | publishing |

### 1.2 How they interact

    GaussNewtonDDP --run()--> LineSearchStrategy --runParallel()--> ThreadPool
      ^      |   \--run()--> LevenbergMarquardtStrategy
      |      |   \--trajectorySpread(), TimeTriggeredRollout::run()
      |      \--preSolverRun()--> ReferenceManager <-- subscriptions, users
      | run(t, x)
    MPC_BASE <--- MPC_ROS_Interface : executor thread --buffer--> publisher thread
      ^              ^        ^                                        |
      |  observation |        | reset service          policy (topic, depth 1)
      |  (depth 1)   |        |                                        v
      |     MRT_ROS_Interface  or  the G7 control loop: observation broadcaster,
      |              ^             reset coordinator, policy controller, MuJoCo
      |              | updatePolicy
      |     MRT_ROS_Dummy_Loop                          (another process)
      |
    MPC_MRT_Interface : advanceMpc() --moveToBuffer--> MRT_BASE buffer
                                     --updatePolicy--> a user in the same process

Threads of a process share memory under mutexes, and in several places without
them. Processes share two topics whose queues hold one message, so that newer
messages overwrite older ones, and a reset service whose answer nobody awaits.

### 1.3 What is hard

* **Interleaving.** Line-search tasks overtake one another, read the best step
  without the mutex and raise abort flags outside it. A policy is copied under
  one mutex and announced under another. `resetMpcNode` of the MPC node clears
  the worker's flag under neither.
* **Atomicity.** A policy is three pointers, swapped one after the other.
* **Ordering and loss.** Topics of depth one overwrite; the reset request
  overtakes observations and is overtaken by them.
* **Restart.** The tracking process may start again while the MPC node keeps
  its solution, its horizon and its buffers.
* **Liveness.** Condition variables, destructors that join, a loop that waits
  without asking again, an MPC that refuses observations beyond its horizon, a
  coordinator that asks for the reset once.
* **Stale data.** The solver swaps, moves and copies three sets of data; the
  real-time buffer of the policy controller outlives its activation.
* **Exceptions** in one of several parallel instances.
* **Numeric edges**: the step counted by a logarithm and made by a power; events
  at a point, at the begin or at the end of a horizon; limits tested before or
  after a counter goes up.

Each of these is listed at its line in `PROJECT.json` under "hazards", with the
properties that cover it, or a note on why none does.

### 1.4 What makes each part correct

* *Line search*: it returns, with the step a sequential backtracking search
  would return and the rollout of that step; aborting never changes the result.
* *Thread pool*: every instance runs once, calls return, and return only when
  all instances have completed.
* *Policy buffer*: the active policy is never a mixture, never goes back, and
  the newest policy is never lost.
* *MPC node*: a computed policy is published unless it is superseded, cancelled
  by a reset or cut off by the shutdown; what is published has been computed.
* *MRT node*: observations are sent once, in order, the last one eventually; the
  flag for the initial policy can be trusted.
* *System*: the tracking loop gets its first policy whatever is lost, never
  simulates without one, and never outruns the MPC's horizon.
* *Reference manager*: a solver run uses what was set before it, and never
  targets with a mode schedule that was out of date when they were set.
* *Solver*: what is read from the cache and what is published belongs together,
  whatever steps were rejected; a rejected step is not tried again; a run ends.
* *Rollout and trajectory spreading*: every point has the mode its schedule has
  at its time, and every event its index.
* *G7 loop*: the arm is driven only by an active controller, after the reset, by
  the newest policy; the reset is asked for once, and it completes.

## 2. Modules

| Module | What it is | Composes |
|---|---|---|
| `LineSearch` | the line search, one action per atomic step of a task | |
| `MCLineSearch` | step tables for TLC | `LineSearch` |
| `LineSearchProofs` | the theorems of the line search and of the pool that runs it | `LineSearch`, `ThreadPool` |
| `PolicyMailbox` | abstract specification: a mailbox with one place | |
| `MrtBase` | the double buffer, pointer swap by pointer swap | refines `PolicyMailbox` |
| `Topic` | a ROS 2 topic of depth one (external code) | |
| `MpcRosNode` | the MPC node, with an environment of its own | `Topic` |
| `MpcRosNodeProofs` | its theorems | `MpcRosNode` |
| `MrtRosNode` | the MRT node | `Topic`, `PolicyMailbox` |
| `MrtClient` | the MRT node under every order of calls | `MrtRosNode` |
| `MrtClientProofs` | its theorems | `MrtClient` |
| `DummyLoop` | the tracking loop as the user of an MRT node | `MrtRosNode` |
| `MpcMrtSystem` | loop, both nodes, topics, service, restarts | `DummyLoop`, `MpcRosNode` |
| `MCMpcMrtSystem` | sets of messages for TLC | `MpcMrtSystem` |
| `MpcMrtSystemProofs` | its theorems | `MpcMrtSystem` |
| `ThreadPool` | the pool, its workers and its owner | |
| `BufferedValue` | a value with a buffer behind a mutex | |
| `MpcMrtInterface` | MPC and user in one process, with the reference manager | `MrtBase`, `BufferedValue` |
| `MpcMrtInterfaceProofs` | the theorems of the buffer, the refinement among them, and of the interface | `MpcMrtInterface` |
| `LevenbergMarquardt` | the regularization, as operators | |
| `DdpSolver` | the iterations of the solver and its data | `LevenbergMarquardt` |
| `DdpSolverProofs` | its theorems | `DdpSolver` |
| `TrajectorySpreading` | rollout and spreading of trajectories, as operators | |
| `MCTrajectorySpreading` | the horizons for TLC | `TrajectorySpreading` |
| `TrajectorySpreadingProofs` | its theorems | `TrajectorySpreading` |
| `G7ControlLoop` | the robot's control loop | `MpcRosNode`, `Topic` |
| `G7ControlLoopProofs` | its theorems | `G7ControlLoop` |

### 2.1 `LineSearch`

Variables with a trailing underscore are the members of the same name. A task's
locals are functions of the task (`taskId`, `alphaExp`, `accepted`,
`abortNext`), and `pc` says where it is. What can interleave in the code is a
step of its own: the two atomic increments (`Start`, `Fetch`), the unlocked read
of `bestStepSize_` (`Check`), the reset of the event handler at the beginning of
a rollout, which forgets an abort (`StartRollout`), the end of the rollout
(`FinishRollout`), the block under `lineSearchResultMutex_` (`Accept`,
`Reject`), and each single call of `abortRollout` (`Abort`). `Run`,
`BaselineThrows` and `Return` are the calling thread.

A step length is an integer in a fixed-point unit, `StepTable` gives it per
exponent. A rollout is abstracted to whether its merit meets the Armijo
condition: `armijo` is the set of candidates that do, chosen anew for each
search. An aborted rollout fails or still makes it to the end. The table of
controllers, metrics and Riccati modifications is not modelled: each step uses
the controller of its own slot.

### 2.2 `MrtBase` and `PolicyMailbox`

Two threads: the writer that calls `moveToBuffer` and the user that calls
`updatePolicy` and `reset`. Lock, each of the three swaps, and the flags with
the unlock are steps of their own. `try_lock` that fails and an empty buffer
change nothing and have no action. Policies are numbered in the order they are
moved. `PolicyMailbox` is what the class promises; the refinement mapping lets
a move and an update take effect with their last swap, before the flag follows.

### 2.3 `MpcRosNode`

The main thread is a single-threaded executor: callback and service never
interleave with each other. `ObservationCallback` (with the gate on
`resetRequestedEver_`), `RunMpc` (with the horizon test of `MPC_BASE::run`),
`CopyToBuffer` and `Signal` are the parts of one callback between which the
worker may run; `ResetCallback` and `ResetFlags` those of the service, because
the flags are written without the worker's mutex. The worker's steps are the
loop test, the lock and the test of the predicate, the swap, the publication,
and the clearing of the flag with the unlock. The mutex is held from `swap` to
`clear`; `MutexFree` guards the main thread's critical sections. A notification
given after the unlock is merged with the critical section, because one that
comes late finds the predicate as it is and is equal to a spurious wake-up,
which is modelled.

A policy is the time of its observation and the number of resets served before
it. The bounds on these are `MaxTime` and `MaxResets`. `published` is a history
variable. `executor` and `workerPc` are program counters.

### 2.4 `MrtRosNode`, `MrtClient`, `DummyLoop`

The MRT node uses `PolicyMailbox` in place of `MrtBase`: moves and updates both
happen on the user's thread here, and the theorem `Refinement` of
`MpcMrtInterfaceProofs` justifies the abstraction. `MrtClient` lets a user make the
calls in any order. `DummyLoop` is the user that exists in the repository: the
reset, the repeated initial observation, and then both loops. Time is counted in
simulation steps, so that the loop counter and the observation's time are one
number.

### 2.5 `MpcMrtSystem`

Interleaves both nodes' threads, the loop, and the delivery of each topic; a
reset request is a counter. `Restart` gives the tracking process a new start at
any moment: its memory is gone, what is on its way to the MPC node arrives, and
a policy on its way reaches the new subscription.

### 2.6 `ThreadPool`

The owner makes up to `MaxCalls` calls of `runParallel` with 1 to `MaxParallel`
instances, and destroys the pool whenever it is not in a call. Any instance may
throw: a packaged task keeps the exception for the future, the owner's own
instance ends the call. A pool of zero threads runs instances in place. The
future returned by `run` is only used by `runParallel`.

### 2.7 `MpcMrtInterface`

Extends `MrtBase`, whose writer is `advanceMpc` here. One action per step that
another thread can see: the copy of the observation under its mutex with the
test of the horizon, the two critical sections of `preSolverRun`, the solver run
(which may throw, and then has its new final time already), `copyToBuffer`, and
the steps of `moveToBuffer`. The user's thread has `updatePolicy` and `reset` of
`MrtBase`; `setTargetTrajectories` and `setModeSchedule` come from any thread.
References are numbered in the order they are set. `primals` and `commands` say
what the policies in the buffer were made from: they stand for the contents of
the pointers. `known` is a history variable.

`resetMpcNode` is modelled between two calls of `advanceMpc`, since the solver
has no lock (section 4).

### 2.8 `DdpSolver` and `LevenbergMarquardt`

A rollout is a model value; a trajectory, its metrics, a performance index and
a value function each name the rollout they belong to, so that a swap too many
or a copy too few shows. `StartRun` and `Continue` are the two blocks of swaps
in `runImpl`; the three ways to initialize differ in what they take from the
last run. A horizon that moves and a mode schedule that changes leave some of
the old controller and trajectory, any amount (`Left`). The line search is its
result. Levenberg-Marquardt is modelled in full: reductions are percentages
from each of the ranges its rules distinguish, the multiple and the ratio are
exponents. Cold start is `Reset` before each `StartRun`. The state `undefined` follows the
acceptance of a rollout that failed (section 4).

The bounds are `MaxIterations` on the count of iterations, `MaxExponent` on the
regularization, and `rolloutLeft`: there is always an unused rollout.

### 2.9 `TrajectorySpreading`

`Rollout`, `Strategy`, `AdjustTrajectory` and `AdjustTimeTrajectory` compute what
`TimeTriggeredRollout::run`, `TrajectorySpreading::set`, `adjustTrajectory` and
`adjustTimeTrajectory` do. The two loops whose rounds build on each other are
recursive functions over one round, `RollOutInterval` and `MoveToEvent`. The
loop that collects the events of the new trajectory picks a part of a sequence
that goes up, so `Strategy` takes the part with `SubSeq`. The three actions feed the one into the other, as the solver does from run
to run. Times are integers in ticks: eight between two possible event times, one
for the epsilon behind an event, two for the `1e-4` of the code. The value of a
point is the mode it was integrated in, so that a value in the wrong place is
visible. The reference definitions are `ModeOfPoint` and `PostEventIndices`,
which look the mode and the indices up in the schedule itself.

`Regular` states when the properties are claimed: a point strictly between
every two events, and no event exactly at the end. `SetStrategy` leaves out the
pairs for which the search for a match runs out of its array (section 4).

### 2.10 `G7ControlLoop`

One control thread goes through read, the updates of the active controllers,
the switching of controllers, and write. The policy controller's `RealtimeBuffer`
is modelled as the code uses it: two pointers and a flag, a lock that the
callback holds while it stores and that the update only tries. The coordinator
sees observations through a subscription of its own; the service exists while
the MPC node is up. The MPC node is `MpcRosNode` with the simulation clock for
its time; `StartMpc` and `KillMpc` are its process. `MaxRepeats` bounds deaths
and repeated activations together. At `MaxTime` the clock stands still, which
for the MPC is the case of a control loop faster than its time resolution.

## 3. Runs

| Run | Bounds | What it shows |
|---|---|---|
| `line_search` | 2 tasks, 4 candidate steps, every set of acceptable ones, any number of searches | Returns with the largest acceptable step and that step's rollout; aborts hit only losing steps; slots are not shared; every search returns |
| `line_search_bounds` | minimum equal to the fourth candidate | *violation*: the flag of the last candidate lies outside `alphaProcessed_` |
| `in_process` | 3 policies, 3 times, horizon 1, 2 targets, 1 schedule | No mixture, nothing lost, nothing taken twice; refinement of the mailbox; solver runs use what was set before them; commands describe their policies |
| `mpc_node` | times 0..3, 2 resets, horizon 2 | Nothing signalled is lost; a handed-over policy is published; callbacks and shutdown return |
| `mpc_node_null` | times 0..3, 1 reset | *violation*: the worker dereferences the empty solution of the constructor |
| `mrt_client` | 3 observations, 2 policies, 1 reset request pending | Observations are sent once and in order, the last one eventually; shutdown returns |
| `system` | synchronized with 6 steps, ratio 2, horizon 3; real-time with 2 steps; real-time with 2 sessions | The synchronized loop never sends an observation the MPC refuses, until the first restart; policies are evaluated only after one was received; the initial policy arrives in every session |
| `system_stuck` | 2 steps | *violation*: the synchronized loop waits for a policy that was overwritten |
| `thread_pool` | 0 to 2 threads, 2 calls of up to 3 instances | Each instance once; only a call that threw leaves instances behind; calls and destructor return |
| `ddp_solver` | 3 iterations a run, 9 in all, horizon 3, 2 rejections, both strategies | Cached, nominal and published data belong together; a rejection raises the damping; runs end |
| `spreading` | 3 modes, 2 events at 7 times, horizon from 1 to 6 and one of length zero, fine and coarse | Rollouts and spread trajectories follow their schedules |
| `g7_control` | times 0..1, horizon 1, one death or repeated activation | Driven only when active and after the one reset was asked for, by the newest policy; the reset completes; the robot is driven |

Why the bounds are enough:

* *Line search.* Two tasks suffice for every pairwise race, overtaking by
  several candidates and abort of self and of the other. Four candidates let one
  task decide three while the other is in its first rollout. All safety
  properties are proved for any number of tasks and steps besides. Searches
  follow one another without a bound, so stale slots and flags are covered.
* *In process.* Three policies are one active, one waiting and one on its way;
  a fourth adds no place to be in. Two targets and a schedule can be set before,
  between and after the two critical sections of a run. Horizon 1 makes
  `MPC_BASE` refuse. All safety properties are proved for any number.
* *MPC node.* Two resets and four times give policies that are older by epoch
  and by time in the solver, the buffer and the publisher at once; the horizon
  is shorter than the range of times, so that observations are refused.
* *System.* With a ratio of two both kinds of step occur, six steps are three
  MPC periods, and the horizon of three is passed. With the configured
  frequencies (400 and 100 Hz, horizon 1 s) the ratio is 4 and the horizon 400
  steps; what matters is that the horizon exceeds the ratio. Two sessions are
  the old and the new one; a session without a simulation step is enough there,
  since a restart loses whatever the steps have left.
* *Thread pool.* Two workers and two queued instances are enough for a
  notification to reach the wrong worker, and two calls for an instance left by
  the first to meet the second.
* *Solver.* Nine iterations are three full runs, so that the swaps at the begin
  of a run and between iterations alternate; three sets of data hold at most
  eight rollouts. Two rejections make every regularization level and the limit
  occur. The safety properties are proved for any values.
* *Spreading.* Events lie before, at both ends of, inside and behind the
  horizon; two events on each side let one matched mode be followed, preceded or
  enclosed by unmatched ones. Modes are symmetric: no mode is special. All four
  properties are proved for any number of events and any horizon.
* *G7.* One time step separates observations within the horizon from those that
  are refused. One death of the MPC node or one second activation is every kind
  of disturbance on its own.

Deadlock is checked in `LineSearch`, `MpcMrtInterface`, `MrtClient` and
`MpcRosNode`, which always have a step (in `MpcRosNode` and `MrtClient` the
environment's). It is switched off in the system and the G7 loop (the MPC
process may have crashed), in the thread pool (the pool is destroyed), in the solver
(iterations are bounded, and `undefined` has no successor) and in the spreading
of one trajectory.

### 3.1 Fairness

* Threads are scheduled: weak fairness of each task, of each worker and of the
  thread that is inside a call. Mutexes are held for single steps or by threads
  that are themselves fair.
* Rollouts, solver runs and instances end. Integrators limit their steps.
* The executor of the MPC node collects everything that is ready before it looks
  again, so a pending reset is not passed over for ever by observations: strong
  fairness of `ResetCallback`.
* A message that was published and not overwritten arrives: weak fairness of
  the deliveries (same host, reliable transport).
* No fairness for spurious wake-ups, restarts, shutdowns, resets, new
  observations, new policies, new references, or the owner of the pool. The
  tracking loop is fair because it has a timer and no other wait.
* A run of the solver is one call: weak fairness of `runImpl`, none of `StartRun`
  and `Reset`.
* In the G7 loop the control thread is periodic, the spawners activate both
  controllers, and the launch file starts the MPC node once. The lock that the policy callback
  holds is not always in the way of the update's try-lock: strong fairness of an
  update that gets it, since the callback holds it for one copy per message. Nobody
  has to deactivate or kill anything; `InitialResetCompletes` and `RobotIsDriven`
  name those cases in their conclusions.

## 4. What the code does that its comments do not say

* **`line_search_bounds`.** `maxNumOfSearches` (LineSearchStrategy.cpp:68-81)
  counts one step too few when `minStepLength` is exactly `maxStepLength` times
  a power of the contraction rate; the tasks try that step (line 196) and set
  its flag behind the end of `alphaProcessed_` (line 247).
* **`mpc_node_null`.** `copyToBuffer` and the signal take different mutexes, so
  an announced publication can take the policy that is about to be announced.
  The swap puts the previous policy back and the signal publishes that one
  again. With the first policy after a reset has cleared the flag late, the
  worker meets the null controller of the constructor's solution.
* **`system_stuck`.** The republished older policy overwrites the awaited one in
  the queue of length one; the synchronized loop has sent its observation once
  and waits for ever (MRT_ROS_Dummy_Loop.cpp:111-113, 125-126).

Observations without a run:

* *Thread pool.* "returns when all tasks are completed" (ThreadPool.h:75) does
  not hold when the caller's own instance throws: `runParallel` returns while
  helpers still run. `OnlyThrowingLeavesTasks` is what does hold.
* *Trajectory spreading.* `adjustTrajectory` erases the end of the trajectory
  and then reads the values to spread (TrajectorySpreading.h:170-175), although
  their index may lie behind the first erased one: with A before and B after an
  event, and B before and A after it in the new schedule, B is spread backward from a
  point that has been erased. Vectors keep the memory, so that plain numbers
  survive and matrices do not. `StaysWithinKept` states what the comment at
  TrajectorySpreading.cpp:323 expects. The search for matching modes goes past
  the last active mode when nothing matches (lines 74-91). On trajectories with
  no point between two events two events get one index. An event exactly at the end
  of the horizon, of a mode that is stretched to the end, loses its index.
* *Levenberg-Marquardt.* The limit is tested before the counter goes up
  (LevenbergMarquardtStrategy.cpp:180), so `maxNumSuccessiveRejections + 1`
  rejections are tolerated, and the step after them is thrown away even if it
  would be accepted. A rollout that threw is accepted when the expected reduction is within
  `minRelCost` (LevenbergMarquardtStrategy.h:92). The default `minAcceptedPho` of
  0.25 lies outside its documented range [0, 0.25). After rejections in the
  first iteration of a run the published controller may cover only part of the
  horizon, because the nominal one does; `PublishedTogether` therefore claims
  the whole controller for the line search only.
* *Solver.* An exception leaves the data half swapped; only a reset makes it
  usable, and no caller runs the solver again without one.
* *In-process interface.* `resetMpcNode` takes no lock; called during
  `advanceMpc` it races with the solver, and `initRun_` is overwritten
  (MPC_BASE.cpp:71). The class only promises that policies may be evaluated
  during `advanceMpc`.
* *G7.* A reset request or answer that is lost when the MPC node dies is never
  repeated: `reset_requested_` stays up. The policy controller does not compare
  the time of a policy with the clock, so that after a new activation it
  evaluates the newest policy whatever its age, extrapolating beyond its end.
* *Synchronized loop.* The loop takes a policy whose time is that of its
  observation for the answer to it (MRT_ROS_Dummy_Loop.cpp:111-113). After a
  restart of the tracking process its time begins at 0 again, and a policy of
  the session before may arrive that has the awaited time. The loop then goes on
  while the MPC node has not solved for it, and may get beyond its horizon: TLC
  finds this with ratio 2, horizon 3, 6 steps and two sessions. That is why
  `NeverBeyondHorizon` speaks of the first session. A ratio equal to the horizon
  is too large also there: the second observation is refused.
* *ROS nodes.* `resetMpcNode` of the MRT node is called blocking
  (MRT_BASE.h:64), but does not await the response; and a reset of the MPC node
  does not stop a policy computed before from being published after it.

## 5. Proofs

Theorems hold for all values of the constants that satisfy the named
assumptions: any finite set of tasks and any strictly decreasing table of steps
(`StepAssumption`, `TasksAssumption`), any number of policies
(`MaxPoliciesAssumption`), any number of references, times and horizons
(`InterfaceAssumption`), any horizon, limits, thresholds and set of rollouts
(`SolverAssumption`, `LevenbergMarquardtAssumption`), any observations and
policies (`ObservationAssumption`), any number of threads, calls and instances,
any bounds on times, resets and sessions and any set of loop settings, any
horizon of the robot's MPC and any number of its cycles, activations and deaths,
any set of modes, of event times and of horizons and any number of events of a
schedule (`SpreadingAssumption`).
`NeverRunsAhead` has one assumption more: every synchronized setting has a ratio
below the horizon. The repository's configurations meet it by far (section 3),
and it is the weakest there is (section 4).

### 5.1 Line search (`LineSearchProofs`, first part)

`Typing`, `ReturnsLargestArmijoStep`, `ReturnsChosenRollout`, `AbortIsHarmless`
and `SlotsExclusive` follow from one inductive invariant `IInv`:

* `SlotInv`: ids are handed out once each, as many as tasks have started, and
  the slot of a deciding task holds its own rollout. Without the count, the id
  of the next task could be one that is in use, or lie outside the slots.
* `DrawInv`: a drawn exponent is held by exactly one task until it is decided,
  and every drawn candidate is held, decided or already beaten. Without this a
  candidate could get lost between the counter and the table.
* `BestInv`: the best step is acceptable, at least as large as every decided
  acceptable one; a wrong verdict is possible only for a step that has lost; a
  task that aborts the others, or has ended, has left no larger candidate
  undecided or undrawn. This is what makes an abort harmless and the end of all
  tasks conclusive.

The proof has one lemma per action and under each one step per conjunct.

### 5.2 Policy buffer (`MpcMrtInterfaceProofs`, first part)

`ActiveIsWhole`, `NothingLost`, `Monotone` and `Refinement` follow from `IInv`:

* `LockInv`: the mutex is held by the thread that is inside a critical section,
  hence by one of them.
* `MoveInv`, `UpdateInv`: half-way through the swaps, which parts are already
  new and where the others are.

`Refinement` shows that the initial states map to the mailbox's and that each
step maps to `Put`, `Take`, `Clear` or a stutter.

### 5.3 In-process interface (`MpcMrtInterfaceProofs`, second part)

`UsesBuffer` maps every step to a step of `MrtBase` or a stutter, so that the
theorems of 5.2 hold here. `RefInv` carries `SetReferencesAreUsed` and
`SchedulesKeepUp`: whatever is active or buffered has been set; the newest set
is one of the two; while the solver is between its two critical sections, the
targets taken are at least those known at its start, and the schedule, active or
buffered, is at least the one that was set before those targets. The last part
is why the order of the two buffers matters, and the mutant that swaps it breaks
it. `CommandInv` carries `CommandsDescribe`: every command names the time and the
targets of its policy, because no thread but the solver's own moves the active
references between the run and the copy; together with `ActiveIsOnePolicy` it
holds of the active pointers.

### 5.4 Solver (`DdpSolverProofs`)

`SolverIInv` is typing and four parts. `SolvedIsCached`: at each point of a run
the solved data is where it will be read from next, in the nominal data after
the Riccati equations, in the cached data after the swaps. `NominalIsEvaluated`:
until a step is taken the performance index in the history is that of the
nominal rollout, which a rejection falls back on. `StepIsEvaluated`: after the
step the optimized data is whole. `IterationIsLeft` bounds the count. From it
follow `CacheCanBeRead`, `ValueFunctionCanBeRead` and `PublishedBelongsTogether`.
`RejectionsAreDamped` needs only typing and that `minAcceptedPho` is at most
0.25: a step that is rejected is then one that raises the multiple.

### 5.5 MRT node (`MrtClientProofs`)

`ClientInv` is typing, `FlagMeansMessage`, `ReceivedMeansPolicy` and `InOrder`.
The first three are inductive together and carry `FlagIsRight` and
`ReceivedIsRight`. `SentInOrder` is about steps and needs `InOrder`: what has
been sent, the copy in the publishing thread and the message that waits follow
each other, each newer than the one before. Without the copy in the middle the
worker could send an observation that a later one has overtaken.

### 5.6 Thread pool (`LineSearchProofs`, second part)

`PoolInv` adds to typing and `EachTaskOnce` that instances of a call are
numbered by its futures, the caller's own having number 0 and never being
queued (`Numbering`), and who may be behind (`Accounting`): instances of an
earlier call only if that call has thrown, those of the current one only
above the futures collected. `NoTaskLostOrRepeated` and
`CallsWaitForTheirTasks` follow. Two lemmas say what the queue contains after a
push and a pop.

### 5.7 MPC node (`MpcRosNodeProofs`)

`NodeInv` is typing, `ResetInv` and `PipelineInv`, which follows a computed
policy on its way: once copied and until published it is in the buffer and has
been announced or will be, or the worker has swapped it in and is about to
publish it. That the worker's swap cannot put it back is where the mutex is
needed. `NewestPublished` is the case in which nothing is on its way.

### 5.8 System (`MpcMrtSystemProofs`)

`NeverWithoutPolicy` crosses all parts, and so does `SystemInv`. `ChannelInv`:
only policies that were computed are on the topic. `MpcInv`: the MPC node
computes none before the first reset, so that the constructor's empty solution
is not among them. `ClientInv`: the MRT node has a policy if it says it
received one. `StartInv`: the first step of a session waits for that and takes
the policy. `LoopInv` and `ResetsInv` bound the loop and count the resets by
sessions. `Restart` forgets everything in the tracking process, so its time
starts at 0 again, where `StartInv` claims nothing.

`NeverRunsAhead` follows the numbers around the whole circle, loop, topic, MPC
node and back, and adds `PaceInv` for the first session of a synchronized loop:

* `InOrder`: the observations between the loop and the solver, each in its
  place, get no newer on the way.
* `Fresh`: before the solver's first run there is no policy anywhere, the loop
  waits for the initial one, and only the observation at time 0 is on its way.
* `Followed`: after it, with `Solved` the time of the last run, every
  observation on its way lies in `Solved .. Solved + mpcUpdateRatio`, and no
  policy is newer than `Solved`.
* `InPeriod`: the loop simulates a step only when the last time at which a
  policy was due has been solved for. This is where the loop's own test matters:
  a policy it accepts has the awaited time, and by `Followed` that time is then
  at most `Solved`.

With a ratio below the horizon, `Followed` gives an observation before
`Solved + Horizon`, the solver's final time. One lemma says what each thread may
do to the pace, and `Remainders` the arithmetic of periods.

### 5.9 G7 loop (`G7ControlLoopProofs`)

`G7Inv` has four parts. `QuietInv`: until the coordinator asks for the reset the
MPC node has computed nothing, and there is no policy in its process, on the
topic, in the real-time buffer or in the controller. `ResetInv` counts the one
reset: it is a request, being served, an answer or completed, in one of these at
most, or it died with the node. `BufferInv`: the policy stored last is in the
half of the real-time buffer that is read next, so that the swap under a
try-lock that failed loses nothing. `CommandInv`: an inactive controller has a
zero command and none is written. From these follow `DrivenByActiveController`,
`OneReset` and, for steps, `NewestIsUsed`.

### 5.10 Trajectory spreading (`TrajectorySpreadingProofs`)

The invariant `Deciding` says that each stage has computed its result from what
the earlier ones left, and, of the rollout, what it is (`RolledOut`); the rest
is about the operators, for all inputs.

* *Searches.* `Prefix` counts a condition that holds up to some index;
  `std::upper_bound` and `std::lower_bound` are its two cases (`Bounds`), and an
  event splits a trajectory at its post-event index (`PostSplits`).
* *Rollout.* By induction over the intervals (`IntervalRolled`), the points so
  far lie in the intervals so far, with their modes, and there is one
  post-event index per event passed. `Rollouts` concludes `RolledOut`, which is
  `RolloutIsScheduled`. The last interval may be empty, when an event is at the
  final time: its one point repeats the time of the point before, and every
  statement about times going up has this exception (`TimeLine`).
* *Match.* `Matches` places the matched modes within the active ones of both
  schedules, `MatchedEventsAre` puts the events to move in a row, with the one
  that starts the match and the one that ends it, and `NewPosts` says where each
  goes: index 0, a point inside, or from the first erased point on. Here
  `FineEnough` and `EndIsNoEvent` are needed: without them two events get one
  index, or one is counted as erased that is not.
* *Values.* `Spread` is about any ranges in a row: the value written at a point
  between two moved events comes from between the same two events before they
  moved. That a stretched mode must not overwrite the one before it is the case
  in which ranges overlap. `AdjustedModesFollow` applies it, for
  `ModesFollowNewSchedule`.
* *Times.* By induction over the events (`EventMoved`), moving the points next to
  the first k of them leaves the others where they were, and the times going up.
  `AdjustedTimesFollow` finds the events and their indices again in the new
  times, for `EventsFollowNewSchedule` and `TimesGoUp`. As a part of this, every
  index written to is one of the trajectory's (TrajectorySpreading.cpp:376).

The library's induction theorems take a predicate as parameter, which the provers
do not instantiate. `Induction` takes the set of the numbers for which a fact
holds in its place; it follows from the well-foundedness of the natural numbers.
`RolledOut` has a clause about all integers; with the event times in their place
TLC finds `Deciding` to hold in all states of the run `spreading`.

The theorems have the hypothesis `Regular` where the properties have it; the
mutants of the run show that it is met by adjusted trajectories, also by ones
with moved events. What is read of an erased point (section 4) is allowed as
`Garbage`: `StaysWithinKept` is violated, so that nothing stronger holds.

### 5.11 What is only model-checked

Liveness, under the fairness above: the provers have no rules for it.
`ProcessedInBounds`, `PublishesComputedPolicies`, `SynchronizedLoopAdvances` and
`StaysWithinKept` are violated and cannot be proved. Every safety and action
property of a passing run is a theorem.

## 6. What is not modelled

* The content of policies, observations and references; the numerical solvers,
  integrators, costs and constraints. They have no control state, and TLC does
  not enumerate reals.
* In the MPC node, a solver, a message conversion or an observer that throws: it
  ends the process, as the crash of the worker and `KillMpc` do in the models.
* Malformed messages and mismatched interfaces in the G7 loop: each is dropped,
  or makes the update return an error with zero commands. Its keyboard and marker
  nodes publish targets only.
* `StateTriggeredRollout` and its root finder (events come from real-valued guard
  surfaces), the time discretization, `FilterLinesearch`, multiple shooting and the
  preconditioner (no solver of this repository calls them).
* The constraint penalties of the solver, and runs that start from a controller
  or solution given by the caller, which only tests do.
* Synchronized modules and solver observers: only tests of the repository register any.
* The end of `rclcpp::ok()` inside the loops: all threads then leave.
* Observers of MRT_BASE, which are called under the lock with the solutions and
  have no access to its flags.
* The client of the reset service always sets `reset`; a request without it is
  answered and ignored.
* The data race on the MRT node's plain `terminateThread_`, which its thread
  reads without the mutex (MRT_ROS_Interface.cpp:98): a read returns the old or
  the new value, which the interleaving covers. The other variables read outside
  a mutex (`bestStepSize_`, the counters of the line search, the flags of the MPC
  node) are sequentially consistent atomics in the code and in the model.
* Components with status "not_modelled" in `PROJECT.json`, with their reasons.

## 7. What is left

The parts of the code with control state are modelled. What could follow:

* that `FineEnough` follows from a bound on the integrator's steps, in place of
  the condition on the trajectory itself;
* a sequential backtracking search as an abstract specification that
  `LineSearch` implements, in place of the invariant `LargestArmijoStep`;
* `resetMpcNode` concurrent with `advanceMpc`, once the code gives it a meaning.

## 8. Running

    tlc -config LineSearch.cfg MCLineSearch
    tlc -config System.cfg MCMpcMrtSystem
    tlapm LineSearchProofs.tla
    tlapm MpcMrtInterfaceProofs.tla
    tlapm DdpSolverProofs.tla
    tlapm MrtClientProofs.tla
    tlapm MpcRosNodeProofs.tla
    tlapm MpcMrtSystemProofs.tla
    tlapm G7ControlLoopProofs.tla
    tlapm TrajectorySpreadingProofs.tla

`PROJECT.json` lists the module and the configuration of each run; they take
less than a minute each on two cores, `system` and `g7_control` about two, the
proofs seconds, but for some minutes that those of `TrajectorySpreading` take.
Definitions
whose comment starts with "Mutant" are plausible mistakes in the definition that
follows them: put in its place, each makes a property of its run fail, as
`PROJECT.json` lists under "mutants".
