----------------------------- MODULE ThreadPool -----------------------------
(***************************************************************************)
(* The thread pool of ocs2_core (core/ocs2_core/src/thread_support/        *)
(* ThreadPool.cpp).  Its owner calls runParallel(taskFunction, N), which   *)
(* queues N - 1 instances for the workers, runs one itself and waits for   *)
(* the futures of the others, and finally destroys the pool.  The workers  *)
(* wait on a condition variable for the queue or the stop flag.            *)
(*                                                                         *)
(* An instance is the call it belongs to and its number; the owner's own   *)
(* has number 0.  What it computes is left out, but it may throw.          *)
(***************************************************************************)
EXTENDS Naturals, Sequences

CONSTANTS
    MaxThreads,     \* bound on the number of threads in the pool
    MaxCalls,       \* bound on the calls of runParallel()
    MaxParallel     \* bound on the instances of a call

ASSUME PoolAssumption ==
    MaxThreads \in Nat /\ MaxCalls \in Nat /\ MaxParallel \in Nat \ {0}

Task == (1..MaxCalls) \X (0..(MaxParallel - 1))
NoTask == <<0, 0>>
Thread == 0..(MaxThreads - 1)

VARIABLES
    numThreads,     \* workerThreads_.size()
    taskQueue_, stop_,
    worker,         \* where each worker is
    task,           \* the instance each worker has taken
    owner,          \* where the owner is
    call,           \* the calls made so far
    N,              \* the instances of the current call
    futures,        \* the futures created by the current call
    collected,      \* the futures it has got the result of
    created,        \* all instances created so far
    completed,      \* the instances that have returned or thrown
    threw           \* the instances that have thrown

pool == <<taskQueue_, stop_>>
workers == <<worker, task>>
calls == <<call, N, futures, collected>>
instances == <<created, completed, threw>>
poolVars == <<numThreads, pool, workers, owner, calls, instances>>

PoolInit ==
    /\ numThreads \in 0..MaxThreads
    /\ taskQueue_ = <<>> /\ stop_ = FALSE
    /\ worker = [w \in Thread |-> IF w < numThreads THEN "lock" ELSE "none"]
    /\ task = [w \in Thread |-> NoTask]
    /\ owner = "idle"
    /\ call = 0 /\ N = 1 /\ futures = 0 /\ collected = 0
    /\ created = {} /\ completed = {} /\ threw = {}

\* An instance ends, with or without an exception.
Completes(t) ==
    /\ completed' = completed \cup {t}
    /\ threw' \in {threw, threw \cup {t}}

-----------------------------------------------------------------------------
(* runParallel() and run(), called by the owner.                           *)

RunParallel ==
    /\ owner = "idle" /\ call < MaxCalls
    /\ call' = call + 1
    /\ N' \in 1..MaxParallel
    /\ futures' = 0 /\ collected' = 0
    /\ owner' = "launch"
    /\ UNCHANGED <<numThreads, pool, workers, instances>>

\* run() queues the next instance under taskQueueLock_; ...
Queue ==
    /\ owner = "launch" /\ futures < N - 1
    /\ numThreads > 0
    /\ futures' = futures + 1
    /\ created' = created \cup {<<call, futures'>>}
    /\ taskQueue_' = Append(taskQueue_, <<call, futures'>>)
    /\ owner' = "notify"
    /\ UNCHANGED <<numThreads, stop_, workers, call, N, collected, completed,
                   threw>>

\* Mutant: no worker is woken.
NotifyOne_Missing ==
    /\ owner = "notify"
    /\ owner' = "launch"
    /\ UNCHANGED <<numThreads, pool, workers, calls, instances>>

Waiting == {w \in Thread : worker[w] = "waiting"}

\* ... and wakes one waiting worker, if there is one, after the unlock.
NotifyOne ==
    /\ owner = "notify"
    /\ \/ Waiting = {} /\ UNCHANGED worker
       \/ \E w \in Waiting : worker' = [worker EXCEPT ![w] = "lock"]
    /\ owner' = "launch"
    /\ UNCHANGED <<numThreads, pool, task, calls, instances>>

\* A pool without threads runs the instance in place; the packaged task keeps
\* its exception for the future.
RunInline ==
    /\ owner = "launch" /\ futures < N - 1
    /\ numThreads = 0
    /\ futures' = futures + 1
    /\ created' = created \cup {<<call, futures'>>}
    /\ Completes(<<call, futures'>>)
    /\ UNCHANGED <<numThreads, pool, workers, owner, call, N, collected>>

\* The owner's own instance starts, ...
RunOwn ==
    /\ owner = "launch" /\ futures = N - 1
    /\ created' = created \cup {<<call, 0>>}
    /\ owner' = "own"
    /\ UNCHANGED <<numThreads, pool, workers, calls, completed, threw>>

\* ... and returns or throws, which ends the call at once.
FinishOwn ==
    /\ owner = "own"
    /\ Completes(<<call, 0>>)
    /\ owner' = IF <<call, 0>> \in threw' THEN "idle" ELSE "collect"
    /\ UNCHANGED <<numThreads, pool, workers, calls, created>>

\* fut.get() returns, or rethrows and ends the call.
Collect ==
    /\ owner = "collect" /\ collected < futures
    /\ <<call, collected + 1>> \in completed
    /\ collected' = collected + 1
    /\ owner' = IF <<call, collected'>> \in threw THEN "idle" ELSE "collect"
    /\ UNCHANGED <<numThreads, pool, workers, call, N, futures, instances>>

\* Mutant: the loop over the futures stops one early.
ReturnFromCall_BeforeLast ==
    /\ owner = "collect" /\ collected + 1 >= futures
    /\ owner' = "idle"
    /\ UNCHANGED <<numThreads, pool, workers, calls, instances>>

ReturnFromCall ==
    /\ owner = "collect" /\ collected = futures
    /\ owner' = "idle"
    /\ UNCHANGED <<numThreads, pool, workers, calls, instances>>

-----------------------------------------------------------------------------
(* The destructor.                                                         *)

\* The stop flag goes up under the lock, and every worker is woken: one that
\* is woken late is as good as one that was woken spuriously.
Destroy ==
    /\ owner = "idle"
    /\ stop_' = TRUE
    /\ worker' = [w \in Thread |->
                     IF worker[w] = "waiting" THEN "lock" ELSE worker[w]]
    /\ owner' = "join"
    /\ UNCHANGED <<numThreads, taskQueue_, task, calls, instances>>

Join ==
    /\ owner = "join"
    /\ \A w \in Thread : worker[w] \in {"exited", "none"}
    /\ owner' = "gone"
    /\ UNCHANGED <<numThreads, pool, workers, calls, instances>>

-----------------------------------------------------------------------------
(* worker(w)                                                               *)

\* With the lock, the worker finds nothing to do and waits, ...
Wait(w) ==
    /\ worker[w] = "lock"
    /\ taskQueue_ = <<>> /\ ~stop_
    /\ worker' = [worker EXCEPT ![w] = "waiting"]
    /\ UNCHANGED <<numThreads, pool, task, owner, calls, instances>>

\* ... finds the stop flag up, whatever is still in the queue, ...
Exit(w) ==
    /\ worker[w] = "lock" /\ stop_
    /\ worker' = [worker EXCEPT ![w] = "exited"]
    /\ UNCHANGED <<numThreads, pool, task, owner, calls, instances>>

\* Mutant: the first task is not removed from the queue.
Pop_Front(w) ==
    /\ worker[w] = "lock"
    /\ taskQueue_ # <<>> /\ ~stop_
    /\ task' = [task EXCEPT ![w] = Head(taskQueue_)]
    /\ worker' = [worker EXCEPT ![w] = "run"]
    /\ UNCHANGED <<numThreads, pool, owner, calls, instances>>

\* ... or pops the first task.
Pop(w) ==
    /\ worker[w] = "lock"
    /\ taskQueue_ # <<>> /\ ~stop_
    /\ task' = [task EXCEPT ![w] = Head(taskQueue_)]
    /\ taskQueue_' = Tail(taskQueue_)
    /\ worker' = [worker EXCEPT ![w] = "run"]
    /\ UNCHANGED <<numThreads, stop_, owner, calls, instances>>

Execute(w) ==
    /\ worker[w] = "run"
    /\ Completes(task[w])
    /\ task' = [task EXCEPT ![w] = NoTask]
    /\ worker' = [worker EXCEPT ![w] = "lock"]
    /\ UNCHANGED <<numThreads, pool, owner, calls, created>>

SpuriousWakeup(w) ==
    /\ worker[w] = "waiting"
    /\ worker' = [worker EXCEPT ![w] = "lock"]
    /\ UNCHANGED <<numThreads, pool, task, owner, calls, instances>>

-----------------------------------------------------------------------------
OwnerStep ==
    \/ Queue \/ NotifyOne \/ RunInline \/ RunOwn \/ FinishOwn
    \/ Collect \/ ReturnFromCall \/ Join

WorkerStep(w) == Wait(w) \/ Exit(w) \/ Pop(w) \/ Execute(w)

PoolNext ==
    \/ OwnerStep \/ RunParallel \/ Destroy
    \/ \E w \in Thread : WorkerStep(w) \/ SpuriousWakeup(w)

PoolSpec == PoolInit /\ [][PoolNext]_poolVars

\* Threads are scheduled and instances end.  Nothing obliges the owner to call
\* the pool or to destroy it.
FairPoolSpec ==
    /\ PoolSpec
    /\ WF_poolVars(OwnerStep)
    /\ \A w \in Thread : WF_poolVars(WorkerStep(w))

-----------------------------------------------------------------------------
(* Correctness.                                                            *)

Queued == {taskQueue_[i] : i \in DOMAIN taskQueue_}
Running == {w \in Thread : worker[w] = "run"}
Taken == {task[w] : w \in Running}

PoolTypeOK ==
    /\ numThreads \in 0..MaxThreads
    /\ taskQueue_ \in Seq(Task) /\ stop_ \in BOOLEAN
    /\ worker \in [Thread -> {"none", "lock", "waiting", "run", "exited"}]
    /\ task \in [Thread -> Task \cup {NoTask}]
    /\ owner \in {"idle", "launch", "notify", "own", "collect", "join", "gone"}
    /\ call \in 0..MaxCalls /\ N \in 1..MaxParallel
    /\ futures \in 0..(MaxParallel - 1) /\ collected \in 0..futures
    /\ created \subseteq Task
    /\ completed \subseteq Task /\ threw \subseteq completed

\* An instance is never lost and never runs twice: it waits in the queue once,
\* is run by one thread, or has completed (ThreadPool.cpp:66-69, 84).
EachTaskOnce ==
    /\ \A i, j \in DOMAIN taskQueue_ : taskQueue_[i] = taskQueue_[j] => i = j
    /\ \A v, w \in Running : task[v] = task[w] => v = w
    /\ Queued \cap Taken = {} /\ (Queued \cup Taken) \cap completed = {}
    /\ created = Queued \cup Taken \cup completed
                    \cup (IF owner = "own" THEN {<<call, 0>>} ELSE {})

\* Only a call that has thrown leaves instances behind: any other call has
\* waited for all of its own, and so has the destructor's join but for those
\* (ThreadPool.cpp:103-108).
OnlyThrowingLeavesTasks ==
    owner \in {"idle", "join"} =>
        \A t \in created \ completed : \E u \in threw : u[1] = t[1]

\* runParallel() and the destructor return: no task is pushed into the gap
\* between a worker's test and its wait, no wake-up goes to a worker that
\* does not need it while another sleeps on a task, and the join finds every
\* worker at its exit (ThreadPool.cpp:45-50, 60, 84-86, 105-107).
CallsReturn == owner \notin {"idle", "gone"} ~> owner \in {"idle", "gone"}

=============================================================================
