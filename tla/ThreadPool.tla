----------------------------- MODULE ThreadPool -----------------------------
(***************************************************************************)
(* server/thread_pool.h: workers, producers and the owner that destroys    *)
(* the pool, around one mutex and one condition variable.                  *)
(*                                                                         *)
(* A step is one critical section, or one notification, which the code     *)
(* makes after it has released the mutex.  condition_.wait releases the    *)
(* mutex and sleeps when the predicate is false; a sleeping worker goes on *)
(* only after a notification or spuriously, and looks at the predicate     *)
(* again.                                                                  *)
(***************************************************************************)
EXTENDS SequencesExt

CONSTANTS
    Workers,        \* the threads of workers_
    Producers,      \* threads that call Submit
    Tasks           \* the tasks they may submit, each once

ASSUME PoolAssumption == Workers # {} /\ IsFiniteSet(Workers)

VARIABLES
    tasks,          \* tasks_
    stop,           \* stop_
    worker,         \* worker -> "run" | "sleep" | "exited"
    producer,       \* producer -> "idle" | "notify"
    owner,          \* the destructor: "alive", "notify", "join", "destroyed"
    submitted,      \* history: the tasks pushed, in order
    taken,          \* history: the tasks popped, in order
    executed        \* history: the tasks a worker has invoked

vars == <<tasks, stop, worker, producer, owner, submitted, taken, executed>>

Init ==
    /\ tasks = <<>> /\ submitted = <<>> /\ taken = <<>>
    /\ stop = FALSE
    /\ worker = [w \in Workers |-> "run"]
    /\ producer = [p \in Producers |-> "idle"]
    /\ owner = "alive"
    /\ executed = {}

\* The predicate of condition_.wait.
MayProceed == stop \/ tasks # <<>>

-----------------------------------------------------------------------------
(* WorkerLoop: one iteration under the mutex, up to where it releases it. *)

WaitForWork(w) ==
    /\ worker[w] = "run"
    /\ ~MayProceed
    /\ worker' = [worker EXCEPT ![w] = "sleep"]
    /\ UNCHANGED <<tasks, stop, producer, owner, submitted, taken, executed>>

\* Seeded fault: the newest task is taken first.
TakeTaskNewest(w) ==
    /\ worker[w] = "run"
    /\ tasks # <<>>
    /\ tasks' = Front(tasks)
    /\ taken' = Append(taken, Last(tasks))
    /\ UNCHANGED <<stop, worker, producer, owner, submitted, executed>>

\* The task is moved out of the queue and the loop goes round: no statement
\* of the loop invokes it.
TakeTask(w) ==
    /\ worker[w] = "run"
    /\ tasks # <<>>
    /\ tasks' = Tail(tasks)
    /\ taken' = Append(taken, Head(tasks))
    /\ UNCHANGED <<stop, worker, producer, owner, submitted, executed>>

\* Seeded fault: a stopped worker leaves without looking at the queue.
ExitAtOnce(w) ==
    /\ worker[w] = "run"
    /\ stop
    /\ worker' = [worker EXCEPT ![w] = "exited"]
    /\ UNCHANGED <<tasks, stop, producer, owner, submitted, taken, executed>>

Exit(w) ==
    /\ worker[w] = "run"
    /\ stop /\ tasks = <<>>
    /\ worker' = [worker EXCEPT ![w] = "exited"]
    /\ UNCHANGED <<tasks, stop, producer, owner, submitted, taken, executed>>

WakeSpuriously(w) ==
    /\ worker[w] = "sleep"
    /\ worker' = [worker EXCEPT ![w] = "run"]
    /\ UNCHANGED <<tasks, stop, producer, owner, submitted, taken, executed>>

-----------------------------------------------------------------------------
(* Submit *)

Push(p, task) ==
    /\ producer[p] = "idle"
    /\ owner = "alive"
    /\ ~Contains(submitted, task)
    /\ tasks' = Append(tasks, task)
    /\ submitted' = Append(submitted, task)
    /\ producer' = [producer EXCEPT ![p] = "notify"]
    /\ UNCHANGED <<stop, worker, owner, taken, executed>>

\* Seeded fault: Submit ends without a notification.
NotifyNobody(p) ==
    /\ producer[p] = "notify"
    /\ producer' = [producer EXCEPT ![p] = "idle"]
    /\ UNCHANGED <<tasks, stop, worker, owner, submitted, taken, executed>>

\* notify_one wakes one sleeping worker, if there is one.
NotifyOne(p) ==
    /\ producer[p] = "notify"
    /\ producer' = [producer EXCEPT ![p] = "idle"]
    /\ IF \E w \in Workers : worker[w] = "sleep"
       THEN \E w \in Workers : worker[w] = "sleep" /\ worker' = [worker EXCEPT ![w] = "run"]
       ELSE UNCHANGED worker
    /\ UNCHANGED <<tasks, stop, owner, submitted, taken, executed>>

-----------------------------------------------------------------------------
(* The destructor.  No other thread may be inside the pool when it starts. *)

RequestStop ==
    /\ owner = "alive"
    /\ \A p \in Producers : producer[p] = "idle"
    /\ stop' = TRUE
    /\ owner' = "notify"
    /\ UNCHANGED <<tasks, worker, producer, submitted, taken, executed>>

\* Seeded fault: the destructor calls notify_one.
NotifyAllButOne ==
    /\ owner = "notify"
    /\ IF \E w \in Workers : worker[w] = "sleep"
       THEN \E w \in Workers : worker[w] = "sleep" /\ worker' = [worker EXCEPT ![w] = "run"]
       ELSE UNCHANGED worker
    /\ owner' = "join"
    /\ UNCHANGED <<tasks, stop, producer, submitted, taken, executed>>

NotifyAll ==
    /\ owner = "notify"
    /\ worker' = [w \in Workers |-> IF worker[w] = "sleep" THEN "run" ELSE worker[w]]
    /\ owner' = "join"
    /\ UNCHANGED <<tasks, stop, producer, submitted, taken, executed>>

Join ==
    /\ owner = "join"
    /\ \A w \in Workers : worker[w] = "exited"
    /\ owner' = "destroyed"
    /\ UNCHANGED <<tasks, stop, worker, producer, submitted, taken, executed>>

-----------------------------------------------------------------------------
WorkerStep(w) == WaitForWork(w) \/ TakeTask(w) \/ Exit(w)

Destructor == RequestStop \/ NotifyAll \/ Join

Next ==
    \/ \E w \in Workers : WorkerStep(w) \/ WakeSpuriously(w)
    \/ \E p \in Producers : NotifyOne(p) \/ \E task \in Tasks : Push(p, task)
    \/ Destructor

Spec == Init /\ [][Next]_vars

(***************************************************************************)
(* A thread that is not blocked goes on: a running worker gets the mutex,  *)
(* Submit and the destructor finish once begun.  Nobody has to call Submit *)
(* or to destroy the pool, and no wake-up is owed to a sleeping worker.    *)
(***************************************************************************)
FairSpec ==
    /\ Spec
    /\ \A w \in Workers : WF_vars(WorkerStep(w))
    /\ \A p \in Producers : WF_vars(NotifyOne(p))
    /\ WF_vars(NotifyAll) /\ WF_vars(Join)

-----------------------------------------------------------------------------
(* Properties *)

\* Every variable has its type (members of ThreadPool, thread_pool.h:116-120).
TypeOK ==
    /\ tasks \in Seq(Tasks) /\ submitted \in Seq(Tasks) /\ taken \in Seq(Tasks)
    /\ stop \in BOOLEAN
    /\ worker \in [Workers -> {"run", "sleep", "exited"}]
    /\ producer \in [Producers -> {"idle", "notify"}]
    /\ owner \in {"alive", "notify", "join", "destroyed"}
    /\ executed \subseteq Tasks

\* The workers together take the tasks in the order they were submitted, none
\* lost and none twice (thread_pool.h:85, 110-111).
TakenInOrder == submitted = taken \o tasks

\* No wake-up is lost although Submit and the destructor notify after they
\* have released the mutex (thread_pool.h:83-88, 62-67): whenever every worker
\* sleeps or has left and a task is queued, or a worker sleeps through a stop,
\* a notification is still to come.
NoLostWakeup ==
    /\ tasks # <<>> /\ (\A w \in Workers : worker[w] # "run") =>
          \E p \in Producers : producer[p] = "notify"
    /\ stop /\ (\E w \in Workers : worker[w] = "sleep") => owner = "notify"

\* "graceful shutdown: drains queue, joins threads" (docs/LLD.md:239): a worker
\* leaves, and the pool is destroyed, only with the queue empty for good.
DrainedBeforeExit ==
    (owner = "destroyed" \/ \E w \in Workers : worker[w] = "exited")
        => tasks = <<>> /\ taken = submitted

\* A submitted task does not stay in the queue.
EveryTaskIsTaken ==
    \A task \in Tasks : Contains(submitted, task) ~> Contains(taken, task)

\* A destructor that has begun returns: no worker sleeps through the stop.
ShutdownCompletes == stop ~> owner = "destroyed"

\* "Execute submitted tasks asynchronously" (thread_pool.h:8).
EveryTaskIsExecuted ==
    \A task \in Tasks : Contains(submitted, task) ~> task \in executed
=============================================================================
