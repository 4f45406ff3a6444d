---------------------------- MODULE ThreadPool -----------------------------
(***************************************************************************)
(* stw::thread_pool (src/stw/src/stw/system/thread_pool.cpp): a queue of   *)
(* tasks behind a mutex and a condition variable, drained by worker        *)
(* threads, with an atomic counter of the tasks being run and an atomic    *)
(* flag that stops the workers.  The callers are the http workers, which   *)
(* ask is_available() before they enqueue; the destructor runs once they   *)
(* have all been joined.                                                   *)
(***************************************************************************)
EXTENDS Naturals, Sequences, FiniteSets

CONSTANTS Workers,     \* the pool's threads
          Callers,     \* the threads that submit tasks
          Tasks,       \* the tasks submitted in a behaviour, each once
          Nobody,      \* the owner of a free mutex
          NoTask       \* the local `task` of a worker that holds none

ASSUME PoolAssumption == /\ IsFiniteSet(Workers) /\ IsFiniteSet(Callers)
                         /\ Nobody \notin Workers
                         /\ NoTask \notin Tasks

VARIABLES mutex,         \* queueMutex: the worker inside, or Nobody
          taskQueue,
          waiting,       \* the workers blocked in cv.wait
          stopFlag,
          activeThreads,
          wpc, task,     \* the workers: pc and local task
          spc, request,  \* the callers: pc and the task being submitted
          dpc,           \* the destructor
          submitted, done  \* history: tasks pushed, tasks run to the end

workerVars == <<mutex, waiting, wpc, task>>
callerVars == <<spc, request, submitted>>
vars == <<taskQueue, stopFlag, activeThreads, dpc, done, workerVars, callerVars>>

Init == /\ mutex = Nobody
        /\ taskQueue = <<>>
        /\ waiting = {}
        /\ stopFlag = FALSE
        /\ activeThreads = 0
        /\ wpc = [w \in Workers |-> "loop"]
        /\ task = [w \in Workers |-> NoTask]
        /\ spc = [c \in Callers |-> "idle"]
        /\ request = [c \in Callers |-> NoTask]
        /\ dpc = "alive"
        /\ submitted = {} /\ done = {}

Goto(w, from, to) == wpc[w] = from /\ wpc' = [wpc EXCEPT ![w] = to]
-----------------------------------------------------------------------------
(* worker_thread *)

\* while (!stopFlag): the flag is read without the mutex.
Loop(w) ==
    /\ Goto(w, "loop", IF stopFlag THEN "exited" ELSE "lock")
    /\ UNCHANGED <<taskQueue, stopFlag, activeThreads, dpc, done,
                   mutex, waiting, task, callerVars>>

\* The predicate of cv.wait holds: leave the wait with the mutex held.
\* A worker that was asleep tests again once it has the mutex back.
TestTrue(w) ==
    /\ mutex = Nobody /\ w \notin waiting
    /\ taskQueue # <<>> \/ stopFlag
    /\ Goto(w, "lock", "take") \/ Goto(w, "asleep", "take")
    /\ mutex' = w
    /\ UNCHANGED <<taskQueue, stopFlag, activeThreads, dpc, done,
                   waiting, task, callerVars>>

\* Mutant: the mutex is released before the worker is in the wait set.
TestFalseUnlocked(w) ==
    /\ mutex = Nobody /\ w \notin waiting
    /\ taskQueue = <<>> /\ ~stopFlag
    /\ Goto(w, "lock", "block") \/ Goto(w, "asleep", "block")
    /\ UNCHANGED <<taskQueue, stopFlag, activeThreads, dpc, done,
                   mutex, waiting, task, callerVars>>

\* The predicate is false: about to block, the mutex still held.
TestFalse(w) ==
    /\ mutex = Nobody /\ w \notin waiting
    /\ taskQueue = <<>> /\ ~stopFlag
    /\ Goto(w, "lock", "block") \/ Goto(w, "asleep", "block")
    /\ mutex' = w
    /\ UNCHANGED <<taskQueue, stopFlag, activeThreads, dpc, done,
                   waiting, task, callerVars>>

\* Releasing the mutex and joining the wait set are one step.
Block(w) ==
    /\ Goto(w, "block", "asleep")
    /\ mutex' = Nobody
    /\ waiting' = waiting \cup {w}
    /\ UNCHANGED <<taskQueue, stopFlag, activeThreads, dpc, done, task, callerVars>>

\* The standard lets a wait return without a notification.
SpuriousWakeup(w) ==
    /\ w \in waiting
    /\ waiting' = waiting \ {w}
    /\ UNCHANGED <<taskQueue, stopFlag, activeThreads, dpc, done,
                   mutex, wpc, task, callerVars>>

\* stopFlag && taskQueue.empty(): return, releasing the mutex.
Quit(w) ==
    /\ stopFlag /\ taskQueue = <<>>
    /\ Goto(w, "take", "exited")
    /\ mutex' = Nobody
    /\ UNCHANGED <<taskQueue, stopFlag, activeThreads, dpc, done,
                   waiting, task, callerVars>>

\* Mutant: the task is copied, not popped.
TakeWithoutPop(w) ==
    /\ ~(stopFlag /\ taskQueue = <<>>)
    /\ Goto(w, "take", "count")
    /\ task' = [task EXCEPT ![w] = Head(taskQueue)]
    /\ mutex' = Nobody
    /\ UNCHANGED <<taskQueue, stopFlag, activeThreads, dpc, done, waiting, callerVars>>

\* front() and pop(), which nothing guards but the test made in the wait.
Take(w) ==
    /\ ~(stopFlag /\ taskQueue = <<>>)
    /\ Goto(w, "take", "count")
    /\ task' = [task EXCEPT ![w] = Head(taskQueue)]
    /\ taskQueue' = Tail(taskQueue)
    /\ mutex' = Nobody
    /\ UNCHANGED <<stopFlag, activeThreads, dpc, done, waiting, callerVars>>

Count(w) ==
    /\ Goto(w, "count", "run")
    /\ activeThreads' = activeThreads + 1
    /\ UNCHANGED <<taskQueue, stopFlag, dpc, done, mutex, waiting, task, callerVars>>

\* The task returns.  `task` is destroyed at the end of the loop's body.
Run(w) ==
    /\ Goto(w, "run", "uncount")
    /\ done' = done \cup {task[w]}
    /\ task' = [task EXCEPT ![w] = NoTask]
    /\ UNCHANGED <<taskQueue, stopFlag, activeThreads, dpc, mutex, waiting, callerVars>>

\* Mutant: the decrement is missing.
UncountForgotten(w) ==
    /\ Goto(w, "uncount", "loop")
    /\ UNCHANGED <<activeThreads, taskQueue, stopFlag, dpc, done, mutex, waiting,
                   task, callerVars>>

Uncount(w) ==
    /\ Goto(w, "uncount", "loop")
    /\ activeThreads' = activeThreads - 1
    /\ UNCHANGED <<taskQueue, stopFlag, dpc, done, mutex, waiting, task, callerVars>>

WorkerThread(w) == \/ Loop(w)
                   \/ TestTrue(w) \/ TestFalse(w) \/ Block(w)
                   \/ Quit(w) \/ Take(w)
                   \/ Count(w) \/ Run(w) \/ Uncount(w)
-----------------------------------------------------------------------------
(* is_available and enqueue, as called by http_server::on_read *)

IsAvailable == activeThreads < Cardinality(Workers)

\* The caller looks at the counter first, holding nothing; a refused request
\* is answered by the caller itself and never reaches the pool.
Ask(c) ==
    /\ dpc = "alive" /\ spc[c] = "idle" /\ IsAvailable
    /\ \E t \in Tasks \ submitted :
          /\ \A other \in Callers : request[other] # t
          /\ request' = [request EXCEPT ![c] = t]
    /\ spc' = [spc EXCEPT ![c] = "enqueue"]
    /\ UNCHANGED <<taskQueue, stopFlag, activeThreads, dpc, done, workerVars, submitted>>

\* lock, push, unlock: one step, for nothing else happens inside.
Enqueue(c) ==
    /\ spc[c] = "enqueue" /\ mutex = Nobody
    /\ taskQueue' = Append(taskQueue, request[c])
    /\ submitted' = submitted \cup {request[c]}
    /\ request' = [request EXCEPT ![c] = NoTask]
    /\ spc' = [spc EXCEPT ![c] = "notify"]
    /\ UNCHANGED <<stopFlag, activeThreads, dpc, done, workerVars>>

\* Mutant: nobody is notified.
NotifyNobody(c) ==
    /\ spc[c] = "notify"
    /\ spc' = [spc EXCEPT ![c] = "idle"]
    /\ UNCHANGED <<taskQueue, stopFlag, activeThreads, dpc, done,
                   waiting, mutex, wpc, task, request, submitted>>

\* notify_one after the mutex was released.
NotifyOne(c) ==
    /\ spc[c] = "notify"
    /\ \/ waiting = {} /\ UNCHANGED waiting
       \/ \E w \in waiting : waiting' = waiting \ {w}
    /\ spc' = [spc EXCEPT ![c] = "idle"]
    /\ UNCHANGED <<taskQueue, stopFlag, activeThreads, dpc, done,
                   mutex, wpc, task, request, submitted>>
-----------------------------------------------------------------------------
(* ~thread_pool: no mutex is taken *)

Stop ==
    /\ dpc = "alive" /\ \A c \in Callers : spc[c] = "idle"
    /\ stopFlag' = TRUE
    /\ dpc' = "notify"
    /\ UNCHANGED <<taskQueue, activeThreads, done, workerVars, callerVars>>

\* Mutant: notify_one for notify_all.
NotifyOneOfAll ==
    /\ dpc = "notify"
    /\ \/ waiting = {} /\ UNCHANGED waiting
       \/ \E w \in waiting : waiting' = waiting \ {w}
    /\ dpc' = "join"
    /\ UNCHANGED <<taskQueue, stopFlag, activeThreads, done,
                   mutex, wpc, task, callerVars>>

NotifyAll ==
    /\ dpc = "notify"
    /\ waiting' = {}
    /\ dpc' = "join"
    /\ UNCHANGED <<taskQueue, stopFlag, activeThreads, done,
                   mutex, wpc, task, callerVars>>

Join ==
    /\ dpc = "join" /\ \A w \in Workers : wpc[w] = "exited"
    /\ dpc' = "gone"
    /\ UNCHANGED <<taskQueue, stopFlag, activeThreads, done, workerVars, callerVars>>
-----------------------------------------------------------------------------
Next == \/ \E w \in Workers : WorkerThread(w) \/ SpuriousWakeup(w)
        \/ \E c \in Callers : Ask(c) \/ Enqueue(c) \/ NotifyOne(c)
        \/ Stop \/ NotifyAll \/ Join

Spec == Init /\ [][Next]_vars

\* A runnable thread is scheduled and a task returns; nothing makes a caller
\* submit, the destructor start, or a sleeping worker wake up by itself.
Fairness == /\ \A w \in Workers : WF_vars(WorkerThread(w))
            /\ \A c \in Callers : WF_vars(Enqueue(c) \/ NotifyOne(c))
            /\ WF_vars(NotifyAll) /\ WF_vars(Join)

FairSpec == Spec /\ Fairness
-----------------------------------------------------------------------------
(* Properties *)

WorkerStates == {"loop", "lock", "block", "asleep", "take", "count", "run",
                 "uncount", "exited"}

Running == {w \in Workers : wpc[w] \in {"run", "uncount"}}

\* The workers that will look at the queue before they sleep (again).
Coming == {w \in Workers : \/ wpc[w] \in {"loop", "lock", "take"}
                           \/ wpc[w] = "asleep" /\ w \notin waiting}

Notifying == {c \in Callers : spc[c] = "notify"}

Queued == {taskQueue[i] : i \in DOMAIN taskQueue}
HeldTasks == {task[w] : w \in {v \in Workers : wpc[v] \in {"count", "run"}}}

\* The variables range over what the code can store in them; the counter, an
\* unsigned integer, never wraps below zero.
TypeOK ==
    /\ mutex \in Workers \cup {Nobody}
    /\ taskQueue \in Seq(Tasks)
    /\ waiting \in SUBSET Workers
    /\ stopFlag \in BOOLEAN
    /\ activeThreads \in Nat
    /\ wpc \in [Workers -> WorkerStates]
    /\ task \in [Workers -> Tasks \cup {NoTask}]
    /\ spc \in [Callers -> {"idle", "enqueue", "notify"}]
    /\ request \in [Callers -> Tasks \cup {NoTask}]
    /\ dpc \in {"alive", "notify", "join", "gone"}
    /\ submitted \in SUBSET Tasks /\ done \in SUBSET Tasks

\* Every task handed to the pool is in one place: once in the queue, in the
\* hands of one worker, or finished.  None is lost or run twice, by whatever
\* interleaving of callers, workers and notifications.
ExactlyOnce ==
    /\ \A i, j \in DOMAIN taskQueue : taskQueue[i] = taskQueue[j] => i = j
    /\ \A v, w \in Workers :
          wpc[v] \in {"count", "run"} /\ wpc[w] \in {"count", "run"} /\ task[v] = task[w]
             => v = w
    /\ Queued \cap HeldTasks = {} /\ (Queued \cup HeldTasks) \cap done = {}
    /\ submitted = Queued \cup HeldTasks \cup done

\* No worker takes the front of an empty queue, however notifications, spurious
\* wake-ups and other workers' takes fall out.
NoEmptyPop == \A w \in Workers : wpc[w] = "take" => taskQueue # <<>> \/ stopFlag

\* The counter is_available() reads is the number of workers between the two
\* updates: it neither drifts nor wraps, over any number of tasks.
CountHonest == activeThreads = Cardinality(Running)

\* Before the pool is stopped, a worker sleeps only if every queued task has a
\* worker of its own on the way to it, or a notification still to be sent.
NoLostWakeup ==
    ~stopFlag /\ waiting # {}
       => Len(taskQueue) <= Cardinality(Coming) + Cardinality(Notifying)

\* A task in the queue is run, unless the pool is being destroyed: the check
\* of stopFlag before and after the wait drops what is still queued then.
TasksComplete ==
    \A t \in Tasks : (t \in submitted) ~> (t \in done \/ stopFlag)

\* The destructor returns if, between its store and its notify_all, no worker
\* is caught between testing the predicate and blocking.  (A worker caught
\* there misses the notification, and the join never returns.)
ShutdownCompletes ==
    (dpc = "notify" /\ \A w \in Workers : wpc[w] # "block") ~> (dpc = "gone")
=============================================================================
