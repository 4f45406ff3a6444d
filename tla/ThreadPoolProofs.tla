------------------------- MODULE ThreadPoolProofs --------------------------
(***************************************************************************)
(* The safety properties of ThreadPool, for any numbers of workers,        *)
(* callers and tasks.                                                      *)
(*                                                                         *)
(* The argument: the two regions of worker_thread that hold the mutex      *)
(* exclude each other, a worker blocks only while the queue is empty, and  *)
(* takes only while it is not; so every task moves from its caller to the  *)
(* queue, to one worker, to the tasks done, and a worker that falls asleep *)
(* leaves no task behind.                                                  *)
(***************************************************************************)
EXTENDS ThreadPool, FiniteSetTheorems, TLAPS

\* What holding queueMutex and being in the wait set mean for a worker.
Exclusion ==
    /\ \A w \in Workers : wpc[w] \in {"block", "take"} <=> mutex = w
    /\ \A w \in waiting : wpc[w] = "asleep"
    /\ \A w \in Workers : wpc[w] = "block" => taskQueue = <<>>

\* Which threads hold a task, and that no two callers submit the same one.
Submission ==
    /\ \A w \in Workers : task[w] # NoTask <=> wpc[w] \in {"count", "run"}
    /\ \A c \in Callers : request[c] # NoTask <=> spc[c] = "enqueue"
    /\ \A c \in Callers : request[c] \notin submitted
    /\ \A b, c \in Callers : request[b] # NoTask /\ request[b] = request[c] => b = c

IInv == /\ TypeOK /\ Exclusion /\ Submission
        /\ ExactlyOnce /\ NoEmptyPop /\ CountHonest /\ NoLostWakeup
-----------------------------------------------------------------------------
(* Sets of threads *)

\* A set of workers, or of callers, is finite; so it can be counted, and
\* counting one element more or less is adding or subtracting one.
LEMMA WorkersCount ==
  ASSUME NEW S \in SUBSET Workers
  PROVE  /\ IsFiniteSet(S) /\ Cardinality(S) \in Nat
         /\ \A w \in S : Cardinality(S \ {w}) = Cardinality(S) - 1 /\ Cardinality(S) > 0
         /\ \A w \in Workers \ S : Cardinality(S \cup {w}) = Cardinality(S) + 1
<1>1. IsFiniteSet(S) /\ Cardinality(S) \in Nat
  BY PoolAssumption, FS_Subset, FS_CardinalityType
<1>2. \A w \in S : Cardinality(S \ {w}) = Cardinality(S) - 1 /\ Cardinality(S) > 0
  <2> SUFFICES ASSUME NEW w \in S
               PROVE  Cardinality(S \ {w}) = Cardinality(S) - 1 /\ Cardinality(S) > 0
    OBVIOUS
  <2>1. Cardinality(S \ {w}) = Cardinality(S) - 1
    BY <1>1, FS_RemoveElement
  <2>2. Cardinality(S) # 0
    BY <1>1, FS_EmptySet
  <2> QED BY <1>1, <2>1, <2>2
<1>3. \A w \in Workers \ S : Cardinality(S \cup {w}) = Cardinality(S) + 1
  BY <1>1, FS_AddElement
<1> QED BY <1>1, <1>2, <1>3

LEMMA CallersCount ==
  ASSUME NEW S \in SUBSET Callers
  PROVE  /\ Cardinality(S) \in Nat
         /\ \A c \in S : Cardinality(S \ {c}) = Cardinality(S) - 1
         /\ \A c \in Callers \ S : Cardinality(S \cup {c}) = Cardinality(S) + 1
<1>1. IsFiniteSet(S) /\ Cardinality(S) \in Nat
  BY PoolAssumption, FS_Subset, FS_CardinalityType
<1>2. \A c \in S : Cardinality(S \ {c}) = Cardinality(S) - 1
  BY <1>1, FS_RemoveElement
<1>3. \A c \in Callers \ S : Cardinality(S \cup {c}) = Cardinality(S) + 1
  BY <1>1, FS_AddElement
<1> QED BY <1>1, <1>2, <1>3
-----------------------------------------------------------------------------
(* The initial states *)

LEMMA InitIInv == Init => IInv
<1> SUFFICES ASSUME Init PROVE IInv
  OBVIOUS
<1> USE DEF Init
<1>1. TypeOK
  <2>1. taskQueue \in Seq(Tasks)
    OBVIOUS
  <2>2. wpc \in [Workers -> WorkerStates] /\ spc \in [Callers -> {"idle", "enqueue", "notify"}]
    BY DEF WorkerStates
  <2>3. task \in [Workers -> Tasks \cup {NoTask}] /\ request \in [Callers -> Tasks \cup {NoTask}]
    OBVIOUS
  <2> QED BY <2>1, <2>2, <2>3 DEF TypeOK
<1>2. Exclusion
  BY PoolAssumption DEF Exclusion
<1>3. Submission
  BY PoolAssumption DEF Submission
<1>4. ExactlyOnce
  <2>1. Queued = {} /\ HeldTasks = {}
    BY DEF Queued, HeldTasks
  <2> QED BY <2>1 DEF ExactlyOnce
<1>5. NoEmptyPop
  BY DEF NoEmptyPop
<1>6. CountHonest
  <2>1. Running = {}
    BY DEF Running
  <2> QED BY <2>1, FS_EmptySet DEF CountHonest
<1>7. NoLostWakeup
  BY DEF NoLostWakeup
<1> QED BY <1>1, <1>2, <1>3, <1>4, <1>5, <1>6, <1>7 DEF IInv
-----------------------------------------------------------------------------
(* Types *)

LEMMA TypeNext == IInv /\ [Next]_vars => TypeOK'
<1> SUFFICES ASSUME IInv, [Next]_vars PROVE TypeOK'
  OBVIOUS
<1>0. TypeOK
  BY DEF IInv
<1> USE <1>0 DEF TypeOK
<1>1. ASSUME NEW w \in Workers, Loop(w) PROVE TypeOK'
  BY <1>1 DEF Loop, Goto, WorkerStates, callerVars
<1>2. ASSUME NEW w \in Workers, TestTrue(w) PROVE TypeOK'
  BY <1>2 DEF TestTrue, Goto, WorkerStates, callerVars
<1>3. ASSUME NEW w \in Workers, TestFalse(w) PROVE TypeOK'
  BY <1>3 DEF TestFalse, Goto, WorkerStates, callerVars
<1>4. ASSUME NEW w \in Workers, Block(w) PROVE TypeOK'
  BY <1>4 DEF Block, Goto, WorkerStates, callerVars
<1>5. ASSUME NEW w \in Workers, SpuriousWakeup(w) PROVE TypeOK'
  BY <1>5 DEF SpuriousWakeup, callerVars
<1>6. ASSUME NEW w \in Workers, Quit(w) PROVE TypeOK'
  BY <1>6 DEF Quit, Goto, WorkerStates, callerVars
<1>7. ASSUME NEW w \in Workers, Take(w) PROVE TypeOK'
  <2>1. taskQueue # <<>>
    BY <1>7 DEF IInv, NoEmptyPop, Take, Goto
  <2>2. Head(taskQueue) \in Tasks /\ Tail(taskQueue) \in Seq(Tasks)
    BY <2>1
  <2> QED BY <1>7, <2>2 DEF Take, Goto, WorkerStates, callerVars
<1>8. ASSUME NEW w \in Workers, Count(w) PROVE TypeOK'
  BY <1>8 DEF Count, Goto, WorkerStates, callerVars
<1>9. ASSUME NEW w \in Workers, Run(w) PROVE TypeOK'
  <2>1. task[w] \in Tasks
    BY <1>9 DEF IInv, Submission, Run, Goto
  <2> QED BY <1>9, <2>1 DEF Run, Goto, WorkerStates, callerVars
<1>10. ASSUME NEW w \in Workers, Uncount(w) PROVE TypeOK'
  <2>1. w \in Running /\ Running \in SUBSET Workers
    BY <1>10 DEF Uncount, Goto, Running
  <2>2. activeThreads > 0
    BY <2>1, WorkersCount DEF IInv, CountHonest
  <2>3. activeThreads' \in Nat
    BY <1>10, <2>2 DEF Uncount
  <2> QED BY <1>10, <2>3 DEF Uncount, Goto, WorkerStates, callerVars
<1>11. ASSUME NEW c \in Callers, Ask(c) PROVE TypeOK'
  BY <1>11 DEF Ask, workerVars
<1>12. ASSUME NEW c \in Callers, Enqueue(c) PROVE TypeOK'
  <2>1. request[c] \in Tasks
    BY <1>12 DEF IInv, Submission, Enqueue
  <2>2. Append(taskQueue, request[c]) \in Seq(Tasks)
    BY <2>1
  <2> QED BY <1>12, <2>1, <2>2 DEF Enqueue, workerVars
<1>13. ASSUME NEW c \in Callers, NotifyOne(c) PROVE TypeOK'
  BY <1>13 DEF NotifyOne
<1>14. CASE Stop
  BY <1>14 DEF Stop, workerVars, callerVars
<1>15. CASE NotifyAll
  BY <1>15 DEF NotifyAll, callerVars
<1>16. CASE Join
  BY <1>16 DEF Join, workerVars, callerVars
<1>17. CASE UNCHANGED vars
  BY <1>17 DEF vars, workerVars, callerVars
<1> QED
  BY <1>1, <1>2, <1>3, <1>4, <1>5, <1>6, <1>7, <1>8, <1>9, <1>10, <1>11,
     <1>12, <1>13, <1>14, <1>15, <1>16, <1>17 DEF Next, WorkerThread
-----------------------------------------------------------------------------
(* The mutex, and who holds a task *)

LEMMA ExclusionNext == IInv /\ [Next]_vars => Exclusion' /\ NoEmptyPop'
<1> SUFFICES ASSUME IInv, [Next]_vars PROVE Exclusion' /\ NoEmptyPop'
  OBVIOUS
<1>0. TypeOK /\ Exclusion /\ NoEmptyPop /\ Nobody \notin Workers
  BY PoolAssumption DEF IInv
<1> USE <1>0 DEF TypeOK, Exclusion, NoEmptyPop
<1>1. ASSUME NEW w \in Workers, Loop(w) \/ Count(w) \/ Run(w) \/ Uncount(w)
      PROVE  Exclusion' /\ NoEmptyPop'
  BY <1>1 DEF Loop, Count, Run, Uncount, Goto
<1>2. ASSUME NEW w \in Workers, TestTrue(w) PROVE Exclusion' /\ NoEmptyPop'
  BY <1>2 DEF TestTrue, Goto
<1>3. ASSUME NEW w \in Workers, TestFalse(w) PROVE Exclusion' /\ NoEmptyPop'
  BY <1>3 DEF TestFalse, Goto
<1>4. ASSUME NEW w \in Workers, Block(w) PROVE Exclusion' /\ NoEmptyPop'
  BY <1>4 DEF Block, Goto
<1>5. ASSUME NEW w \in Workers, SpuriousWakeup(w) PROVE Exclusion' /\ NoEmptyPop'
  BY <1>5 DEF SpuriousWakeup
<1>6. ASSUME NEW w \in Workers, Quit(w) \/ Take(w) PROVE Exclusion' /\ NoEmptyPop'
  <2>1. wpc[w] = "take" /\ mutex = w /\ mutex' = Nobody /\ waiting' = waiting
        /\ stopFlag' = stopFlag
    BY <1>6 DEF Quit, Take, Goto
  <2>2. \E to \in {"exited", "count"} : wpc' = [wpc EXCEPT ![w] = to]
    BY <1>6 DEF Quit, Take, Goto
  <2>3. \A v \in Workers : wpc'[v] \notin {"block", "take"}
    BY <2>1, <2>2
  <2> QED BY <2>1, <2>2, <2>3
<1>7. ASSUME NEW c \in Callers, Ask(c) \/ NotifyOne(c) PROVE Exclusion' /\ NoEmptyPop'
  BY <1>7 DEF Ask, NotifyOne, workerVars
<1>8. ASSUME NEW c \in Callers, Enqueue(c) PROVE Exclusion' /\ NoEmptyPop'
  <2>1. mutex = Nobody /\ UNCHANGED <<mutex, waiting, wpc>>
    BY <1>8 DEF Enqueue, workerVars
  <2> QED BY <2>1
<1>9. CASE Stop \/ NotifyAll \/ Join
  BY <1>9 DEF Stop, NotifyAll, Join, workerVars
<1>10. CASE UNCHANGED vars
  BY <1>10 DEF vars, workerVars, callerVars
<1> QED
  BY <1>1, <1>2, <1>3, <1>4, <1>5, <1>6, <1>7, <1>8, <1>9, <1>10
     DEF Next, WorkerThread

LEMMA SubmissionNext == IInv /\ [Next]_vars => Submission'
<1> SUFFICES ASSUME IInv, [Next]_vars PROVE Submission'
  OBVIOUS
<1>0. TypeOK /\ Submission /\ NoTask \notin Tasks
  BY PoolAssumption DEF IInv
<1> USE <1>0 DEF TypeOK, Submission
<1>1. ASSUME NEW w \in Workers,
             Loop(w) \/ TestTrue(w) \/ TestFalse(w) \/ Block(w) \/ Quit(w)
               \/ Uncount(w)
      PROVE  Submission'
  BY <1>1 DEF Loop, TestTrue, TestFalse, Block, Quit, Uncount, Goto, callerVars
<1>2. ASSUME NEW w \in Workers, SpuriousWakeup(w) PROVE Submission'
  BY <1>2 DEF SpuriousWakeup, callerVars
<1>3. ASSUME NEW w \in Workers, Take(w) PROVE Submission'
  <2>1. Head(taskQueue) \in Tasks
    BY <1>3 DEF IInv, NoEmptyPop, Take, Goto
  <2> QED BY <1>3, <2>1 DEF Take, Goto, callerVars
<1>4. ASSUME NEW w \in Workers, Count(w) \/ Run(w) PROVE Submission'
  BY <1>4 DEF Count, Run, Goto, callerVars
<1>5. ASSUME NEW c \in Callers, Ask(c) PROVE Submission'
  BY <1>5 DEF Ask, workerVars
<1>6. ASSUME NEW c \in Callers, Enqueue(c) PROVE Submission'
  BY <1>6 DEF Enqueue, workerVars
<1>7. ASSUME NEW c \in Callers, NotifyOne(c) PROVE Submission'
  BY <1>7 DEF NotifyOne
<1>8. CASE Stop \/ NotifyAll \/ Join
  BY <1>8 DEF Stop, NotifyAll, Join, workerVars, callerVars
<1>9. CASE UNCHANGED vars
  BY <1>9 DEF vars, workerVars, callerVars
<1> QED
  BY <1>1, <1>2, <1>3, <1>4, <1>5, <1>6, <1>7, <1>8, <1>9 DEF Next, WorkerThread
-----------------------------------------------------------------------------
(* Every task in one place *)

Distinct(s) == \A i, j \in DOMAIN s : s[i] = s[j] => i = j
Elements(s) == {s[i] : i \in DOMAIN s}

\* Popping the front of a queue without duplicates removes that element, and
\* no other, from the set of its elements.
LEMMA PopFront ==
  ASSUME NEW s \in Seq(Tasks), s # <<>>, Distinct(s)
  PROVE  /\ Head(s) \in Elements(s)
         /\ Elements(Tail(s)) = Elements(s) \ {Head(s)}
         /\ Distinct(Tail(s))
<1>1. /\ Tail(s) \in Seq(Tasks) /\ Head(s) = s[1] /\ 1 \in DOMAIN s
      /\ DOMAIN Tail(s) = 1..(Len(s) - 1) /\ DOMAIN s = 1..Len(s) /\ Len(s) \in Nat
  OBVIOUS
<1>2. \A i \in DOMAIN Tail(s) : i + 1 \in DOMAIN s /\ Tail(s)[i] = s[i + 1]
  BY <1>1
<1>3. \A i \in DOMAIN s \ {1} : i - 1 \in DOMAIN Tail(s) /\ Tail(s)[i - 1] = s[i]
  BY <1>1
<1>4. Elements(Tail(s)) \subseteq Elements(s) \ {Head(s)}
  <2> SUFFICES ASSUME NEW i \in DOMAIN Tail(s)
               PROVE  Tail(s)[i] \in Elements(s) \ {Head(s)}
    BY DEF Elements
  <2>1. s[i + 1] # s[1]
    BY <1>1, <1>2 DEF Distinct
  <2> QED BY <1>1, <1>2, <2>1 DEF Elements
<1>5. Elements(s) \ {Head(s)} \subseteq Elements(Tail(s))
  <2> SUFFICES ASSUME NEW i \in DOMAIN s, s[i] # Head(s)
               PROVE  s[i] \in Elements(Tail(s))
    BY DEF Elements
  <2>1. i \in DOMAIN s \ {1}
    BY <1>1
  <2> QED BY <1>3, <2>1 DEF Elements
<1>6. Distinct(Tail(s))
  BY <1>1, <1>2 DEF Distinct
<1>7. Head(s) \in Elements(s)
  BY <1>1 DEF Elements
<1> QED BY <1>4, <1>5, <1>6, <1>7

LEMMA PushBack ==
  ASSUME NEW s \in Seq(Tasks), NEW t \in Tasks, Distinct(s), t \notin Elements(s)
  PROVE  /\ Elements(Append(s, t)) = Elements(s) \cup {t}
         /\ Distinct(Append(s, t))
<1> DEFINE r == Append(s, t)
<1>1. /\ DOMAIN r = 1..(Len(s) + 1) /\ DOMAIN s = 1..Len(s) /\ Len(s) \in Nat
      /\ r[Len(s) + 1] = t
      /\ \A i \in DOMAIN s : r[i] = s[i]
  OBVIOUS
<1>2. \A i \in DOMAIN r : i \in DOMAIN s \/ i = Len(s) + 1
  BY <1>1
<1>3. DOMAIN s \subseteq DOMAIN r /\ Len(s) + 1 \in DOMAIN r
  BY <1>1
<1> HIDE DEF r
<1>4. Elements(r) = Elements(s) \cup {t}
  BY <1>1, <1>2, <1>3 DEF Elements
<1>5. Distinct(r)
  BY <1>1, <1>2, <1>3 DEF Elements, Distinct
<1> QED BY <1>4, <1>5 DEF r

LEMMA ExactlyOnceNext == IInv /\ [Next]_vars => ExactlyOnce'
<1> SUFFICES ASSUME IInv, [Next]_vars PROVE ExactlyOnce'
  OBVIOUS
<1>0. /\ TypeOK /\ Submission /\ ExactlyOnce /\ Distinct(taskQueue)
      /\ Queued = Elements(taskQueue) /\ Queued' = Elements(taskQueue')
  BY DEF IInv, ExactlyOnce, Distinct, Queued, Elements
<1>1. ASSUME UNCHANGED <<taskQueue, done, submitted>>, HeldTasks' = HeldTasks,
             \A w \in Workers : wpc'[w] \in {"count", "run"} =>
                 wpc[w] \in {"count", "run"} /\ task'[w] = task[w]
      PROVE  ExactlyOnce'
  <2>1. Queued' = Queued
    BY <1>1 DEF Queued
  <2> QED BY <1>0, <1>1, <2>1 DEF ExactlyOnce
<1>2. ASSUME NEW w \in Workers,
             Loop(w) \/ TestTrue(w) \/ TestFalse(w) \/ Block(w) \/ Quit(w)
               \/ Count(w) \/ Uncount(w)
      PROVE  ExactlyOnce'
  <2>1. UNCHANGED <<taskQueue, done, submitted, task>>
    BY <1>2 DEF Loop, TestTrue, TestFalse, Block, Quit, Count, Uncount, callerVars
  <2>2. \A v \in Workers : wpc'[v] \in {"count", "run"} <=> wpc[v] \in {"count", "run"}
    BY <1>0, <1>2 DEF Loop, TestTrue, TestFalse, Block, Quit, Count, Uncount, Goto, TypeOK
  <2>3. HeldTasks' = HeldTasks
    BY <2>1, <2>2 DEF HeldTasks
  <2> QED BY <1>1, <2>1, <2>2, <2>3
<1>3. ASSUME UNCHANGED <<taskQueue, done, submitted, wpc, task>> PROVE ExactlyOnce'
  <2>1. HeldTasks' = HeldTasks
    BY <1>3 DEF HeldTasks
  <2> QED BY <1>1, <1>3, <2>1
<1>4. ASSUME NEW w \in Workers, Take(w) PROVE ExactlyOnce'
  <2>1. /\ taskQueue # <<>> /\ wpc[w] = "take"
        /\ task' = [task EXCEPT ![w] = Head(taskQueue)]
        /\ wpc' = [wpc EXCEPT ![w] = "count"]
        /\ taskQueue' = Tail(taskQueue)
        /\ UNCHANGED <<done, submitted>>
    BY <1>4 DEF IInv, NoEmptyPop, Take, Goto, callerVars
  <2>2. /\ Head(taskQueue) \in Queued
        /\ Queued' = Queued \ {Head(taskQueue)}
        /\ Distinct(taskQueue')
    BY <1>0, <2>1, PopFront DEF TypeOK
  <2>3. HeldTasks' = HeldTasks \cup {Head(taskQueue)}
    BY <1>0, <2>1 DEF HeldTasks, TypeOK
  <2>4. \A v \in Workers : wpc[v] \in {"count", "run"} => task[v] \in HeldTasks
    BY DEF HeldTasks
  <2>5. \A u, v \in Workers :
           wpc'[u] \in {"count", "run"} /\ wpc'[v] \in {"count", "run"} /\ task'[u] = task'[v]
             => u = v
    BY <1>0, <2>1, <2>2, <2>4 DEF ExactlyOnce, TypeOK
  <2> QED BY <1>0, <2>1, <2>2, <2>3, <2>5 DEF ExactlyOnce, Distinct
<1>5. ASSUME NEW w \in Workers, Run(w) PROVE ExactlyOnce'
  <2>1. /\ wpc[w] = "run" /\ wpc' = [wpc EXCEPT ![w] = "uncount"]
        /\ task' = [task EXCEPT ![w] = NoTask]
        /\ done' = done \cup {task[w]}
        /\ UNCHANGED <<taskQueue, submitted>>
    BY <1>5 DEF Run, Goto, callerVars
  <2>2. task[w] \in HeldTasks /\ HeldTasks' = HeldTasks \ {task[w]}
    BY <1>0, <2>1 DEF HeldTasks, ExactlyOnce, TypeOK
  <2>3. Queued' = Queued
    BY <2>1 DEF Queued
  <2>4. \A u, v \in Workers :
           wpc'[u] \in {"count", "run"} /\ wpc'[v] \in {"count", "run"} /\ task'[u] = task'[v]
             => u = v
    BY <1>0, <2>1 DEF ExactlyOnce, TypeOK
  <2> QED BY <1>0, <2>1, <2>2, <2>3, <2>4 DEF ExactlyOnce
<1>6. ASSUME NEW c \in Callers, Enqueue(c) PROVE ExactlyOnce'
  <2>1. /\ taskQueue' = Append(taskQueue, request[c])
        /\ submitted' = submitted \cup {request[c]}
        /\ UNCHANGED <<done, wpc, task>>
    BY <1>6 DEF Enqueue, workerVars
  <2>2. request[c] \in Tasks /\ request[c] \notin submitted
    BY <1>0, <1>6 DEF Enqueue, Submission, TypeOK
  <2>3. Queued' = Queued \cup {request[c]} /\ Distinct(taskQueue')
    BY <1>0, <2>1, <2>2, PushBack DEF TypeOK, ExactlyOnce
  <2>4. HeldTasks' = HeldTasks
    BY <2>1 DEF HeldTasks
  <2> QED BY <1>0, <2>1, <2>2, <2>3, <2>4 DEF ExactlyOnce, Distinct
<1>7. ASSUME \/ \E w \in Workers : SpuriousWakeup(w)
             \/ \E c \in Callers : Ask(c) \/ NotifyOne(c)
             \/ Stop \/ NotifyAll \/ Join \/ UNCHANGED vars
      PROVE  ExactlyOnce'
  <2>1. UNCHANGED <<taskQueue, done, submitted, wpc, task>>
    BY <1>7 DEF SpuriousWakeup, Ask, NotifyOne, Stop, NotifyAll, Join, vars,
                workerVars, callerVars
  <2> QED BY <1>3, <2>1
<1> QED
  BY <1>2, <1>4, <1>5, <1>6, <1>7 DEF Next, WorkerThread
-----------------------------------------------------------------------------
(* The counter *)

LEMMA CountNext == IInv /\ [Next]_vars => CountHonest'
<1> SUFFICES ASSUME IInv, [Next]_vars PROVE CountHonest'
  OBVIOUS
<1>0. TypeOK /\ CountHonest /\ Running \in SUBSET Workers
  BY DEF IInv, Running
<1>1. ASSUME UNCHANGED activeThreads,
             \A w \in Workers : wpc'[w] \in {"run", "uncount"} <=> wpc[w] \in {"run", "uncount"}
      PROVE  CountHonest'
  <2>1. Running' = Running
    BY <1>1 DEF Running
  <2> QED BY <1>0, <1>1, <2>1 DEF CountHonest
<1>2. ASSUME NEW w \in Workers,
             Loop(w) \/ TestTrue(w) \/ TestFalse(w) \/ Block(w) \/ Quit(w) \/ Take(w) \/ Run(w)
      PROVE  CountHonest'
  <2>1. UNCHANGED activeThreads
    BY <1>2 DEF Loop, TestTrue, TestFalse, Block, Quit, Take, Run
  <2>2. \A v \in Workers : wpc'[v] \in {"run", "uncount"} <=> wpc[v] \in {"run", "uncount"}
    BY <1>0, <1>2 DEF Loop, TestTrue, TestFalse, Block, Quit, Take, Run, Goto, TypeOK
  <2> QED BY <1>1, <2>1, <2>2
<1>3. ASSUME NEW w \in Workers, Count(w) PROVE CountHonest'
  <2>1. /\ wpc[w] = "count" /\ wpc' = [wpc EXCEPT ![w] = "run"]
        /\ activeThreads' = activeThreads + 1
    BY <1>3 DEF Count, Goto
  <2>2. w \notin Running /\ Running' = Running \cup {w}
    BY <1>0, <2>1 DEF Running, TypeOK
  <2> QED BY <1>0, <2>1, <2>2, WorkersCount DEF CountHonest
<1>4. ASSUME NEW w \in Workers, Uncount(w) PROVE CountHonest'
  <2>1. /\ wpc[w] = "uncount" /\ wpc' = [wpc EXCEPT ![w] = "loop"]
        /\ activeThreads' = activeThreads - 1
    BY <1>4 DEF Uncount, Goto
  <2>2. w \in Running /\ Running' = Running \ {w}
    BY <1>0, <2>1 DEF Running, TypeOK
  <2> QED BY <1>0, <2>1, <2>2, WorkersCount DEF CountHonest
<1>5. ASSUME \/ \E w \in Workers : SpuriousWakeup(w)
             \/ \E c \in Callers : Ask(c) \/ Enqueue(c) \/ NotifyOne(c)
             \/ Stop \/ NotifyAll \/ Join \/ UNCHANGED vars
      PROVE  CountHonest'
  <2>1. UNCHANGED <<activeThreads, wpc>>
    BY <1>5 DEF SpuriousWakeup, Ask, Enqueue, NotifyOne, Stop, NotifyAll, Join,
                vars, workerVars, callerVars
  <2> QED BY <1>1, <2>1
<1> QED
  BY <1>2, <1>3, <1>4, <1>5 DEF Next, WorkerThread
-----------------------------------------------------------------------------
(* No lost wake-up *)

LEMMA WakeupNext == IInv /\ [Next]_vars => NoLostWakeup'
<1> SUFFICES ASSUME IInv, [Next]_vars, ~stopFlag', waiting' # {}
             PROVE  Len(taskQueue') <= Cardinality(Coming') + Cardinality(Notifying')
  BY DEF NoLostWakeup
<1>0. /\ TypeOK /\ Exclusion /\ NoEmptyPop /\ NoLostWakeup
      /\ Coming \in SUBSET Workers /\ Notifying \in SUBSET Callers
      /\ Coming' \in SUBSET Workers /\ Notifying' \in SUBSET Callers
      /\ Len(taskQueue) \in Nat
  BY DEF IInv, Coming, Notifying, TypeOK
<1>1. /\ Cardinality(Coming) \in Nat /\ Cardinality(Coming') \in Nat
      /\ Cardinality(Notifying) \in Nat /\ Cardinality(Notifying') \in Nat
  BY <1>0, WorkersCount, CallersCount
<1>2. ASSUME UNCHANGED <<taskQueue, stopFlag, waiting>>, Coming' = Coming, Notifying' = Notifying
      PROVE  Len(taskQueue') <= Cardinality(Coming') + Cardinality(Notifying')
  BY <1>0, <1>2 DEF NoLostWakeup
<1>3. ASSUME NEW w \in Workers, Loop(w) \/ TestTrue(w) \/ Count(w) \/ Run(w)
      PROVE  Len(taskQueue') <= Cardinality(Coming') + Cardinality(Notifying')
  <2>1. UNCHANGED <<taskQueue, stopFlag, waiting, spc>>
    BY <1>3 DEF Loop, TestTrue, Count, Run, callerVars
  <2>2. /\ w \notin waiting
        /\ \/ wpc[w] \in {"loop", "lock", "asleep"} /\ wpc' = [wpc EXCEPT ![w] = "lock"]
           \/ wpc[w] \in {"loop", "lock", "asleep"} /\ wpc' = [wpc EXCEPT ![w] = "take"]
           \/ wpc[w] \in {"count", "run"} /\ wpc' = [wpc EXCEPT ![w] = "run"]
           \/ wpc[w] \in {"count", "run"} /\ wpc' = [wpc EXCEPT ![w] = "uncount"]
    BY <1>0, <1>3, <2>1 DEF Loop, TestTrue, Count, Run, Goto, Exclusion
  <2>3. Coming' = Coming /\ Notifying' = Notifying
    BY <1>0, <2>1, <2>2 DEF Coming, Notifying, TypeOK
  <2> QED BY <1>2, <2>1, <2>3
<1>4. ASSUME NEW w \in Workers, TestFalse(w) \/ Block(w)
      PROVE  Len(taskQueue') <= Cardinality(Coming') + Cardinality(Notifying')
  <2>1. taskQueue' = <<>>
    BY <1>0, <1>4 DEF TestFalse, Block, Goto, Exclusion
  <2>2. Len(taskQueue') = 0
    BY <2>1
  <2> QED BY <1>1, <2>2
<1>5. ASSUME NEW w \in Workers, SpuriousWakeup(w)
      PROVE  Len(taskQueue') <= Cardinality(Coming') + Cardinality(Notifying')
  <2>1. /\ w \in waiting /\ waiting' = waiting \ {w} /\ wpc[w] = "asleep"
        /\ UNCHANGED <<taskQueue, stopFlag, wpc, spc>>
    BY <1>0, <1>5 DEF SpuriousWakeup, Exclusion, callerVars
  <2>2. w \notin Coming /\ Coming' = Coming \cup {w} /\ Notifying' = Notifying
    BY <1>0, <2>1 DEF Coming, Notifying
  <2>3. Cardinality(Coming') = Cardinality(Coming) + 1
    BY <1>0, <2>2, WorkersCount
  <2> QED BY <1>0, <1>1, <2>1, <2>2, <2>3 DEF NoLostWakeup
<1>6. ASSUME NEW w \in Workers, Quit(w)
      PROVE  Len(taskQueue') <= Cardinality(Coming') + Cardinality(Notifying')
  BY <1>6 DEF Quit
<1>7. ASSUME NEW w \in Workers, Take(w)
      PROVE  Len(taskQueue') <= Cardinality(Coming') + Cardinality(Notifying')
  <2>1. /\ wpc[w] = "take" /\ wpc' = [wpc EXCEPT ![w] = "count"]
        /\ taskQueue # <<>> /\ taskQueue' = Tail(taskQueue)
        /\ UNCHANGED <<stopFlag, waiting, spc>>
    BY <1>0, <1>7 DEF Take, Goto, NoEmptyPop, callerVars
  <2>2. Len(taskQueue') = Len(taskQueue) - 1
    BY <1>0, <2>1 DEF TypeOK
  <2>3. w \in Coming /\ Coming' = Coming \ {w} /\ Notifying' = Notifying
    BY <1>0, <2>1 DEF Coming, Notifying, TypeOK
  <2>4. Cardinality(Coming') = Cardinality(Coming) - 1
    BY <1>0, <2>3, WorkersCount
  <2> QED BY <1>0, <1>1, <2>1, <2>2, <2>3, <2>4 DEF NoLostWakeup
<1>8. ASSUME NEW w \in Workers, Uncount(w)
      PROVE  Len(taskQueue') <= Cardinality(Coming') + Cardinality(Notifying')
  <2>1. /\ wpc[w] = "uncount" /\ wpc' = [wpc EXCEPT ![w] = "loop"]
        /\ UNCHANGED <<taskQueue, stopFlag, waiting, spc>>
    BY <1>8 DEF Uncount, Goto, callerVars
  <2>2. w \notin Coming /\ Coming' = Coming \cup {w} /\ Notifying' = Notifying
    BY <1>0, <2>1 DEF Coming, Notifying, TypeOK
  <2>3. Cardinality(Coming') = Cardinality(Coming) + 1
    BY <1>0, <2>2, WorkersCount
  <2> QED BY <1>0, <1>1, <2>1, <2>2, <2>3 DEF NoLostWakeup
<1>9. ASSUME NEW c \in Callers, Ask(c)
      PROVE  Len(taskQueue') <= Cardinality(Coming') + Cardinality(Notifying')
  <2>1. /\ spc[c] = "idle" /\ spc' = [spc EXCEPT ![c] = "enqueue"]
        /\ UNCHANGED <<taskQueue, stopFlag, waiting, wpc>>
    BY <1>9 DEF Ask, workerVars
  <2>2. Coming' = Coming /\ Notifying' = Notifying
    BY <1>0, <2>1 DEF Coming, Notifying, TypeOK
  <2> QED BY <1>2, <2>1, <2>2
<1>10. ASSUME NEW c \in Callers, Enqueue(c)
       PROVE  Len(taskQueue') <= Cardinality(Coming') + Cardinality(Notifying')
  <2>1. /\ spc[c] = "enqueue" /\ spc' = [spc EXCEPT ![c] = "notify"]
        /\ taskQueue' = Append(taskQueue, request[c])
        /\ UNCHANGED <<stopFlag, waiting, wpc>>
    BY <1>10 DEF Enqueue, workerVars
  <2>2. Len(taskQueue') = Len(taskQueue) + 1
    BY <1>0, <2>1 DEF TypeOK
  <2>3. c \notin Notifying /\ Notifying' = Notifying \cup {c} /\ Coming' = Coming
    BY <1>0, <2>1 DEF Coming, Notifying, TypeOK
  <2>4. Cardinality(Notifying') = Cardinality(Notifying) + 1
    BY <1>0, <2>3, CallersCount
  <2> QED BY <1>0, <1>1, <2>1, <2>2, <2>3, <2>4 DEF NoLostWakeup
<1>11. ASSUME NEW c \in Callers, NotifyOne(c)
       PROVE  Len(taskQueue') <= Cardinality(Coming') + Cardinality(Notifying')
  <2>1. /\ spc[c] = "notify" /\ spc' = [spc EXCEPT ![c] = "idle"]
        /\ UNCHANGED <<taskQueue, stopFlag, wpc>>
    BY <1>11 DEF NotifyOne
  <2>2. PICK w \in waiting : waiting' = waiting \ {w}
    BY <1>11 DEF NotifyOne
  <2>3. c \in Notifying /\ Notifying' = Notifying \ {c}
    BY <1>0, <2>1 DEF Notifying, TypeOK
  <2>4. w \in Workers \ Coming /\ Coming' = Coming \cup {w}
    BY <1>0, <2>1, <2>2 DEF Coming, Exclusion, TypeOK
  <2>5. /\ Cardinality(Notifying') = Cardinality(Notifying) - 1
        /\ Cardinality(Coming') = Cardinality(Coming) + 1
    BY <1>0, <2>3, <2>4, WorkersCount, CallersCount
  <2> QED BY <1>0, <1>1, <2>1, <2>2, <2>5 DEF NoLostWakeup
<1>12. CASE Stop \/ NotifyAll \/ Join \/ UNCHANGED vars
  <2>1. CASE Stop
    BY <2>1 DEF Stop
  <2>2. CASE NotifyAll
    BY <2>2 DEF NotifyAll
  <2>3. CASE Join \/ UNCHANGED vars
    <3>1. UNCHANGED <<taskQueue, stopFlag, waiting, wpc, spc>>
      BY <2>3 DEF Join, vars, workerVars, callerVars
    <3>2. Coming' = Coming /\ Notifying' = Notifying
      BY <3>1 DEF Coming, Notifying
    <3> QED BY <1>2, <3>1, <3>2
  <2> QED BY <1>12, <2>1, <2>2, <2>3
<1> QED
  BY <1>3, <1>4, <1>5, <1>6, <1>7, <1>8, <1>9, <1>10, <1>11, <1>12
     DEF Next, WorkerThread
-----------------------------------------------------------------------------
(* The theorems *)

LEMMA NextIInv == IInv /\ [Next]_vars => IInv'
  BY TypeNext, ExclusionNext, SubmissionNext, ExactlyOnceNext, CountNext, WakeupNext
     DEF IInv

LEMMA Invariance == Spec => []IInv
  BY InitIInv, NextIInv, PTL DEF Spec

\* The variables of the pool stay in their types: in particular the unsigned
\* counter of active threads never wraps below zero.
THEOREM TypeCorrect == Spec => []TypeOK
<1>1. IInv => TypeOK
  BY DEF IInv
<1> QED BY <1>1, Invariance, PTL

\* Whatever the numbers of workers, callers and tasks, and in any interleaving
\* of worker_thread and enqueue: no task is lost, and none is run twice.
THEOREM TasksOnce == Spec => []ExactlyOnce
<1>1. IInv => ExactlyOnce
  BY DEF IInv
<1> QED BY <1>1, Invariance, PTL

\* front() and pop() never meet an empty queue.
THEOREM PopsSafe == Spec => []NoEmptyPop
<1>1. IInv => NoEmptyPop
  BY DEF IInv
<1> QED BY <1>1, Invariance, PTL

\* What is_available() compares with the number of threads is the number of
\* threads between the two updates of the counter.
THEOREM CounterExact == Spec => []CountHonest
<1>1. IInv => CountHonest
  BY DEF IInv
<1> QED BY <1>1, Invariance, PTL

\* No wake-up is lost: before the pool is stopped, a worker sleeps only if
\* every queued task has a worker, or a notification, on the way to it.
THEOREM WakeupsKept == Spec => []NoLostWakeup
<1>1. IInv => NoLostWakeup
  BY DEF IInv
<1> QED BY <1>1, Invariance, PTL
=============================================================================
