---------------------------- MODULE HttpServer -----------------------------
(***************************************************************************)
(* stw::http_server (src/stw/src/stw/net/http_server.cpp): the accepting   *)
(* thread, the worker threads with their pollers and connection tables,    *)
(* the pool threads that run requests with a large body, the clients, and  *)
(* the kernel's sockets, descriptors and level-triggered epoll sets.       *)
(*                                                                         *)
(* Steps of different threads interleave wherever they share something: a  *)
(* worker's pass is cut into wait, clean-up, adoption of new connections   *)
(* and one step per event; a handler runs between two steps.  What a       *)
(* client's bytes amount to is chosen when they are read, a response is    *)
(* the set of its parts still to be sent, and time the number of ticks     *)
(* since the two instants the code remembers, lastActivity and             *)
(* lastCleanup.  Bytes, headers and the choice between keep-alive and      *)
(* close are HttpConversation's subject.                                   *)
(***************************************************************************)
EXTENDS Naturals, Sequences, FiniteSets, FiniteSetsExt

CONSTANTS Conns,         \* the connections clients open in a behaviour
          Fds,           \* the descriptor numbers the process may use
          NumWorkers,    \* threadCount: workers 0 .. NumWorkers - 1
          PoolThreads,   \* the threads of the pool
          QueueCapacity, \* sockets that fit in a worker's queue
          KeepAliveTime, \* ticks of inactivity a connection is granted
          CleanupPeriod, \* ticks between two clean-ups
          MaxRequests,   \* requests served on one connection
          ClientResets,  \* TRUE: a client may abort its connection
          Signals,       \* TRUE: the process may be told to stop
          NoConn, NoFd

Workers == 0..(NumWorkers - 1)

ASSUME ServerAssumption ==
    /\ IsFiniteSet(Conns) /\ NoConn \notin Conns
    /\ Fds \subseteq Nat /\ NoFd \notin Fds
    /\ NumWorkers \in Nat \ {0}
    /\ QueueCapacity \in Nat /\ KeepAliveTime \in Nat /\ CleanupPeriod \in Nat
    /\ MaxRequests \in Nat \ {0} /\ ClientResets \in BOOLEAN /\ Signals \in BOOLEAN

VARIABLES
    (* the kernel and the clients *)
    sock,        \* a connection: "absent", "open" or "closed" in the server
    fdOf,        \* its descriptor in the server while it is open
    client,      \* its far end: "up", "eof" (half-closed) or "reset"
    unread,      \* whether it has sent bytes the server has not read
    interest,    \* the epoll set of each worker: descriptor -> what it waits for
    (* the accepting thread, in run() *)
    isRunning, apc, newest, nextWorker, joining,
    (* the workers *)
    queue, contexts, events, wpc, cur, expired, cleanAge, stopFlag,
    (* http_context *)
    ctx,
    (* the pool *)
    poolQueue, ppc, job

socketVars == <<sock, fdOf, client, unread>>
kernelVars == <<socketVars, interest>>
acceptVars == <<isRunning, apc, newest, nextWorker, joining>>
workerVars == <<queue, contexts, events, wpc, cur, expired, cleanAge, stopFlag>>
poolVars   == <<poolQueue, ppc, job>>
vars == <<kernelVars, acceptVars, workerVars, ctx, poolVars>>

\* http_context(socket): age counts the ticks since lastActivity.
FreshContext == [locked |-> FALSE, count |-> 0, age |-> 0,
                 closing |-> FALSE, reply |-> {}]

Init ==
    /\ sock = [c \in Conns |-> "absent"] /\ fdOf = [c \in Conns |-> NoFd]
    /\ client = [c \in Conns |-> "up"]
    /\ unread = [c \in Conns |-> FALSE]
    /\ interest = [w \in Workers |-> [fd \in Fds |-> "none"]]
    /\ isRunning = TRUE /\ apc = "loop" /\ newest = NoConn
    /\ nextWorker = 0 /\ joining = 0
    /\ queue = [w \in Workers |-> <<>>]
    /\ contexts = [w \in Workers |-> [fd \in Fds |-> NoConn]]
    /\ events = [w \in Workers |-> {}]
    /\ wpc = [w \in Workers |-> "wait"] /\ cur = [w \in Workers |-> NoConn]
    /\ expired = [w \in Workers |-> {}] /\ cleanAge = [w \in Workers |-> 0]
    /\ stopFlag = [w \in Workers |-> FALSE]
    /\ ctx = [c \in Conns |-> FreshContext]
    /\ poolQueue = <<>>
    /\ ppc = [p \in PoolThreads |-> "idle"]
    /\ job = [p \in PoolThreads |-> <<>>]
-----------------------------------------------------------------------------
(* Clients and time: the environment *)

Send(c) ==
    /\ sock[c] = "open" /\ client[c] = "up" /\ ~unread[c]
    /\ unread' = [unread EXCEPT ![c] = TRUE]
    /\ UNCHANGED <<sock, fdOf, client, interest,
                   acceptVars, workerVars, ctx, poolVars>>

HalfClose(c) ==
    /\ sock[c] = "open" /\ client[c] = "up"
    /\ client' = [client EXCEPT ![c] = "eof"]
    /\ UNCHANGED <<sock, fdOf, unread, interest,
                   acceptVars, workerVars, ctx, poolVars>>

Reset(c) ==
    /\ ClientResets
    /\ sock[c] = "open" /\ client[c] # "reset"
    /\ client' = [client EXCEPT ![c] = "reset"]
    /\ unread' = [unread EXCEPT ![c] = FALSE]
    /\ UNCHANGED <<sock, fdOf, interest,
                   acceptVars, workerVars, ctx, poolVars>>

Served(w) == {c \in Conns : \E fd \in Fds : contexts[w][fd] = c}

\* Ages are counted as far as the code can tell them apart.
Tick ==
    /\ ctx' = [c \in Conns |->
                 IF \E w \in Workers : c \in Served(w)
                 THEN [ctx[c] EXCEPT !.age = Min({@ + 1, KeepAliveTime + 1})]
                 ELSE ctx[c]]
    /\ cleanAge' = [w \in Workers |-> Min({cleanAge[w] + 1, CleanupPeriod + 1})]
    /\ UNCHANGED <<kernelVars, acceptVars, queue, contexts, events, wpc, cur,
                   expired, stopFlag, poolVars>>
-----------------------------------------------------------------------------
(* run(): the accepting thread *)

\* The sockets are closed; what the kernel held for them is gone.
CloseAll(cs) ==
    /\ sock' = [c \in Conns |-> IF c \in cs THEN "closed" ELSE sock[c]]
    /\ fdOf' = [c \in Conns |-> IF c \in cs THEN NoFd ELSE fdOf[c]]
    /\ client' = [c \in Conns |-> IF c \in cs THEN "up" ELSE client[c]]
    /\ unread' = [c \in Conns |-> unread[c] /\ c \notin cs]

Close(c) == CloseAll({c})

\* SIGINT or SIGTERM.
Signal ==
    /\ Signals /\ isRunning
    /\ isRunning' = FALSE
    /\ UNCHANGED <<kernelVars, apc, newest, nextWorker, joining,
                   workerVars, ctx, poolVars>>

FreeFds == Fds \ {fdOf[c] : c \in Conns}

\* A client has connected and its connection is taken from the backlog.  The
\* kernel hands out the lowest free number, so one just closed comes back.
Accept(c) ==
    /\ apc = "loop" /\ isRunning
    /\ sock[c] = "absent" /\ FreeFds # {}
    /\ sock' = [sock EXCEPT ![c] = "open"]
    /\ fdOf' = [fdOf EXCEPT ![c] = Min(FreeFds)]
    /\ newest' = c /\ apc' = "enqueue"
    /\ UNCHANGED <<client, unread, interest, isRunning, nextWorker, joining,
                   workerVars, ctx, poolVars>>

\* http_worker_context::enqueue, or client->close() when the queue is full.
EnqueueClient ==
    /\ apc = "enqueue"
    /\ \/ /\ Len(queue[nextWorker]) < QueueCapacity
          /\ queue' = [queue EXCEPT ![nextWorker] = Append(@, newest)]
          /\ UNCHANGED socketVars
       \/ /\ Len(queue[nextWorker]) = QueueCapacity
          /\ Close(newest)
          /\ UNCHANGED queue
    /\ nextWorker' = (nextWorker + 1) % NumWorkers
    /\ newest' = NoConn /\ apc' = "loop"
    /\ UNCHANGED <<interest, isRunning, joining,
                   contexts, events, wpc, cur, expired, cleanAge, stopFlag,
                   ctx, poolVars>>

LeaveLoop ==
    /\ apc = "loop" /\ ~isRunning
    /\ apc' = "stop"
    /\ UNCHANGED <<kernelVars, isRunning, newest, nextWorker, joining,
                   workerVars, ctx, poolVars>>

\* Mutant: only the accepting loop is told to stop, not the worker.
StopWorkerNoFlag ==
    /\ apc = "stop" /\ apc' = "join"
    /\ UNCHANGED <<kernelVars, isRunning, newest, nextWorker, joining,
                   workerVars, ctx, poolVars>>

StopWorker ==
    /\ apc = "stop"
    /\ stopFlag' = [stopFlag EXCEPT ![joining] = TRUE]
    /\ apc' = "join"
    /\ UNCHANGED <<kernelVars, isRunning, newest, nextWorker, joining,
                   queue, contexts, events, wpc, cur, expired, cleanAge,
                   ctx, poolVars>>

\* The connections some pool thread, or the pool's queue, still refers to.
InPool == {poolQueue[i][2] : i \in DOMAIN poolQueue}
             \cup {job[p][2] : p \in {q \in PoolThreads : ppc[q] # "idle"}}

\* The worker has been joined and its queue is drained.  After the last one
\* the worker objects are destroyed, and with them the last references to
\* every socket that no pool task holds.
JoinWorker ==
    /\ apc = "join" /\ wpc[joining] = "exited"
    /\ queue' = [queue EXCEPT ![joining] = <<>>]
    /\ \/ /\ joining < NumWorkers - 1
          /\ joining' = joining + 1 /\ apc' = "stop"
          /\ UNCHANGED socketVars
       \/ /\ joining = NumWorkers - 1
          /\ apc' = "returned"
          /\ CloseAll({c \in Conns : sock[c] = "open"} \ InPool)
          /\ UNCHANGED joining
    /\ UNCHANGED <<interest, isRunning, newest, nextWorker,
                   contexts, events, wpc, cur, expired, cleanAge, stopFlag,
                   ctx, poolVars>>
-----------------------------------------------------------------------------
(* worker_update: one pass of a worker *)

\* What epoll_wait reports of connection c, registered for `what`: hang-ups and
\* errors always, the rest as long as it lasts (level-triggered).  `roomy` are
\* the connections whose client has made room for more bytes.
Reported(c, what, roomy) ==
    CASE client[c] = "reset" -> {"hangup"}
      [] client[c] # "reset" /\ what = "read" ->
            IF unread[c] \/ client[c] = "eof" THEN {"read"} ELSE {}
      [] client[c] # "reset" /\ what = "write" ->
            IF c \in roomy THEN {"write"} ELSE {}

Registered(w) == {c \in Conns : fdOf[c] # NoFd /\ interest[w][fdOf[c]] # "none"}

\* Each event remembers (in `of`, which the code lacks) whose it was.
ReadyEvents(w, roomy) ==
    UNION {[fd : {fdOf[c]}, flag : Reported(c, interest[w][fdOf[c]], roomy), of : {c}] :
              c \in Registered(w)}

\* Mutant: >= for >.
OverdueTooSoon(w) == {fd \in Fds : /\ contexts[w][fd] # NoConn
                                   /\ ctx[contexts[w][fd]].age >= KeepAliveTime}

\* Mutant: a connection with a response under way is spared.
OverdueSparesWriters(w) == {fd \in Fds : /\ contexts[w][fd] # NoConn
                                         /\ ctx[contexts[w][fd]].age > KeepAliveTime
                                         /\ ctx[contexts[w][fd]].reply = {}}

Overdue(w) == {fd \in Fds : /\ contexts[w][fd] # NoConn
                            /\ ctx[contexts[w][fd]].age > KeepAliveTime}

\* A wait ends with events, by a notification or after a second; the clean-up
\* that follows looks at the clock once, so what is overdue is known here.
Wait(w) ==
    /\ wpc[w] = "wait" /\ ~stopFlag[w]
    /\ \E roomy \in SUBSET {c \in Registered(w) : interest[w][fdOf[c]] = "write"} :
          events' = [events EXCEPT ![w] = ReadyEvents(w, roomy)]
    /\ \/ /\ cleanAge[w] > CleanupPeriod
          /\ cleanAge' = [cleanAge EXCEPT ![w] = 0]
          /\ expired' = [expired EXCEPT ![w] = Overdue(w)]
       \/ /\ cleanAge[w] <= CleanupPeriod
          /\ UNCHANGED <<cleanAge, expired>>
    /\ wpc' = [wpc EXCEPT ![w] = IF expired'[w] = {} THEN "adopt" ELSE "clean"]
    /\ UNCHANGED <<kernelVars, acceptVars, queue, contexts, cur, stopFlag,
                   ctx, poolVars>>

\* Mutant: the context stays in the table.
DiscardKeepsContext(w, c) ==
    /\ interest' = [interest EXCEPT ![w][fdOf[c]] = "none"]
    /\ ctx' = [ctx EXCEPT ![c] = FreshContext]
    /\ Close(c)
    /\ UNCHANGED contexts

\* Mutant: the socket is left to its destructor, which the slot of the worker's
\* queue it came through puts off.
DiscardNoClose(w, c) ==
    /\ interest' = [interest EXCEPT ![w][fdOf[c]] = "none"]
    /\ contexts' = [contexts EXCEPT ![w][fdOf[c]] = NoConn]
    /\ ctx' = [ctx EXCEPT ![c] = FreshContext]
    /\ UNCHANGED socketVars

\* poller->remove, close, contexts.erase: in the clean-up and in
\* http_worker_context::remove.
Discard(w, c) ==
    /\ interest' = [interest EXCEPT ![w][fdOf[c]] = "none"]
    /\ contexts' = [contexts EXCEPT ![w][fdOf[c]] = NoConn]
    /\ ctx' = [ctx EXCEPT ![c] = FreshContext]
    /\ Close(c)

\* Mutant: the lock is not looked at.
CleanUpIgnoresLock(w) ==
    /\ wpc[w] = "clean"
    /\ \E fd \in expired[w] :
          /\ expired' = [expired EXCEPT ![w] = @ \ {fd}]
          /\ Discard(w, contexts[w][fd])
    /\ wpc' = [wpc EXCEPT ![w] = IF expired'[w] = {} THEN "adopt" ELSE "clean"]
    /\ UNCHANGED <<acceptVars, queue, events, cur, cleanAge, stopFlag, poolVars>>

\* A locked connection is passed over, an overdue one closed.
CleanUp(w) ==
    /\ wpc[w] = "clean"
    /\ \E fd \in expired[w] :
          /\ expired' = [expired EXCEPT ![w] = @ \ {fd}]
          /\ \/ /\ ctx[contexts[w][fd]].locked
                /\ UNCHANGED <<interest, contexts, socketVars, ctx>>
             \/ /\ ~ctx[contexts[w][fd]].locked
                /\ Discard(w, contexts[w][fd])
    /\ wpc' = [wpc EXCEPT ![w] = IF expired'[w] = {} THEN "adopt" ELSE "clean"]
    /\ UNCHANGED <<acceptVars, queue, events, cur, cleanAge, stopFlag, poolVars>>

\* poller->add fails, and changes nothing, when the descriptor is registered.
Adopt(w) ==
    /\ wpc[w] = "adopt" /\ queue[w] # <<>>
    /\ LET c == Head(queue[w]) IN
          /\ contexts' = [contexts EXCEPT ![w][fdOf[c]] = c]
          /\ ctx' = [ctx EXCEPT ![c] = FreshContext]
          /\ interest' = [interest EXCEPT ![w][fdOf[c]] =
                             IF @ = "none" THEN "read" ELSE @]
    /\ queue' = [queue EXCEPT ![w] = Tail(@)]
    /\ UNCHANGED <<socketVars, acceptVars, events, wpc, cur, expired, cleanAge,
                   stopFlag, poolVars>>

AdoptDone(w) ==
    /\ wpc[w] = "adopt" /\ queue[w] = <<>>
    /\ wpc' = [wpc EXCEPT ![w] = IF events[w] = {} THEN "wait" ELSE "events"]
    /\ UNCHANGED <<kernelVars, acceptVars, queue, contexts, events, cur, expired,
                   cleanAge, stopFlag, ctx, poolVars>>

PassDone(w) ==
    /\ wpc[w] = "events" /\ events[w] = {}
    /\ wpc' = [wpc EXCEPT ![w] = "wait"]
    /\ UNCHANGED <<kernelVars, acceptVars, queue, contexts, events, cur, expired,
                   cleanAge, stopFlag, ctx, poolVars>>

\* The loop ends: the contexts are dropped.  A socket is closed with its
\* context, unless a task of the pool refers to it, or a slot of the queue
\* which no later socket has overwritten.
Exit(w) ==
    /\ wpc[w] = "wait" /\ stopFlag[w]
    /\ wpc' = [wpc EXCEPT ![w] = "exited"]
    /\ contexts' = [contexts EXCEPT ![w] = [fd \in Fds |-> NoConn]]
    /\ \E unreferenced \in SUBSET (Served(w) \ InPool) : CloseAll(unreferenced)
    /\ UNCHANGED <<interest, acceptVars, queue, events, cur, expired,
                   cleanAge, stopFlag, ctx, poolVars>>

\* The next event e is looked up by its descriptor number.
Pick(w, e) == /\ wpc[w] = "events" /\ e \in events[w]
               /\ events' = [events EXCEPT ![w] = @ \ {e}]

Found(w, e) == contexts[w][e.fd]

\* Nobody has that number, or the connection is locked: the event is dropped.
SkipEvent(w, e) ==
    /\ Pick(w, e)
    /\ Found(w, e) # NoConn => ctx[Found(w, e)].locked
    /\ UNCHANGED <<kernelVars, acceptVars, queue, contexts, wpc, cur, expired,
                   cleanAge, stopFlag, ctx, poolVars>>

Usable(w, e) == Found(w, e) # NoConn /\ ~ctx[Found(w, e)].locked

\* Error or hang-up.
Disconnect(w, e) ==
    /\ Pick(w, e) /\ Usable(w, e) /\ e.flag = "hangup"
    /\ Discard(w, Found(w, e))
    /\ UNCHANGED <<acceptVars, queue, wpc, cur, expired, cleanAge, stopFlag,
                   poolVars>>
-----------------------------------------------------------------------------
(* on_read, send_response *)

ReadEvent(w, e) == /\ Pick(w, e) /\ Usable(w, e) /\ e.flag = "read"
                   /\ UNCHANGED <<acceptVars, queue, expired, cleanAge, stopFlag>>

\* The bytes of c are taken from the socket.
TakeBytes(c) == /\ unread[c]
                /\ unread' = [unread EXCEPT ![c] = FALSE]
                /\ UNCHANGED <<sock, fdOf, client>>

\* Mutant: a read that returns 0 counts as activity.
ReadNothingRefreshes(w, e) ==
    /\ ReadEvent(w, e)
    /\ client[Found(w, e)] # "reset"
    /\ TakeBytes(Found(w, e)) \/ (~unread[Found(w, e)] /\ UNCHANGED socketVars)
    /\ ctx' = [ctx EXCEPT ![Found(w, e)].age = 0]
    /\ UNCHANGED <<interest, contexts, wpc, cur, poolVars>>

\* Drained (EAGAIN), half-closed (0), or part of a header: try again later.
ReadNothing(w, e) ==
    /\ ReadEvent(w, e)
    /\ client[Found(w, e)] # "reset"
    /\ TakeBytes(Found(w, e)) \/ (~unread[Found(w, e)] /\ UNCHANGED socketVars)
    /\ UNCHANGED <<interest, contexts, wpc, cur, ctx, poolVars>>

ReadFailed(w, e) ==
    /\ ReadEvent(w, e)
    /\ client[Found(w, e)] = "reset"
    /\ Discard(w, Found(w, e))
    /\ UNCHANGED <<wpc, cur, poolVars>>

\* send_response: the socket is registered for writing again, with a response
\* of its own that closes the connection; 400, 431, 503 and 500 alike.
SendResponse(w, c) ==
    /\ interest' = [interest EXCEPT ![w][fdOf[c]] = "write"]
    /\ ctx' = [ctx EXCEPT ![c].reply = {"header"}, ![c].closing = TRUE,
                          ![c].locked = FALSE]

\* Taken out of the poller and locked, before anyone else may use it.
Lock(w, c) ==
    /\ interest' = [interest EXCEPT ![w][fdOf[c]] = "none"]
    /\ ctx' = [ctx EXCEPT ![c].locked = TRUE]

\* The header is malformed (400) or exceeds maxHeaderSize (431).
ReadRefused(w, e) ==
    /\ ReadEvent(w, e)
    /\ TakeBytes(Found(w, e))
    /\ SendResponse(w, Found(w, e))
    /\ UNCHANGED <<contexts, wpc, cur, poolVars>>

\* A request of at most MAX_CONTENT_SIZE is handled by this very thread.
ReadSmall(w, e) ==
    /\ ReadEvent(w, e)
    /\ TakeBytes(Found(w, e))
    /\ Lock(w, Found(w, e))
    /\ cur' = [cur EXCEPT ![w] = Found(w, e)]
    /\ wpc' = [wpc EXCEPT ![w] = "handle"]
    /\ UNCHANGED <<contexts, poolVars>>

\* thread_pool::is_available.
IsAvailable == \E p \in PoolThreads : ppc[p] = "idle"

\* A larger one goes to the pool, or is refused (503) when all of the pool's
\* threads run a task.
ReadLarge(w, e) ==
    /\ ReadEvent(w, e)
    /\ TakeBytes(Found(w, e))
    /\ \/ /\ IsAvailable
          /\ Lock(w, Found(w, e))
          /\ poolQueue' = Append(poolQueue, <<w, Found(w, e)>>)
       \/ /\ ~IsAvailable
          /\ SendResponse(w, Found(w, e))
          /\ UNCHANGED poolQueue
    /\ UNCHANGED <<contexts, wpc, cur, ppc, job>>
-----------------------------------------------------------------------------
(* process_request, finalize_request *)

\* The handler returns a response, with or without content, that keeps the
\* connection or closes it; or it throws, and the response is a 500.
Responses(context) ==
    {[context EXCEPT !.reply = parts, !.closing = close] :
        parts \in {{"header"}, {"header", "content"}},
        close \in {TRUE} \cup {context.count = MaxRequests}}

\* On the worker's own thread nothing can come between the end of the handler
\* and the unlocking: poller->add, isLocked = false, notify.
HandleInline(w) ==
    /\ wpc[w] = "handle"
    /\ LET c == cur[w] IN
          /\ \E context \in Responses(ctx[c]) :
                ctx' = [ctx EXCEPT ![c] = [context EXCEPT !.locked = FALSE]]
          /\ interest' = [interest EXCEPT ![w][fdOf[c]] = "write"]
    /\ wpc' = [wpc EXCEPT ![w] = "events"] /\ cur' = [cur EXCEPT ![w] = NoConn]
    /\ UNCHANGED <<socketVars, acceptVars, queue, contexts, events, expired,
                   cleanAge, stopFlag, poolVars>>

\* The pool is ThreadPool's subject; here a thread takes the oldest task.
PoolTake(p) ==
    /\ ppc[p] = "idle" /\ poolQueue # <<>>
    /\ job' = [job EXCEPT ![p] = Head(poolQueue)]
    /\ poolQueue' = Tail(poolQueue)
    /\ ppc' = [ppc EXCEPT ![p] = "handle"]
    /\ UNCHANGED <<kernelVars, acceptVars, workerVars, ctx>>

PoolHandle(p) ==
    /\ ppc[p] = "handle"
    /\ LET c == job[p][2] IN
          \E context \in Responses(ctx[c]) : ctx' = [ctx EXCEPT ![c] = context]
    /\ ppc' = [ppc EXCEPT ![p] = "add"]
    /\ UNCHANGED <<kernelVars, acceptVars, workerVars, poolQueue, job>>

\* Mutant: the socket is registered for the next request, not for the response.
PoolAddForReading(p) ==
    /\ ppc[p] = "add"
    /\ LET w == job[p][1]  c == job[p][2] IN
          interest' = [interest EXCEPT ![w][fdOf[c]] = "read"]
    /\ ppc' = [ppc EXCEPT ![p] = "unlock"]
    /\ UNCHANGED <<socketVars, acceptVars, workerVars, ctx, poolQueue, job>>

\* finalize_request: the socket is registered while it is still locked.
PoolAdd(p) ==
    /\ ppc[p] = "add"
    /\ LET w == job[p][1]  c == job[p][2] IN
          interest' = [interest EXCEPT ![w][fdOf[c]] = "write"]
    /\ ppc' = [ppc EXCEPT ![p] = "unlock"]
    /\ UNCHANGED <<socketVars, acceptVars, workerVars, ctx, poolQueue, job>>

\* Mutant: isLocked stays set.
PoolUnlockForgotten(p) ==
    /\ ppc[p] = "unlock"
    /\ ppc' = [ppc EXCEPT ![p] = "notify"]
    /\ UNCHANGED <<kernelVars, acceptVars, workerVars, ctx, poolQueue, job>>

PoolUnlock(p) ==
    /\ ppc[p] = "unlock"
    /\ ctx' = [ctx EXCEPT ![job[p][2]].locked = FALSE]
    /\ ppc' = [ppc EXCEPT ![p] = "notify"]
    /\ UNCHANGED <<kernelVars, acceptVars, workerVars, poolQueue, job>>

\* poller->notify, and the task ends.
PoolNotify(p) ==
    /\ ppc[p] = "notify"
    /\ job' = [job EXCEPT ![p] = <<>>]
    /\ ppc' = [ppc EXCEPT ![p] = "idle"]
    /\ UNCHANGED <<kernelVars, acceptVars, workerVars, ctx, poolQueue>>

\* A task still in the pool when run() has returned goes on to use a worker
\* that is destroyed; nothing is said of what it does from then on.
Pool(p) == /\ apc # "returned"
           /\ \/ PoolTake(p) \/ PoolHandle(p) \/ PoolAdd(p)
              \/ PoolUnlock(p) \/ PoolNotify(p)
-----------------------------------------------------------------------------
(* on_write *)

\* What no step of on_write changes.
writeFrame == <<acceptVars, queue, expired, cleanAge, stopFlag, poolVars>>

Return(w) == /\ wpc' = [wpc EXCEPT ![w] = "events"]
             /\ cur' = [cur EXCEPT ![w] = NoConn]

\* request_finished: count the request; close the connection, or make it ready
\* for the next one.  (poller->modify fails for one that is not registered.)
Finished(w, c) ==
    \/ /\ ctx[c].closing \/ ctx[c].count + 1 >= MaxRequests
       /\ Discard(w, c)
    \/ /\ ~ctx[c].closing /\ ctx[c].count + 1 < MaxRequests
       /\ ctx' = [ctx EXCEPT ![c].count = @ + 1, ![c].reply = {}, ![c].age = 0]
       /\ interest' = [interest EXCEPT ![w][fdOf[c]] =
                          IF @ = "none" THEN @ ELSE "read"]
       /\ UNCHANGED <<contexts, socketVars>>

\* A write event of an idle connection (its number was recycled) counts as a
\* finished request.
WriteNothing(w, e) ==
    /\ Pick(w, e) /\ Usable(w, e) /\ e.flag = "write"
    /\ ctx[Found(w, e)].reply = {}
    /\ Finished(w, Found(w, e))
    /\ UNCHANGED <<wpc, cur, writeFrame>>

WriteEvent(w, e) ==
    /\ Pick(w, e) /\ Usable(w, e) /\ e.flag = "write"
    /\ ctx[Found(w, e)].reply # {}
    /\ cur' = [cur EXCEPT ![w] = Found(w, e)]
    /\ wpc' = [wpc EXCEPT ![w] = IF "header" \in ctx[Found(w, e)].reply
                                THEN "header" ELSE "content"]
    /\ UNCHANGED <<kernelVars, contexts, ctx, writeFrame>>

\* The rest of the header fits in the send buffer; the content is next.
HeaderSent(w) ==
    /\ wpc[w] = "header" /\ client[cur[w]] # "reset"
    /\ "content" \in ctx[cur[w]].reply
    /\ ctx' = [ctx EXCEPT ![cur[w]].reply = {"content"}]
    /\ wpc' = [wpc EXCEPT ![w] = "content"]
    /\ UNCHANGED <<kernelVars, contexts, cur, events, writeFrame>>

\* The last part fits.
ResponseSent(w) ==
    /\ \/ wpc[w] = "content"
       \/ wpc[w] = "header" /\ "content" \notin ctx[cur[w]].reply
    /\ client[cur[w]] # "reset"
    /\ Finished(w, cur[w])
    /\ Return(w)
    /\ UNCHANGED <<events, writeFrame>>

\* EAGAIN, after as much as the buffer took: the rest waits for the next event.
\* The content has been rewound to where the socket stopped, if it can be.
WriteBlocked(w) ==
    /\ wpc[w] \in {"header", "content"} /\ client[cur[w]] # "reset"
    /\ Return(w)
    /\ UNCHANGED <<sock, fdOf, client, unread, interest, contexts, ctx, events,
                   writeFrame>>

\* The content is a file whose end was read: rewinding it throws, no function
\* of the worker's thread catches that, and the process ends (std::terminate).
\* The kernel closes its descriptors; nothing is left of the rest.
Terminate(w) ==
    /\ wpc[w] = "content" /\ client[cur[w]] # "reset"
    /\ CloseAll({c \in Conns : sock[c] = "open"})
    /\ interest' = [v \in Workers |-> [fd \in Fds |-> "none"]]
    /\ apc' = "terminated" /\ newest' = NoConn
    /\ queue' = [v \in Workers |-> <<>>]
    /\ contexts' = [v \in Workers |-> [fd \in Fds |-> NoConn]]
    /\ events' = [v \in Workers |-> {}] /\ expired' = [v \in Workers |-> {}]
    /\ wpc' = [v \in Workers |-> "exited"] /\ cur' = [v \in Workers |-> NoConn]
    /\ ctx' = [c \in Conns |-> FreshContext]
    /\ poolQueue' = <<>>
    /\ ppc' = [p \in PoolThreads |-> "idle"] /\ job' = [p \in PoolThreads |-> <<>>]
    /\ UNCHANGED <<isRunning, nextWorker, joining, cleanAge, stopFlag>>

\* Any other error of a header write is not told from success: the loop tries
\* again, in vain, for as long as the connection is open.
HeaderFailed(w) ==
    /\ wpc[w] = "header" /\ client[cur[w]] = "reset"
    /\ wpc' = [wpc EXCEPT ![w] = "retry"]
    /\ UNCHANGED <<kernelVars, contexts, ctx, cur, events, writeFrame>>

Retry(w) ==
    /\ wpc[w] = "retry"
    /\ wpc' = [wpc EXCEPT ![w] = "header"]
    /\ UNCHANGED <<kernelVars, contexts, ctx, cur, events, writeFrame>>

ContentFailed(w) ==
    /\ wpc[w] = "content" /\ client[cur[w]] = "reset"
    /\ Discard(w, cur[w])
    /\ Return(w)
    /\ UNCHANGED <<events, writeFrame>>
-----------------------------------------------------------------------------
Environment == \/ \E c \in Conns : \/ Send(c) \/ HalfClose(c) \/ Reset(c)
               \/ Tick
               \/ Signal

Acceptor == EnqueueClient \/ LeaveLoop \/ StopWorker \/ JoinWorker

Event(w, e) == \/ SkipEvent(w, e) \/ Disconnect(w, e)
               \/ ReadNothing(w, e) \/ ReadFailed(w, e) \/ ReadRefused(w, e)
               \/ ReadSmall(w, e) \/ ReadLarge(w, e)
               \/ WriteNothing(w, e) \/ WriteEvent(w, e)

Worker(w) == \/ Wait(w) \/ CleanUp(w)
             \/ Adopt(w) \/ AdoptDone(w)
             \/ \E e \in events[w] : Event(w, e)
             \/ HandleInline(w)
             \/ HeaderSent(w) \/ ResponseSent(w) \/ WriteBlocked(w)
             \/ HeaderFailed(w) \/ Retry(w) \/ ContentFailed(w)
             \/ PassDone(w) \/ Exit(w)

Step == \/ Environment
        \/ \E c \in Conns : Accept(c)
        \/ Acceptor
        \/ \E w \in Workers : Worker(w)
        \/ \E p \in PoolThreads : Pool(p)

Next == Step \/ \E w \in Workers : Terminate(w)

Spec == Init /\ [][Next]_vars

\* Threads are scheduled, a wait ends (its timeout is a second), a handler
\* returns and time passes.  Clients, and the signal, need never do anything.
Fairness == /\ \A w \in Workers : WF_vars(Worker(w))
            /\ \A p \in PoolThreads : WF_vars(Pool(p))
            /\ WF_vars(Acceptor)
            /\ WF_vars(Tick)

FairSpec == Spec /\ Fairness
-----------------------------------------------------------------------------
(* Properties *)

Active(w) == wpc[w] \in {"handle", "header", "retry", "content"}

\* The threads between the first and the last use of c's context that is not
\* guarded by isLocked, and the tasks waiting to be such a thread.
Users(c) == {w \in Workers : Active(w) /\ cur[w] = c}
            \cup {p \in PoolThreads : ppc[p] \in {"handle", "add", "unlock"}
                                     /\ job[p][2] = c}
            \cup {{i} : i \in {j \in DOMAIN poolQueue : poolQueue[j][2] = c}}

\* A connection table never refers to a descriptor that was closed, and perhaps
\* handed out again; and no connection is in two tables, or twice in one.
TablesOwnDescriptors ==
    /\ \A w \in Workers, fd \in Fds :
          contexts[w][fd] # NoConn => /\ fdOf[contexts[w][fd]] = fd
                                      /\ sock[contexts[w][fd]] = "open"
    /\ \A v, w \in Workers : v # w => Served(v) \cap Served(w) = {}

\* A context is used by one thread at a time, worker or pool, and its socket
\* stays open for that long: the clean-up, a disconnection or a stale event
\* never closes a connection under a running handler.
OneUserAtATime ==
    \A c \in Conns : /\ Cardinality(Users(c)) <= 1
                     /\ Users(c) # {} => sock[c] = "open"

\* No connection is forgotten: one that no thread is using is registered with
\* its worker's poller, for writing if a response is pending, else for reading.
NobodyForgotten ==
    \A w \in Workers : \A c \in Served(w) :
       Users(c) = {} => interest[w][fdOf[c]] =
                           IF ctx[c].reply = {} THEN "read" ELSE "write"

\* No descriptor leaks: an open socket is in the accepting thread's hands, in
\* one worker's queue or in one worker's table.  Between the end of a worker
\* and the return of run() a queue's slot may be all that refers to it, and
\* after the return a task of the pool may be.
NoDescriptorLeak ==
    \A c \in Conns : sock[c] = "open" =>
       \/ newest = c
       \/ c \in InPool
       \/ \E w \in Workers :
             \/ c \in Served(w)
             \/ \E i \in DOMAIN queue[w] : queue[w][i] = c
             \/ wpc[w] = "exited" /\ apc # "returned"

\* A worker closes a connection for one of these reasons only: its client is
\* gone, its last response has been sent, it was inactive for too long, the
\* worker was told to stop -- or its descriptor number was recycled while a
\* hang-up of the number's former owner was waiting to be processed, or the
\* whole process has ended.
ClosedForAReason ==
    [][\A w \in Workers : \A c \in Served(w) :
          sock[c] = "open" /\ sock'[c] = "closed" =>
             \/ client[c] = "reset"
             \/ cur[w] = c /\ (ctx[c].closing \/ ctx[c].count + 1 >= MaxRequests)
             \/ wpc[w] = "clean" /\ ctx[c].age > KeepAliveTime
             \/ stopFlag[w]
             \/ \E e \in events[w] : e.fd = fdOf[c] /\ e.of # c
             \/ apc' = "terminated"]_vars

\* Whoever locks a connection unlocks it again.
LocksReleased ==
    \A c \in Conns : ctx[c].locked ~> (~ctx[c].locked \/ apc = "returned")

Leaving(c) == sock[c] = "closed" \/ ~isRunning

\* A request is read, and a response is sent, or the connection is closed.
RequestsAnswered ==
    \A c \in Conns : /\ (unread[c] /\ sock[c] = "open") ~> (~unread[c] \/ Leaving(c))
                     /\ (ctx[c].reply # {}) ~> (ctx[c].reply = {} \/ Leaving(c))

\* A connection whose client has shut down does not stick around (on_read's
\* comment: "we regularly check for 'zombie' connections").
ZombiesCollected ==
    \A c \in Conns : (sock[c] = "open" /\ client[c] = "eof") ~> Leaving(c)

\* After the signal, run() returns, unless the process ends before.
ShutdownReturns == ~isRunning ~> (apc \in {"returned", "terminated"})
=============================================================================
