-------------------------- MODULE HttpServerProofs --------------------------
(***************************************************************************)
(* The safety properties of HttpServer, for any numbers of connections,    *)
(* descriptors, workers and pool threads and any limits.                   *)
(*                                                                         *)
(* The argument, in layers, each of which needs the ones before it:        *)
(*   Ownership  an open socket has one descriptor and is in one place, and *)
(*              what workers and tasks refer to is where they think it is; *)
(*   Locking    isLocked is set exactly while a handler or a task has yet  *)
(*              to clear it, no two of them are about one connection, and  *)
(*              nobody else works on a connection while it is set;         *)
(*   Interest   an unlocked connection is registered for what it waits     *)
(*              for, and a thread that sends or registers has something to *)
(*              send;                                                      *)
(*   Noticing   what a worker has noticed, in its events and its overdue   *)
(*              descriptors, is still true when it acts on it, or the      *)
(*              connection was closed since.                               *)
(* IInv is their conjunction.  The lemmas go through the actions layer by  *)
(* layer; the theorems are at the end.                                     *)
(***************************************************************************)
EXTENDS HttpServer, FiniteSetTheorems, WellFoundedInduction, TLAPS

\* What a context, an event and a task of the pool are made of.
ContextType == [locked : BOOLEAN, count : Nat, age : Nat, closing : BOOLEAN,
                reply : SUBSET {"header", "content"}]
EventType == [fd : Fds, flag : {"read", "write", "hangup"}, of : Conns]
TaskType == Workers \X Conns

TypeOK ==
    /\ sock \in [Conns -> {"absent", "open", "closed"}]
    /\ fdOf \in [Conns -> Fds \cup {NoFd}]
    /\ client \in [Conns -> {"up", "eof", "reset"}]
    /\ unread \in [Conns -> BOOLEAN]
    /\ interest \in [Workers -> [Fds -> {"none", "read", "write"}]]
    /\ isRunning \in BOOLEAN
    /\ apc \in {"loop", "enqueue", "stop", "join", "returned", "terminated"}
    /\ newest \in Conns \cup {NoConn}
    /\ apc = "enqueue" <=> newest # NoConn
    /\ nextWorker \in Workers /\ joining \in Workers
    /\ queue \in [Workers -> Seq(Conns)]
    /\ contexts \in [Workers -> [Fds -> Conns \cup {NoConn}]]
    /\ events \in [Workers -> SUBSET EventType]
    /\ wpc \in [Workers -> {"wait", "clean", "adopt", "events", "handle",
                            "header", "retry", "content", "exited"}]
    /\ cur \in [Workers -> Conns \cup {NoConn}]
    /\ expired \in [Workers -> SUBSET Fds]
    /\ cleanAge \in [Workers -> Nat] /\ stopFlag \in [Workers -> BOOLEAN]
    /\ ctx \in [Conns -> ContextType]
    /\ poolQueue \in Seq(TaskType)
    /\ ppc \in [PoolThreads -> {"idle", "handle", "add", "unlock", "notify"}]
    /\ job \in [PoolThreads -> TaskType \cup {<<>>}]
    /\ \A p \in PoolThreads : ppc[p] # "idle" => job[p] \in TaskType
-----------------------------------------------------------------------------
(* Where a connection is: with the accepting thread, in a queue, in a table *)

\* Exactly the open connections have a descriptor, each one of its own.
Descriptors ==
    /\ \A c \in Conns : sock[c] = "open" <=> fdOf[c] # NoFd
    /\ \A c, d \in Conns : fdOf[c] = fdOf[d] /\ fdOf[c] # NoFd => c = d

\* Neither in a table nor with the pool yet.
Unserved(c) == /\ \A w \in Workers : c \notin Served(w)
               /\ \A i \in DOMAIN poolQueue : poolQueue[i][2] # c
               /\ \A p \in PoolThreads : ppc[p] # "idle" => job[p][2] # c

\* A connection on its way to a worker is open, in one place, and not served.
Arrivals ==
    /\ newest # NoConn =>
          /\ sock[newest] = "open" /\ Unserved(newest)
          /\ \A w \in Workers : \A i \in DOMAIN queue[w] : queue[w][i] # newest
    /\ \A w \in Workers : \A i \in DOMAIN queue[w] :
          sock[queue[w][i]] = "open" /\ Unserved(queue[w][i])
    /\ \A v, w \in Workers : \A i \in DOMAIN queue[v], j \in DOMAIN queue[w] :
          queue[v][i] = queue[w][j] => v = w /\ i = j

\* A task of the pool names the worker whose table has the connection, as long
\* as the connection is open and the worker at work.
Placed(w, c) == /\ sock[c] # "absent"
                /\ sock[c] = "open" => c \in Served(w) \/ wpc[w] = "exited"
                /\ \A v \in Workers : c \in Served(v) => v = w

Tasks ==
    /\ \A i \in DOMAIN poolQueue : Placed(poolQueue[i][1], poolQueue[i][2])
    /\ \A p \in PoolThreads : ppc[p] # "idle" => Placed(job[p][1], job[p][2])

\* A worker works on connections of its table, cleans up descriptors of its
\* table, polls descriptors of its table, and leaves an empty table.
WorkersOwn ==
    \A w \in Workers :
       /\ Active(w) => cur[w] \in Served(w)
       /\ expired[w] # {} => wpc[w] = "clean"
       /\ \A fd \in expired[w] : contexts[w][fd] # NoConn
       /\ \A fd \in Fds : interest[w][fd] # "none" =>
             contexts[w][fd] # NoConn \/ wpc[w] = "exited"
       /\ wpc[w] = "exited" => \A fd \in Fds : contexts[w][fd] = NoConn

\* A worker that was joined has ended, and its queue is empty.
Joined ==
    /\ apc \in {"loop", "enqueue"} => joining = 0
    /\ \A w \in Workers : w < joining \/ apc = "returned" =>
          wpc[w] = "exited" /\ queue[w] = <<>>

Ownership == /\ Descriptors /\ TablesOwnDescriptors /\ Arrivals /\ Tasks
             /\ WorkersOwn /\ Joined /\ NoDescriptorLeak
-----------------------------------------------------------------------------
(* Who may use a connection *)

\* p runs a request.
Busy(p) == ppc[p] \in {"handle", "add", "unlock"}

\* A task that has yet to unlock c is queued or under way.
Tasked(c) == \/ \E i \in DOMAIN poolQueue : poolQueue[i][2] = c
             \/ \E p \in PoolThreads : Busy(p) /\ job[p][2] = c

\* No two of these tasks are about the same connection.
TasksDistinct ==
    /\ \A i, j \in DOMAIN poolQueue : poolQueue[i][2] = poolQueue[j][2] => i = j
    /\ \A i \in DOMAIN poolQueue, p \in PoolThreads :
          Busy(p) => poolQueue[i][2] # job[p][2]
    /\ \A p, q \in PoolThreads : Busy(p) /\ Busy(q) /\ job[p][2] = job[q][2] => p = q

TasksLocked == \A c \in Conns : Tasked(c) => ctx[c].locked /\ sock[c] = "open"

\* A worker locks the connection whose request it runs, which is no task's, and
\* writes to one that nobody has locked.
WorkersLocked ==
    \A w \in Workers :
       /\ wpc[w] = "handle" => ctx[cur[w]].locked /\ ~Tasked(cur[w])
       /\ wpc[w] \in {"header", "retry", "content"} => ~ctx[cur[w]].locked

\* A locked connection has someone who will unlock it.
LocksHeld ==
    \A c \in Conns : ctx[c].locked =>
       Tasked(c) \/ \E w \in Workers : wpc[w] = "handle" /\ cur[w] = c

Locking == TasksDistinct /\ TasksLocked /\ WorkersLocked /\ LocksHeld
-----------------------------------------------------------------------------
(* What a connection waits for *)

\* Registered for writing only with a response to send; if unlocked, registered
\* for writing with a response and for reading without.
PolledAt(w, c) ==
    /\ interest[w][fdOf[c]] = "write" => ctx[c].reply # {}
    /\ ~ctx[c].locked =>
          interest[w][fdOf[c]] = IF ctx[c].reply = {} THEN "read" ELSE "write"

Polled == \A w \in Workers : \A c \in Served(w) : PolledAt(w, c)

\* The part of the response that a worker is about to send is there to be sent.
SendingAt(w) == /\ wpc[w] \in {"header", "retry"} => "header" \in ctx[cur[w]].reply
                /\ wpc[w] = "content" => "content" \in ctx[cur[w]].reply

Sending == \A w \in Workers : SendingAt(w)

\* A task that is past its handler has a response to send, and by the time it
\* unlocks the connection it has registered it for that.
Finalizing ==
    \A p \in PoolThreads :
       /\ ppc[p] \in {"add", "unlock"} => ctx[job[p][2]].reply # {}
       /\ ppc[p] = "unlock" /\ job[p][2] \in Served(job[p][1]) =>
             interest[job[p][1]][fdOf[job[p][2]]] = "write"

Interest == Polled /\ Sending /\ Finalizing
-----------------------------------------------------------------------------
(* What an event still says when it is looked at *)

\* The connection that an event is about was closed since, or is still the one
\* in the table; a hang-up lasts, and so does a response until it is sent.
EventFresh(w, e) ==
    /\ sock[e.of] = "open" => contexts[w][e.fd] = e.of
    /\ sock[e.of] # "absent"
    /\ e.flag = "hangup" /\ sock[e.of] = "open" => client[e.of] = "reset"
    /\ e.flag = "write" /\ sock[e.of] = "open" => ctx[e.of].reply # {}

EventsFresh(w) ==
    /\ wpc[w] \in {"wait", "exited"} => events[w] = {}
    /\ \A e \in events[w] : EventFresh(w, e)
    /\ \A e, f \in events[w] : e.fd = f.fd => e = f
    /\ Active(w) => \A e \in events[w] : e.fd # fdOf[cur[w]]

\* What is overdue stays overdue until it is cleaned up.
Overdues(w) == \A fd \in expired[w] : ctx[contexts[w][fd]].age > KeepAliveTime

Noticing == \A w \in Workers : EventsFresh(w) /\ Overdues(w)

IInv == TypeOK /\ Ownership /\ Locking /\ Interest /\ Noticing
-----------------------------------------------------------------------------
(* Numbers *)

\* The lesser of two numbers is one of them.
LEMMA MinOfTwo == ASSUME NEW a \in Nat, NEW b \in Nat
                  PROVE  Min({a, b}) \in {a, b}
<1>1. \E x \in {a, b} : \A y \in {a, b} : x =< y
  <2>1. CASE a =< b
    BY <2>1
  <2>2. CASE ~(a =< b)
    BY <2>2
  <2> QED BY <2>1, <2>2
<1> QED BY <1>1 DEF Min

\* The kernel's choice exists, and is a free descriptor.
LEMMA MinFree == ASSUME FreeFds # {} PROVE Min(FreeFds) \in FreeFds
<1>1. FreeFds \subseteq Nat
  BY ServerAssumption DEF FreeFds
<1>2. \E x \in FreeFds : \A y \in FreeFds : x =< y
  <2>1. PICK x \in FreeFds : \A y \in FreeFds : <<y, x>> \notin OpToRel(<, Nat)
    BY <1>1, NatLessThanWellFounded, WFMin, Zenon
  <2>2. ASSUME NEW y \in FreeFds PROVE x =< y
    <3>1. x \in Nat /\ y \in Nat
      BY <1>1
    <3>2. ~(y < x)
      BY <2>1, <3>1, Zenon DEF OpToRel
    <3> QED BY <3>1, <3>2
  <2> QED BY <2>2
<1> QED BY <1>2 DEF Min

\* The next worker is a worker.
LEMMA NextWorker == \A n \in Workers : (n + 1) % NumWorkers \in Workers
BY ServerAssumption, Z3 DEF Workers
-----------------------------------------------------------------------------
(* Queues, entry by entry *)

\* A queue with one entry more: the old ones and the new one.
LEMMA AppendFacts ==
  ASSUME NEW S, NEW s \in Seq(S), NEW x \in S
  PROVE  LET n == Len(s) + 1 IN
         /\ Append(s, x) \in Seq(S)
         /\ n \in DOMAIN Append(s, x) /\ Append(s, x)[n] = x /\ n \notin DOMAIN s
         /\ \A i \in DOMAIN s : i \in DOMAIN Append(s, x) /\ Append(s, x)[i] = s[i]
         /\ \A i \in DOMAIN Append(s, x) : i = n \/ i \in DOMAIN s
OBVIOUS

\* A queue with one entry less: the others, each one place further up.
LEMMA TailFacts ==
  ASSUME NEW S, NEW s \in Seq(S), s # <<>>
  PROVE  /\ Tail(s) \in Seq(S) /\ Head(s) \in S
         /\ 1 \in DOMAIN s /\ Head(s) = s[1]
         /\ \A i \in DOMAIN Tail(s) : /\ i + 1 \in DOMAIN s /\ Tail(s)[i] = s[i + 1]
                                      /\ i + 1 # 1
         /\ \A i \in DOMAIN s : i = 1 \/ \E j \in DOMAIN Tail(s) : j + 1 = i
         /\ \A i, j \in DOMAIN Tail(s) : i + 1 = j + 1 => i = j
<1>1. /\ Tail(s) \in Seq(S) /\ Head(s) \in S /\ Len(s) \in Nat /\ Len(s) > 0
      /\ DOMAIN s = 1..Len(s) /\ DOMAIN Tail(s) = 1..(Len(s) - 1)
      /\ Head(s) = s[1]
  OBVIOUS
<1>2. \A i \in 1..(Len(s) - 1) : Tail(s)[i] = s[i + 1]
  OBVIOUS
<1>3. ASSUME NEW i \in 1..Len(s), i # 1
      PROVE  \E j \in 1..(Len(s) - 1) : j + 1 = i
  <2>1. i - 1 \in 1..(Len(s) - 1) /\ (i - 1) + 1 = i
    BY <1>1, <1>3
  <2> QED BY <2>1
<1>4. \A i \in 1..(Len(s) - 1) : i + 1 \in 1..Len(s) /\ i + 1 # 1
  BY <1>1
<1>5. \A i, j \in 1..(Len(s) - 1) : i + 1 = j + 1 => i = j
  BY <1>1
<1>6. 1 \in 1..Len(s)
  BY <1>1
<1> QED BY <1>1, <1>2, <1>3, <1>4, <1>5, <1>6
-----------------------------------------------------------------------------
(* What the shared parts of the actions do, connection by connection *)

\* The sockets cs are closed and lose their descriptors; no other changes.
LEMMA CloseAllEffect ==
  ASSUME TypeOK, NEW cs, CloseAll(cs)
  PROVE  /\ sock' \in [Conns -> {"absent", "open", "closed"}]
         /\ fdOf' \in [Conns -> Fds \cup {NoFd}]
         /\ client' \in [Conns -> {"up", "eof", "reset"}]
         /\ unread' \in [Conns -> BOOLEAN]
         /\ \A d \in Conns \ cs : /\ sock'[d] = sock[d] /\ fdOf'[d] = fdOf[d]
                                  /\ client'[d] = client[d]
         /\ \A d \in Conns \cap cs : sock'[d] = "closed" /\ fdOf'[d] = NoFd
BY DEF TypeOK, CloseAll

\* A new http_context is one.
LEMMA FreshContextType == FreshContext \in ContextType
BY DEF FreshContext, ContextType

\* One socket, its registration, its place in the table and its context go.
LEMMA DiscardEffect ==
  ASSUME TypeOK, NEW w \in Workers, NEW c \in Conns, Discard(w, c)
  PROVE  /\ CloseAll({c})
         /\ interest' \in [Workers -> [Fds -> {"none", "read", "write"}]]
         /\ contexts' \in [Workers -> [Fds -> Conns \cup {NoConn}]]
         /\ ctx' \in [Conns -> ContextType]
         /\ \A v \in Workers, fd \in Fds :
               /\ interest'[v][fd] = IF v = w /\ fd = fdOf[c] THEN "none"
                                     ELSE interest[v][fd]
               /\ contexts'[v][fd] = IF v = w /\ fd = fdOf[c] THEN NoConn
                                     ELSE contexts[v][fd]
         /\ \A d \in Conns : ctx'[d] = IF d = c THEN FreshContext ELSE ctx[d]
BY FreshContextType DEF TypeOK, Discard, Close

\* send_response: one registration and one context change.
LEMMA SendResponseEffect ==
  ASSUME TypeOK, NEW w \in Workers, NEW c \in Conns, SendResponse(w, c)
  PROVE  /\ interest' \in [Workers -> [Fds -> {"none", "read", "write"}]]
         /\ ctx' \in [Conns -> ContextType]
         /\ \A v \in Workers, fd \in Fds :
               interest'[v][fd] = IF v = w /\ fd = fdOf[c] THEN "write"
                                  ELSE interest[v][fd]
         /\ \A d \in Conns \ {c} : ctx'[d] = ctx[d]
         /\ ctx'[c].reply = {"header"} /\ ~ctx'[c].locked
         /\ ctx'[c].age = ctx[c].age
<1> DEFINE r == [ctx[c] EXCEPT !.reply = {"header"}, !.closing = TRUE,
                               !.locked = FALSE]
<1>1. ctx \in [Conns -> ContextType]
      /\ interest \in [Workers -> [Fds -> {"none", "read", "write"}]]
  BY DEF TypeOK
<1>2. ctx' = [ctx EXCEPT ![c] = r]
  BY <1>1 DEF SendResponse
<1>3. /\ r \in ContextType /\ r.reply = {"header"} /\ ~r.locked
      /\ r.age = ctx[c].age
  BY <1>1 DEF ContextType
<1> HIDE DEF r
<1>4. interest' = [interest EXCEPT ![w][fdOf[c]] = "write"]
  BY DEF SendResponse
<1>5. /\ interest' \in [Workers -> [Fds -> {"none", "read", "write"}]]
      /\ \A v \in Workers, fd \in Fds :
            interest'[v][fd] = IF v = w /\ fd = fdOf[c] THEN "write" ELSE interest[v][fd]
  BY <1>1, <1>4
<1>6. /\ ctx' \in [Conns -> ContextType] /\ ctx'[c] = r
      /\ \A d \in Conns \ {c} : ctx'[d] = ctx[d]
  BY <1>1, <1>2, <1>3
<1> QED BY <1>3, <1>5, <1>6

\* Before a handler runs: the registration goes, the lock is set.
LEMMA LockEffect ==
  ASSUME TypeOK, NEW w \in Workers, NEW c \in Conns, Lock(w, c)
  PROVE  /\ interest' \in [Workers -> [Fds -> {"none", "read", "write"}]]
         /\ ctx' \in [Conns -> ContextType]
         /\ \A v \in Workers, fd \in Fds :
               interest'[v][fd] = IF v = w /\ fd = fdOf[c] THEN "none"
                                  ELSE interest[v][fd]
         /\ \A d \in Conns \ {c} : ctx'[d] = ctx[d]
         /\ ctx'[c].locked /\ ctx'[c].reply = ctx[c].reply
         /\ ctx'[c].age = ctx[c].age
<1> DEFINE r == [ctx[c] EXCEPT !.locked = TRUE]
<1>1. ctx \in [Conns -> ContextType]
      /\ interest \in [Workers -> [Fds -> {"none", "read", "write"}]]
  BY DEF TypeOK
<1>2. ctx' = [ctx EXCEPT ![c] = r]
  BY <1>1 DEF Lock
<1>3. /\ r \in ContextType /\ r.locked /\ r.reply = ctx[c].reply
      /\ r.age = ctx[c].age
  BY <1>1 DEF ContextType
<1> HIDE DEF r
<1> QED BY <1>1, <1>2, <1>3 DEF Lock

\* request_finished, when the connection is kept.
Kept(w, c) ==
    /\ interest' \in [Workers -> [Fds -> {"none", "read", "write"}]]
    /\ ctx' \in [Conns -> ContextType]
    /\ UNCHANGED <<contexts, socketVars>>
    /\ \A v \in Workers, fd \in Fds :
          interest'[v][fd] =
             IF v = w /\ fd = fdOf[c] /\ interest[v][fd] # "none"
             THEN "read" ELSE interest[v][fd]
    /\ \A d \in Conns \ {c} : ctx'[d] = ctx[d]
    /\ ctx'[c].reply = {} /\ ctx'[c].locked = ctx[c].locked

\* request_finished closes a connection for a reason, or keeps it.
LEMMA FinishedEffect ==
  ASSUME TypeOK, NEW w \in Workers, NEW c \in Conns, Finished(w, c)
  PROVE  \/ Discard(w, c) /\ (ctx[c].closing \/ ctx[c].count + 1 >= MaxRequests)
         \/ Kept(w, c)
<1>1. CASE /\ ctx[c].closing \/ ctx[c].count + 1 >= MaxRequests
           /\ Discard(w, c)
  BY <1>1
<1>2. CASE /\ ~ctx[c].closing /\ ctx[c].count + 1 < MaxRequests
           /\ ctx' = [ctx EXCEPT ![c].count = @ + 1, ![c].reply = {}, ![c].age = 0]
           /\ interest' = [interest EXCEPT ![w][fdOf[c]] =
                              IF @ = "none" THEN @ ELSE "read"]
           /\ UNCHANGED <<contexts, socketVars>>
  <2>1. /\ interest' \in [Workers -> [Fds -> {"none", "read", "write"}]]
        /\ \A v \in Workers, fd \in Fds :
              interest'[v][fd] =
                 IF v = w /\ fd = fdOf[c] /\ interest[v][fd] # "none"
                 THEN "read" ELSE interest[v][fd]
    BY <1>2 DEF TypeOK
  <2>2. /\ ctx' \in [Conns -> ContextType]
        /\ \A d \in Conns \ {c} : ctx'[d] = ctx[d]
        /\ ctx'[c].reply = {} /\ ctx'[c].locked = ctx[c].locked
    <3> DEFINE r == [ctx[c] EXCEPT !.count = @ + 1, !.reply = {}, !.age = 0]
    <3>1. ctx \in [Conns -> ContextType]
      BY DEF TypeOK
    <3>2. ctx' = [ctx EXCEPT ![c] = r]
      BY <1>2, <3>1
    <3>3. r \in ContextType /\ r.reply = {} /\ r.locked = ctx[c].locked
      <4>1. ctx[c] \in ContextType /\ ctx[c].count + 1 \in Nat
        BY <3>1 DEF ContextType
      <4> QED BY <4>1 DEF ContextType
    <3> HIDE DEF r
    <3> QED BY <3>1, <3>2, <3>3
  <2> QED BY <1>2, <2>1, <2>2 DEF Kept
<1> QED BY <1>1, <1>2 DEF Finished

\* A response has a header at least; the lock and the age are not its business.
LEMMA ResponsesEffect ==
  ASSUME NEW context \in ContextType, NEW r \in Responses(context)
  PROVE  /\ r \in ContextType /\ r.reply # {}
         /\ r.locked = context.locked /\ r.age = context.age
<1>1. PICK parts \in {{"header"}, {"header", "content"}},
          close \in {TRUE} \cup {context.count = MaxRequests} :
        r = [context EXCEPT !.reply = parts, !.closing = close]
  BY DEF Responses
<1>2. close \in BOOLEAN
  OBVIOUS
<1> QED BY <1>1, <1>2 DEF ContextType

\* A task's handler answers the connection of the task, and leaves its lock.
LEMMA HandledEffect ==
  ASSUME TypeOK, NEW p \in PoolThreads, PoolHandle(p)
  PROVE  /\ job[p] \in TaskType /\ job[p][2] \in Conns
         /\ ctx' \in [Conns -> ContextType]
         /\ \A d \in Conns \ {job[p][2]} : ctx'[d] = ctx[d]
         /\ ctx'[job[p][2]].reply # {}
         /\ ctx'[job[p][2]].locked = ctx[job[p][2]].locked
         /\ ctx'[job[p][2]].age = ctx[job[p][2]].age
<1>1. job[p] \in TaskType /\ ctx \in [Conns -> ContextType]
  BY DEF PoolHandle, TypeOK
<1>2. job[p][2] \in Conns
  BY <1>1 DEF TaskType
<1>3. PICK r \in Responses(ctx[job[p][2]]) : ctx' = [ctx EXCEPT ![job[p][2]] = r]
  BY DEF PoolHandle
<1>4. /\ r \in ContextType /\ r.reply # {}
      /\ r.locked = ctx[job[p][2]].locked /\ r.age = ctx[job[p][2]].age
  BY <1>1, <1>2, <1>3, ResponsesEffect
<1> QED BY <1>1, <1>2, <1>3, <1>4

\* A worker's handler answers, registers and unlocks its connection.
LEMMA HandledInlineEffect ==
  ASSUME TypeOK, NEW w \in Workers, NEW c \in Conns, c = cur[w], HandleInline(w)
  PROVE  /\ interest' \in [Workers -> [Fds -> {"none", "read", "write"}]]
         /\ ctx' \in [Conns -> ContextType]
         /\ \A v \in Workers, fd \in Fds :
               interest'[v][fd] = IF v = w /\ fd = fdOf[c] THEN "write"
                                  ELSE interest[v][fd]
         /\ \A d \in Conns \ {c} : ctx'[d] = ctx[d]
         /\ ctx'[c].reply # {} /\ ~ctx'[c].locked /\ ctx'[c].age = ctx[c].age
<1>1. ctx \in [Conns -> ContextType]
      /\ interest \in [Workers -> [Fds -> {"none", "read", "write"}]]
  BY DEF TypeOK
<1>2. PICK r \in Responses(ctx[c]) :
        ctx' = [ctx EXCEPT ![c] = [r EXCEPT !.locked = FALSE]]
  BY DEF HandleInline
<1>3. r \in ContextType /\ r.reply # {} /\ r.age = ctx[c].age
  BY <1>1, ResponsesEffect
<1> DEFINE s == [r EXCEPT !.locked = FALSE]
<1>4. s \in ContextType /\ s.reply # {} /\ ~s.locked /\ s.age = ctx[c].age
  BY <1>3 DEF ContextType
<1>5. ctx' = [ctx EXCEPT ![c] = s]
  BY <1>2
<1> HIDE DEF s
<1>6. interest' = [interest EXCEPT ![w][fdOf[c]] = "write"]
  BY DEF HandleInline
<1>7. /\ ctx' \in [Conns -> ContextType]
      /\ \A d \in Conns \ {c} : ctx'[d] = ctx[d]
      /\ ctx'[c].reply # {} /\ ~ctx'[c].locked /\ ctx'[c].age = ctx[c].age
  BY <1>1, <1>4, <1>5
<1> QED BY <1>1, <1>6, <1>7

\* isLocked = false, and nothing else.
LEMMA UnlockEffect ==
  ASSUME TypeOK, NEW c \in Conns, ctx' = [ctx EXCEPT ![c].locked = FALSE]
  PROVE  /\ ctx' \in [Conns -> ContextType]
         /\ \A d \in Conns \ {c} : ctx'[d] = ctx[d]
         /\ ~ctx'[c].locked /\ ctx'[c].reply = ctx[c].reply
         /\ ctx'[c].age = ctx[c].age
<1>1. ctx \in [Conns -> ContextType]
  BY DEF TypeOK
<1> QED BY <1>1 DEF ContextType

\* The header is sent, and nothing else.
LEMMA HeaderSentEffect ==
  ASSUME TypeOK, NEW c \in Conns, ctx' = [ctx EXCEPT ![c].reply = {"content"}]
  PROVE  /\ ctx' \in [Conns -> ContextType]
         /\ \A d \in Conns \ {c} : ctx'[d] = ctx[d]
         /\ ctx'[c].locked = ctx[c].locked /\ ctx'[c].reply = {"content"}
         /\ ctx'[c].age = ctx[c].age
<1>1. ctx \in [Conns -> ContextType]
  BY DEF TypeOK
<1> QED BY <1>1 DEF ContextType

\* A hang-up is reported for a reset connection only, readiness for what the
\* socket is registered for.
LEMMA ReportedEffect ==
  ASSUME NEW c \in Conns, NEW what \in {"read", "write"}, NEW roomy,
         NEW flag \in Reported(c, what, roomy)
  PROVE  \/ flag = "hangup" /\ client[c] = "reset"
         \/ flag = what /\ client[c] # "reset"
<1>1. CASE client[c] = "reset"
  BY <1>1 DEF Reported
<1>2. CASE client[c] # "reset" /\ what = "read"
  BY <1>2 DEF Reported
<1>3. CASE client[c] # "reset" /\ what = "write"
  BY <1>3 DEF Reported
<1> QED BY <1>1, <1>2, <1>3
-----------------------------------------------------------------------------
(* Consequences of the invariant that most steps use *)

\* A served connection is open, and in one table under its own descriptor.
LEMMA ServedFacts ==
  ASSUME IInv
  PROVE  /\ \A w \in Workers, c \in Conns :
               /\ c \in Served(w) <=> fdOf[c] \in Fds /\ contexts[w][fdOf[c]] = c
               /\ c \in Served(w) => sock[c] = "open"
         /\ \A w \in Workers, fd \in Fds : contexts[w][fd] # NoConn =>
               /\ contexts[w][fd] \in Conns /\ contexts[w][fd] \in Served(w)
               /\ fdOf[contexts[w][fd]] = fd
         /\ \A v, w \in Workers, c \in Conns :
               c \in Served(v) /\ c \in Served(w) => v = w
<1>1. /\ NoConn \notin Conns /\ NoFd \notin Fds
      /\ fdOf \in [Conns -> Fds \cup {NoFd}]
      /\ contexts \in [Workers -> [Fds -> Conns \cup {NoConn}]]
      /\ TablesOwnDescriptors
  BY ServerAssumption DEF IInv, TypeOK, Ownership
<1> QED BY <1>1 DEF TablesOwnDescriptors, Served

\* What an active worker works on, and what a usable event leads to.
LEMMA CurFacts ==
  ASSUME IInv, NEW w \in Workers, Active(w)
  PROVE  cur[w] \in Conns /\ cur[w] \in Served(w)
BY DEF IInv, Ownership, WorkersOwn, Served

\* What a usable event leads to: an unlocked connection of that worker's table.
LEMMA FoundFacts ==
  ASSUME IInv, NEW w \in Workers, NEW e, Pick(w, e), Usable(w, e)
  PROVE  /\ Found(w, e) \in Conns /\ Found(w, e) \in Served(w)
         /\ e \in EventType /\ e.fd \in Fds /\ fdOf[Found(w, e)] = e.fd
         /\ ~ctx[Found(w, e)].locked
<1>1. e \in EventType
  BY DEF IInv, TypeOK, Pick
<1>2. e.fd \in Fds
  BY <1>1 DEF EventType
<1> QED BY <1>1, <1>2, ServedFacts DEF Usable, Found

\* What an overdue descriptor leads to: a connection of that worker's table.
LEMMA OverdueFacts ==
  ASSUME IInv, NEW w \in Workers, NEW fd \in expired[w]
  PROVE  /\ fd \in Fds /\ contexts[w][fd] \in Conns
         /\ contexts[w][fd] \in Served(w) /\ fdOf[contexts[w][fd]] = fd
<1>1. fd \in Fds /\ contexts[w][fd] # NoConn
  BY DEF IInv, TypeOK, Ownership, WorkersOwn
<1> QED BY <1>1, ServedFacts
-----------------------------------------------------------------------------
(* Types *)

\* The initial state is well typed.
LEMMA InitType == Init => TypeOK
<1> SUFFICES ASSUME Init PROVE TypeOK
  OBVIOUS
<1>1. 0 \in Workers
  BY ServerAssumption DEF Workers
<1>2. ctx \in [Conns -> ContextType]
  BY FreshContextType DEF Init
<1>3. queue \in [Workers -> Seq(Conns)] /\ poolQueue \in Seq(TaskType)
  BY DEF Init
<1> QED BY <1>1, <1>2, <1>3 DEF Init, TypeOK

\* Every step keeps the types.
LEMMA TypeNext == IInv /\ [Step]_vars => TypeOK'
<1> SUFFICES ASSUME IInv, [Step]_vars PROVE TypeOK'
  OBVIOUS
<1>0. TypeOK
  BY DEF IInv
<1> USE <1>0 DEF vars, kernelVars, socketVars, acceptVars, workerVars, poolVars,
               writeFrame
<1>1. ASSUME NEW c \in Conns, Send(c) \/ HalfClose(c) \/ Reset(c) PROVE TypeOK'
  BY <1>1 DEF TypeOK, Send, HalfClose, Reset
<1>2. CASE Tick
  <2>1. ctx' \in [Conns -> ContextType]
    <3>1. ASSUME NEW c \in Conns
          PROVE  [ctx[c] EXCEPT !.age = Min({@ + 1, KeepAliveTime + 1})] \in ContextType
      <4>1. ctx[c] \in ContextType /\ ctx[c].age + 1 \in Nat /\ KeepAliveTime + 1 \in Nat
        BY ServerAssumption DEF TypeOK, ContextType
      <4>2. Min({ctx[c].age + 1, KeepAliveTime + 1}) \in Nat
        BY <4>1, MinOfTwo
      <4> QED BY <4>1, <4>2 DEF ContextType
    <3> QED BY <1>2, <3>1 DEF Tick, TypeOK
  <2>2. cleanAge' \in [Workers -> Nat]
    <3>1. ASSUME NEW w \in Workers
          PROVE  Min({cleanAge[w] + 1, CleanupPeriod + 1}) \in Nat
      <4>1. cleanAge[w] + 1 \in Nat /\ CleanupPeriod + 1 \in Nat
        BY ServerAssumption DEF TypeOK
      <4> QED BY <4>1, MinOfTwo
    <3> QED BY <1>2, <3>1 DEF Tick
  <2> QED BY <1>2, <2>1, <2>2 DEF Tick, TypeOK
<1>3. CASE Signal
  BY <1>3 DEF TypeOK, Signal
<1>4. ASSUME NEW c \in Conns, Accept(c) PROVE TypeOK'
  <2>1. Min(FreeFds) \in Fds /\ c # NoConn
    BY <1>4, MinFree, ServerAssumption DEF Accept, FreeFds
  <2> QED BY <1>4, <2>1 DEF TypeOK, Accept
<1>5. CASE EnqueueClient
  <2>1. newest \in Conns /\ nextWorker \in Workers
    BY <1>5 DEF TypeOK, EnqueueClient
  <2>2. nextWorker' \in Workers
    BY <1>5, <2>1, NextWorker DEF EnqueueClient
  <2>3. /\ sock' \in [Conns -> {"absent", "open", "closed"}]
        /\ fdOf' \in [Conns -> Fds \cup {NoFd}]
        /\ client' \in [Conns -> {"up", "eof", "reset"}]
        /\ unread' \in [Conns -> BOOLEAN]
    BY <1>5, CloseAllEffect DEF EnqueueClient, Close, TypeOK
  <2>4. queue' \in [Workers -> Seq(Conns)]
    <3>1. Append(queue[nextWorker], newest) \in Seq(Conns)
      BY <2>1 DEF TypeOK
    <3> QED BY <1>5, <3>1 DEF EnqueueClient, TypeOK
  <2> QED BY <1>5, <2>2, <2>3, <2>4 DEF EnqueueClient, TypeOK
<1>6. CASE LeaveLoop \/ StopWorker
  BY <1>6 DEF TypeOK, LeaveLoop, StopWorker
<1>7. CASE JoinWorker
  <2>1. joining' \in Workers
    BY <1>7, ServerAssumption DEF JoinWorker, TypeOK, Workers
  <2>2. /\ sock' \in [Conns -> {"absent", "open", "closed"}]
        /\ fdOf' \in [Conns -> Fds \cup {NoFd}]
        /\ client' \in [Conns -> {"up", "eof", "reset"}]
        /\ unread' \in [Conns -> BOOLEAN]
    BY <1>7, CloseAllEffect DEF JoinWorker, TypeOK
  <2>3. queue' \in [Workers -> Seq(Conns)]
    BY <1>7 DEF JoinWorker, TypeOK
  <2>4. apc' \in {"stop", "returned"} /\ apc = "join"
    BY <1>7 DEF JoinWorker
  <2> QED BY <1>7, <2>1, <2>2, <2>3, <2>4 DEF JoinWorker, TypeOK
<1>8. ASSUME NEW w \in Workers, Wait(w) PROVE TypeOK'
  <2>1. events' \in [Workers -> SUBSET EventType]
    <3>1. PICK roomy : events' = [events EXCEPT ![w] = ReadyEvents(w, roomy)]
      BY <1>8 DEF Wait
    <3>2. ReadyEvents(w, roomy) \in SUBSET EventType
      <4> SUFFICES ASSUME NEW c \in Registered(w),
                          NEW e \in [fd : {fdOf[c]},
                                     flag : Reported(c, interest[w][fdOf[c]], roomy),
                                     of : {c}]
                   PROVE  e \in EventType
        BY DEF ReadyEvents
      <4>1. /\ c \in Conns /\ fdOf[c] \in Fds
            /\ interest[w][fdOf[c]] \in {"read", "write"}
        BY DEF Registered, TypeOK
      <4>2. Reported(c, interest[w][fdOf[c]], roomy) \subseteq {"read", "write", "hangup"}
        BY <4>1, ReportedEffect
      <4> QED BY <4>1, <4>2 DEF EventType
    <3> QED BY <3>1, <3>2 DEF TypeOK
  <2>2. cleanAge' \in [Workers -> Nat] /\ expired' \in [Workers -> SUBSET Fds]
    <3>1. Overdue(w) \in SUBSET Fds
      BY DEF Overdue
    <3>2. cleanAge' = [cleanAge EXCEPT ![w] = 0] \/ cleanAge' = cleanAge
      BY <1>8 DEF Wait
    <3>3. expired' = [expired EXCEPT ![w] = Overdue(w)] \/ expired' = expired
      BY <1>8 DEF Wait
    <3>4. /\ cleanAge \in [Workers -> Nat] /\ expired \in [Workers -> SUBSET Fds]
      BY DEF TypeOK
    <3>5. cleanAge' \in [Workers -> Nat]
      BY <3>2, <3>4
    <3>6. expired' \in [Workers -> SUBSET Fds]
      BY <3>1, <3>3, <3>4
    <3> QED BY <3>5, <3>6
  <2>3. wpc' \in [Workers -> {"wait", "clean", "adopt", "events", "handle",
                              "header", "retry", "content", "exited"}]
    BY <1>8 DEF Wait, TypeOK
  <2> QED BY <1>8, <2>1, <2>2, <2>3 DEF Wait, TypeOK
<1>9. ASSUME NEW w \in Workers, CleanUp(w) PROVE TypeOK'
  <2>1. PICK fd \in expired[w] :
          /\ expired' = [expired EXCEPT ![w] = @ \ {fd}]
          /\ \/ UNCHANGED <<interest, contexts, socketVars, ctx>>
             \/ Discard(w, contexts[w][fd])
    BY <1>9 DEF CleanUp
  <2>2. contexts[w][fd] \in Conns
    BY OverdueFacts
  <2>3. /\ sock' \in [Conns -> {"absent", "open", "closed"}]
        /\ fdOf' \in [Conns -> Fds \cup {NoFd}]
        /\ client' \in [Conns -> {"up", "eof", "reset"}]
        /\ unread' \in [Conns -> BOOLEAN]
        /\ interest' \in [Workers -> [Fds -> {"none", "read", "write"}]]
        /\ contexts' \in [Workers -> [Fds -> Conns \cup {NoConn}]]
        /\ ctx' \in [Conns -> ContextType]
    <3>1. CASE UNCHANGED <<interest, contexts, socketVars, ctx>>
      BY <3>1 DEF TypeOK
    <3>2. CASE Discard(w, contexts[w][fd])
      BY <3>2, <2>2, DiscardEffect, CloseAllEffect
    <3> QED BY <2>1, <3>1, <3>2
  <2>4. expired' \in [Workers -> SUBSET Fds]
    BY <2>1 DEF TypeOK
  <2>5. wpc' \in [Workers -> {"wait", "clean", "adopt", "events", "handle",
                              "header", "retry", "content", "exited"}]
    BY <1>9 DEF CleanUp, TypeOK
  <2> QED BY <1>9, <2>3, <2>4, <2>5 DEF CleanUp, TypeOK
<1>10. ASSUME NEW w \in Workers, Adopt(w) PROVE TypeOK'
  <2> DEFINE c == Head(queue[w])
  <2>1. c \in Conns /\ Tail(queue[w]) \in Seq(Conns)
    BY <1>10 DEF Adopt, TypeOK
  <2>2. ctx' \in [Conns -> ContextType]
    BY <1>10, FreshContextType DEF Adopt, TypeOK
  <2>3. contexts' \in [Workers -> [Fds -> Conns \cup {NoConn}]]
    BY <1>10, <2>1 DEF Adopt, TypeOK
  <2>4. interest' \in [Workers -> [Fds -> {"none", "read", "write"}]]
    <3>1. interest' = [interest EXCEPT ![w][fdOf[c]] = IF @ = "none" THEN "read" ELSE @]
      BY <1>10 DEF Adopt
    <3>2. interest \in [Workers -> [Fds -> {"none", "read", "write"}]]
      BY DEF TypeOK
    <3> QED BY ONLY <3>1, <3>2
  <2>5. queue' \in [Workers -> Seq(Conns)]
    BY <1>10, <2>1 DEF Adopt, TypeOK
  <2> QED BY <1>10, <2>2, <2>3, <2>4, <2>5 DEF Adopt, TypeOK
<1>11. ASSUME NEW w \in Workers, AdoptDone(w) \/ PassDone(w) PROVE TypeOK'
  BY <1>11 DEF AdoptDone, PassDone, TypeOK
<1>12. ASSUME NEW w \in Workers, Exit(w) PROVE TypeOK'
  <2>1. /\ sock' \in [Conns -> {"absent", "open", "closed"}]
        /\ fdOf' \in [Conns -> Fds \cup {NoFd}]
        /\ client' \in [Conns -> {"up", "eof", "reset"}]
        /\ unread' \in [Conns -> BOOLEAN]
    BY <1>12, CloseAllEffect DEF Exit
  <2>2. contexts' \in [Workers -> [Fds -> Conns \cup {NoConn}]]
    BY <1>12 DEF Exit, TypeOK
  <2> QED BY <1>12, <2>1, <2>2 DEF Exit, TypeOK
<1>13. ASSUME NEW w \in Workers, NEW e \in events[w], Event(w, e) PROVE TypeOK'
  <2> DEFINE c == Found(w, e)
  <2>0. Pick(w, e) => events' \in [Workers -> SUBSET EventType]
    BY DEF Pick, TypeOK
  <2>1. CASE SkipEvent(w, e)
    BY <2>1, <2>0 DEF SkipEvent, TypeOK
  <2>2. CASE Disconnect(w, e)
    <3>1. Discard(w, c) /\ c \in Conns
      BY <2>2, FoundFacts DEF Disconnect
    <3> QED BY <2>2, <2>0, <3>1, DiscardEffect, CloseAllEffect DEF Disconnect, TypeOK
  <2>3. CASE ReadNothing(w, e)
    BY <2>3, <2>0 DEF ReadNothing, ReadEvent, TakeBytes, TypeOK
  <2>4. CASE ReadFailed(w, e)
    <3>1. Discard(w, c) /\ c \in Conns
      BY <2>4, FoundFacts DEF ReadFailed, ReadEvent
    <3> QED BY <2>4, <2>0, <3>1, DiscardEffect, CloseAllEffect
            DEF ReadFailed, ReadEvent, TypeOK
  <2>5. CASE ReadRefused(w, e)
    <3>1. SendResponse(w, c) /\ c \in Conns
      BY <2>5, FoundFacts DEF ReadRefused, ReadEvent
    <3> QED BY <2>5, <2>0, <3>1, SendResponseEffect
            DEF ReadRefused, ReadEvent, TakeBytes, TypeOK
  <2>6. CASE ReadSmall(w, e)
    <3>1. Lock(w, c) /\ c \in Conns
      BY <2>6, FoundFacts DEF ReadSmall, ReadEvent
    <3> QED BY <2>6, <2>0, <3>1, LockEffect DEF ReadSmall, ReadEvent, TakeBytes, TypeOK
  <2>7. CASE ReadLarge(w, e)
    <3>1. c \in Conns
      BY <2>7, FoundFacts DEF ReadLarge, ReadEvent
    <3>2. /\ interest' \in [Workers -> [Fds -> {"none", "read", "write"}]]
          /\ ctx' \in [Conns -> ContextType]
      BY <2>7, <3>1, LockEffect, SendResponseEffect DEF ReadLarge
    <3>3. poolQueue' \in Seq(TaskType)
      <4>1. Append(poolQueue, <<w, c>>) \in Seq(TaskType)
        BY <3>1 DEF TaskType, TypeOK
      <4> QED BY <2>7, <4>1 DEF ReadLarge, TypeOK
    <3> QED BY <2>7, <2>0, <3>2, <3>3 DEF ReadLarge, ReadEvent, TakeBytes, TypeOK
  <2>8. CASE WriteNothing(w, e)
    <3>1. Finished(w, c) /\ c \in Conns
      BY <2>8, FoundFacts DEF WriteNothing
    <3>2. CASE Discard(w, c)
      BY <2>8, <2>0, <3>1, <3>2, DiscardEffect, CloseAllEffect DEF WriteNothing, TypeOK
    <3>3. CASE Kept(w, c)
      BY <2>8, <2>0, <3>3 DEF Kept, WriteNothing, TypeOK
    <3> QED BY <3>1, <3>2, <3>3, FinishedEffect
  <2>9. CASE WriteEvent(w, e)
    <3>1. c \in Conns
      BY <2>9, FoundFacts DEF WriteEvent
    <3> QED BY <2>9, <2>0, <3>1 DEF WriteEvent, TypeOK
  <2> QED BY <1>13, <2>1, <2>2, <2>3, <2>4, <2>5, <2>6, <2>7, <2>8, <2>9 DEF Event
<1>14. ASSUME NEW w \in Workers, HandleInline(w) PROVE TypeOK'
  <2>1. cur[w] \in Conns
    BY <1>14, CurFacts DEF HandleInline, Active
  <2> QED BY <1>14, <2>1, HandledInlineEffect DEF HandleInline, TypeOK
<1>15. ASSUME NEW w \in Workers, HeaderSent(w) PROVE TypeOK'
  <2>1. cur[w] \in Conns
    BY <1>15, CurFacts DEF HeaderSent, Active
  <2>2. ctx' \in [Conns -> ContextType]
    BY <1>15, <2>1, HeaderSentEffect DEF HeaderSent
  <2> QED BY <1>15, <2>2 DEF HeaderSent, TypeOK
<1>16. ASSUME NEW w \in Workers, ResponseSent(w) PROVE TypeOK'
  <2>1. Finished(w, cur[w]) /\ cur[w] \in Conns
    BY <1>16, CurFacts DEF ResponseSent, Active
  <2>2. CASE Discard(w, cur[w])
    BY <1>16, <2>1, <2>2, DiscardEffect, CloseAllEffect DEF ResponseSent, Return, TypeOK
  <2>3. CASE Kept(w, cur[w])
    BY <1>16, <2>3 DEF Kept, ResponseSent, Return, TypeOK
  <2> QED BY <2>1, <2>2, <2>3, FinishedEffect
<1>17. ASSUME NEW w \in Workers, WriteBlocked(w) \/ HeaderFailed(w) \/ Retry(w)
       PROVE  TypeOK'
  <2>1. CASE WriteBlocked(w)
    BY <2>1 DEF WriteBlocked, Return, TypeOK
  <2>2. CASE HeaderFailed(w)
    BY <2>2 DEF HeaderFailed, TypeOK
  <2>3. CASE Retry(w)
    BY <2>3 DEF Retry, TypeOK
  <2> QED BY <1>17, <2>1, <2>2, <2>3
<1>18. ASSUME NEW w \in Workers, ContentFailed(w) PROVE TypeOK'
  <2>1. Discard(w, cur[w]) /\ cur[w] \in Conns
    BY <1>18, CurFacts DEF ContentFailed, Active
  <2> QED BY <1>18, <2>1, DiscardEffect, CloseAllEffect DEF ContentFailed, Return, TypeOK
<1>19. ASSUME NEW p \in PoolThreads, PoolTake(p) PROVE TypeOK'
  <2>1. Head(poolQueue) \in TaskType /\ Tail(poolQueue) \in Seq(TaskType)
    BY <1>19 DEF PoolTake, TypeOK
  <2> QED BY <1>19, <2>1 DEF PoolTake, TypeOK
<1>20. ASSUME NEW p \in PoolThreads, PoolHandle(p) PROVE TypeOK'
  BY <1>20, HandledEffect DEF PoolHandle, TypeOK
<1>21. ASSUME NEW p \in PoolThreads, PoolAdd(p) PROVE TypeOK'
  BY <1>21 DEF PoolAdd, TypeOK
<1>22. ASSUME NEW p \in PoolThreads, PoolUnlock(p) PROVE TypeOK'
  <2>1. job[p][2] \in Conns
    BY <1>22 DEF PoolUnlock, TypeOK, TaskType
  <2>2. ctx' \in [Conns -> ContextType]
    BY <1>22, <2>1, UnlockEffect DEF PoolUnlock
  <2> QED BY <1>22, <2>2 DEF PoolUnlock, TypeOK
<1>23. ASSUME NEW p \in PoolThreads, PoolNotify(p) PROVE TypeOK'
  BY <1>23 DEF PoolNotify, TypeOK
<1>24. CASE UNCHANGED vars
  BY <1>24 DEF TypeOK
<1> QED
  BY <1>1, <1>2, <1>3, <1>4, <1>5, <1>6, <1>7, <1>8, <1>9, <1>10, <1>11, <1>12,
     <1>13, <1>14, <1>15, <1>16, <1>17, <1>18, <1>19, <1>20, <1>21, <1>22, <1>23,
     <1>24 DEF Step, Environment, Acceptor, Worker, Pool
-----------------------------------------------------------------------------
(* Where a connection is *)

\* A connection is in the pool when a queued or a running task is about it.
LEMMA InPoolIs ==
  \A c : c \in InPool <=> \/ \E i \in DOMAIN poolQueue : poolQueue[i][2] = c
                          \/ \E p \in PoolThreads : ppc[p] # "idle" /\ job[p][2] = c
BY DEF InPool

\* Connections stay where they are, with the same workers and tasks about.
Settled ==
    /\ UNCHANGED <<sock, fdOf, contexts, queue, newest, apc, joining,
                   poolQueue, job>>
    /\ \A w \in Workers : wpc'[w] = "exited" <=> wpc[w] = "exited"
    /\ \A p \in PoolThreads : ppc'[p] = "idle" <=> ppc[p] = "idle"

\* If nothing moves, only WorkersOwn is left to show.
LEMMA SettledOwnership ==
  ASSUME IInv, Settled, WorkersOwn'
  PROVE  Ownership'
<1> USE DEF IInv, Ownership, Settled
<1>1. \A w \in Workers : Served(w)' = Served(w)
  BY DEF Served
<1>2. InPool' = InPool
  <2>1. \A c : c \in InPool' <=> c \in InPool
    BY DEF InPool
  <2> QED BY <2>1
<1>3. Descriptors' /\ Joined'
  BY DEF Descriptors, Joined
<1>4. TablesOwnDescriptors'
  BY <1>1 DEF TablesOwnDescriptors
<1>5. Arrivals'
  BY <1>1 DEF Arrivals, Unserved
<1>6. Tasks'
  BY <1>1 DEF Tasks, Placed, TypeOK, TaskType
<1>7. NoDescriptorLeak'
  BY <1>1, <1>2 DEF NoDescriptorLeak
<1> QED BY <1>3, <1>4, <1>5, <1>6, <1>7

\* What is left of the tables when c is discarded.
LEMMA DiscardServed ==
  ASSUME IInv, NEW w \in Workers, NEW c \in Conns, c \in Served(w), Discard(w, c)
  PROVE  /\ \A v \in Workers, d \in Conns : d \in Served(v)' <=> d \in Served(v) /\ d # c
         /\ \A v \in Workers, fd \in Fds :
               contexts'[v][fd] # NoConn => contexts'[v][fd] = contexts[v][fd]
         /\ \A v \in Workers : Served(v)' \subseteq Served(v)
<1>0. TypeOK
  BY DEF IInv
<1>1. fdOf[c] \in Fds /\ contexts[w][fdOf[c]] = c
  BY ServedFacts
<1>2. /\ CloseAll({c})
      /\ \A v \in Workers, fd \in Fds :
            /\ interest'[v][fd] = IF v = w /\ fd = fdOf[c] THEN "none"
                                  ELSE interest[v][fd]
            /\ contexts'[v][fd] = IF v = w /\ fd = fdOf[c] THEN NoConn
                                  ELSE contexts[v][fd]
  BY <1>0, DiscardEffect
<1>3. NoConn \notin Conns
  BY ServerAssumption
<1>4. ASSUME NEW v \in Workers, NEW d \in Conns
      PROVE  d \in Served(v)' <=> d \in Served(v) /\ d # c
  <2>1. ASSUME d \in Served(v)' PROVE d \in Served(v) /\ d # c
    <3>1. PICK fd \in Fds : contexts'[v][fd] = d
      BY <2>1 DEF Served
    <3>2. contexts[v][fd] = d /\ ~(v = w /\ fd = fdOf[c])
      BY <3>1, <1>2, <1>3
    <3>3. d \in Served(v) /\ fdOf[d] = fd
      BY <3>2, <1>3, ServedFacts
    <3> QED BY <3>2, <3>3, ServedFacts
  <2>2. ASSUME d \in Served(v), d # c PROVE d \in Served(v)'
    <3>1. PICK fd \in Fds : contexts[v][fd] = d
      BY <2>2 DEF Served
    <3>2. contexts'[v][fd] = d
      BY <2>2, <3>1, <1>1, <1>2
    <3> QED BY <3>2 DEF Served
  <2> QED BY <2>1, <2>2
<1>5. \A v \in Workers : Served(v)' \subseteq Conns
  BY DEF Served
<1> QED BY <1>2, <1>4, <1>5

\* A worker that closes a connection of its table closes it everywhere.
LEMMA DiscardOwnership ==
  ASSUME IInv, NEW w \in Workers, NEW c \in Conns, c \in Served(w), Discard(w, c),
         UNCHANGED <<queue, newest, apc, joining, poolQueue, ppc, job>>,
         \A v \in Workers \ {w} : /\ wpc'[v] = wpc[v] /\ cur'[v] = cur[v]
                                  /\ expired'[v] = expired[v],
         wpc[w] # "exited", wpc'[w] # "exited", ~Active(w)',
         expired'[w] \subseteq expired[w] \ {fdOf[c]},
         expired'[w] # {} => wpc'[w] = "clean"
  PROVE  Ownership'
<1>0. TypeOK /\ Ownership /\ NoConn \notin Conns /\ NoFd \notin Fds
  BY ServerAssumption DEF IInv
<1>1. /\ \A d \in Conns \ {c} : sock'[d] = sock[d] /\ fdOf'[d] = fdOf[d]
      /\ sock'[c] = "closed" /\ fdOf'[c] = NoFd
      /\ fdOf[c] \in Fds /\ contexts[w][fdOf[c]] = c
      /\ \A v \in Workers, fd \in Fds :
            /\ interest'[v][fd] = IF v = w /\ fd = fdOf[c] THEN "none"
                                  ELSE interest[v][fd]
            /\ contexts'[v][fd] = IF v = w /\ fd = fdOf[c] THEN NoConn
                                  ELSE contexts[v][fd]
  <2>1. /\ CloseAll({c})
        /\ \A v \in Workers, fd \in Fds :
              /\ interest'[v][fd] = IF v = w /\ fd = fdOf[c] THEN "none"
                                    ELSE interest[v][fd]
              /\ contexts'[v][fd] = IF v = w /\ fd = fdOf[c] THEN NoConn
                                    ELSE contexts[v][fd]
    BY <1>0, DiscardEffect
  <2>2. fdOf[c] \in Fds /\ contexts[w][fdOf[c]] = c
    BY ServedFacts
  <2> QED BY <1>0, <2>1, <2>2, CloseAllEffect
<1>2. /\ \A v \in Workers, d \in Conns : d \in Served(v)' <=> d \in Served(v) /\ d # c
      /\ \A v \in Workers, fd \in Fds :
            contexts'[v][fd] # NoConn => contexts'[v][fd] = contexts[v][fd]
      /\ \A v \in Workers : Served(v)' \subseteq Served(v)
  BY DiscardServed
<1>3. InPool' = InPool
  BY DEF InPool
<1>4. Descriptors'
  BY <1>0, <1>1 DEF Ownership, Descriptors
<1>5. TablesOwnDescriptors'
  <2>1. ASSUME NEW v \in Workers, NEW fd \in Fds, contexts'[v][fd] # NoConn
        PROVE  fdOf'[contexts'[v][fd]] = fd /\ sock'[contexts'[v][fd]] = "open"
    <3>1. /\ contexts'[v][fd] = contexts[v][fd] /\ contexts[v][fd] \in Conns
          /\ contexts[v][fd] \in Served(v)
          /\ fdOf[contexts[v][fd]] = fd /\ sock[contexts[v][fd]] = "open"
      BY <2>1, <1>2, ServedFacts
    <3>2. contexts[v][fd] # c
      BY <3>1, <2>1, <1>1, ServedFacts
    <3> QED BY <3>1, <3>2, <1>1
  <2>2. \A u, v \in Workers : u # v => Served(u)' \cap Served(v)' = {}
    BY <1>0, <1>2 DEF Ownership, TablesOwnDescriptors
  <2> QED BY <2>1, <2>2 DEF TablesOwnDescriptors
<1>6. Arrivals'
  <2>1. \A d \in Conns : Unserved(d) => Unserved(d)'
    BY <1>2 DEF Unserved
  <2>2. \A d \in Conns : Unserved(d) => d # c
    BY DEF Unserved
  <2>3. \A v \in Workers : \A i \in DOMAIN queue[v] : queue[v][i] \in Conns
    BY <1>0 DEF TypeOK
  <2>4. newest # NoConn => newest \in Conns
    BY <1>0 DEF TypeOK
  <2> QED BY <1>0, <1>1, <2>1, <2>2, <2>3, <2>4 DEF Ownership, Arrivals
<1>7. Tasks'
  <2>1. ASSUME NEW v \in Workers, NEW d \in Conns, Placed(v, d) PROVE Placed(v, d)'
    <3>1. wpc'[v] = "exited" <=> wpc[v] = "exited"
      OBVIOUS
    <3>2. CASE d = c
      BY <2>1, <3>2, <1>1, <1>2 DEF Placed
    <3>3. CASE d # c
      BY <2>1, <3>1, <3>3, <1>1, <1>2 DEF Placed
    <3> QED BY <3>2, <3>3
  <2>2. \A i \in DOMAIN poolQueue : poolQueue[i][1] \in Workers /\ poolQueue[i][2] \in Conns
    BY <1>0 DEF TypeOK, TaskType
  <2>3. \A p \in PoolThreads : ppc[p] # "idle" => job[p][1] \in Workers /\ job[p][2] \in Conns
    BY <1>0 DEF TypeOK, TaskType
  <2> QED BY <1>0, <2>1, <2>2, <2>3 DEF Ownership, Tasks
<1>8. WorkersOwn'
  <2> SUFFICES ASSUME NEW v \in Workers
               PROVE  /\ Active(v)' => cur'[v] \in Served(v)'
                      /\ expired'[v] # {} => wpc'[v] = "clean"
                      /\ \A fd \in expired'[v] : contexts'[v][fd] # NoConn
                      /\ \A fd \in Fds : interest'[v][fd] # "none" =>
                            contexts'[v][fd] # NoConn \/ wpc'[v] = "exited"
                      /\ wpc'[v] = "exited" => \A fd \in Fds : contexts'[v][fd] = NoConn
    BY DEF WorkersOwn
  <2>0. expired[v] \subseteq Fds
    BY <1>0 DEF TypeOK
  <2>1. CASE v = w
    BY <2>0, <2>1, <1>0, <1>1 DEF Ownership, WorkersOwn
  <2>2. CASE v # w
    <3>1. Active(v)' => Active(v) /\ cur'[v] = cur[v]
      BY <2>2 DEF Active
    <3>2. Active(v)' => cur'[v] \in Served(v)'
      BY <2>2, <3>1, <1>2, CurFacts, ServedFacts
    <3> QED BY <2>0, <2>2, <3>2, <1>0, <1>1 DEF Ownership, WorkersOwn
  <2> QED BY <2>1, <2>2
<1>9. Joined'
  <2>1. \A v \in Workers : wpc'[v] = "exited" <=> wpc[v] = "exited"
    OBVIOUS
  <2> QED BY <2>1, <1>0 DEF Ownership, Joined
<1>10. NoDescriptorLeak'
  <2>1. \A v \in Workers : wpc'[v] = "exited" <=> wpc[v] = "exited"
    OBVIOUS
  <2> SUFFICES ASSUME NEW d \in Conns, sock'[d] = "open"
               PROVE  \/ newest' = d
                      \/ d \in InPool'
                      \/ \E v \in Workers :
                            \/ d \in Served(v)'
                            \/ \E i \in DOMAIN queue'[v] : queue'[v][i] = d
                            \/ wpc'[v] = "exited" /\ apc' # "returned"
    BY DEF NoDescriptorLeak
  <2>2. d # c /\ sock[d] = "open"
    BY <1>1
  <2> QED BY <1>0, <1>2, <1>3, <2>1, <2>2 DEF Ownership, NoDescriptorLeak
<1> QED BY <1>4, <1>5, <1>6, <1>7, <1>8, <1>9, <1>10 DEF Ownership

\* An accepted connection gets a number that no open one has.
LEMMA AcceptOwnership ==
  ASSUME IInv, NEW c \in Conns, Accept(c)
  PROVE  Ownership'
<1>0. TypeOK /\ Ownership /\ NoConn \notin Conns /\ NoFd \notin Fds
  BY ServerAssumption DEF IInv
<1>1. /\ Min(FreeFds) \in Fds /\ \A d \in Conns : fdOf[d] # Min(FreeFds)
      /\ sock[c] = "absent" /\ apc = "loop" /\ newest = NoConn
  <2>1. Min(FreeFds) \in FreeFds
    BY MinFree DEF Accept
  <2>2. Min(FreeFds) \in Fds /\ \A d \in Conns : fdOf[d] # Min(FreeFds)
    BY <2>1 DEF FreeFds
  <2> QED BY <1>0, <2>2 DEF Accept, TypeOK
<1>2. /\ \A d \in Conns \ {c} : sock'[d] = sock[d] /\ fdOf'[d] = fdOf[d]
      /\ sock'[c] = "open" /\ fdOf'[c] = Min(FreeFds)
      /\ newest' = c /\ apc' = "enqueue"
      /\ UNCHANGED <<interest, joining, queue, contexts, wpc, cur, expired, poolQueue,
                     ppc, job>>
  BY <1>0 DEF Accept, TypeOK, workerVars, poolVars
<1> HIDE DEF Accept
<1>3. \A w \in Workers : Served(w)' = Served(w)
  BY <1>2 DEF Served
<1>4. InPool' = InPool
  BY <1>2 DEF InPool
<1>5. Descriptors'
  BY <1>0, <1>1, <1>2 DEF Ownership, Descriptors
<1>6. TablesOwnDescriptors'
  <2>1. \A w \in Workers, fd \in Fds : contexts[w][fd] # NoConn =>
           /\ contexts[w][fd] \in Conns \ {c} /\ fdOf[contexts[w][fd]] = fd
           /\ sock[contexts[w][fd]] = "open"
    BY <1>1, ServedFacts
  <2> QED BY <1>0, <1>2, <1>3, <2>1 DEF Ownership, TablesOwnDescriptors
<1>7. Arrivals'
  <2>1. Unserved(c)
    <3>1. \A w \in Workers : c \notin Served(w)
      BY <1>1, ServedFacts
    <3>2. \A i \in DOMAIN poolQueue : poolQueue[i][2] # c
      BY <1>0, <1>1 DEF Ownership, Tasks, Placed
    <3>3. \A p \in PoolThreads : ppc[p] # "idle" => job[p][2] # c
      BY <1>0, <1>1 DEF Ownership, Tasks, Placed
    <3> QED BY <3>1, <3>2, <3>3 DEF Unserved
  <2>2. \A d \in Conns : Unserved(d)' <=> Unserved(d)
    BY <1>2, <1>3 DEF Unserved
  <2>3. \A w \in Workers : \A i \in DOMAIN queue[w] :
           queue[w][i] \in Conns /\ queue[w][i] # c
    BY <1>0, <1>1 DEF Ownership, Arrivals, TypeOK
  <2> QED BY <1>0, <1>2, <2>1, <2>2, <2>3 DEF Ownership, Arrivals
<1>8. Tasks'
  <2>1. ASSUME NEW v \in Workers, NEW d \in Conns, Placed(v, d) PROVE Placed(v, d)'
    BY <2>1, <1>1, <1>2, <1>3 DEF Placed
  <2>2. \A i \in DOMAIN poolQueue : poolQueue[i][1] \in Workers /\ poolQueue[i][2] \in Conns
    BY <1>0 DEF TypeOK, TaskType
  <2>3. \A p \in PoolThreads : ppc[p] # "idle" => job[p][1] \in Workers /\ job[p][2] \in Conns
    BY <1>0 DEF TypeOK, TaskType
  <2> QED BY <1>0, <1>2, <2>1, <2>2, <2>3 DEF Ownership, Tasks
<1>9. WorkersOwn'
  BY <1>0, <1>2, <1>3 DEF Ownership, WorkersOwn, Active
<1>10. Joined'
  BY <1>0, <1>1, <1>2 DEF Ownership, Joined
<1>11. NoDescriptorLeak'
  BY <1>0, <1>1, <1>2, <1>3, <1>4 DEF Ownership, NoDescriptorLeak
<1> QED BY <1>5, <1>6, <1>7, <1>8, <1>9, <1>10, <1>11 DEF Ownership

\* The newest connection goes into a queue, or is closed.
LEMMA EnqueueOwnership == ASSUME IInv, EnqueueClient PROVE Ownership'
<1>0. TypeOK /\ Ownership /\ NoConn \notin Conns /\ NoFd \notin Fds
  BY ServerAssumption DEF IInv
<1>1. /\ newest \in Conns /\ nextWorker \in Workers /\ apc = "enqueue"
      /\ sock[newest] = "open" /\ Unserved(newest)
      /\ \A w \in Workers : \A i \in DOMAIN queue[w] : queue[w][i] # newest
      /\ \A w \in Workers : queue[w] \in Seq(Conns)
  BY <1>0 DEF EnqueueClient, TypeOK, Ownership, Arrivals
<1>2. /\ newest' = NoConn /\ apc' = "loop"
      /\ UNCHANGED <<interest, joining, contexts, wpc, cur, expired, poolQueue, ppc, job>>
  BY DEF EnqueueClient, poolVars
<1>3. /\ \A w \in Workers : Served(w)' = Served(w)
      /\ InPool' = InPool
      /\ \A d \in Conns : Unserved(d)' <=> Unserved(d)
  BY <1>2 DEF Served, InPool, Unserved
<1>4. /\ \A w \in Workers, fd \in Fds : contexts[w][fd] # NoConn =>
            /\ contexts[w][fd] \in Conns \ {newest} /\ fdOf[contexts[w][fd]] = fd
            /\ sock[contexts[w][fd]] = "open"
      /\ \A w \in Workers : newest \notin Served(w)
  BY <1>1, ServedFacts DEF Unserved
<1>5. /\ \A i \in DOMAIN poolQueue : poolQueue[i][1] \in Workers /\ poolQueue[i][2] \in Conns
      /\ \A p \in PoolThreads : ppc[p] # "idle" => job[p][1] \in Workers /\ job[p][2] \in Conns
  BY <1>0 DEF TypeOK, TaskType
<1>6. WorkersOwn'
  BY <1>0, <1>2, <1>3 DEF Ownership, WorkersOwn, Active
<1>7. CASE UNCHANGED socketVars /\ queue' = [queue EXCEPT ![nextWorker] = Append(@, newest)]
  <2>1. /\ \A w \in Workers \ {nextWorker} : queue'[w] = queue[w]
        /\ DOMAIN queue'[nextWorker] = 1..(Len(queue[nextWorker]) + 1)
        /\ DOMAIN queue[nextWorker] = 1..Len(queue[nextWorker])
        /\ Len(queue[nextWorker]) \in Nat
        /\ \A i \in 1..Len(queue[nextWorker]) : queue'[nextWorker][i] = queue[nextWorker][i]
        /\ queue'[nextWorker][Len(queue[nextWorker]) + 1] = newest
    <3>1. DOMAIN queue = Workers
      BY <1>0 DEF TypeOK
    <3>2. queue'[nextWorker] = Append(queue[nextWorker], newest)
      BY <1>1, <1>7, <3>1
    <3>3. queue[nextWorker] \in Seq(Conns) /\ newest \in Conns
      BY <1>1
    <3> QED BY <1>7, <3>1, <3>2, <3>3
  <2> DEFINE n == Len(queue[nextWorker])
  <2>2. \A w \in Workers : \A i \in DOMAIN queue'[w] :
           \/ i \in DOMAIN queue[w] /\ queue'[w][i] = queue[w][i]
           \/ w = nextWorker /\ i = n + 1 /\ queue'[w][i] = newest
    BY <2>1
  <2>3. \A w \in Workers : \A i \in DOMAIN queue[w] :
           i \in DOMAIN queue'[w] /\ queue'[w][i] = queue[w][i]
    BY <2>1
  <2>4. n + 1 \in DOMAIN queue'[nextWorker] /\ queue'[nextWorker][n + 1] = newest
    BY <2>1
  <2> HIDE DEF n
  <2>5. sock' = sock /\ fdOf' = fdOf
    BY <1>7 DEF socketVars
  <2>6. Descriptors' /\ TablesOwnDescriptors' /\ Tasks'
    <3>1. Descriptors' /\ TablesOwnDescriptors'
      BY <1>0, <1>2, <1>3, <2>5 DEF Ownership, Descriptors, TablesOwnDescriptors
    <3>2. ASSUME NEW v \in Workers, NEW d \in Conns, Placed(v, d) PROVE Placed(v, d)'
      BY <3>2, <1>2, <1>3, <2>5 DEF Placed
    <3>3. Tasks'
      BY <1>0, <1>2, <1>5, <3>2 DEF Ownership, Tasks
    <3> QED BY <3>1, <3>3
  <2>7. Arrivals'
    <3>1. \A w \in Workers : \A i \in DOMAIN queue[w] :
             /\ queue[w][i] \in Conns /\ queue[w][i] # newest
             /\ sock[queue[w][i]] = "open" /\ Unserved(queue[w][i])
      BY <1>0, <1>1 DEF Ownership, Arrivals
    <3>2. ASSUME NEW w \in Workers, NEW i \in DOMAIN queue'[w]
          PROVE  \E d \in Conns : queue'[w][i] = d /\ sock'[d] = "open" /\ Unserved(d)'
      <4>1. CASE i \in DOMAIN queue[w] /\ queue'[w][i] = queue[w][i]
        <5>1. PICK d \in Conns : queue[w][i] = d
          BY <3>1, <4>1
        <5>2. sock[d] = "open" /\ Unserved(d)
          BY <3>1, <4>1, <5>1
        <5> QED BY <4>1, <5>1, <5>2, <1>3, <2>5
      <4>2. CASE queue'[w][i] = newest
        <5>1. PICK d \in Conns : newest = d
          BY <1>1
        <5>2. sock[d] = "open" /\ Unserved(d)
          BY <1>1, <5>1
        <5> QED BY <4>2, <5>1, <5>2, <1>3, <2>5
      <4> QED BY <2>2, <4>1, <4>2
    <3>3. ASSUME NEW v \in Workers, NEW w \in Workers, NEW i \in DOMAIN queue'[v],
                 NEW j \in DOMAIN queue'[w], queue'[v][i] = queue'[w][j]
          PROVE  v = w /\ i = j
      <4>1. CASE i \in DOMAIN queue[v] /\ queue'[v][i] = queue[v][i]
        <5>1. queue'[w][j] # newest
          BY <3>1, <3>3, <4>1
        <5>2. j \in DOMAIN queue[w] /\ queue'[w][j] = queue[w][j]
          BY <2>2, <5>1
        <5>3. queue[v][i] = queue[w][j]
          BY <3>3, <4>1, <5>2
        <5> QED BY <1>0, <4>1, <5>2, <5>3 DEF Ownership, Arrivals
      <4>2. CASE v = nextWorker /\ i = n + 1 /\ queue'[v][i] = newest
        <5>1. ~(j \in DOMAIN queue[w] /\ queue'[w][j] = queue[w][j])
          BY <3>1, <3>3, <4>2
        <5> QED BY <2>2, <4>2, <5>1
      <4> QED BY <2>2, <4>1, <4>2
    <3> QED BY <1>2, <3>2, <3>3 DEF Arrivals
  <2>8. Joined'
    <3>1. joining = 0 /\ 0 \in Nat /\ \A w \in Workers : ~(w < 0)
      BY <1>0, <1>1 DEF Ownership, Joined, Workers
    <3> QED BY <1>2, <3>1 DEF Joined
  <2>9. NoDescriptorLeak'
    <3> SUFFICES ASSUME NEW d \in Conns, sock[d] = "open"
                 PROVE  \/ d \in InPool
                        \/ \E w \in Workers :
                              \/ d \in Served(w)
                              \/ \E i \in DOMAIN queue'[w] : queue'[w][i] = d
                              \/ wpc[w] = "exited"
      BY <1>2, <1>3, <2>5 DEF NoDescriptorLeak
    <3>1. CASE d = newest
      BY <1>1, <2>4, <3>1
    <3>2. CASE d # newest
      BY <1>0, <2>3, <3>2 DEF Ownership, NoDescriptorLeak
    <3> QED BY <3>1, <3>2
  <2> QED BY <1>6, <2>6, <2>7, <2>8, <2>9 DEF Ownership
<1>8. CASE Close(newest) /\ queue' = queue
  <2>1. /\ \A d \in Conns \ {newest} : sock'[d] = sock[d] /\ fdOf'[d] = fdOf[d]
        /\ sock'[newest] = "closed" /\ fdOf'[newest] = NoFd
    BY <1>0, <1>1, <1>8, CloseAllEffect DEF Close
  <2>2. Descriptors'
    BY <1>0, <2>1 DEF Ownership, Descriptors
  <2>3. TablesOwnDescriptors'
    BY <1>0, <1>2, <1>3, <1>4, <2>1 DEF Ownership, TablesOwnDescriptors
  <2>4. Arrivals'
    <3>1. \A w \in Workers : \A i \in DOMAIN queue[w] :
             queue[w][i] \in Conns /\ queue[w][i] # newest
      BY <1>1
    <3> QED BY <1>0, <1>2, <1>3, <1>8, <2>1, <3>1 DEF Ownership, Arrivals
  <2>5. Tasks'
    <3>1. ASSUME NEW v \in Workers, NEW d \in Conns, Placed(v, d) PROVE Placed(v, d)'
      BY <3>1, <1>1, <1>2, <1>3, <2>1 DEF Placed
    <3> QED BY <1>0, <1>2, <1>5, <3>1 DEF Ownership, Tasks
  <2>6. Joined'
    BY <1>0, <1>1, <1>2, <1>8 DEF Ownership, Joined
  <2>7. NoDescriptorLeak'
    BY <1>0, <1>1, <1>2, <1>3, <1>8, <2>1 DEF Ownership, NoDescriptorLeak
  <2> QED BY <1>6, <2>2, <2>3, <2>4, <2>5, <2>6, <2>7 DEF Ownership
<1> QED BY <1>7, <1>8 DEF EnqueueClient

\* A joined worker's queue is emptied; after the last one only the pool's
\* sockets stay open.
LEMMA JoinOwnership == ASSUME IInv, JoinWorker PROVE Ownership'
<1>0. TypeOK /\ Ownership /\ NoConn \notin Conns /\ NoFd \notin Fds
  BY ServerAssumption DEF IInv
<1>1. /\ apc = "join" /\ newest = NoConn /\ joining \in Workers
      /\ wpc[joining] = "exited"
      /\ UNCHANGED <<interest, newest, contexts, wpc, cur, expired, poolQueue, ppc, job>>
  BY <1>0 DEF JoinWorker, TypeOK, poolVars
<1>2. /\ \A w \in Workers : Served(w)' = Served(w)
      /\ InPool' = InPool
      /\ \A d \in Conns : Unserved(d)' <=> Unserved(d)
  BY <1>1 DEF Served, InPool, Unserved
<1>3. queue'[joining] = <<>> /\ \A w \in Workers \ {joining} : queue'[w] = queue[w]
  BY <1>0, <1>1 DEF JoinWorker, TypeOK
<1>4. \A w \in Workers : \A i \in DOMAIN queue'[w] :
         w # joining /\ i \in DOMAIN queue[w] /\ queue'[w][i] = queue[w][i]
  BY <1>3
<1>5. /\ \A i \in DOMAIN poolQueue : poolQueue[i][1] \in Workers /\ poolQueue[i][2] \in Conns
      /\ \A p \in PoolThreads : ppc[p] # "idle" => job[p][1] \in Workers /\ job[p][2] \in Conns
  BY <1>0 DEF TypeOK, TaskType
<1>6. WorkersOwn'
  BY <1>0, <1>1, <1>2 DEF Ownership, WorkersOwn, Active
<1>7. CASE /\ joining < NumWorkers - 1
           /\ joining' = joining + 1 /\ apc' = "stop"
           /\ UNCHANGED socketVars
  <2>1. sock' = sock /\ fdOf' = fdOf
    BY <1>7 DEF socketVars
  <2>2. Descriptors' /\ TablesOwnDescriptors'
    BY <1>0, <1>1, <1>2, <2>1 DEF Ownership, Descriptors, TablesOwnDescriptors
  <2>3. Arrivals'
    <3>1. \A w \in Workers : \A i \in DOMAIN queue[w] : queue[w][i] \in Conns
      BY <1>0 DEF TypeOK
    <3>2. ASSUME NEW w \in Workers, NEW i \in DOMAIN queue'[w]
          PROVE  \E d \in Conns : queue'[w][i] = d /\ sock'[d] = "open" /\ Unserved(d)'
      <4>1. PICK d \in Conns : queue[w][i] = d
        BY <1>4, <3>1
      <4>2. sock[d] = "open" /\ Unserved(d)
        BY <1>0, <1>4, <4>1 DEF Ownership, Arrivals
      <4> QED BY <1>2, <1>4, <2>1, <4>1, <4>2
    <3> QED BY <1>0, <1>1, <1>4, <3>2 DEF Ownership, Arrivals
  <2>4. Tasks'
    <3>1. ASSUME NEW v \in Workers, NEW d \in Conns, Placed(v, d) PROVE Placed(v, d)'
      BY <3>1, <1>1, <1>2, <2>1 DEF Placed
    <3> QED BY <1>0, <1>1, <1>5, <3>1 DEF Ownership, Tasks
  <2>5. Joined'
    <3>1. \A w \in Workers : w < joining' => w < joining \/ w = joining
      BY <1>1, <1>7 DEF Workers
    <3> QED BY <1>0, <1>1, <1>3, <1>7, <3>1 DEF Ownership, Joined
  <2>6. NoDescriptorLeak'
    <3>1. \A w \in Workers : \A i \in DOMAIN queue[w] :
             w = joining \/ (i \in DOMAIN queue'[w] /\ queue'[w][i] = queue[w][i])
      BY <1>3
    <3> QED BY <1>0, <1>1, <1>2, <1>7, <2>1, <3>1 DEF Ownership, NoDescriptorLeak
  <2> QED BY <1>6, <2>2, <2>3, <2>4, <2>5, <2>6 DEF Ownership
<1>8. CASE /\ joining = NumWorkers - 1
           /\ apc' = "returned"
           /\ CloseAll({c \in Conns : sock[c] = "open"} \ InPool)
           /\ UNCHANGED joining
  <2>1. \A w \in Workers : wpc[w] = "exited" /\ queue'[w] = <<>>
    <3>1. \A w \in Workers : w < joining \/ w = joining
      BY <1>8, ServerAssumption DEF Workers
    <3> QED BY <1>0, <1>1, <1>3, <3>1 DEF Ownership, Joined
  <2>2. \A w \in Workers, fd \in Fds : contexts[w][fd] = NoConn
    BY <1>0, <2>1 DEF Ownership, WorkersOwn
  <2>3. \A w \in Workers, d \in Conns : d \notin Served(w)
    BY <1>0, <2>2 DEF Served
  <2>4. \A d \in Conns :
           IF sock[d] = "open" /\ d \notin InPool
           THEN sock'[d] = "closed" /\ fdOf'[d] = NoFd
           ELSE sock'[d] = sock[d] /\ fdOf'[d] = fdOf[d]
    BY <1>0, <1>8, CloseAllEffect
  <2>5. Descriptors'
    BY <1>0, <2>4 DEF Ownership, Descriptors
  <2>6. TablesOwnDescriptors'
    BY <1>0, <1>1, <1>2, <2>2 DEF Ownership, TablesOwnDescriptors
  <2>7. Arrivals'
    BY <1>1, <2>1 DEF Arrivals
  <2>8. Tasks'
    <3>1. ASSUME NEW v \in Workers, NEW d \in Conns, Placed(v, d) PROVE Placed(v, d)'
      BY <3>1, <1>1, <1>2, <2>1, <2>3, <2>4 DEF Placed
    <3> QED BY <1>0, <1>1, <1>5, <3>1 DEF Ownership, Tasks
  <2>9. Joined'
    BY <1>1, <1>8, <2>1 DEF Joined
  <2>10. NoDescriptorLeak'
    BY <1>2, <2>4 DEF NoDescriptorLeak
  <2> QED BY <1>6, <2>5, <2>6, <2>7, <2>8, <2>9, <2>10 DEF Ownership
<1> QED BY <1>7, <1>8 DEF JoinWorker

\* The head of the queue moves to an empty place of the table.
LEMMA AdoptEffect ==
  ASSUME IInv, NEW w \in Workers, Adopt(w), NEW c, c = Head(queue[w])
  PROVE  /\ c \in Conns /\ fdOf[c] \in Fds /\ sock[c] = "open" /\ Unserved(c)
         /\ contexts[w][fdOf[c]] = NoConn
         /\ \A v \in Workers, fd \in Fds :
               /\ contexts'[v][fd] = IF v = w /\ fd = fdOf[c] THEN c
                                     ELSE contexts[v][fd]
               /\ interest'[v][fd] = IF v = w /\ fd = fdOf[c] THEN "read"
                                     ELSE interest[v][fd]
         /\ \A d \in Conns : ctx'[d] = IF d = c THEN FreshContext ELSE ctx[d]
         /\ \A v \in Workers, d \in Conns :
               d \in Served(v)' <=> d \in Served(v) \/ (v = w /\ d = c)
<1>0. TypeOK /\ Ownership /\ NoConn \notin Conns /\ NoFd \notin Fds
  BY ServerAssumption DEF IInv
<1>1. queue[w] \in Seq(Conns) /\ queue[w] # <<>> /\ wpc[w] = "adopt"
  BY <1>0 DEF Adopt, TypeOK
<1>2. c \in Conns /\ 1 \in DOMAIN queue[w] /\ c = queue[w][1]
  BY <1>1, TailFacts
<1>3. sock[c] = "open" /\ Unserved(c)
  BY <1>0, <1>2 DEF Ownership, Arrivals
<1>4. fdOf[c] \in Fds
  BY <1>0, <1>2, <1>3 DEF Ownership, Descriptors, TypeOK
<1>5. contexts[w][fdOf[c]] = NoConn
  <2> SUFFICES ASSUME contexts[w][fdOf[c]] # NoConn PROVE FALSE
    OBVIOUS
  <2> DEFINE d == contexts[w][fdOf[c]]
  <2>1. d \in Conns /\ d \in Served(w) /\ fdOf[d] = fdOf[c]
    BY <1>4, ServedFacts
  <2>2. d = c
    BY <1>0, <1>2, <1>4, <2>1 DEF Ownership, Descriptors
  <2> QED BY <1>3, <2>1, <2>2 DEF Unserved
<1>6. interest[w][fdOf[c]] = "none"
  BY <1>0, <1>1, <1>4, <1>5 DEF Ownership, WorkersOwn
<1>7. /\ \A v \in Workers, fd \in Fds :
            contexts'[v][fd] = IF v = w /\ fd = fdOf[c] THEN c ELSE contexts[v][fd]
      /\ \A d \in Conns : ctx'[d] = IF d = c THEN FreshContext ELSE ctx[d]
  BY <1>0, <1>2, <1>4 DEF Adopt, TypeOK
<1>8. \A v \in Workers, fd \in Fds :
         interest'[v][fd] = IF v = w /\ fd = fdOf[c] THEN "read" ELSE interest[v][fd]
  <2>1. interest \in [Workers -> [Fds -> {"none", "read", "write"}]]
    BY <1>0 DEF TypeOK
  <2>2. interest' = [interest EXCEPT ![w][fdOf[c]] =
                        IF interest[w][fdOf[c]] = "none" THEN "read"
                        ELSE interest[w][fdOf[c]]]
    BY DEF Adopt
  <2> QED BY <1>4, <1>6, <2>1, <2>2
<1>9. ASSUME NEW v \in Workers, NEW d \in Conns
      PROVE  d \in Served(v)' <=> d \in Served(v) \/ (v = w /\ d = c)
  <2>1. ASSUME d \in Served(v)' PROVE d \in Served(v) \/ (v = w /\ d = c)
    <3>1. PICK fd \in Fds : contexts'[v][fd] = d
      BY <2>1 DEF Served
    <3> QED BY <3>1, <1>7 DEF Served
  <2>2. ASSUME d \in Served(v) PROVE d \in Served(v)'
    <3>1. PICK fd \in Fds : contexts[v][fd] = d
      BY <2>2 DEF Served
    <3>2. contexts'[v][fd] = d
      BY <1>0, <1>5, <1>7, <3>1
    <3> QED BY <3>2 DEF Served
  <2>3. c \in Served(w)'
    BY <1>2, <1>4, <1>7 DEF Served
  <2> QED BY <2>1, <2>2, <2>3
<1> QED BY <1>2, <1>3, <1>4, <1>5, <1>7, <1>8, <1>9

\* A connection goes from the queue into the table, whose slot is free.
LEMMA AdoptOwnership == ASSUME IInv, NEW w \in Workers, Adopt(w) PROVE Ownership'
<1>0. TypeOK /\ Ownership /\ NoConn \notin Conns /\ NoFd \notin Fds
  BY ServerAssumption DEF IInv
<1> DEFINE c == Head(queue[w])
<1>1. /\ c \in Conns /\ fdOf[c] \in Fds /\ sock[c] = "open" /\ Unserved(c)
      /\ contexts[w][fdOf[c]] = NoConn
      /\ \A v \in Workers, fd \in Fds :
            /\ contexts'[v][fd] = IF v = w /\ fd = fdOf[c] THEN c ELSE contexts[v][fd]
            /\ interest'[v][fd] = IF v = w /\ fd = fdOf[c] THEN "read" ELSE interest[v][fd]
      /\ \A v \in Workers, d \in Conns :
            d \in Served(v)' <=> d \in Served(v) \/ (v = w /\ d = c)
  BY AdoptEffect
<1>2. /\ 1 \in DOMAIN queue[w] /\ c = queue[w][1]
      /\ \A i \in DOMAIN queue'[w] : /\ i + 1 \in DOMAIN queue[w] /\ i + 1 # 1
                                     /\ queue'[w][i] = queue[w][i + 1]
      /\ \A i \in DOMAIN queue[w] : i = 1 \/ \E j \in DOMAIN queue'[w] : j + 1 = i
      /\ \A i, j \in DOMAIN queue'[w] : i + 1 = j + 1 => i = j
      /\ \A v \in Workers \ {w} : queue'[v] = queue[v]
  <2>1. queue \in [Workers -> Seq(Conns)] /\ queue' = [queue EXCEPT ![w] = Tail(@)]
    BY <1>0 DEF Adopt, TypeOK
  <2>2. queue'[w] = Tail(queue[w]) /\ queue[w] \in Seq(Conns) /\ queue[w] # <<>>
    BY <2>1 DEF Adopt
  <2> QED BY <2>1, <2>2, TailFacts
<1>3. /\ UNCHANGED <<sock, fdOf, newest, apc, joining, wpc, cur, expired,
                     poolQueue, ppc, job>>
      /\ wpc[w] = "adopt"
  BY DEF Adopt, socketVars, acceptVars, poolVars
<1> HIDE DEF c
<1>4. InPool' = InPool
  BY <1>3 DEF InPool
<1>5. \A v \in Workers : \A i \in DOMAIN queue'[v] :
         \E j \in DOMAIN queue[v] : /\ queue'[v][i] = queue[v][j] /\ queue[v][j] # c
                                    /\ j = IF v = w THEN i + 1 ELSE i
  <2> SUFFICES ASSUME NEW v \in Workers, NEW i \in DOMAIN queue'[v]
               PROVE  \E j \in DOMAIN queue[v] :
                         /\ queue'[v][i] = queue[v][j] /\ queue[v][j] # c
                         /\ j = IF v = w THEN i + 1 ELSE i
    OBVIOUS
  <2>0. \A u, v1 \in Workers : \A k \in DOMAIN queue[u], l \in DOMAIN queue[v1] :
           queue[u][k] = queue[v1][l] => u = v1 /\ k = l
    BY <1>0 DEF Ownership, Arrivals
  <2>1. CASE v = w
    <3>1. i + 1 \in DOMAIN queue[w] /\ i + 1 # 1 /\ queue'[w][i] = queue[w][i + 1]
      BY <1>2, <2>1
    <3>2. queue[w][i + 1] # c
      BY <1>2, <2>0, <3>1
    <3> QED BY <2>1, <3>1, <3>2
  <2>2. CASE v # w
    <3>1. i \in DOMAIN queue[v] /\ queue'[v][i] = queue[v][i]
      BY <1>2, <2>2
    <3>2. queue[v][i] # c
      BY <1>2, <2>0, <2>2, <3>1
    <3> QED BY <2>2, <3>1, <3>2
  <2> QED BY <2>1, <2>2
<1>6. Descriptors' /\ Joined'
  <2>1. Descriptors'
    BY <1>0, <1>3 DEF Ownership, Descriptors
  <2>2. ASSUME NEW v \in Workers, v < joining \/ apc = "returned"
        PROVE  wpc[v] = "exited" /\ queue'[v] = <<>>
    BY <1>0, <1>2, <1>3, <2>2 DEF Ownership, Joined
  <2> QED BY <1>0, <1>3, <2>1, <2>2 DEF Ownership, Joined
<1>7. TablesOwnDescriptors'
  <2>1. \A v \in Workers, fd \in Fds : contexts'[v][fd] # NoConn =>
           fdOf[contexts'[v][fd]] = fd /\ sock[contexts'[v][fd]] = "open"
    BY <1>0, <1>1 DEF Ownership, TablesOwnDescriptors
  <2>2. \A u, v \in Workers : u # v => Served(u)' \cap Served(v)' = {}
    <3>1. \A u, v \in Workers, d \in Conns :
             d \in Served(u)' /\ d \in Served(v)' => u = v
      BY <1>1, ServedFacts DEF Unserved
    <3>2. \A v \in Workers : Served(v)' \subseteq Conns
      BY DEF Served
    <3> QED BY <3>1, <3>2
  <2> QED BY <1>3, <2>1, <2>2 DEF TablesOwnDescriptors
<1>8. Arrivals'
  <2>1. \A d \in Conns : Unserved(d) /\ d # c => Unserved(d)'
    BY <1>1, <1>3 DEF Unserved
  <2>2. \A v \in Workers : \A i \in DOMAIN queue[v] : queue[v][i] \in Conns
    BY <1>0 DEF TypeOK
  <2>3. ASSUME NEW v \in Workers, NEW i \in DOMAIN queue'[v]
        PROVE  \E d \in Conns : queue'[v][i] = d /\ sock'[d] = "open" /\ Unserved(d)'
    <3>1. PICK j \in DOMAIN queue[v] : queue'[v][i] = queue[v][j] /\ queue[v][j] # c
      BY <1>5
    <3>2. PICK d \in Conns : queue[v][j] = d
      BY <2>2
    <3>3. sock[d] = "open" /\ Unserved(d)
      BY <1>0, <3>2 DEF Ownership, Arrivals
    <3> QED BY <1>3, <2>1, <3>1, <3>2, <3>3
  <2>4. ASSUME newest # NoConn
        PROVE  /\ \E d \in Conns : newest = d /\ sock'[d] = "open" /\ Unserved(d)'
               /\ \A v \in Workers : \A i \in DOMAIN queue'[v] : queue'[v][i] # newest
    <3>1. PICK d \in Conns : newest = d
      BY <1>0, <2>4 DEF TypeOK
    <3>2. /\ sock[d] = "open" /\ Unserved(d)
          /\ \A v \in Workers : \A i \in DOMAIN queue[v] : queue[v][i] # d
      BY <1>0, <2>4, <3>1 DEF Ownership, Arrivals
    <3>3. d # c
      BY <1>2, <3>2
    <3> QED BY <1>3, <1>5, <2>1, <3>1, <3>2, <3>3
  <2>5. ASSUME NEW u \in Workers, NEW v \in Workers, NEW i \in DOMAIN queue'[u],
               NEW j \in DOMAIN queue'[v], queue'[u][i] = queue'[v][j]
        PROVE  u = v /\ i = j
    <3>1. PICK k \in DOMAIN queue[u] : queue'[u][i] = queue[u][k]
                                       /\ k = IF u = w THEN i + 1 ELSE i
      BY <1>5
    <3>2. PICK l \in DOMAIN queue[v] : queue'[v][j] = queue[v][l]
                                       /\ l = IF v = w THEN j + 1 ELSE j
      BY <1>5
    <3>3. queue[u][k] = queue[v][l]
      BY <2>5, <3>1, <3>2
    <3>4. u = v /\ k = l
      BY <1>0, <3>3 DEF Ownership, Arrivals
    <3>5. i + 1 = j + 1 => i = j
      BY <1>2, <2>5, <3>1, <3>2, <3>4
    <3> QED BY <3>1, <3>2, <3>4, <3>5
  <2>6. newest' = newest
    BY <1>3
  <2> QED BY <2>3, <2>4, <2>5, <2>6 DEF Arrivals
<1>9. Tasks'
  <2>1. ASSUME NEW v \in Workers, NEW d \in Conns, d # c, Placed(v, d) PROVE Placed(v, d)'
    BY <2>1, <1>1, <1>3 DEF Placed
  <2>2. \A i \in DOMAIN poolQueue : poolQueue[i][1] \in Workers
                                    /\ poolQueue[i][2] \in Conns \ {c}
    BY <1>0, <1>1 DEF TypeOK, TaskType, Unserved
  <2>3. \A p \in PoolThreads : ppc[p] # "idle" => job[p][1] \in Workers
                                                 /\ job[p][2] \in Conns \ {c}
    BY <1>0, <1>1 DEF TypeOK, TaskType, Unserved
  <2> QED BY <1>0, <1>3, <2>1, <2>2, <2>3 DEF Ownership, Tasks
<1>10. WorkersOwn'
  <2> SUFFICES ASSUME NEW v \in Workers
               PROVE  /\ Active(v) => cur[v] \in Served(v)'
                      /\ expired[v] # {} => wpc[v] = "clean"
                      /\ \A fd \in expired[v] : contexts'[v][fd] # NoConn
                      /\ \A fd \in Fds : interest'[v][fd] # "none" =>
                            contexts'[v][fd] # NoConn \/ wpc[v] = "exited"
                      /\ wpc[v] = "exited" => \A fd \in Fds : contexts'[v][fd] = NoConn
    BY <1>3 DEF WorkersOwn, Active
  <2>1. Active(v) => cur[v] \in Conns /\ cur[v] \in Served(v)
    BY CurFacts
  <2>2. expired[v] \subseteq Fds
    BY <1>0 DEF TypeOK
  <2> QED BY <1>0, <1>1, <1>3, <2>1, <2>2 DEF Ownership, WorkersOwn
<1>11. NoDescriptorLeak'
  <2> SUFFICES ASSUME NEW d \in Conns, sock[d] = "open"
               PROVE  \/ newest = d
                      \/ d \in InPool
                      \/ \E v \in Workers :
                            \/ d \in Served(v)'
                            \/ \E i \in DOMAIN queue'[v] : queue'[v][i] = d
                            \/ wpc[v] = "exited" /\ apc # "returned"
    BY <1>3, <1>4 DEF NoDescriptorLeak
  <2>1. CASE d = c
    BY <1>1, <2>1
  <2>2. ASSUME NEW v \in Workers, NEW i \in DOMAIN queue[v], queue[v][i] = d, d # c
        PROVE  \E j \in DOMAIN queue'[v] : queue'[v][j] = d
    <3>1. CASE v = w
      BY <1>2, <2>2, <3>1
    <3>2. CASE v # w
      BY <1>2, <2>2, <3>2
    <3> QED BY <3>1, <3>2
  <2> QED BY <1>0, <1>1, <2>1, <2>2 DEF Ownership, NoDescriptorLeak
<1> QED BY <1>6, <1>7, <1>8, <1>9, <1>10, <1>11 DEF Ownership

\* A worker that ends leaves its table, and whatever socket a slot still holds.
LEMMA ExitOwnership == ASSUME IInv, NEW w \in Workers, Exit(w) PROVE Ownership'
<1>0. TypeOK /\ Ownership /\ NoConn \notin Conns /\ NoFd \notin Fds
  BY ServerAssumption DEF IInv
<1>1. PICK cs \in SUBSET (Served(w) \ InPool) : CloseAll(cs)
  BY DEF Exit
<1>2. /\ \A d \in Conns : IF d \in cs THEN sock'[d] = "closed" /\ fdOf'[d] = NoFd
                          ELSE sock'[d] = sock[d] /\ fdOf'[d] = fdOf[d]
  BY <1>0, <1>1, CloseAllEffect
<1>3. /\ wpc[w] = "wait" /\ wpc'[w] = "exited"
      /\ \A v \in Workers \ {w} : wpc'[v] = wpc[v]
      /\ \A fd \in Fds : contexts'[w][fd] = NoConn
      /\ \A v \in Workers \ {w} : contexts'[v] = contexts[v]
      /\ UNCHANGED <<interest, newest, apc, joining, queue, cur, expired,
                     poolQueue, ppc, job>>
  BY <1>0 DEF Exit, TypeOK, acceptVars, poolVars
<1>4. /\ \A d \in Conns : d \notin Served(w)'
      /\ \A v \in Workers \ {w} : Served(v)' = Served(v)
      /\ InPool' = InPool
  BY <1>0, <1>3 DEF Served, InPool
<1>5. apc # "returned" /\ ~(w < joining) /\ expired[w] = {}
  BY <1>0, <1>3 DEF Ownership, Joined, WorkersOwn
<1>6. /\ \A v \in Workers \ {w} : \A d \in Conns : d \in Served(v) => d \notin cs
      /\ \A d \in Conns : Unserved(d) => d \notin cs
      /\ \A i \in DOMAIN poolQueue : poolQueue[i][2] \notin cs
      /\ \A p \in PoolThreads : ppc[p] # "idle" => job[p][2] \notin cs
  <2>1. \A d \in cs : d \in Conns /\ d \in Served(w) /\ d \notin InPool
    BY DEF Served
  <2> QED BY <2>1, ServedFacts, InPoolIs DEF Unserved
<1>7. Descriptors'
  BY <1>0, <1>2 DEF Ownership, Descriptors
<1>8. TablesOwnDescriptors'
  <2>1. ASSUME NEW v \in Workers, NEW fd \in Fds, contexts'[v][fd] # NoConn
        PROVE  fdOf'[contexts'[v][fd]] = fd /\ sock'[contexts'[v][fd]] = "open"
    <3>1. v # w /\ contexts'[v][fd] = contexts[v][fd]
      BY <1>3, <2>1
    <3>2. /\ contexts[v][fd] \in Conns /\ contexts[v][fd] \in Served(v)
          /\ fdOf[contexts[v][fd]] = fd /\ sock[contexts[v][fd]] = "open"
      BY <2>1, <3>1, ServedFacts
    <3> QED BY <1>2, <1>6, <3>1, <3>2
  <2>2. \A u, v \in Workers : u # v => Served(u)' \cap Served(v)' = {}
    <3>1. \A v \in Workers : Served(v)' \subseteq Conns
      BY DEF Served
    <3> QED BY <1>0, <1>4, <3>1 DEF Ownership, TablesOwnDescriptors
  <2> QED BY <2>1, <2>2 DEF TablesOwnDescriptors
<1>9. Arrivals'
  <2>1. \A d \in Conns : Unserved(d) => Unserved(d)'
    BY <1>3, <1>4 DEF Unserved
  <2>2. ASSUME NEW v \in Workers, NEW i \in DOMAIN queue[v]
        PROVE  \E d \in Conns : queue[v][i] = d /\ sock'[d] = "open" /\ Unserved(d)'
    <3>1. PICK d \in Conns : queue[v][i] = d
      BY <1>0 DEF TypeOK
    <3>2. sock[d] = "open" /\ Unserved(d)
      BY <1>0, <3>1 DEF Ownership, Arrivals
    <3> QED BY <1>2, <1>6, <2>1, <3>1, <3>2
  <2>3. ASSUME newest # NoConn
        PROVE  \E d \in Conns : newest = d /\ sock'[d] = "open" /\ Unserved(d)'
    <3>1. PICK d \in Conns : newest = d
      BY <1>0, <2>3 DEF TypeOK
    <3>2. sock[d] = "open" /\ Unserved(d)
      BY <1>0, <2>3, <3>1 DEF Ownership, Arrivals
    <3> QED BY <1>2, <1>6, <2>1, <3>1, <3>2
  <2> QED BY <1>0, <1>3, <2>2, <2>3 DEF Ownership, Arrivals
<1>10. Tasks'
  <2>1. ASSUME NEW v \in Workers, NEW d \in Conns, d \notin cs, Placed(v, d)
        PROVE  Placed(v, d)'
    BY <2>1, <1>2, <1>3, <1>4 DEF Placed
  <2>2. \A i \in DOMAIN poolQueue : poolQueue[i][1] \in Workers /\ poolQueue[i][2] \in Conns
    BY <1>0 DEF TypeOK, TaskType
  <2>3. \A p \in PoolThreads : ppc[p] # "idle" => job[p][1] \in Workers /\ job[p][2] \in Conns
    BY <1>0 DEF TypeOK, TaskType
  <2> QED BY <1>0, <1>3, <1>6, <2>1, <2>2, <2>3 DEF Ownership, Tasks
<1>11. WorkersOwn'
  <2> SUFFICES ASSUME NEW v \in Workers
               PROVE  /\ Active(v)' => cur[v] \in Served(v)'
                      /\ expired[v] # {} => wpc'[v] = "clean"
                      /\ \A fd \in expired[v] : contexts'[v][fd] # NoConn
                      /\ \A fd \in Fds : interest[v][fd] # "none" =>
                            contexts'[v][fd] # NoConn \/ wpc'[v] = "exited"
                      /\ wpc'[v] = "exited" => \A fd \in Fds : contexts'[v][fd] = NoConn
    BY <1>3 DEF WorkersOwn
  <2>1. CASE v = w
    BY <1>3, <1>5, <2>1 DEF Active
  <2>2. CASE v # w
    BY <1>0, <1>3, <1>4, <2>2 DEF Ownership, WorkersOwn, Active
  <2> QED BY <2>1, <2>2
<1>12. Joined'
  BY <1>0, <1>3, <1>5 DEF Ownership, Joined
<1>13. NoDescriptorLeak'
  <2>1. \A d \in Conns : sock'[d] = "open" => sock[d] = "open"
    BY <1>2
  <2>2. \A v \in Workers : wpc[v] = "exited" => wpc'[v] = "exited"
    BY <1>3
  <2> QED BY <1>0, <1>3, <1>4, <1>5, <2>1, <2>2 DEF Ownership, NoDescriptorLeak
<1> QED BY <1>7, <1>8, <1>9, <1>10, <1>11, <1>12, <1>13 DEF Ownership

\* A task is added: its connection is the worker's.
LEMMA TaskAddedOwnership ==
  ASSUME IInv, NEW w \in Workers, NEW c \in Conns, c \in Served(w),
         poolQueue' = Append(poolQueue, <<w, c>>), WorkersOwn',
         UNCHANGED <<sock, fdOf, contexts, queue, newest, apc, joining, wpc, ppc, job>>
  PROVE  Ownership'
<1>0. TypeOK /\ Ownership
  BY DEF IInv
<1> DEFINE n == Len(poolQueue) + 1
<1>1. /\ n \in DOMAIN poolQueue' /\ poolQueue'[n] = <<w, c>>
      /\ \A i \in DOMAIN poolQueue : i \in DOMAIN poolQueue' /\ poolQueue'[i] = poolQueue[i]
      /\ \A i \in DOMAIN poolQueue' : i = n \/ i \in DOMAIN poolQueue
  <2>1. poolQueue \in Seq(TaskType) /\ <<w, c>> \in TaskType
    BY <1>0 DEF TypeOK, TaskType
  <2> QED BY <2>1, AppendFacts
<1>2. \A v \in Workers : Served(v)' = Served(v)
  BY DEF Served
<1>3. sock[c] = "open" /\ \A d \in Conns : Unserved(d) => d # c
  BY ServedFacts DEF Unserved
<1>4. Descriptors' /\ Joined' /\ TablesOwnDescriptors'
  BY <1>0, <1>2 DEF Ownership, Descriptors, Joined, TablesOwnDescriptors
<1>5. Arrivals'
  <2>1. ASSUME NEW d \in Conns, Unserved(d) PROVE Unserved(d)'
    <3>1. \A i \in DOMAIN poolQueue' : poolQueue'[i][2] # d
      BY <1>1, <1>3, <2>1 DEF Unserved
    <3> QED BY <1>2, <2>1, <3>1 DEF Unserved
  <2>2. \A v \in Workers : \A i \in DOMAIN queue[v] : queue[v][i] \in Conns
    BY <1>0 DEF TypeOK
  <2>3. newest # NoConn => newest \in Conns
    BY <1>0 DEF TypeOK
  <2> QED BY <1>0, <2>1, <2>2, <2>3 DEF Ownership, Arrivals
<1>6. Tasks'
  <2>1. \A v \in Workers, d \in Conns : Placed(v, d)' <=> Placed(v, d)
    BY <1>2 DEF Placed
  <2>2. Placed(w, c)
    BY <1>3, ServedFacts DEF Placed
  <2>3. \A i \in DOMAIN poolQueue : poolQueue[i][1] \in Workers /\ poolQueue[i][2] \in Conns
    BY <1>0 DEF TypeOK, TaskType
  <2>4. \A p \in PoolThreads : ppc[p] # "idle" => job[p][1] \in Workers /\ job[p][2] \in Conns
    BY <1>0 DEF TypeOK, TaskType
  <2>5. ASSUME NEW i \in DOMAIN poolQueue'
        PROVE  \E v \in Workers, d \in Conns : /\ poolQueue'[i][1] = v
                                              /\ poolQueue'[i][2] = d /\ Placed(v, d)'
    <3>1. CASE i = n
      BY <1>1, <2>1, <2>2, <3>1
    <3>2. CASE i \in DOMAIN poolQueue
      <4>1. Placed(poolQueue[i][1], poolQueue[i][2])
        BY <1>0, <3>2 DEF Ownership, Tasks
      <4> QED BY <1>1, <2>1, <2>3, <3>2, <4>1
    <3> QED BY <1>1, <3>1, <3>2
  <2>6. ASSUME NEW p \in PoolThreads, ppc[p] # "idle"
        PROVE  \E v \in Workers, d \in Conns : /\ job[p][1] = v
                                              /\ job[p][2] = d /\ Placed(v, d)'
    <3>1. Placed(job[p][1], job[p][2])
      BY <1>0, <2>6 DEF Ownership, Tasks
    <3> QED BY <2>1, <2>4, <2>6, <3>1
  <2> QED BY <2>5, <2>6 DEF Tasks
<1>7. NoDescriptorLeak'
  <2>1. \A d : d \in InPool => d \in InPool'
    <3>1. \A d : d \in InPool' <=>
             \/ \E i \in DOMAIN poolQueue' : poolQueue'[i][2] = d
             \/ \E p \in PoolThreads : ppc'[p] # "idle" /\ job'[p][2] = d
      BY DEF InPool
    <3> QED BY <1>1, <3>1, InPoolIs
  <2> QED BY <1>0, <1>2, <2>1 DEF Ownership, NoDescriptorLeak
<1> QED BY <1>4, <1>5, <1>6, <1>7 DEF Ownership

\* A thread of the pool takes the oldest task, or is done with its own.
LEMMA PoolTakeOwnership ==
  ASSUME IInv, NEW p \in PoolThreads, PoolTake(p)
  PROVE  Ownership'
<1>0. TypeOK /\ Ownership
  BY DEF IInv
<1>1. /\ UNCHANGED <<sock, fdOf, interest, contexts, queue, newest, apc, joining,
                     wpc, cur, expired>>
      /\ ppc[p] = "idle" /\ ppc' = [ppc EXCEPT ![p] = "handle"]
      /\ job' = [job EXCEPT ![p] = Head(poolQueue)]
      /\ poolQueue' = Tail(poolQueue) /\ poolQueue # <<>>
  BY DEF PoolTake, kernelVars, socketVars, acceptVars, workerVars
<1>2. /\ 1 \in DOMAIN poolQueue /\ job'[p] = poolQueue[1] /\ ppc'[p] = "handle"
      /\ \A q \in PoolThreads \ {p} : job'[q] = job[q] /\ ppc'[q] = ppc[q]
      /\ \A i \in DOMAIN poolQueue' : i + 1 \in DOMAIN poolQueue
                                      /\ poolQueue'[i] = poolQueue[i + 1]
      /\ \A i \in DOMAIN poolQueue : i = 1 \/ \E j \in DOMAIN poolQueue' : j + 1 = i
  <2>1. poolQueue \in Seq(TaskType) /\ DOMAIN ppc = PoolThreads /\ DOMAIN job = PoolThreads
    BY <1>0 DEF TypeOK
  <2>2. Head(poolQueue) = poolQueue[1]
    BY <1>1, <2>1, TailFacts
  <2>3. /\ 1 \in DOMAIN poolQueue
        /\ \A i \in DOMAIN poolQueue' : i + 1 \in DOMAIN poolQueue
                                        /\ poolQueue'[i] = poolQueue[i + 1]
        /\ \A i \in DOMAIN poolQueue : i = 1 \/ \E j \in DOMAIN poolQueue' : j + 1 = i
    BY <1>1, <2>1, TailFacts
  <2> QED BY <1>1, <2>1, <2>2, <2>3
<1>3. \A v : Served(v)' = Served(v)
  BY <1>1 DEF Served
<1>4. /\ Descriptors' /\ Joined' /\ TablesOwnDescriptors'
      /\ WorkersOwn'
  BY <1>0, <1>1, <1>3 DEF Ownership, Descriptors, Joined, TablesOwnDescriptors,
                          WorkersOwn, Active
<1>5. \A d : d \in InPool' <=> d \in InPool
  <2>1. \A d : d \in InPool' <=>
           \/ \E i \in DOMAIN poolQueue' : poolQueue'[i][2] = d
           \/ \E q \in PoolThreads : ppc'[q] # "idle" /\ job'[q][2] = d
    BY DEF InPool
  <2>2. ASSUME NEW d, d \in InPool' PROVE d \in InPool
    BY <1>1, <1>2, <2>1, <2>2, InPoolIs
  <2>3. ASSUME NEW d, d \in InPool PROVE d \in InPool'
    <3>1. CASE \E i \in DOMAIN poolQueue : poolQueue[i][2] = d
      BY <1>2, <2>1, <3>1
    <3>2. CASE \E q \in PoolThreads : ppc[q] # "idle" /\ job[q][2] = d
      BY <1>1, <1>2, <2>1, <3>2
    <3> QED BY <2>3, <3>1, <3>2, InPoolIs
  <2> QED BY <2>2, <2>3
<1>6. Arrivals'
  <2>1. \A d : Unserved(d) <=> d \notin InPool /\ \A v \in Workers : d \notin Served(v)
    BY InPoolIs DEF Unserved
  <2>2. \A d : Unserved(d)' <=> d \notin InPool' /\ \A v \in Workers : d \notin Served(v)'
    BY DEF Unserved, InPool
  <2>3. \A d : Unserved(d)' <=> Unserved(d)
    BY <1>3, <1>5, <2>1, <2>2
  <2> QED BY <1>0, <1>1, <2>3 DEF Ownership, Arrivals
<1>7. Tasks'
  <2>1. \A v, d : Placed(v, d)' <=> Placed(v, d)
    BY <1>1, <1>3 DEF Placed
  <2>2. /\ \A i \in DOMAIN poolQueue : Placed(poolQueue[i][1], poolQueue[i][2])
        /\ \A q \in PoolThreads : ppc[q] # "idle" => Placed(job[q][1], job[q][2])
    BY <1>0 DEF Ownership, Tasks
  <2>3. ASSUME NEW i \in DOMAIN poolQueue'
        PROVE  \E v, d : poolQueue'[i][1] = v /\ poolQueue'[i][2] = d /\ Placed(v, d)'
    BY <1>2, <2>1, <2>2
  <2>4. ASSUME NEW q \in PoolThreads, ppc'[q] # "idle"
        PROVE  \E v, d : job'[q][1] = v /\ job'[q][2] = d /\ Placed(v, d)'
    <3>1. CASE q = p
      BY <1>2, <2>1, <2>2, <3>1
    <3>2. CASE q # p
      BY <1>2, <2>1, <2>2, <2>4, <3>2
    <3> QED BY <3>1, <3>2
  <2> QED BY <2>3, <2>4 DEF Tasks
<1>8. NoDescriptorLeak'
  BY <1>0, <1>1, <1>3, <1>5 DEF Ownership, NoDescriptorLeak
<1> QED BY <1>4, <1>6, <1>7, <1>8 DEF Ownership

\* A task ends and lets go of its connection.
LEMMA PoolNotifyOwnership ==
  ASSUME IInv, NEW p \in PoolThreads, PoolNotify(p), apc # "returned"
  PROVE  Ownership'
<1>0. TypeOK /\ Ownership
  BY DEF IInv
<1>1. /\ UNCHANGED <<sock, fdOf, interest, contexts, queue, newest, apc, joining,
                     wpc, cur, expired, poolQueue>>
      /\ ppc[p] = "notify" /\ ppc'[p] = "idle"
      /\ \A q \in PoolThreads \ {p} : job'[q] = job[q] /\ ppc'[q] = ppc[q]
  BY <1>0 DEF PoolNotify, TypeOK, kernelVars, socketVars, acceptVars, workerVars
<1>2. \A v : Served(v)' = Served(v)
  BY <1>1 DEF Served
<1>3. /\ Descriptors' /\ Joined' /\ TablesOwnDescriptors'
      /\ WorkersOwn'
  BY <1>0, <1>1, <1>2 DEF Ownership, Descriptors, Joined, TablesOwnDescriptors,
                          WorkersOwn, Active
<1>4. Arrivals'
  <2>1. \A d : Unserved(d) => Unserved(d)'
    BY <1>1, <1>2 DEF Unserved
  <2> QED BY <1>0, <1>1, <2>1 DEF Ownership, Arrivals
<1>5. Tasks'
  <2>1. \A v, d : Placed(v, d)' <=> Placed(v, d)
    BY <1>1, <1>2 DEF Placed
  <2>2. \A q \in PoolThreads : ppc'[q] # "idle" => q # p
    BY <1>1
  <2>3. \A q \in PoolThreads : ppc'[q] # "idle" => ppc[q] # "idle" /\ job'[q] = job[q]
    BY <1>1, <2>2
  <2>4. ASSUME NEW q \in PoolThreads, ppc'[q] # "idle"
        PROVE  \E v, d : job'[q][1] = v /\ job'[q][2] = d /\ Placed(v, d)'
    <3>1. Placed(job[q][1], job[q][2])
      BY <1>0, <2>3, <2>4 DEF Ownership, Tasks
    <3> QED BY <2>1, <2>3, <2>4, <3>1
  <2>5. ASSUME NEW i \in DOMAIN poolQueue'
        PROVE  \E v, d : poolQueue'[i][1] = v /\ poolQueue'[i][2] = d /\ Placed(v, d)'
    <3>1. Placed(poolQueue[i][1], poolQueue[i][2])
      BY <1>0, <1>1 DEF Ownership, Tasks
    <3> QED BY <1>1, <2>1, <3>1
  <2> QED BY <2>4, <2>5 DEF Tasks
<1>6. NoDescriptorLeak'
  <2>1. ASSUME NEW d \in Conns, d \in InPool, sock[d] = "open"
        PROVE  \/ d \in InPool'
               \/ \E v \in Workers : d \in Served(v) \/ wpc[v] = "exited"
    <3>1. \A e : e \in InPool' <=>
             \/ \E i \in DOMAIN poolQueue' : poolQueue'[i][2] = e
             \/ \E q \in PoolThreads : ppc'[q] # "idle" /\ job'[q][2] = e
      BY DEF InPool
    <3>2. CASE \E i \in DOMAIN poolQueue : poolQueue[i][2] = d
      BY <1>1, <3>1, <3>2
    <3>3. ASSUME NEW q \in PoolThreads, ppc[q] # "idle", job[q][2] = d
          PROVE  \E v \in Workers : d \in Served(v) \/ wpc[v] = "exited"
      <4>1. job[q][1] \in Workers /\ Placed(job[q][1], d)
        BY <1>0, <3>3 DEF Ownership, Tasks, TypeOK, TaskType
      <4> QED BY <2>1, <4>1 DEF Placed
    <3> QED BY <2>1, <3>2, <3>3, InPoolIs
  <2> QED BY <1>0, <1>1, <1>2, <2>1 DEF Ownership, NoDescriptorLeak
<1> QED BY <1>3, <1>4, <1>5, <1>6 DEF Ownership

\* When one worker moves on by a step that leaves the tables alone.
LEMMA MoveOwnership ==
  ASSUME IInv, NEW w \in Workers,
         UNCHANGED <<sock, fdOf, contexts, queue, newest, apc, joining,
                     poolQueue, ppc, job>>,
         \A v \in Workers \ {w} : /\ wpc'[v] = wpc[v] /\ cur'[v] = cur[v]
                                  /\ expired'[v] = expired[v],
         wpc[w] # "exited", wpc'[w] # "exited",
         \A v \in Workers, fd \in Fds : interest'[v][fd] = interest[v][fd]
                                        \/ (v = w /\ contexts[w][fd] # NoConn),
         Active(w)' => cur'[w] \in Served(w),
         expired'[w] # {} => wpc'[w] = "clean",
         \A fd \in expired'[w] : fd \in Fds /\ contexts[w][fd] # NoConn
  PROVE  Ownership' /\ WorkersOwn'
<1>0. TypeOK /\ Ownership
  BY DEF IInv
<1>1. Settled
  BY DEF Settled
<1>2. \A v \in Workers : Served(v)' = Served(v)
  BY DEF Served
<1>3. WorkersOwn'
  <2> SUFFICES ASSUME NEW v \in Workers
               PROVE  /\ Active(v)' => cur'[v] \in Served(v)'
                      /\ expired'[v] # {} => wpc'[v] = "clean"
                      /\ \A fd \in expired'[v] : contexts'[v][fd] # NoConn
                      /\ \A fd \in Fds : interest'[v][fd] # "none" =>
                            contexts'[v][fd] # NoConn \/ wpc'[v] = "exited"
                      /\ wpc'[v] = "exited" => \A fd \in Fds : contexts'[v][fd] = NoConn
    BY DEF WorkersOwn
  <2>1. CASE v = w
    BY <1>0, <1>2, <2>1 DEF Ownership, WorkersOwn
  <2>2. CASE v # w
    BY <1>0, <1>2, <2>2 DEF Ownership, WorkersOwn, Active
  <2> QED BY <2>1, <2>2
<1> QED BY <1>1, <1>3, SettledOwnership

\* One step of a worker touches the program counter of no other.
LEMMA OthersStay ==
  ASSUME IInv, NEW w \in Workers, Worker(w)
  PROVE  \A v \in Workers \ {w} : /\ wpc'[v] = wpc[v] /\ cur'[v] = cur[v]
                                  /\ expired'[v] = expired[v]
                                  /\ events'[v] = events[v]
<1>0. TypeOK
  BY DEF IInv
<1> USE <1>0 DEF TypeOK, kernelVars, acceptVars, workerVars, poolVars, socketVars, writeFrame
<1>1. CASE Wait(w) \/ CleanUp(w) \/ Adopt(w) \/ AdoptDone(w) \/ PassDone(w) \/ Exit(w)
  BY <1>1 DEF Wait, CleanUp, Adopt, AdoptDone, PassDone, Exit
<1>2. ASSUME NEW e \in events[w], Event(w, e)
      PROVE  \A v \in Workers \ {w} : /\ wpc'[v] = wpc[v] /\ cur'[v] = cur[v]
                                      /\ expired'[v] = expired[v]
                                      /\ events'[v] = events[v]
  BY <1>2 DEF Event, SkipEvent, Disconnect, ReadNothing, ReadFailed, ReadRefused,
              ReadSmall, ReadLarge, WriteNothing, WriteEvent, ReadEvent, Pick
<1>3. CASE HandleInline(w) \/ HeaderSent(w) \/ ResponseSent(w) \/ WriteBlocked(w)
           \/ HeaderFailed(w) \/ Retry(w) \/ ContentFailed(w)
  BY <1>3 DEF HandleInline, HeaderSent, ResponseSent, WriteBlocked, HeaderFailed,
              Retry, ContentFailed, Return
<1> QED BY <1>1, <1>2, <1>3 DEF Worker

\* The first layer is kept by every step.
LEMMA OwnershipNext == IInv /\ [Step]_vars => Ownership'
<1> SUFFICES ASSUME IInv, [Step]_vars PROVE Ownership'
  OBVIOUS
<1>0. TypeOK /\ Ownership
  BY DEF IInv
<1> USE DEF vars, kernelVars, socketVars, acceptVars, workerVars, poolVars, writeFrame
<1>1. CASE \/ \E c \in Conns : Send(c) \/ HalfClose(c) \/ Reset(c)
           \/ Tick \/ Signal
           \/ \E p \in PoolThreads : PoolHandle(p) \/ PoolUnlock(p)
           \/ UNCHANGED vars
  <2>1. Settled /\ UNCHANGED <<wpc, cur, expired, interest, contexts>>
    <3>1. CASE \/ \E c \in Conns : Send(c) \/ HalfClose(c) \/ Reset(c)
               \/ Tick \/ Signal \/ UNCHANGED vars
      BY <3>1 DEF Send, HalfClose, Reset, Tick, Signal, Settled
    <3>2. ASSUME NEW p \in PoolThreads, PoolHandle(p) \/ PoolUnlock(p)
          PROVE  Settled /\ UNCHANGED <<wpc, cur, expired, interest, contexts>>
      <4>1. /\ UNCHANGED <<sock, fdOf, contexts, queue, newest, apc, joining, poolQueue,
                           job, wpc, cur, expired, interest>>
            /\ ppc[p] # "idle" /\ ppc'[p] # "idle"
            /\ \A q \in PoolThreads \ {p} : ppc'[q] = ppc[q]
        BY <1>0, <3>2 DEF PoolHandle, PoolUnlock, TypeOK
      <4>2. \A q \in PoolThreads : ppc'[q] = "idle" <=> ppc[q] = "idle"
        BY <4>1
      <4> QED BY <4>1, <4>2 DEF Settled
    <3> QED BY <1>1, <3>1, <3>2
  <2>2. WorkersOwn'
    BY <1>0, <2>1 DEF Ownership, WorkersOwn, Active, Served
  <2> QED BY <2>1, <2>2, SettledOwnership
<1>2. CASE \E c \in Conns : Accept(c)
  BY <1>2, AcceptOwnership
<1>3. CASE EnqueueClient
  BY <1>3, EnqueueOwnership
<1>4. CASE LeaveLoop \/ StopWorker
  <2>1. /\ UNCHANGED <<sock, fdOf, contexts, queue, newest, joining, wpc, cur, expired,
                       interest, poolQueue, ppc, job>>
        /\ apc # "returned" /\ apc' \in {"stop", "join"}
    BY <1>4 DEF LeaveLoop, StopWorker
  <2>2. \A w \in Workers : Served(w)' = Served(w)
    BY <2>1 DEF Served
  <2>3. InPool' = InPool
    BY <2>1 DEF InPool
  <2>4. Descriptors' /\ TablesOwnDescriptors' /\ Joined' /\ WorkersOwn'
    BY <1>0, <2>1, <2>2 DEF Ownership, Descriptors, TablesOwnDescriptors, Joined,
                            WorkersOwn, Active
  <2>5. Arrivals'
    BY <1>0, <2>1, <2>2 DEF Ownership, Arrivals, Unserved
  <2>6. Tasks'
    <3>1. \A v \in Workers, d \in Conns : Placed(v, d)' <=> Placed(v, d)
      BY <2>1, <2>2 DEF Placed
    <3>2. \A i \in DOMAIN poolQueue : poolQueue[i][1] \in Workers /\ poolQueue[i][2] \in Conns
      BY <1>0 DEF TypeOK, TaskType
    <3>3. \A p \in PoolThreads : ppc[p] # "idle" => job[p][1] \in Workers /\ job[p][2] \in Conns
      BY <1>0 DEF TypeOK, TaskType
    <3> QED BY <1>0, <2>1, <3>1, <3>2, <3>3 DEF Ownership, Tasks
  <2>7. NoDescriptorLeak'
    BY <1>0, <2>1, <2>2, <2>3 DEF Ownership, NoDescriptorLeak
  <2> QED BY <2>4, <2>5, <2>6, <2>7 DEF Ownership
<1>5. CASE JoinWorker
  BY <1>5, JoinOwnership
<1>6. ASSUME NEW w \in Workers, Worker(w) PROVE Ownership'
  <2>0. /\ \A v \in Workers \ {w} : /\ wpc'[v] = wpc[v] /\ cur'[v] = cur[v]
                                    /\ expired'[v] = expired[v]
        /\ \A fd \in expired[w] : fd \in Fds /\ contexts[w][fd] # NoConn
        /\ wpc[w] # "clean" => expired[w] = {}
        /\ Active(w) => cur[w] \in Served(w)
    BY <1>0, <1>6, OthersStay DEF Ownership, WorkersOwn, TypeOK
  <2>1. CASE Wait(w)
    <3>1. /\ wpc[w] = "wait" /\ expired[w] = {}
          /\ wpc'[w] = IF expired'[w] = {} THEN "adopt" ELSE "clean"
          /\ expired'[w] = Overdue(w) \/ expired'[w] = {}
          /\ UNCHANGED <<kernelVars, contexts, queue, newest, apc, joining, poolQueue, ppc, job>>
      BY <1>0, <2>0, <2>1 DEF Wait, TypeOK
    <3>2. /\ \A fd \in expired'[w] : fd \in Fds /\ contexts[w][fd] # NoConn
          /\ ~Active(w)'
      BY <3>1 DEF Overdue, Active
    <3> QED BY <2>0, <3>1, <3>2, MoveOwnership
  <2>2. CASE CleanUp(w)
    <3>1. PICK fd \in expired[w] :
            /\ expired' = [expired EXCEPT ![w] = @ \ {fd}]
            /\ \/ UNCHANGED <<interest, contexts, socketVars, ctx>>
               \/ Discard(w, contexts[w][fd])
      BY <2>2 DEF CleanUp
    <3>2. /\ wpc[w] = "clean" /\ expired'[w] = expired[w] \ {fd}
          /\ wpc'[w] = IF expired'[w] = {} THEN "adopt" ELSE "clean"
          /\ UNCHANGED <<queue, newest, apc, joining, poolQueue, ppc, job>>
      BY <1>0, <2>2, <3>1 DEF CleanUp, TypeOK
    <3>3. ~Active(w)'
      BY <3>2 DEF Active
    <3>4. CASE UNCHANGED <<interest, contexts, socketVars, ctx>>
      BY <2>0, <3>2, <3>3, <3>4, MoveOwnership
    <3>5. CASE Discard(w, contexts[w][fd])
      <4>1. PICK c \in Conns : c = contexts[w][fd] /\ c \in Served(w) /\ fdOf[c] = fd
        BY OverdueFacts
      <4> QED BY <2>0, <3>2, <3>3, <3>5, <4>1, DiscardOwnership
    <3> QED BY <3>1, <3>4, <3>5
  <2>3. CASE Adopt(w)
    BY <2>3, AdoptOwnership
  <2>4. CASE Exit(w)
    BY <2>4, ExitOwnership
  <2>5. CASE AdoptDone(w) \/ PassDone(w)
    <3>1. /\ wpc[w] \in {"adopt", "events"} /\ wpc'[w] \in {"wait", "events"}
          /\ expired' = expired /\ expired[w] = {}
          /\ UNCHANGED <<kernelVars, contexts, queue, newest, apc, joining, poolQueue, ppc, job>>
      BY <1>0, <2>0, <2>5 DEF AdoptDone, PassDone, TypeOK
    <3>2. ~Active(w)'
      BY <3>1 DEF Active
    <3> QED BY <2>0, <3>1, <3>2, MoveOwnership
  <2>6. ASSUME NEW e \in events[w], Event(w, e) PROVE Ownership'
    <3> DEFINE c == Found(w, e)
    <3>0. /\ wpc[w] = "events" /\ expired' = expired /\ expired[w] = {}
          /\ UNCHANGED <<queue, newest, apc, joining>>
      BY <1>0, <2>0, <2>6
         DEF Event, SkipEvent, Disconnect, ReadNothing, ReadFailed, ReadRefused,
             ReadSmall, ReadLarge, WriteNothing, WriteEvent, ReadEvent, Pick
    <3>1. CASE SkipEvent(w, e) \/ ReadNothing(w, e)
      <4>1. /\ UNCHANGED <<sock, fdOf, interest, contexts, wpc, cur, poolQueue, ppc, job>>
        BY <3>1 DEF SkipEvent, ReadNothing, TakeBytes
      <4>2. ~Active(w)'
        BY <3>0, <4>1 DEF Active
      <4> QED BY <2>0, <3>0, <4>1, <4>2, MoveOwnership
    <3>2. ASSUME Discard(w, c), c \in Conns, c \in Served(w),
                 UNCHANGED <<wpc, poolQueue, ppc, job>>
          PROVE  Ownership'
      <4>1. ~Active(w)'
        BY <3>0, <3>2 DEF Active
      <4> HIDE DEF c
      <4> QED BY <2>0, <3>0, <3>2, <4>1, DiscardOwnership
    <3>3. CASE Disconnect(w, e)
      BY <3>2, <3>3, FoundFacts DEF Disconnect
    <3>4. CASE ReadFailed(w, e)
      BY <3>2, <3>4, FoundFacts DEF ReadFailed, ReadEvent
    <3>5. ASSUME Pick(w, e), Usable(w, e), wpc'[w] # "exited", Active(w)' => cur'[w] = c,
                 UNCHANGED <<sock, fdOf, contexts>>,
                 \A v \in Workers, fd \in Fds :
                    interest'[v][fd] = interest[v][fd] \/ (v = w /\ fd = fdOf[c])
          PROVE  /\ WorkersOwn' \/ ~UNCHANGED <<poolQueue, ppc, job>>
                 /\ Ownership' \/ ~UNCHANGED <<poolQueue, ppc, job>>
      <4>1. c \in Conns /\ c \in Served(w) /\ contexts[w][fdOf[c]] # NoConn
        BY <3>5, FoundFacts, ServedFacts, ServerAssumption
      <4> HIDE DEF c
      <4> QED BY <2>0, <3>0, <3>5, <4>1, MoveOwnership
    <3>6. CASE ReadRefused(w, e)
      <4>1. /\ Pick(w, e) /\ Usable(w, e) /\ SendResponse(w, c)
            /\ UNCHANGED <<sock, fdOf, contexts, wpc, cur, poolQueue, ppc, job>>
        BY <3>6 DEF ReadRefused, ReadEvent, TakeBytes
      <4>2. \A v \in Workers, fd \in Fds :
               interest'[v][fd] = interest[v][fd] \/ (v = w /\ fd = fdOf[c])
        BY <1>0, <4>1, FoundFacts, SendResponseEffect
      <4>3. ~Active(w)' /\ wpc'[w] # "exited"
        BY <3>0, <4>1 DEF Active
      <4> QED BY <3>5, <4>1, <4>2, <4>3
    <3>7. CASE ReadSmall(w, e)
      <4>1. /\ Pick(w, e) /\ Usable(w, e) /\ Lock(w, c)
            /\ UNCHANGED <<sock, fdOf, contexts, poolQueue, ppc, job>>
            /\ wpc'[w] = "handle" /\ cur'[w] = c
        BY <1>0, <3>7 DEF ReadSmall, ReadEvent, TakeBytes, TypeOK
      <4>2. \A v \in Workers, fd \in Fds :
               interest'[v][fd] = interest[v][fd] \/ (v = w /\ fd = fdOf[c])
        BY <1>0, <4>1, FoundFacts, LockEffect
      <4> QED BY <3>5, <4>1, <4>2
    <3>8. CASE ReadLarge(w, e)
      <4>1. /\ Pick(w, e) /\ Usable(w, e)
            /\ UNCHANGED <<sock, fdOf, contexts, wpc, cur, ppc, job>>
            /\ \/ Lock(w, c) /\ poolQueue' = Append(poolQueue, <<w, c>>)
               \/ SendResponse(w, c) /\ UNCHANGED poolQueue
        BY <3>8 DEF ReadLarge, ReadEvent, TakeBytes
      <4>2. ~Active(w)' /\ wpc'[w] # "exited"
        BY <3>0, <4>1 DEF Active
      <4>3. CASE SendResponse(w, c) /\ UNCHANGED poolQueue
        <5>1. \A v \in Workers, fd \in Fds :
                 interest'[v][fd] = interest[v][fd] \/ (v = w /\ fd = fdOf[c])
          BY <1>0, <4>1, <4>3, FoundFacts, SendResponseEffect
        <5> QED BY <3>5, <4>1, <4>2, <4>3, <5>1
      <4>4. CASE Lock(w, c) /\ poolQueue' = Append(poolQueue, <<w, c>>)
        <5>1. \A v \in Workers, fd \in Fds :
                 interest'[v][fd] = interest[v][fd] \/ (v = w /\ fd = fdOf[c])
          BY <1>0, <4>1, <4>4, FoundFacts, LockEffect
        <5>2. c \in Conns /\ c \in Served(w) /\ contexts[w][fdOf[c]] # NoConn
          BY <4>1, FoundFacts, ServedFacts, ServerAssumption
        <5> HIDE DEF c
        <5>3. WorkersOwn'
          <6> SUFFICES ASSUME NEW v \in Workers
                       PROVE  /\ Active(v) => cur[v] \in Served(v)'
                              /\ expired[v] # {} => wpc[v] = "clean"
                              /\ \A fd \in expired[v] : contexts[v][fd] # NoConn
                              /\ \A fd \in Fds : interest'[v][fd] # "none" =>
                                    contexts[v][fd] # NoConn \/ wpc[v] = "exited"
                              /\ wpc[v] = "exited" => \A fd \in Fds : contexts[v][fd] = NoConn
            BY <3>0, <4>1 DEF WorkersOwn, Active
          <6>1. Served(v)' = Served(v)
            BY <4>1 DEF Served
          <6> QED BY <1>0, <5>1, <5>2, <6>1 DEF Ownership, WorkersOwn
        <5> QED BY <3>0, <4>1, <4>4, <5>2, <5>3, TaskAddedOwnership
      <4> QED BY <4>1, <4>3, <4>4
    <3>9. CASE WriteNothing(w, e)
      <4>1. /\ Pick(w, e) /\ Usable(w, e) /\ Finished(w, c)
            /\ UNCHANGED <<wpc, cur, poolQueue, ppc, job>>
        BY <3>9 DEF WriteNothing
      <4>2. c \in Conns /\ c \in Served(w)
        BY <4>1, FoundFacts
      <4>3. ~Active(w)' /\ wpc'[w] # "exited"
        BY <3>0, <4>1 DEF Active
      <4>4. CASE Discard(w, c)
        BY <3>2, <4>1, <4>2, <4>4
      <4>5. CASE Kept(w, c)
        <5>1. \A v \in Workers, fd \in Fds :
                 interest'[v][fd] = interest[v][fd] \/ (v = w /\ fd = fdOf[c])
          BY <4>5 DEF Kept
        <5>2. UNCHANGED <<sock, fdOf, contexts>>
          BY <4>5 DEF Kept
        <5> QED BY <3>5, <4>1, <4>3, <5>1, <5>2
      <4> QED BY <1>0, <4>1, <4>2, <4>4, <4>5, FinishedEffect
    <3>10. CASE WriteEvent(w, e)
      <4>1. /\ Pick(w, e) /\ Usable(w, e) /\ cur'[w] = c /\ wpc'[w] # "exited"
            /\ UNCHANGED <<sock, fdOf, interest, contexts, poolQueue, ppc, job>>
        BY <1>0, <3>10 DEF WriteEvent, TypeOK
      <4> QED BY <3>5, <4>1
    <3> QED BY <2>6, <3>1, <3>3, <3>4, <3>6, <3>7, <3>8, <3>9, <3>10 DEF Event
  <2>7. CASE HandleInline(w)
    <3>1. /\ wpc[w] = "handle" /\ wpc'[w] = "events" /\ expired' = expired
          /\ UNCHANGED <<sock, fdOf, contexts, queue, newest, apc, joining, poolQueue, ppc, job>>
      BY <1>0, <2>7 DEF HandleInline, TypeOK
    <3>2. PICK c \in Conns : c = cur[w] /\ c \in Served(w) /\ contexts[w][fdOf[c]] # NoConn
      BY <3>1, CurFacts, ServedFacts, ServerAssumption DEF Active
    <3>3. \A v \in Workers, fd \in Fds :
             interest'[v][fd] = interest[v][fd] \/ (v = w /\ fd = fdOf[c])
      BY <1>0, <2>7, <3>2, HandledInlineEffect
    <3>4. ~Active(w)'
      BY <3>1 DEF Active
    <3> QED BY <2>0, <3>1, <3>2, <3>3, <3>4, MoveOwnership
  <2>8. CASE HeaderSent(w) \/ WriteBlocked(w) \/ HeaderFailed(w) \/ Retry(w)
    <3>1. /\ wpc[w] \in {"header", "retry", "content"} /\ expired' = expired
          /\ \/ wpc'[w] \in {"header", "retry", "content"} /\ cur'[w] = cur[w]
             \/ wpc'[w] = "events"
          /\ UNCHANGED <<sock, fdOf, interest, contexts, queue, newest, apc, joining,
                         poolQueue, ppc, job>>
      BY <1>0, <2>8 DEF HeaderSent, WriteBlocked, HeaderFailed, Retry, Return, TypeOK
    <3>2. Active(w) /\ (Active(w)' => cur'[w] \in Served(w))
      BY <2>0, <3>1 DEF Active
    <3> QED BY <2>0, <3>1, <3>2, MoveOwnership
  <2>9. CASE ResponseSent(w) \/ ContentFailed(w)
    <3>1. /\ wpc[w] \in {"header", "content"} /\ wpc'[w] = "events" /\ expired' = expired
          /\ UNCHANGED <<queue, newest, apc, joining, poolQueue, ppc, job>>
          /\ Finished(w, cur[w]) \/ Discard(w, cur[w])
      BY <1>0, <2>9 DEF ResponseSent, ContentFailed, Return, TypeOK
    <3>2. PICK c \in Conns : c = cur[w] /\ c \in Served(w) /\ contexts[w][fdOf[c]] # NoConn
      BY <3>1, CurFacts, ServedFacts, ServerAssumption DEF Active
    <3>3. ~Active(w)' /\ expired[w] = {}
      BY <2>0, <3>1 DEF Active
    <3>4. CASE Discard(w, c)
      BY <2>0, <3>1, <3>2, <3>3, <3>4, DiscardOwnership
    <3>5. CASE Kept(w, c)
      <4>1. /\ \A v \in Workers, fd \in Fds :
                  interest'[v][fd] = interest[v][fd] \/ (v = w /\ fd = fdOf[c])
            /\ UNCHANGED <<sock, fdOf, contexts>>
        BY <3>5 DEF Kept
      <4> QED BY <2>0, <3>1, <3>2, <3>3, <4>1, MoveOwnership
    <3> QED BY <1>0, <3>1, <3>2, <3>4, <3>5, FinishedEffect
  <2> QED BY <1>6, <2>1, <2>2, <2>3, <2>4, <2>5, <2>6, <2>7, <2>8, <2>9 DEF Worker
<1>7. ASSUME NEW p \in PoolThreads, Pool(p) PROVE Ownership'
  <2>1. CASE PoolTake(p)
    BY <2>1, PoolTakeOwnership
  <2>2. CASE PoolNotify(p)
    BY <1>7, <2>2, PoolNotifyOwnership DEF Pool
  <2>3. CASE PoolAdd(p)
    <3>1. /\ ppc[p] = "add" /\ Settled
          /\ UNCHANGED <<contexts, wpc, cur, expired>>
      BY <1>0, <2>3 DEF PoolAdd, Settled, TypeOK
    <3>2. PICK v \in Workers, c \in Conns : v = job[p][1] /\ c = job[p][2]
      BY <1>0, <3>1 DEF TypeOK, TaskType
    <3>3. contexts[v][fdOf[c]] # NoConn \/ wpc[v] = "exited"
      <4>1. ctx[c].locked /\ sock[c] = "open" /\ Placed(v, c)
        BY <1>0, <3>1, <3>2 DEF IInv, Locking, TasksLocked, Tasked, Busy, Ownership, Tasks
      <4>2. CASE c \in Served(v)
        BY <4>2, ServedFacts, ServerAssumption
      <4> QED BY <4>1, <4>2 DEF Placed
    <3>4. \A u \in Workers, fd \in Fds :
             interest'[u][fd] = interest[u][fd] \/ (u = v /\ fd = fdOf[c])
      BY <1>0, <2>3, <3>2 DEF PoolAdd, TypeOK
    <3>5. WorkersOwn'
      BY <1>0, <3>1, <3>3, <3>4 DEF Ownership, WorkersOwn, Active, Served
    <3> QED BY <3>1, <3>5, SettledOwnership
  <2>4. CASE PoolHandle(p) \/ PoolUnlock(p)
    BY <1>1, <2>4
  <2> QED BY <1>7, <2>1, <2>2, <2>3, <2>4 DEF Pool
<1> QED BY <1>1, <1>2, <1>3, <1>4, <1>5, <1>6, <1>7 DEF Step, Environment, Acceptor
-----------------------------------------------------------------------------
(* Who may use a connection *)

\* Nobody's task and not being handled: that is what unlocked means.
LEMMA Unlocked ==
  ASSUME IInv, NEW c \in Conns, ~ctx[c].locked
  PROVE  ~Tasked(c) /\ \A w \in Workers : wpc[w] = "handle" => cur[w] # c
BY DEF IInv, Locking, TasksLocked, WorkersLocked

\* A task that has yet to unlock its connection is in the pool.
LEMMA TaskedIsInPool == \A c : Tasked(c) => c \in InPool
BY InPoolIs DEF Tasked, Busy

\* Neither the tasks nor any lock changes, and no socket of a task.
LEMMA IdleLocking ==
  ASSUME IInv, UNCHANGED <<poolQueue, ppc, job, wpc, cur>>,
         \A c \in Conns : ctx'[c].locked = ctx[c].locked,
         \A c \in Conns : Tasked(c) => sock'[c] = "open"
  PROVE  Locking'
<1>0. TypeOK /\ Ownership /\ Locking
  BY DEF IInv
<1>1. \A c : Tasked(c)' <=> Tasked(c)
  BY DEF Tasked, Busy
<1>2. TasksDistinct'
  BY <1>0 DEF Locking, TasksDistinct, Busy
<1>3. TasksLocked'
  BY <1>0, <1>1 DEF Locking, TasksLocked
<1>4. WorkersLocked'
  <2>1. ASSUME NEW w \in Workers, Active(w)
        PROVE  cur[w] \in Conns /\ ctx'[cur[w]].locked = ctx[cur[w]].locked
    BY <2>1, CurFacts
  <2> QED BY <1>0, <1>1, <2>1 DEF Locking, WorkersLocked, Active
<1>5. LocksHeld'
  BY <1>0, <1>1 DEF Locking, LocksHeld
<1> QED BY <1>2, <1>3, <1>4, <1>5 DEF Locking

\* A step of worker w that changes the locks and sockets of cs, which are no
\* task's and no other worker's, and no task.
LEMMA MoveLocking ==
  ASSUME IInv, NEW w \in Workers, NEW cs \in SUBSET Conns,
         UNCHANGED <<poolQueue, ppc, job>>,
         \A v \in Workers \ {w} : wpc'[v] = wpc[v] /\ cur'[v] = cur[v],
         \A d \in Conns \ cs : ctx'[d].locked = ctx[d].locked /\ sock'[d] = sock[d],
         \A d \in cs : ~Tasked(d),
         \A v \in Workers \ {w} : Active(v) => cur[v] \notin cs,
         \A d \in cs : ctx'[d].locked => wpc'[w] = "handle" /\ cur'[w] = d,
         wpc[w] = "handle" => cur[w] \in cs,
         wpc'[w] = "handle" => /\ cur'[w] \in cs /\ ctx'[cur'[w]].locked,
         wpc'[w] \in {"header", "retry", "content"} => ~ctx'[cur'[w]].locked
  PROVE  Locking'
<1>0. TypeOK /\ Ownership /\ Locking
  BY DEF IInv
<1>1. \A c : Tasked(c)' <=> Tasked(c)
  BY DEF Tasked, Busy
<1>2. TasksDistinct'
  BY <1>0 DEF Locking, TasksDistinct, Busy
<1>3. TasksLocked'
  BY <1>0, <1>1 DEF Locking, TasksLocked
<1>4. WorkersLocked'
  <2>1. ASSUME NEW v \in Workers, v # w, Active(v)
        PROVE  cur[v] \in Conns /\ ctx'[cur[v]].locked = ctx[cur[v]].locked
    BY <2>1, CurFacts
  <2>2. ASSUME NEW v \in Workers
        PROVE  /\ wpc'[v] = "handle" => ctx'[cur'[v]].locked /\ \E d : d = cur'[v] /\ ~Tasked(d)'
               /\ wpc'[v] \in {"header", "retry", "content"} => ~ctx'[cur'[v]].locked
    <3>1. CASE v = w
      BY <1>1, <3>1
    <3>2. CASE v # w
      BY <1>0, <1>1, <2>1, <3>2 DEF Locking, WorkersLocked, Active
    <3> QED BY <3>1, <3>2
  <2> QED BY <2>2 DEF WorkersLocked
<1>5. LocksHeld'
  <2> SUFFICES ASSUME NEW c \in Conns, ctx'[c].locked, ~Tasked(c)
               PROVE  \E v \in Workers : wpc'[v] = "handle" /\ cur'[v] = c
    BY <1>1 DEF LocksHeld
  <2>1. CASE c \in cs
    BY <2>1
  <2>2. CASE c \notin cs
    <3>1. PICK v \in Workers : wpc[v] = "handle" /\ cur[v] = c
      BY <1>0, <2>2 DEF Locking, LocksHeld
    <3> QED BY <2>2, <3>1
  <2> QED BY <2>1, <2>2
<1> QED BY <1>2, <1>3, <1>4, <1>5 DEF Locking

\* The connection of one table is in use by no other worker.
LEMMA ServedAlone ==
  ASSUME IInv, NEW w \in Workers, NEW c \in Conns, c \in Served(w),
         NEW v \in Workers, v # w, Active(v)
  PROVE  cur[v] # c
BY CurFacts, ServedFacts

\* A worker that looks at an unlocked connection of its table, or stops using one.
LEMMA UseLocking ==
  ASSUME IInv, NEW w \in Workers, NEW c \in Conns, c \in Served(w),
         UNCHANGED <<poolQueue, ppc, job>>,
         \A v \in Workers \ {w} : wpc'[v] = wpc[v] /\ cur'[v] = cur[v],
         \A d \in Conns \ {c} : ctx'[d].locked = ctx[d].locked /\ sock'[d] = sock[d],
         ~ctx[c].locked \/ (wpc[w] = "handle" /\ cur[w] = c),
         wpc[w] = "handle" => cur[w] = c,
         ctx'[c].locked => wpc'[w] = "handle" /\ cur'[w] = c,
         wpc'[w] = "handle" => cur'[w] = c /\ ctx'[c].locked,
         wpc'[w] \in {"header", "retry", "content"} => cur'[w] = c
  PROVE  Locking'
<1>1. ~Tasked(c)
  <2>1. CASE ~ctx[c].locked
    BY <2>1, Unlocked
  <2>2. CASE wpc[w] = "handle" /\ cur[w] = c
    BY <2>2 DEF IInv, Locking, WorkersLocked
  <2> QED BY <2>1, <2>2
<1>2. \A v \in Workers \ {w} : Active(v) => cur[v] \notin {c}
  BY ServedAlone
<1>3. wpc'[w] \in {"header", "retry", "content"} => ~ctx'[cur'[w]].locked
  OBVIOUS
<1>4. PICK cs \in SUBSET Conns : cs = {c}
  OBVIOUS
<1>5. \A d \in Conns \ cs : ctx'[d].locked = ctx[d].locked /\ sock'[d] = sock[d]
  BY <1>4
<1>6. /\ \A d \in cs : ~Tasked(d)
      /\ \A v \in Workers \ {w} : Active(v) => cur[v] \notin cs
  BY <1>1, <1>2, <1>4
<1>7. /\ \A d \in cs : ctx'[d].locked => wpc'[w] = "handle" /\ cur'[w] = d
      /\ wpc[w] = "handle" => cur[w] \in cs
      /\ wpc'[w] = "handle" => cur'[w] \in cs /\ ctx'[cur'[w]].locked
  BY <1>4
<1> QED BY <1>3, <1>5, <1>6, <1>7, MoveLocking

\* A locked connection goes to the pool: from now on it is a task's.
LEMMA TaskAddedLocking ==
  ASSUME IInv, NEW w \in Workers, NEW c \in Conns, c \in Served(w), ~ctx[c].locked,
         poolQueue' = Append(poolQueue, <<w, c>>),
         UNCHANGED <<sock, wpc, cur, ppc, job>>, wpc[w] = "events",
         \A d \in Conns \ {c} : ctx'[d].locked = ctx[d].locked, ctx'[c].locked
  PROVE  Locking'
<1>0. TypeOK /\ Ownership /\ Locking
  BY DEF IInv
<1> DEFINE n == Len(poolQueue) + 1
<1>1. /\ n \in DOMAIN poolQueue' /\ poolQueue'[n] = <<w, c>>
      /\ \A i \in DOMAIN poolQueue : i \in DOMAIN poolQueue' /\ poolQueue'[i] = poolQueue[i]
      /\ \A i \in DOMAIN poolQueue' : i = n \/ i \in DOMAIN poolQueue
  <2>1. poolQueue \in Seq(TaskType) /\ <<w, c>> \in TaskType
    BY <1>0 DEF TypeOK, TaskType
  <2> QED BY <2>1, AppendFacts
<1> HIDE DEF n
<1>2. \A p : Busy(p)' <=> Busy(p)
  BY DEF Busy
<1>3. ~Tasked(c) /\ sock[c] = "open"
  BY Unlocked, ServedFacts
<1>4. \A d : Tasked(d)' <=> Tasked(d) \/ d = c
  <2>1. ASSUME NEW d, Tasked(d)' PROVE Tasked(d) \/ d = c
    BY <1>1, <1>2, <2>1 DEF Tasked
  <2>2. ASSUME NEW d, Tasked(d) PROVE Tasked(d)'
    BY <1>1, <1>2, <2>2 DEF Tasked
  <2>3. Tasked(c)'
    BY <1>1 DEF Tasked
  <2> QED BY <2>1, <2>2, <2>3
<1>5. TasksDistinct'
  <2>1. \A i \in DOMAIN poolQueue : poolQueue[i][2] # c
    BY <1>3 DEF Tasked
  <2>2. \A p \in PoolThreads : Busy(p) => job[p][2] # c
    BY <1>3 DEF Tasked
  <2>3. \A i \in DOMAIN poolQueue' :
           \/ i = n /\ poolQueue'[i][2] = c
           \/ /\ i \in DOMAIN poolQueue /\ poolQueue'[i] = poolQueue[i]
              /\ poolQueue'[i][2] # c
    BY <1>1, <2>1
  <2> QED BY <1>0, <1>2, <2>2, <2>3 DEF Locking, TasksDistinct
<1>6. TasksLocked'
  BY <1>0, <1>3, <1>4 DEF Locking, TasksLocked
<1>7. WorkersLocked'
  <2>1. ASSUME NEW v \in Workers, Active(v)
        PROVE  /\ cur[v] \in Conns /\ cur[v] # c
               /\ ctx'[cur[v]].locked = ctx[cur[v]].locked
    <3>1. v # w
      BY <2>1 DEF Active
    <3> QED BY <2>1, <3>1, CurFacts, ServedAlone
  <2> QED BY <1>0, <1>4, <2>1 DEF Locking, WorkersLocked, Active
<1>8. LocksHeld'
  BY <1>0, <1>4 DEF Locking, LocksHeld
<1> QED BY <1>5, <1>6, <1>7, <1>8 DEF Locking

\* A pool thread locks nothing, and unlocks its own task's connection only.
LEMMA PoolLocking ==
  ASSUME IInv, NEW p \in PoolThreads, Pool(p)
  PROVE  Locking'
<1>0. TypeOK /\ Ownership /\ Locking
  BY DEF IInv
<1>1. CASE PoolTake(p)
  <2>1. /\ UNCHANGED <<sock, ctx, wpc, cur>>
        /\ 1 \in DOMAIN poolQueue /\ job'[p] = poolQueue[1]
        /\ ppc[p] = "idle" /\ ppc'[p] = "handle"
        /\ \A q \in PoolThreads \ {p} : job'[q] = job[q] /\ ppc'[q] = ppc[q]
    <3>1. poolQueue \in Seq(TaskType) /\ DOMAIN ppc = PoolThreads /\ DOMAIN job = PoolThreads
      BY <1>0 DEF TypeOK
    <3>2. poolQueue # <<>>
      BY <1>1 DEF PoolTake
    <3>3. Head(poolQueue) = poolQueue[1] /\ 1 \in DOMAIN poolQueue
      BY <3>1, <3>2, TailFacts
    <3> QED BY <1>1, <3>1, <3>3 DEF PoolTake, kernelVars, socketVars, workerVars
  <2>2. /\ \A i \in DOMAIN poolQueue' : /\ i + 1 \in DOMAIN poolQueue /\ i + 1 # 1
                                        /\ poolQueue'[i] = poolQueue[i + 1]
        /\ \A i \in DOMAIN poolQueue : i = 1 \/ \E j \in DOMAIN poolQueue' : j + 1 = i
        /\ \A i, j \in DOMAIN poolQueue' : i + 1 = j + 1 => i = j
    <3>1. poolQueue \in Seq(TaskType) /\ poolQueue # <<>> /\ poolQueue' = Tail(poolQueue)
      BY <1>0, <1>1 DEF PoolTake, TypeOK
    <3> QED BY <3>1, TailFacts
  <2>3. /\ ~Busy(p) /\ Busy(p)'
        /\ \A q \in PoolThreads \ {p} : Busy(q)' <=> Busy(q)
    BY <2>1 DEF Busy
  <2>4. \A d : Tasked(d)' <=> Tasked(d)
    <3>1. ASSUME NEW d, Tasked(d)' PROVE Tasked(d)
      <4>1. CASE \E i \in DOMAIN poolQueue' : poolQueue'[i][2] = d
        BY <2>2, <4>1 DEF Tasked
      <4>2. ASSUME NEW q \in PoolThreads, Busy(q)', job'[q][2] = d PROVE Tasked(d)
        BY <2>1, <2>3, <4>2 DEF Tasked
      <4> QED BY <3>1, <4>1, <4>2 DEF Tasked
    <3>2. ASSUME NEW d, Tasked(d) PROVE Tasked(d)'
      <4>1. ASSUME NEW i \in DOMAIN poolQueue, poolQueue[i][2] = d PROVE Tasked(d)'
        BY <2>1, <2>2, <2>3, <4>1 DEF Tasked
      <4>2. ASSUME NEW q \in PoolThreads, Busy(q), job[q][2] = d PROVE Tasked(d)'
        <5>1. q # p /\ Busy(q)' /\ job'[q] = job[q]
          BY <2>1, <2>3, <4>2
        <5> QED BY <4>2, <5>1 DEF Tasked
      <4> QED BY <3>2, <4>1, <4>2 DEF Tasked
    <3> QED BY <3>1, <3>2
  <2>5. TasksDistinct'
    <3>1. ASSUME NEW i \in DOMAIN poolQueue', NEW j \in DOMAIN poolQueue',
                 poolQueue'[i][2] = poolQueue'[j][2]
          PROVE  i = j
      BY <1>0, <2>2, <3>1 DEF Locking, TasksDistinct
    <3>2. ASSUME NEW i \in DOMAIN poolQueue', NEW q \in PoolThreads, Busy(q)'
          PROVE  poolQueue'[i][2] # job'[q][2]
      <4>1. CASE q = p
        BY <1>0, <2>1, <2>2, <4>1 DEF Locking, TasksDistinct
      <4>2. CASE q # p
        BY <1>0, <2>1, <2>2, <2>3, <3>2, <4>2 DEF Locking, TasksDistinct
      <4> QED BY <4>1, <4>2
    <3>3. ASSUME NEW q \in PoolThreads, NEW r \in PoolThreads, Busy(q)', Busy(r)',
                 job'[q][2] = job'[r][2]
          PROVE  q = r
      BY <1>0, <2>1, <2>3, <3>3 DEF Locking, TasksDistinct
    <3> QED BY <3>1, <3>2, <3>3 DEF TasksDistinct
  <2> QED BY <1>0, <2>1, <2>4, <2>5 DEF Locking, TasksLocked, WorkersLocked, LocksHeld
<1>2. CASE PoolHandle(p) \/ PoolAdd(p) \/ PoolNotify(p)
  <2>1. /\ UNCHANGED <<sock, wpc, cur, poolQueue>>
        /\ \A d \in Conns : ctx'[d].locked = ctx[d].locked
    <3>1. CASE PoolHandle(p)
      BY <1>0, <3>1, HandledEffect DEF PoolHandle, kernelVars, socketVars, workerVars
    <3>2. CASE PoolAdd(p) \/ PoolNotify(p)
      BY <3>2 DEF PoolAdd, PoolNotify, kernelVars, socketVars, workerVars
    <3> QED BY <1>2, <3>1, <3>2
  <2>2. /\ \A q \in PoolThreads : Busy(q)' <=> Busy(q)
        /\ \A q \in PoolThreads : Busy(q) => job'[q] = job[q]
    BY <1>0, <1>2 DEF PoolHandle, PoolAdd, PoolNotify, Busy, TypeOK
  <2>3. \A d : Tasked(d)' <=> Tasked(d)
    BY <2>1, <2>2 DEF Tasked
  <2>4. TasksDistinct'
    BY <1>0, <2>1, <2>2 DEF Locking, TasksDistinct
  <2>5. WorkersLocked'
    <3>1. ASSUME NEW v \in Workers, Active(v)
          PROVE  cur[v] \in Conns /\ ctx'[cur[v]].locked = ctx[cur[v]].locked
      BY <2>1, <3>1, CurFacts
    <3> QED BY <1>0, <2>1, <2>3, <3>1 DEF Locking, WorkersLocked, Active
  <2> QED BY <1>0, <2>1, <2>3, <2>4, <2>5 DEF Locking, TasksLocked, LocksHeld
<1>3. CASE PoolUnlock(p)
  <2> DEFINE c == job[p][2]
  <2>1. /\ UNCHANGED <<sock, wpc, cur, poolQueue, job>>
        /\ ppc[p] = "unlock" /\ ppc'[p] = "notify"
        /\ \A q \in PoolThreads \ {p} : ppc'[q] = ppc[q]
        /\ ctx' = [ctx EXCEPT ![c].locked = FALSE] /\ c \in Conns
    BY <1>0, <1>3 DEF PoolUnlock, TypeOK, TaskType, kernelVars, socketVars, workerVars
  <2>2. Busy(p) /\ ~Busy(p)' /\ \A q \in PoolThreads \ {p} : Busy(q)' <=> Busy(q)
    BY <2>1 DEF Busy
  <2>3. /\ \A d \in Conns \ {c} : ctx'[d].locked = ctx[d].locked
        /\ ~ctx'[c].locked
    BY <1>0, <2>1, UnlockEffect
  <2>4. Tasked(c)
    BY <2>2 DEF Tasked
  <2>5. \A d : Tasked(d)' <=> Tasked(d) /\ d # c
    <3>1. ASSUME NEW d, Tasked(d)' PROVE Tasked(d) /\ d # c
      <4>1. CASE \E i \in DOMAIN poolQueue : poolQueue[i][2] = d
        BY <1>0, <2>2, <4>1 DEF Locking, TasksDistinct, Tasked
      <4>2. ASSUME NEW q \in PoolThreads, Busy(q)', job[q][2] = d
            PROVE  Tasked(d) /\ d # c
        BY <1>0, <2>2, <4>2 DEF Locking, TasksDistinct, Tasked
      <4> QED BY <2>1, <3>1, <4>1, <4>2 DEF Tasked
    <3>2. ASSUME NEW d, Tasked(d), d # c PROVE Tasked(d)'
      BY <2>1, <2>2, <3>2 DEF Tasked
    <3> QED BY <3>1, <3>2
  <2> HIDE DEF c
  <2>6. TasksDistinct'
    BY <1>0, <2>1, <2>2 DEF Locking, TasksDistinct
  <2>7. TasksLocked'
    BY <1>0, <2>1, <2>3, <2>5 DEF Locking, TasksLocked
  <2>8. WorkersLocked'
    <3>1. ASSUME NEW v \in Workers, Active(v) PROVE cur[v] \in Conns
      BY <3>1, CurFacts
    <3>2. ASSUME NEW v \in Workers, wpc[v] = "handle" PROVE cur[v] # c
      BY <1>0, <2>4, <3>2 DEF Locking, WorkersLocked
    <3> QED BY <1>0, <2>1, <2>3, <2>5, <3>1, <3>2 DEF Locking, WorkersLocked, Active
  <2>9. LocksHeld'
    BY <1>0, <2>1, <2>3, <2>5 DEF Locking, LocksHeld
  <2> QED BY <2>6, <2>7, <2>8, <2>9 DEF Locking
<1> QED BY <1>1, <1>2, <1>3 DEF Pool

\* The second layer is kept by every step.
LEMMA LockingNext == IInv /\ [Step]_vars => Locking'
<1> SUFFICES ASSUME IInv, [Step]_vars PROVE Locking'
  OBVIOUS
<1>0. TypeOK /\ Ownership /\ Locking
  BY DEF IInv
<1>a. \A c \in Conns : Tasked(c) => sock[c] = "open"
  BY <1>0 DEF Locking, TasksLocked
<1>b. \A c \in Conns : Tasked(c) => ~Unserved(c) /\ c \in InPool
  BY TaskedIsInPool DEF Tasked, Busy, Unserved
<1> USE DEF vars, kernelVars, socketVars, acceptVars, workerVars, poolVars, writeFrame
<1>1. CASE \/ \E c \in Conns : Send(c) \/ HalfClose(c) \/ Reset(c)
           \/ Signal \/ LeaveLoop \/ StopWorker \/ UNCHANGED vars
  <2>1. UNCHANGED <<sock, ctx, poolQueue, ppc, job, wpc, cur>>
    BY <1>1 DEF Send, HalfClose, Reset, Signal, LeaveLoop, StopWorker
  <2> QED BY <1>a, <2>1, IdleLocking
<1>2. CASE Tick
  <2>1. UNCHANGED <<sock, poolQueue, ppc, job, wpc, cur>>
    BY <1>2 DEF Tick
  <2>2. ASSUME NEW c \in Conns PROVE ctx'[c].locked = ctx[c].locked
    <3>1. ctx[c] \in ContextType
      BY <1>0 DEF TypeOK
    <3>2. \/ ctx'[c] = ctx[c]
          \/ \E m : ctx'[c] = [ctx[c] EXCEPT !.age = m]
      BY <1>2 DEF Tick
    <3> QED BY <3>1, <3>2 DEF ContextType
  <2> QED BY <1>a, <2>1, <2>2, IdleLocking
<1>3. ASSUME NEW c \in Conns, Accept(c) PROVE Locking'
  <2>1. /\ UNCHANGED <<ctx, poolQueue, ppc, job, wpc, cur>>
        /\ \A d \in Conns : sock[d] = "open" => sock'[d] = "open"
    BY <1>0, <1>3 DEF Accept, TypeOK
  <2> QED BY <1>a, <2>1, IdleLocking
<1>4. CASE EnqueueClient
  <2>1. UNCHANGED <<ctx, poolQueue, ppc, job, wpc, cur>>
    BY <1>4 DEF EnqueueClient
  <2>2. Unserved(newest)
    BY <1>0, <1>4 DEF EnqueueClient, TypeOK, Ownership, Arrivals
  <2>3. \A d \in Conns \ {newest} : sock'[d] = sock[d]
    BY <1>0, <1>4, CloseAllEffect DEF EnqueueClient, Close
  <2> QED BY <1>a, <1>b, <2>1, <2>2, <2>3, IdleLocking
<1>5. CASE JoinWorker
  <2>1. UNCHANGED <<ctx, poolQueue, ppc, job, wpc, cur>>
    BY <1>5 DEF JoinWorker
  <2>2. \A d \in Conns : d \in InPool => sock'[d] = sock[d]
    BY <1>0, <1>5, CloseAllEffect DEF JoinWorker
  <2> QED BY <1>a, <1>b, <2>1, <2>2, IdleLocking
<1>6. ASSUME NEW w \in Workers, Worker(w) PROVE Locking'
  <2>0. /\ \A v \in Workers \ {w} : wpc'[v] = wpc[v] /\ cur'[v] = cur[v]
        /\ Active(w) => cur[w] \in Conns /\ cur[w] \in Served(w)
    BY <1>6, OthersStay, CurFacts
  <2>1. CASE \/ Wait(w) \/ AdoptDone(w) \/ PassDone(w)
             \/ \E e \in events[w] : SkipEvent(w, e) \/ ReadNothing(w, e)
    <3>1. /\ UNCHANGED <<sock, ctx, poolQueue, ppc, job>>
          /\ wpc[w] # "handle" /\ wpc'[w] \notin {"handle", "header", "retry", "content"}
      BY <1>0, <2>1 DEF Wait, AdoptDone, PassDone, SkipEvent, ReadNothing, ReadEvent,
                        Pick, TakeBytes, TypeOK
    <3>2. {} \in SUBSET Conns
      OBVIOUS
    <3> QED BY <2>0, <3>1, <3>2, MoveLocking
  <2>2. ASSUME NEW c \in Conns, c \in Served(w), ~ctx[c].locked, Discard(w, c),
               wpc[w] # "handle",
               wpc'[w] \notin {"handle", "header", "retry", "content"},
               UNCHANGED <<poolQueue, ppc, job>>
        PROVE  Locking'
    <3>1. /\ \A d \in Conns \ {c} : ctx'[d].locked = ctx[d].locked /\ sock'[d] = sock[d]
          /\ ~ctx'[c].locked
      <4>1. /\ CloseAll({c})
            /\ \A d \in Conns : ctx'[d] = IF d = c THEN FreshContext ELSE ctx[d]
        BY <1>0, <2>2, DiscardEffect
      <4>2. \A d \in Conns \ {c} : sock'[d] = sock[d]
        BY <1>0, <4>1, CloseAllEffect
      <4> QED BY <4>1, <4>2 DEF FreshContext
    <3> QED BY <2>0, <2>2, <3>1, UseLocking
  <2>3. CASE CleanUp(w)
    <3>1. PICK fd \in expired[w] :
            \/ UNCHANGED <<interest, contexts, socketVars, ctx>>
            \/ ~ctx[contexts[w][fd]].locked /\ Discard(w, contexts[w][fd])
      BY <2>3 DEF CleanUp
    <3>2. /\ UNCHANGED <<poolQueue, ppc, job>> /\ wpc[w] # "handle"
          /\ wpc'[w] \notin {"handle", "header", "retry", "content"}
      BY <1>0, <2>3 DEF CleanUp, TypeOK
    <3>3. CASE UNCHANGED <<interest, contexts, socketVars, ctx>>
      <4>1. {} \in SUBSET Conns
        OBVIOUS
      <4> QED BY <2>0, <3>2, <3>3, <4>1, MoveLocking
    <3>4. CASE ~ctx[contexts[w][fd]].locked /\ Discard(w, contexts[w][fd])
      <4>1. contexts[w][fd] \in Conns /\ contexts[w][fd] \in Served(w)
        BY OverdueFacts
      <4> QED BY <2>2, <3>2, <3>4, <4>1
    <3> QED BY <3>1, <3>3, <3>4
  <2>4. CASE Adopt(w)
    <3>1. PICK c : c = Head(queue[w])
      OBVIOUS
    <3>2. /\ c \in Conns /\ Unserved(c)
          /\ \A d \in Conns : ctx'[d] = IF d = c THEN FreshContext ELSE ctx[d]
      BY <2>4, <3>1, AdoptEffect
    <3>3. /\ UNCHANGED <<sock, poolQueue, ppc, job, wpc, cur>> /\ wpc[w] = "adopt"
      BY <2>4 DEF Adopt
    <3>4. /\ \A d \in Conns \ {c} : ctx'[d].locked = ctx[d].locked
          /\ ~ctx'[c].locked /\ ~Tasked(c) /\ {c} \in SUBSET Conns
      BY <1>b, <3>2 DEF FreshContext
    <3>5. \A v \in Workers \ {w} : Active(v) => cur[v] \notin {c}
      BY <3>2, CurFacts DEF Unserved
    <3> QED BY <2>0, <3>3, <3>4, <3>5, MoveLocking
  <2>5. CASE Exit(w)
    <3>1. PICK cs \in SUBSET (Served(w) \ InPool) : CloseAll(cs)
      BY <2>5 DEF Exit
    <3>2. /\ wpc[w] = "wait" /\ wpc'[w] = "exited" /\ UNCHANGED <<ctx, poolQueue, ppc, job>>
      BY <1>0, <2>5 DEF Exit, TypeOK
    <3>3. cs \in SUBSET Conns /\ \A d \in cs : d \in Conns /\ d \in Served(w) /\ d \notin InPool
      BY DEF Served
    <3>4. \A d \in Conns \ cs : sock'[d] = sock[d]
      BY <1>0, <3>1, CloseAllEffect
    <3>5. \A d \in cs : ~Tasked(d)
      BY <3>3, TaskedIsInPool
    <3>6. \A v \in Workers \ {w} : Active(v) => cur[v] \notin cs
      BY <3>3, ServedAlone
    <3>7. \A d \in cs : ~ctx[d].locked
      <4> SUFFICES ASSUME NEW d \in cs, ctx[d].locked PROVE FALSE
        OBVIOUS
      <4>1. PICK v \in Workers : wpc[v] = "handle" /\ cur[v] = d
        BY <1>0, <3>3, <3>5 DEF Locking, LocksHeld
      <4>2. v # w /\ Active(v)
        BY <3>2, <4>1 DEF Active
      <4> QED BY <3>6, <4>1, <4>2
    <3> QED BY <2>0, <3>2, <3>3, <3>4, <3>5, <3>6, <3>7, MoveLocking
  <2>6. ASSUME NEW e \in events[w], Event(w, e) PROVE Locking'
    <3> DEFINE c == Found(w, e)
    <3>1. CASE SkipEvent(w, e) \/ ReadNothing(w, e)
      BY <2>1, <3>1
    <3>2. CASE Disconnect(w, e)
      <4>1. /\ Pick(w, e) /\ Usable(w, e) /\ Discard(w, c)
            /\ UNCHANGED <<wpc, poolQueue, ppc, job>> /\ wpc[w] = "events"
        BY <3>2 DEF Disconnect, Pick
      <4> QED BY <2>2, <4>1, FoundFacts
    <3>3. CASE ReadFailed(w, e)
      <4>1. /\ Pick(w, e) /\ Usable(w, e) /\ Discard(w, c)
            /\ UNCHANGED <<wpc, poolQueue, ppc, job>> /\ wpc[w] = "events"
        BY <3>3 DEF ReadFailed, ReadEvent, Pick
      <4> QED BY <2>2, <4>1, FoundFacts
    <3>4. ASSUME Pick(w, e), Usable(w, e), SendResponse(w, c),
                 UNCHANGED <<sock, wpc, poolQueue, ppc, job>>
          PROVE  Locking'
      <4>1. c \in Conns /\ c \in Served(w) /\ ~ctx[c].locked /\ wpc[w] = "events"
        BY <3>4, FoundFacts DEF Pick
      <4> HIDE DEF c
      <4>2. (\A d \in Conns \ {c} : ctx'[d] = ctx[d]) /\ ~ctx'[c].locked
        BY <1>0, <3>4, <4>1, SendResponseEffect
      <4> QED BY <2>0, <3>4, <4>1, <4>2, UseLocking
    <3>5. CASE ReadRefused(w, e)
      BY <3>4, <3>5 DEF ReadRefused, ReadEvent, TakeBytes
    <3>6. CASE ReadSmall(w, e)
      <4>1. /\ Pick(w, e) /\ Usable(w, e) /\ Lock(w, c)
            /\ UNCHANGED <<sock, poolQueue, ppc, job>>
            /\ wpc[w] = "events" /\ wpc'[w] = "handle" /\ cur'[w] = c
        BY <1>0, <3>6 DEF ReadSmall, ReadEvent, TakeBytes, Pick, TypeOK
      <4>2. c \in Conns /\ c \in Served(w) /\ ~ctx[c].locked
        BY <4>1, FoundFacts
      <4> HIDE DEF c
      <4>3. (\A d \in Conns \ {c} : ctx'[d] = ctx[d]) /\ ctx'[c].locked
        BY <1>0, <4>1, <4>2, LockEffect
      <4> QED BY <2>0, <4>1, <4>2, <4>3, UseLocking
    <3>7. CASE ReadLarge(w, e)
      <4>1. /\ Pick(w, e) /\ Usable(w, e) /\ wpc[w] = "events"
            /\ UNCHANGED <<sock, wpc, cur, ppc, job>>
            /\ \/ Lock(w, c) /\ poolQueue' = Append(poolQueue, <<w, c>>)
               \/ SendResponse(w, c) /\ UNCHANGED poolQueue
        BY <3>7 DEF ReadLarge, ReadEvent, TakeBytes, Pick
      <4>2. CASE SendResponse(w, c) /\ UNCHANGED poolQueue
        BY <3>4, <4>1, <4>2
      <4>3. CASE Lock(w, c) /\ poolQueue' = Append(poolQueue, <<w, c>>)
        <5>1. c \in Conns /\ c \in Served(w) /\ ~ctx[c].locked
          BY <4>1, FoundFacts
        <5> HIDE DEF c
        <5>2. (\A d \in Conns \ {c} : ctx'[d] = ctx[d]) /\ ctx'[c].locked
          BY <1>0, <4>3, <5>1, LockEffect
        <5> QED BY <4>1, <4>3, <5>1, <5>2, TaskAddedLocking
      <4> QED BY <4>1, <4>2, <4>3
    <3>8. CASE WriteNothing(w, e)
      <4>1. /\ Pick(w, e) /\ Usable(w, e) /\ Finished(w, c) /\ wpc[w] = "events"
            /\ UNCHANGED <<wpc, cur, poolQueue, ppc, job>>
        BY <3>8 DEF WriteNothing, Pick
      <4>2. c \in Conns /\ c \in Served(w) /\ ~ctx[c].locked
        BY <4>1, FoundFacts
      <4> HIDE DEF c
      <4>3. CASE Discard(w, c)
        BY <2>2, <4>1, <4>2, <4>3
      <4>4. CASE Kept(w, c)
        <5>1. /\ \A d \in Conns \ {c} : ctx'[d].locked = ctx[d].locked /\ sock'[d] = sock[d]
              /\ ~ctx'[c].locked
          BY <4>2, <4>4 DEF Kept
        <5> QED BY <2>0, <4>1, <4>2, <5>1, UseLocking
      <4> QED BY <1>0, <4>1, <4>2, <4>3, <4>4, FinishedEffect
    <3>9. CASE WriteEvent(w, e)
      <4>1. /\ Pick(w, e) /\ Usable(w, e) /\ wpc[w] = "events"
            /\ UNCHANGED <<sock, ctx, poolQueue, ppc, job>>
            /\ wpc'[w] \in {"header", "content"} /\ cur'[w] = c
        BY <1>0, <3>9 DEF WriteEvent, Pick, TypeOK
      <4>2. c \in Conns /\ c \in Served(w) /\ ~ctx[c].locked
        BY <4>1, FoundFacts
      <4> HIDE DEF c
      <4> QED BY <2>0, <4>1, <4>2, UseLocking
    <3> QED BY <2>6, <3>1, <3>2, <3>3, <3>5, <3>6, <3>7, <3>8, <3>9 DEF Event
  <2>7. CASE HandleInline(w)
    <3>1. /\ wpc[w] = "handle" /\ wpc'[w] = "events"
          /\ UNCHANGED <<sock, poolQueue, ppc, job>>
      BY <1>0, <2>7 DEF HandleInline, TypeOK
    <3>2. PICK c \in Conns : c = cur[w] /\ c \in Served(w)
      BY <2>0, <3>1 DEF Active
    <3>3. (\A d \in Conns \ {c} : ctx'[d] = ctx[d]) /\ ~ctx'[c].locked
      BY <1>0, <2>7, <3>2, HandledInlineEffect
    <3> QED BY <2>0, <3>1, <3>2, <3>3, UseLocking
  <2>8. CASE HeaderSent(w) \/ WriteBlocked(w) \/ HeaderFailed(w) \/ Retry(w)
    <3>1. /\ wpc[w] \in {"header", "retry", "content"}
          /\ \/ wpc'[w] \in {"header", "retry", "content"} /\ cur'[w] = cur[w]
             \/ wpc'[w] = "events"
          /\ UNCHANGED <<sock, poolQueue, ppc, job>>
          /\ \/ ctx' = ctx
             \/ ctx' = [ctx EXCEPT ![cur[w]].reply = {"content"}]
      BY <1>0, <2>8 DEF HeaderSent, WriteBlocked, HeaderFailed, Retry, Return, TypeOK
    <3>2. PICK c \in Conns : c = cur[w] /\ c \in Served(w) /\ ~ctx[c].locked
      BY <1>0, <2>0, <3>1 DEF Active, Locking, WorkersLocked
    <3>3. \A d \in Conns : ctx'[d].locked = ctx[d].locked
      <4>1. CASE ctx' = ctx
        BY <4>1
      <4>2. CASE ctx' = [ctx EXCEPT ![c].reply = {"content"}]
        BY <1>0, <4>2, HeaderSentEffect
      <4> QED BY <3>1, <3>2, <4>1, <4>2
    <3> QED BY <2>0, <3>1, <3>2, <3>3, UseLocking
  <2>9. CASE ResponseSent(w) \/ ContentFailed(w)
    <3>1. /\ wpc[w] \in {"header", "content"} /\ wpc'[w] = "events"
          /\ UNCHANGED <<poolQueue, ppc, job>>
          /\ Finished(w, cur[w]) \/ Discard(w, cur[w])
      BY <1>0, <2>9 DEF ResponseSent, ContentFailed, Return, TypeOK
    <3>2. PICK c \in Conns : c = cur[w] /\ c \in Served(w) /\ ~ctx[c].locked
      BY <1>0, <2>0, <3>1 DEF Active, Locking, WorkersLocked
    <3>3. CASE Discard(w, c)
      BY <2>2, <3>1, <3>2, <3>3
    <3>4. CASE Kept(w, c)
      <4>1. /\ \A d \in Conns \ {c} : ctx'[d].locked = ctx[d].locked /\ sock'[d] = sock[d]
            /\ ~ctx'[c].locked
        BY <3>2, <3>4 DEF Kept
      <4> QED BY <2>0, <3>1, <3>2, <4>1, UseLocking
    <3> QED BY <1>0, <3>1, <3>2, <3>3, <3>4, FinishedEffect
  <2> QED BY <1>6, <2>1, <2>3, <2>4, <2>5, <2>6, <2>7, <2>8, <2>9 DEF Worker
<1>7. ASSUME NEW p \in PoolThreads, Pool(p) PROVE Locking'
  BY <1>7, PoolLocking
<1> QED BY <1>1, <1>2, <1>3, <1>4, <1>5, <1>6, <1>7 DEF Step, Environment, Acceptor
-----------------------------------------------------------------------------
(* What a connection waits for *)

\* Connections other than cs are served, answered, locked and registered as before.
Untouched(w, cs) ==
    /\ \A d \in Conns \ cs : /\ ctx'[d].reply = ctx[d].reply
                             /\ ctx'[d].locked = ctx[d].locked
                             /\ fdOf'[d] = fdOf[d]
    /\ \A v \in Workers, fd \in Fds :
          interest'[v][fd] = interest[v][fd] \/ (v = w /\ \E d \in cs : fd = fdOf[d])
    /\ \A v \in Workers, d \in Conns \ cs : d \in Served(v)' => d \in Served(v)

\* Their descriptors are other descriptors than those of cs.
LEMMA UntouchedInterest ==
  ASSUME IInv, NEW w \in Workers, NEW cs \in SUBSET Conns, Untouched(w, cs),
         NEW v \in Workers, NEW d \in Conns \ cs, d \in Served(v)
  PROVE  interest'[v][fdOf'[d]] = interest[v][fdOf[d]]
<1>1. fdOf[d] \in Fds /\ fdOf[d] # NoFd
  BY ServedFacts, ServerAssumption
<1>2. \A c \in cs : fdOf[c] # fdOf[d]
  BY <1>1 DEF IInv, Ownership, Descriptors
<1> QED BY <1>1, <1>2 DEF Untouched

\* So Polled is left to show for cs alone,
LEMMA PolledStep ==
  ASSUME IInv, NEW w \in Workers, NEW cs \in SUBSET Conns, Untouched(w, cs),
         \A v \in Workers : \A d \in cs : d \in Served(v)' => PolledAt(v, d)'
  PROVE  Polled'
<1> SUFFICES ASSUME NEW v \in Workers, NEW d \in Served(v)' PROVE PolledAt(v, d)'
  BY DEF Polled
<1>1. d \in Conns
  BY DEF Served
<1>2. CASE d \in cs
  BY <1>2
<1>3. CASE d \notin cs
  <2>1. d \in Served(v) /\ d \in Conns \ cs
    BY <1>1, <1>3 DEF Untouched
  <2>2. interest'[v][fdOf'[d]] = interest[v][fdOf[d]]
    BY <2>1, UntouchedInterest
  <2>3. PolledAt(v, d)
    BY <2>1 DEF IInv, Interest, Polled
  <2> QED BY <2>1, <2>2, <2>3 DEF PolledAt, Untouched
<1> QED BY <1>2, <1>3

\* Sending for the workers that move or whose connection is among cs,
LEMMA SendingStep ==
  ASSUME IInv, NEW w \in Workers, NEW cs \in SUBSET Conns, Untouched(w, cs),
         \A v \in Workers : \/ /\ wpc'[v] = wpc[v] /\ cur'[v] = cur[v]
                               /\ Active(v) => cur[v] \notin cs
                            \/ SendingAt(v)'
  PROVE  Sending'
<1> SUFFICES ASSUME NEW v \in Workers PROVE SendingAt(v)'
  BY DEF Sending
<1>1. CASE SendingAt(v)'
  BY <1>1
<1>2. CASE /\ wpc'[v] = wpc[v] /\ cur'[v] = cur[v]
           /\ Active(v) => cur[v] \notin cs
  <2>1. Active(v) => ctx'[cur[v]].reply = ctx[cur[v]].reply
    BY <1>2, CurFacts DEF Untouched
  <2>2. SendingAt(v)
    BY DEF IInv, Interest, Sending
  <2> QED BY <1>2, <2>1, <2>2 DEF SendingAt, Active
<1> QED BY <1>1, <1>2

\* and Finalizing for the pool threads that move.
LEMMA FinalizingStep ==
  ASSUME IInv, NEW w \in Workers, NEW cs \in SUBSET Conns, Untouched(w, cs),
         NEW p \in PoolThreads, ppc'[p] = ppc[p], job'[p] = job[p],
         ppc[p] \in {"add", "unlock"} => job[p][2] \notin cs
  PROVE  /\ ppc'[p] \in {"add", "unlock"} => ctx'[job'[p][2]].reply # {}
         /\ ppc'[p] = "unlock" /\ job'[p][2] \in Served(job[p][1])' =>
               interest'[job'[p][1]][fdOf'[job'[p][2]]] = "write"
<1> SUFFICES ASSUME ppc[p] \in {"add", "unlock"}
             PROVE  /\ ctx'[job[p][2]].reply # {}
                    /\ ppc[p] = "unlock" /\ job[p][2] \in Served(job[p][1])' =>
                          interest'[job[p][1]][fdOf'[job[p][2]]] = "write"
  OBVIOUS
<1>1. job[p][1] \in Workers /\ job[p][2] \in Conns \ cs
  <2>1. job[p] \in Workers \X Conns
    BY DEF IInv, TypeOK, TaskType
  <2> QED BY <2>1
<1>2. PICK v \in Workers, d \in Conns \ cs : v = job[p][1] /\ d = job[p][2]
  BY <1>1
<1>3. ctx[d].reply # {} /\ (ppc[p] = "unlock" /\ d \in Served(v) => interest[v][fdOf[d]] = "write")
  BY <1>2 DEF IInv, Interest, Finalizing
<1>4. d \in Served(v) => interest'[v][fdOf'[d]] = interest[v][fdOf[d]]
  BY UntouchedInterest
<1> QED BY <1>2, <1>3, <1>4 DEF Untouched

\* A step that is not the pool's.
LEMMA InterestStep ==
  ASSUME IInv, NEW w \in Workers, NEW cs \in SUBSET Conns, Untouched(w, cs),
         UNCHANGED <<ppc, job>>,
         \A v \in Workers \ {w} : wpc'[v] = wpc[v] /\ cur'[v] = cur[v],
         \A v \in Workers \ {w} : Active(v) => cur[v] \notin cs,
         \/ wpc'[w] = wpc[w] /\ cur'[w] = cur[w] /\ (Active(w) => cur[w] \notin cs)
         \/ SendingAt(w)',
         \A p \in PoolThreads : Busy(p) => job[p][2] \notin cs,
         \A v \in Workers : \A d \in cs : d \in Served(v)' => PolledAt(v, d)'
  PROVE  Interest'
<1>1. Polled'
  BY PolledStep
<1>2. Sending'
  BY SendingStep
<1>3. Finalizing'
  <2>1. ASSUME NEW p \in PoolThreads
        PROVE  /\ ppc'[p] \in {"add", "unlock"} => ctx'[job'[p][2]].reply # {}
               /\ ppc'[p] = "unlock" /\ job'[p][2] \in Served(job[p][1])' =>
                     interest'[job'[p][1]][fdOf'[job'[p][2]]] = "write"
    <3>1. ppc[p] \in {"add", "unlock"} => job[p][2] \notin cs
      BY DEF Busy
    <3> QED BY <3>1, FinalizingStep
  <2> QED BY <2>1 DEF Finalizing, Served
<1> QED BY <1>1, <1>2, <1>3 DEF Interest

\* The connection of a worker's table that it may use is not a pool thread's.
LEMMA NotBusy ==
  ASSUME IInv, NEW c \in Conns, ~Tasked(c)
  PROVE  \A p \in PoolThreads : Busy(p) => job[p][2] \notin {c}
BY DEF Tasked

\* A step that changes none of it.
LEMMA IdleInterest ==
  ASSUME IInv, UNCHANGED <<fdOf, interest, contexts, ppc, job>>,
         \A d \in Conns : /\ ctx'[d].reply = ctx[d].reply
                          /\ ctx'[d].locked = ctx[d].locked,
         \A v \in Workers : \/ wpc'[v] = wpc[v] /\ cur'[v] = cur[v]
                            \/ SendingAt(v)'
  PROVE  Interest'
<1>1. PICK w \in Workers : w = 0
  BY ServerAssumption DEF Workers
<1>2. Untouched(w, {}) /\ {} \in SUBSET Conns
  BY DEF Untouched, Served
<1>3. Polled'
  BY <1>2, PolledStep
<1>4. Sending'
  BY <1>2, SendingStep
<1>5. Finalizing'
  <2>1. ASSUME NEW p \in PoolThreads
        PROVE  /\ ppc'[p] \in {"add", "unlock"} => ctx'[job'[p][2]].reply # {}
               /\ ppc'[p] = "unlock" /\ job'[p][2] \in Served(job[p][1])' =>
                     interest'[job'[p][1]][fdOf'[job'[p][2]]] = "write"
    BY <1>2, FinalizingStep
  <2> QED BY <2>1 DEF Finalizing, Served
<1> QED BY <1>3, <1>4, <1>5 DEF Interest

\* A worker that does something with a connection of its table.
LEMMA UseInterest ==
  ASSUME IInv, NEW w \in Workers, NEW c \in Conns, c \in Served(w),
         ~ctx[c].locked \/ (wpc[w] = "handle" /\ cur[w] = c),
         UNCHANGED <<fdOf, contexts, ppc, job>>,
         \A v \in Workers \ {w} : wpc'[v] = wpc[v] /\ cur'[v] = cur[v],
         \A d \in Conns \ {c} : ctx'[d] = ctx[d],
         \A v \in Workers, fd \in Fds :
            interest'[v][fd] = interest[v][fd] \/ (v = w /\ fd = fdOf[c]),
         SendingAt(w)', PolledAt(w, c)'
  PROVE  Interest'
<1>1. ~Tasked(c)
  <2>1. CASE ~ctx[c].locked
    BY <2>1, Unlocked
  <2>2. CASE wpc[w] = "handle" /\ cur[w] = c
    BY <2>2 DEF IInv, Locking, WorkersLocked
  <2> QED BY <2>1, <2>2
<1>2. \A v \in Workers \ {w} : Active(v) => cur[v] \notin {c}
  BY ServedAlone
<1>3. Untouched(w, {c}) /\ {c} \in SUBSET Conns
  BY DEF Untouched, Served
<1>4. \A p \in PoolThreads : Busy(p) => job[p][2] \notin {c}
  BY <1>1, NotBusy
<1>5. \A v \in Workers : \A d \in {c} : d \in Served(v)' => PolledAt(v, d)'
  <2>1. \A v \in Workers : c \in Served(v)' => v = w
    BY ServedFacts DEF Served
  <2> QED BY <2>1
<1> QED BY <1>2, <1>3, <1>4, <1>5, InterestStep

\* A worker that closes a connection of its table.
LEMMA DiscardInterest ==
  ASSUME IInv, NEW w \in Workers, NEW c \in Conns, c \in Served(w), ~ctx[c].locked,
         Discard(w, c), UNCHANGED <<ppc, job>>,
         \A v \in Workers \ {w} : wpc'[v] = wpc[v] /\ cur'[v] = cur[v],
         ~Active(w)'
  PROVE  Interest'
<1>0. TypeOK
  BY DEF IInv
<1>1. ~Tasked(c)
  BY Unlocked
<1>2. \A v \in Workers \ {w} : Active(v) => cur[v] \notin {c}
  BY ServedAlone
<1>3. Untouched(w, {c}) /\ {c} \in SUBSET Conns
  <2>1. /\ CloseAll({c})
        /\ \A v \in Workers, fd \in Fds :
              interest'[v][fd] = IF v = w /\ fd = fdOf[c] THEN "none"
                                 ELSE interest[v][fd]
        /\ \A d \in Conns : ctx'[d] = IF d = c THEN FreshContext ELSE ctx[d]
    BY <1>0, DiscardEffect
  <2>2. \A d \in Conns \ {c} : fdOf'[d] = fdOf[d]
    BY <1>0, <2>1, CloseAllEffect
  <2>3. \A v \in Workers, d \in Conns \ {c} : d \in Served(v)' => d \in Served(v)
    BY DiscardServed
  <2> QED BY <2>1, <2>2, <2>3 DEF Untouched
<1>4. \A p \in PoolThreads : Busy(p) => job[p][2] \notin {c}
  BY <1>1, NotBusy
<1>5. \A v \in Workers : \A d \in {c} : d \in Served(v)' => PolledAt(v, d)'
  BY DiscardServed
<1>6. SendingAt(w)'
  BY DEF SendingAt, Active
<1> QED BY <1>2, <1>3, <1>4, <1>5, <1>6, InterestStep

\* The connection of a pool thread's task, which that thread has yet to unlock.
LEMMA BusyFacts ==
  ASSUME IInv, NEW p \in PoolThreads, Busy(p)
  PROVE  /\ job[p][1] \in Workers /\ job[p][2] \in Conns
         /\ ctx[job[p][2]].locked /\ fdOf[job[p][2]] \in Fds
         /\ \A v \in Workers : /\ Active(v) => cur[v] # job[p][2]
                               /\ job[p][2] \in Served(v) => v = job[p][1]
         /\ \A q \in PoolThreads \ {p} : Busy(q) => job[q][2] # job[p][2]
<1>0. TypeOK /\ Ownership /\ Locking
  BY DEF IInv
<1>1. job[p] \in Workers \X Conns
  BY <1>0 DEF TypeOK, TaskType, Busy
<1>2. job[p][1] \in Workers /\ job[p][2] \in Conns
  BY <1>1
<1>3. Tasked(job[p][2])
  BY DEF Tasked
<1>4. ctx[job[p][2]].locked /\ sock[job[p][2]] = "open"
  BY <1>0, <1>2, <1>3 DEF Locking, TasksLocked
<1>5. fdOf[job[p][2]] \in Fds
  BY <1>0, <1>2, <1>4 DEF Ownership, Descriptors, TypeOK
<1>6. \A v \in Workers : Active(v) => cur[v] # job[p][2]
  BY <1>0, <1>3, <1>4 DEF Locking, WorkersLocked, Active
<1>7. \A v \in Workers : job[p][2] \in Served(v) => v = job[p][1]
  BY <1>0 DEF Ownership, Tasks, Placed, Busy
<1>8. \A q \in PoolThreads \ {p} : Busy(q) => job[q][2] # job[p][2]
  BY <1>0 DEF Locking, TasksDistinct
<1> QED BY <1>2, <1>4, <1>5, <1>6, <1>7, <1>8

\* A task registers its connection with a response before it unlocks it.
LEMMA PoolInterest ==
  ASSUME IInv, NEW p \in PoolThreads, Pool(p)
  PROVE  Interest'
<1>0. TypeOK /\ Interest
  BY DEF IInv
<1> USE DEF kernelVars, socketVars, acceptVars, workerVars
<1>1. CASE PoolTake(p) \/ PoolNotify(p)
  <2>1. /\ UNCHANGED <<fdOf, interest, contexts, ctx, wpc, cur>>
        /\ ppc'[p] \in {"handle", "idle"}
        /\ \A q \in PoolThreads \ {p} : job'[q] = job[q] /\ ppc'[q] = ppc[q]
    BY <1>0, <1>1 DEF PoolTake, PoolNotify, TypeOK
  <2>2. \A w : Served(w)' = Served(w)
    BY <2>1 DEF Served
  <2>3. Polled' /\ Sending'
    BY <1>0, <2>1, <2>2 DEF Interest, Polled, PolledAt, Sending, SendingAt
  <2>4. Finalizing'
    BY <1>0, <2>1, <2>2 DEF Interest, Finalizing
  <2> QED BY <2>3, <2>4 DEF Interest
<1>2. CASE PoolHandle(p) \/ PoolAdd(p) \/ PoolUnlock(p)
  <2>1. /\ UNCHANGED <<fdOf, contexts, wpc, cur, job>>
        /\ ppc[p] \in {"handle", "add", "unlock"}
        /\ \A q \in PoolThreads \ {p} : ppc'[q] = ppc[q]
    BY <1>0, <1>2 DEF PoolHandle, PoolAdd, PoolUnlock, TypeOK
  <2>2. Busy(p)
    BY <2>1 DEF Busy
  <2>3. PICK w \in Workers, c \in Conns : w = job[p][1] /\ c = job[p][2]
    BY <2>2, BusyFacts
  <2>4. /\ ctx[c].locked /\ fdOf[c] \in Fds
        /\ \A v \in Workers : /\ Active(v) => cur[v] # c
                              /\ c \in Served(v) => v = w
        /\ \A q \in PoolThreads \ {p} : Busy(q) => job[q][2] # c
    BY <2>2, <2>3, BusyFacts
  <2>5. /\ interest \in [Workers -> [Fds -> {"none", "read", "write"}]]
        /\ \A v : Served(v)' = Served(v)
    BY <1>0, <2>1 DEF TypeOK, Served
  <2>6. /\ \A d \in Conns \ {c} : ctx'[d] = ctx[d]
        /\ \A v \in Workers, fd \in Fds :
              interest'[v][fd] = interest[v][fd] \/ (v = w /\ fd = fdOf[c])
        /\ ppc'[p] \in {"add", "unlock"} => ctx'[c].reply # {}
        /\ ppc'[p] = "unlock" => interest'[w][fdOf[c]] = "write"
        /\ c \in Served(w) => PolledAt(w, c)'
    <3>1. CASE PoolHandle(p)
      <4>1. /\ \A d \in Conns \ {c} : ctx'[d] = ctx[d]
            /\ ctx'[c].reply # {} /\ ctx'[c].locked = ctx[c].locked
        BY <1>0, <2>3, <3>1, HandledEffect
      <4>2. interest' = interest /\ ppc'[p] = "add"
        BY <1>0, <3>1 DEF PoolHandle, TypeOK
      <4> QED BY <2>1, <2>4, <4>1, <4>2 DEF PolledAt
    <3>2. CASE PoolAdd(p)
      <4>1. /\ interest' = [interest EXCEPT ![w][fdOf[c]] = "write"]
            /\ ctx' = ctx /\ ppc[p] = "add"
        BY <2>3, <3>2 DEF PoolAdd
      <4>2. ctx[c].reply # {}
        BY <1>0, <2>3, <4>1 DEF Interest, Finalizing
      <4>3. /\ interest'[w][fdOf[c]] = "write"
            /\ \A v \in Workers, fd \in Fds :
                  interest'[v][fd] = interest[v][fd] \/ (v = w /\ fd = fdOf[c])
        BY <2>4, <2>5, <4>1
      <4> QED BY <2>1, <2>4, <4>1, <4>2, <4>3 DEF PolledAt
    <3>3. CASE PoolUnlock(p)
      <4>1. /\ ctx' = [ctx EXCEPT ![c].locked = FALSE] /\ interest' = interest
            /\ ppc[p] = "unlock" /\ ppc'[p] = "notify"
        BY <1>0, <2>3, <3>3 DEF PoolUnlock, TypeOK
      <4>2. /\ \A d \in Conns \ {c} : ctx'[d] = ctx[d]
            /\ ctx'[c].reply = ctx[c].reply
        BY <1>0, <4>1, UnlockEffect
      <4>3. /\ ctx[c].reply # {}
            /\ c \in Served(w) => interest[w][fdOf[c]] = "write"
        BY <1>0, <2>3, <4>1 DEF Interest, Finalizing
      <4> QED BY <2>1, <4>1, <4>2, <4>3 DEF PolledAt
    <3> QED BY <1>2, <3>1, <3>2, <3>3
  <2>7. Untouched(w, {c}) /\ {c} \in SUBSET Conns
    BY <2>1, <2>5, <2>6 DEF Untouched
  <2>8. Polled'
    <3>1. \A v \in Workers : \A d \in {c} : d \in Served(v)' => PolledAt(v, d)'
      BY <2>4, <2>5, <2>6
    <3> QED BY <2>7, <3>1, PolledStep
  <2>9. Sending'
    BY <2>1, <2>4, <2>7, SendingStep
  <2>10. Finalizing'
    <3>1. ASSUME NEW q \in PoolThreads
          PROVE  /\ ppc'[q] \in {"add", "unlock"} => ctx'[job'[q][2]].reply # {}
                 /\ ppc'[q] = "unlock" /\ job'[q][2] \in Served(job[q][1])' =>
                       interest'[job'[q][1]][fdOf'[job'[q][2]]] = "write"
      <4>1. CASE q = p
        BY <2>1, <2>3, <2>6, <4>1
      <4>2. CASE q # p
        <5>1. ppc[q] \in {"add", "unlock"} => job[q][2] \notin {c}
          BY <2>4, <4>2 DEF Busy
        <5> QED BY <2>1, <2>7, <4>2, <5>1, FinalizingStep
      <4> QED BY <4>1, <4>2
    <3> QED BY <2>1, <3>1 DEF Finalizing, Served
  <2> QED BY <2>8, <2>9, <2>10 DEF Interest
<1> QED BY <1>1, <1>2 DEF Pool

\* The third layer is kept by every step.
LEMMA InterestNext == IInv /\ [Step]_vars => Interest'
<1> SUFFICES ASSUME IInv, [Step]_vars PROVE Interest'
  OBVIOUS
<1>0. TypeOK /\ Ownership /\ Locking /\ Interest
  BY DEF IInv
<1>a. \A d \in Conns : Unserved(d) =>
         /\ \A v \in Workers : Active(v) => cur[v] # d
         /\ \A p \in PoolThreads : Busy(p) => job[p][2] # d
  BY CurFacts DEF Unserved, Busy
<1>b. PICK w0 \in Workers : w0 = 0
  BY ServerAssumption DEF Workers
<1> USE DEF vars, kernelVars, socketVars, acceptVars, workerVars, poolVars, writeFrame
<1>1. CASE \/ \E c \in Conns : Send(c) \/ HalfClose(c) \/ Reset(c)
           \/ Signal \/ LeaveLoop \/ StopWorker \/ UNCHANGED vars
  <2>1. UNCHANGED <<fdOf, interest, contexts, ctx, ppc, job, wpc, cur>>
    BY <1>1 DEF Send, HalfClose, Reset, Signal, LeaveLoop, StopWorker
  <2> QED BY <2>1, IdleInterest
<1>2. CASE Tick
  <2>1. UNCHANGED <<fdOf, interest, contexts, ppc, job, wpc, cur>>
    BY <1>2 DEF Tick
  <2>2. ASSUME NEW c \in Conns
        PROVE  ctx'[c].reply = ctx[c].reply /\ ctx'[c].locked = ctx[c].locked
    <3>1. ctx[c] \in ContextType
      BY <1>0 DEF TypeOK
    <3>2. \/ ctx'[c] = ctx[c]
          \/ \E m : ctx'[c] = [ctx[c] EXCEPT !.age = m]
      BY <1>2 DEF Tick
    <3> QED BY <3>1, <3>2 DEF ContextType
  <2> QED BY <2>1, <2>2, IdleInterest
\* An unserved connection is opened or closed.
<1>3. ASSUME NEW cs \in SUBSET Conns,
             \A d \in cs : \/ sock[d] # "open"
                           \/ /\ \A w \in Workers : d \notin Served(w)
                              /\ \A p \in PoolThreads : Busy(p) => job[p][2] # d,
             \A d \in Conns \ cs : fdOf'[d] = fdOf[d],
             UNCHANGED <<ctx, interest, contexts, ppc, job, wpc, cur>>
      PROVE  Interest'
  <2>1. Untouched(w0, cs)
    BY <1>3 DEF Untouched, Served
  <2>2. \A w \in Workers : \A d \in cs : d \notin Served(w)
    BY <1>3, ServedFacts
  <2>3. \A w \in Workers : Active(w) => cur[w] \notin cs
    BY <2>2, CurFacts
  <2>4. \A p \in PoolThreads : Busy(p) => job[p][2] \notin cs
    <3>1. \A d \in Conns : Tasked(d) => sock[d] = "open"
      BY <1>0 DEF Locking, TasksLocked
    <3>2. \A p \in PoolThreads : Busy(p) => Tasked(job[p][2])
      BY DEF Tasked
    <3> QED BY <1>3, <3>1, <3>2
  <2>5. \A w \in Workers : \A d \in cs : d \in Served(w)' => PolledAt(w, d)'
    BY <1>3, <2>2 DEF Served
  <2> QED BY <1>3, <2>1, <2>3, <2>4, <2>5, InterestStep
<1>4. ASSUME NEW c \in Conns, Accept(c) PROVE Interest'
  <2>1. /\ UNCHANGED <<ctx, interest, contexts, ppc, job, wpc, cur>>
        /\ sock[c] # "open" /\ \A d \in Conns \ {c} : fdOf'[d] = fdOf[d]
    BY <1>0, <1>4 DEF Accept, TypeOK
  <2>2. {c} \in SUBSET Conns
    OBVIOUS
  <2> QED BY <1>3, <2>1, <2>2
<1>5. CASE EnqueueClient
  <2>1. UNCHANGED <<ctx, interest, contexts, ppc, job, wpc, cur>>
    BY <1>5 DEF EnqueueClient
  <2>2. newest \in Conns /\ Unserved(newest)
    BY <1>0, <1>5 DEF EnqueueClient, TypeOK, Ownership, Arrivals
  <2>3. \A d \in Conns \ {newest} : fdOf'[d] = fdOf[d]
    BY <1>0, <1>5, CloseAllEffect DEF EnqueueClient, Close
  <2>4. {newest} \in SUBSET Conns
    BY <2>2
  <2>5. /\ \A w \in Workers : newest \notin Served(w)
        /\ \A p \in PoolThreads : Busy(p) => job[p][2] # newest
    BY <1>a, <2>2 DEF Unserved
  <2> QED BY <1>3, <2>1, <2>3, <2>4, <2>5
<1>6. CASE JoinWorker
  <2>1. UNCHANGED <<ctx, interest, contexts, ppc, job, wpc, cur>>
    BY <1>6 DEF JoinWorker
  <2>2. CASE UNCHANGED socketVars
    <3>1. {} \in SUBSET Conns
      OBVIOUS
    <3> QED BY <1>3, <2>1, <2>2, <3>1
  <2>3. CASE /\ joining = NumWorkers - 1
             /\ CloseAll({c \in Conns : sock[c] = "open"} \ InPool)
    <3> DEFINE cs == {c \in Conns : sock[c] = "open"} \ InPool
    <3>1. \A d \in Conns \ cs : fdOf'[d] = fdOf[d]
      BY <1>0, <2>3, CloseAllEffect
    <3>2. \A w \in Workers : wpc[w] = "exited"
      <4>1. \A w \in Workers : w = joining \/ w < joining
        BY <2>3, ServerAssumption DEF Workers
      <4>2. wpc[joining] = "exited"
        BY <1>6 DEF JoinWorker
      <4> QED BY <1>0, <4>1, <4>2 DEF Ownership, Joined
    <3>3. \A w \in Workers, d \in Conns : d \notin Served(w)
      BY <1>0, <3>2, ServerAssumption DEF Ownership, WorkersOwn, Served
    <3>4. \A d \in cs : \A p \in PoolThreads : Busy(p) => job[p][2] # d
      <4>1. \A p \in PoolThreads : Busy(p) => Tasked(job[p][2])
        BY DEF Tasked
      <4> QED BY <4>1, TaskedIsInPool
    <3>5. cs \in SUBSET Conns
      OBVIOUS
    <3> HIDE DEF cs
    <3> QED BY <1>3, <2>1, <3>1, <3>3, <3>4, <3>5
  <2> QED BY <1>6, <2>2, <2>3 DEF JoinWorker
<1>7. ASSUME NEW w \in Workers, Worker(w) PROVE Interest'
  <2>0. /\ \A v \in Workers \ {w} : wpc'[v] = wpc[v] /\ cur'[v] = cur[v]
        /\ Active(w) => cur[w] \in Conns /\ cur[w] \in Served(w)
    BY <1>7, OthersStay, CurFacts
  <2>a. ASSUME wpc'[w] \notin {"header", "retry", "content"} PROVE SendingAt(w)'
    BY <2>a DEF SendingAt
  <2>b. ASSUME NEW c \in Conns, c \in Served(w)
        PROVE  /\ fdOf[c] \in Fds
               /\ ~ctx[c].locked =>
                     interest[w][fdOf[c]] = IF ctx[c].reply = {} THEN "read" ELSE "write"
    <3>1. PolledAt(w, c)
      BY <1>0, <2>b DEF Interest, Polled
    <3> QED BY <2>b, <3>1, ServedFacts DEF PolledAt
  <2>1. CASE \/ Wait(w) \/ AdoptDone(w) \/ PassDone(w)
             \/ \E e \in events[w] : SkipEvent(w, e) \/ ReadNothing(w, e)
    <3>1. /\ UNCHANGED <<fdOf, interest, contexts, ctx, ppc, job>>
          /\ wpc'[w] \notin {"handle", "header", "retry", "content"}
      BY <1>0, <2>1 DEF Wait, AdoptDone, PassDone, SkipEvent, ReadNothing, ReadEvent,
                        Pick, TakeBytes, TypeOK
    <3> QED BY <2>0, <2>a, <3>1, IdleInterest
  <2>2. CASE CleanUp(w)
    <3>1. PICK fd \in expired[w] :
            \/ UNCHANGED <<interest, contexts, socketVars, ctx>>
            \/ ~ctx[contexts[w][fd]].locked /\ Discard(w, contexts[w][fd])
      BY <2>2 DEF CleanUp
    <3>2. /\ UNCHANGED <<ppc, job>>
          /\ wpc'[w] \notin {"handle", "header", "retry", "content"}
      BY <1>0, <2>2 DEF CleanUp, TypeOK
    <3>3. CASE UNCHANGED <<interest, contexts, socketVars, ctx>>
      BY <2>0, <2>a, <3>2, <3>3, IdleInterest
    <3>4. CASE ~ctx[contexts[w][fd]].locked /\ Discard(w, contexts[w][fd])
      <4>1. contexts[w][fd] \in Conns /\ contexts[w][fd] \in Served(w)
        BY OverdueFacts
      <4>2. ~Active(w)'
        BY <3>2 DEF Active
      <4> QED BY <2>0, <3>2, <3>4, <4>1, <4>2, DiscardInterest
    <3> QED BY <3>1, <3>3, <3>4
  <2>3. CASE Adopt(w)
    <3>1. PICK c : c = Head(queue[w])
      OBVIOUS
    <3>2. /\ c \in Conns /\ Unserved(c) /\ fdOf[c] \in Fds
          /\ \A v \in Workers, fd \in Fds :
                interest'[v][fd] = IF v = w /\ fd = fdOf[c] THEN "read"
                                   ELSE interest[v][fd]
          /\ \A d \in Conns : ctx'[d] = IF d = c THEN FreshContext ELSE ctx[d]
          /\ \A v \in Workers, d \in Conns :
                d \in Served(v)' <=> d \in Served(v) \/ (v = w /\ d = c)
      BY <2>3, <3>1, AdoptEffect
    <3>3. UNCHANGED <<fdOf, ppc, job, wpc, cur>>
      BY <2>3 DEF Adopt
    <3>4. Untouched(w, {c}) /\ {c} \in SUBSET Conns
      BY <3>2, <3>3 DEF Untouched
    <3>5. PolledAt(w, c)'
      BY <3>2, <3>3 DEF PolledAt, FreshContext
    <3>6. /\ \A v \in Workers : Active(v) => cur[v] \notin {c}
          /\ \A p \in PoolThreads : Busy(p) => job[p][2] \notin {c}
      BY <1>a, <3>2
    <3>7. \A v \in Workers : \A d \in {c} : d \in Served(v)' => PolledAt(v, d)'
      BY <3>2, <3>5 DEF Unserved
    <3> QED BY <3>3, <3>4, <3>6, <3>7, InterestStep
  <2>4. CASE Exit(w)
    <3>1. PICK cs \in SUBSET (Served(w) \ InPool) : CloseAll(cs)
      BY <2>4 DEF Exit
    <3>2. /\ wpc'[w] = "exited" /\ UNCHANGED <<ctx, interest, ppc, job>>
          /\ \A fd \in Fds : contexts'[w][fd] = NoConn
          /\ \A v \in Workers \ {w} : contexts'[v] = contexts[v]
      BY <1>0, <2>4 DEF Exit, TypeOK
    <3>3. cs \in SUBSET Conns /\ \A d \in cs : d \in Conns /\ d \in Served(w) /\ d \notin InPool
      BY DEF Served
    <3>4. \A d \in Conns \ cs : fdOf'[d] = fdOf[d]
      BY <1>0, <3>1, CloseAllEffect
    <3>5. \A v \in Workers, d \in Conns : d \in Served(v)' => d \in Served(v) /\ v # w
      BY <3>2, ServerAssumption DEF Served
    <3>6. Untouched(w, cs)
      BY <3>2, <3>4, <3>5 DEF Untouched
    <3>7. \A v \in Workers \ {w} : Active(v) => cur[v] \notin cs
      BY <3>3, ServedAlone
    <3>8. \A p \in PoolThreads : Busy(p) => job[p][2] \notin cs
      BY <3>3, TaskedIsInPool DEF Tasked
    <3>9. \A v \in Workers : \A d \in cs : d \in Served(v)' => PolledAt(v, d)'
      BY <3>3, <3>5, ServedFacts
    <3>10. SendingAt(w)'
      BY <2>a, <3>2
    <3> QED BY <2>0, <3>2, <3>3, <3>6, <3>7, <3>8, <3>9, <3>10, InterestStep
\* The last part of a response was sent, or a recycled descriptor is ready.
  <2>5. ASSUME NEW c \in Conns, c \in Served(w), ~ctx[c].locked,
               Finished(w, c) \/ Discard(w, c), UNCHANGED <<ppc, job>>,
               wpc'[w] = "events"
        PROVE  Interest'
    <3>1. ~Active(w)' /\ SendingAt(w)'
      BY <2>5, <2>a DEF Active
    <3>2. CASE Discard(w, c)
      BY <2>0, <2>5, <3>1, <3>2, DiscardInterest
    <3>3. CASE Kept(w, c)
      <4>1. /\ UNCHANGED <<fdOf, contexts>>
            /\ \A d \in Conns \ {c} : ctx'[d] = ctx[d]
            /\ \A v \in Workers, fd \in Fds :
                  interest'[v][fd] = interest[v][fd] \/ (v = w /\ fd = fdOf[c])
        BY <3>3 DEF Kept
      <4>2. PolledAt(w, c)'
        BY <2>5, <2>b, <3>3, <4>1 DEF PolledAt, Kept
      <4> QED BY <2>0, <2>5, <3>1, <4>1, <4>2, UseInterest
    <3> QED BY <1>0, <2>5, <3>2, <3>3, FinishedEffect
  <2>6. ASSUME NEW e \in events[w], Event(w, e) PROVE Interest'
    <3> DEFINE c == Found(w, e)
    <3>1. CASE SkipEvent(w, e) \/ ReadNothing(w, e)
      BY <2>1, <3>1
    <3>2. CASE Disconnect(w, e) \/ ReadFailed(w, e) \/ WriteNothing(w, e)
      <4>1. /\ Pick(w, e) /\ Usable(w, e) /\ wpc'[w] = "events"
            /\ Finished(w, c) \/ Discard(w, c)
            /\ UNCHANGED <<ppc, job>>
        BY <3>2 DEF Disconnect, ReadFailed, ReadEvent, WriteNothing, Pick
      <4> QED BY <2>5, <4>1, FoundFacts
    <3>3. ASSUME Pick(w, e), Usable(w, e), SendResponse(w, c),
                 UNCHANGED <<fdOf, contexts, wpc, ppc, job>>
          PROVE  Interest'
      <4>1. PICK b \in Conns : b = c /\ b \in Served(w) /\ ~ctx[b].locked /\ wpc[w] = "events"
        BY <3>3, FoundFacts DEF Pick
      <4>2. /\ \A d \in Conns \ {b} : ctx'[d] = ctx[d]
            /\ \A v \in Workers, fd \in Fds :
                  interest'[v][fd] = interest[v][fd] \/ (v = w /\ fd = fdOf[b])
            /\ PolledAt(w, b)'
        <5>1. /\ \A v \in Workers, fd \in Fds :
                    interest'[v][fd] = IF v = w /\ fd = fdOf[b] THEN "write"
                                       ELSE interest[v][fd]
              /\ \A d \in Conns \ {b} : ctx'[d] = ctx[d]
              /\ ctx'[b].reply = {"header"}
          BY <1>0, <3>3, <4>1, SendResponseEffect
        <5> QED BY <2>b, <3>3, <4>1, <5>1 DEF PolledAt
      <4>3. SendingAt(w)'
        BY <2>a, <3>3, <4>1
      <4> QED BY <2>0, <3>3, <4>1, <4>2, <4>3, UseInterest
    <3>4. CASE ReadRefused(w, e)
      BY <3>3, <3>4 DEF ReadRefused, ReadEvent, TakeBytes
    <3>5. ASSUME Pick(w, e), Usable(w, e), Lock(w, c),
                 UNCHANGED <<fdOf, contexts, ppc, job>>, wpc'[w] \in {"events", "handle"}
          PROVE  Interest'
      <4>1. PICK b \in Conns : b = c /\ b \in Served(w) /\ ~ctx[b].locked
        BY <3>5, FoundFacts
      <4>2. /\ \A d \in Conns \ {b} : ctx'[d] = ctx[d]
            /\ \A v \in Workers, fd \in Fds :
                  interest'[v][fd] = interest[v][fd] \/ (v = w /\ fd = fdOf[b])
            /\ PolledAt(w, b)'
        <5>1. /\ \A v \in Workers, fd \in Fds :
                    interest'[v][fd] = IF v = w /\ fd = fdOf[b] THEN "none"
                                       ELSE interest[v][fd]
              /\ \A d \in Conns \ {b} : ctx'[d] = ctx[d]
              /\ ctx'[b].locked
          BY <1>0, <3>5, <4>1, LockEffect
        <5> QED BY <2>b, <3>5, <4>1, <5>1 DEF PolledAt
      <4>3. SendingAt(w)'
        BY <2>a, <3>5
      <4> QED BY <2>0, <3>5, <4>1, <4>2, <4>3, UseInterest
    <3>6. CASE ReadSmall(w, e)
      <4>1. /\ Pick(w, e) /\ Usable(w, e) /\ Lock(w, c) /\ wpc'[w] = "handle"
            /\ UNCHANGED <<fdOf, contexts, ppc, job>>
        BY <1>0, <3>6 DEF ReadSmall, ReadEvent, TakeBytes, Pick, TypeOK
      <4> QED BY <3>5, <4>1
    <3>7. CASE ReadLarge(w, e)
      <4>1. /\ Pick(w, e) /\ Usable(w, e) /\ wpc'[w] = "events"
            /\ UNCHANGED <<fdOf, contexts, wpc, ppc, job>>
            /\ Lock(w, c) \/ SendResponse(w, c)
        BY <3>7 DEF ReadLarge, ReadEvent, TakeBytes, Pick
      <4> QED BY <3>3, <3>5, <4>1
    <3>8. CASE WriteEvent(w, e)
      <4>1. /\ Pick(w, e) /\ Usable(w, e)
            /\ UNCHANGED <<fdOf, contexts, ctx, interest, ppc, job>>
            /\ cur'[w] = c /\ ctx[c].reply # {}
            /\ wpc'[w] = IF "header" \in ctx[c].reply THEN "header" ELSE "content"
        BY <1>0, <3>8 DEF WriteEvent, Pick, TypeOK
      <4>2. c \in Conns
        BY <4>1, FoundFacts
      <4>3. ctx[c].reply \in SUBSET {"header", "content"}
        BY <1>0, <4>2 DEF TypeOK, ContextType
      <4> HIDE DEF c
      <4>4. SendingAt(w)'
        BY <4>1, <4>3 DEF SendingAt
      <4> QED BY <2>0, <4>1, <4>4, IdleInterest
    <3> QED BY <2>6, <3>1, <3>2, <3>4, <3>6, <3>7, <3>8 DEF Event
  <2>7. CASE HandleInline(w)
    <3>1. /\ wpc[w] = "handle" /\ wpc'[w] = "events"
          /\ UNCHANGED <<fdOf, contexts, ppc, job>>
      BY <1>0, <2>7 DEF HandleInline, TypeOK
    <3>2. PICK c \in Conns : c = cur[w] /\ c \in Served(w)
      BY <2>0, <3>1 DEF Active
    <3>3. /\ \A v \in Workers, fd \in Fds :
                interest'[v][fd] = IF v = w /\ fd = fdOf[c] THEN "write"
                                   ELSE interest[v][fd]
          /\ \A d \in Conns \ {c} : ctx'[d] = ctx[d]
          /\ ctx'[c].reply # {}
      BY <1>0, <2>7, <3>2, HandledInlineEffect
    <3>4. PolledAt(w, c)'
      BY <2>b, <3>1, <3>2, <3>3 DEF PolledAt
    <3>5. /\ SendingAt(w)'
          /\ \A v \in Workers, fd \in Fds :
                interest'[v][fd] = interest[v][fd] \/ (v = w /\ fd = fdOf[c])
      BY <2>a, <3>1, <3>3
    <3> QED BY <2>0, <3>1, <3>2, <3>3, <3>4, <3>5, UseInterest
  <2>8. CASE HeaderSent(w)
    <3>1. /\ wpc[w] = "header" /\ wpc'[w] = "content" /\ cur'[w] = cur[w]
          /\ UNCHANGED <<fdOf, contexts, interest, ppc, job>>
          /\ "content" \in ctx[cur[w]].reply
          /\ ctx' = [ctx EXCEPT ![cur[w]].reply = {"content"}]
      BY <1>0, <2>8 DEF HeaderSent, TypeOK
    <3>2. PICK c \in Conns : c = cur[w] /\ c \in Served(w) /\ ~ctx[c].locked
      BY <1>0, <2>0, <3>1 DEF Active, Locking, WorkersLocked
    <3>3. /\ \A d \in Conns \ {c} : ctx'[d] = ctx[d]
          /\ ctx'[c].locked = ctx[c].locked /\ ctx'[c].reply = {"content"}
      BY <1>0, <3>1, <3>2, HeaderSentEffect
    <3>4. PolledAt(w, c)'
      BY <2>b, <3>1, <3>2, <3>3 DEF PolledAt
    <3>5. SendingAt(w)'
      BY <3>1, <3>2, <3>3 DEF SendingAt
    <3> QED BY <2>0, <3>1, <3>2, <3>3, <3>4, <3>5, UseInterest
  <2>9. CASE WriteBlocked(w) \/ HeaderFailed(w) \/ Retry(w)
    <3>1. /\ UNCHANGED <<fdOf, contexts, interest, ctx, ppc, job>>
          /\ \/ wpc[w] \in {"header", "retry"} /\ wpc'[w] \in {"header", "retry"}
                /\ cur'[w] = cur[w]
             \/ wpc'[w] = "events"
      BY <1>0, <2>9 DEF WriteBlocked, HeaderFailed, Retry, Return, TypeOK
    <3>2. SendingAt(w)
      BY <1>0 DEF Interest, Sending
    <3>3. SendingAt(w)'
      BY <3>1, <3>2 DEF SendingAt
    <3> QED BY <2>0, <3>1, <3>3, IdleInterest
  <2>10. CASE ResponseSent(w) \/ ContentFailed(w)
    <3>1. /\ wpc[w] \in {"header", "content"} /\ wpc'[w] = "events"
          /\ UNCHANGED <<ppc, job>>
          /\ Finished(w, cur[w]) \/ Discard(w, cur[w])
      BY <1>0, <2>10 DEF ResponseSent, ContentFailed, Return, TypeOK
    <3>2. PICK c \in Conns : c = cur[w] /\ c \in Served(w) /\ ~ctx[c].locked
      BY <1>0, <2>0, <3>1 DEF Active, Locking, WorkersLocked
    <3> QED BY <2>5, <3>1, <3>2
  <2> QED BY <1>7, <2>1, <2>2, <2>3, <2>4, <2>6, <2>7, <2>8, <2>9, <2>10 DEF Worker
<1>8. ASSUME NEW p \in PoolThreads, Pool(p) PROVE Interest'
  BY <1>8, PoolInterest
<1> QED BY <1>1, <1>2, <1>4, <1>5, <1>6, <1>7, <1>8 DEF Step, Environment, Acceptor
-----------------------------------------------------------------------------
(* What an event still says when it is looked at, and what is overdue *)

\* An open connection is one that was open; none is opened twice.
Aging == \A d \in Conns : sock[d] # "absent" =>
            sock'[d] # "absent" /\ (sock'[d] = "open" => sock[d] = "open")

\* What worker v has noticed, in its events and overdue descriptors, holds on.
Later(v) ==
    /\ events'[v] \subseteq events[v] /\ expired'[v] \subseteq expired[v]
    /\ wpc'[v] \in {"wait", "exited"} => events'[v] = {}
    /\ Active(v)' => \A e \in events'[v] : e.fd # fdOf'[cur'[v]]
    /\ \A e \in events'[v] : \A d \in Served(v) :
          e.fd = fdOf[d] /\ sock'[d] = "open" =>
             /\ contexts'[v][fdOf[d]] = d
             /\ client[d] = "reset" => client'[d] = "reset"
             /\ ctx[d].reply # {} => ctx'[d].reply # {}
    /\ \A d \in Served(v) : fdOf[d] \in expired'[v] =>
             /\ contexts'[v][fdOf[d]] = d
             /\ ctx[d].age > KeepAliveTime => ctx'[d].age > KeepAliveTime

\* So what it has noticed is still the case.
LEMMA LaterNoticing ==
  ASSUME IInv, Aging, NEW v \in Workers, Later(v)
  PROVE  EventsFresh(v)' /\ Overdues(v)'
<1>1. EventsFresh(v) /\ Overdues(v)
  BY DEF IInv, Noticing
<1>2. ASSUME NEW e \in events'[v]
      PROVE  EventFresh(v, e)'
  <2>1. e \in events[v]
    BY <1>2 DEF Later
  <2>2. e \in EventType
    BY <2>1 DEF IInv, TypeOK
  <2>3. PICK d \in Conns : d = e.of
    BY <2>2 DEF EventType
  <2>4. PICK fd \in Fds : fd = e.fd
    BY <2>2 DEF EventType
  <2>5. EventFresh(v, e)
    BY <1>1, <2>1 DEF EventsFresh
  <2>6. sock'[d] # "absent" /\ (sock'[d] = "open" => sock[d] = "open")
    BY <2>3, <2>5 DEF EventFresh, Aging
  <2>7. ASSUME sock'[d] = "open"
        PROVE  /\ contexts'[v][fd] = d
               /\ client[d] = "reset" => client'[d] = "reset"
               /\ ctx[d].reply # {} => ctx'[d].reply # {}
    <3>1. contexts[v][fd] = d
      BY <2>3, <2>4, <2>5, <2>6, <2>7 DEF EventFresh
    <3>2. d \in Served(v) /\ fdOf[d] = fd
      BY <3>1, ServedFacts, ServerAssumption
    <3> QED BY <1>2, <2>4, <2>7, <3>2 DEF Later
  <2> QED BY <2>3, <2>4, <2>5, <2>6, <2>7 DEF EventFresh
<1>3. EventsFresh(v)'
  <2>1. \A e, f \in events'[v] : e.fd = f.fd => e = f
    BY <1>1 DEF EventsFresh, Later
  <2> QED BY <1>2, <2>1 DEF EventsFresh, Later
<1>4. Overdues(v)'
  <2>1. ASSUME NEW fd \in expired'[v]
        PROVE  ctx'[contexts'[v][fd]].age > KeepAliveTime
    <3>1. fd \in expired[v]
      BY <2>1 DEF Later
    <3>2. PICK d \in Conns : d = contexts[v][fd] /\ d \in Served(v) /\ fdOf[d] = fd
      BY <3>1, OverdueFacts
    <3>3. ctx[d].age > KeepAliveTime
      BY <1>1, <3>1, <3>2 DEF Overdues
    <3> QED BY <2>1, <3>2, <3>3 DEF Later
  <2> QED BY <2>1 DEF Overdues
<1> QED BY <1>3, <1>4

\* Nothing happened to d that its worker has noticed the contrary of.
Lasting(d) == /\ sock'[d] = sock[d] /\ fdOf'[d] = fdOf[d]
              /\ client[d] = "reset" => client'[d] = "reset"
              /\ ctx[d].reply # {} => ctx'[d].reply # {}
              /\ ctx[d].age > KeepAliveTime => ctx'[d].age > KeepAliveTime

\* A worker that goes on, its connections being what they were.
LEMMA MoveLater ==
  ASSUME IInv, NEW v \in Workers,
         events'[v] \subseteq events[v], expired'[v] \subseteq expired[v],
         wpc'[v] \in {"wait", "exited"} => events'[v] = {},
         Active(v)' => /\ cur'[v] \in Served(v)
                       /\ \A e \in events'[v] : e.fd # fdOf[cur'[v]],
         \A fd \in Fds : contexts'[v][fd] = contexts[v][fd],
         \A d \in Served(v) : Lasting(d)
  PROVE  Later(v)
<1>1. \A d \in Served(v) : fdOf[d] \in Fds /\ contexts[v][fdOf[d]] = d
  BY ServedFacts DEF Served
<1> QED BY <1>1 DEF Later, Lasting

\* A worker that does not move at all.
LEMMA StayLater ==
  ASSUME IInv, NEW v \in Workers, wpc'[v] = wpc[v], cur'[v] = cur[v],
         events'[v] = events[v], expired'[v] = expired[v],
         \A fd \in Fds : contexts'[v][fd] = contexts[v][fd],
         \A d \in Served(v) : Lasting(d)
  PROVE  Later(v)
<1>1. EventsFresh(v)
  BY DEF IInv, Noticing
<1>2. Active(v)' => Active(v)
  BY DEF Active
<1>3. Active(v)' => /\ cur'[v] \in Served(v)
                    /\ \A e \in events'[v] : e.fd # fdOf[cur'[v]]
  BY <1>1, <1>2, CurFacts DEF EventsFresh
<1>4. wpc'[v] \in {"wait", "exited"} => events'[v] = {}
  BY <1>1 DEF EventsFresh
<1> QED BY <1>3, <1>4, MoveLater

\* When no worker moves.
LEMMA IdleNoticing ==
  ASSUME IInv, Aging, UNCHANGED <<wpc, cur, events, expired, contexts>>,
         \A d \in Conns : (\E w \in Workers : d \in Served(w)) => Lasting(d)
  PROVE  Noticing'
<1>1. \A w \in Workers : \A d \in Served(w) : Lasting(d)
  BY DEF Served
<1>2. \A w \in Workers : Later(w)
  BY <1>1, StayLater
<1> QED BY <1>2, LaterNoticing DEF Noticing

\* When one does, and the connections cs it does something to are of no other's
\* table.
LEMMA WorkerNoticing ==
  ASSUME IInv, Aging, NEW w \in Workers, NEW cs,
         \A v \in Workers \ {w} : /\ wpc'[v] = wpc[v] /\ cur'[v] = cur[v]
                                  /\ expired'[v] = expired[v]
                                  /\ events'[v] = events[v]
                                  /\ \A fd \in Fds : contexts'[v][fd] = contexts[v][fd],
         \A d \in Conns \ cs : Lasting(d),
         \A v \in Workers \ {w}, d \in cs : d \notin Served(v),
         Later(w) \/ (EventsFresh(w)' /\ Overdues(w)')
  PROVE  Noticing'
<1>1. ASSUME NEW v \in Workers, v # w PROVE Later(v)
  <2>1. \A d \in Served(v) : Lasting(d)
    BY <1>1 DEF Served
  <2> QED BY <1>1, <2>1, StayLater
<1>2. ASSUME NEW v \in Workers PROVE EventsFresh(v)' /\ Overdues(v)'
  <2>1. CASE v = w
    BY <2>1, LaterNoticing
  <2>2. CASE v # w
    BY <1>1, <2>2, LaterNoticing
  <2> QED BY <2>1, <2>2
<1> QED BY <1>2 DEF Noticing

\* What epoll_wait reports of the registered connections is the case.
LEMMA WaitNoticing ==
  ASSUME IInv, NEW w \in Workers, Wait(w)
  PROVE  EventsFresh(w)' /\ Overdues(w)'
<1>0. TypeOK /\ Ownership /\ Interest
  BY DEF IInv
<1>1. PICK roomy : /\ wpc[w] = "wait"
                   /\ events' = [events EXCEPT ![w] = ReadyEvents(w, roomy)]
  BY DEF Wait
<1>2. /\ UNCHANGED <<sock, fdOf, client, contexts, ctx>>
      /\ wpc'[w] \in {"adopt", "clean"}
      /\ expired'[w] = Overdue(w) \/ expired'[w] = expired[w]
      /\ expired[w] = {}
  <2>1. expired[w] = {}
    BY <1>0, <1>1 DEF Ownership, WorkersOwn
  <2> QED BY <1>0, <2>1 DEF Wait, TypeOK, kernelVars, socketVars
<1>3. events'[w] = ReadyEvents(w, roomy)
  BY <1>0, <1>1 DEF TypeOK
<1>4. ASSUME NEW e \in events'[w]
      PROVE  \E c \in Conns :
                /\ e.fd = fdOf[c] /\ e.of = c /\ fdOf[c] # NoFd /\ sock[c] = "open"
                /\ contexts[w][fdOf[c]] = c
                /\ \/ e = [fd |-> fdOf[c], flag |-> "hangup", of |-> c]
                      /\ client[c] = "reset"
                   \/ e = [fd |-> fdOf[c], flag |-> interest[w][fdOf[c]], of |-> c]
                      /\ client[c] # "reset"
                /\ e.flag = "write" => ctx[c].reply # {}
  <2>1. PICK c \in Registered(w) :
          e \in [fd : {fdOf[c]}, flag : Reported(c, interest[w][fdOf[c]], roomy), of : {c}]
    BY <1>3, <1>4 DEF ReadyEvents
  <2>2. c \in Conns /\ fdOf[c] # NoFd /\ interest[w][fdOf[c]] # "none"
    BY <2>1 DEF Registered
  <2>3. fdOf[c] \in Fds /\ interest[w][fdOf[c]] \in {"read", "write"} /\ sock[c] = "open"
    BY <1>0, <2>2 DEF TypeOK, Ownership, Descriptors
  <2>4. contexts[w][fdOf[c]] # NoConn
    BY <1>0, <1>1, <2>2, <2>3 DEF Ownership, WorkersOwn
  <2>5. contexts[w][fdOf[c]] = c
    <3>1. PICK d \in Conns : d = contexts[w][fdOf[c]] /\ fdOf[d] = fdOf[c]
      BY <2>3, <2>4, ServedFacts
    <3>2. d = c
      BY <1>0, <2>2, <3>1 DEF Ownership, Descriptors
    <3> QED BY <3>1, <3>2
  <2>6. interest[w][fdOf[c]] = "write" => ctx[c].reply # {}
    <3>1. c \in Served(w)
      BY <2>2, <2>3, <2>5, ServedFacts
    <3> QED BY <1>0, <3>1 DEF Interest, Polled, PolledAt
  <2>7. PICK flag \in Reported(c, interest[w][fdOf[c]], roomy) :
          e = [fd |-> fdOf[c], flag |-> flag, of |-> c]
    BY <2>1
  <2>8. \/ flag = "hangup" /\ client[c] = "reset"
        \/ flag = interest[w][fdOf[c]] /\ client[c] # "reset"
    BY <2>2, <2>3, ReportedEffect
  <2> QED BY <2>2, <2>3, <2>5, <2>6, <2>7, <2>8
<1>5. ASSUME NEW e \in events'[w] PROVE EventFresh(w, e)'
  <2>1. PICK c \in Conns :
          /\ e.fd = fdOf[c] /\ e.of = c /\ sock[c] = "open" /\ contexts[w][fdOf[c]] = c
          /\ \/ e.flag = "hangup" /\ client[c] = "reset"
             \/ e.flag = interest[w][fdOf[c]] /\ client[c] # "reset"
          /\ e.flag = "write" => ctx[c].reply # {}
    BY <1>4
  <2>2. fdOf[c] \in Fds => interest[w][fdOf[c]] # "hangup"
    <3>1. interest \in [Workers -> [Fds -> {"none", "read", "write"}]]
      BY <1>0 DEF TypeOK
    <3>2. \A fd \in Fds : interest[w][fd] \in {"none", "read", "write"}
      BY <3>1
    <3> QED BY ONLY <3>2
  <2>3. fdOf[c] \in Fds
    BY <1>0, <2>1 DEF TypeOK, Ownership, Descriptors
  <2> QED BY <1>2, <2>1, <2>2, <2>3 DEF EventFresh
<1>6. ASSUME NEW e \in events'[w], NEW f \in events'[w], e.fd = f.fd PROVE e = f
  <2>1. PICK c \in Conns :
          /\ e.fd = fdOf[c] /\ fdOf[c] # NoFd
          /\ \/ e = [fd |-> fdOf[c], flag |-> "hangup", of |-> c]
                /\ client[c] = "reset"
             \/ e = [fd |-> fdOf[c], flag |-> interest[w][fdOf[c]], of |-> c]
                /\ client[c] # "reset"
    BY <1>4
  <2>2. PICK d \in Conns :
          /\ f.fd = fdOf[d] /\ fdOf[d] # NoFd
          /\ \/ f = [fd |-> fdOf[d], flag |-> "hangup", of |-> d]
                /\ client[d] = "reset"
             \/ f = [fd |-> fdOf[d], flag |-> interest[w][fdOf[d]], of |-> d]
                /\ client[d] # "reset"
    BY <1>4
  <2>3. c = d
    BY <1>0, <1>6, <2>1, <2>2 DEF Ownership, Descriptors
  <2> QED BY <2>1, <2>2, <2>3
<1>7. EventsFresh(w)'
  <2>1. wpc'[w] \notin {"wait", "exited"} /\ ~Active(w)'
    BY <1>2 DEF Active
  <2> QED BY <1>5, <1>6, <2>1 DEF EventsFresh
<1>8. Overdues(w)'
  BY <1>2 DEF Overdues, Overdue
<1> QED BY <1>7, <1>8

\* A worker that closes a connection of its table forgets what it noticed of it.
LEMMA DiscardNoticing ==
  ASSUME IInv, NEW w \in Workers, NEW c \in Conns, c \in Served(w), Discard(w, c),
         \A v \in Workers \ {w} : /\ wpc'[v] = wpc[v] /\ cur'[v] = cur[v]
                                  /\ expired'[v] = expired[v]
                                  /\ events'[v] = events[v],
         events'[w] \subseteq events[w], expired'[w] \subseteq expired[w] \ {fdOf[c]},
         wpc'[w] \in {"clean", "adopt", "events"}
  PROVE  Noticing'
<1>0. TypeOK /\ Ownership
  BY DEF IInv
<1>1. /\ CloseAll({c})
      /\ \A v \in Workers, fd \in Fds :
            contexts'[v][fd] = IF v = w /\ fd = fdOf[c] THEN NoConn
                               ELSE contexts[v][fd]
      /\ \A d \in Conns : ctx'[d] = IF d = c THEN FreshContext ELSE ctx[d]
  BY <1>0, DiscardEffect
<1>2. /\ \A d \in Conns \ {c} : sock'[d] = sock[d] /\ fdOf'[d] = fdOf[d]
                                /\ client'[d] = client[d]
      /\ sock'[c] = "closed"
  BY <1>0, <1>1, CloseAllEffect
<1>3. Aging
  BY <1>2 DEF Aging
<1>4. \A d \in Conns \ {c} : Lasting(d)
  BY <1>1, <1>2 DEF Lasting
<1>5. \A v \in Workers \ {w}, d \in {c} : d \notin Served(v)
  BY ServedFacts
<1>6. ASSUME NEW d \in Served(w)
      PROVE  /\ d # c => /\ contexts'[w][fdOf[d]] = d
                         /\ client'[d] = client[d] /\ ctx'[d] = ctx[d]
             /\ d = c => sock'[d] = "closed" /\ fdOf[d] \notin expired'[w]
  <2>1. d \in Conns /\ fdOf[d] \in Fds /\ contexts[w][fdOf[d]] = d
    BY ServedFacts DEF Served
  <2>2. d # c => fdOf[d] # fdOf[c]
    BY <1>0, <2>1, ServerAssumption DEF Ownership, Descriptors
  <2> QED BY <1>1, <1>2, <2>1, <2>2
<1>7. ~Active(w)' /\ wpc'[w] \notin {"wait", "exited"}
  BY DEF Active
<1>8. Later(w)
  BY <1>6, <1>7 DEF Later
<1>9. \A v \in Workers \ {w} : \A fd \in Fds : contexts'[v][fd] = contexts[v][fd]
  BY <1>1
<1>10. PICK cs : cs = {c}
  OBVIOUS
<1>11. /\ \A d \in Conns \ cs : Lasting(d)
       /\ \A v \in Workers \ {w}, d \in cs : d \notin Served(v)
  BY <1>4, <1>5, <1>10
<1> QED BY <1>3, <1>8, <1>9, <1>11, WorkerNoticing

\* A worker that makes a connection ready for the next request has no event of
\* it left, or had no response to send.
LEMMA KeptNoticing ==
  ASSUME IInv, NEW w \in Workers, NEW c \in Conns, c \in Served(w), Kept(w, c),
         \A v \in Workers \ {w} : /\ wpc'[v] = wpc[v] /\ cur'[v] = cur[v]
                                  /\ expired'[v] = expired[v]
                                  /\ events'[v] = events[v],
         events'[w] \subseteq events[w], expired'[w] = {}, wpc'[w] = "events",
         \/ ctx[c].reply = {}
         \/ \A e \in events'[w] : e.fd # fdOf[c]
  PROVE  Noticing'
<1>1. /\ UNCHANGED <<contexts, sock, fdOf, client>>
      /\ \A d \in Conns \ {c} : ctx'[d] = ctx[d]
  BY DEF Kept, socketVars
<1>2. Aging /\ \A d \in Conns \ {c} : Lasting(d)
  BY <1>1 DEF Aging, Lasting
<1>3. \A v \in Workers \ {w}, d \in {c} : d \notin Served(v)
  BY ServedFacts
<1>4. ~Active(w)' /\ wpc'[w] \notin {"wait", "exited"}
  BY DEF Active
<1>5. \A d \in Served(w) : d \in Conns /\ fdOf[d] \in Fds /\ contexts[w][fdOf[d]] = d
  BY ServedFacts DEF Served
<1>6. Later(w)
  BY <1>1, <1>4, <1>5 DEF Later
<1>7. PICK cs : cs = {c}
  OBVIOUS
<1>8. /\ \A d \in Conns \ cs : Lasting(d)
      /\ \A v \in Workers \ {w}, d \in cs : d \notin Served(v)
  BY <1>2, <1>3, <1>7
<1>9. \A v \in Workers \ {w} : /\ wpc'[v] = wpc[v] /\ cur'[v] = cur[v]
                              /\ expired'[v] = expired[v]
                              /\ events'[v] = events[v]
                              /\ \A fd \in Fds : contexts'[v][fd] = contexts[v][fd]
  BY <1>1
<1>10. Later(w) \/ (EventsFresh(w)' /\ Overdues(w)')
  BY <1>6
<1> QED BY ONLY IInv, w \in Workers, <1>2, <1>8, <1>9, <1>10, WorkerNoticing

\* A worker that moves on, everything it has noticed holding on.
LEMMA UseNoticing ==
  ASSUME IInv, NEW w \in Workers, UNCHANGED <<sock, fdOf, client, contexts>>,
         \A v \in Workers \ {w} : /\ wpc'[v] = wpc[v] /\ cur'[v] = cur[v]
                                  /\ expired'[v] = expired[v]
                                  /\ events'[v] = events[v],
         \A d \in Conns : /\ ctx[d].reply # {} => ctx'[d].reply # {}
                          /\ ctx[d].age > KeepAliveTime => ctx'[d].age > KeepAliveTime,
         events'[w] \subseteq events[w], expired'[w] \subseteq expired[w],
         wpc'[w] \in {"wait", "exited"} => events'[w] = {},
         Active(w)' => /\ cur'[w] \in Served(w)
                       /\ \A e \in events'[w] : e.fd # fdOf[cur'[w]]
  PROVE  Noticing'
<1>1. Aging /\ \A d \in Conns : Lasting(d)
  BY DEF Aging, Lasting
<1>2. Later(w)
  <2>1. \A d \in Served(w) : Lasting(d)
    BY <1>1 DEF Served
  <2> QED BY <2>1, MoveLater
<1>3. PICK none : none = {}
  OBVIOUS
<1>4. /\ \A d \in Conns \ none : Lasting(d)
      /\ \A v \in Workers \ {w}, d \in none : d \notin Served(v)
  BY <1>1, <1>3
<1>5. \A v \in Workers \ {w} : /\ wpc'[v] = wpc[v] /\ cur'[v] = cur[v]
                                /\ expired'[v] = expired[v]
                                /\ events'[v] = events[v]
                                /\ \A fd \in Fds : contexts'[v][fd] = contexts[v][fd]
  OBVIOUS
<1>6. Aging
  BY <1>1
<1> QED BY ONLY IInv, <1>2, <1>4, <1>5, <1>6, w \in Workers, WorkerNoticing

\* The fourth layer is kept by every step.
LEMMA NoticingNext == IInv /\ [Step]_vars => Noticing'
<1> SUFFICES ASSUME IInv, [Step]_vars PROVE Noticing'
  OBVIOUS
<1>0. TypeOK /\ Ownership /\ Locking /\ Interest /\ Noticing
  BY DEF IInv
<1>a. KeepAliveTime \in Nat /\ \A d \in Conns : ctx[d] \in ContextType /\ ctx[d].age \in Nat
  BY <1>0, ServerAssumption DEF TypeOK, ContextType
<1> USE DEF vars, kernelVars, socketVars, acceptVars, workerVars, poolVars, writeFrame
<1>1. CASE \/ \E c \in Conns : Send(c) \/ HalfClose(c) \/ Reset(c)
           \/ Signal \/ LeaveLoop \/ StopWorker \/ UNCHANGED vars
  <2>1. /\ UNCHANGED <<sock, fdOf, ctx, wpc, cur, events, expired, contexts>>
        /\ \A d \in Conns : client[d] = "reset" => client'[d] = "reset"
    BY <1>0, <1>1 DEF Send, HalfClose, Reset, Signal, LeaveLoop, StopWorker, TypeOK
  <2>2. Aging /\ \A d \in Conns : Lasting(d)
    BY <2>1 DEF Aging, Lasting
  <2> QED BY <2>1, <2>2, IdleNoticing
<1>2. CASE Tick
  <2>1. UNCHANGED <<sock, fdOf, client, wpc, cur, events, expired, contexts>>
    BY <1>2 DEF Tick
  <2>2. ASSUME NEW d \in Conns
        PROVE  /\ ctx'[d].reply = ctx[d].reply
               /\ ctx[d].age > KeepAliveTime => ctx'[d].age > KeepAliveTime
    <3> DEFINE m == Min({ctx[d].age + 1, KeepAliveTime + 1})
    <3>1. \/ ctx'[d] = ctx[d]
          \/ ctx'[d] = [ctx[d] EXCEPT !.age = m]
      BY <1>2 DEF Tick
    <3>2. m \in {ctx[d].age + 1, KeepAliveTime + 1}
      BY <1>a, MinOfTwo
    <3>3. ctx[d].age > KeepAliveTime => m > KeepAliveTime
      BY <1>a, <3>2
    <3> HIDE DEF m
    <3> QED BY <1>a, <3>1, <3>3 DEF ContextType
  <2>3. Aging /\ \A d \in Conns : Lasting(d)
    BY <2>1, <2>2 DEF Aging, Lasting
  <2> QED BY <2>1, <2>3, IdleNoticing
\* An unserved connection is closed.
<1>3. ASSUME NEW cs \in SUBSET Conns, CloseAll(cs),
             \A d \in cs : sock[d] = "open" /\ \A w \in Workers : d \notin Served(w),
             UNCHANGED <<ctx, wpc, cur, events, expired, contexts>>
      PROVE  Noticing'
  <2>1. /\ \A d \in Conns \ cs : /\ sock'[d] = sock[d] /\ fdOf'[d] = fdOf[d]
                                 /\ client'[d] = client[d]
        /\ \A d \in cs : sock'[d] = "closed"
    BY <1>0, <1>3, CloseAllEffect
  <2>2. Aging /\ \A d \in Conns \ cs : Lasting(d)
    BY <1>3, <2>1 DEF Aging, Lasting
  <2> QED BY <1>3, <2>2, IdleNoticing
<1>4. ASSUME NEW c \in Conns, Accept(c) PROVE Noticing'
  <2>1. /\ UNCHANGED <<client, ctx, wpc, cur, events, expired, contexts>>
        /\ sock[c] = "absent" /\ sock'[c] = "open"
        /\ \A d \in Conns \ {c} : sock'[d] = sock[d] /\ fdOf'[d] = fdOf[d]
    BY <1>0, <1>4 DEF Accept, TypeOK
  <2>2. Aging /\ \A d \in Conns \ {c} : Lasting(d)
    BY <2>1 DEF Aging, Lasting
  <2>3. \A w \in Workers : c \notin Served(w)
    BY <2>1, ServedFacts
  <2> QED BY <2>1, <2>2, <2>3, IdleNoticing
<1>5. CASE EnqueueClient
  <2>1. UNCHANGED <<ctx, wpc, cur, events, expired, contexts>>
    BY <1>5 DEF EnqueueClient
  <2>2. newest \in Conns /\ Unserved(newest) /\ sock[newest] = "open"
    BY <1>0, <1>5 DEF EnqueueClient, TypeOK, Ownership, Arrivals
  <2>3. CASE UNCHANGED socketVars
    <3>1. Aging /\ \A d \in Conns : Lasting(d)
      BY <2>1, <2>3 DEF Aging, Lasting
    <3> QED BY <2>1, <3>1, IdleNoticing
  <2>4. CASE CloseAll({newest})
    <3>1. {newest} \in SUBSET Conns /\ \A w \in Workers : newest \notin Served(w)
      BY <2>2 DEF Unserved
    <3> QED BY <1>3, <2>1, <2>2, <2>4, <3>1
  <2> QED BY <1>5, <2>3, <2>4 DEF EnqueueClient, Close
<1>6. CASE JoinWorker
  <2>1. UNCHANGED <<ctx, wpc, cur, events, expired, contexts>>
    BY <1>6 DEF JoinWorker
  <2>2. CASE UNCHANGED socketVars
    <3>1. Aging /\ \A d \in Conns : Lasting(d)
      BY <2>1, <2>2 DEF Aging, Lasting
    <3> QED BY <2>1, <3>1, IdleNoticing
  <2>3. CASE /\ joining = NumWorkers - 1
             /\ CloseAll({c \in Conns : sock[c] = "open"} \ InPool)
    <3>1. \A w \in Workers : wpc[w] = "exited"
      <4>1. \A w \in Workers : w = joining \/ w < joining
        BY <2>3, ServerAssumption DEF Workers
      <4>2. wpc[joining] = "exited"
        BY <1>6 DEF JoinWorker
      <4> QED BY <1>0, <4>1, <4>2 DEF Ownership, Joined
    <3>2. \A w \in Workers, d \in Conns : d \notin Served(w)
      BY <1>0, <3>1, ServerAssumption DEF Ownership, WorkersOwn, Served
    <3> QED BY <1>3, <2>1, <2>3, <3>2
  <2> QED BY <1>6, <2>2, <2>3 DEF JoinWorker
<1>7. ASSUME NEW w \in Workers, Worker(w) PROVE Noticing'
  <2>0. /\ \A v \in Workers \ {w} : /\ wpc'[v] = wpc[v] /\ cur'[v] = cur[v]
                                    /\ expired'[v] = expired[v]
                                    /\ events'[v] = events[v]
        /\ Active(w) => cur[w] \in Conns /\ cur[w] \in Served(w)
    BY <1>7, OthersStay, CurFacts
  <2>a. /\ events[w] # {} => wpc[w] \notin {"wait", "exited"}
        /\ expired[w] # {} => wpc[w] = "clean"
        /\ \A e, f \in events[w] : e.fd = f.fd => e = f
        /\ Active(w) => \A e \in events[w] : e.fd # fdOf[cur[w]]
    BY <1>0 DEF Noticing, EventsFresh, Ownership, WorkersOwn
  <2>1. CASE Wait(w)
    <3>1. UNCHANGED <<sock, fdOf, client, contexts, ctx>>
      BY <2>1 DEF Wait
    <3>2. PICK none : none = {}
      OBVIOUS
    <3>3. /\ Aging /\ \A d \in Conns \ none : Lasting(d)
          /\ \A v \in Workers \ {w}, d \in none : d \notin Served(v)
      BY <3>1, <3>2 DEF Aging, Lasting
    <3>4. EventsFresh(w)' /\ Overdues(w)'
      BY <2>1, WaitNoticing
    <3> QED BY <2>0, <3>1, <3>3, <3>4, WorkerNoticing
  <2>2. CASE \/ AdoptDone(w) \/ PassDone(w)
             \/ \E e \in events[w] : SkipEvent(w, e) \/ ReadNothing(w, e)
    <3>1. /\ UNCHANGED <<sock, fdOf, client, contexts, ctx>>
          /\ events'[w] \subseteq events[w] /\ expired'[w] = expired[w]
          /\ wpc'[w] \in {"wait", "events"}
          /\ wpc'[w] = "wait" => events'[w] = {}
      BY <1>0, <2>2 DEF AdoptDone, PassDone, SkipEvent, ReadNothing, ReadEvent, Pick,
                        TakeBytes, TypeOK
    <3>2. ~Active(w)'
      BY <3>1 DEF Active
    <3> QED BY <2>0, <3>1, <3>2, UseNoticing
  <2>3. CASE CleanUp(w)
    <3>1. PICK fd \in expired[w] :
            /\ expired' = [expired EXCEPT ![w] = @ \ {fd}]
            /\ \/ UNCHANGED <<interest, contexts, socketVars, ctx>>
               \/ Discard(w, contexts[w][fd])
      BY <2>3 DEF CleanUp
    <3>2. /\ expired'[w] = expired[w] \ {fd} /\ events' = events
          /\ wpc'[w] \in {"adopt", "clean"}
      BY <1>0, <2>3, <3>1 DEF CleanUp, TypeOK
    <3>3. ~Active(w)'
      BY <3>2 DEF Active
    <3>4. CASE UNCHANGED <<interest, contexts, socketVars, ctx>>
      BY <2>0, <3>2, <3>3, <3>4, UseNoticing
    <3>5. CASE Discard(w, contexts[w][fd])
      <4>1. PICK c \in Conns : c = contexts[w][fd] /\ c \in Served(w) /\ fdOf[c] = fd
        BY OverdueFacts
      <4> QED BY <2>0, <3>2, <3>5, <4>1, DiscardNoticing
    <3> QED BY <3>1, <3>4, <3>5
  <2>4. CASE Adopt(w)
    <3>1. PICK c : c = Head(queue[w])
      OBVIOUS
    <3>2. /\ c \in Conns /\ Unserved(c) /\ fdOf[c] \in Fds
          /\ contexts[w][fdOf[c]] = NoConn
          /\ \A v \in Workers, fd \in Fds :
                contexts'[v][fd] = IF v = w /\ fd = fdOf[c] THEN c ELSE contexts[v][fd]
          /\ \A d \in Conns : ctx'[d] = IF d = c THEN FreshContext ELSE ctx[d]
      BY <2>4, <3>1, AdoptEffect
    <3>3. UNCHANGED <<sock, fdOf, client, wpc, cur, events, expired>> /\ wpc[w] = "adopt"
      BY <2>4 DEF Adopt
    <3>4. Aging /\ \A d \in Conns \ {c} : Lasting(d)
      BY <3>2, <3>3 DEF Aging, Lasting
    <3>5. \A d \in Served(w) : /\ d \in Conns \ {c} /\ fdOf[d] \in Fds
                               /\ contexts'[w][fdOf[d]] = d
      <4>1. \A d \in Served(w) : d \in Conns /\ fdOf[d] \in Fds /\ contexts[w][fdOf[d]] = d
        BY ServedFacts DEF Served
      <4>2. c \notin Served(w)
        BY <3>2 DEF Unserved
      <4>3. ASSUME NEW d \in Served(w) PROVE fdOf[d] # fdOf[c] /\ d # c
        <5>1. d \in Conns /\ d # NoConn
          BY <4>1, ServerAssumption
        <5> QED BY <3>2, <4>1, <4>2, <5>1
      <4> QED BY <3>2, <4>1, <4>3
    <3>6. ~Active(w)'
      BY <3>3 DEF Active
    <3>7. Later(w)
      BY <3>3, <3>4, <3>5, <3>6 DEF Later, Lasting
    <3>8. /\ \A v \in Workers \ {w} : \A fd \in Fds : contexts'[v][fd] = contexts[v][fd]
          /\ \A v \in Workers \ {w}, d \in {c} : d \notin Served(v)
      BY <3>2 DEF Unserved
    <3> QED BY <2>0, <3>4, <3>7, <3>8, WorkerNoticing
  <2>5. CASE Exit(w)
    <3>1. PICK cs \in SUBSET (Served(w) \ InPool) : CloseAll(cs)
      BY <2>5 DEF Exit
    <3>2. /\ wpc[w] = "wait" /\ wpc'[w] = "exited" /\ UNCHANGED <<ctx, events, expired>>
          /\ \A v \in Workers \ {w} : contexts'[v] = contexts[v]
      BY <1>0, <2>5 DEF Exit, TypeOK
    <3>3. cs \in SUBSET Conns /\ \A d \in cs : d \in Conns /\ d \in Served(w)
      BY DEF Served
    <3>4. /\ \A d \in Conns \ cs : /\ sock'[d] = sock[d] /\ fdOf'[d] = fdOf[d]
                                   /\ client'[d] = client[d]
          /\ \A d \in cs : sock'[d] = "closed" /\ sock[d] = "open"
      BY <1>0, <3>1, <3>3, CloseAllEffect, ServedFacts
    <3>5. Aging /\ \A d \in Conns \ cs : Lasting(d)
      BY <3>2, <3>4 DEF Aging, Lasting
    <3>6. \A v \in Workers \ {w}, d \in cs : d \notin Served(v)
      BY <3>3, ServedFacts
    <3>7. Later(w)
      <4>1. events[w] = {} /\ expired[w] = {} /\ ~Active(w)'
        BY <2>a, <3>2 DEF Active
      <4> QED BY <3>2, <4>1 DEF Later
    <3> QED BY <2>0, <3>2, <3>5, <3>6, <3>7, WorkerNoticing
  <2>6. ASSUME NEW e \in events[w], Event(w, e) PROVE Noticing'
    <3>1. CASE SkipEvent(w, e) \/ ReadNothing(w, e)
      BY <2>2, <3>1
    <3>2. /\ wpc[w] = "events" /\ events'[w] = events[w] \ {e}
          /\ expired'[w] = expired[w] /\ expired[w] = {}
      BY <1>0, <2>6, <2>a DEF Event, SkipEvent, Disconnect, ReadNothing, ReadFailed,
              ReadRefused, ReadSmall, ReadLarge, WriteNothing, WriteEvent, ReadEvent, Pick, TypeOK
    <3>3. ASSUME Pick(w, e), Usable(w, e)
          PROVE  /\ Found(w, e) \in Conns /\ Found(w, e) \in Served(w)
                 /\ fdOf[Found(w, e)] = e.fd
                 /\ \A f \in events'[w] : f.fd # fdOf[Found(w, e)]
      BY <2>6, <2>a, <3>2, <3>3, FoundFacts
    <3>4. CASE Disconnect(w, e) \/ ReadFailed(w, e) \/ WriteNothing(w, e)
      <4>1. /\ Pick(w, e) /\ Usable(w, e) /\ wpc'[w] = "events"
            /\ Finished(w, Found(w, e)) \/ Discard(w, Found(w, e))
        BY <3>2, <3>4 DEF Disconnect, ReadFailed, ReadEvent, WriteNothing
      <4>2. PICK c \in Conns : /\ c = Found(w, e) /\ c \in Served(w)
                               /\ \A f \in events'[w] : f.fd # fdOf[c]
        BY <3>3, <4>1
      <4>3. CASE Discard(w, c)
        BY <2>0, <3>2, <4>1, <4>2, <4>3, DiscardNoticing
      <4>4. CASE Kept(w, c)
        BY <2>0, <3>2, <4>1, <4>2, <4>4, KeptNoticing
      <4> QED BY <1>0, <4>1, <4>2, <4>3, <4>4, FinishedEffect
\* The connection is locked, is answered, or is about to be written to.
    <3>5. ASSUME NEW c \in Conns, c \in Served(w),
                 \A f \in events'[w] : f.fd # fdOf[c],
                 UNCHANGED <<sock, fdOf, client, contexts>>,
                 \A d \in Conns \ {c} : ctx'[d] = ctx[d],
                 ctx[c].reply # {} => ctx'[c].reply # {}, ctx'[c].age = ctx[c].age,
                 wpc'[w] = "events" \/ (Active(w)' /\ cur'[w] = c)
          PROVE  Noticing'
      <4>1. \A d \in Conns : /\ ctx[d].reply # {} => ctx'[d].reply # {}
                             /\ ctx[d].age > KeepAliveTime => ctx'[d].age > KeepAliveTime
        BY <3>5
      <4>2. /\ wpc'[w] \notin {"wait", "exited"}
            /\ Active(w)' => cur'[w] = c
        BY <3>5 DEF Active
      <4> QED BY <2>0, <3>2, <3>5, <4>1, <4>2, UseNoticing
    <3>6. CASE ReadRefused(w, e) \/ ReadSmall(w, e) \/ ReadLarge(w, e)
      <4>1. /\ Pick(w, e) /\ Usable(w, e)
            /\ UNCHANGED <<sock, fdOf, client, contexts>>
            /\ Lock(w, Found(w, e)) \/ SendResponse(w, Found(w, e))
            /\ wpc'[w] = "events" \/ (wpc'[w] = "handle" /\ cur'[w] = Found(w, e))
        BY <1>0, <3>2, <3>6 DEF ReadRefused, ReadSmall, ReadLarge, ReadEvent, TakeBytes, TypeOK
      <4>2. PICK c \in Conns : /\ c = Found(w, e) /\ c \in Served(w)
                               /\ \A f \in events'[w] : f.fd # fdOf[c]
        BY <3>3, <4>1
      <4>3. /\ \A d \in Conns \ {c} : ctx'[d] = ctx[d]
            /\ ctx[c].reply # {} => ctx'[c].reply # {}
            /\ ctx'[c].age = ctx[c].age
        <5>1. CASE Lock(w, c)
          BY <1>0, <5>1, LockEffect
        <5>2. CASE SendResponse(w, c)
          <6>1. /\ \A d \in Conns \ {c} : ctx'[d] = ctx[d]
                /\ ctx'[c].reply = {"header"}
                /\ ctx'[c].age = ctx[c].age
            BY <1>0, <5>2, SendResponseEffect
          <6> QED BY <6>1
        <5> QED BY <4>1, <4>2, <5>1, <5>2
      <4>4. wpc'[w] = "events" \/ (Active(w)' /\ cur'[w] = c)
        BY <4>1, <4>2 DEF Active
      <4> QED BY <3>5, <4>1, <4>2, <4>3, <4>4
    <3>7. CASE WriteEvent(w, e)
      <4>1. /\ Pick(w, e) /\ Usable(w, e)
            /\ UNCHANGED <<sock, fdOf, client, contexts, ctx>>
            /\ wpc'[w] \in {"header", "content"} /\ cur'[w] = Found(w, e)
        BY <1>0, <3>2, <3>7 DEF WriteEvent, TypeOK
      <4>2. PICK c \in Conns : /\ c = Found(w, e) /\ c \in Served(w)
                               /\ \A f \in events'[w] : f.fd # fdOf[c]
        BY <3>3, <4>1
      <4>3. Active(w)'
        BY <4>1 DEF Active
      <4> QED BY <3>5, <4>1, <4>2, <4>3
    <3> QED BY <2>6, <3>1, <3>4, <3>6, <3>7 DEF Event
  <2>7. CASE \/ HandleInline(w) \/ HeaderSent(w) \/ WriteBlocked(w)
             \/ HeaderFailed(w) \/ Retry(w)
    <3>1. /\ Active(w) /\ UNCHANGED <<sock, fdOf, client, contexts, events, expired>>
          /\ \/ wpc'[w] = "events"
             \/ wpc'[w] \notin {"wait", "exited"} /\ cur'[w] = cur[w]
      BY <1>0, <2>7 DEF HandleInline, HeaderSent, WriteBlocked, HeaderFailed, Retry,
                        Return, Active, TypeOK
    <3>2. PICK c \in Conns : c = cur[w] /\ c \in Served(w)
      BY <2>0, <3>1
    <3>3. /\ \A d \in Conns \ {c} : ctx'[d] = ctx[d]
          /\ ctx[c].reply # {} => ctx'[c].reply # {}
          /\ ctx'[c].age = ctx[c].age
      <4>1. CASE HandleInline(w)
        BY <1>0, <3>2, <4>1, HandledInlineEffect
      <4>2. CASE HeaderSent(w)
        <5>1. ctx' = [ctx EXCEPT ![c].reply = {"content"}]
          BY <3>2, <4>2 DEF HeaderSent
        <5>2. /\ \A d \in Conns \ {c} : ctx'[d] = ctx[d]
              /\ ctx'[c].reply = {"content"} /\ ctx'[c].age = ctx[c].age
          BY <1>0, <5>1, HeaderSentEffect
        <5> QED BY <5>2
      <4>3. CASE WriteBlocked(w) \/ HeaderFailed(w) \/ Retry(w)
        BY <4>3 DEF WriteBlocked, HeaderFailed, Retry
      <4> QED BY <2>7, <4>1, <4>2, <4>3
    <3>4. \A d \in Conns : /\ ctx[d].reply # {} => ctx'[d].reply # {}
                           /\ ctx[d].age > KeepAliveTime => ctx'[d].age > KeepAliveTime
      BY <3>3
    <3>5. Active(w)' => /\ cur'[w] \in Served(w)
                        /\ \A e \in events'[w] : e.fd # fdOf[cur'[w]]
      BY <2>a, <3>1, <3>2 DEF Active
    <3>6. wpc'[w] \notin {"wait", "exited"}
      BY <3>1
    <3> QED BY <2>0, <3>1, <3>4, <3>5, <3>6, UseNoticing
  <2>8. CASE ResponseSent(w) \/ ContentFailed(w)
    <3>1. /\ Active(w) /\ wpc[w] # "clean" /\ wpc'[w] = "events"
          /\ UNCHANGED <<events, expired>>
          /\ Finished(w, cur[w]) \/ Discard(w, cur[w])
      BY <1>0, <2>8 DEF ResponseSent, ContentFailed, Return, Active, TypeOK
    <3>2. PICK c \in Conns : c = cur[w] /\ c \in Served(w)
      BY <2>0, <3>1
    <3>3. expired[w] = {} /\ \A e \in events'[w] : e.fd # fdOf[c]
      BY <2>a, <3>1, <3>2
    <3>4. CASE Discard(w, c)
      BY <2>0, <3>1, <3>2, <3>3, <3>4, DiscardNoticing
    <3>5. CASE Kept(w, c)
      BY <2>0, <3>1, <3>2, <3>3, <3>5, KeptNoticing
    <3> QED BY <1>0, <3>1, <3>2, <3>4, <3>5, FinishedEffect
  <2> QED BY <1>7, <2>1, <2>2, <2>3, <2>4, <2>5, <2>6, <2>7, <2>8 DEF Worker
<1>8. ASSUME NEW p \in PoolThreads, Pool(p) PROVE Noticing'
  <2>1. UNCHANGED <<sock, fdOf, client, wpc, cur, events, expired, contexts>>
    BY <1>8 DEF Pool, PoolTake, PoolHandle, PoolAdd, PoolUnlock, PoolNotify
  <2>2. \A d \in Conns : /\ ctx[d].reply # {} => ctx'[d].reply # {}
                         /\ ctx'[d].age = ctx[d].age
    <3>1. CASE PoolHandle(p)
      <4>1. /\ job[p][2] \in Conns /\ \A d \in Conns \ {job[p][2]} : ctx'[d] = ctx[d]
            /\ ctx'[job[p][2]].reply # {} /\ ctx'[job[p][2]].age = ctx[job[p][2]].age
        BY <1>0, <3>1, HandledEffect
      <4> QED BY <4>1
    <3>2. CASE PoolUnlock(p)
      <4>1. PICK c \in Conns : ctx' = [ctx EXCEPT ![c].locked = FALSE]
        <5>1. job[p] \in Workers \X Conns
          BY <1>0, <3>2 DEF PoolUnlock, TypeOK, TaskType
        <5> QED BY <3>2, <5>1 DEF PoolUnlock
      <4>2. /\ \A d \in Conns \ {c} : ctx'[d] = ctx[d]
            /\ ctx'[c].reply = ctx[c].reply /\ ctx'[c].age = ctx[c].age
        BY <1>0, <4>1, UnlockEffect
      <4> QED BY <4>2
    <3>3. CASE PoolTake(p) \/ PoolAdd(p) \/ PoolNotify(p)
      BY <3>3 DEF PoolTake, PoolAdd, PoolNotify
    <3> QED BY <1>8, <3>1, <3>2, <3>3 DEF Pool
  <2>3. Aging /\ \A d \in Conns : Lasting(d)
    BY <2>1, <2>2 DEF Aging, Lasting
  <2> QED BY <2>1, <2>3, IdleNoticing
<1> QED BY <1>1, <1>2, <1>4, <1>5, <1>6, <1>7, <1>8 DEF Step, Environment, Acceptor
-----------------------------------------------------------------------------
(* Why a connection is closed *)

\* A set of which any two members are equal has at most one.
LEMMA AtMostOne ==
  ASSUME NEW S, \A x, y \in S : x = y
  PROVE  Cardinality(S) <= 1
<1>1. CASE S = {}
  BY <1>1, FS_EmptySet
<1>2. CASE S # {}
  <2>1. PICK x \in S : TRUE
    BY <1>2
  <2>2. S = {x}
    BY <2>1
  <2> QED BY <2>2, FS_Singleton
<1> QED BY <1>1, <1>2

\* Only Discard by the worker whose table c is in, or that worker's end, closes c.
LEMMA Closer ==
  ASSUME IInv, [Step]_vars, NEW u \in Workers, NEW c \in Served(u),
         sock[c] = "open", sock'[c] = "closed"
  PROVE  Worker(u)
<1>0. TypeOK /\ Ownership /\ c \in Conns
  BY DEF IInv, Served
<1> USE DEF vars, kernelVars, socketVars, acceptVars, workerVars, poolVars, writeFrame
<1>1. CASE \/ \E d \in Conns : Send(d) \/ HalfClose(d) \/ Reset(d)
           \/ Tick \/ Signal \/ LeaveLoop \/ StopWorker
           \/ \E p \in PoolThreads : Pool(p) \/ UNCHANGED vars
  BY <1>1 DEF Send, HalfClose, Reset, Tick, Signal, LeaveLoop, StopWorker, Pool,
              PoolTake, PoolHandle, PoolAdd, PoolUnlock, PoolNotify
<1>2. ASSUME NEW d \in Conns, Accept(d) PROVE FALSE
  BY <1>0, <1>2 DEF Accept, TypeOK
<1>3. CASE EnqueueClient
  <2>1. newest \in Conns /\ Unserved(newest)
    BY <1>0, <1>3 DEF EnqueueClient, TypeOK, Ownership, Arrivals
  <2>2. \A d \in Conns \ {newest} : sock'[d] = sock[d]
    BY <1>0, <1>3, CloseAllEffect DEF EnqueueClient, Close
  <2> QED BY <1>0, <2>1, <2>2 DEF Unserved
<1>4. CASE JoinWorker
  <2>1. joining = NumWorkers - 1
    BY <1>4 DEF JoinWorker
  <2>2. \A w \in Workers : w = joining \/ w < joining
    BY <2>1, ServerAssumption DEF Workers
  <2>3. wpc[u] = "exited"
    BY <1>0, <1>4, <2>2 DEF JoinWorker, Ownership, Joined
  <2> QED BY <1>0, <2>3, ServerAssumption DEF Ownership, WorkersOwn, Served
<1>5. ASSUME NEW w \in Workers, Worker(w) PROVE w = u
  <2>1. ASSUME NEW d \in Conns, d \in Served(w), Discard(w, d) PROVE w = u
    <3>1. CloseAll({d})
      BY <2>1 DEF Discard, Close
    <3>2. d = c
      BY <1>0, <3>1, CloseAllEffect
    <3> QED BY <2>1, <3>2, ServedFacts
  <2>2. CASE Exit(w)
    <3>1. PICK cs \in SUBSET (Served(w) \ InPool) : CloseAll(cs)
      BY <2>2 DEF Exit
    <3>2. c \in cs
      BY <1>0, <3>1, CloseAllEffect
    <3> QED BY <1>0, <3>2, ServedFacts
  <2>3. CASE CleanUp(w)
    <3>1. PICK fd \in expired[w] : Discard(w, contexts[w][fd])
      BY <2>3 DEF CleanUp
    <3> QED BY <2>1, <3>1, OverdueFacts
  <2>4. CASE HandleInline(w) \/ Wait(w) \/ Adopt(w) \/ AdoptDone(w) \/ PassDone(w)
             \/ HeaderSent(w) \/ WriteBlocked(w) \/ HeaderFailed(w) \/ Retry(w)
    BY <2>4 DEF HandleInline, Wait, Adopt, AdoptDone, PassDone, HeaderSent,
                WriteBlocked, HeaderFailed, Retry
  <2>5. ASSUME NEW d \in Conns, d \in Served(w), Finished(w, d) PROVE w = u
    BY <1>0, <2>1, <2>5, FinishedEffect DEF Kept
  <2>6. CASE ResponseSent(w) \/ ContentFailed(w)
    <3>1. Active(w) /\ (Finished(w, cur[w]) \/ Discard(w, cur[w]))
      BY <2>6 DEF ResponseSent, ContentFailed, Active
    <3> QED BY <2>1, <2>5, <3>1, CurFacts
  <2>7. ASSUME NEW e \in events[w], Event(w, e) PROVE w = u
    <3>1. CASE Disconnect(w, e) \/ ReadFailed(w, e) \/ WriteNothing(w, e)
      <4>1. /\ Pick(w, e) /\ Usable(w, e)
            /\ Finished(w, Found(w, e)) \/ Discard(w, Found(w, e))
        BY <3>1 DEF Disconnect, ReadFailed, ReadEvent, WriteNothing
      <4> QED BY <2>1, <2>5, <4>1, FoundFacts
    <3>2. CASE SkipEvent(w, e) \/ ReadNothing(w, e) \/ ReadRefused(w, e)
               \/ ReadSmall(w, e) \/ ReadLarge(w, e) \/ WriteEvent(w, e)
      BY <3>2 DEF SkipEvent, ReadNothing, ReadRefused, ReadSmall, ReadLarge,
                  WriteEvent, TakeBytes
    <3> QED BY <2>7, <3>1, <3>2 DEF Event
  <2> QED BY <1>5, <2>2, <2>3, <2>4, <2>6, <2>7 DEF Worker
<1> QED BY <1>1, <1>2, <1>3, <1>4, <1>5 DEF Step, Environment, Acceptor

\* And that worker closes it for one of the reasons.
LEMMA ClosingReason ==
  ASSUME IInv, [Step]_vars, NEW w \in Workers, NEW c \in Served(w),
         sock[c] = "open", sock'[c] = "closed"
  PROVE  \/ client[c] = "reset"
         \/ cur[w] = c /\ (ctx[c].closing \/ ctx[c].count + 1 >= MaxRequests)
         \/ wpc[w] = "clean" /\ ctx[c].age > KeepAliveTime
         \/ stopFlag[w]
         \/ \E e \in events[w] : e.fd = fdOf[c] /\ e.of # c
<1>0. TypeOK /\ Ownership /\ Noticing /\ c \in Conns /\ Worker(w)
  BY Closer DEF IInv, Served
<1> USE DEF kernelVars, socketVars
<1>1. ASSUME NEW d \in Conns, Discard(w, d) PROVE d = c
  <2>1. CloseAll({d})
    BY <1>1 DEF Discard, Close
  <2> QED BY <1>0, <2>1, CloseAllEffect
<1>2. CASE CleanUp(w)
  <2>1. PICK fd \in expired[w] : wpc[w] = "clean" /\ Discard(w, contexts[w][fd])
    BY <1>2 DEF CleanUp
  <2>2. contexts[w][fd] = c
    BY <1>1, <2>1, OverdueFacts
  <2> QED BY <1>0, <2>1, <2>2 DEF Noticing, Overdues
<1>3. CASE Exit(w)
  BY <1>3 DEF Exit
<1>4. CASE HandleInline(w) \/ Wait(w) \/ Adopt(w) \/ AdoptDone(w) \/ PassDone(w)
           \/ HeaderSent(w) \/ WriteBlocked(w) \/ HeaderFailed(w) \/ Retry(w)
  BY <1>4 DEF HandleInline, Wait, Adopt, AdoptDone, PassDone, HeaderSent,
              WriteBlocked, HeaderFailed, Retry
<1>5. CASE ResponseSent(w)
  <2>1. Active(w) /\ Finished(w, cur[w])
    BY <1>5 DEF ResponseSent, Active
  <2>2. PICK d \in Conns : d = cur[w]
    BY <2>1, CurFacts
  <2>3. \/ Discard(w, d) /\ (ctx[d].closing \/ ctx[d].count + 1 >= MaxRequests)
        \/ Kept(w, d)
    BY <1>0, <2>1, <2>2, FinishedEffect
  <2> QED BY <1>1, <2>2, <2>3 DEF Kept
<1>6. CASE ContentFailed(w)
  <2>1. Active(w) /\ Discard(w, cur[w]) /\ client[cur[w]] = "reset"
    BY <1>6 DEF ContentFailed, Active
  <2> QED BY <1>1, <2>1, CurFacts
<1>7. ASSUME NEW e \in events[w], Event(w, e)
      PROVE  \/ client[c] = "reset"
             \/ \E f \in events[w] : f.fd = fdOf[c] /\ f.of # c
  <2>0. EventFresh(w, e)
    BY <1>0 DEF Noticing, EventsFresh
  <2>1. CASE Disconnect(w, e)
    <3>1. Pick(w, e) /\ Usable(w, e) /\ e.flag = "hangup" /\ Discard(w, Found(w, e))
      BY <2>1 DEF Disconnect
    <3>2. Found(w, e) = c /\ fdOf[c] = e.fd
      BY <1>1, <3>1, FoundFacts
    <3> QED BY <2>0, <3>1, <3>2 DEF EventFresh
  <2>2. CASE ReadFailed(w, e)
    <3>1. /\ Pick(w, e) /\ Usable(w, e) /\ client[Found(w, e)] = "reset"
          /\ Discard(w, Found(w, e))
      BY <2>2 DEF ReadFailed, ReadEvent
    <3> QED BY <1>1, <3>1, FoundFacts
  <2>3. CASE WriteNothing(w, e)
    <3>1. /\ Pick(w, e) /\ Usable(w, e) /\ e.flag = "write"
          /\ ctx[Found(w, e)].reply = {} /\ Finished(w, Found(w, e))
      BY <2>3 DEF WriteNothing
    <3>2. PICK d \in Conns : d = Found(w, e) /\ fdOf[d] = e.fd
      BY <3>1, FoundFacts
    <3>3. Discard(w, d) \/ Kept(w, d)
      BY <1>0, <3>1, <3>2, FinishedEffect
    <3>4. d = c
      BY <1>1, <3>3 DEF Kept
    <3> QED BY <2>0, <3>1, <3>2, <3>4 DEF EventFresh
  <2>4. CASE SkipEvent(w, e) \/ ReadNothing(w, e) \/ ReadRefused(w, e)
             \/ ReadSmall(w, e) \/ ReadLarge(w, e) \/ WriteEvent(w, e)
    BY <2>4 DEF SkipEvent, ReadNothing, ReadRefused, ReadSmall, ReadLarge,
                WriteEvent, TakeBytes
  <2> QED BY <1>7, <2>1, <2>2, <2>3, <2>4 DEF Event
<1> QED BY <1>0, <1>2, <1>3, <1>4, <1>5, <1>6, <1>7 DEF Worker
-----------------------------------------------------------------------------
(* The theorems *)

\* Before anybody connects, all of it holds.
LEMMA InitIInv == Init => IInv
<1> SUFFICES ASSUME Init PROVE IInv
  OBVIOUS
<1>1. TypeOK
  BY InitType
<1>2. /\ NoConn \notin Conns /\ NoFd \notin Fds
      /\ \A w \in Workers : ~(w < 0)
  BY ServerAssumption DEF Workers
<1>3. /\ \A w \in Workers, c \in Conns : c \notin Served(w)
      /\ \A w \in Workers : Served(w) = {}
  BY <1>2 DEF Init, Served
<1>4. Ownership
  <2>1. Descriptors /\ TablesOwnDescriptors /\ NoDescriptorLeak
    BY <1>2, <1>3 DEF Init, Descriptors, TablesOwnDescriptors, NoDescriptorLeak
  <2>2. Arrivals /\ Tasks
    BY <1>2 DEF Init, Arrivals, Tasks
  <2>3. WorkersOwn /\ Joined
    BY <1>2 DEF Init, WorkersOwn, Joined, Active
  <2> QED BY <2>1, <2>2, <2>3 DEF Ownership
<1>5. Locking
  <2>1. \A c : ~Tasked(c)
    BY DEF Init, Tasked, Busy
  <2>2. TasksDistinct
    BY DEF Init, TasksDistinct, Busy
  <2> QED BY <2>1, <2>2 DEF Init, Locking, TasksLocked, WorkersLocked, LocksHeld, FreshContext
<1>6. Interest
  BY <1>3 DEF Init, Interest, Polled, Sending, SendingAt, Finalizing
<1>7. Noticing
  BY DEF Init, Noticing, EventsFresh, Overdues, Active
<1> QED BY <1>1, <1>4, <1>5, <1>6, <1>7 DEF IInv

\* All of it is kept by every step.
LEMMA IInvStep == IInv /\ [Step]_vars => IInv'
BY TypeNext, OwnershipNext, LockingNext, InterestNext, NoticingNext DEF IInv

\* Nothing is left to be wrong about when the process has ended.
LEMMA IInvTerminate == ASSUME IInv, NEW u \in Workers, Terminate(u) PROVE IInv'
<1>0. TypeOK /\ Ownership
  BY DEF IInv
<1>1. /\ NoConn \notin Conns /\ NoFd \notin Fds
  BY ServerAssumption
<1>2. /\ sock' \in [Conns -> {"absent", "open", "closed"}] /\ \A c \in Conns : sock'[c] # "open"
      /\ fdOf' \in [Conns -> Fds \cup {NoFd}] /\ \A c \in Conns : fdOf'[c] = NoFd
      /\ client' \in [Conns -> {"up", "eof", "reset"}] /\ unread' \in [Conns -> BOOLEAN]
  BY <1>0 DEF Terminate, CloseAll, TypeOK, Ownership, Descriptors
<1>3. /\ interest' = [v \in Workers |-> [fd \in Fds |-> "none"]]
      /\ apc' = "terminated" /\ newest' = NoConn
      /\ queue' = [v \in Workers |-> <<>>]
      /\ contexts' = [v \in Workers |-> [fd \in Fds |-> NoConn]]
      /\ events' = [v \in Workers |-> {}] /\ expired' = [v \in Workers |-> {}]
      /\ wpc' = [v \in Workers |-> "exited"] /\ cur' = [v \in Workers |-> NoConn]
      /\ ctx' = [c \in Conns |-> FreshContext]
      /\ poolQueue' = <<>>
      /\ ppc' = [p \in PoolThreads |-> "idle"] /\ job' = [p \in PoolThreads |-> <<>>]
      /\ UNCHANGED <<isRunning, nextWorker, joining, cleanAge, stopFlag>>
  BY DEF Terminate
<1>4. TypeOK'
  BY <1>0, <1>2, <1>3, FreshContextType DEF TypeOK
<1>5. /\ \A w \in Workers, c \in Conns : c \notin Served(w)'
      /\ \A w \in Workers : Served(w)' = {}
  BY <1>1, <1>3 DEF Served
<1>6. Ownership'
  <2>1. Descriptors' /\ TablesOwnDescriptors' /\ NoDescriptorLeak'
    BY <1>1, <1>2, <1>3, <1>5 DEF Descriptors, TablesOwnDescriptors, NoDescriptorLeak
  <2>2. Arrivals' /\ Tasks'
    BY <1>1, <1>3 DEF Arrivals, Tasks
  <2>3. WorkersOwn' /\ Joined'
    BY <1>1, <1>3 DEF WorkersOwn, Joined, Active
  <2> QED BY <2>1, <2>2, <2>3 DEF Ownership
<1>7. Locking'
  <2>1. \A c : ~Tasked(c)'
    BY <1>3 DEF Tasked, Busy
  <2>2. TasksDistinct'
    BY <1>3 DEF TasksDistinct, Busy
  <2> QED BY <1>3, <2>1, <2>2 DEF Locking, TasksLocked, WorkersLocked, LocksHeld, FreshContext
<1>8. Interest'
  BY <1>3, <1>5 DEF Interest, Polled, Sending, SendingAt, Finalizing
<1>9. Noticing'
  BY <1>3 DEF Noticing, EventsFresh, Overdues, Active
<1> QED BY <1>4, <1>6, <1>7, <1>8, <1>9 DEF IInv

LEMMA IInvNext == IInv /\ [Next]_vars => IInv'
BY IInvStep, IInvTerminate DEF Next

\* The four layers and the types hold in every reachable state.
THEOREM Invariance == Spec => []IInv
BY InitIInv, IInvNext, PTL DEF Spec

\* Every variable keeps its type: descriptors, connection tables, epoll sets and
\* contexts stay what the code declares them to be.
THEOREM TypeCorrect == Spec => []TypeOK
<1>1. IInv => TypeOK
  BY DEF IInv
<1> QED BY <1>1, Invariance, PTL

\* However many workers, connections and descriptor numbers there are, a
\* connection table never refers to a descriptor that was closed and perhaps
\* handed out again, and no connection is in two tables: Discard's and the
\* clean-up's close and erase, and the queues, keep them in step.
THEOREM TablesOwn == Spec => []TablesOwnDescriptors
<1>1. IInv => TablesOwnDescriptors
  BY DEF IInv, Ownership
<1> QED BY <1>1, Invariance, PTL

\* No open socket is lost: each is in the accepting thread's hands, in a queue,
\* in a table or with the pool, but for the queue slots of a worker that ended.
THEOREM NoLeak == Spec => []NoDescriptorLeak
<1>1. IInv => NoDescriptorLeak
  BY DEF IInv, Ownership
<1> QED BY <1>1, Invariance, PTL

\* isLocked does its work: a worker's handler, a worker's write and a pool
\* thread's task never use one http_context at a time, and its socket stays open
\* for that long, whatever the clean-up, the clients and stale events do.
THEOREM OneUser == Spec => []OneUserAtATime
<1>1. ASSUME IInv, NEW c \in Conns
      PROVE  /\ Cardinality(Users(c)) <= 1
             /\ Users(c) # {} => sock[c] = "open"
  <2> DEFINE workers == {w \in Workers : Active(w) /\ cur[w] = c}
             threads == {p \in PoolThreads : ppc[p] \in {"handle", "add", "unlock"}
                                             /\ job[p][2] = c}
             waiting == {{i} : i \in {j \in DOMAIN poolQueue : poolQueue[j][2] = c}}
  <2>0. Ownership /\ Locking /\ Users(c) = workers \cup threads \cup waiting
    BY <1>1 DEF IInv, Users
  <2>1. CASE Tasked(c)
    <3>1. ctx[c].locked /\ sock[c] = "open"
      BY <2>0, <2>1 DEF Locking, TasksLocked
    <3>2. workers = {}
      BY <2>0, <2>1, <3>1 DEF Locking, WorkersLocked, Active
    <3>3. \A x, y \in threads \cup waiting : x = y
      <4>1. \A p, q \in threads : p = q
        BY <2>0 DEF Locking, TasksDistinct, Busy
      <4>2. \A x, y \in waiting : x = y
        BY <2>0 DEF Locking, TasksDistinct
      <4>3. \A x \in threads, y \in waiting : FALSE
        BY <2>0 DEF Locking, TasksDistinct, Busy
      <4> QED BY <4>1, <4>2, <4>3
    <3> HIDE DEF workers, threads, waiting
    <3>4. \A x, y \in Users(c) : x = y
      BY <2>0, <3>2, <3>3
    <3> QED BY <3>1, <3>4, AtMostOne
  <2>2. CASE ~Tasked(c)
    <3>1. threads = {} /\ waiting = {}
      BY <2>2 DEF Tasked, Busy
    <3>2. \A v, w \in workers : v = w
      BY <1>1, CurFacts, ServedFacts
    <3>3. workers # {} => sock[c] = "open"
      BY <1>1, CurFacts, ServedFacts
    <3> HIDE DEF workers, threads, waiting
    <3>4. \A x, y \in Users(c) : x = y
      BY <2>0, <3>1, <3>2
    <3>5. Users(c) # {} => sock[c] = "open"
      BY <2>0, <3>1, <3>3
    <3> QED BY <3>4, <3>5, AtMostOne
  <2> QED BY <2>1, <2>2
<1>2. IInv => OneUserAtATime
  BY <1>1 DEF OneUserAtATime
<1> QED BY <1>2, Invariance, PTL

\* A connection that no thread is using is registered with its worker's poller,
\* for writing if a response is pending and else for reading: none is forgotten
\* between finalize_request's add and unlock, or by a refused or finished request.
THEOREM NoneForgotten == Spec => []NobodyForgotten
<1>1. ASSUME IInv, NEW w \in Workers, NEW c \in Served(w), Users(c) = {}
      PROVE  interest[w][fdOf[c]] = IF ctx[c].reply = {} THEN "read" ELSE "write"
  <2>1. c \in Conns
    BY DEF Served
  <2>2. ~Tasked(c)
    <3>1. ASSUME NEW i \in DOMAIN poolQueue, poolQueue[i][2] = c PROVE {i} \in Users(c)
      BY <3>1 DEF Users
    <3>2. ASSUME NEW p \in PoolThreads, Busy(p), job[p][2] = c PROVE p \in Users(c)
      BY <3>2 DEF Users, Busy
    <3> QED BY <1>1, <3>1, <3>2 DEF Tasked
  <2>3. \A v \in Workers : wpc[v] = "handle" => cur[v] # c
    BY <1>1 DEF Users, Active
  <2>4. ~ctx[c].locked
    BY <1>1, <2>1, <2>2, <2>3 DEF IInv, Locking, LocksHeld
  <2> QED BY <1>1, <2>4 DEF IInv, Interest, Polled, PolledAt
<1>2. IInv => NobodyForgotten
  BY <1>1 DEF NobodyForgotten
<1> QED BY <1>2, Invariance, PTL

\* A worker closes a connection because its client is gone, its last response has
\* been sent, it was inactive for too long or the worker was told to stop; the one
\* other way is a hang-up whose descriptor number was recycled before it was seen.
THEOREM ClosedWithReason == Spec => ClosedForAReason
<1>1. ASSUME IInv, [Next]_vars, NEW u \in Workers, NEW c \in Served(u),
             sock[c] = "open", sock'[c] = "closed"
      PROVE  \/ client[c] = "reset"
             \/ cur[u] = c /\ (ctx[c].closing \/ ctx[c].count + 1 >= MaxRequests)
             \/ wpc[u] = "clean" /\ ctx[c].age > KeepAliveTime
             \/ stopFlag[u]
             \/ \E e \in events[u] : e.fd = fdOf[c] /\ e.of # c
             \/ apc' = "terminated"
  <2>1. CASE [Step]_vars
    BY <1>1, <2>1, ClosingReason
  <2>2. CASE \E w \in Workers : Terminate(w)
    BY <2>2 DEF Terminate
  <2> QED BY <1>1, <2>1, <2>2 DEF Next
<1>2. IInv /\ [Next]_vars =>
        [\A w \in Workers : \A c \in Served(w) :
            sock[c] = "open" /\ sock'[c] = "closed" =>
               \/ client[c] = "reset"
               \/ cur[w] = c /\ (ctx[c].closing \/ ctx[c].count + 1 >= MaxRequests)
               \/ wpc[w] = "clean" /\ ctx[c].age > KeepAliveTime
               \/ stopFlag[w]
               \/ \E e \in events[w] : e.fd = fdOf[c] /\ e.of # c
               \/ apc' = "terminated"]_vars
  BY <1>1
<1> QED BY <1>2, Invariance, PTL DEF Spec, ClosedForAReason
=============================================================================
