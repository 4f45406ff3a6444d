-------------------------- MODULE SessionManager ---------------------------
(***************************************************************************)
(* stw::http_session_manager (src/stw/src/stw/net/http_session_manager.cpp)*)
(* in memory: the threads of the server and its pool start, change and end *)
(* sessions for the requests they handle.  What is saved to a file is      *)
(* SessionState's subject.                                                 *)
(*                                                                         *)
(* An operation under the unique lock is one step, possible when no thread *)
(* holds the shared lock.  start() extends a session under the shared lock *)
(* only, so its reading of the clock, its test and its store are steps of  *)
(* their own, which those of other calls to start() come between.          *)
(*                                                                         *)
(* Time is relative: `left` is expires minus now, `lag` now minus the      *)
(* instant a thread has read.                                              *)
(***************************************************************************)
EXTENDS Integers, FiniteSets

CONSTANTS Threads,
          Ids,       \* bound: the ids create_id returns in a behaviour
          Keys, Values,
          MaxAge,    \* MAX_AGE_SECONDS, in ticks
          Threshold, \* CLEANUP_THRESHOLD
          Delay,     \* bound: ticks a call may use an instant it has read
          NoId, NoValue, NoSession

ASSUME SessionAssumption ==
    /\ IsFiniteSet(Threads) /\ Threads # {}
    /\ IsFiniteSet(Ids) /\ NoId \notin Ids
    /\ NoValue \notin Values
    /\ MaxAge \in Nat /\ Threshold \in Nat \ {0} /\ Delay \in Nat /\ Delay < MaxAge

Lifetimes == (-Delay - 1)..MaxAge

Sessions == [left : Lifetimes, settings : [Keys -> Values \cup {NoValue}]]

ASSUME NoSessionAssumption == NoSession \notin Sessions

VARIABLES
    sessions,        \* the map; NoSession: the id is not in it
    requestCounter,
    pc, cookie,      \* of a thread in start(): where it is, SESSION_ID sent
    lag, sid,        \* ticks since `now` was read; the id created
    issued,          \* history: the ids sent to clients
    promised,        \* history: what is left of the longest lifetime granted
    uncleaned        \* history: calls of start() since the last clean-up

callVars == <<pc, cookie, lag, sid>>
vars == <<sessions, requestCounter, callVars, issued, promised, uncleaned>>

Init ==
    /\ sessions = [id \in Ids |-> NoSession]
    /\ requestCounter = 0
    /\ pc = [t \in Threads |-> "idle"] /\ cookie = [t \in Threads |-> NoId]
    /\ lag = [t \in Threads |-> 0] /\ sid = [t \in Threads |-> NoId]
    /\ issued = {} /\ promised = [id \in Ids |-> 0] /\ uncleaned = 0

Present(id) == sessions[id] # NoSession

\* What every operation but destroy and cleanup asks of a session it uses.
Valid(id) == Present(id) /\ sessions[id].left > 0

\* The threads that hold the shared lock.
Readers == {t \in Threads : pc[t] \in {"check", "extend"}}

\* The threads that use an instant they have read.
Timed == Readers \cup {t \in Threads : pc[t] = "insert"}

Larger(a, b) == IF a >= b THEN a ELSE b

Erase(ids) ==
    sessions' = [id \in Ids |-> IF id \in ids THEN NoSession ELSE sessions[id]]

Goto(t, label) == pc' = [pc EXCEPT ![t] = label]
-----------------------------------------------------------------------------
Tick ==
    /\ \A t \in Timed : lag[t] < Delay
    /\ lag' = [t \in Threads |-> IF t \in Timed THEN lag[t] + 1 ELSE 0]
    /\ sessions' = [id \in Ids |->
          IF Present(id) THEN [sessions[id] EXCEPT !.left = Larger(@ - 1, -Delay - 1)]
                         ELSE NoSession]
    /\ promised' = [id \in Ids |-> Larger(promised[id] - 1, 0)]
    /\ UNCHANGED <<requestCounter, pc, cookie, sid, issued, uncleaned>>
-----------------------------------------------------------------------------
(* start *)

\* Ids are never reused: a call begins only if there is one left for it.
Unassigned == Cardinality(Ids \ issued) - Cardinality({t \in Threads : pc[t] # "idle"})

\* Mutant: the counter is reset by every call.
CountResets(t, c) ==
    /\ pc[t] = "idle" /\ Unassigned > 0
    /\ cookie' = [cookie EXCEPT ![t] = c]
    /\ requestCounter' = 0
    /\ uncleaned' = uncleaned + 1
    /\ Goto(t, IF (requestCounter + 1) % Threshold = 0 THEN "cleanup" ELSE "lookup")
    /\ UNCHANGED <<sessions, lag, sid, issued, promised>>

\* A request with the cookie c, or without one.
Count(t, c) ==
    /\ pc[t] = "idle" /\ Unassigned > 0
    /\ cookie' = [cookie EXCEPT ![t] = c]
    /\ requestCounter' = requestCounter + 1
    /\ uncleaned' = uncleaned + 1
    /\ Goto(t, IF requestCounter' % Threshold = 0 THEN "cleanup" ELSE "lookup")
    /\ UNCHANGED <<sessions, lag, sid, issued, promised>>

CleanUp(t) ==
    /\ pc[t] = "cleanup" /\ Readers = {}
    /\ Erase({id \in Ids : Present(id) /\ sessions[id].left < 0})
    /\ uncleaned' = 0
    /\ Goto(t, "reset")
    /\ UNCHANGED <<requestCounter, cookie, lag, sid, issued, promised>>

\* Other threads may have counted since.
ResetCounter(t) ==
    /\ pc[t] = "reset"
    /\ requestCounter' = 0
    /\ Goto(t, "lookup")
    /\ UNCHANGED <<sessions, cookie, lag, sid, issued, promised, uncleaned>>

\* The shared lock is taken and the clock read.
Lookup(t) ==
    /\ pc[t] = "lookup" /\ cookie[t] # NoId
    /\ lag' = [lag EXCEPT ![t] = 0]
    /\ Goto(t, "check")
    /\ UNCHANGED <<sessions, requestCounter, cookie, sid, issued, promised, uncleaned>>

\* expires > now, for the now that was read.
Unexpired(t) == Present(cookie[t]) /\ sessions[cookie[t]].left + lag[t] > 0

\* Mutant: any session that is in the map will do.
CheckPresence(t) ==
    /\ pc[t] = "check"
    /\ Goto(t, IF Present(cookie[t]) THEN "extend" ELSE "create")
    /\ UNCHANGED <<sessions, requestCounter, cookie, lag, sid, issued, promised, uncleaned>>

\* A session that is gone or has expired: the shared lock is released.
Check(t) ==
    /\ pc[t] = "check"
    /\ Goto(t, IF Unexpired(t) THEN "extend" ELSE "create")
    /\ UNCHANGED <<sessions, requestCounter, cookie, lag, sid, issued, promised, uncleaned>>

\* What a call that ends grants to a session.
Grant(t, id) ==
    /\ promised' = [promised EXCEPT ![id] = Larger(@, MaxAge - lag[t])]
    /\ pc' = [pc EXCEPT ![t] = "idle"]
    /\ cookie' = [cookie EXCEPT ![t] = NoId]
    /\ sid' = [sid EXCEPT ![t] = NoId]
    /\ lag' = [lag EXCEPT ![t] = 0]

\* Mutant: a session already in the map is left as it is.
ExtendForgotten(t) ==
    /\ pc[t] = "extend"
    /\ Grant(t, cookie[t])
    /\ UNCHANGED <<sessions, requestCounter, issued, uncleaned>>

\* expires is stored, and the shared lock released.
Extend(t) ==
    /\ pc[t] = "extend"
    /\ sessions' = [sessions EXCEPT ![cookie[t]].left = MaxAge - lag[t]]
    /\ Grant(t, cookie[t])
    /\ UNCHANGED <<requestCounter, issued, uncleaned>>

\* Mutant: the client keeps the id it came with.
CreateKeepsId(t) ==
    /\ pc[t] = "create" \/ (pc[t] = "lookup" /\ cookie[t] = NoId)
    /\ \E id \in Ids \ {sid[u] : u \in Threads} :
          /\ IF cookie[t] = NoId THEN id \notin issued ELSE id = cookie[t]
          /\ sid' = [sid EXCEPT ![t] = id]
    /\ lag' = [lag EXCEPT ![t] = 0]
    /\ Goto(t, "insert")
    /\ UNCHANGED <<sessions, requestCounter, cookie, issued, promised, uncleaned>>

\* create_id (128 random bits: no id comes twice), and the clock.
Create(t) ==
    /\ pc[t] = "create" \/ (pc[t] = "lookup" /\ cookie[t] = NoId)
    /\ \E id \in Ids \ (issued \cup {sid[u] : u \in Threads}) :
          sid' = [sid EXCEPT ![t] = id]
    /\ lag' = [lag EXCEPT ![t] = 0]
    /\ Goto(t, "insert")
    /\ UNCHANGED <<sessions, requestCounter, cookie, issued, promised, uncleaned>>

\* The unique lock; then the cookie goes into the response.
Insert(t) ==
    /\ pc[t] = "insert" /\ Readers = {}
    /\ sessions' = [sessions EXCEPT ![sid[t]] =
                       [left |-> MaxAge - lag[t], settings |-> [k \in Keys |-> NoValue]]]
    /\ issued' = issued \cup {sid[t]}
    /\ Grant(t, sid[t])
    /\ UNCHANGED <<requestCounter, uncleaned>>
-----------------------------------------------------------------------------
(* The other operations that change something, each under the unique lock *)

\* Whatever promised the session more is void.
EndSessions(ids) ==
    /\ Erase(ids)
    /\ promised' = [id \in Ids |-> IF id \in ids THEN 0 ELSE promised[id]]
    /\ UNCHANGED <<requestCounter, callVars, issued, uncleaned>>

destroy(id) == Readers = {} /\ Present(id) /\ EndSessions({id})

set_value(id, k, v) ==
    /\ Readers = {} /\ Valid(id)
    /\ sessions' = [sessions EXCEPT ![id].settings[k] = v]
    /\ UNCHANGED <<requestCounter, callVars, issued, promised, uncleaned>>

\* invalidate_sessions_with_key_and_value
invalidate(k, v) ==
    /\ Readers = {}
    /\ EndSessions({id \in Ids : Present(id) /\ sessions[id].settings[k] # NoValue})
-----------------------------------------------------------------------------
Start(t) == \/ \E c \in issued \cup {NoId} : Count(t, c)
            \/ CleanUp(t) \/ ResetCounter(t)
            \/ Lookup(t) \/ Check(t) \/ Extend(t)
            \/ Create(t) \/ Insert(t)

Change == \/ \E id \in issued : destroy(id)
          \/ \E id \in issued, k \in Keys, v \in Values : set_value(id, k, v)
          \/ \E k \in Keys, v \in Values : invalidate(k, v)

Next == Tick \/ (\E t \in Threads : Start(t)) \/ Change

Spec == Init /\ [][Next]_vars
-----------------------------------------------------------------------------
(* Properties *)

\* The variables range over what the code can store in them; no session has
\* more than MAX_AGE_SECONDS to live.
TypeOK ==
    /\ sessions \in [Ids -> Sessions \cup {NoSession}]
    /\ requestCounter \in Nat
    /\ pc \in [Threads -> {"idle", "cleanup", "reset", "lookup", "check",
                           "extend", "create", "insert"}]
    /\ cookie \in [Threads -> Ids \cup {NoId}]
    /\ lag \in [Threads -> 0..Delay]
    /\ sid \in [Threads -> Ids \cup {NoId}]
    /\ issued \subseteq Ids
    /\ promised \in [Ids -> 0..MaxAge]
    /\ uncleaned \in Nat

\* A session that has ended, by destroy(), by invalidation or by age, does not
\* come back, whatever calls of start() with its id are under way.
EndedForGood ==
    [][\A id \in issued : ~Present(id) => ~Present(id)']_vars

\* A session that expired longer ago than a call takes is not prolonged.
ExpiredForGood ==
    [][\A id \in Ids : Present(id) /\ sessions[id].left <= -Delay =>
          ~Present(id)' \/ sessions'[id].left <= sessions[id].left]_vars

\* No call of start() that returned is betrayed: unless it is destroyed, the
\* session lives on for MAX_AGE_SECONDS.  Two calls that store expires at the
\* same time may store the older instant last: the loss is a call's duration.
NotCutShort ==
    \A id \in issued :
       promised[id] > Delay => Present(id) /\ sessions[id].left >= promised[id] - Delay

\* However threads that count race with threads that reset the counter, there
\* is a clean-up every so often: at most 2 * Threshold requests per thread go
\* by without one.
CleanupDue == uncleaned <= 2 * Threshold * Cardinality(Threads)

\* invalidate_sessions_with_key_and_value ends the sessions that have the value
\* it is given, and no others.
OnlyMatchingInvalidated ==
    [][\A k \in Keys, v \in Values : invalidate(k, v) =>
          \A id \in Ids : Present(id) /\ sessions[id].settings[k] # v => Present(id)']_vars
=============================================================================
