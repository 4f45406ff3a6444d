------------------------------- MODULE Poller -------------------------------
(***************************************************************************)
(* stw::poller (net/poller.cpp): epoll, kqueue and WSAPoll behind one      *)
(* interface.  One thread waits, and changes registrations between two     *)
(* waits; another thread changes them at any time and calls notify()       *)
(* after it, as the server's pool threads do.  A registration is added     *)
(* when the descriptor has none.  The waits have no time limit here, so    *)
(* that nothing but an event or a notification ends one.                   *)
(***************************************************************************)
EXTENDS Integers, Sequences, SequencesExt

CONSTANTS FDs, MaxSignals   \* MaxSignals: bound on notifications not yet read

VARIABLES
    kind,           \* the implementation the build has: "epoll", "kqueue", "wsa"
    interest,       \* the kernel's registrations, or pollFDs: fd -> requested flags
    workingSet,     \* wsa: the copy of pollFDs that WSAPoll is given
    dirty,          \* wsa: pollFDs has changed since
    signals,        \* notifications that have not been read
    conditions,     \* what holds of each descriptor
    waiter,         \* "idle", "polling", "draining"
    results,        \* what the last wait() has returned
    other           \* the other thread: "idle", or "changed" before its notify()

pollVars == <<kind, interest, workingSet, dirty, signals, conditions, waiter, results, other>>

Wanted == {"read", "write"}
NoRegistrations == [fd \in {} |-> {}]

PollInit ==
    /\ kind \in {"epoll", "kqueue", "wsa"}
    /\ interest = NoRegistrations /\ workingSet = NoRegistrations
    /\ dirty = TRUE
    /\ signals = 0
    /\ conditions = [fd \in FDs |-> {}]
    /\ waiter = "idle" /\ results = <<>> /\ other = "idle"

---------------------------------------------------------------------------
(* Registrations: each is one call, under the poller's mutex.              *)

Registered(fd, flags) == [f \in DOMAIN interest \cup {fd} |-> IF f = fd THEN flags ELSE interest[f]]

add(fd, flags) ==
    /\ fd \notin DOMAIN interest
    /\ interest' = Registered(fd, flags)
    /\ dirty' = TRUE

\* Mutant: the change is not noted.
modifyClean(fd, flags) ==
    /\ fd \in DOMAIN interest \/ kind = "kqueue"
    /\ interest' = Registered(fd, flags)
    /\ UNCHANGED dirty

\* kqueue registers a descriptor that is not registered yet; the others refuse.
modify(fd, flags) ==
    /\ fd \in DOMAIN interest \/ kind = "kqueue"
    /\ interest' = Registered(fd, flags)
    /\ dirty' = TRUE

\* kqueue is asked to delete both filters in one call, which ends at the first
\* that is not there: without a filter for reading, the one for writing stays.
remove(fd) ==
    /\ fd \in DOMAIN interest
    /\ interest' = IF kind = "kqueue" /\ "read" \notin interest[fd] THEN interest
                   ELSE [f \in DOMAIN interest \ {fd} |-> interest[f]]
    /\ dirty' = TRUE

Change ==
    \E fd \in FDs :
        \/ \E flags \in SUBSET Wanted \ {{}} : add(fd, flags) \/ modify(fd, flags)
        \/ remove(fd)

WaiterChanges ==
    /\ waiter = "idle" /\ Change
    /\ UNCHANGED <<kind, workingSet, signals, conditions, waiter, results, other>>

OtherChanges ==
    /\ other = "idle" /\ Change
    /\ other' = "changed"
    /\ UNCHANGED <<kind, workingSet, signals, conditions, waiter, results>>

\* An eventfd counts, a user event is set or not, a socket holds datagrams.
notify ==
    /\ other = "changed" /\ signals < MaxSignals
    /\ signals' = IF kind = "kqueue" THEN 1 ELSE signals + 1
    /\ other' = "idle"
    /\ UNCHANGED <<kind, interest, workingSet, dirty, conditions, waiter, results>>

---------------------------------------------------------------------------
(* wait().                                                                 *)

Polled == IF kind = "wsa" THEN workingSet ELSE interest

\* The kernel's events for a descriptor under a set of registrations: epoll
\* and WSAPoll report a hangup unasked, kqueue with each filter.
Events(set, fd) ==
    LET flags == conditions[fd] \cap (set[fd] \cup {"disconnect"})
        filters == {w \in set[fd] : w \in conditions[fd] \/ "disconnect" \in conditions[fd]}
    IN IF fd \notin DOMAIN set THEN {}
       ELSE IF kind = "kqueue"
            THEN {[fd |-> fd, flags |-> {w} \cup (conditions[fd] \cap {"disconnect"})] : w \in filters}
            ELSE IF flags = {} THEN {} ELSE {[fd |-> fd, flags |-> flags]}

Due(set, fd) == Events(set, fd) # {}

\* fdToIdx: a second event of a descriptor is merged into its first result.
\* epoll and WSAPoll have one event for a descriptor, or none.
Collect(events) ==
    LET merge(res, e) ==
            LET idx == {i \in DOMAIN res : res[i].fd = e.fd}
            IN IF idx = {} THEN Append(res, e)
               ELSE [i \in DOMAIN res |->
                        IF i \in idx THEN [res[i] EXCEPT !.flags = @ \cup e.flags] ELSE res[i]]
    IN FoldLeft(merge, <<>>, SetToSeq(events))

StartWait ==
    /\ waiter = "idle"
    /\ waiter' = "polling" /\ results' = <<>>
    /\ workingSet' = IF kind = "wsa" /\ dirty THEN interest ELSE workingSet
    /\ dirty' = IF kind = "wsa" THEN FALSE ELSE dirty
    /\ UNCHANGED <<kind, interest, signals, conditions, other>>

\* Mutant: a wait that a notification ends returns no events.
WakeNotified ==
    /\ waiter = "polling"
    /\ signals > 0 \/ \E fd \in FDs : Due(Polled, fd)
    /\ results' = IF signals > 0 THEN <<>> ELSE Collect(UNION {Events(Polled, fd) : fd \in FDs})
    /\ waiter' = IF signals > 0 /\ kind # "kqueue" THEN "draining" ELSE "idle"
    /\ signals' = IF kind = "kqueue" THEN 0 ELSE signals
    /\ UNCHANGED <<kind, interest, workingSet, dirty, conditions, other>>

\* The kernel returns, a user event of kqueue is cleared by it.
Wake ==
    /\ waiter = "polling"
    /\ signals > 0 \/ \E fd \in FDs : Due(Polled, fd)
    /\ results' = Collect(UNION {Events(Polled, fd) : fd \in FDs})
    /\ waiter' = IF signals > 0 /\ kind # "kqueue" THEN "draining" ELSE "idle"
    /\ signals' = IF kind = "kqueue" THEN 0 ELSE signals
    /\ UNCHANGED <<kind, interest, workingSet, dirty, conditions, other>>

\* A read of the eventfd takes every notification, a recv one.
Drain ==
    /\ waiter = "draining"
    /\ signals' = IF kind = "wsa" THEN signals - 1 ELSE 0
    /\ waiter' = "idle"
    /\ UNCHANGED <<kind, interest, workingSet, dirty, conditions, results, other>>

---------------------------------------------------------------------------

ConditionChanges ==
    /\ \E fd \in FDs, c \in SUBSET {"read", "write", "disconnect"} :
          conditions' = [conditions EXCEPT ![fd] = c]
    /\ UNCHANGED <<kind, interest, workingSet, dirty, signals, waiter, results, other>>

PollNext ==
    \/ WaiterChanges \/ OtherChanges \/ notify
    \/ StartWait \/ Wake \/ Drain
    \/ ConditionChanges

PollSpec == PollInit /\ [][PollNext]_pollVars

---------------------------------------------------------------------------
(* A wait never blocks over an event that somebody has asked for: when a   *)
(* descriptor is due under the registrations as they are, the wait will    *)
(* return for it, or for a notification that is there or about to come,    *)
(* also when WSAPoll was given a copy that is out of date (wsa_poller's    *)
(* dirty flag, read and reset before the poll).                            *)
NobodySleepsThrough ==
    (waiter = "polling" /\ \E fd \in FDs : Due(interest, fd))
        => \/ \E fd \in FDs : Due(Polled, fd)
           \/ signals > 0 \/ other = "changed"

(* A flag that stays requested of a descriptor, and stays true of it, is   *)
(* reported, whatever else is registered, changed or notified meanwhile,   *)
(* also where the kernel reports read and write one by one (kqueue).       *)
Pending(fd, w) == fd \in DOMAIN interest /\ w \in interest[fd] \cap conditions[fd]
ReadyReported ==
    \A fd \in FDs, w \in Wanted :
        Pending(fd, w) ~> (~Pending(fd, w) \/ \E r \in Range(results) : r.fd = fd /\ w \in r.flags)
=============================================================================
