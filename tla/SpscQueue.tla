----------------------------- MODULE SpscQueue -----------------------------
(***************************************************************************)
(* stw::queue<T, Size> (src/stw/include/stw/system/queue.hpp): the lock    *)
(* free ring through which the accepting thread hands sockets to a worker. *)
(*                                                                         *)
(* The two indices are C++ atomics.  Each is modelled by its modification  *)
(* order, the sequence of every value ever stored in it, together with how *)
(* far in that order the other thread has read: an acquire load returns    *)
(* any value from there on (WeakLoads), or only the latest one.  Reading   *)
(* the i-th store synchronises with everything sequenced before it, which  *)
(* is what the absence of a data race on a slot is derived from.           *)
(***************************************************************************)
EXTENDS Naturals, Sequences

CONSTANTS Size,        \* the number of slots, a power of two
          Values,      \* the values enqueued
          NoValue,     \* the content of a slot never written
          WeakLoads,   \* TRUE: an acquire load may miss recent stores
          MaxStores    \* bound: how many values are accepted in a behaviour

ASSUME SizeAssumption == Size \in Nat \ {0} /\ \E k \in 0..Size : Size = 2^k
ASSUME ValueAssumption == NoValue \notin Values
ASSUME BoundAssumption == WeakLoads \in BOOLEAN /\ MaxStores \in Nat

VARIABLES headMO,      \* modification order of head (stored by the consumer)
          tailMO,      \* modification order of tail (stored by the producer)
          headSeen,    \* the store of head the producer last read
          tailSeen,    \* the store of tail the consumer last read
          buffer,
          ppc, t, value, enqRet,    \* the producer: pc, locals, result
          cpc, h, outValue, deqRet  \* the consumer: pc, locals, result

producer == <<ppc, t, value, enqRet>>
consumer == <<cpc, h, outValue, deqRet>>
vars == <<headMO, tailMO, headSeen, tailSeen, buffer, producer, consumer>>

Slots == 0..(Size - 1)

\* (i + 1) & mask, for a power of two.
Following(i) == (i + 1) % Size

\* The stores an acquire load may return: never older than the last one read.
Visible(mo, seen) == IF WeakLoads THEN seen..Len(mo) ELSE {Len(mo)}

Init == /\ headMO = <<0>> /\ tailMO = <<0>>
        /\ headSeen = 1 /\ tailSeen = 1
        /\ buffer = [s \in Slots |-> NoValue]
        /\ ppc = "idle" /\ t = 0 /\ value = NoValue /\ enqRet = "none"
        /\ cpc = "idle" /\ h = 0 /\ outValue = NoValue /\ deqRet = <<"none">>
-----------------------------------------------------------------------------
(* enqueue: the producer *)

\* tail is stored by this thread only: the relaxed load returns the last store.
EnqueueCall(v) ==
    /\ ppc = "idle"
    /\ Len(tailMO) <= MaxStores
    /\ ppc' = "check" /\ value' = v /\ t' = tailMO[Len(tailMO)]
    /\ enqRet' = "pending"
    /\ UNCHANGED <<headMO, tailMO, headSeen, tailSeen, buffer, consumer>>

EnqueueFull ==
    /\ ppc = "check"
    /\ \E i \in Visible(headMO, headSeen) :
          /\ Following(t) = headMO[i]
          /\ headSeen' = i
    /\ ppc' = "idle" /\ enqRet' = "full"
    /\ UNCHANGED <<headMO, tailMO, tailSeen, buffer, t, value, consumer>>

\* Mutant: the test for a full ring is missing.
EnqueueRoomUnchecked ==
    /\ ppc = "check"
    /\ \E i \in Visible(headMO, headSeen) : headSeen' = i
    /\ ppc' = "write"
    /\ UNCHANGED <<headMO, tailMO, tailSeen, buffer, t, value, enqRet, consumer>>

EnqueueRoom ==
    /\ ppc = "check"
    /\ \E i \in Visible(headMO, headSeen) :
          /\ Following(t) # headMO[i]
          /\ headSeen' = i
    /\ ppc' = "write"
    /\ UNCHANGED <<headMO, tailMO, tailSeen, buffer, t, value, enqRet, consumer>>

EnqueueWrite ==
    /\ ppc = "write"
    /\ buffer' = [buffer EXCEPT ![t] = value]
    /\ ppc' = "publish"
    /\ UNCHANGED <<headMO, tailMO, headSeen, tailSeen, t, value, enqRet, consumer>>

\* Mutant: the old index is stored again.
EnqueuePublishStuck ==
    /\ ppc = "publish"
    /\ tailMO' = Append(tailMO, t)
    /\ ppc' = "idle" /\ enqRet' = "ok"
    /\ UNCHANGED <<headMO, headSeen, tailSeen, buffer, t, value, consumer>>

EnqueuePublish ==
    /\ ppc = "publish"
    /\ tailMO' = Append(tailMO, Following(t))
    /\ ppc' = "idle" /\ enqRet' = "ok"
    /\ UNCHANGED <<headMO, headSeen, tailSeen, buffer, t, value, consumer>>
-----------------------------------------------------------------------------
(* try_dequeue: the consumer *)

DequeueCall ==
    /\ cpc = "idle"
    /\ cpc' = "check" /\ h' = headMO[Len(headMO)]
    /\ deqRet' = <<"pending">>
    /\ UNCHANGED <<headMO, tailMO, headSeen, tailSeen, buffer, outValue, producer>>

DequeueEmpty ==
    /\ cpc = "check"
    /\ \E i \in Visible(tailMO, tailSeen) :
          /\ h = tailMO[i]
          /\ tailSeen' = i
    /\ cpc' = "idle" /\ deqRet' = <<"empty">>
    /\ UNCHANGED <<headMO, tailMO, headSeen, buffer, h, outValue, producer>>

\* Mutant: the test for an empty ring is missing.
DequeueSomeUnchecked ==
    /\ cpc = "check"
    /\ \E i \in Visible(tailMO, tailSeen) : tailSeen' = i
    /\ cpc' = "read"
    /\ UNCHANGED <<headMO, tailMO, headSeen, buffer, h, outValue, deqRet, producer>>

DequeueSome ==
    /\ cpc = "check"
    /\ \E i \in Visible(tailMO, tailSeen) :
          /\ h # tailMO[i]
          /\ tailSeen' = i
    /\ cpc' = "read"
    /\ UNCHANGED <<headMO, tailMO, headSeen, buffer, h, outValue, deqRet, producer>>

DequeueRead ==
    /\ cpc = "read"
    /\ outValue' = buffer[h]
    /\ cpc' = "publish"
    /\ UNCHANGED <<headMO, tailMO, headSeen, tailSeen, buffer, h, deqRet, producer>>

DequeuePublish ==
    /\ cpc = "publish"
    /\ headMO' = Append(headMO, Following(h))
    /\ cpc' = "idle" /\ deqRet' = <<"ok", outValue>>
    /\ UNCHANGED <<tailMO, headSeen, tailSeen, buffer, h, outValue, producer>>
-----------------------------------------------------------------------------
Producer == \/ \E v \in Values : EnqueueCall(v)
            \/ EnqueueFull \/ EnqueueRoom \/ EnqueueWrite \/ EnqueuePublish

Consumer == \/ DequeueCall
            \/ DequeueEmpty \/ DequeueSome \/ DequeueRead \/ DequeuePublish

Next == Producer \/ Consumer

Spec == Init /\ [][Next]_vars

\* The worker drains its queue on every turn of its loop, and a call, once
\* begun, is never suspended for ever.  An atomic store becomes visible to the
\* other thread in a finite time, so not every load of a consumer that keeps
\* looking is stale.
FairSpec == /\ Spec
            /\ WF_vars(Consumer) /\ SF_vars(DequeueSome)
            /\ WF_vars(EnqueueFull \/ EnqueueRoom \/ EnqueueWrite \/ EnqueuePublish)
-----------------------------------------------------------------------------
(* Properties *)

\* The values in the ring, oldest first, read from the slots themselves: the
\* k-th value enqueued is in slot tailMO[k] until the consumer releases it.
Items == [i \in 1..(Len(tailMO) - Len(headMO)) |->
             buffer[tailMO[Len(headMO) + i - 1]]]

\* The variables range over what the C++ declarations allow: indices below
\* Size, slots holding values, results of the two calls.
TypeOK ==
    /\ headMO \in Seq(Slots) /\ tailMO \in Seq(Slots)
    /\ headSeen \in 1..Len(headMO) /\ tailSeen \in 1..Len(tailMO)
    /\ buffer \in [Slots -> Values \cup {NoValue}]
    /\ ppc \in {"idle", "check", "write", "publish"}
    /\ t \in Slots /\ value \in Values \cup {NoValue}
    /\ enqRet \in {"none", "pending", "full", "ok"}
    /\ cpc \in {"idle", "check", "read", "publish"}
    /\ h \in Slots /\ outValue \in Values \cup {NoValue}
    /\ deqRet \in {<<"none">>, <<"pending">>, <<"empty">>}
                     \cup ({"ok"} \X (Values \cup {NoValue}))

\* The slot the i-th store of either index designates.
Slot(i) == (i - 1) % Size

\* Both indices advance one slot at a time; head never passes the tail the
\* consumer has seen, and tail never gets a full turn ahead of the head the
\* producer has seen.  (The inductive part of what makes the queue safe.)
Synchronised ==
    /\ \A i \in 1..Len(headMO) : headMO[i] = Slot(i)
    /\ \A i \in 1..Len(tailMO) : tailMO[i] = Slot(i)
    /\ Len(headMO) <= tailSeen
    /\ Len(tailMO) - headSeen <= Size - 1
    /\ ppc # "idle" => t = Slot(Len(tailMO)) /\ value \in Values
    /\ ppc \in {"write", "publish"} => Len(tailMO) - headSeen < Size - 1
    /\ ppc = "publish" => buffer[t] = value
    /\ cpc # "idle" => h = Slot(Len(headMO))
    /\ cpc \in {"read", "publish"} => Len(headMO) < tailSeen
    /\ cpc = "publish" => outValue = buffer[h]
    /\ enqRet = "pending" <=> ppc # "idle"
    /\ deqRet = <<"pending">> <=> cpc # "idle"

\* The producer writes a slot only when every value that ever occupied it was
\* released by a store of head which the producer has read: the plain read of
\* the consumer happens before the plain write, whatever the loads return.
NoWriteRace ==
    ppc = "write" => \A k \in headSeen..(Len(tailMO) - 1) : tailMO[k] # t

\* The consumer reads a slot only when the value in it was published by a
\* store of tail which the consumer has read.
NoReadRace ==
    cpc = "read" => /\ Len(headMO) < tailSeen
                    /\ tailMO[Len(headMO)] = h

\* No slot is raced for: each plain access of one thread happens before or after
\* the other thread's, whatever the loads of the indices return.
NoSlotRace == NoWriteRace /\ NoReadRace

\* The ring implements the bounded queue of Size - 1 values: nothing is lost,
\* duplicated or reordered, and (unless loads may be stale) a call fails only
\* when the queue really was full or empty at the moment it looked.
Fifo == INSTANCE BoundedFifo WITH items <- Items, Capacity <- Size - 1,
                                  Spurious <- WeakLoads
ImplementsFifo == Fifo!Spec

\* A value in the ring leaves it: the consumer cannot be kept from reaching
\* the newest value by a producer that keeps adding more.
EveryValueLeaves ==
    \A k \in 1..MaxStores : (Len(tailMO) > k) ~> (Len(headMO) > k)
=============================================================================
