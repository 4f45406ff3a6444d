---------------------------- MODULE BoundedFifo ----------------------------
(***************************************************************************)
(* What stw::queue promises to its two users: a first-in first-out buffer  *)
(* of at most Capacity values, one call of each kind outstanding at a      *)
(* time.  A call is begun, takes effect in one atomic step, and then its   *)
(* result may be read.                                                     *)
(***************************************************************************)
EXTENDS Naturals, Sequences

CONSTANTS Values,      \* what is handed over (sockets, in the server)
          Capacity,    \* how many values fit
          Spurious     \* TRUE: a call may fail although it could have succeeded

VARIABLES items,       \* the values held, oldest first
          enqRet,      \* the enqueue call: "pending", or its result
          deqRet       \* the try_dequeue call: "pending", or its result

vars == <<items, enqRet, deqRet>>

Init == /\ items = <<>>
        /\ enqRet = "none"
        /\ deqRet = <<"none">>

CallEnqueue == /\ enqRet # "pending"
               /\ enqRet' = "pending"
               /\ UNCHANGED <<items, deqRet>>

\* The value is accepted: only when there is room.
Put(v) == /\ enqRet = "pending"
          /\ Len(items) < Capacity
          /\ items' = Append(items, v)
          /\ enqRet' = "ok"
          /\ UNCHANGED deqRet

\* The value is refused: only when there is no room.
Refuse == /\ enqRet = "pending"
          /\ Spurious \/ Len(items) = Capacity
          /\ enqRet' = "full"
          /\ UNCHANGED <<items, deqRet>>

CallDequeue == /\ deqRet # <<"pending">>
               /\ deqRet' = <<"pending">>
               /\ UNCHANGED <<items, enqRet>>

\* The oldest value is handed out, and only that one.
Take == /\ deqRet = <<"pending">>
        /\ items # <<>>
        /\ deqRet' = <<"ok", Head(items)>>
        /\ items' = Tail(items)
        /\ UNCHANGED enqRet

Miss == /\ deqRet = <<"pending">>
        /\ Spurious \/ items = <<>>
        /\ deqRet' = <<"empty">>
        /\ UNCHANGED <<items, enqRet>>

Next == \/ CallEnqueue
        \/ \E v \in Values : Put(v)
        \/ Refuse
        \/ CallDequeue
        \/ Take
        \/ Miss

Spec == Init /\ [][Next]_vars
=============================================================================
