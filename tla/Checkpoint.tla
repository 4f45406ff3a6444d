----------------------------- MODULE Checkpoint -----------------------------
(***************************************************************************)
(* What save_state and load_state of stw::http_session_manager promise     *)
(* together: a save gives up the checkpoint there was, and makes one of    *)
(* all sessions, in one step and without a change of the sessions in       *)
(* between; or it makes none.  A restart forgets the sessions but not the  *)
(* checkpoint, and a load finds, at any moment, what has not expired of    *)
(* it, all of it.                                                          *)
(***************************************************************************)
EXTENDS Naturals

CONSTANTS Ids, Sessions,
          MaxTime       \* bound: the last instant of a behaviour

VARIABLES sessions,     \* in memory: a function on the ids
          now,
          checkpoint,   \* the sessions that are safe: a function on their ids
          saving,       \* whether a save is under way
          found         \* the sessions that a load would find now

vars == <<sessions, now, checkpoint, saving, found>>

None == [id \in {} |-> {}]
Live(map, t) == [id \in {i \in DOMAIN map : ~(map[i].expires < t)} |-> map[id]]

Init == sessions = None /\ now = 1 /\ checkpoint = None /\ saving = FALSE /\ found = None

Put(id, session) ==
    /\ ~saving /\ session.expires > now
    /\ sessions' = [i \in DOMAIN sessions \cup {id} |-> IF i = id THEN session ELSE sessions[i]]
    /\ UNCHANGED <<now, checkpoint, saving>>

Remove(id) ==
    /\ ~saving
    /\ sessions' = [i \in DOMAIN sessions \ {id} |-> sessions[i]]
    /\ UNCHANGED <<now, checkpoint, saving>>

Tick == now < MaxTime /\ now' = now + 1 /\ UNCHANGED <<sessions, checkpoint, saving>>

Begin ==
    /\ ~saving /\ saving' = TRUE
    /\ checkpoint' = None
    /\ UNCHANGED <<sessions, now>>

Save ==
    /\ saving /\ saving' = FALSE
    /\ checkpoint' = sessions
    /\ UNCHANGED <<sessions, now>>

GiveUp == saving /\ saving' = FALSE /\ UNCHANGED <<sessions, now, checkpoint>>

Load ==
    /\ ~saving
    /\ sessions' = found
    /\ UNCHANGED <<now, checkpoint, saving>>

Restart == sessions' = None /\ saving' = FALSE /\ UNCHANGED <<now, checkpoint>>

Next == /\ \/ \E id \in Ids, session \in Sessions : Put(id, session)
           \/ \E id \in DOMAIN sessions : Remove(id)
           \/ Tick \/ Begin \/ Save \/ GiveUp \/ Load \/ Restart
        /\ found' = Live(checkpoint', now')

Spec == Init /\ [][Next]_vars
=============================================================================
