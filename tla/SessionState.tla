--------------------------- MODULE SessionState ----------------------------
(***************************************************************************)
(* save_state and load_state of stw::http_session_manager                  *)
(* (src/stw/src/stw/net/http_session_manager.cpp) with the file_stream     *)
(* they use (src/stw/src/stw/system/stream.cpp): a process that saves its  *)
(* sessions, may be killed at any moment and starts anew from the file.    *)
(*                                                                         *)
(* Both run under the unique lock, so nothing happens in memory meanwhile. *)
(* A file is a sequence of fields: the number of sessions; for each one    *)
(* its id, expires and number of settings; for each of these its key and   *)
(* its value.  What is written waits in the stream's buffer, which spills  *)
(* into the file when and as far as it likes.                              *)
(***************************************************************************)
EXTENDS Naturals, Sequences, FiniteSets

CONSTANTS Ids, Keys, Values,
          MaxTime  \* bound: the last instant of a behaviour

\* A session has finitely many settings.
ASSUME StateAssumption == IsFiniteSet(Keys) /\ MaxTime \in Nat

Times == 1..MaxTime

\* A session is stored with an expires later than the first instant.
Sessions == [expires : Times \ {1}, settings : UNION {[ks -> Values] : ks \in SUBSET Keys}]

VARIABLES
    sessions,          \* the map: a function on the ids in it
    now,
    file,              \* the file's fields; <<>> if there is no file
    pc,                \* save_state: "idle", "records", "count" or "close"
    buffer,            \* written, not in the file yet
    todo, numberOfSessions, saveTime,
    snapshot,          \* history: the sessions when the last save began
    complete           \* history: whether that save was carried to its end

saveVars == <<pc, buffer, todo, numberOfSessions, saveTime, snapshot, complete>>
vars == <<sessions, now, file, saveVars>>

NoSessions == [id \in {} |-> {}]

Init ==
    /\ sessions = NoSessions /\ now = 1 /\ file = <<>>
    /\ pc = "idle" /\ buffer = <<>> /\ todo = {}
    /\ numberOfSessions = 0 /\ saveTime = 1
    /\ snapshot = NoSessions /\ complete = FALSE

\* The sessions of a map that are not expired at t.
Live(map, t) == [id \in {i \in DOMAIN map : ~(map[i].expires < t)} |-> map[id]]
-----------------------------------------------------------------------------
(* The sessions change: start, destroy, set_value, cleanup *)

Put(id, session) ==
    /\ pc = "idle" /\ session.expires > now
    /\ sessions' = [i \in DOMAIN sessions \cup {id} |->
                       IF i = id THEN session ELSE sessions[i]]
    /\ UNCHANGED <<now, file, saveVars>>

Remove(id) ==
    /\ pc = "idle"
    /\ sessions' = [i \in DOMAIN sessions \ {id} |-> sessions[i]]
    /\ UNCHANGED <<now, file, saveVars>>

Tick ==
    /\ now < MaxTime
    /\ now' = now + 1
    /\ UNCHANGED <<sessions, file, saveVars>>
-----------------------------------------------------------------------------
(* save_state *)

\* Mutant: the number of sessions is written at once.
BeginSaveCounts ==
    /\ pc = "idle"
    /\ file' = <<>> /\ buffer' = <<Cardinality(DOMAIN Live(sessions, now))>>
    /\ todo' = DOMAIN sessions /\ numberOfSessions' = 0 /\ saveTime' = now
    /\ snapshot' = sessions /\ complete' = FALSE
    /\ pc' = "records"
    /\ UNCHANGED <<sessions, now>>

\* Opening truncates the file; a zero stands for the number of sessions.
BeginSave ==
    /\ pc = "idle"
    /\ file' = <<>> /\ buffer' = <<0>>
    /\ todo' = DOMAIN sessions /\ numberOfSessions' = 0 /\ saveTime' = now
    /\ snapshot' = sessions /\ complete' = FALSE
    /\ pc' = "records"
    /\ UNCHANGED <<sessions, now>>

\* Settings are written in the order of the map, which may be any.
Orders(set) == {s \in [1..Cardinality(set) -> set] : {s[i] : i \in DOMAIN s} = set}

Record(id, keys) ==
    <<id, sessions[id].expires, Len(keys)>>
       \o [i \in 1..(2 * Len(keys)) |->
             LET k == keys[(i + 1) \div 2] IN
                IF i % 2 = 1 THEN k ELSE sessions[id].settings[k]]

SaveSession(id) ==
    /\ pc = "records" /\ id \in todo
    /\ todo' = todo \ {id}
    /\ \/ /\ sessions[id].expires < saveTime
          /\ UNCHANGED <<buffer, numberOfSessions>>
       \/ /\ ~(sessions[id].expires < saveTime)
          /\ \E keys \in Orders(DOMAIN sessions[id].settings) :
                buffer' = buffer \o Record(id, keys)
          /\ numberOfSessions' = numberOfSessions + 1
    /\ UNCHANGED <<sessions, now, file, pc, saveTime, snapshot, complete>>

\* The first n fields of the buffer reach the file.
Spill(n) == /\ file' = file \o SubSeq(buffer, 1, n)
            /\ buffer' = SubSeq(buffer, n + 1, Len(buffer))

Flush(n) ==
    /\ pc = "records" /\ n \in 1..Len(buffer)
    /\ Spill(n)
    /\ UNCHANGED <<sessions, now, pc, todo, numberOfSessions, saveTime,
                   snapshot, complete>>

\* seek(0) writes out the buffer first.
Rewind ==
    /\ pc = "records" /\ todo = {}
    /\ Spill(Len(buffer))
    /\ pc' = "count"
    /\ UNCHANGED <<sessions, now, todo, numberOfSessions, saveTime, snapshot, complete>>

WriteCount ==
    /\ pc = "count"
    /\ buffer' = <<numberOfSessions>>
    /\ pc' = "close"
    /\ UNCHANGED <<sessions, now, file, todo, numberOfSessions, saveTime,
                   snapshot, complete>>

\* Mutant: the write goes on where the last one ended.
CloseAppends ==
    /\ pc = "close"
    /\ Spill(1)
    /\ complete' = TRUE /\ pc' = "idle"
    /\ UNCHANGED <<sessions, now, todo, numberOfSessions, saveTime, snapshot>>

\* The stream's destructor writes the number over the zero.
Close ==
    /\ pc = "close"
    /\ file' = [file EXCEPT ![1] = buffer[1]] /\ buffer' = <<>>
    /\ complete' = TRUE /\ pc' = "idle"
    /\ UNCHANGED <<sessions, now, todo, numberOfSessions, saveTime, snapshot>>

\* A write or the seek fails and save_state returns false; or the destructor
\* fails, which nobody hears of: save_state has returned true.
Fail ==
    /\ pc # "idle"
    /\ \/ pc = "records" /\ \E n \in 0..Len(buffer) : file' = file \o SubSeq(buffer, 1, n)
       \/ pc # "records" /\ UNCHANGED file
    /\ buffer' = <<>> /\ todo' = {} /\ pc' = "idle"
    /\ UNCHANGED <<sessions, now, numberOfSessions, saveTime, snapshot, complete>>
-----------------------------------------------------------------------------
(* load_state *)

\* file_stream::read: at the end of the file the variable keeps its zero.
Field(p) == IF p \in DOMAIN file THEN file[p] ELSE 0

\* The record whose first field is the p-th.
RecordAt[p \in Nat] ==
    [id |-> Field(p), expires |-> Field(p + 1), keys |-> Field(p + 2),
     settings |-> [k \in {Field(p + 1 + 2 * j) : j \in 1..Field(p + 2)} |->
                      LET j == CHOOSE i \in 1..Field(p + 2) : Field(p + 1 + 2 * i) = k
                      IN Field(p + 2 + 2 * j)]]

\* From where the reader is, and the sessions it has found, over one record.
ReadRecord(before) ==
    LET r == RecordAt[before.at]
    IN [at |-> before.at + 3 + 2 * r.keys,
        found |-> IF r.expires < now THEN before.found
                  ELSE [id \in DOMAIN before.found \cup {r.id} |->
                          IF id = r.id
                          THEN [expires |-> r.expires, settings |-> r.settings]
                          ELSE before.found[id]]]

\* The same after n records.
Reading[n \in Nat] ==
    IF n = 0 THEN [at |-> 2, found |-> NoSessions] ELSE ReadRecord(Reading[n - 1])

\* What load_state would find in the file now.
Stored == Reading[Field(1)].found

\* Whether the file can be opened or not, the sessions in memory are dropped.
\* The clock is read for each record; no tick falls between two of them.
Load ==
    /\ pc = "idle"
    /\ sessions' = Stored
    /\ UNCHANGED <<now, file, saveVars>>

\* The process is killed, and started again.
Crash ==
    /\ sessions' = NoSessions
    /\ pc' = "idle" /\ buffer' = <<>> /\ todo' = {}
    /\ UNCHANGED <<now, file, numberOfSessions, saveTime, snapshot, complete>>
-----------------------------------------------------------------------------
SaveStep == \/ BeginSave
            \/ \E id \in todo : SaveSession(id)
            \/ \E n \in 1..Len(buffer) : Flush(n)
            \/ Rewind \/ WriteCount \/ Close \/ Fail

Next == \/ \E id \in Ids, session \in Sessions : Put(id, session)
        \/ \E id \in DOMAIN sessions : Remove(id)
        \/ Tick
        \/ SaveStep
        \/ Load
        \/ Crash

Spec == Init /\ [][Next]_vars
-----------------------------------------------------------------------------
(* Properties *)

\* Whenever the process is killed or a write fails, load_state finds all of the
\* sessions of the last save or none of them: never part of them, and never
\* a session with part of its settings.  (save_state writes a zero for the
\* number of sessions, and the number only after all of them.)
AllOrNothing == Stored \in {NoSessions, Live(snapshot, now)}

\* Killed at any moment, with its writes late, cut or failing, the save is what
\* it is meant to be: a checkpoint made in one step, of all sessions as they were
\* throughout the save, or none.  What save_state writes and load_state reads is
\* hidden: the checkpoint is what the last save has completed, and what the file
\* holds is, at every moment, just that.
Atomic == INSTANCE Checkpoint WITH
             checkpoint <- IF complete THEN snapshot ELSE NoSessions,
             saving <- (pc # "idle"),
             found <- Stored
ImplementsCheckpoint == Atomic!Spec
=============================================================================
