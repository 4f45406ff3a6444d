----------------------------- MODULE FileCache -----------------------------
(***************************************************************************)
(* stw::file_cache (system/file_cache.cpp): read_file() holds the mutex    *)
(* from its first line to its last, so that the calls of all threads come  *)
(* one after the other; the files belong to everybody and change between   *)
(* any two steps of a call.  The contents of a file are its version; every *)
(* write makes a new one, and a file rewritten in place passes through     *)
(* versions that are not complete.                                         *)
(***************************************************************************)
EXTENDS Integers, Sequences, SequencesExt, FiniteSetsExt

CONSTANTS
    Paths,
    MaxAges,        \* what set_max_age may be given, in ticks of the clock
    MaxVersion,     \* bound: versions of a file
    MaxClock        \* bound: the clock's last tick

VARIABLES
    disk,           \* path -> [there, times]: times[v] is when version v was written
    clock,
    files,          \* the cache: path -> [data, lastModified, lastAccessed]
    maxAge,
    reading,        \* the call of read_file(): its step, its local variables
    served          \* what the last call returned TRUE with

cacheVars == <<disk, clock, files, maxAge, reading, served>>

NoCall == [step |-> "none"]
Version(path) == Len(disk[path].times)
Modified(path) == disk[path].times[Version(path)]

CacheInit ==
    /\ disk = [path \in Paths |-> [there |-> TRUE, times |-> <<0>>]]
    /\ clock = 0
    /\ files = [path \in {} |-> {}]
    /\ maxAge = Max(MaxAges)
    /\ reading = NoCall
    /\ served = {}

At(step) == reading.step = step
GoTo(step) == reading' = [reading EXCEPT !.step = step]
Return == reading' = NoCall

---------------------------------------------------------------------------
(* read_file().                                                            *)

\* invalidate(): the difference is unsigned, and a clock that was set back
\* makes an entry older than any age.
Expired(path) ==
    clock < files[path].lastAccessed \/ clock - files[path].lastAccessed > maxAge

Kept(paths) == [path \in DOMAIN files \cap paths |-> files[path]]

Invalidate ==
    /\ At("none")
    /\ files' = Kept({path \in DOMAIN files : ~Expired(path)})
    /\ \E path \in Paths :
          reading' = [step |-> "exists", path |-> path, since |-> Version(path),
                      lastModified |-> 0, lastAccessed |-> 0]
    /\ served' = {}
    /\ UNCHANGED <<disk, clock, maxAge>>

\* The file is missing: FALSE, or last_write_time and read_all_bytes throw.
Missing ==
    /\ reading.step \in {"exists", "modified", "read"}
    /\ ~disk[reading.path].there
    /\ Return
    /\ UNCHANGED <<disk, clock, files, maxAge, served>>

Exists ==
    /\ At("exists") /\ disk[reading.path].there
    /\ GoTo("modified")
    /\ UNCHANGED <<disk, clock, files, maxAge, served>>

GetLastModified ==
    /\ At("modified") /\ disk[reading.path].there
    /\ reading' = [reading EXCEPT !.step = "now", !.lastModified = Modified(reading.path)]
    /\ UNCHANGED <<disk, clock, files, maxAge, served>>

\* Mutant: only a file with a later time is read again.
StaleIfOlder ==
    reading.path \in DOMAIN files => files[reading.path].lastModified < reading.lastModified

Stale == reading.path \in DOMAIN files => files[reading.path].lastModified # reading.lastModified

GetNow ==
    /\ At("now")
    /\ reading' = [reading EXCEPT !.lastAccessed = clock, !.step = IF Stale THEN "read" ELSE "touch"]
    /\ UNCHANGED <<disk, clock, files, maxAge, served>>

Entry(data) ==
    [data |-> data, lastModified |-> reading.lastModified, lastAccessed |-> reading.lastAccessed]

Serve(data) ==
    /\ files' = [path \in DOMAIN files \cup {reading.path} |->
                    IF path = reading.path THEN Entry(data) ELSE files[path]]
    /\ served' = {[path |-> reading.path, data |-> data, since |-> reading.since]}
    /\ Return
    /\ UNCHANGED <<disk, clock, maxAge>>

ReadBytes == At("read") /\ disk[reading.path].there /\ Serve(Version(reading.path))
Touch == At("touch") /\ Serve(files[reading.path].data)

---------------------------------------------------------------------------

\* clear() and set_max_age() wait for the mutex.
Clear ==
    /\ At("none") /\ files # Kept({})
    /\ files' = Kept({})
    /\ UNCHANGED <<disk, clock, maxAge, reading, served>>

SetMaxAge ==
    /\ At("none")
    /\ \E age \in MaxAges : maxAge' = IF age < 1 THEN 1 ELSE age
    /\ UNCHANGED <<disk, clock, files, reading, served>>

\* Anybody writes, replaces or removes a file; the clock goes on, or is set back.
Write ==
    /\ \E path \in Paths :
          /\ Version(path) < MaxVersion
          /\ disk' = [disk EXCEPT ![path] = [there |-> TRUE, times |-> Append(@.times, clock)]]
    /\ UNCHANGED <<clock, files, maxAge, reading, served>>

RemoveFile ==
    /\ \E path \in Paths : disk[path].there /\ disk' = [disk EXCEPT ![path].there = FALSE]
    /\ UNCHANGED <<clock, files, maxAge, reading, served>>

SetClock ==
    /\ clock' \in {c \in 0..MaxClock : c = clock + 1 \/ c < clock}
    /\ UNCHANGED <<disk, files, maxAge, reading, served>>

CacheNext ==
    \/ Invalidate \/ Missing \/ Exists \/ GetLastModified \/ GetNow \/ ReadBytes \/ Touch
    \/ Clear \/ SetMaxAge
    \/ Write \/ RemoveFile \/ SetClock

CacheSpec == CacheInit /\ [][CacheNext]_cacheVars

---------------------------------------------------------------------------
(* What read_file() serves is no older than the file was when it was       *)
(* called, however the file changes between its modification time and its  *)
(* bytes being read, unless two versions of the file bear the same time:   *)
(* the entry's time is never later than its bytes.                         *)
ServedFresh ==
    \A s \in served : s.data >= s.since \/ ~IsInjective(disk[s.path].times)
=============================================================================
