--------------------------- MODULE LibraryProofs ---------------------------
(***************************************************************************)
(* The theorems about the parts of Library, each about the specification   *)
(* of its part: a poller, the file cache and the owners of descriptors     *)
(* here, the web socket in WebSocketProofs.  They hold of the composition: *)
(* a step of Library is a step of the part that moves, and leaves the      *)
(* state of the others as it is, so that Library implements the            *)
(* specification of each.                                                  *)
(*                                                                         *)
(* The texts are the functions of Strings that the web socket is built on: *)
(* what each function does to every text is proved in WebSocketProofs and  *)
(* stated here of the texts of the composition.  What http_config reads    *)
(* from a file is built on the same functions; what templ.cpp makes of a   *)
(* template is proved at the end.                                          *)
(***************************************************************************)
EXTENDS Library, FiniteSetTheorems, TLAPS

---------------------------------------------------------------------------
(***************************************************************************)
(* No wait of Poller sleeps over an event, for any set of descriptors and  *)
(* any number of notifications.  epoll and kqueue poll the registrations   *)
(* themselves; with WSAPoll the argument is about its copy: it is up to    *)
(* date while dirty is not set, and a change that sets dirty while a wait  *)
(* is under way is made by the other thread, which then notifies.          *)
(***************************************************************************)

Copied ==
    /\ kind = "wsa" /\ dirty = FALSE => workingSet = interest
    /\ waiter = "polling" =>
           workingSet = interest \/ kind # "wsa" \/ signals > 0 \/ other = "changed"

CopiedInv == signals \in Nat /\ (waiter = "draining" => signals > 0) /\ Copied

LEMMA InitCopied == PollInit => CopiedInv
BY DEF PollInit, CopiedInv, Copied

(* Every change of a registration is noted.                                *)
LEMMA ChangeNoted == Change => dirty' = TRUE
BY DEF Change, add, modify, remove

LEMMA NextCopied == CopiedInv /\ [PollNext]_pollVars => CopiedInv'
<1> SUFFICES ASSUME CopiedInv, [PollNext]_pollVars PROVE CopiedInv'
  OBVIOUS
<1>1. ASSUME WaiterChanges PROVE CopiedInv'
  BY <1>1, ChangeNoted DEF WaiterChanges, CopiedInv, Copied
<1>2. ASSUME OtherChanges PROVE CopiedInv'
  BY <1>2, ChangeNoted DEF OtherChanges, CopiedInv, Copied
<1>3. ASSUME notify PROVE CopiedInv'
  BY <1>3 DEF notify, CopiedInv, Copied
<1>4. ASSUME StartWait PROVE CopiedInv'
  <2>1. CASE dirty = FALSE
    BY <1>4, <2>1 DEF StartWait, CopiedInv, Copied
  <2>2. CASE dirty # FALSE /\ kind = "wsa"
    BY <1>4, <2>2 DEF StartWait, CopiedInv, Copied
  <2>3. CASE kind # "wsa"
    BY <1>4, <2>3 DEF StartWait, CopiedInv, Copied
  <2> QED BY <2>1, <2>2, <2>3
<1>5. ASSUME Wake PROVE CopiedInv'
  BY <1>5 DEF Wake, CopiedInv, Copied
<1>6. ASSUME Drain PROVE CopiedInv'
  BY <1>6 DEF Drain, CopiedInv, Copied
<1>7. ASSUME ConditionChanges PROVE CopiedInv'
  BY <1>7 DEF ConditionChanges, CopiedInv, Copied
<1>8. CASE UNCHANGED pollVars
  BY <1>8 DEF pollVars, CopiedInv, Copied
<1> QED BY <1>1, <1>2, <1>3, <1>4, <1>5, <1>6, <1>7, <1>8 DEF PollNext

(* Whatever the two threads register, in whatever order with the waits,    *)
(* and whichever implementation the build has: a wait over a descriptor    *)
(* that is due returns, or is about to be told to.                         *)
THEOREM PollerWaits == PollSpec => []NobodySleepsThrough
<1>1. PollInit => CopiedInv
  BY InitCopied
<1>2. CopiedInv /\ [PollNext]_pollVars => CopiedInv'
  BY NextCopied
<1>3. CopiedInv => NobodySleepsThrough
  BY DEF CopiedInv, Copied, NobodySleepsThrough, Polled
<1> QED BY <1>1, <1>2, <1>3, PTL DEF PollSpec

---------------------------------------------------------------------------
(***************************************************************************)
(* What FileCache serves is fresh, for any files, ages and clocks.  The    *)
(* argument: the time in an entry, and the time a call has read, are times *)
(* of versions, the first no later than the entry's bytes and the second   *)
(* no earlier than the call; so when they are equal, and each version has  *)
(* a time of its own, the bytes are no older than the call.                *)
(***************************************************************************)

TimesOf(path) == disk[path].times

\* data is a version of path, and no older than one written at time.
AsNew(path, data, time) ==
    /\ data \in 1..Version(path)
    /\ \E v \in 1..data : TimesOf(path)[v] = time

\* What read_file() knows of the file after its steps.
CallOK ==
    \/ reading = NoCall
    \/ /\ reading.step \in {"exists", "modified", "now", "read", "touch"}
       /\ reading.path \in Paths
       /\ reading.since \in 1..Version(reading.path)
       /\ reading.step \in {"now", "read", "touch"} =>
              \E v \in reading.since..Version(reading.path) :
                  TimesOf(reading.path)[v] = reading.lastModified
       /\ reading.step = "touch" =>
              reading.path \in DOMAIN files /\ files[reading.path].lastModified = reading.lastModified
       /\ reading = [step |-> reading.step, path |-> reading.path, since |-> reading.since,
                     lastModified |-> reading.lastModified, lastAccessed |-> reading.lastAccessed]

DiskOK ==
    /\ disk \in [Paths -> [there : BOOLEAN, times : Seq(Nat) \ {<<>>}]]
    /\ clock \in Nat

FilesOK ==
    /\ DOMAIN files \subseteq Paths
    /\ \A path \in DOMAIN files : AsNew(path, files[path].data, files[path].lastModified)

ServedOK ==
    \A s \in served :
        /\ s.path \in Paths
        /\ s.data \in 1..Version(s.path) /\ s.since \in 1..Version(s.path)

FreshInv == DiskOK /\ CallOK /\ FilesOK /\ ServedOK /\ ServedFresh

---------------------------------------------------------------------------

LEMMA InitFresh == CacheInit => FreshInv
<1> SUFFICES ASSUME CacheInit PROVE FreshInv
  OBVIOUS
<1>1. <<0>> \in Seq(Nat) \ {<<>>}
  OBVIOUS
<1>2. DiskOK
  BY <1>1 DEF CacheInit, DiskOK
<1>3. DOMAIN files = {} /\ served = {} /\ reading = NoCall
  BY DEF CacheInit
<1> QED BY <1>2, <1>3 DEF FreshInv, CallOK, FilesOK, ServedOK, ServedFresh

(* A version's time stays what it is when another version is written.      *)
LEMMA WriteKeeps ==
    ASSUME FreshInv, Write
    PROVE  /\ DiskOK'
           /\ \A path \in Paths : Version(path) \in Nat /\ Version(path)' \in Nat
           /\ \A path \in Paths : Version(path) >= 1 /\ Version(path)' >= Version(path)
           /\ \A path \in Paths : \A v \in 1..Version(path) :
                  TimesOf(path)'[v] = TimesOf(path)[v]
<1>1. PICK p \in Paths :
         disk' = [disk EXCEPT ![p] = [there |-> TRUE, times |-> Append(@.times, clock)]]
  BY DEF Write
<1>2. \A path \in Paths : /\ disk[path].times \in Seq(Nat) /\ disk[path].times # <<>>
  BY DEF FreshInv, DiskOK
<1>3. \A path \in Paths : disk'[path] = IF path = p
          THEN [there |-> TRUE, times |-> Append(disk[p].times, clock)] ELSE disk[path]
  BY <1>1 DEF FreshInv, DiskOK
<1>4. Append(disk[p].times, clock) \in Seq(Nat) \ {<<>>}
  <2>1. PICK old \in Seq(Nat), now \in Nat : old = disk[p].times /\ now = clock
    BY <1>2 DEF FreshInv, DiskOK
  <2>2. Append(old, now) \in Seq(Nat) /\ Len(Append(old, now)) = Len(old) + 1 /\ Len(old) \in Nat
    OBVIOUS
  <2>3. Append(old, now) # <<>>
    BY <2>2
  <2> QED BY <2>1, <2>2, <2>3
<1>5. DiskOK'
  BY <1>1, <1>4 DEF Write, FreshInv, DiskOK
<1>6. \A path \in Paths : /\ Len(disk[path].times) \in Nat /\ Len(disk[path].times) >= 1
  BY <1>2
<1>7. /\ Len(Append(disk[p].times, clock)) = Len(disk[p].times) + 1
      /\ \A v \in 1..Len(disk[p].times) : Append(disk[p].times, clock)[v] = disk[p].times[v]
  BY <1>2 DEF FreshInv, DiskOK
<1>8. \A path \in Paths : /\ Len(disk'[path].times) \in Nat
                          /\ Len(disk'[path].times) >= Len(disk[path].times)
  BY <1>3, <1>6, <1>7
<1>9. \A path \in Paths : \A v \in 1..Len(disk[path].times) :
          disk'[path].times[v] = disk[path].times[v]
  BY <1>3, <1>7
<1> QED BY <1>5, <1>6, <1>8, <1>9 DEF Version, TimesOf

(* An entry that is served is no older than the call, when its time is the *)
(* one the call has read.                                                  *)
LEMMA ServeFresh ==
    ASSUME FreshInv, reading # NoCall, reading.step \in {"read", "touch"}, NEW data, Serve(data),
           AsNew(reading.path, data, reading.lastModified)
    PROVE  FreshInv'
<1>1. /\ reading.path \in Paths
      /\ reading.since \in 1..Version(reading.path)
      /\ \E v \in reading.since..Version(reading.path) : TimesOf(reading.path)[v] = reading.lastModified
  BY DEF FreshInv, CallOK
<1>2. DiskOK' /\ reading' = NoCall /\ UNCHANGED disk
  BY DEF Serve, Return, FreshInv, DiskOK
<1>3. \A path \in DOMAIN files' :
          files'[path] = IF path = reading.path THEN Entry(data) ELSE files[path]
  BY DEF Serve
<1>4. DOMAIN files' = DOMAIN files \cup {reading.path}
  BY DEF Serve
<1>5. Entry(data).data = data /\ Entry(data).lastModified = reading.lastModified
  BY DEF Entry
<1>6. \A path, d, t : AsNew(path, d, t)' <=> AsNew(path, d, t)
  BY <1>2 DEF AsNew, Version, TimesOf
<1>7. FilesOK'
  BY <1>1, <1>3, <1>4, <1>5, <1>6 DEF FilesOK, FreshInv
<1>8. data \in 1..Version(reading.path)
  BY DEF AsNew
<1>9. served' = {[path |-> reading.path, data |-> data, since |-> reading.since]}
  BY DEF Serve
<1>10. ServedOK'
  BY <1>1, <1>2, <1>8, <1>9 DEF ServedOK, Version
<1>11. data >= reading.since \/ ~IsInjective(disk[reading.path].times)
  <2> SUFFICES ASSUME IsInjective(TimesOf(reading.path)) PROVE data >= reading.since
    BY DEF TimesOf
  <2>1. PICK v \in 1..data : TimesOf(reading.path)[v] = reading.lastModified
    BY DEF AsNew
  <2>2. PICK w \in reading.since..Version(reading.path) :
           TimesOf(reading.path)[w] = reading.lastModified
    BY <1>1
  <2>3. TimesOf(reading.path) \in Seq(Nat) /\ Version(reading.path) = Len(TimesOf(reading.path))
    BY <1>1 DEF FreshInv, DiskOK, TimesOf, Version
  <2>4. DOMAIN TimesOf(reading.path) = 1..Version(reading.path)
    BY <2>3
  <2>5. Version(reading.path) \in Nat
    BY <2>3
  <2>6. v \in 1..Version(reading.path) /\ w \in 1..Version(reading.path)
    BY <1>1, <1>8, <2>5
  <2>7. v = w
    BY <2>1, <2>2, <2>4, <2>6 DEF IsInjective
  <2> QED BY <2>7, <1>1, <1>8, <2>5
<1>12. ServedFresh'
  BY <1>2, <1>9, <1>11 DEF ServedFresh
<1> QED BY <1>2, <1>7, <1>10, <1>12 DEF FreshInv, CallOK

(* Writing a file makes nothing stale that a call under way has not seen.  *)
LEMMA WriteFresh == ASSUME FreshInv, Write PROVE FreshInv'
<1>1. DiskOK' /\ UNCHANGED <<clock, files, maxAge, reading, served>>
  BY WriteKeeps DEF Write
<1>2. \A path \in Paths : /\ Version(path) \in Nat /\ Version(path)' \in Nat
                          /\ Version(path)' >= Version(path)
  BY WriteKeeps
<1>3. \A path \in Paths : 1..Version(path) \subseteq 1..Version(path)'
  BY <1>2
<1>4. \A path \in Paths : \A v \in 1..Version(path) : TimesOf(path)'[v] = TimesOf(path)[v]
  BY WriteKeeps
<1>5. CallOK'
  <2>1. CASE reading = NoCall
    BY <1>1, <2>1 DEF CallOK
  <2>2. CASE reading # NoCall
    <3>1. PICK path \in Paths : path = reading.path
      BY <2>2 DEF FreshInv, CallOK
    <3>2. reading.since \in 1..Version(path) /\ reading.since \in 1..Version(path)'
      BY <2>2, <3>1, <1>3 DEF FreshInv, CallOK
    <3>3. ASSUME NEW v \in reading.since..Version(path)
          PROVE  v \in reading.since..Version(path)' /\ TimesOf(path)'[v] = TimesOf(path)[v]
      <4>1. v \in 1..Version(path) /\ v \in Int /\ v >= reading.since /\ v <= Version(path)
        BY <3>2, <1>2
      <4>2. v <= Version(path)' /\ reading.since \in Int
        BY <3>2, <4>1, <1>2
      <4> QED BY <4>1, <4>2, <1>2, <1>4
    <3>4. reading.step \in {"now", "read", "touch"} =>
              \E v \in reading.since..Version(path)' : TimesOf(path)'[v] = reading.lastModified
      BY <2>2, <3>1, <3>3 DEF FreshInv, CallOK
    <3> QED BY <1>1, <2>2, <3>1, <3>2, <3>4 DEF FreshInv, CallOK, Version, TimesOf
  <2> QED BY <2>1, <2>2
<1>6. FilesOK'
  <2>1. ASSUME NEW path \in DOMAIN files
        PROVE  AsNew(path, files[path].data, files[path].lastModified)'
    <3>1. path \in Paths /\ files[path].data \in 1..Version(path)
      BY DEF FreshInv, FilesOK, AsNew
    <3>2. PICK v \in 1..files[path].data : TimesOf(path)[v] = files[path].lastModified
      BY DEF FreshInv, FilesOK, AsNew
    <3>3. v \in 1..Version(path)
      BY <3>1, <1>2
    <3>4. TimesOf(path)'[v] = files[path].lastModified /\ files[path].data \in 1..Version(path)'
      BY <3>1, <3>2, <3>3, <1>3, <1>4
    <3> QED BY <1>1, <3>2, <3>4 DEF AsNew, Version, TimesOf
  <2> QED BY <1>1, <2>1 DEF FreshInv, FilesOK
<1>7. ServedOK'
  BY <1>1, <1>3 DEF FreshInv, ServedOK, Version
<1>8. ServedFresh'
  <2> SUFFICES ASSUME NEW s \in served, ~IsInjective(TimesOf(s.path))
               PROVE  ~IsInjective(TimesOf(s.path)')
    BY <1>1 DEF ServedFresh, FreshInv, TimesOf
  <2>1. s.path \in Paths
    BY DEF FreshInv, ServedOK
  <2>2. /\ TimesOf(s.path) \in Seq(Nat) /\ Version(s.path) = Len(TimesOf(s.path))
        /\ TimesOf(s.path)' \in Seq(Nat) /\ Version(s.path)' = Len(TimesOf(s.path)')
    BY <2>1, <1>1 DEF FreshInv, DiskOK, TimesOf, Version
  <2>3. PICK v, w \in 1..Version(s.path) : TimesOf(s.path)[v] = TimesOf(s.path)[w] /\ v # w
    BY <2>2 DEF IsInjective
  <2>4. v \in 1..Version(s.path)' /\ w \in 1..Version(s.path)'
    BY <2>1, <2>3, <1>3
  <2>5. DOMAIN TimesOf(s.path)' = 1..Version(s.path)'
    BY <2>2
  <2>6. TimesOf(s.path)'[v] = TimesOf(s.path)'[w]
    BY <2>1, <2>3, <1>4
  <2> QED BY <2>3, <2>4, <2>5, <2>6 DEF IsInjective
<1> QED BY <1>1, <1>5, <1>6, <1>7, <1>8 DEF FreshInv

(* What only removes entries keeps those that stay.                        *)
LEMMA KeptOK ==
    ASSUME FreshInv, NEW S, files' = Kept(S), UNCHANGED disk
    PROVE  FilesOK' /\ DOMAIN files' \subseteq DOMAIN files
BY DEF FreshInv, FilesOK, Kept, AsNew, Version, TimesOf

LEMMA NextFresh == FreshInv /\ [CacheNext]_cacheVars => FreshInv'
<1> SUFFICES ASSUME FreshInv, [CacheNext]_cacheVars PROVE FreshInv'
  OBVIOUS
<1>1. \A path \in Paths : Version(path) \in Nat \ {0}
  BY DEF FreshInv, DiskOK, Version
<1>2. ASSUME Invalidate PROVE FreshInv'
  <2>1. PICK path \in Paths :
           reading' = [step |-> "exists", path |-> path, since |-> Version(path),
                       lastModified |-> 0, lastAccessed |-> 0]
    BY <1>2 DEF Invalidate
  <2>2. UNCHANGED <<disk, clock>> /\ served' = {}
    BY <1>2 DEF Invalidate
  <2>3. CallOK'
    BY <1>1, <2>1, <2>2 DEF CallOK, Version
  <2>4. FilesOK'
    BY <1>2, KeptOK DEF Invalidate
  <2> QED BY <2>2, <2>3, <2>4 DEF FreshInv, DiskOK, ServedOK, ServedFresh
<1>3. ASSUME Missing PROVE FreshInv'
  BY <1>3 DEF Missing, Return, FreshInv, DiskOK, CallOK, FilesOK, AsNew, ServedOK, ServedFresh,
              Version, TimesOf
<1>4. ASSUME Exists PROVE FreshInv'
  <2>1. UNCHANGED <<disk, clock, files, served>> /\ reading' = [reading EXCEPT !.step = "modified"]
    BY <1>4 DEF Exists, GoTo
  <2>2. reading # NoCall /\ reading.step = "exists"
    BY <1>4 DEF Exists, At, NoCall
  <2>3. CallOK'
    BY <2>1, <2>2 DEF FreshInv, CallOK, Version, TimesOf
  <2>4. FilesOK' /\ ServedOK' /\ ServedFresh'
    BY <2>1 DEF FreshInv, FilesOK, AsNew, ServedOK, ServedFresh, Version, TimesOf
  <2> QED BY <2>1, <2>3, <2>4 DEF FreshInv, DiskOK
<1>5. ASSUME GetLastModified PROVE FreshInv'
  <2>1. reading.path \in Paths /\ reading.since \in 1..Version(reading.path) /\ reading # NoCall
    BY <1>5 DEF GetLastModified, At, NoCall, FreshInv, CallOK
  <2>2. /\ Version(reading.path) \in reading.since..Version(reading.path)
        /\ TimesOf(reading.path)[Version(reading.path)] = Modified(reading.path)
    BY <1>1, <2>1 DEF Modified, TimesOf
  <2>3. /\ reading' = [step |-> "now", path |-> reading.path, since |-> reading.since,
                    lastModified |-> Modified(reading.path), lastAccessed |-> reading.lastAccessed]
        /\ UNCHANGED <<disk, clock, files, served>>
    BY <1>5, <2>1 DEF GetLastModified, FreshInv, CallOK
  <2>4. CallOK'
    BY <2>1, <2>2, <2>3 DEF CallOK, Version, TimesOf
  <2> QED BY <2>3, <2>4 DEF FreshInv, DiskOK, FilesOK, AsNew, ServedOK, ServedFresh, Version, TimesOf
<1>6. ASSUME GetNow PROVE FreshInv'
  <2>1. /\ reading.path \in Paths /\ reading.since \in 1..Version(reading.path) /\ reading # NoCall
        /\ \E v \in reading.since..Version(reading.path) :
               TimesOf(reading.path)[v] = reading.lastModified
    BY <1>6 DEF GetNow, At, NoCall, FreshInv, CallOK
  <2>2. /\ reading' = [step |-> IF Stale THEN "read" ELSE "touch", path |-> reading.path,
                    since |-> reading.since, lastModified |-> reading.lastModified,
                    lastAccessed |-> clock]
        /\ UNCHANGED <<disk, clock, files, served>>
    BY <1>6, <2>1 DEF GetNow, FreshInv, CallOK
  <2>3. ~Stale => /\ reading.path \in DOMAIN files
                  /\ files[reading.path].lastModified = reading.lastModified
    BY DEF Stale
  <2>4. CallOK'
    BY <2>1, <2>2, <2>3 DEF CallOK, Version, TimesOf
  <2> QED BY <2>2, <2>4 DEF FreshInv, DiskOK, FilesOK, AsNew, ServedOK, ServedFresh, Version, TimesOf
<1>7. ASSUME ReadBytes PROVE FreshInv'
  <2>1. At("read") /\ Serve(Version(reading.path)) /\ reading # NoCall /\ reading.step = "read"
    BY <1>7 DEF ReadBytes, At, NoCall
  <2>2. /\ reading.path \in Paths /\ reading.since \in 1..Version(reading.path)
        /\ \E v \in reading.since..Version(reading.path) :
               TimesOf(reading.path)[v] = reading.lastModified
    BY <2>1 DEF FreshInv, CallOK
  <2>3. AsNew(reading.path, Version(reading.path), reading.lastModified)
    BY <1>1, <2>2 DEF AsNew
  <2> QED BY <2>1, <2>3, ServeFresh
<1>8. ASSUME Touch PROVE FreshInv'
  <2>1. Serve(files[reading.path].data) /\ reading # NoCall /\ reading.step = "touch"
    BY <1>8 DEF Touch, At, NoCall
  <2>2. reading.path \in DOMAIN files /\ files[reading.path].lastModified = reading.lastModified
    BY <2>1 DEF FreshInv, CallOK
  <2>3. AsNew(reading.path, files[reading.path].data, reading.lastModified)
    BY <2>2 DEF FreshInv, FilesOK
  <2> QED BY <2>1, <2>3, ServeFresh
<1>9. ASSUME Clear PROVE FreshInv'
  <2>1. reading = NoCall
    BY <1>9 DEF Clear, At, FreshInv, CallOK
  <2>2. FilesOK'
    BY <1>9, KeptOK DEF Clear
  <2> QED BY <1>9, <2>1, <2>2 DEF Clear, FreshInv, DiskOK, CallOK, ServedOK, ServedFresh, Version
<1>10. ASSUME SetMaxAge \/ UNCHANGED cacheVars PROVE FreshInv'
  BY <1>10 DEF SetMaxAge, cacheVars, FreshInv, DiskOK, CallOK, FilesOK, AsNew, ServedOK,
               ServedFresh, Version, TimesOf
<1>11. ASSUME Write PROVE FreshInv'
  BY <1>11, WriteFresh
<1>12. ASSUME RemoveFile PROVE FreshInv'
  <2>1. PICK p \in Paths : disk' = [disk EXCEPT ![p].there = FALSE]
    BY <1>12 DEF RemoveFile
  <2>2. \A path \in Paths : disk'[path].times = disk[path].times
    BY <2>1 DEF FreshInv, DiskOK
  <2>3. DiskOK'
    <3>1. disk \in [Paths -> [there : BOOLEAN, times : Seq(Nat) \ {<<>>}]] /\ clock \in Nat
      BY DEF FreshInv, DiskOK
    <3>2. [disk[p] EXCEPT !.there = FALSE] \in [there : BOOLEAN, times : Seq(Nat) \ {<<>>}]
      BY <3>1
    <3>3. disk' = [disk EXCEPT ![p] = [disk[p] EXCEPT !.there = FALSE]] /\ clock' = clock
      BY <1>12, <2>1, <3>1 DEF RemoveFile
    <3> QED BY <3>1, <3>2, <3>3 DEF DiskOK
  <2>4. UNCHANGED <<files, reading, served>>
    BY <1>12 DEF RemoveFile
  <2>5. CallOK'
    BY <2>2, <2>4 DEF FreshInv, CallOK, Version, TimesOf
  <2>6. FilesOK'
    BY <2>2, <2>4 DEF FreshInv, FilesOK, AsNew, Version, TimesOf
  <2>7. ServedOK' /\ ServedFresh'
    BY <2>2, <2>4 DEF FreshInv, ServedOK, ServedFresh, Version
  <2> QED BY <2>3, <2>5, <2>6, <2>7 DEF FreshInv
<1>13. ASSUME SetClock PROVE FreshInv'
  <2>1. clock' \in Nat
    BY <1>13 DEF SetClock
  <2> QED BY <1>13, <2>1 DEF SetClock, FreshInv, DiskOK, CallOK, FilesOK, AsNew, ServedOK,
             ServedFresh, Version, TimesOf
<1> QED BY <1>2, <1>3, <1>4, <1>5, <1>6, <1>7, <1>8, <1>9, <1>10, <1>11, <1>12, <1>13
        DEF CacheNext

(* However many files there are, and whoever writes or removes them        *)
(* between the steps of read_file(), and whatever the clock does: the      *)
(* bytes served are those the file had at the call, or later ones.         *)
THEOREM CacheServes == CacheSpec => []ServedFresh
<1>1. CacheInit => FreshInv
  BY InitFresh
<1>2. FreshInv /\ [CacheNext]_cacheVars => FreshInv'
  BY NextFresh
<1>3. FreshInv => ServedFresh
  BY DEF FreshInv
<1> QED BY <1>1, <1>2, <1>3, PTL DEF CacheSpec

---------------------------------------------------------------------------
(***************************************************************************)
(* Descriptors are owned as Sockets says, for any sets of objects and      *)
(* descriptors.  HandlesOwned is inductive together with the types: an     *)
(* object opens a descriptor only while it holds none, a descriptor that   *)
(* is opened was free, so that nobody held it, and one that is closed had  *)
(* no other owner.                                                         *)
(***************************************************************************)

OwnedInv == SockTypeOK /\ HandlesOwned

---------------------------------------------------------------------------
(* What the helpers do to the invariant.                                   *)

(* An object that is constructed and holds nothing may open a descriptor.  *)
LEMMA OpensKeeps ==
    ASSUME OwnedInv, Handles \subseteq Nat,
           NEW o \in Objects, ~Open(o), o \in alive', alive \subseteq alive',
           alive' \subseteq Objects, UNCHANGED overwritten,
           NEW kindOf \in {"new", "listening", "stream"}, Opens(o, kindOf)
    PROVE  /\ fd' \in [Objects -> Handles \cup {INVALID_SOCKET_HANDLE}]
           /\ kernel' \in [Handles -> {"free", "new", "listening", "stream"}]
           /\ HandlesOwned'
<1>1. CASE Free = {}
  BY <1>1 DEF OwnedInv, SockTypeOK, HandlesOwned, Open, Opens
<1>2. CASE Free # {}
  <2>1. PICK h \in Free : fd' = [fd EXCEPT ![o] = h] /\ kernel' = [kernel EXCEPT ![h] = kindOf]
    BY <1>2 DEF Opens
  <2>2. h \in Handles /\ kernel[h] = "free" /\ h # INVALID_SOCKET_HANDLE
    BY DEF Free, INVALID_SOCKET_HANDLE
  <2>3. \A p \in Objects : Open(p) => fd[p] # h
    BY <2>2 DEF OwnedInv, HandlesOwned
  <2>4. \A p \in Objects : fd'[p] = IF p = o THEN h ELSE fd[p]
    BY <2>1 DEF OwnedInv, SockTypeOK
  <2>5. \A g \in Handles : kernel'[g] = IF g = h THEN kindOf ELSE kernel[g]
    BY <2>1 DEF OwnedInv, SockTypeOK
  <2>6. \A p, q \in Objects : Open(p)' /\ fd'[p] = fd'[q] => p = q
    BY <2>2, <2>3, <2>4 DEF OwnedInv, HandlesOwned, Open
  <2>7. \A p \in Objects : Open(p)' => p \in alive' /\ kernel'[fd'[p]] # "free"
    <3> SUFFICES ASSUME NEW p \in Objects, Open(p)'
                 PROVE  p \in alive' /\ kernel'[fd'[p]] # "free"
      OBVIOUS
    <3>1. CASE p = o
      BY <3>1, <2>2, <2>4, <2>5
    <3>2. CASE p # o
      <4>1. Open(p) /\ fd'[p] = fd[p] /\ fd[p] \in Handles
        BY <3>2, <2>4 DEF Open, OwnedInv, SockTypeOK
      <4> QED BY <4>1, <2>3, <2>5 DEF OwnedInv, HandlesOwned
    <3> QED BY <3>1, <3>2
  <2>8. \A g \in Handles : kernel'[g] # "free" => g \in overwritten' \/ \E p \in alive' : fd'[p] = g
    <3> SUFFICES ASSUME NEW g \in Handles, kernel'[g] # "free", g \notin overwritten
                 PROVE  \E p \in alive' : fd'[p] = g
      OBVIOUS
    <3>1. CASE g = h
      BY <3>1, <2>4
    <3>2. CASE g # h
      <4>1. PICK p \in alive : fd[p] = g
        BY <3>2, <2>5 DEF OwnedInv, HandlesOwned
      <4>2. p # o
        BY <4>1 DEF Open, INVALID_SOCKET_HANDLE
      <4> QED BY <4>1, <4>2, <2>4 DEF OwnedInv, SockTypeOK
    <3> QED BY <3>1, <3>2
  <2>9. /\ fd' \in [Objects -> Handles \cup {INVALID_SOCKET_HANDLE}]
        /\ kernel' \in [Handles -> {"free", "new", "listening", "stream"}]
    BY <2>1, <2>2 DEF OwnedInv, SockTypeOK
  <2> QED BY <2>6, <2>7, <2>8, <2>9 DEF HandlesOwned
<1> QED BY <1>1, <1>2

(* Closing frees what the object held, and nothing else.                   *)
LEMMA ClosesKeeps ==
    ASSUME OwnedInv, Handles \subseteq Nat, NEW o \in alive, Closes(o),
           alive' \in {alive, alive \ {o}}, UNCHANGED overwritten
    PROVE  /\ fd' \in [Objects -> Handles \cup {INVALID_SOCKET_HANDLE}]
           /\ kernel' \in [Handles -> {"free", "new", "listening", "stream"}]
           /\ webState' \in [WebSockets -> {"disconnected", "connected"}]
           /\ HandlesOwned'
<1> USE DEF OwnedInv, SockTypeOK
<1>1. \A p \in Objects : fd'[p] = IF p = o THEN INVALID_SOCKET_HANDLE ELSE fd[p]
  BY DEF Closes
<1>2. \A g \in Handles : kernel'[g] = IF g = fd[o] THEN "free" ELSE kernel[g]
  BY DEF Closes, Open, INVALID_SOCKET_HANDLE
<1>3. \A p, q \in Objects : Open(p)' /\ fd'[p] = fd'[q] => p = q
  BY <1>1 DEF HandlesOwned, Open
<1>4. \A p \in Objects : Open(p)' => p \in alive' /\ kernel'[fd'[p]] # "free"
  <2> SUFFICES ASSUME NEW p \in Objects, Open(p)'
               PROVE  p \in alive' /\ kernel'[fd'[p]] # "free"
    OBVIOUS
  <2>1. p # o /\ Open(p) /\ fd'[p] = fd[p] /\ fd[p] \in Handles
    BY <1>1 DEF Open
  <2>2. fd[p] # fd[o]
    BY <2>1 DEF HandlesOwned
  <2> QED BY <2>1, <2>2, <1>2 DEF HandlesOwned
<1>5. \A g \in Handles : kernel'[g] # "free" => g \in overwritten' \/ \E p \in alive' : fd'[p] = g
  <2> SUFFICES ASSUME NEW g \in Handles, kernel'[g] # "free", g \notin overwritten
               PROVE  \E p \in alive' : fd'[p] = g
    OBVIOUS
  <2>1. g # fd[o] /\ kernel[g] # "free"
    BY <1>2
  <2>2. PICK p \in alive : fd[p] = g
    BY <2>1 DEF HandlesOwned
  <2> QED BY <2>1, <2>2, <1>1
<1>6. /\ fd' \in [Objects -> Handles \cup {INVALID_SOCKET_HANDLE}]
      /\ kernel' \in [Handles -> {"free", "new", "listening", "stream"}]
      /\ webState' \in [WebSockets -> {"disconnected", "connected"}]
  BY DEF Closes
<1> QED BY <1>3, <1>4, <1>5, <1>6 DEF HandlesOwned

(* Moving hands a descriptor on; the one that was there is written down.   *)
LEMMA TakenKeeps ==
    ASSUME OwnedInv, Handles \subseteq Nat, NEW o \in Objects, NEW from \in alive, o # from,
           Taken(o, from), alive' = alive \cup {o}, UNCHANGED kernel,
           overwritten' = overwritten \cup ({fd[o]} \cap Handles)
    PROVE  /\ fd' \in [Objects -> Handles \cup {INVALID_SOCKET_HANDLE}]
           /\ HandlesOwned'
<1> USE DEF OwnedInv, SockTypeOK
<1>1. \A p \in Objects : fd'[p] = IF p = from THEN INVALID_SOCKET_HANDLE
                                  ELSE IF p = o THEN fd[from] ELSE fd[p]
  BY DEF Taken
<1>2. \A p, q \in Objects : Open(p)' /\ fd'[p] = fd'[q] => p = q
  BY <1>1 DEF HandlesOwned, Open
<1>3. \A p \in Objects : Open(p)' => p \in alive' /\ kernel'[fd'[p]] # "free"
  BY <1>1 DEF HandlesOwned, Open
<1>4. \A g \in Handles : kernel'[g] # "free" => g \in overwritten' \/ \E p \in alive' : fd'[p] = g
  <2> SUFFICES ASSUME NEW g \in Handles, kernel[g] # "free", g \notin overwritten, g # fd[o]
               PROVE  \E p \in alive' : fd'[p] = g
    OBVIOUS
  <2>1. PICK p \in alive : fd[p] = g
    BY DEF HandlesOwned
  <2>2. CASE p = from
    BY <2>1, <2>2, <1>1
  <2>3. CASE p # from
    BY <2>1, <2>3, <1>1
  <2> QED BY <2>2, <2>3
<1>5. fd' \in [Objects -> Handles \cup {INVALID_SOCKET_HANDLE}]
  BY DEF Taken
<1> QED BY <1>2, <1>3, <1>4, <1>5 DEF HandlesOwned

---------------------------------------------------------------------------

LEMMA InitOwned == ASSUME Handles \subseteq Nat PROVE SockInit => OwnedInv
BY DEF SockInit, OwnedInv, SockTypeOK, HandlesOwned, Open, INVALID_SOCKET_HANDLE

(* connect() never gets past its first line.                               *)
LEMMA NeverConnects ==
    ASSUME OwnedInv, Handles \subseteq Nat, NEW o \in Objects, NEW reachable \in BOOLEAN
    PROVE  ~SocketConnects(o, reachable)
<1>1. fd[o] \in Handles \cup {INVALID_SOCKET_HANDLE}
  BY DEF OwnedInv, SockTypeOK
<1>2. ASSUME NEW h \in Int, h \in Nat \/ h = INVALID_SOCKET_HANDLE
      PROVE  ~(h < INVALID_SOCKET_HANDLE)
  BY <1>2 DEF INVALID_SOCKET_HANDLE
<1>3. fd[o] \in Nat \/ fd[o] = INVALID_SOCKET_HANDLE
  BY <1>1
<1>4. INVALID_SOCKET_HANDLE \in Int /\ Nat \subseteq Int
  BY DEF INVALID_SOCKET_HANDLE
<1> QED BY <1>2, <1>3, <1>4 DEF SocketConnects

LEMMA NextOwned ==
    ASSUME Handles \subseteq Nat, OwnedInv, [SockNext]_sockVars PROVE OwnedInv'
<1>1. ASSUME NEW o \in Objects, Construct(o) PROVE OwnedInv'
  <2>1. ~Open(o)
    BY <1>1 DEF Construct, OwnedInv, HandlesOwned
  <2>2. CASE UNCHANGED <<fd, kernel>>
    BY <1>1, <2>2 DEF Construct, OwnedInv, SockTypeOK, HandlesOwned, Open
  <2>3. CASE Opens(o, "new")
    BY <1>1, <2>1, <2>3, OpensKeeps DEF Construct, OwnedInv, SockTypeOK
  <2> QED BY <1>1, <2>2, <2>3 DEF Construct
<1>2. ASSUME NEW o \in Objects, Destroy(o) PROVE OwnedInv'
  BY <1>2, ClosesKeeps DEF Destroy, OwnedInv, SockTypeOK
<1>3. ASSUME NEW o \in Objects, close(o) PROVE OwnedInv'
  BY <1>3, ClosesKeeps DEF close, OwnedInv, SockTypeOK
<1>4. ASSUME NEW o \in Objects, bind(o) PROVE OwnedInv'
  BY <1>4, OpensKeeps DEF bind, OwnedInv, SockTypeOK
<1>5. ASSUME NEW o \in Objects, listen(o) PROVE OwnedInv'
  BY <1>5 DEF listen, OwnedInv, SockTypeOK, HandlesOwned, Open
<1>6. ASSUME NEW o \in PlainSockets, connect(o) PROVE OwnedInv'
  <2>1. UNCHANGED <<fd, kernel>>
    BY <1>6, NeverConnects DEF connect, Objects
  <2> QED BY <1>6, <2>1 DEF connect, OwnedInv, SockTypeOK, HandlesOwned, Open
<1>7. ASSUME NEW o \in PlainSockets, NEW p \in PlainSockets, MoveConstruct(o, p) PROVE OwnedInv'
  <2>1. o \in Objects /\ o # p /\ {fd[o]} \cap Handles = {}
    BY <1>7 DEF MoveConstruct, OwnedInv, SockTypeOK, HandlesOwned, Open, Objects, INVALID_SOCKET_HANDLE
  <2> QED BY <1>7, <2>1, TakenKeeps DEF MoveConstruct, OwnedInv, SockTypeOK
<1>8. ASSUME NEW o \in PlainSockets, NEW p \in PlainSockets, MoveAssign(o, p) PROVE OwnedInv'
  <2>1. o \in Objects /\ alive' = alive \cup {o}
    BY <1>8 DEF MoveAssign, Objects
  <2> QED BY <1>8, <2>1, TakenKeeps DEF MoveAssign, OwnedInv, SockTypeOK
<1>9. ASSUME NEW o \in PlainSockets, NEW p \in PlainSockets, accept(o, p) PROVE OwnedInv'
  BY <1>9, OpensKeeps DEF accept, Accepts, OwnedInv, SockTypeOK
<1>10. ASSUME NEW o \in WebSockets, NEW p \in WebSockets, web_accept(o, p) PROVE OwnedInv'
  <2>1. PICK request \in Requests :
           LET upgraded == Readable(o) /\ Upgradable("get", request)
           IN /\ IF upgraded THEN Opens(p, "stream") ELSE UNCHANGED <<fd, kernel>>
              /\ webState' = [webState EXCEPT ![p] =
                                 IF upgraded THEN "connected" ELSE "disconnected"]
              /\ handshake' = [offered |-> Upgradable("get", request), result |-> upgraded]
    BY <1>10 DEF web_accept
  <2>2. ~Readable(o)
    BY <1>10 DEF web_accept, Accepts, Readable
  <2>3. UNCHANGED <<fd, kernel>> /\ handshake' \in [offered : BOOLEAN, result : BOOLEAN]
    BY <2>1, <2>2 DEF Upgradable
  <2>4. webState' \in [WebSockets -> {"disconnected", "connected"}]
    BY <2>1, <2>2 DEF OwnedInv, SockTypeOK
  <2> QED BY <1>10, <2>3, <2>4 DEF web_accept, Accepts, OwnedInv, SockTypeOK, HandlesOwned, Open
<1>11. ASSUME NEW o \in WebSockets, web_connect(o) PROVE OwnedInv'
  <2>1. PICK reachable \in BOOLEAN, response \in Responses :
           LET verified == verify_key(response, "key")
               upgraded == SocketConnects(o, reachable) /\ verified
           IN /\ IF upgraded THEN Opens(o, "stream") ELSE UNCHANGED <<fd, kernel>>
              /\ webState' = [webState EXCEPT ![o] =
                                 IF upgraded THEN "connected" ELSE "disconnected"]
              /\ handshake' = [offered |-> reachable /\ verified /\ Free # {}, result |-> upgraded]
    BY <1>11 DEF web_connect
  <2>2. ~SocketConnects(o, reachable)
    BY NeverConnects DEF Objects
  <2>3. UNCHANGED <<fd, kernel>> /\ handshake' \in [offered : BOOLEAN, result : BOOLEAN]
    BY <2>1, <2>2
  <2>4. webState' \in [WebSockets -> {"disconnected", "connected"}]
    BY <2>1, <2>2 DEF OwnedInv, SockTypeOK
  <2> QED BY <1>11, <2>3, <2>4 DEF web_connect, OwnedInv, SockTypeOK, HandlesOwned, Open
<1>12. CASE UNCHANGED sockVars
  BY <1>12 DEF sockVars, OwnedInv, SockTypeOK, HandlesOwned, Open
<1> QED BY <1>1, <1>2, <1>3, <1>4, <1>5, <1>6, <1>7, <1>8, <1>9, <1>10, <1>11, <1>12 DEF SockNext

(* Whatever objects a program makes, moves, connects and destroys, in      *)
(* whatever order, and whatever fails: no descriptor has two owners, none  *)
(* is kept after it was closed, and only those that operator= of           *)
(* stw::socket overwrites are lost.                                        *)
THEOREM SocketsOwned == ASSUME Handles \subseteq Nat PROVE SockSpec => []HandlesOwned
<1>1. SockInit => OwnedInv
  BY InitOwned
<1>2. OwnedInv /\ [SockNext]_sockVars => OwnedInv'
  BY NextOwned
<1>3. OwnedInv => HandlesOwned
  BY DEF OwnedInv
<1> QED BY <1>1, <1>2, <1>3, PTL DEF SockSpec

(* No web socket gets a connection, whatever its peer does: connect()      *)
(* never opens a descriptor, and web_socket::accept reads the request from *)
(* a descriptor that listens and has none.                                 *)
THEOREM NoHandshakeSucceeds ==
    ASSUME Handles \subseteq Nat PROVE SockSpec => []~handshake.result
<1> DEFINE None == ~handshake.result
<1>1. SockInit => OwnedInv /\ None
  BY InitOwned DEF SockInit
<1>2. ASSUME OwnedInv, None, [SockNext]_sockVars PROVE None'
  <2>1. ASSUME NEW o \in WebSockets, web_connect(o) PROVE ~handshake'.result
    <3>1. PICK reachable \in BOOLEAN, response \in Responses :
              handshake' = [offered |-> reachable /\ verify_key(response, "key") /\ Free # {},
                            result |-> SocketConnects(o, reachable) /\ verify_key(response, "key")]
      BY <2>1, Zenon DEF web_connect
    <3>2. ~SocketConnects(o, reachable)
      BY <1>2, NeverConnects DEF Objects
    <3>3. handshake'.result = (SocketConnects(o, reachable) /\ verify_key(response, "key"))
      BY <3>1, Zenon
    <3> QED BY <3>2, <3>3, Zenon
  <2>2. ASSUME NEW o \in WebSockets, NEW p \in WebSockets, web_accept(o, p)
        PROVE  ~handshake'.result
    <3>1. PICK request \in Requests :
              handshake' = [offered |-> Upgradable("get", request),
                            result |-> Readable(o) /\ Upgradable("get", request)]
      BY <2>2, Zenon DEF web_accept
    <3>2. ~Readable(o)
      BY <2>2 DEF web_accept, Accepts, Readable
    <3>3. handshake'.result = (Readable(o) /\ Upgradable("get", request))
      BY <3>1, Zenon
    <3> QED BY <3>2, <3>3, Zenon
  <2>3. CASE UNCHANGED handshake
    BY <1>2, <2>3
  <2> QED BY <1>2, <2>1, <2>2, <2>3 DEF SockNext, Construct, Destroy, close, bind, listen, connect,
            MoveConstruct, MoveAssign, accept, sockVars
<1>3. OwnedInv /\ [SockNext]_sockVars => OwnedInv'
  BY NextOwned
<1>4. SockSpec => []None
  <2> HIDE DEF None
  <2> QED BY <1>1, <1>2, <1>3, PTL DEF SockSpec
<1> QED BY <1>4

---------------------------------------------------------------------------
(* A step of Library is a step of the web socket, or leaves it alone.      *)
LEMMA ImplementsWebSocket == Spec => W!WsSpec
<1>1. Init => W!WsInit
  BY DEF Init
<1>2. [Next]_vars => [W!WsNext]_(W!wsVars)
  BY DEF Next, WebSocketStep, PollerStep, vars, wsVars, W!wsVars
<1> QED BY <1>1, <1>2, PTL DEF Spec, W!WsSpec

\* The same of the sockets,
LEMMA ImplementsSockets == Spec => SockSpec
<1>1. Init => SockInit
  BY DEF Init
<1>2. [Next]_vars => [SockNext]_sockVars
  BY DEF Next, WebSocketStep, PollerStep, vars, sockVars
<1> QED BY <1>1, <1>2, PTL DEF Spec, SockSpec

\* of the poller,
LEMMA ImplementsPoller == Spec => PollSpec
<1>1. Init => PollInit
  BY DEF Init
<1>2. [Next]_vars => [PollNext]_pollVars
  BY DEF Next, WebSocketStep, PollerStep, vars, pollVars
<1> QED BY <1>1, <1>2, PTL DEF Spec, PollSpec

\* and of the file cache.
LEMMA ImplementsFileCache == Spec => CacheSpec
<1>1. Init => CacheInit
  BY DEF Init
<1>2. [Next]_vars => [CacheNext]_cacheVars
  BY DEF Next, WebSocketStep, PollerStep, vars, cacheVars
<1> QED BY <1>1, <1>2, PTL DEF Spec, CacheSpec

---------------------------------------------------------------------------

(* However objects of stw::socket and stw::web_socket are made, moved,     *)
(* connected and destroyed, and whatever fails, each open descriptor has   *)
(* one owner, but for those that operator= overwrites.                     *)
THEOREM DescriptorsOwned == Spec => []HandlesOwned
<1>1. SockSpec => []HandlesOwned
  BY HandlesAssumption, SocketsOwned
<1> QED BY <1>1, ImplementsSockets, PTL

(* With any of the three pollers, a wait over a descriptor that is due     *)
(* returns, or is about to be told to.                                     *)
THEOREM WaitsEnd == Spec => []NobodySleepsThrough
BY PollerWaits, ImplementsPoller, PTL

(* file_cache::read_file serves nothing older than the call, whoever       *)
(* writes the files, and whatever the clock does.                          *)
THEOREM CacheFresh == Spec => []ServedFresh
BY CacheServes, ImplementsFileCache, PTL

(* onReceived is handed the messages the peer sent, whole, in order and    *)
(* without a gap, however they are cut and whatever is between the pieces. *)
THEOREM ReceivedInOrder == Spec => []MessagesInOrder
<1>1. W!WsSpec => []W!MessagesInOrder
  BY MessagesAssumption, W!ReceivedInOrder
<1> QED BY <1>1, ImplementsWebSocket, PTL DEF MessagesInOrder

(* The peer of a web socket has the messages passed to send(), whole, in   *)
(* order, without a gap and unmasked, and none whose send() has failed,    *)
(* unless it failed inside a frame.                                        *)
THEOREM DeliveredInOrder == Spec => []SentInOrder
<1>1. W!WsSpec => []W!SentInOrder
  BY MessagesAssumption, W!DeliveredInOrder
<1> QED BY <1>1, ImplementsWebSocket, PTL DEF SentInOrder

(* receive() answers a close frame with the code it carries.               *)
THEOREM CodeEchoed == Spec => []CloseEchoed
<1>1. W!WsSpec => []W!CloseEchoed
  BY MessagesAssumption, W!CodeEchoed
<1> QED BY <1>1, ImplementsWebSocket, PTL DEF CloseEchoed

---------------------------------------------------------------------------
\* The text of a behaviour that has one is an input.
Given == part = "text" => text \in Texts

(* No step of Library changes it.                                          *)
LEMMA TextGiven == Spec => []Given
<1>1. Init => Given
  BY DEF Init, Given
<1>2. Given /\ [Next]_vars => Given'
  BY DEF Next, WebSocketStep, PollerStep, vars, Given
<1> QED BY <1>1, <1>2, PTL DEF Spec

---------------------------------------------------------------------------
(***************************************************************************)
(* The routes.  Which route answers depends on the least place of one that *)
(* matches, of any number of them.                                         *)
(***************************************************************************)

\* The routes whose regular expression matches a path.
Matching(routes, path) == {i \in DOMAIN routes : path \in routes[i].paths}

\* What the first route that matches answers.
Answer(r, method) ==
    CASE r.method = "any" ->
            IF method = "unknown" THEN "501"
            ELSE IF method \in r.handler THEN "controller" ELSE "405"
      [] OTHER -> IF r.method = method THEN "handler" ELSE "405"

(* The least number of a set is the one that Min chooses.                  *)
LEMMA LeastIs ==
    ASSUME NEW T, T \subseteq Nat, NEW m \in T, \A y \in T : m <= y
    PROVE  D!Min(T) = m
<1> DEFINE x == D!Min(T)
<1>1. x \in T /\ \A y \in T : x <= y
  BY DEF D!Min
<1> HIDE DEF x
<1>2. x <= m /\ m <= x /\ x \in Nat /\ m \in Nat
  BY <1>1
<1>3. x = m
  BY <1>2
<1> QED BY <1>3 DEF x

(* The route at the least place answers, if there is one.                  *)
LEMMA FirstAnswers ==
    ASSUME NEW routes, DOMAIN routes \subseteq Nat, NEW path, NEW method,
           NEW m \in Matching(routes, path), \A y \in Matching(routes, path) : m <= y
    PROVE  /\ D!process_request(routes, path, method) = Answer(routes[m], method)
           /\ D!process_request(routes, path, method) # "not routed"
<1>1. Matching(routes, path) \subseteq Nat /\ Matching(routes, path) # {}
  BY DEF Matching
<1>2. D!Min(Matching(routes, path)) = m
  BY <1>1, LeastIs
<1>3. D!process_request(routes, path, method) = Answer(routes[m], method)
  BY <1>1, <1>2 DEF D!process_request, Matching, Answer
<1>4. Answer(routes[m], method) # "not routed"
  BY DEF Answer
<1> QED BY <1>3, <1>4

(* No route matches.                                                       *)
LEMMA NoneMatches ==
    ASSUME NEW routes, NEW path, NEW method, Matching(routes, path) = {}
    PROVE  D!process_request(routes, path, method) = "not routed"
BY DEF D!process_request, Matching

Decides(routes, before, behind, path, method) ==
    D!process_request(routes, path, method) =
        IF D!process_request(before, path, method) # "not routed"
           THEN D!process_request(before, path, method)
           ELSE D!process_request(behind, path, method)

(* Wherever the routes are cut, the first part answers, or else the second.*)
LEMMA RoutesCut ==
    ASSUME NEW S, NEW routes \in Seq(S), NEW n \in 0..Len(routes), NEW path, NEW method,
           NEW before, before = SubSeq(routes, 1, n),
           NEW behind, behind = SubSeq(routes, n + 1, Len(routes))
    PROVE  Decides(routes, before, behind, path, method)
<1> DEFINE l == Len(routes)
           All == Matching(routes, path)
<1>1. l \in Nat /\ DOMAIN routes = 1..l /\ n \in Nat /\ n <= l /\ All \subseteq Nat
  BY DEF Matching
<1>2. DOMAIN before = 1..n /\ \A k \in 1..n : before[k] = routes[k]
  <2> DEFINE i == 1
  <2>1. i \in Nat \ {0} /\ n <= Len(routes) /\ i <= n + 1 /\ n + 1 - i = n
        /\ \A k \in 1..n : i + k - 1 = k
    BY <1>1
  <2> HIDE DEF i
  <2>2. /\ SubSeq(routes, i, n) \in Seq(S) /\ Len(SubSeq(routes, i, n)) = n + 1 - i
        /\ \A k \in 1..(n + 1 - i) : SubSeq(routes, i, n)[k] = routes[i + k - 1] /\ i + k - 1 \in i..n
    BY <1>1, <2>1, W!PieceIs
  <2>3. before = SubSeq(routes, i, n)
    BY DEF i
  <2>4. DOMAIN before = 1..Len(before)
    BY <2>2, <2>3
  <2> QED BY <2>1, <2>2, <2>3, <2>4
<1>3. DOMAIN behind = 1..(l - n) /\ \A k \in 1..(l - n) : behind[k] = routes[n + k]
  <2> DEFINE i == n + 1
             j == l
  <2>0. l \in Nat /\ n \in Nat /\ n <= l /\ j = l /\ l = Len(routes)
    BY <1>1
  <2>3. behind = SubSeq(routes, i, j)
    OBVIOUS
  <2> HIDE DEF l, j, All
  <2>1. i \in Nat \ {0} /\ j \in Nat /\ j <= Len(routes) /\ i <= j + 1 /\ j + 1 - i = l - n
        /\ \A k \in 1..(l - n) : i + k - 1 = n + k
    BY <2>0
  <2> HIDE DEF i
  <2>2. /\ SubSeq(routes, i, j) \in Seq(S) /\ Len(SubSeq(routes, i, j)) = j + 1 - i
        /\ \A k \in 1..(j + 1 - i) : SubSeq(routes, i, j)[k] = routes[i + k - 1] /\ i + k - 1 \in i..j
    BY <2>1, W!PieceIs
  <2>4. DOMAIN behind = 1..Len(behind)
    BY <2>2, <2>3
  <2> HIDE DEF l
  <2> QED BY <2>1, <2>2, <2>3, <2>4
<1> HIDE DEF l
<1>4. \A k \in 1..n : k \in Matching(before, path) <=> k \in All
  BY <1>1, <1>2 DEF Matching
<1>5. \A k \in 1..(l - n) : k \in Matching(behind, path) <=> n + k \in All
  BY <1>1, <1>3 DEF Matching
<1>6. /\ All \subseteq 1..l /\ Matching(before, path) \subseteq 1..n
      /\ Matching(behind, path) \subseteq 1..(l - n)
  BY <1>1, <1>2, <1>3 DEF Matching
<1> HIDE DEF All
<1>7. CASE All = {}
  <2>1. Matching(before, path) = {} /\ Matching(behind, path) = {}
    BY <1>1, <1>4, <1>5, <1>6, <1>7
  <2>2. Matching(routes, path) = {}
    BY <1>7 DEF All
  <2> QED BY <2>1, <2>2, NoneMatches, Zenon DEF Decides
<1>8. CASE All # {}
  <2>1. PICK m \in All : \A y \in All : m <= y
    BY <1>1, <1>8, W!LeastNumber
  <2>2. D!process_request(routes, path, method) = Answer(routes[m], method)
    <3>1. DOMAIN routes \subseteq Nat
      BY <1>1
    <3>2. m \in Matching(routes, path) /\ \A y \in Matching(routes, path) : m <= y
      BY <2>1 DEF All
    <3> QED BY <3>1, <3>2, FirstAnswers, Zenon
  <2>3. CASE m <= n
    <3>1. m \in 1..n /\ m \in Matching(before, path) /\ before[m] = routes[m]
      BY <1>1, <1>2, <1>4, <1>6, <2>1, <2>3
    <3>2. \A y \in Matching(before, path) : m <= y
      BY <1>4, <1>6, <2>1
    <3>3. DOMAIN before \subseteq Nat
      BY <1>2
    <3>4. /\ D!process_request(before, path, method) = Answer(before[m], method)
          /\ D!process_request(before, path, method) # "not routed"
      BY <3>1, <3>2, <3>3, FirstAnswers, Zenon
    <3> QED BY <2>2, <3>1, <3>4, Zenon DEF Decides
  <2>4. CASE n < m
    <3>1. Matching(before, path) = {}
      BY <1>1, <1>4, <1>6, <2>1, <2>4
    <3>2. m - n \in 1..(l - n) /\ n + (m - n) = m
      BY <1>1, <1>6, <2>1, <2>4
    <3>3. m - n \in Matching(behind, path) /\ behind[m - n] = routes[m]
      BY <1>3, <1>5, <2>1, <3>2
    <3>4. \A y \in Matching(behind, path) : m - n <= y
      <4> TAKE y \in Matching(behind, path)
      <4>1. y \in 1..(l - n) /\ n + y \in All
        BY <1>5, <1>6
      <4>2. m <= n + y
        BY <2>1, <4>1
      <4> QED BY <1>1, <1>6, <2>1, <4>1, <4>2
    <3>5. DOMAIN behind \subseteq Nat
      BY <1>1, <1>3
    <3>6. D!process_request(behind, path, method) = Answer(behind[m - n], method)
      BY <3>3, <3>4, <3>5, FirstAnswers, Zenon
    <3>7. D!process_request(before, path, method) = "not routed"
      BY <3>1, NoneMatches, Zenon
    <3> QED BY <2>2, <3>3, <3>6, <3>7, Zenon DEF Decides
  <2>5. m <= n \/ n < m
    <3>1. m \in 1..l
      BY <1>6, <2>1
    <3> QED BY <1>1, <3>1
  <2> QED BY <2>3, <2>4, <2>5, Zenon
<1> QED BY <1>7, <1>8, Zenon

(* For any paths, methods and handlers, and any number of routes: those    *)
(* that are added first answer for all that match the same path            *)
(* (http_router).                                                          *)
THEOREM RoutesInOrder == Spec => []FirstRouteDecides
<1>1. Given => FirstRouteDecides
  <2> SUFFICES ASSUME Given, Input("routes"), NEW n \in 0..Len(text.routes)
               PROVE  LET answer(routes) == D!process_request(routes, text.path, text.method)
                          first == answer(SubSeq(text.routes, 1, n))
                          others == answer(SubSeq(text.routes, n + 1, Len(text.routes)))
                      IN answer(text.routes) = IF first # "not routed" THEN first ELSE others
    BY Zenon DEF FirstRouteDecides
  <2> DEFINE S == {text.routes[i] : i \in DOMAIN text.routes}
  <2>1. text.routes \in Seq(S)
    BY TextsAssumption DEF Given, Input
  <2> HIDE DEF S
  <2> DEFINE answer(routes) == D!process_request(routes, text.path, text.method)
             before == SubSeq(text.routes, 1, n)
             behind == SubSeq(text.routes, n + 1, Len(text.routes))
  <2>2. answer(text.routes) = IF answer(before) # "not routed" THEN answer(before)
                              ELSE answer(behind)
    <3> DEFINE all == text.routes
    <3>1. all \in Seq(S) /\ n \in 0..Len(all)
      BY <2>1
    <3>2. before = SubSeq(all, 1, n) /\ behind = SubSeq(all, n + 1, Len(all))
      OBVIOUS
    <3> HIDE DEF all, before, behind
    <3>3. Decides(all, before, behind, text.path, text.method)
      BY <3>1, <3>2, RoutesCut
    <3> QED BY <3>3, Zenon DEF all, Decides
  <2> QED BY <2>2, Zenon
<1> QED BY <1>1, TextGiven, PTL

---------------------------------------------------------------------------
(* is_valid_utf8 refuses no UTF-8, and judges every text by its leading    *)
(* bytes, of whatever length.                                              *)
THEOREM ValidatorRight == Spec => []Utf8Validated
<1>1. Given => Utf8Validated
  BY TextsAssumption, W!Utf8Accepted, W!Utf8Taken DEF Given, Utf8Validated, Input, W!Chars
<1> QED BY <1>1, TextGiven, PTL

(* split loses nothing, and agrees with what looks for a text in another   *)
(* and with replace.                                                       *)
LEMMA SplitsRight ==
    ASSUME text.str \in Seq(W!Chars), text.maxParts \in Nat
    PROVE  Splits
<1> DEFINE str == text.str
           max == text.maxParts
           n == Len(str)
           parts == W!split(str, 44, max)
           between == <<44, 44>>
           q == <<0, 0>>
           e == W!FindFrom(str, <<44>>, 1)
<1> DEFINE sep == 44
<1>1. n \in Nat /\ str \in Seq(W!Chars) /\ max \in Nat /\ sep \in W!Chars /\ 1 \in Nat \ {0}
      /\ 0 \in Nat /\ 1 \in 1..(Len(str) + 1)
  <2>1. n \in Nat
    BY W!ElementsOf
  <2>2. 44 \in W!Chars
    BY DEF W!Chars
  <2> QED BY <2>1, <2>2
<1>2. between \in Seq(W!Chars)
  <2> DEFINE A == W!Chars
             c == sep
             b == <<c, c>>
  <2>1. c \in A /\ between = b
    BY <1>1
  <2> HIDE DEF A, c
  <2>2. b \in Seq(A)
    BY <2>1
  <2> QED BY <2>1, <2>2 DEF A
<1> HIDE DEF between
<1>3. PICK d : W!Cuts(d, str, sep, max) /\ parts = d[q]
  <2>1. \E d : W!Cuts(d, str, sep, max) /\ W!split(str, sep, max) = d[<<0, 0>>]
    <3> HIDE DEF str, max, sep
    <3> QED BY <1>1, W!SplitRecursion
  <2> QED BY <2>1
<1>4. PICK r : W!Replaces(r, str, sep, between) /\ W!replace(str, <<sep>>, between) = r[1]
  <2> HIDE DEF str, max, sep
  <2> QED BY <1>1, <1>2, W!ReplaceRecursion
<1>5. q \in W!CutPlaces(Len(str)) /\ q[1] = 0 /\ q[2] = 0
  BY <1>1 DEF W!CutPlaces
<1> HIDE DEF str, max, n, sep, parts, q
<1>6. \A p \in W!CutPlaces(Len(str)) : W!GoodCut(d[p], str, sep, max, p[1] + 1, p[2], between, r)
  BY <1>1, <1>2, <1>3, <1>4, W!CutsGood
<1>7. W!GoodCut(parts, str, sep, max, 1, 0, between, r)
  <2>1. 0 + 1 = 1
    OBVIOUS
  <2> QED BY <1>3, <1>5, <1>6, <2>1
<1>8. /\ parts \in Seq(Seq(W!Chars)) /\ Len(parts) >= 1
      /\ W!JoinedWith(parts, <<sep>>) = W!From(str, 1)
      /\ max > 1 /\ 0 <= max - 1 => Len(parts) + 0 <= max
      /\ max = 0 => /\ \A i \in 1..Len(parts) : \A k \in 1..Len(parts[i]) : parts[i][k] # sep
                    /\ W!JoinedWith(parts, between) = r[1]
      /\ \E b \in 1..(Len(str) + 1) : parts[Len(parts)] = W!From(str, b)
  BY <1>7, Zenon DEF W!GoodCut
<1>9. W!From(str, 1) = str
  BY <1>1, W!WholePiece DEF W!From
<1>10. W!FoundAt(e, str, sep, 1) /\ e = W!FindFrom(str, <<sep>>, 1)
  <2>1. e = W!FindFrom(str, <<sep>>, 1)
    BY DEF sep
  <2>2. W!FoundAt(W!FindFrom(str, <<sep>>, 1), str, sep, 1)
    BY <1>1, W!FindIs
  <2> QED BY <2>1, <2>2
<1> HIDE DEF e
<1>11. W!CutEnd(str, sep, max, 1, 0) = e
  <2>1. ~(0 > 0)
    OBVIOUS
  <2> QED BY <1>10, <2>1, Zenon DEF W!CutEnd
<1>12. parts = IF e = 0 THEN <<W!From(str, 1)>> ELSE <<SubSeq(str, 1, e - 1)>> \o d[<<e, 1>>]
  <2>1. d[q] = IF W!CutEnd(str, sep, max, q[1] + 1, q[2]) = 0 THEN <<W!From(str, q[1] + 1)>>
               ELSE <<SubSeq(str, q[1] + 1, W!CutEnd(str, sep, max, q[1] + 1, q[2]) - 1)>>
                        \o d[<<W!CutEnd(str, sep, max, q[1] + 1, q[2]), q[2] + 1>>]
    BY <1>3, <1>5, Zenon DEF W!Cuts
  <2>2. q[1] + 1 = 1 /\ q[2] + 1 = 1 /\ q[2] = 0
    BY <1>5
  <2> QED BY <1>3, <1>11, <2>1, <2>2, Zenon
<1>13. /\ \E j \in 0..n : parts[1] = SubSeq(str, 1, j)
       /\ e - 1 = IF Len(parts) = 1 THEN -1 ELSE Len(parts[1])
  <2>1. CASE e = 0
    <3> DEFINE x == W!From(str, 1)
    <3>1. parts = <<x>>
      BY <1>12, <2>1
    <3>2. x = SubSeq(str, 1, n) /\ n \in 0..n
      BY <1>1 DEF W!From, n
    <3> HIDE DEF x
    <3>3. Len(parts) = 1 /\ parts[1] = x
      BY <3>1
    <3> QED BY <2>1, <3>2, <3>3
  <2>2. CASE e # 0
    <3> DEFINE j == e - 1
               x == SubSeq(str, 1, j)
               p == <<e, 1>>
               c == d[p]
               one == <<x>>
    <3>1. e \in 1..n
      BY <1>10, <2>2 DEF W!FoundAt, n
    <3>2. j \in 0..n /\ j \in Nat /\ j <= Len(str) /\ 1 <= j + 1 /\ j + 1 - 1 = j
      BY <1>1, <3>1 DEF n
    <3>3. parts = one \o c
      BY <1>12, <2>2
    <3>4. p \in W!CutPlaces(Len(str))
      <4>1. e \in 0..n /\ 1 \in 0..n /\ 1 <= e
        BY <1>1, <3>1
      <4> QED BY <4>1 DEF W!CutPlaces, n
    <3> HIDE DEF j, p
    <3>5. x \in Seq(W!Chars) /\ Len(x) = j
      <4>1. x \in Seq(W!Chars) /\ Len(x) = j + 1 - 1
        BY <1>1, <3>2, W!PieceIs
      <4> HIDE DEF x
      <4> QED BY <3>2, <4>1
    <3>6. c \in Seq(Seq(W!Chars)) /\ Len(c) >= 1
      <4>1. W!GoodCut(c, str, sep, max, p[1] + 1, p[2], between, r)
        BY <1>6, <3>4
      <4> HIDE DEF c
      <4> QED BY <4>1, Zenon DEF W!GoodCut
    <3> HIDE DEF x, c
    <3> DEFINE A == Seq(W!Chars)
    <3>7. one \in Seq(A) /\ Len(one) = 1 /\ one[1] = x
      <4>1. x \in A
        BY <3>5
      <4> HIDE DEF A
      <4> QED BY <4>1
    <3>8. one \in Seq(A) /\ c \in Seq(A)
      BY <3>6, <3>7
    <3> HIDE DEF A, one
    <3>9. /\ Len(one \o c) = Len(one) + Len(c) /\ Len(c) \in Nat
          /\ \A i \in 1..Len(one) : (one \o c)[i] = one[i]
      BY <3>8, W!ConcatIs
    <3>10. Len(parts) = 1 + Len(c) /\ parts[1] = x
      <4>1. 1 \in 1..Len(one)
        BY <3>7
      <4> QED BY <3>3, <3>7, <3>9, <4>1
    <3>11. Len(parts) # 1 /\ e - 1 = Len(parts[1])
      BY <3>5, <3>6, <3>9, <3>10 DEF j
    <3>12. parts[1] = SubSeq(str, 1, j)
      BY <3>10 DEF x
    <3> QED BY <3>2, <3>11, <3>12
  <2> QED BY <2>1, <2>2
<1>14. W!JoinedWith(parts, <<44>>) = str
  BY <1>8, <1>9 DEF sep
<1>15. max > 1 => Len(parts) <= max
  <2>1. Len(parts) \in Nat
    BY <1>8, W!ElementsOf
  <2> QED BY <1>1, <1>8, <2>1
<1>16. ASSUME max = 0
       PROVE  /\ \A i \in DOMAIN parts : ~W!contains(parts[i], <<44>>)
              /\ W!JoinedWith(parts, between) = W!replace(str, <<44>>, between)
  <2>1. ASSUME NEW i \in DOMAIN parts PROVE ~W!contains(parts[i], <<44>>)
    <3> DEFINE x == parts[i]
    <3>1. i \in 1..Len(parts) /\ x \in Seq(W!Chars)
      BY <1>8, W!ElementsOf
    <3>2. \A k \in 1..Len(x) : x[k] # sep
      BY <1>8, <1>16, <3>1
    <3> HIDE DEF x
    <3>3. ~W!contains(x, <<sep>>)
      BY <1>1, <3>1, <3>2, W!NotContained
    <3> QED BY <3>3 DEF x, sep
  <2>2. W!JoinedWith(parts, between) = W!replace(str, <<44>>, between)
    BY <1>4, <1>8, <1>16 DEF sep
  <2> QED BY <2>1, <2>2
<1>17. W!compare(str, W!to_upper(str), TRUE)
  BY <1>1, W!CaseIgnored
<1>18. W!starts_with(str, Head(parts))
  <2>1. PICK j \in 0..n : parts[1] = SubSeq(str, 1, j)
    BY <1>13
  <2>2. Head(parts) = parts[1]
    BY <1>8
  <2>3. W!starts_with(str, SubSeq(str, 1, j))
    BY <1>1, W!StartsWith DEF n
  <2> QED BY <2>1, <2>2, <2>3
<1>19. W!ends_with(str, W!Last(parts))
  <2>1. PICK b \in 1..(Len(str) + 1) : parts[Len(parts)] = W!From(str, b)
    BY <1>8
  <2>2. W!ends_with(str, W!From(str, b))
    BY <1>1, W!EndsWith
  <2>3. W!Last(parts) = parts[Len(parts)]
    BY Zenon DEF W!Last
  <2> QED BY <2>1, <2>2, <2>3
<1>20. W!index_of(str, <<44>>) = IF Len(parts) = 1 THEN -1 ELSE Len(Head(parts))
  <2>1. W!index_of(str, <<44>>) = e - 1
    BY Zenon DEF W!index_of, e
  <2>2. Head(parts) = parts[1]
    BY <1>8
  <2> QED BY <1>13, <2>1, <2>2
<1>21. max = 0 =>
           /\ \A i \in DOMAIN parts : ~W!contains(parts[i], <<44>>)
           /\ W!JoinedWith(parts, <<44, 44>>) = W!replace(str, <<44>>, <<44, 44>>)
  BY <1>16 DEF between
<1> QED BY <1>14, <1>15, <1>17, <1>18, <1>19, <1>20, <1>21, Zenon DEF Splits, str, max, parts

(* A URI comes apart as it was made.                                       *)
LEMMA UriRight ==
    ASSUME UriInput(text)
    PROVE  UriTakenApart
<1> DEFINE scheme == text.scheme
           host == text.host
           path == text.path
           query == text.query
           ports == text.port
           chosen == CHOOSE p \in ports : TRUE
           num == W!Decimal(chosen)
           colon == <<58>>
           port == IF ports = {} THEN <<>> ELSE colon \o num
           mark == <<58, 47, 47>>
           uri == scheme \o mark \o host \o port \o path \o query
           both == host \o port
<1>1. /\ scheme \in DOMAIN Ports
      /\ scheme \in Seq(W!Chars) /\ host \in Seq(W!Chars)
      /\ path \in Seq(W!Chars) /\ query \in Seq(W!Chars)
      /\ Len(scheme) >= 1 /\ Len(host) >= 1 /\ Len(path) >= 1
      /\ \A k \in 1..Len(scheme) : scheme[k] \notin {58, 47, 63, 35}
      /\ \A k \in 1..Len(host) : host[k] \notin {58, 47, 63, 35}
      /\ \A p \in ports : p \in Nat /\ W!FitsIn16Bits(p) /\ ports = {p}
      /\ path[1] = 47 /\ \A k \in 1..Len(path) : path[k] \notin {63, 35}
      /\ Len(query) >= 1 => query[1] \in {63, 35}
  BY Zenon DEF UriInput
<1>2. colon \in Seq(W!Chars) /\ Len(colon) = 1 /\ colon[1] = 58
      /\ mark \in Seq(W!Chars)
  <2>1. 58 \in W!Chars /\ 47 \in W!Chars
    BY DEF W!Chars
  <2> QED BY <2>1, W!ShortTexts
<1> HIDE DEF scheme, host, path, query, ports, colon, mark
<1>3. UriTakenApart =
          (/\ W!uri_get_scheme(uri) = {scheme}
           /\ W!uri_get_host(uri) = {both}
           /\ W!uri_get_path(uri) = {path}
           /\ W!Resolved(uri, Ports) =
                  {<<host, p>> : p \in IF ports = {} THEN {Ports[scheme]} ELSE ports})
  BY Zenon DEF UriTakenApart, scheme, host, path, query, ports, colon, mark
<1>4. CASE ports = {}
  <2>1. port = <<>>
    BY <1>4
  <2>2. both = host /\ uri = scheme \o mark \o host \o path \o query
    <3>1. \A s \in Seq(W!Chars) : s \o <<>> = s
      BY W!AppendNothing
    <3>2. scheme \o mark \o host \in Seq(W!Chars)
      <4>1. scheme \o mark \in Seq(W!Chars) /\ host \in Seq(W!Chars)
        BY <1>1, <1>2
      <4> DEFINE pre == scheme \o mark
      <4> HIDE DEF pre
      <4>2. pre \o host \in Seq(W!Chars)
        BY <4>1 DEF pre
      <4> QED BY <4>2 DEF pre
    <3> DEFINE pre == scheme \o mark \o host
    <3>3. pre \o <<>> = pre
      <4>1. pre \in Seq(W!Chars)
        BY <3>2
      <4> HIDE DEF pre
      <4> QED BY <3>1, <4>1
    <3>4. uri = (pre \o port) \o path \o query
      OBVIOUS
    <3> HIDE DEF port, uri, pre
    <3>5. uri = pre \o path \o query
      BY <2>1, <3>3, <3>4
    <3>6. host \o port = host
      BY <1>1, <2>1, <3>1
    <3> QED BY <3>5, <3>6 DEF pre
  <2> HIDE DEF uri, both, port
  <2>3. W!UriPlain(scheme, host, path, query)
    <3>1. \A k \in 1..Len(host) : host[k] \notin {47, 63, 35}
      BY <1>1
    <3> QED BY <1>1, <3>1, Zenon DEF W!UriPlain
  <2>4. uri = W!UriWritten(scheme, host, path, query)
    BY <2>2, Zenon DEF W!UriWritten, mark
  <2>5. /\ W!uri_get_scheme(uri) = {scheme} /\ W!uri_get_host(uri) = {host}
        /\ W!uri_get_path(uri) = {path}
    BY <2>3, <2>4, W!UriApart
  <2>6. ~W!contains(host, <<58>>)
    <3> DEFINE c == 58
    <3>1. c \in W!Chars /\ \A i \in 1..Len(host) : host[i] # c
      BY <1>1 DEF W!Chars
    <3> HIDE DEF c
    <3>2. ~W!contains(host, <<c>>)
      BY <1>1, <3>1, W!NotContained
    <3> QED BY <3>2 DEF c
  <2>7. W!Resolved(uri, Ports) = {<<host, Ports[scheme]>>}
    <3>1. W!ComesApart(uri, scheme, host, path)
      BY <2>5, Zenon DEF W!ComesApart
    <3>2. scheme \in DOMAIN Ports
      BY <1>1
    <3>3. W!Resolves(uri, Ports, host, Ports[scheme])
      BY <2>6, <3>1, <3>2, W!ResolvedPlain, Zenon
    <3> QED BY <3>3, Zenon DEF W!Resolves
  <2>8. {<<host, p>> : p \in {Ports[scheme]}} = {<<host, Ports[scheme]>>}
    BY Zenon
  <2> QED BY <1>3, <1>4, <2>2, <2>5, <2>7, <2>8
<1>5. CASE ports # {}
  <2>1. chosen \in ports
    BY <1>5, Zenon
  <2>2. chosen \in Nat /\ W!FitsIn16Bits(chosen) /\ ports = {chosen}
    <3> HIDE DEF chosen
    <3> QED BY <1>1, <2>1
  <2>3. port = colon \o num
    BY <1>5
  <2> HIDE DEF chosen, port
  <2>4. W!NumeralOf(num, chosen, 10)
    BY <2>2, W!DecimalIs
  <2>5. W!TryParseUint16(num) = {chosen}
    BY <2>2, W!PortRead
  <2> HIDE DEF num
  <2>6. num \in Seq(W!Chars) /\ \A i \in 1..Len(num) : num[i] \notin {58, 47, 63, 35}
    <3>1. num \in Seq(W!Chars)
      BY <2>4 DEF W!NumeralOf
    <3> QED BY <2>4, <3>1, W!NumeralInUri
  <2>7. /\ port \in Seq(W!Chars) /\ Len(port) = 1 + Len(num) /\ Len(num) \in Nat /\ port[1] = 58
        /\ \A k \in 1..Len(num) : port[1 + k] = num[k]
    <3>1. colon \in Seq(W!Chars) /\ num \in Seq(W!Chars)
      BY <1>2, <2>6
    <3>2. /\ colon \o num \in Seq(W!Chars) /\ Len(colon \o num) = Len(colon) + Len(num)
          /\ Len(num) \in Nat
          /\ \A i \in 1..Len(colon) : (colon \o num)[i] = colon[i]
          /\ \A j \in 1..Len(num) : (colon \o num)[Len(colon) + j] = num[j]
      BY <3>1, W!ConcatIs
    <3>3. 1 \in 1..Len(colon)
      BY <1>2
    <3> QED BY <1>2, <2>3, <3>2, <3>3
  <2>8. /\ both \in Seq(W!Chars) /\ Len(both) = Len(host) + Len(port) /\ Len(host) \in Nat
        /\ \A i \in 1..Len(host) : both[i] = host[i]
        /\ \A j \in 1..Len(port) : both[Len(host) + j] = port[j]
    <3>1. host \in Seq(W!Chars) /\ port \in Seq(W!Chars)
      BY <1>1, <2>7
    <3> QED BY <3>1, W!ConcatIs
  <2>9. uri = W!UriWritten(scheme, both, path, query)
    <3> DEFINE pre == scheme \o mark
    <3>1. pre \in Seq(W!Chars) /\ host \in Seq(W!Chars) /\ port \in Seq(W!Chars)
      BY <1>1, <1>2, <2>7
    <3> HIDE DEF pre
    <3>2. W!Reassociates(pre, host, port)
      BY <3>1, W!Associates, Zenon
    <3>3. (pre \o host) \o port \o path \o query = pre \o both \o path \o query
      BY <3>2 DEF W!Reassociates
    <3> QED BY <3>3, Zenon DEF W!UriWritten, pre, mark
  <2> HIDE DEF uri, both
  <2>10. Len(both) = Len(host) + 1 + Len(num) /\ both[Len(host) + 1] = 58
    <3>1. 1 \in 1..Len(port)
      BY <2>7
    <3> QED BY <2>7, <2>8, <3>1
  <2>11. ASSUME NEW k \in 1..Len(num) PROVE both[Len(host) + 1 + k] = num[k]
    <3>1. 1 + k \in 1..Len(port) /\ Len(host) + 1 + k = Len(host) + (1 + k)
      BY <2>7, <2>8
    <3> QED BY <2>7, <2>8, <3>1
  <2>12. W!HostPort(both, host, num)
    <3>1. /\ \A k \in 1..Len(host) : both[k] = host[k] /\ host[k] # 58
          /\ \A k \in 1..Len(num) : both[Len(host) + 1 + k] = num[k] /\ num[k] # 58
      BY <1>1, <2>6, <2>8, <2>11
    <3> QED BY <1>1, <2>6, <2>8, <2>10, <3>1, Zenon DEF W!HostPort
  <2>13. W!split(both, 58, 0) = <<host, num>> /\ W!contains(both, <<58>>)
    BY <2>12, W!PortCut
  <2>14. ASSUME NEW k \in 1..Len(both) PROVE both[k] \notin {47, 63, 35}
    <3>1. CASE k \in 1..Len(host)
      <4>1. host[k] \notin {58, 47, 63, 35}
        BY <1>1, <3>1, Zenon
      <4>2. both[k] = host[k]
        BY <2>8, <3>1, Zenon
      <4> QED BY <4>1, <4>2
    <3>2. CASE k = Len(host) + 1
      BY <2>10, <3>2
    <3>3. CASE k > Len(host) + 1
      <4> DEFINE j == k - (Len(host) + 1)
      <4>1. j \in 1..Len(num) /\ Len(host) + 1 + j = k
        BY <2>7, <2>8, <2>10, <3>3
      <4> HIDE DEF j
      <4>2. both[k] = num[j]
        BY <2>11, <4>1
      <4> QED BY <2>6, <4>1, <4>2
    <3> QED BY <2>8, <3>1, <3>2, <3>3
  <2>15. W!UriPlain(scheme, both, path, query)
    <3>1. Len(both) >= 1
      BY <2>7, <2>8, <2>10
    <3> QED BY <1>1, <2>8, <2>14, <3>1, Zenon DEF W!UriPlain
  <2>16. /\ W!uri_get_scheme(uri) = {scheme} /\ W!uri_get_host(uri) = {both}
         /\ W!uri_get_path(uri) = {path}
    BY <2>9, <2>15, W!UriApart
  <2>17. W!Resolved(uri, Ports) = {<<host, chosen>>}
    <3>1. W!ComesApart(uri, scheme, both, path)
      BY <2>16, Zenon DEF W!ComesApart
    <3>2. scheme \in DOMAIN Ports
      BY <1>1
    <3>3. W!Resolves(uri, Ports, host, chosen)
      BY <2>5, <2>13, <3>1, <3>2, W!ResolvedPort, Zenon
    <3> QED BY <3>3, Zenon DEF W!Resolves
  <2>18. {<<host, p>> : p \in {chosen}} = {<<host, chosen>>}
    BY Zenon
  <2> QED BY <1>3, <1>5, <2>2, <2>16, <2>17, <2>18
<1> QED BY <1>4, <1>5

(* A numeric entity stands for the UTF-8 of its code, a named one for its  *)
(* value.                                                                  *)
LEMMA HtmlRight ==
    ASSUME HtmlInput(text)
    PROVE  HtmlDecoded
<1>1. text.code \in Nat /\ W!FitsIn32Bits(text.code)
  BY DEF HtmlInput
<1>2. /\ W!HtmlReadAs(<<35>> \o W!Decimal(text.code), W!Utf8(text.code), Entities)
      /\ W!HtmlReadAs(<<35, 120>> \o W!Hexadecimal(text.code), W!Utf8(text.code), Entities)
      /\ W!Utf8Shaped(W!Utf8(text.code)) /\ W!IsValidUtf8(W!Utf8(text.code))
      /\ \A name \in DOMAIN Entities : W!HtmlReadAs(name, Entities[name], Entities)
  BY <1>1, EntitiesAssumption, W!HtmlDecodes
<1> QED BY <1>2, Zenon DEF HtmlDecoded, W!HtmlReadAs

(* Every encoding of an address is decoded to it.                          *)
LEMMA UrlRight ==
    ASSUME UrlInput(text)
    PROVE  UrlDecoded
<1>1. /\ text.chars \in Seq(1..255) /\ text.forms \in Seq(Seq(W!Chars))
      /\ Len(text.forms) = Len(text.chars)
      /\ \A k \in 1..Len(text.chars) : text.forms[k] \in W!UrlForms(text.chars[k])
  BY Zenon DEF UrlInput
<1> QED BY <1>1, W!UrlDecodes DEF UrlDecoded

(* The string functions invert, bound or agree with one another, whatever  *)
(* texts they are given: url_decode undoes every encoding, html_decode     *)
(* reads every entity, split cuts as it says and a URI comes apart as it   *)
(* was made.                                                               *)
THEOREM StringsRight == Spec => []StringsAgree
<1>1. Given => StringsAgree
  <2> SUFFICES ASSUME Given PROVE StringsAgree
    OBVIOUS
  <2>1. ASSUME Input("url") PROVE UrlDecoded
    <3>1. UrlInput(text)
      BY <2>1, TextsAssumption DEF Given, Input
    <3> QED BY <3>1, UrlRight
  <2>2. ASSUME Input("html") PROVE HtmlDecoded
    <3>1. HtmlInput(text)
      BY <2>2, TextsAssumption DEF Given, Input
    <3> QED BY <3>1, HtmlRight
  <2>3. ASSUME Input("split") PROVE Splits
    <3>1. SplitInput(text)
      BY <2>3, TextsAssumption DEF Given, Input
    <3> QED BY <3>1, SplitsRight DEF SplitInput
  <2>4. ASSUME Input("uri") PROVE UriTakenApart
    <3>1. UriInput(text)
      BY <2>4, TextsAssumption DEF Given, Input
    <3> QED BY <3>1, UriRight
  <2> QED BY <2>1, <2>2, <2>3, <2>4 DEF StringsAgree
<1> QED BY <1>1, TextGiven, PTL

---------------------------------------------------------------------------
(***************************************************************************)
(* Configuration files.  The functions of Strings are the same wherever    *)
(* they are taken from; a line says what is left of it without comment and *)
(* blanks, and a key and its value are the two parts of that.              *)
(***************************************************************************)

(* A search finds the same.                                                *)
LEMMA SameFind ==
    ASSUME NEW str, NEW sub, NEW i
    PROVE  D!FindFrom(str, sub, i) = W!FindFrom(str, sub, i)
BY Zenon DEF D!FindFrom, W!FindFrom, D!Min, W!Min

(* So is trim.                                                             *)
LEMMA SameTrim == ASSUME NEW str PROVE D!trim(str) = W!trim(str)
BY Zenon DEF D!trim, W!trim, D!trim_start, W!trim_start, D!trim_end, W!trim_end,
             D!From, W!From, D!Blank, W!Blank, D!Space, W!Space,
             D!Min, W!Min, D!Max, W!Max

(* So is split.                                                            *)
LEMMA SameSplit ==
    ASSUME NEW str, NEW sep, NEW max
    PROVE  D!split(str, sep, max) = W!split(str, sep, max)
BY SameFind, Zenon DEF D!split, W!split, D!From, W!From

(* And the number of elements of a set.                                    *)
LEMMA SameCardinality == ASSUME NEW S PROVE D!Cardinality(S) = Cardinality(S)
BY Zenon DEF D!Cardinality, Cardinality

(* A line without its comment and the blanks at its ends is what it says.  *)
LEMMA CommentStripped ==
    ASSUME NEW line \in Seq(W!Chars), NEW said, D!Says(line, said)
    PROVE  D!strip_comment(line) = said
<1> DEFINE n == Len(line)
           at == W!FindFrom(line, <<35>>, 1)
<1>1. /\ said # <<>> => said[1] \notin W!Blank /\ said[Len(said)] \notin W!Blank
      /\ \A k \in 1..Len(said) : said[k] # 35
  BY DEF D!Says, D!Blank, W!Blank, D!Space, W!Space, D!Hash
<1>2. PICK i \in 1..(n + 1), j \in 0..n :
          /\ i <= j + 1 /\ said = SubSeq(line, i, j)
          /\ \A k \in 1..(i - 1) : line[k] \in W!Blank
          /\ \A k \in (j + 1)..n : line[k] \in W!Blank \/ \E h \in (j + 1)..k : line[h] = 35
  BY DEF D!Says, D!Blank, W!Blank, D!Space, W!Space, D!Hash
<1>3. n \in Nat /\ 35 \in W!Chars /\ 1 \in Nat \ {0}
  BY W!ElementsOf DEF W!Chars
<1>4. i \in Nat \ {0} /\ j \in Nat /\ j <= n /\ i <= j + 1 /\ i \in Nat
  BY <1>2, <1>3
<1> HIDE DEF n
<1>5. /\ said \in Seq(W!Chars) /\ Len(said) = j + 1 - i
      /\ \A k \in 1..(j + 1 - i) : said[k] = line[i + k - 1] /\ i + k - 1 \in i..j
  BY <1>2, <1>4, W!PieceIs DEF n
<1>6. W!FoundAt(at, line, 35, 1)
  <2> DEFINE c == 35
  <2>1. c \in W!Chars
    BY <1>3
  <2> HIDE DEF c
  <2>2. W!FoundAt(W!FindFrom(line, <<c>>, 1), line, c, 1)
    BY <1>3, <2>1, W!FindIs
  <2> QED BY <2>2 DEF c
<1> HIDE DEF at
<1>7. \A k \in i..j : line[k] # 35
  <2>1. ASSUME NEW k \in i..j PROVE line[k] # 35
    <3> DEFINE l == k - i + 1
    <3>1. l \in 1..(j + 1 - i) /\ i + l - 1 = k
      BY <1>4
    <3> HIDE DEF l
    <3> QED BY <1>1, <1>5, <3>1
  <2> QED BY <2>1
<1>8. \A k \in 1..(i - 1) : line[k] # 35
  BY <1>2 DEF W!Blank, W!Space
<1>9. i <= j => line[i] \notin W!Blank /\ line[j] \notin W!Blank
  <2> SUFFICES ASSUME i <= j PROVE line[i] \notin W!Blank /\ line[j] \notin W!Blank
    OBVIOUS
  <2> DEFINE m == j + 1 - i
  <2>1. /\ 1 \in 1..m /\ m \in 1..m /\ i + 1 - 1 = i /\ i + m - 1 = j
    BY <1>4
  <2>2. said # <<>>
    BY <1>5, <2>1
  <2> HIDE DEF m
  <2>3. said[1] = line[i] /\ said[m] = line[j] /\ Len(said) = m
    BY <1>5, <2>1 DEF m
  <2> QED BY <1>1, <2>2, <2>3
<1> DEFINE e == IF at = 0 THEN n ELSE at - 1
           x == IF at = 0 THEN line ELSE SubSeq(line, 1, at - 1)
<1>10. at = 0 \/ (at \in 1..n /\ line[at] = 35)
  BY <1>6 DEF W!FoundAt, n
<1>11. j <= e /\ e \in 0..n
  <2>1. at # 0 => ~(at \in i..j) /\ ~(at \in 1..(i - 1))
    BY <1>7, <1>8, <1>10
  <2> QED BY <1>3, <1>4, <1>10, <2>1
<1>12. \A k \in 1..e : line[k] # 35
  <2>1. CASE at = 0
    <3>1. \A k \in 1..n : line[k] # 35
      BY <1>6, <1>10, <2>1 DEF W!FoundAt, n
    <3> QED BY <2>1, <3>1
  <2>2. CASE at # 0
    <3>1. \A k \in 1..(at - 1) : line[k] # 35
      BY <1>6, <2>2 DEF W!FoundAt
    <3> QED BY <2>2, <3>1
  <2> QED BY <2>1, <2>2
<1>13. /\ x \in Seq(W!Chars) /\ Len(x) = e
       /\ \A k \in 1..e : x[k] = line[k]
  <2>1. CASE at = 0
    BY <2>1 DEF n
  <2>2. CASE at # 0
    <3>1. e \in Nat /\ e <= Len(line) /\ 1 <= e + 1 /\ e + 1 - 1 = e /\ \A k \in 1..e : 1 + k - 1 = k
      BY <1>3, <1>11 DEF n
    <3>2. x = SubSeq(line, 1, e)
      BY <2>2
    <3> HIDE DEF e, x
    <3>3. /\ SubSeq(line, 1, e) \in Seq(W!Chars) /\ Len(SubSeq(line, 1, e)) = e + 1 - 1
          /\ \A k \in 1..(e + 1 - 1) :
                 SubSeq(line, 1, e)[k] = line[1 + k - 1] /\ 1 + k - 1 \in 1..e
      BY <1>3, <3>1, W!PieceIs
    <3> QED BY <3>1, <3>2, <3>3
  <2> QED BY <2>1, <2>2
<1> HIDE DEF x, e
<1>14. \A k \in 1..(i - 1) : x[k] \in W!Blank
  <2>1. \A k \in 1..(i - 1) : k \in 1..e
    BY <1>4, <1>11, <1>3
  <2> QED BY <1>2, <1>13, <2>1
<1>15. \A k \in (j + 1)..Len(x) : x[k] \in W!Blank
  <2>1. ASSUME NEW k \in (j + 1)..e PROVE x[k] \in W!Blank
    <3>1. k \in 1..e /\ k \in (j + 1)..n /\ \A h \in (j + 1)..k : h \in 1..e
      BY <1>3, <1>4, <1>11
    <3>2. line[k] \in W!Blank
      BY <1>2, <1>12, <3>1
    <3> QED BY <1>13, <3>1, <3>2
  <2> QED BY <1>13, <2>1
<1>16. i <= j => x[i] \notin W!Blank /\ x[j] \notin W!Blank
  <2>1. i <= j => i \in 1..e /\ j \in 1..e
    BY <1>3, <1>4, <1>11
  <2> QED BY <1>9, <1>13, <2>1
<1>17. W!trim(x) = SubSeq(x, i, j)
  <2>1. j <= Len(x)
    BY <1>11, <1>13
  <2> QED BY <1>4, <1>13, <1>14, <1>15, <1>16, <2>1, W!TrimIs
<1>18. SubSeq(x, i, j) = said
  <2> DEFINE y == SubSeq(x, i, j)
  <2>1. /\ y \in Seq(W!Chars) /\ Len(y) = j + 1 - i
        /\ \A k \in 1..(j + 1 - i) : y[k] = x[i + k - 1] /\ i + k - 1 \in i..j
    <3>1. j <= Len(x)
      BY <1>11, <1>13
    <3> QED BY <1>4, <1>13, <3>1, W!PieceIs
  <2>2. \A k \in i..j : k \in 1..e
    BY <1>3, <1>4, <1>11
  <2> HIDE DEF y
  <2>3. \A k \in 1..Len(y) : y[k] = said[k]
    BY <1>5, <1>13, <2>1, <2>2
  <2>4. y = said
    BY <1>5, <2>1, <2>3, W!SeqEqual
  <2> QED BY <2>4 DEF y
<1>19. D!strip_comment(line) = W!trim(x)
  BY SameFind, SameTrim DEF D!strip_comment, D!Hash, x, at
<1> QED BY <1>17, <1>18, <1>19

\* The line of a field, and its parts.
FieldLine(key, value) == key \o << 32 >> \o value
FieldParts(parts, key, value) == Len(parts) = 2 /\ parts[1] = key /\ parts[2] = value

(* A key without a space and its value are the two parts of their line.    *)
LEMMA FieldFound ==
    ASSUME NEW key \in Seq(W!Chars), NEW value \in Seq(W!Chars),
           \A k \in 1..Len(key) : key[k] # 32
    PROVE  FieldParts(W!split(FieldLine(key, value), 32, 2), key, value)
<1> DEFINE said == FieldLine(key, value)
<1>0. said = key \o <<32>> \o value
  BY DEF FieldLine
<1> HIDE DEF said
<1> DEFINE c == 32
           space == <<c>>
           head == key \o space
           l == Len(key)
           m == Len(value)
           e == W!FindFrom(said, <<c>>, 1)
<1>1. c \in W!Chars /\ l \in Nat /\ m \in Nat
  BY W!ElementsOf DEF W!Chars
<1>2. \A k \in 1..l : key[k] # c
  OBVIOUS
<1>3. said = head \o value
  BY <1>0
<1> HIDE DEF c
<1>4. Len(space) = 1 /\ space[1] = c
  OBVIOUS
<1>13. key \in Seq(W!Chars) /\ space \in Seq(W!Chars)
  BY <1>1
<1> HIDE DEF space
<1>5. /\ head \in Seq(W!Chars) /\ Len(head) = l + 1
      /\ \A k \in 1..l : head[k] = key[k]
      /\ head[l + 1] = c
  <2>1. /\ key \o space \in Seq(W!Chars) /\ Len(key \o space) = Len(key) + Len(space)
        /\ \A k \in 1..Len(key) : (key \o space)[k] = key[k]
        /\ \A k \in 1..Len(space) : (key \o space)[Len(key) + k] = space[k]
    BY <1>13, W!ConcatIs
  <2>2. 1 \in 1..Len(space)
    BY <1>4
  <2> HIDE DEF head, l
  <2>3. head = key \o space /\ l = Len(key)
    BY DEF head, l
  <2> QED BY <1>1, <1>4, <2>1, <2>2, <2>3
<1> HIDE DEF head
<1>6. /\ said \in Seq(W!Chars) /\ Len(said) = l + 1 + m
      /\ \A k \in 1..(l + 1) : said[k] = head[k]
      /\ \A k \in 1..m : said[l + 1 + k] = value[k]
  <2>1. /\ head \o value \in Seq(W!Chars) /\ Len(head \o value) = Len(head) + Len(value)
        /\ \A k \in 1..Len(head) : (head \o value)[k] = head[k]
        /\ \A k \in 1..Len(value) : (head \o value)[Len(head) + k] = value[k]
    <3>1. head \in Seq(W!Chars) /\ value \in Seq(W!Chars)
      BY <1>5
    <3> HIDE DEF l, m
    <3> QED BY <3>1, W!ConcatIs
  <2> QED BY <1>3, <1>5, <2>1
<1>7. e = l + 1
  <2>1. 1 \in Nat \ {0}
    OBVIOUS
  <2>2. W!FoundAt(e, said, c, 1)
    BY <1>1, <1>6, <2>1, W!FindIs
  <2> HIDE DEF e
  <2> DEFINE f == l + 1
  <2>3. W!FoundAt(f, said, c, 1)
    <3>1. f \in 1..Len(said) /\ said[f] = c
      BY <1>1, <1>5, <1>6
    <3>2. \A k \in 1..(f - 1) : k \in 1..l /\ k \in 1..(l + 1)
      BY <1>1
    <3>3. \A k \in 1..(f - 1) : said[k] # c
      <4> HIDE DEF f
      <4> QED BY <1>2, <1>5, <1>6, <3>2
    <3> HIDE DEF f
    <3> QED BY <3>1, <3>3 DEF W!FoundAt
  <2> HIDE DEF f
  <2>4. Len(said) \in Nat
    BY <1>6, W!ElementsOf
  <2>5. e = f
    BY <2>1, <2>2, <2>3, <2>4, W!FoundOnce
  <2> QED BY <2>5 DEF f
<1>12. said \in Seq(W!Chars) /\ c \in W!Chars /\ e = W!FindFrom(said, <<c>>, 1)
  BY <1>1, <1>6
<1> HIDE DEF e
<1>8. W!CutInTwo(W!split(said, c, 2), said, e)
  BY <1>12, W!SplitInTwo, Zenon
<1>9. SubSeq(said, 1, e - 1) = key
  <2> DEFINE at == 0
  <2>1. /\ at \in Nat /\ at + Len(key) <= Len(said) /\ at + Len(key) = e - 1 /\ at + 1 = 1
        /\ \A k \in 1..Len(key) : at + k = k /\ k \in 1..(l + 1)
    BY <1>1, <1>6, <1>7
  <2>2. \A k \in 1..Len(key) : said[at + k] = key[k]
    <3> HIDE DEF at
    <3> QED BY <1>5, <1>6, <2>1
  <2> HIDE DEF at, l, m
  <2>3. SubSeq(said, at + 1, at + Len(key)) = key
    BY <1>6, <2>1, <2>2, W!PieceEqual
  <2> QED BY <2>1, <2>3
<1>10. W!From(said, e + 1) = value
  <2> DEFINE at == l + 1
  <2>1. at \in Nat /\ at + Len(value) <= Len(said) /\ at + Len(value) = Len(said) /\ at + 1 = e + 1
    BY <1>1, <1>6, <1>7
  <2>2. \A k \in 1..Len(value) : said[at + k] = value[k]
    BY <1>6
  <2> HIDE DEF at, l, m
  <2>3. SubSeq(said, at + 1, at + Len(value)) = value
    BY <1>6, <2>1, <2>2, W!PieceEqual
  <2> QED BY <2>1, <2>3 DEF W!From
<1>11. e # 0
  BY <1>1, <1>7
<1>14. /\ Len(W!split(said, c, 2)) = 2
       /\ W!split(said, c, 2)[1] = key /\ W!split(said, c, 2)[2] = value
  BY <1>8, <1>9, <1>10, <1>11 DEF W!CutInTwo
<1> QED BY <1>14 DEF c, said, FieldParts

(* A line whose first part is the key begins with the key and a space.     *)
LEMMA FieldNamed ==
    ASSUME NEW key \in Seq(W!Chars), NEW said \in Seq(W!Chars),
           Len(W!split(said, 32, 2)) = 2, W!split(said, 32, 2)[1] = key
    PROVE  D!starts_with(said, key \o << 32 >>)
<1> DEFINE c == 32
           space == <<c>>
           head == key \o space
           l == Len(key)
           n == Len(said)
           e == W!FindFrom(said, <<c>>, 1)
<1>1. c \in W!Chars /\ l \in Nat /\ n \in Nat /\ 1 \in Nat \ {0}
  BY W!ElementsOf DEF W!Chars
<1>2. Len(W!split(said, c, 2)) = 2 /\ W!split(said, c, 2)[1] = key
  OBVIOUS
<1> HIDE DEF c
<1>3. Len(space) = 1 /\ space[1] = c
  OBVIOUS
<1>13. key \in Seq(W!Chars) /\ space \in Seq(W!Chars)
  BY <1>1
<1> HIDE DEF space
<1>4. /\ head \in Seq(W!Chars) /\ Len(head) = l + 1
      /\ \A k \in 1..l : head[k] = key[k]
      /\ head[l + 1] = c
  <2>1. /\ key \o space \in Seq(W!Chars) /\ Len(key \o space) = Len(key) + Len(space)
        /\ \A k \in 1..Len(key) : (key \o space)[k] = key[k]
        /\ \A k \in 1..Len(space) : (key \o space)[Len(key) + k] = space[k]
    BY <1>13, W!ConcatIs
  <2>2. 1 \in 1..Len(space)
    BY <1>3
  <2> HIDE DEF head, l
  <2>3. head = key \o space /\ l = Len(key)
    BY DEF head, l
  <2> QED BY <1>1, <1>3, <2>1, <2>2, <2>3
<1>5. W!FoundAt(e, said, c, 1)
  BY <1>1, W!FindIs
<1>12. said \in Seq(W!Chars) /\ c \in W!Chars /\ e = W!FindFrom(said, <<c>>, 1)
  BY <1>1
<1> HIDE DEF e, head
<1>6. W!CutInTwo(W!split(said, c, 2), said, e)
  BY <1>12, W!SplitInTwo, Zenon
<1>7. e \in 1..n /\ said[e] = c /\ key = SubSeq(said, 1, e - 1)
  <2>1. e # 0 /\ key = SubSeq(said, 1, e - 1)
    <3> DEFINE parts == W!split(said, c, 2)
    <3>1. Len(parts) = 2 /\ parts[1] = key
      BY <1>2
    <3>2. W!CutInTwo(parts, said, e)
      BY <1>6
    <3> HIDE DEF parts
    <3> QED BY <3>1, <3>2 DEF W!CutInTwo
  <2> QED BY <1>5, <2>1 DEF W!FoundAt
<1>8. l = e - 1 /\ \A k \in 1..l : key[k] = said[k]
  <2> DEFINE i == 1
             j == e - 1
  <2>1. said \in Seq(W!Chars) /\ i \in Nat \ {0} /\ j \in Nat /\ j <= Len(said) /\ i <= j + 1
    BY <1>1, <1>7
  <2>4. j + 1 - i = e - 1 /\ \A k \in 1..(e - 1) : i + k - 1 = k
    BY <1>1, <1>7
  <2>2. key = SubSeq(said, i, j)
    BY <1>7
  <2> HIDE DEF i, j
  <2>3. /\ SubSeq(said, i, j) \in Seq(W!Chars) /\ Len(SubSeq(said, i, j)) = j + 1 - i
        /\ \A k \in 1..(j + 1 - i) :
               SubSeq(said, i, j)[k] = said[i + k - 1] /\ i + k - 1 \in i..j
    BY <2>1, W!PieceIs
  <2> QED BY <2>2, <2>3, <2>4
<1>9. SubSeq(said, 1, Len(head)) = head
  <2> DEFINE at == 0
  <2>1. /\ at \in Nat /\ at + Len(head) <= Len(said) /\ at + Len(head) = Len(head) /\ at + 1 = 1
        /\ \A k \in 1..Len(head) : at + k = k
    BY <1>1, <1>4, <1>7, <1>8
  <2>2. ASSUME NEW k \in 1..Len(head) PROVE said[at + k] = head[k]
    <3>1. k \in 1..l \/ k = l + 1
      BY <1>1, <1>4
    <3>2. l + 1 = e /\ at + k = k
      BY <1>1, <1>7, <1>8, <2>1
    <3> HIDE DEF at
    <3> QED BY <1>4, <1>7, <1>8, <3>1, <3>2
  <2> HIDE DEF at
  <2>3. SubSeq(said, at + 1, at + Len(head)) = head
    BY <1>4, <2>1, <2>2, W!PieceEqual
  <2> QED BY <2>1, <2>3
<1>10. SubSeq(head, 1, Len(head)) = head /\ Len(head) <= Len(said)
  <2>1. SubSeq(head, 1, Len(head)) = head
    BY <1>4, W!WholePiece
  <2> QED BY <1>1, <1>4, <1>7, <1>8, <2>1
<1>11. D!starts_with(said, head)
  BY <1>9, <1>10, Zenon DEF D!starts_with, D!IsPrefix
<1> QED BY <1>11 DEF head, space, c

\* The line of each field is at its place, and no other line begins with its
\* key, nor any with that of another that is looked for: found are the two
\* parts of each line, place the lines of the fields.
Placed(lines, n, found, place, config, Keys, Sought) ==
    /\ Keys \subseteq Sought
    /\ \A j \in 1..n : Len(found[j]) = 2 /\ found[j][1] \in Sought => found[j][1] \in Keys
    /\ n \in Nat /\ n > 0 /\ DOMAIN lines = 1..n /\ lines # <<>>
    /\ \A i \in 1..n : D!split(D!strip_comment(lines[i]), D!Space, 2) = found[i]
    /\ config = [k \in Keys |-> config[k]]
    /\ \A k \in Keys :
        /\ place[k] \in 1..n /\ FieldParts(found[place[k]], k, config[k])
        /\ \A j \in 1..n : Len(found[j]) = 2 /\ found[j][1] = k => j = place[k]

(* The fields of such a file are those of the configuration, none twice.   *)
LEMMA FieldsRead ==
    ASSUME NEW lines, NEW n, NEW found, NEW place, NEW config, NEW Keys, NEW Sought,
           Placed(lines, n, found, place, config, Keys, Sought)
    PROVE  D!read_file(lines, Sought) = {config}
<1>a. /\ n \in Nat /\ n > 0 /\ DOMAIN lines = 1..n /\ lines # <<>>
      /\ config = [k \in Keys |-> config[k]]
  BY Zenon DEF Placed
<1>b. \A k \in Keys : /\ place[k] \in 1..n
                      /\ Len(found[place[k]]) = 2
                      /\ found[place[k]][1] = k /\ found[place[k]][2] = config[k]
                      /\ \A j \in 1..n : Len(found[j]) = 2 /\ found[j][1] = k => j = place[k]
  BY Zenon DEF Placed, FieldParts
<1> DEFINE raw(i) == D!split(D!strip_comment(lines[i]), D!Space, 2)
           rawLead == {i \in DOMAIN lines : Len(raw(i)) = 2 /\ raw(i)[1] \in Sought}
           rawKeys == {raw(i)[1] : i \in rawLead}
           lead == {i \in 1..n : Len(found[i]) = 2 /\ found[i][1] \in Keys}
           keys == {found[i][1] : i \in lead}
           field(k) == CHOOSE i \in rawLead : raw(i)[1] = k
<1>1. D!read_file(lines, Sought) =
          IF lines = <<>> \/ D!Cardinality(rawKeys) # D!Cardinality(rawLead) THEN {}
          ELSE {[k \in rawKeys |-> raw(field(k))[2]]}
  BY Zenon DEF D!read_file
<1>2. \A i \in 1..n : raw(i) = found[i]
  BY DEF Placed
<1> HIDE DEF raw
<1>c. /\ Keys \subseteq Sought
      /\ \A j \in 1..n : Len(found[j]) = 2 /\ found[j][1] \in Sought => found[j][1] \in Keys
  BY Zenon DEF Placed
<1>3. rawLead = lead /\ rawKeys = keys
  <2>1. rawLead = lead
    BY <1>2, <1>a, <1>c
  <2> HIDE DEF rawLead, lead
  <2>2. \A i \in lead : raw(i) = found[i]
    BY <1>2 DEF lead
  <2> QED BY <2>1, <2>2
<1>4. \A k \in Keys : /\ place[k] \in lead /\ found[place[k]][1] = k /\ found[place[k]][2] = config[k]
                      /\ \A j \in lead : found[j][1] = k => j = place[k]
  BY <1>b
<1>5. keys = Keys
  BY <1>4
<1>6. Cardinality(keys) = Cardinality(lead)
  <2> DEFINE f == [i \in lead |-> found[i][1]]
  <2>1. IsFiniteSet(lead)
    <3>1. IsFiniteSet(1..n) /\ lead \subseteq 1..n
      BY <1>a, FS_Interval
    <3> HIDE DEF lead
    <3> QED BY <3>1, FS_Subset
  <2>2. f \in Injection(lead, keys)
    <3>1. f \in [lead -> keys]
      OBVIOUS
    <3>2. ASSUME NEW i \in lead, NEW j \in lead, f[i] = f[j] PROVE i = j
      <4>1. found[i][1] \in Keys /\ found[j][1] = found[i][1]
        BY <3>2
      <4> HIDE DEF lead
      <4> QED BY <1>4, <4>1
    <3> QED BY <3>1, <3>2 DEF Injection, IsInjective
  <2>3. f \in Surjection(lead, keys)
    BY DEF Surjection
  <2>4. ExistsBijection(lead, keys)
    <3> HIDE DEF f, lead, keys
    <3> QED BY <2>2, <2>3 DEF ExistsBijection, Bijection
  <2> HIDE DEF lead, keys
  <2> QED BY <2>1, <2>4, FS_Bijection
<1>7. \A k \in Keys : field(k) = place[k]
  <2>1. ASSUME NEW k \in Keys PROVE field(k) = place[k]
    <3>1. place[k] \in rawLead /\ raw(place[k])[1] = k
      BY <1>2, <1>3, <1>4
    <3>2. \A i \in rawLead : raw(i)[1] = k => i = place[k]
      BY <1>2, <1>3, <1>4
    <3> HIDE DEF rawLead
    <3> QED BY <3>1, <3>2
  <2> QED BY <2>1
<1>8. \A k \in Keys : raw(place[k])[2] = config[k]
  <2>1. \A k \in Keys : place[k] \in 1..n
    BY <1>b
  <2> QED BY <1>2, <1>4, <2>1
<1> HIDE DEF field, rawLead, rawKeys, lead, keys
<1>9. [k \in rawKeys |-> raw(field(k))[2]] = config
  BY <1>a, <1>3, <1>5, <1>7, <1>8
<1>10. D!Cardinality(rawKeys) = D!Cardinality(rawLead)
  BY <1>3, <1>6, SameCardinality
<1> QED BY <1>a, <1>1, <1>9, <1>10

(* Numbers are read the same.                                              *)
LEMMA SameNumber ==
    ASSUME NEW digits, NEW base
    PROVE  D!Number(digits, base) = W!Number(digits, base)
BY Zenon DEF D!Number, W!Number, D!FoldLeft, W!FoldLeft, D!MapThenFoldSet, W!MapThenFoldSet,
             D!Max, W!Max, D!Value, W!Value, D!Digit, W!Digit

LEMMA SameDigits ==
    ASSUME NEW str, NEW base
    PROVE  D!Digits(str, base) = W!Digits(str, base)
BY Zenon DEF D!Digits, W!Digits, D!Min, W!Min, D!Value, W!Value, D!Digit, W!Digit

LEMMA SameRead ==
    ASSUME NEW str, NEW bits
    PROVE  D!UnsignedRead(str, bits) = W!UnsignedRead(str, bits)
<1>1. D!trim_start(str) = W!trim_start(str)
  <2>1. \A S : D!Min(S) = W!Min(S)
    BY Zenon DEF D!Min, W!Min
  <2>2. D!Blank = W!Blank /\ \A i : D!From(str, i) = W!From(str, i)
    BY Zenon DEF D!Blank, W!Blank, D!Space, W!Space, D!From, W!From
  <2> QED BY <2>1, <2>2 DEF D!trim_start, W!trim_start
<1>2. \A n : D!FitsIn(n, bits) = W!FitsIn(n, bits)
  BY DEF D!FitsIn, W!FitsIn, D!FitsIn16Bits, W!FitsIn16Bits, D!FitsIn32Bits, W!FitsIn32Bits
<1>3. /\ D!Largest(bits) = W!Largest(bits)
      /\ \A n : D!Negated(n, bits) = W!Negated(n, bits)
  <2>1. D!Largest(bits) = W!Largest(bits)
    BY DEF D!Largest, W!Largest
  <2> QED BY <2>1 DEF D!Negated, W!Negated
<1>4. D!Plus = W!Plus /\ D!Minus = W!Minus /\ \A s : D!From(s, 2) = W!From(s, 2)
  BY Zenon DEF D!Plus, W!Plus, D!Minus, W!Minus, D!From, W!From
<1> QED BY <1>1, <1>2, <1>3, <1>4, SameNumber, SameDigits DEF D!UnsignedRead, W!UnsignedRead

\* What is in a field, empty if it is missing, and what is read from it.
FieldText(config, k) == IF k \in DOMAIN config THEN config[k] ELSE <<>>
FieldRead(config, i) == D!UnsignedRead(FieldText(config, NumberFields[i].key), NumberFields[i].bits)
RefusedNumbers(config) == {i \in DOMAIN NumberFields : ~FieldRead(config, i).ok}

\* What load_from_file leaves of the fields that were read.
LoadedFrom(loaded, config) ==
    /\ loaded.ok = (RefusedNumbers(config) = {})
    /\ \A k \in DOMAIN Defaults :
          (\A i \in DOMAIN NumberFields : NumberFields[i].key # k) =>
              loaded.config[k] = FieldText(config, k)
    /\ \A i \in DOMAIN NumberFields :
          loaded.config[NumberFields[i].key] =
              IF (\A r \in RefusedNumbers(config) : i <= r) /\ FieldRead(config, i).stored # {}
                 THEN CHOOSE n \in FieldRead(config, i).stored : TRUE
                 ELSE Defaults[NumberFields[i].key]

(* A configuration whose fields are read, is loaded from them.             *)
LEMMA FieldsLoaded ==
    ASSUME NEW lines, NEW config, D!read_file(lines, DOMAIN Defaults) = {config}
    PROVE  LoadedFrom(D!load_from_file(lines, Defaults, NumberFields), config)
<1> DEFINE fields == D!read_file(lines, DOMAIN Defaults)
           field(k) == LET f == CHOOSE f \in fields : TRUE
                       IN IF k \in DOMAIN f THEN f[k] ELSE <<>>
           read(i) == D!UnsignedRead(field(NumberFields[i].key), NumberFields[i].bits)
           refused == {i \in DOMAIN NumberFields : ~read(i).ok}
           upTo(k) == {j \in DOMAIN NumberFields :
                          NumberFields[j].key = k /\ \A r \in refused : j <= r}
           stored(k) == UNION {read(i).stored : i \in upTo(k)}
           made == [k \in DOMAIN Defaults |->
                       IF \A i \in DOMAIN NumberFields : NumberFields[i].key # k THEN field(k)
                       ELSE IF stored(k) = {} THEN Defaults[k] ELSE CHOOSE n \in stored(k) : TRUE]
           loaded == D!load_from_file(lines, Defaults, NumberFields)
<1>1. loaded = IF fields = {} THEN [ok |-> FALSE, config |-> Defaults]
               ELSE [ok |-> refused = {}, config |-> made]
  BY Zenon DEF D!load_from_file
<1>2. \A k : field(k) = FieldText(config, k)
  <2>1. (CHOOSE f \in fields : TRUE) = config
    OBVIOUS
  <2> QED BY <2>1 DEF FieldText
<1>3. fields # {}
  OBVIOUS
<1> HIDE DEF fields, field
<1>4. \A i : read(i) = FieldRead(config, i)
  BY <1>2 DEF FieldRead
<1> HIDE DEF read
<1>5. refused = RefusedNumbers(config)
  BY <1>4 DEF RefusedNumbers
<1> HIDE DEF made
<1>6. loaded.ok = (refused = {}) /\ loaded.config = made
  <2> HIDE DEF loaded, refused
  <2> QED BY <1>1, <1>3
<1> HIDE DEF refused
<1>7. ASSUME NEW k \in DOMAIN Defaults, \A i \in DOMAIN NumberFields : NumberFields[i].key # k
      PROVE  made[k] = FieldText(config, k)
  BY <1>2, <1>7 DEF made
<1>8. ASSUME NEW i \in DOMAIN NumberFields
      PROVE  made[NumberFields[i].key] =
                 IF (\A r \in RefusedNumbers(config) : i <= r) /\ FieldRead(config, i).stored # {}
                    THEN CHOOSE n \in FieldRead(config, i).stored : TRUE
                    ELSE Defaults[NumberFields[i].key]
  <2> DEFINE k == NumberFields[i].key
  <2>1. k \in DOMAIN Defaults /\ \A j \in DOMAIN NumberFields : NumberFields[j].key = k => j = i
    <3> DEFINE F == [key : DOMAIN Defaults, bits : {16, 32}]
    <3>1. NumberFields \in Seq(F)
      BY ConfigAssumption
    <3> HIDE DEF F
    <3>2. DOMAIN NumberFields = 1..Len(NumberFields) /\ NumberFields[i] \in F
      BY <3>1
    <3>3. NumberFields[i].key \in DOMAIN Defaults
      BY <3>2 DEF F
    <3> QED BY <3>2, <3>3, ConfigAssumption, Zenon
  <2>2. upTo(k) = IF \A r \in refused : i <= r THEN {i} ELSE {}
    BY <2>1
  <2> HIDE DEF upTo
  <2>3. stored(k) = IF \A r \in refused : i <= r THEN read(i).stored ELSE {}
    <3>1. UNION {read(j).stored : j \in {i}} = read(i).stored
      OBVIOUS
    <3>2. UNION {read(j).stored : j \in {}} = {}
      OBVIOUS
    <3> QED BY <2>2, <3>1, <3>2
  <2> HIDE DEF stored
  <2>4. made[k] = IF stored(k) = {} THEN Defaults[k] ELSE CHOOSE n \in stored(k) : TRUE
    BY <2>1 DEF made
  <2> HIDE DEF k
  <2>5. made[k] = IF (\A r \in refused : i <= r) /\ read(i).stored # {}
                     THEN CHOOSE n \in read(i).stored : TRUE ELSE Defaults[k]
    BY <2>3, <2>4
  <2> QED BY <1>4, <1>5, <2>5 DEF k
<1> HIDE DEF loaded
<1> QED BY <1>5, <1>6, <1>7, <1>8 DEF LoadedFrom, loaded

(* A number is read as it was written.                                     *)
LEMMA NumberRead ==
    ASSUME NEW num, NumberInput(num), NEW bits
    PROVE  /\ D!UnsignedRead(NumberText(num), bits).ok = IsNumber(num, bits)
           /\ D!UnsignedRead(NumberText(num), bits).stored = {Meant(num, bits)}
<1> DEFINE n == CHOOSE m \in num.value : TRUE
           digits == IF num.value = {} THEN <<>> ELSE W!Decimal(n)
           str == num.blanks \o (num.sign \o (digits \o num.tail))
<1>1. /\ num.blanks \in Seq(W!Chars) /\ \A k \in 1..Len(num.blanks) : num.blanks[k] \in W!Blank
      /\ num.sign \in {<<>>, <<43>>, <<45>>}
      /\ \A m \in num.value : m \in Nat /\ num.value = {m}
      /\ num.tail \in Seq(W!Chars) /\ (Len(num.tail) >= 1 => num.tail[1] \notin 48..57)
      /\ num.value = {} /\ num.sign = <<>> =>
             Len(num.tail) >= 1 /\ num.tail[1] \notin W!Blank \cup {43, 45}
  BY Zenon DEF NumberInput
<1>2. num.value # {} => n \in Nat /\ num.value = {n} /\ W!NumeralOf(W!Decimal(n), n, 10)
  BY <1>1, W!DecimalIs
<1> HIDE DEF n
<1>3. /\ digits \in Seq(W!Chars) /\ \A i \in 1..Len(digits) : W!Value(digits[i]) < 10
      /\ num.value # {} => digits # <<>> /\ W!Number(digits, 10) = n
      /\ num.value = {} => digits = <<>>
  <2>1. CASE num.value = {}
    <3>1. <<>> \in Seq(W!Chars) /\ Len(<<>>) = 0
      OBVIOUS
    <3>2. digits = <<>>
      BY <2>1
    <3> HIDE DEF digits
    <3> QED BY <2>1, <3>1, <3>2
  <2>2. CASE num.value # {}
    <3>1. digits = W!Decimal(n)
      BY <2>2
    <3> HIDE DEF digits
    <3>2. /\ digits \in Seq(W!Chars) /\ Len(digits) >= 1 /\ W!Number(digits, 10) = n
          /\ \A i \in 1..Len(digits) : W!Value(digits[i]) < 10
      BY <1>2, <2>2, <3>1 DEF W!NumeralOf
    <3>3. digits # <<>>
      BY <3>2
    <3> QED BY <2>2, <3>2, <3>3
  <2> QED BY <2>1, <2>2
<1>4. Len(num.tail) >= 1 => W!Value(num.tail[1]) >= 10
  <2> SUFFICES ASSUME Len(num.tail) >= 1 PROVE W!Value(num.tail[1]) >= 10
    OBVIOUS
  <2> DEFINE c == num.tail[1]
  <2>1. c \in W!Chars /\ c \notin 48..57
    <3>1. 1 \in 1..Len(num.tail)
      BY <1>1
    <3> HIDE DEF W!Chars
    <3> QED BY <1>1, <3>1
  <2> HIDE DEF c
  <2>2. W!Value(c) >= 10
    BY <2>1 DEF W!Value, W!Digit, W!Chars
  <2> QED BY <2>2 DEF c
<1>5. NumberText(num) = str
  BY Zenon DEF NumberText, n
<1> HIDE DEF digits
<1>6. W!ReadAs(str, num.sign, digits, num.tail, bits)
  <2>1. num.sign = <<>> /\ digits = <<>> =>
            Len(num.tail) >= 1 /\ num.tail[1] \notin W!Blank \cup {43, 45}
    BY <1>1, <1>3
  <2> QED BY <1>1, <1>3, <1>4, <2>1, W!NumberReads, Zenon
<1> HIDE DEF str
<1>7. /\ D!UnsignedRead(str, bits).ok =
             (digits # <<>> /\ num.tail = <<>> /\ W!FitsIn(W!Number(digits, 10), bits))
      /\ D!UnsignedRead(str, bits).stored = {W!StoredAs(num.sign, digits, bits)}
  BY <1>6, SameRead DEF W!ReadAs
<1>8. (digits # <<>> /\ num.tail = <<>> /\ W!FitsIn(W!Number(digits, 10), bits))
      = IsNumber(num, bits)
  <2>1. CASE num.value = {}
    BY <1>3, <2>1 DEF IsNumber
  <2>2. CASE num.value # {}
    BY <1>2, <1>3, <2>2 DEF IsNumber
  <2> QED BY <2>1, <2>2
<1>9. W!StoredAs(num.sign, digits, bits) = Meant(num, bits)
  <2>1. CASE num.value = {}
    BY <1>3, <2>1 DEF W!StoredAs, Meant
  <2>2. CASE num.value # {}
    <3>1. n \in Nat /\ digits # <<>> /\ W!Number(digits, 10) = n
      BY <1>2, <1>3, <2>2
    <3>2. Meant(num, bits) = IF ~W!FitsIn(n, bits) THEN W!Largest(bits)
                             ELSE IF num.sign = <<45>> /\ n > 0 THEN (W!Largest(bits) - n) + 1 ELSE n
      BY <2>2 DEF Meant, n
    <3>3. W!StoredAs(num.sign, digits, bits) =
              IF ~W!FitsIn(n, bits) THEN W!Largest(bits)
              ELSE IF num.sign = <<45>> THEN W!Negated(n, bits) ELSE n
      BY <3>1, Zenon DEF W!StoredAs
    <3>4. n = 0 => W!Negated(n, bits) = n
      BY DEF W!Negated
    <3>5. n # 0 => W!Negated(n, bits) = (W!Largest(bits) - n) + 1
      BY Zenon DEF W!Negated
    <3>6. n > 0 <=> n # 0
      BY <3>1
    <3> DEFINE negated == W!Negated(n, bits)
               fromEnd == (W!Largest(bits) - n) + 1
               stored == W!StoredAs(num.sign, digits, bits)
               meant == Meant(num, bits)
    <3>7. n # 0 => negated = fromEnd
      BY <3>5
    <3>8. n = 0 => negated = n
      BY <3>4
    <3> HIDE DEF negated, fromEnd, stored, meant
    <3>9. meant = IF ~W!FitsIn(n, bits) THEN W!Largest(bits)
                  ELSE IF num.sign = <<45>> /\ n # 0 THEN fromEnd ELSE n
      BY <3>2, <3>6 DEF meant, fromEnd
    <3>10. stored = IF ~W!FitsIn(n, bits) THEN W!Largest(bits)
                    ELSE IF num.sign = <<45>> THEN negated ELSE n
      BY <3>3, Zenon DEF stored, negated
    <3>11. stored = meant
      BY <3>7, <3>8, <3>9, <3>10
    <3> QED BY <3>11 DEF stored, meant
  <2> QED BY <2>1, <2>2
<1> QED BY <1>5, <1>7, <1>8, <1>9

(* A configuration file is read back, whatever there is between its lines, *)
(* and its numbers are those that were meant.                              *)
LEMMA ConfigRight ==
    ASSUME NEW t, ConfigInput(t)
    PROVE  LoadedFrom(D!load_from_file(t.lines, Defaults, NumberFields), t.config)
<1> DEFINE lines == t.lines
           says == t.says
           config == t.config
           Fields == DOMAIN t.config
           V == Seq(W!Chars)
           n == Len(lines)
<1>1. /\ config \in [Fields -> V] /\ lines \in Seq(V) /\ says \in Seq(V) /\ Len(says) = n
      /\ \A i \in 1..n : D!Says(lines[i], says[i])
      /\ \A k \in Fields : \E i \in 1..n :
            /\ says[i] = k \o <<32>> \o config[k]
            /\ \A j \in 1..n : j # i => ~D!starts_with(says[j], k \o <<32>>)
      /\ \A k \in DOMAIN Defaults \ Fields : \A j \in 1..n : ~D!starts_with(says[j], k \o <<32>>)
  BY Zenon DEF ConfigInput
<1>2. /\ Fields # {} /\ Fields \subseteq DOMAIN Defaults
      /\ \A k \in DOMAIN Defaults : k \in V /\ \A i \in 1..Len(k) : k[i] # 32
  BY ConfigAssumption, Zenon DEF ConfigInput
<1> HIDE DEF lines, says, config, Fields
<1>3. /\ n \in Nat /\ DOMAIN lines = 1..n
      /\ \A i \in 1..n : lines[i] \in V /\ says[i] \in V
  <2>1. DOMAIN lines = 1..Len(lines) /\ DOMAIN says = 1..Len(says) /\ Len(lines) \in Nat
    BY <1>1
  <2> QED BY <1>1, <2>1
<1> HIDE DEF n
<1> DEFINE found == [i \in 1..n |-> W!split(says[i], 32, 2)]
           is(k, i) == says[i] = FieldLine(k, config[k])
                       /\ \A j \in 1..n : j # i => ~D!starts_with(says[j], k \o <<32>>)
           place == [k \in Fields |-> CHOOSE i \in 1..n : is(k, i)]
<1>4. \A i \in 1..n : D!split(D!strip_comment(lines[i]), D!Space, 2) = found[i]
  <2>1. ASSUME NEW i \in 1..n
        PROVE  D!split(D!strip_comment(lines[i]), D!Space, 2) = found[i]
    <3>1. D!strip_comment(lines[i]) = says[i]
      BY <1>1, <1>3, CommentStripped
    <3>2. D!split(says[i], 32, 2) = W!split(says[i], 32, 2)
      BY SameSplit
    <3> QED BY <3>1, <3>2 DEF D!Space
  <2> QED BY <2>1
<1>5. ASSUME NEW k \in Fields
      PROVE  /\ place[k] \in 1..n
             /\ FieldParts(found[place[k]], k, config[k])
             /\ \A j \in 1..n : Len(found[j]) = 2 /\ found[j][1] = k => j = place[k]
  <2>1. place[k] \in 1..n /\ is(k, place[k])
    <3>1. \E i \in 1..n : is(k, i)
      BY <1>1, Zenon DEF FieldLine
    <3> HIDE DEF is
    <3> QED BY <3>1
  <2> DEFINE p == place[k]
             value == config[k]
  <2>2. p \in 1..n /\ says[p] = FieldLine(k, value)
        /\ \A j \in 1..n : j # p => ~D!starts_with(says[j], k \o <<32>>)
    BY <2>1, Zenon
  <2>3. k \in Seq(W!Chars) /\ value \in Seq(W!Chars) /\ \A i \in 1..Len(k) : k[i] # 32
    BY <1>1, <1>2
  <2> HIDE DEF place, value, p
  <2>4. FieldParts(found[p], k, value)
    <3>1. FieldParts(W!split(FieldLine(k, value), 32, 2), k, value)
      BY <2>3, FieldFound, Zenon
    <3> QED BY <2>2, <3>1
  <2>5. ASSUME NEW j \in 1..n, Len(found[j]) = 2, found[j][1] = k PROVE j = p
    <3>1. says[j] \in Seq(W!Chars)
      BY <1>3
    <3>2. Len(W!split(says[j], 32, 2)) = 2 /\ W!split(says[j], 32, 2)[1] = k
      BY <2>5
    <3>3. D!starts_with(says[j], k \o <<32>>)
      BY <2>3, <3>1, <3>2, FieldNamed, Zenon
    <3> QED BY <2>2, <3>3
  <2> HIDE DEF found, is
  <2> QED BY <2>1, <2>4, <2>5 DEF p, value
<1> HIDE DEF found, place, is
<1>6. n > 0 /\ lines # <<>>
  <2>1. PICK k \in Fields : TRUE
    BY <1>2
  <2>2. place[k] \in 1..n
    BY <1>5, <2>1
  <2>3. n > 0
    BY <1>3, <2>2
  <2> QED BY <2>3 DEF n
<1>7. config = [k \in Fields |-> config[k]]
  BY <1>1
<1>8. ASSUME NEW j \in 1..n, Len(found[j]) = 2, found[j][1] \in DOMAIN Defaults
      PROVE  found[j][1] \in Fields
  <2> DEFINE k == found[j][1]
  <2> SUFFICES ASSUME k \in DOMAIN Defaults \ Fields PROVE FALSE
    BY <1>8
  <2>1. k \in Seq(W!Chars) /\ says[j] \in Seq(W!Chars)
    BY <1>2, <1>3
  <2>2. Len(W!split(says[j], 32, 2)) = 2 /\ W!split(says[j], 32, 2)[1] = k
    BY <1>8 DEF found
  <2> HIDE DEF k
  <2>3. D!starts_with(says[j], k \o <<32>>)
    BY <2>1, <2>2, FieldNamed, Zenon
  <2> QED BY <1>1, <2>3
<1>9. D!read_file(lines, DOMAIN Defaults) = {config}
  <2>1. Placed(lines, n, found, place, config, Fields, DOMAIN Defaults)
    <3>1. \A j \in 1..n : Len(found[j]) = 2 /\ found[j][1] \in DOMAIN Defaults =>
                             found[j][1] \in Fields
      BY <1>8
    <3>2. \A k \in Fields :
            /\ place[k] \in 1..n /\ FieldParts(found[place[k]], k, config[k])
            /\ \A j \in 1..n : Len(found[j]) = 2 /\ found[j][1] = k => j = place[k]
      BY <1>5
    <3>3. /\ Fields \subseteq DOMAIN Defaults
          /\ n \in Nat /\ n > 0 /\ DOMAIN lines = 1..n /\ lines # <<>>
          /\ \A i \in 1..n : D!split(D!strip_comment(lines[i]), D!Space, 2) = found[i]
          /\ config = [k \in Fields |-> config[k]]
      BY <1>2, <1>3, <1>4, <1>6, <1>7, Zenon
    <3> QED BY <3>1, <3>2, <3>3 DEF Placed
  <2> DEFINE wanted == DOMAIN Defaults
  <2>2. Placed(lines, n, found, place, config, Fields, wanted)
    BY <2>1
  <2> HIDE DEF wanted
  <2>3. D!read_file(lines, wanted) = {config}
    BY <2>2, FieldsRead
  <2> QED BY <2>3 DEF wanted
<1> QED BY <1>9, FieldsLoaded DEF lines, config

(* http_config::load_from_file: whatever fields there are, and whatever    *)
(* blanks, comments and other lines a file has beside theirs, the          *)
(* configuration that is in it is read back: the strings, and the numbers  *)
(* up to and with the first that is missing or none, which is reported.    *)
THEOREM ConfigsLoad == Spec => []ConfigLoads
<1>1. Given => ConfigLoads
  <2> SUFFICES ASSUME Given, Input("config") PROVE ConfigLoads
    BY DEF ConfigLoads
  <2> DEFINE loaded == D!load_from_file(text.lines, Defaults, NumberFields)
             key(i) == NumberFields[i].key
             written(k) == k \in DOMAIN text.config
             good(i) == written(key(i)) /\ IsNumber(text.numbers[key(i)], NumberFields[i].bits)
             reached(i) == \A j \in 1..(i - 1) : good(j)
             read(i) == FieldRead(text.config, i)
             bad == RefusedNumbers(text.config)
             n == Len(NumberFields)
  <2>1. ConfigInput(text)
    BY TextsAssumption DEF Given, Input
  <2>2. LoadedFrom(loaded, text.config)
    BY <2>1, ConfigRight
  <2> HIDE DEF loaded
  <2>3. n \in Nat /\ DOMAIN NumberFields = 1..n
    BY ConfigAssumption
  <2> HIDE DEF n
  <2>4. ASSUME NEW i \in DOMAIN NumberFields
        PROVE  /\ read(i).ok = good(i)
               /\ written(key(i)) =>
                      read(i).stored = {Meant(text.numbers[key(i)], NumberFields[i].bits)}
               /\ ~written(key(i)) => read(i).stored = {}
    <3>1. CASE written(key(i))
      <4>1. /\ NumberInput(text.numbers[key(i)])
            /\ text.config[key(i)] = NumberText(text.numbers[key(i)])
        BY <2>1, <3>1, Zenon DEF ConfigInput
      <4>2. read(i) = D!UnsignedRead(NumberText(text.numbers[key(i)]), NumberFields[i].bits)
        BY <3>1, <4>1 DEF FieldRead, FieldText
      <4>3. /\ read(i).ok = IsNumber(text.numbers[key(i)], NumberFields[i].bits)
            /\ read(i).stored = {Meant(text.numbers[key(i)], NumberFields[i].bits)}
        BY <4>1, <4>2, NumberRead
      <4>4. IsNumber(text.numbers[key(i)], NumberFields[i].bits) \in BOOLEAN
        BY DEF IsNumber
      <4> HIDE DEF read, key
      <4> QED BY <3>1, <4>3, <4>4
    <3>2. CASE ~written(key(i))
      <4>1. read(i) = D!UnsignedRead(<<>>, NumberFields[i].bits)
        BY <3>2 DEF FieldRead, FieldText
      <4>2. read(i).ok = FALSE /\ read(i).stored = {}
        BY <4>1, SameRead, W!NothingReads
      <4> HIDE DEF read, key
      <4> QED BY <3>2, <4>2
    <3> QED BY <3>1, <3>2
  <2>5. bad = {i \in 1..n : ~good(i)}
    <3>1. \A i \in 1..n : ~read(i).ok <=> ~good(i)
      BY <2>3, <2>4
    <3>2. bad = {i \in 1..n : ~read(i).ok}
      BY <2>3 DEF RefusedNumbers
    <3> HIDE DEF read, good, bad
    <3> QED BY <3>1, <3>2
  <2>6. loaded.ok = \A i \in DOMAIN NumberFields : good(i)
    <3>1. loaded.ok = (bad = {})
      BY <2>2 DEF LoadedFrom
    <3> HIDE DEF good, bad
    <3>2. (bad = {}) = \A i \in DOMAIN NumberFields : good(i)
      BY <2>3, <2>5
    <3> QED BY <3>1, <3>2
  <2>7. \A k \in DOMAIN Defaults :
            (\A i \in DOMAIN NumberFields : key(i) # k) =>
                loaded.config[k] = IF written(k) THEN text.config[k] ELSE <<>>
    BY <2>2 DEF LoadedFrom, FieldText
  <2>8. ASSUME NEW i \in DOMAIN NumberFields
        PROVE  loaded.config[key(i)] =
                   IF reached(i) /\ written(key(i))
                      THEN Meant(text.numbers[key(i)], NumberFields[i].bits)
                      ELSE Defaults[key(i)]
    <3> DEFINE meant == Meant(text.numbers[key(i)], NumberFields[i].bits)
               old == Defaults[key(i)]
    <3>1. loaded.config[key(i)] =
              IF (\A r \in bad : i <= r) /\ read(i).stored # {}
                 THEN CHOOSE m \in read(i).stored : TRUE ELSE old
      BY <2>2 DEF LoadedFrom
    <3>2. (\A r \in bad : i <= r) <=> reached(i)
      <4>1. i \in 1..n
        BY <2>3
      <4> HIDE DEF good, bad
      <4>2. (\A r \in bad : i <= r) => reached(i)
        BY <2>3, <2>5, <4>1
      <4>3. reached(i) => \A r \in bad : i <= r
        BY <2>3, <2>5, <4>1
      <4> QED BY <4>2, <4>3
    <3>3. /\ written(key(i)) => read(i).stored = {meant}
          /\ ~written(key(i)) => read(i).stored = {}
      BY <2>4
    <3> HIDE DEF bad, reached, read, written, meant, old, key
    <3>4. (CHOOSE m \in {meant} : TRUE) = meant
      OBVIOUS
    <3>5. loaded.config[key(i)] = IF reached(i) /\ written(key(i)) THEN meant ELSE old
      BY <3>1, <3>2, <3>3, <3>4
    <3> QED BY <3>5 DEF meant, old
  <2>9. \A i \in DOMAIN NumberFields :
            loaded.config[key(i)] =
                IF reached(i) /\ written(key(i))
                   THEN Meant(text.numbers[key(i)], NumberFields[i].bits)
                   ELSE Defaults[key(i)]
    BY <2>8
  <2> QED BY <2>6, <2>7, <2>9, Zenon DEF ConfigLoads, loaded
<1> QED BY <1>1, TextGiven, PTL

---------------------------------------------------------------------------
(***************************************************************************)
(* The templates.  What parse returns is what Languages says, token by     *)
(* token, when the last block of C++ is closed: Languages reads from one   *)
(* delimiter to the next in one language (LanguageRuns), parse jumps from  *)
(* one to the next (PlaceRead, ParseStep), and each step has less to go,   *)
(* so that what holds from the next place on holds from this one           *)
(* (ParseRight).  A directive that is taken out of a C++ part is taken out *)
(* of the tokens (TemplateRight).                                          *)
(***************************************************************************)

Kinds == {"html", "cpp"}

\* The tokens of a part, each with the language of the part.
In(lang, seq) == [j \in DOMAIN seq |-> <<lang, seq[j]>>]
\* What parse makes of tokens in S, and what is emitted of each part.
PartsOf(S) == [kind : Kinds, part : Seq(S)]
Tokens(S) == [x \in PartsOf(S) |-> In(x.kind, x.part)]

(* The same sequence is meant.                                             *)
LEMMA SameFlatten == ASSUME NEW seqs PROVE D!FlattenSeq(seqs) = W!FlattenSeq(seqs)
BY Zenon DEF D!FlattenSeq, W!FlattenSeq

(* The tokens of a text are as many as it has.                            *)
LEMMA InIs ==
    ASSUME NEW S, NEW lang \in Kinds, NEW seq \in Seq(S)
    PROVE  /\ In(lang, seq) \in Seq(Kinds \X S) /\ Len(In(lang, seq)) = Len(seq)
           /\ \A j \in 1..Len(seq) : In(lang, seq)[j] = <<lang, seq[j]>>
<1> DEFINE n == Len(seq)
           P == Kinds \X S
           s == [j \in 1..n |-> <<lang, seq[j]>>]
<1>1. n \in Nat /\ DOMAIN seq = 1..n /\ \A j \in 1..n : seq[j] \in S
  OBVIOUS
<1>2. In(lang, seq) = s
  BY <1>1 DEF In
<1>3. \A j \in 1..n : <<lang, seq[j]>> \in P
  BY <1>1
<1> HIDE DEF n, P
<1>4. s \in Seq(P) /\ Len(s) = n /\ \A j \in 1..n : s[j] = <<lang, seq[j]>>
  BY <1>1, <1>3
<1> QED BY <1>2, <1>4 DEF n, P

(* They are tokens with a language.                                       *)
LEMMA TokensTyped == ASSUME NEW S PROVE Tokens(S) \in [PartsOf(S) -> Seq(Kinds \X S)]
<1>1. ASSUME NEW x \in PartsOf(S) PROVE In(x.kind, x.part) \in Seq(Kinds \X S)
  <2>1. x.kind \in Kinds /\ x.part \in Seq(S)
    BY DEF PartsOf
  <2> QED BY <2>1, InIs
<1> QED BY <1>1 DEF Tokens

(* Emitted is what is emitted of each part.                               *)
LEMMA EmittedIs ==
    ASSUME NEW S, NEW parts \in Seq(PartsOf(S))
    PROVE  D!Emitted(parts) = W!Flat(Tokens(S), parts)
<1> DEFINE n == Len(parts)
           T == PartsOf(S)
           a == [i \in DOMAIN parts |-> [j \in DOMAIN parts[i].part |-> <<parts[i].kind, parts[i].part[j]>>]]
           b == W!Each(Tokens(S), parts)
<1>1. DOMAIN parts = 1..n /\ \A i \in 1..n : parts[i] \in T
  <2> HIDE DEF T
  <2> QED BY DEF T
<1>2. a = [i \in 1..n |-> In(parts[i].kind, parts[i].part)]
  BY <1>1, Zenon DEF In
<1>3. b = [i \in 1..n |-> Tokens(S)[parts[i]]]
  BY <1>1, Zenon DEF W!Each
<1>4. ASSUME NEW i \in 1..n PROVE Tokens(S)[parts[i]] = In(parts[i].kind, parts[i].part)
  <2> DEFINE x == parts[i]
  <2>1. x \in PartsOf(S)
    BY <1>1
  <2> HIDE DEF x
  <2>2. Tokens(S)[x] = In(x.kind, x.part)
    BY <2>1, Zenon DEF Tokens
  <2> QED BY <2>2 DEF x
<1>5. a = b
  BY <1>2, <1>3, <1>4
<1>6. D!Emitted(parts) = D!FlattenSeq(a)
  BY Zenon DEF D!Emitted
<1> HIDE DEF a, b
<1> QED BY <1>5, <1>6, SameFlatten, Zenon DEF W!Flat, b

(* What is emitted of parts one behind the other, of one and of none.      *)
LEMMA EmittedJoined ==
    ASSUME NEW S, NEW a \in Seq(PartsOf(S)), NEW b \in Seq(PartsOf(S))
    PROVE  /\ a \o b \in Seq(PartsOf(S))
           /\ D!Emitted(a) \in Seq(Kinds \X S) /\ D!Emitted(b) \in Seq(Kinds \X S)
           /\ D!Emitted(a \o b) = D!Emitted(a) \o D!Emitted(b)
<1> DEFINE T == PartsOf(S)
           P == Kinds \X S
           g == Tokens(S)
           c == a \o b
<1>1. g \in [T -> Seq(P)]
  BY TokensTyped
<1> HIDE DEF T, P, g
<1>2. c \in Seq(T)
  BY W!ConcatIs DEF T
<1>3. W!Flat(g, a) \in Seq(P) /\ W!Flat(g, b) \in Seq(P)
  <2>1. a \in Seq(T) /\ b \in Seq(T)
    BY DEF T
  <2> QED BY <1>1, <2>1, W!EachIs, Zenon
<1>4. W!Flat(g, c) = W!Flat(g, a) \o W!Flat(g, b)
  <2>1. a \in Seq(T) /\ b \in Seq(T)
    BY DEF T
  <2>2. W!OneByOne(g, T)
    BY <1>1, W!FlatOfTwo, Zenon
  <2> QED BY <2>1, <2>2, Zenon DEF W!OneByOne
<1> HIDE DEF c
<1>5. D!Emitted(a) = W!Flat(g, a) /\ D!Emitted(b) = W!Flat(g, b) /\ D!Emitted(c) = W!Flat(g, c)
  BY <1>2, EmittedIs, Zenon DEF T, g
<1> QED BY <1>2, <1>3, <1>4, <1>5, Zenon DEF c, T, P

(* Of the one part that Emit returns, or none, its tokens are emitted.      *)
LEMMA EmittedOne ==
    ASSUME NEW S, NEW lang \in Kinds, NEW seq \in Seq(S)
    PROVE  D!Emit(lang, seq) \in Seq(PartsOf(S)) /\ D!Emitted(D!Emit(lang, seq)) = In(lang, seq)
<1> DEFINE T == PartsOf(S)
           P == Kinds \X S
           g == Tokens(S)
           x == [kind |-> lang, part |-> seq]
           e == D!Emit(lang, seq)
<1>1. g \in [T -> Seq(P)]
  BY TokensTyped
<1>2. x \in T /\ g[x] = In(lang, seq)
  BY DEF PartsOf, Tokens
<1>3. seq = <<>> => In(lang, seq) = <<>>
  BY DEF In
<1> HIDE DEF T, P, g, x
<1>4. W!Flat(g, <<>>) = <<>> /\ W!Flat(g, <<x>>) = g[x]
  BY <1>1, <1>2, W!FlatNone
<1>5. e \in Seq(T)
  BY <1>2 DEF D!Emit, x
<1>6. e = IF seq = <<>> THEN <<>> ELSE <<x>>
  BY Zenon DEF D!Emit, x
<1> HIDE DEF e
<1>7. D!Emitted(e) = W!Flat(g, e)
  BY <1>5, EmittedIs, Zenon DEF T, g
<1>8. W!Flat(g, e) = In(lang, seq)
  <2>1. CASE seq = <<>>
    BY <1>3, <1>4, <1>6, <2>1
  <2>2. CASE seq # <<>>
    BY <1>2, <1>4, <1>6, <2>2
  <2> QED BY <2>1, <2>2
<1> QED BY <1>5, <1>7, <1>8 DEF e, T

\* What Languages keeps while it reads: the language, and what it has read.
States(S) == [kind : Kinds, out : Seq(Kinds \X S)]
\* It goes on.
ReadOn(s, token) ==
    CASE token = "open" /\ s.kind = "html" -> [kind |-> "cpp", out |-> s.out]
      [] token = "close" /\ s.kind = "cpp" -> [kind |-> "html", out |-> s.out]
      [] OTHER -> [kind |-> s.kind, out |-> Append(s.out, <<s.kind, token>>)]
\* st[i] is what it keeps after i tokens.
Reads(st, doc, S) ==
    /\ st \in [0..Len(doc) -> States(S)] /\ st[0] = [kind |-> "html", out |-> <<>>]
    /\ \A i \in 1..Len(doc) : st[i] = ReadOn(st[i - 1], doc[i])

(* A step of it.                                                           *)
LEMMA ReadsOn == ASSUME NEW S, NEW s \in States(S), NEW token \in S PROVE ReadOn(s, token) \in States(S)
<1>1. s.kind \in Kinds /\ s.out \in Seq(Kinds \X S)
  BY DEF States
<1> DEFINE P == Kinds \X S
           a == Append(s.out, <<s.kind, token>>)
<1>2. <<s.kind, token>> \in P
  BY <1>1
<1>3. a \in Seq(P)
  <2> HIDE DEF P
  <2> QED BY <1>1, <1>2 DEF P
<1> QED BY <1>1, <1>3 DEF ReadOn, States, Kinds

(* It does.                                                                *)
LEMMA LanguagesRead ==
    ASSUME NEW S, NEW doc \in Seq(S)
    PROVE  \E st : Reads(st, doc, S) /\ D!Languages(doc) = st[Len(doc)]
<1> DEFINE n == Len(doc)
           A == States(S)
           init == [kind |-> "html", out |-> <<>>]
           Dom == 0..n
           rank == [i \in Dom |-> i]
           stop == {0}
           last == [i \in Dom |-> init]
           step == [i \in Dom |-> [s \in A |-> ReadOn(s, doc[i])]]
           next == [i \in Dom |-> i - 1]
           body(f) == [i \in 0..n |->
                          IF i = 0 THEN [kind |-> "html", out |-> <<>>]
                          ELSE LET s == f[i - 1]
                               IN CASE doc[i] = "open" /\ s.kind = "html" -> [kind |-> "cpp", out |-> s.out]
                                    [] doc[i] = "close" /\ s.kind = "cpp" -> [kind |-> "html", out |-> s.out]
                                    [] OTHER -> [kind |-> s.kind, out |-> Append(s.out, <<s.kind, doc[i]>>)]]
           st == CHOOSE f : f = body(f)
<1>1. n \in Nat /\ \A i \in 1..n : doc[i] \in S
  OBVIOUS
<1>2. init \in A
  BY DEF States, Kinds
<1>3. ASSUME NEW i \in 1..n, NEW s \in A PROVE ReadOn(s, doc[i]) \in A
  BY <1>1, ReadsOn
<1> HIDE DEF n, A, init
<1>4. W!Recursion(Dom, A, n, rank, stop, last, step, next)
  <2>1. \A i \in Dom : rank[i] \in 0..n
    BY <1>1
  <2>2. \A i \in Dom \cap stop : last[i] \in A
    BY <1>2
  <2>3. ASSUME NEW i \in Dom \ stop
        PROVE  next[i] \in Dom /\ rank[next[i]] < rank[i] /\ step[i] \in [A -> A]
    <3>1. i \in 1..n /\ i - 1 \in Dom /\ i \in Dom
      BY <1>1
    <3>2. step[i] \in [A -> A]
      BY <1>3, <3>1
    <3> QED BY <1>1, <3>1, <3>2
  <2> HIDE DEF Dom, rank, stop, last, step, next
  <2> QED BY <2>1, <2>2, <2>3 DEF W!Recursion
<1>5. PICK f \in [Dom -> A] : W!Solves(f, Dom, stop, last, step, next)
  <2> HIDE DEF Dom, rank, stop, last, step, next
  <2> QED BY <1>1, <1>4, W!RecursionExists
<1>6. f[0] = init
  <2>1. f[0] = IF 0 \in stop THEN last[0] ELSE step[0][f[next[0]]]
    <3>1. 0 \in Dom
      BY <1>1
    <3> HIDE DEF stop, last, step, next, Dom
    <3> QED BY <1>5, <3>1 DEF W!Solves
  <2> QED BY <1>1, <2>1
<1>7. ASSUME NEW i \in 1..n PROVE f[i] = ReadOn(f[i - 1], doc[i])
  <2>1. f[i] = IF i \in stop THEN last[i] ELSE step[i][f[next[i]]]
    <3>1. i \in Dom
      BY <1>1
    <3> HIDE DEF stop, last, step, next, Dom
    <3> QED BY <1>5, <3>1 DEF W!Solves
  <2>2. i \in Dom /\ i \notin stop /\ next[i] = i - 1 /\ i - 1 \in Dom
    BY <1>1
  <2>3. f[i - 1] \in A
    BY <1>5, <2>2
  <2> DEFINE b == f[i - 1]
  <2>4. f[i] = step[i][b]
    <3> HIDE DEF stop, step, next
    <3> QED BY <2>1, <2>2
  <2> HIDE DEF b
  <2> QED BY <2>2, <2>3, <2>4 DEF b
<1>8. f = body(f)
  <2> DEFINE g == body(f)
  <2>1. ASSUME NEW i \in 0..n PROVE f[i] = g[i]
    <3>1. CASE i = 0
      BY <1>6, <3>1 DEF init
    <3>2. CASE i # 0
      <4>1. i \in 1..n
        BY <1>1, <3>2
      <4> QED BY <1>7, <3>2, <4>1, Zenon DEF ReadOn
    <3> QED BY <3>1, <3>2
  <2>2. f = [i \in 0..n |-> f[i]]
    BY <1>5
  <2>3. g = [i \in 0..n |-> g[i]]
    OBVIOUS
  <2> HIDE DEF g
  <2>4. [i \in 0..n |-> f[i]] = [i \in 0..n |-> g[i]]
    BY <2>1, Zenon
  <2>5. f = g
    BY <2>2, <2>3, <2>4
  <2> QED BY <2>5 DEF g
<1>9. st = body(st)
  <2> HIDE DEF body
  <2> QED BY <1>8
<1>10. st[0] = init /\ \A i \in 1..n : st[i] = ReadOn(st[i - 1], doc[i])
  <2> HIDE DEF st
  <2>1. \A i \in 0..n : st[i] = body(st)[i]
    <3> HIDE DEF body
    <3> QED BY <1>9, Zenon
  <2>2. 0 \in 0..n
    BY <1>1
  <2>3. st[0] = init
    BY <2>1, <2>2 DEF init
  <2>4. ASSUME NEW i \in 1..n PROVE st[i] = ReadOn(st[i - 1], doc[i])
    <3>1. i \in 0..n /\ i # 0
      BY <1>1
    <3>2. st[i] = body(st)[i]
      <4> HIDE DEF body
      <4> QED BY <2>1, <3>1
    <3> QED BY <3>1, <3>2, Zenon DEF ReadOn
  <2> QED BY <2>3, <2>4
<1>11. D!Languages(doc) = st[n]
  <2> HIDE DEF st
  <2> QED BY Zenon DEF D!Languages, st, n
<1> DEFINE T == {i \in 0..n : st[i] = f[i]}
<1> HIDE DEF st
<1>12. 0 \in T
  BY <1>1, <1>6, <1>10
<1>13. ASSUME NEW i \in 1..n, i - 1 \in T PROVE i \in T
  BY <1>1, <1>7, <1>10, <1>13
<1>14. n \in T
  <2>1. n \in 0..n
    BY <1>1
  <2> HIDE DEF T
  <2> QED BY <1>1, <1>12, <1>13, <2>1, W!UpTo
<1>15. Reads(f, doc, S)
  BY <1>5, <1>6, <1>7 DEF Reads, n, A, init
<1>16. D!Languages(doc) = f[n]
  BY <1>11, <1>14
<1> QED BY <1>15, <1>16 DEF n

(* The tokens of two texts one behind the other.                           *)
LEMMA InJoined ==
    ASSUME NEW S, NEW lang \in Kinds, NEW a \in Seq(S), NEW b \in Seq(S)
    PROVE  a \o b \in Seq(S) /\ In(lang, a \o b) = In(lang, a) \o In(lang, b)
<1> DEFINE c == a \o b
           n == Len(a)
           m == Len(b)
           P == Kinds \X S
           u == In(lang, a)
           v == In(lang, b)
           w == In(lang, c)
           x == u \o v
<1>1. /\ c \in Seq(S) /\ Len(c) = n + m /\ n \in Nat /\ m \in Nat
      /\ \A i \in 1..n : c[i] = a[i]
      /\ \A j \in 1..m : c[n + j] = b[j]
  BY W!ConcatIs
<1> HIDE DEF c
<1>2. /\ u \in Seq(P) /\ Len(u) = n /\ \A j \in 1..n : u[j] = <<lang, a[j]>>
      /\ v \in Seq(P) /\ Len(v) = m /\ \A j \in 1..m : v[j] = <<lang, b[j]>>
  BY InIs
<1>3. w \in Seq(P) /\ Len(w) = n + m /\ \A j \in 1..(n + m) : w[j] = <<lang, c[j]>>
  <2>1. w \in Seq(P) /\ Len(w) = Len(c) /\ \A j \in 1..Len(c) : w[j] = <<lang, c[j]>>
    BY <1>1, InIs
  <2> QED BY <1>1, <2>1
<1> HIDE DEF u, v, w, P, n, m
<1>4. /\ x \in Seq(P) /\ Len(x) = n + m
      /\ \A i \in 1..n : x[i] = u[i]
      /\ \A j \in 1..m : x[n + j] = v[j]
  <2>1. u \in Seq(P) /\ v \in Seq(P)
    BY <1>2
  <2>2. /\ x \in Seq(P) /\ Len(x) = Len(u) + Len(v)
        /\ \A i \in 1..Len(u) : x[i] = u[i]
        /\ \A j \in 1..Len(v) : x[Len(u) + j] = v[j]
    BY <2>1, W!ConcatIs
  <2> HIDE DEF x
  <2> QED BY <1>2, <2>2
<1> HIDE DEF x
<1>5. ASSUME NEW i \in 1..(n + m) PROVE w[i] = x[i]
  <2>1. CASE i \in 1..n
    <3>1. w[i] = <<lang, c[i]>> /\ c[i] = a[i] /\ x[i] = u[i] /\ u[i] = <<lang, a[i]>>
      BY <1>1, <1>2, <1>3, <1>4, <2>1
    <3> QED BY <3>1
  <2>2. CASE i \notin 1..n
    <3> DEFINE j == i - n
    <3>1. j \in 1..m /\ n + j = i
      BY <1>1, <2>2
    <3> HIDE DEF j
    <3>2. c[n + j] = b[j] /\ x[n + j] = v[j] /\ v[j] = <<lang, b[j]>>
      BY <1>1, <1>2, <1>4, <3>1
    <3> QED BY <1>3, <3>1, <3>2
  <2> QED BY <2>1, <2>2
<1>6. w = x
  BY <1>3, <1>4, <1>5, W!SeqEqual
<1> QED BY <1>1, <1>6 DEF c, w, x, u, v

\* The piece of a text after the ith token grows by the token behind it.
Grows(doc, lang, i, m, S) ==
    /\ In(lang, SubSeq(doc, i + 1, m)) \in Seq(Kinds \X S)
    /\ In(lang, SubSeq(doc, i + 1, m + 1)) =
           Append(In(lang, SubSeq(doc, i + 1, m)), <<lang, doc[m + 1]>>)

(* It does.                                                                *)
LEMMA InLonger ==
    ASSUME NEW S, NEW doc \in Seq(S), NEW lang \in Kinds, NEW i \in 0..Len(doc), NEW m \in Nat,
           i <= m, m + 1 <= Len(doc)
    PROVE  Grows(doc, lang, i, m, S)
<1> DEFINE a == SubSeq(doc, i + 1, m)
           b == SubSeq(doc, m + 1, m + 1)
           c == SubSeq(doc, i + 1, m + 1)
           e == doc[m + 1]
           one == <<e>>
           P == Kinds \X S
           u == In(lang, a)
           x == <<lang, e>>
<1>1. /\ Len(doc) \in Nat /\ i \in Nat /\ i + 1 \in Nat \ {0} /\ m + 1 \in Nat /\ m + 1 \in 1..Len(doc)
      /\ i + 1 <= m + 1 /\ m <= m + 1 /\ m <= Len(doc) /\ m + 1 \in Nat \ {0}
  OBVIOUS
<1>2. e \in S /\ one \in Seq(S) /\ Len(one) = 1 /\ one[1] = e
  BY <1>1
<1>3. a \in Seq(S)
  BY <1>1, W!PieceIs
<1>4. a \o b = c
  BY <1>1, W!PiecesMeet
<1>5. b = one
  BY <1>1, W!PieceOne
<1> HIDE DEF a, b, c
<1>6. In(lang, c) = u \o In(lang, one)
  <2> HIDE DEF one
  <2>1. In(lang, a \o one) = In(lang, a) \o In(lang, one)
    BY <1>2, <1>3, InJoined, Zenon
  <2> QED BY <1>4, <1>5, <2>1
<1>7. In(lang, one) = <<x>>
  <2> HIDE DEF one
  <2> DEFINE o == In(lang, one)
  <2>1. o \in Seq(P) /\ Len(o) = Len(one) /\ \A j \in 1..Len(one) : o[j] = <<lang, one[j]>>
    BY <1>2, InIs
  <2> HIDE DEF o, P
  <2>2. Len(o) = 1 /\ o[1] = <<lang, one[1]>>
    BY <1>2, <2>1
  <2>3. o[1] = x
    BY <1>2, <2>2
  <2> HIDE DEF x
  <2>4. o = <<x>>
    BY <2>1, <2>2, <2>3
  <2> QED BY <2>4 DEF o
<1>8. u \in Seq(P) /\ x \in P
  BY <1>2, <1>3, InIs
<1> HIDE DEF u, x, P
<1>9. u \o <<x>> = Append(u, x)
  BY <1>8
<1>10. u \in Seq(P) /\ In(lang, c) = Append(u, x)
  BY <1>6, <1>7, <1>8, <1>9
<1> QED BY <1>10, Zenon DEF Grows, u, x, e, P, a, c

\* An element behind two sequences is behind the second.
AppendsTo(a, b, x) == Append(a \o b, x) = a \o Append(b, x)

(* It is.                                                                  *)
LEMMA AppendJoined ==
    ASSUME NEW S, NEW a \in Seq(S), NEW b \in Seq(S), NEW x \in S
    PROVE  AppendsTo(a, b, x)
<1> DEFINE o == <<x>>
<1>1. o \in Seq(S) /\ Append(b, x) = b \o o
  OBVIOUS
<1>2. a \o b \in Seq(S)
  OBVIOUS
<1>3. Append(a \o b, x) = (a \o b) \o o
  BY <1>2
<1> HIDE DEF o
<1>5. (a \o b) \o o = a \o (b \o o)
  BY <1>1, W!ConcatAssociative
<1> QED BY <1>1, <1>3, <1>5 DEF AppendsTo

\* The token that ends a language.
Until(lang) == IF lang = "html" THEN "open" ELSE "close"

\* From the ith token to the jth it reads on in one language.
RunsOn(st, doc, lang, i, j) ==
    /\ st[j].kind = lang
    /\ st[j].out = st[i].out \o In(lang, SubSeq(doc, i + 1, j))

(* It does, when none of them ends the language.                           *)
LEMMA LanguageRuns ==
    ASSUME NEW S, NEW doc \in Seq(S), NEW st, Reads(st, doc, S), NEW lang \in Kinds,
           NEW i \in 0..Len(doc), NEW j \in i..Len(doc), st[i].kind = lang,
           \A k \in (i + 1)..j : doc[k] # Until(lang)
    PROVE  RunsOn(st, doc, lang, i, j)
<1> DEFINE n == Len(doc)
           P == Kinds \X S
           T == {m \in 0..(j - i) : RunsOn(st, doc, lang, i, i + m)}
<1>1. n \in Nat /\ i \in Nat /\ j \in Nat /\ i <= j /\ j <= n /\ j - i \in Nat
  OBVIOUS
<1>2. /\ \A m \in 0..n : st[m].out \in Seq(P) /\ st[m].kind \in Kinds
      /\ \A m \in 1..n : st[m] = ReadOn(st[m - 1], doc[m])
  <2>1. \A m \in 0..n : st[m] \in States(S)
    BY DEF Reads
  <2>2. \A m \in 1..n : st[m] = ReadOn(st[m - 1], doc[m])
    BY DEF Reads
  <2> HIDE DEF n
  <2> QED BY <2>1, <2>2 DEF States
<1>3. 0 \in T
  <2>1. i + 0 = i /\ 0 \in 0..(j - i)
    BY <1>1
  <2>2. SubSeq(doc, i + 1, i) \in Seq(S) /\ Len(SubSeq(doc, i + 1, i)) = 0
    <3>1. i + 1 \in Nat \ {0} /\ i <= Len(doc) /\ i + 1 <= i + 1 /\ i + 1 - (i + 1) = 0
      BY <1>1
    <3>2. SubSeq(doc, i + 1, i) \in Seq(S) /\ Len(SubSeq(doc, i + 1, i)) = i + 1 - (i + 1)
      BY <1>1, <3>1, W!PieceIs
    <3> QED BY <3>1, <3>2
  <2> DEFINE a == SubSeq(doc, i + 1, i)
  <2>3. In(lang, a) = <<>>
    <3> HIDE DEF a, P
    <3>1. In(lang, a) \in Seq(Kinds \X S) /\ Len(In(lang, a)) = 0
      BY <2>2, InIs DEF a
    <3> QED BY <3>1
  <2> HIDE DEF a
  <2>4. st[i].out \in Seq(P)
    BY <1>1, <1>2
  <2> HIDE DEF P
  <2>5. st[i].out \o <<>> = st[i].out
    BY <2>4
  <2>6. RunsOn(st, doc, lang, i, i)
    BY <2>3, <2>5 DEF RunsOn, a
  <2> QED BY <2>1, <2>6
<1>4. ASSUME NEW m \in 1..(j - i), m - 1 \in T PROVE m \in T
  <2> DEFINE k == (i + m) - 1
             x == <<lang, doc[k + 1]>>
             u == In(lang, SubSeq(doc, i + 1, k))
  <2>1. /\ k \in Nat /\ i <= k /\ k + 1 <= Len(doc) /\ k + 1 = i + m /\ i + (m - 1) = k /\ k \in 0..n
        /\ k + 1 \in 1..n /\ (k + 1) - 1 = k /\ k + 1 \in (i + 1)..j /\ m \in 0..(j - i)
    BY <1>1
  <2>2. RunsOn(st, doc, lang, i, k)
    BY <1>4, <2>1
  <2> HIDE DEF k
  <2>3. u \in Seq(P) /\ In(lang, SubSeq(doc, i + 1, k + 1)) = Append(u, x)
    <3>1. i \in 0..Len(doc)
      OBVIOUS
    <3> DEFINE long == In(lang, SubSeq(doc, i + 1, k + 1))
    <3> HIDE DEF n, u, long, x
    <3>2. k \in Nat /\ i <= k /\ k + 1 <= Len(doc)
      BY <2>1
    <3>3. Grows(doc, lang, i, k, S)
      BY <3>1, <3>2, InLonger, Zenon
    <3>4. u \in Seq(P) /\ long = Append(u, x)
      BY <3>3, Zenon DEF Grows, u, long, x
    <3> QED BY <3>4 DEF long
  <2>4. st[k + 1] = [kind |-> lang, out |-> Append(st[k].out, x)]
    <3>1. doc[k + 1] # Until(lang)
      BY <2>1
    <3>2. st[k + 1] = ReadOn(st[k], doc[k + 1])
      BY <1>2, <2>1
    <3>3. st[k].kind = lang
      BY <2>2 DEF RunsOn
    <3> QED BY <3>1, <3>2, <3>3 DEF ReadOn, Until, Kinds
  <2>5. st[k].out = st[i].out \o u
    BY <2>2 DEF RunsOn
  <2>6. st[i].out \in Seq(P) /\ x \in P
    <3>1. doc[k + 1] \in S
      BY <2>1
    <3> QED BY <1>1, <1>2, <3>1
  <2> DEFINE s == st[i].out
  <2>7. Append(s \o u, x) = s \o Append(u, x)
    <3>1. s \in Seq(P) /\ u \in Seq(P) /\ x \in P
      BY <2>3, <2>6
    <3> HIDE DEF s, u, x, P
    <3>2. AppendsTo(s, u, x)
      BY <3>1, AppendJoined, Zenon
    <3> QED BY <3>2, Zenon DEF AppendsTo
  <2>8. RunsOn(st, doc, lang, i, k + 1)
    <3>1. st[k + 1].kind = lang /\ st[k + 1].out = Append(st[k].out, x)
      <4> HIDE DEF x
      <4> QED BY <2>4
    <3> HIDE DEF u, x, P, s
    <3>2. st[k + 1].out = s \o Append(u, x)
      BY <2>5, <2>7, <3>1 DEF s
    <3> QED BY <2>3, <3>1, <3>2, Zenon DEF RunsOn, s
  <2> QED BY <2>1, <2>8
<1>5. j - i \in T
  <2>1. j - i \in 0..(j - i)
    BY <1>1
  <2> HIDE DEF T
  <2> QED BY <1>1, <1>3, <1>4, <2>1, W!UpTo
<1> QED BY <1>1, <1>5

\* p is where the token is found from i on, or 0.
FoundFrom(doc, token, i, p) ==
    /\ p = 0 => \A k \in i..Len(doc) : doc[k] # token
    /\ p # 0 => p \in i..Len(doc) /\ doc[p] = token /\ \A k \in i..(p - 1) : doc[k] # token

(* TokenFrom finds it.                                                     *)
LEMMA TokenFound ==
    ASSUME NEW S, NEW doc \in Seq(S), NEW token, NEW i \in Nat \ {0}
    PROVE  FoundFrom(doc, token, i, D!TokenFrom(doc, token, i))
<1> DEFINE T == {j \in i..Len(doc) : doc[j] = token}
           n == Len(doc)
<1>1. D!TokenFrom(doc, token, i) = IF T = {} THEN 0 ELSE W!Min(T)
  BY Zenon DEF D!TokenFrom, D!Min, W!Min
<1>2. n \in Nat /\ T \subseteq Nat /\ 0 \notin T
  OBVIOUS
<1>3. CASE T = {}
  BY <1>1, <1>3, Zenon DEF FoundFrom
<1>4. CASE T # {}
  <2> DEFINE p == W!Min(T)
  <2>1. p \in T /\ \A y \in T : p <= y
    <3> HIDE DEF T
    <3> QED BY <1>2, <1>4, W!LeastOf
  <2> HIDE DEF p
  <2>2. p \in i..n /\ doc[p] = token /\ p # 0
    BY <2>1
  <2>3. ASSUME NEW k \in i..(p - 1) PROVE doc[k] # token
    <3>1. k \in i..n /\ ~(p <= k)
      BY <1>2, <2>2
    <3> QED BY <2>1, <3>1
  <2>4. FoundFrom(doc, token, i, p)
    BY <2>2, <2>3 DEF FoundFrom
  <2>5. D!TokenFrom(doc, token, i) = p
    BY <1>1, <1>4 DEF p
  <2> QED BY <2>4, <2>5
<1> QED BY <1>3, <1>4

\* Where the scan of parse is: a position, and whether a block is taken.
Places(doc) == (1..(Len(doc) + 1)) \X BOOLEAN
Start(doc, at) == D!TokenFrom(doc, "open", at[1])
End(doc, at) == D!TokenFrom(doc, "close", Start(doc, at))
Before(doc, at) == D!Emit("html", SubSeq(doc, at[1], Start(doc, at) - 1))
Block(doc, at) == D!Emit("cpp", SubSeq(doc, Start(doc, at) + 1, End(doc, at) - 1))
\* What is emitted from there on.
ScanOn(scan, doc, at) ==
    IF at[1] > Len(doc) THEN <<>>
    ELSE IF Start(doc, at) = 0 THEN D!Emit("html", D!From(doc, at[1]))
    ELSE IF ~at[2] THEN Before(doc, at) \o scan[<<Start(doc, at), TRUE>>]
    ELSE IF End(doc, at) = 0 THEN Before(doc, at) \o D!Emit("cpp", D!From(doc, Start(doc, at)))
    ELSE Before(doc, at) \o Block(doc, at) \o scan[<<End(doc, at) + 1, FALSE>>]
Scans(scan, doc) ==
    \A at \in Places(doc) : scan[at] = ScanOn(scan, doc, at)

(* Where it goes on from, it has less to go.                               *)
LEMMA PlaceIs ==
    ASSUME NEW S, NEW doc \in Seq(S), NEW at \in Places(doc)
    PROVE  /\ Len(doc) \in Nat /\ at[1] \in Nat \ {0} /\ at[1] <= Len(doc) + 1 /\ at[2] \in BOOLEAN
           /\ at = <<at[1], at[2]>>
           /\ FoundFrom(doc, "open", at[1], Start(doc, at))
           /\ Start(doc, at) # 0 =>
                /\ FoundFrom(doc, "close", Start(doc, at), End(doc, at))
                /\ Start(doc, at) \in at[1]..Len(doc)
                /\ End(doc, at) # 0 => End(doc, at) \in (Start(doc, at) + 1)..Len(doc)
<1> DEFINE n == Len(doc)
           p == at[1]
           start == Start(doc, at)
           end == End(doc, at)
<1>1. n \in Nat /\ p \in Nat \ {0} /\ p <= n + 1 /\ at[2] \in BOOLEAN /\ at = <<p, at[2]>>
  BY DEF Places
<1> HIDE DEF p
<1>2. FoundFrom(doc, "open", p, start)
  BY <1>1, TokenFound, Zenon DEF Start, p
<1> HIDE DEF start
<1>3. ASSUME start # 0
      PROVE  /\ FoundFrom(doc, "close", start, end) /\ start \in p..n
             /\ end # 0 => end \in (start + 1)..n
  <2>1. start \in p..n /\ doc[start] = "open" /\ start \in Nat \ {0}
    BY <1>1, <1>2, <1>3 DEF FoundFrom
  <2>2. FoundFrom(doc, "close", start, end)
    BY <2>1, TokenFound, Zenon DEF End, start
  <2> HIDE DEF end
  <2>3. end # 0 => end \in start..n /\ doc[end] = "close"
    BY <2>2 DEF FoundFrom
  <2>4. end # 0 => end \in (start + 1)..n
    BY <1>1, <2>1, <2>3
  <2> QED BY <2>1, <2>2, <2>4
<1> QED BY <1>1, <1>2, <1>3, Zenon DEF p, n, start, end

\* How far there is to go from a place, and whether it goes on.
ToGo(doc, at) == 2 * ((Len(doc) + 1) - at[1]) + (IF at[2] THEN 0 ELSE 1)
GoesOn(doc, at) == at[1] <= Len(doc) /\ Start(doc, at) # 0 /\ (at[2] => End(doc, at) # 0)
\* The place it goes on from.
Onwards(doc, at) ==
    IF at[2] THEN <<End(doc, at) + 1, FALSE>> ELSE <<Start(doc, at), TRUE>>

(* It is nearer to the end.                                                *)
LEMMA PlaceNearer ==
    ASSUME NEW S, NEW doc \in Seq(S), NEW at \in Places(doc)
    PROVE  /\ ToGo(doc, at) \in 0..(2 * Len(doc) + 1)
           /\ GoesOn(doc, at) =>
                Onwards(doc, at) \in Places(doc) /\ ToGo(doc, Onwards(doc, at)) < ToGo(doc, at)
<1> DEFINE n == Len(doc)
           p == at[1]
           start == Start(doc, at)
           end == End(doc, at)
<1>1. /\ n \in Nat /\ p \in Nat \ {0} /\ p <= n + 1 /\ at[2] \in BOOLEAN
      /\ start # 0 => start \in p..n /\ (end # 0 => end \in (start + 1)..n)
  BY PlaceIs
<1>2. Places(doc) = (1..(n + 1)) \X BOOLEAN
  BY DEF Places
<1>3. ToGo(doc, at) = 2 * ((n + 1) - p) + (IF at[2] THEN 0 ELSE 1)
  BY DEF ToGo
<1>4. ToGo(doc, at) \in 0..(2 * n + 1)
  <2> HIDE DEF n, p, start, end
  <2> QED BY <1>1, <1>3
<1>5. ASSUME GoesOn(doc, at), at[2]
      PROVE  Onwards(doc, at) \in Places(doc) /\ ToGo(doc, Onwards(doc, at)) < ToGo(doc, at)
  <2>1. end \in (start + 1)..n /\ start \in p..n
    BY <1>1, <1>5 DEF GoesOn
  <2>2. Onwards(doc, at) = <<end + 1, FALSE>>
    BY <1>5, Zenon DEF Onwards
  <2> HIDE DEF n, p, start, end
  <2>3. end + 1 \in 1..(n + 1) /\ end + 1 \in Nat /\ start \in Nat /\ end \in Nat /\ p < end + 1
    BY <1>1, <2>1
  <2>4. Onwards(doc, at) \in Places(doc)
    BY <1>2, <2>2, <2>3
  <2>5. ToGo(doc, <<end + 1, FALSE>>) = 2 * ((n + 1) - (end + 1)) + 1
    BY DEF ToGo, n
  <2>6. ToGo(doc, at) = 2 * ((n + 1) - p)
    BY <1>1, <1>3, <1>5
  <2>7. 2 * ((n + 1) - (end + 1)) + 1 < 2 * ((n + 1) - p)
    BY <1>1, <2>3
  <2> QED BY <2>2, <2>4, <2>5, <2>6, <2>7
<1>6. ASSUME GoesOn(doc, at), ~at[2]
      PROVE  Onwards(doc, at) \in Places(doc) /\ ToGo(doc, Onwards(doc, at)) < ToGo(doc, at)
  <2>1. start \in p..n
    BY <1>1, <1>6 DEF GoesOn
  <2>2. Onwards(doc, at) = <<start, TRUE>>
    BY <1>6, Zenon DEF Onwards
  <2> HIDE DEF n, p, start, end
  <2>3. start \in 1..(n + 1) /\ start \in Nat /\ p <= start
    BY <1>1, <2>1
  <2>4. Onwards(doc, at) \in Places(doc)
    BY <1>2, <2>2, <2>3
  <2>5. ToGo(doc, <<start, TRUE>>) = 2 * ((n + 1) - start)
    BY <1>1, <2>3 DEF ToGo, n
  <2>6. ToGo(doc, at) = 2 * ((n + 1) - p) + 1
    BY <1>1, <1>3, <1>6
  <2>7. 2 * ((n + 1) - start) < 2 * ((n + 1) - p) + 1
    BY <1>1, <2>3
  <2> QED BY <2>2, <2>4, <2>5, <2>6, <2>7
<1> QED BY <1>1, <1>4, <1>5, <1>6

\* Parts before what it goes on to, or at the end.
Ahead(doc, at) == IF at[2] THEN Before(doc, at) \o Block(doc, at) ELSE Before(doc, at)
LastParts(doc, at) ==
    IF at[1] > Len(doc) THEN <<>>
    ELSE IF Start(doc, at) = 0 THEN D!Emit("html", D!From(doc, at[1]))
    ELSE Before(doc, at) \o D!Emit("cpp", D!From(doc, Start(doc, at)))

(* The cases of the scan are these two.                                    *)
LEMMA ScanCases ==
    ASSUME NEW S, NEW doc \in Seq(S), NEW at \in Places(doc), NEW scan
    PROVE  ScanOn(scan, doc, at) =
               IF GoesOn(doc, at) THEN Ahead(doc, at) \o scan[Onwards(doc, at)] ELSE LastParts(doc, at)
<1>1. /\ Len(doc) \in Nat /\ at[1] \in Nat /\ at[2] \in BOOLEAN
      /\ Start(doc, at) # 0 => at[1] <= Len(doc)
  <2>1. Start(doc, at) # 0 => Start(doc, at) \in at[1]..Len(doc)
    BY PlaceIs
  <2> QED BY <2>1, PlaceIs
<1>2. CASE at[1] > Len(doc)
  BY <1>1, <1>2 DEF ScanOn, GoesOn, LastParts
<1>3. CASE at[1] <= Len(doc) /\ Start(doc, at) = 0
  BY <1>1, <1>3 DEF ScanOn, GoesOn, LastParts
<1>4. CASE at[1] <= Len(doc) /\ Start(doc, at) # 0 /\ ~at[2]
  BY <1>1, <1>4 DEF ScanOn, GoesOn, Ahead, Onwards
<1>5. CASE at[1] <= Len(doc) /\ Start(doc, at) # 0 /\ at[2] /\ End(doc, at) = 0
  BY <1>1, <1>5 DEF ScanOn, GoesOn, LastParts
<1>6. CASE at[1] <= Len(doc) /\ Start(doc, at) # 0 /\ at[2] /\ End(doc, at) # 0
  <2>1. Ahead(doc, at) = Before(doc, at) \o Block(doc, at)
    BY <1>6, Zenon DEF Ahead
  <2>2. Onwards(doc, at) = <<End(doc, at) + 1, FALSE>>
    BY <1>6, Zenon DEF Onwards
  <2>3. GoesOn(doc, at)
    BY <1>6 DEF GoesOn
  <2> DEFINE last == Before(doc, at) \o Block(doc, at) \o scan[<<End(doc, at) + 1, FALSE>>]
  <2>4. ScanOn(scan, doc, at) = last
    <3>1. ~(at[1] > Len(doc))
      BY <1>1, <1>6
    <3> HIDE DEF last
    <3> QED BY <1>6, <3>1 DEF ScanOn, last
  <2> QED BY <2>1, <2>2, <2>3, <2>4, Zenon
<1> QED BY <1>1, <1>2, <1>3, <1>4, <1>5, <1>6

\* seq is what is emitted as it is of a part, in a language.
PartOf(seq, lang, tokens, S) ==
    seq \in Seq(PartsOf(S)) /\ tokens \in Seq(S) /\ D!Emitted(seq) = In(lang, tokens)

(* What is emitted before and of a block, and at the end.                  *)
LEMMA PlaceParts ==
    ASSUME NEW S, NEW doc \in Seq(S), NEW at \in Places(doc)
    PROVE  /\ at[1] <= Len(doc) =>
                PartOf(D!Emit("html", D!From(doc, at[1])), "html", SubSeq(doc, at[1], Len(doc)), S)
           /\ Start(doc, at) # 0 =>
                /\ PartOf(Before(doc, at), "html", SubSeq(doc, at[1], Start(doc, at) - 1), S)
                /\ PartOf(D!Emit("cpp", D!From(doc, Start(doc, at))), "cpp",
                          SubSeq(doc, Start(doc, at), Len(doc)), S)
                /\ End(doc, at) # 0 =>
                     PartOf(Block(doc, at), "cpp",
                            SubSeq(doc, Start(doc, at) + 1, End(doc, at) - 1), S)
<1> DEFINE n == Len(doc)
           p == at[1]
           start == Start(doc, at)
           end == End(doc, at)
<1>1. /\ n \in Nat /\ p \in Nat \ {0} /\ p <= n + 1
      /\ start # 0 => start \in p..n /\ (end # 0 => end \in (start + 1)..n)
  BY PlaceIs
<1>2. ASSUME NEW lang \in Kinds, NEW i \in Nat \ {0}, NEW j \in Nat, j <= n, i <= j + 1
      PROVE  PartOf(D!Emit(lang, SubSeq(doc, i, j)), lang, SubSeq(doc, i, j), S)
  <2> DEFINE s == SubSeq(doc, i, j)
  <2>1. s \in Seq(S)
    BY <1>2, W!PieceIs
  <2> HIDE DEF s
  <2>2. D!Emit(lang, s) \in Seq(PartsOf(S)) /\ D!Emitted(D!Emit(lang, s)) = In(lang, s)
    BY <2>1, EmittedOne, Zenon
  <2>3. PartOf(D!Emit(lang, s), lang, s, S)
    BY <2>1, <2>2, Zenon DEF PartOf
  <2> QED BY <2>3 DEF s
<1> HIDE DEF p, start, end, n
<1>3. "html" \in Kinds /\ "cpp" \in Kinds
  BY DEF Kinds
<1>4. ASSUME p <= n PROVE PartOf(D!Emit("html", D!From(doc, p)), "html", SubSeq(doc, p, n), S)
  <2>1. n <= n /\ p <= n + 1
    BY <1>1
  <2>2. PartOf(D!Emit("html", SubSeq(doc, p, n)), "html", SubSeq(doc, p, n), S)
    BY <1>1, <1>2, <1>3, <2>1, Zenon
  <2> QED BY <2>2, Zenon DEF D!From, n
<1>5. ASSUME start # 0
      PROVE  /\ PartOf(Before(doc, at), "html", SubSeq(doc, p, start - 1), S)
             /\ PartOf(D!Emit("cpp", D!From(doc, start)), "cpp", SubSeq(doc, start, n), S)
  <2>1. start - 1 \in Nat /\ start - 1 <= n /\ p <= (start - 1) + 1 /\ start \in Nat \ {0}
        /\ n <= n /\ start <= n + 1
    BY <1>1, <1>5
  <2>2. PartOf(D!Emit("html", SubSeq(doc, p, start - 1)), "html", SubSeq(doc, p, start - 1), S)
    BY <1>1, <1>2, <1>3, <2>1, Zenon
  <2>3. PartOf(D!Emit("cpp", SubSeq(doc, start, n)), "cpp", SubSeq(doc, start, n), S)
    BY <1>1, <1>2, <1>3, <2>1, Zenon
  <2> QED BY <2>2, <2>3, Zenon DEF D!From, n, Before, start, p
<1>6. ASSUME start # 0, end # 0
      PROVE  PartOf(Block(doc, at), "cpp", SubSeq(doc, start + 1, end - 1), S)
  <2>1. end - 1 \in Nat /\ end - 1 <= n /\ start + 1 <= (end - 1) + 1 /\ start + 1 \in Nat \ {0}
    BY <1>1, <1>6
  <2>2. PartOf(D!Emit("cpp", SubSeq(doc, start + 1, end - 1)), "cpp", SubSeq(doc, start + 1, end - 1), S)
    BY <1>2, <1>3, <2>1, Zenon
  <2> QED BY <2>2, Zenon DEF Block, start, end
<1> QED BY <1>4, <1>5, <1>6, Zenon DEF p, n, start, end

(* Those are parts.                                                        *)
LEMMA PlaceTyped ==
    ASSUME NEW S, NEW doc \in Seq(S), NEW at \in Places(doc)
    PROVE  /\ GoesOn(doc, at) => Ahead(doc, at) \in Seq(PartsOf(S))
           /\ ~GoesOn(doc, at) => LastParts(doc, at) \in Seq(PartsOf(S))
<1> DEFINE A == Seq(PartsOf(S))
<1>1. \A a \in A : \A b \in A : a \o b \in A
  OBVIOUS
<1>2. <<>> \in A
  OBVIOUS
<1>3. /\ at[1] <= Len(doc) => D!Emit("html", D!From(doc, at[1])) \in A
      /\ Start(doc, at) # 0 =>
           /\ Before(doc, at) \in A /\ D!Emit("cpp", D!From(doc, Start(doc, at))) \in A
           /\ End(doc, at) # 0 => Block(doc, at) \in A
  BY PlaceParts, Zenon DEF PartOf
<1>4. Len(doc) \in Nat /\ at[1] \in Nat
  BY PlaceIs
<1> HIDE DEF A
<1>5. ASSUME GoesOn(doc, at) PROVE Ahead(doc, at) \in A
  BY <1>1, <1>3, <1>5, Zenon DEF GoesOn, Ahead
<1>6. ASSUME ~GoesOn(doc, at) PROVE LastParts(doc, at) \in A
  <2>1. CASE at[1] > Len(doc)
    BY <1>2, <2>1 DEF LastParts
  <2>2. CASE ~(at[1] > Len(doc))
    <3>1. at[1] <= Len(doc)
      BY <1>4, <2>2
    <3> QED BY <1>1, <1>3, <2>2, <3>1, Zenon DEF LastParts
  <2> QED BY <2>1, <2>2
<1> QED BY <1>5, <1>6 DEF A

(* parse is what is emitted from the first place on.                       *)
LEMMA ParseScans ==
    ASSUME NEW S, NEW doc \in Seq(S)
    PROVE  \E scan : /\ Scans(scan, doc)
                     /\ D!parse(doc) = scan[<<1, D!TokenFrom(doc, "open", 1) = 0>>]
<1> DEFINE n == Len(doc)
           A == Seq(PartsOf(S))
           Dom == Places(doc)
           N == 2 * n + 1
           rank == [at \in Dom |-> ToGo(doc, at)]
           stop == {at \in Dom : ~GoesOn(doc, at)}
           last == [at \in Dom |-> LastParts(doc, at)]
           step == [at \in Dom |-> [a \in A |-> Ahead(doc, at) \o a]]
           next == [at \in Dom |-> Onwards(doc, at)]
           body(scan) == [at \in Dom |-> ScanOn(scan, doc, at)]
           scan == CHOOSE f : f = body(f)
<1>1. N \in Nat
  <2>1. n \in Nat
    OBVIOUS
  <2> HIDE DEF n
  <2> QED BY <2>1
<1>2. ASSUME NEW at \in Dom
      PROVE  /\ rank[at] \in 0..N
             /\ at \in stop => last[at] \in A
             /\ at \notin stop => next[at] \in Dom /\ rank[next[at]] < rank[at] /\ step[at] \in [A -> A]
  <2>1. rank[at] \in 0..N
    BY PlaceNearer
  <2>2. ASSUME at \in stop PROVE last[at] \in A
    BY <2>2, PlaceTyped
  <2>3. ASSUME at \notin stop
        PROVE  next[at] \in Dom /\ rank[next[at]] < rank[at] /\ step[at] \in [A -> A]
    <3>1. GoesOn(doc, at)
      BY <2>3
    <3>2. next[at] \in Dom /\ rank[next[at]] < rank[at]
      <4>1. Onwards(doc, at) \in Dom /\ ToGo(doc, Onwards(doc, at)) < ToGo(doc, at)
        BY <3>1, PlaceNearer
      <4> HIDE DEF Dom
      <4> QED BY <4>1
    <3>3. \A a \in A : Ahead(doc, at) \o a \in A
      <4>1. Ahead(doc, at) \in A
        BY <3>1, PlaceTyped
      <4> DEFINE b == Ahead(doc, at)
      <4> HIDE DEF b
      <4>2. b \in A
        BY <4>1 DEF b
      <4>3. \A a \in A : b \o a \in A
        BY <4>2
      <4> QED BY <4>3 DEF b
    <3> HIDE DEF A
    <3>4. step[at] \in [A -> A]
      BY <3>3
    <3> QED BY <3>2, <3>4
  <2> QED BY <2>1, <2>2, <2>3
<1>3. W!Recursion(Dom, A, N, rank, stop, last, step, next)
  <2> HIDE DEF Dom, A, N, rank, stop, last, step, next
  <2> QED BY <1>2 DEF W!Recursion
<1>4. PICK f \in [Dom -> A] : W!Solves(f, Dom, stop, last, step, next)
  <2> HIDE DEF Dom, A, N, rank, stop, last, step, next
  <2> QED BY <1>1, <1>3, W!RecursionExists
<1>5. ASSUME NEW at \in Dom PROVE f[at] = ScanOn(f, doc, at)
  <2>1. f[at] = IF at \in stop THEN last[at] ELSE step[at][f[next[at]]]
    <3> HIDE DEF Dom, stop, last, step, next
    <3> QED BY <1>4 DEF W!Solves
  <2>2. ScanOn(f, doc, at) =
            IF GoesOn(doc, at) THEN Ahead(doc, at) \o f[Onwards(doc, at)] ELSE LastParts(doc, at)
    BY ScanCases, Zenon
  <2>3. CASE ~GoesOn(doc, at)
    BY <2>1, <2>2, <2>3, Zenon
  <2>4. CASE GoesOn(doc, at)
    <3>1. Onwards(doc, at) \in Dom
      BY <2>4, PlaceNearer
    <3> DEFINE b == f[Onwards(doc, at)]
               a == Ahead(doc, at)
    <3>2. b \in A
      <4> HIDE DEF Dom, A
      <4> QED BY <1>4, <3>1
    <3>3. f[at] = step[at][b]
      <4>1. at \notin stop
        BY <2>4
      <4>2. next[at] = Onwards(doc, at)
        OBVIOUS
      <4> HIDE DEF stop, step, next, last
      <4> QED BY <2>1, <4>1, <4>2
    <3>4. step[at][b] = a \o b
      <4> HIDE DEF A, b, Dom
      <4>1. step[at] = [c \in A |-> Ahead(doc, at) \o c]
        OBVIOUS
      <4> HIDE DEF step
      <4> QED BY <3>2, <4>1
    <3> QED BY <2>2, <2>4, <3>3, <3>4, Zenon
  <2> QED BY <2>3, <2>4
<1>6. f = body(f)
  <2> DEFINE g == body(f)
  <2>1. f = [at \in Dom |-> f[at]]
    <3> HIDE DEF Dom
    <3> QED BY <1>4
  <2>2. [at \in Dom |-> f[at]] = [at \in Dom |-> ScanOn(f, doc, at)]
    BY <1>5, Zenon
  <2> QED BY <2>1, <2>2, Zenon
<1>7. scan = body(scan)
  <2> HIDE DEF body
  <2> QED BY <1>6
<1>8. D!parse(doc) = scan[<<1, D!TokenFrom(doc, "open", 1) = 0>>]
  BY Zenon DEF D!parse, scan, Places, ScanOn, Start, End, Before, Block
<1> HIDE DEF scan
<1>9. Scans(scan, doc)
  BY <1>7, Zenon DEF Scans
<1> QED BY <1>8, <1>9

\* What Languages makes of a place that it has reached in HTML.
BlockRead(st, doc, at) ==
    LET p == at[1]
        start == Start(doc, at)
        end == End(doc, at)
    IN /\ start = 0 => RunsOn(st, doc, "html", p - 1, Len(doc))
       /\ start # 0 =>
            /\ RunsOn(st, doc, "html", p - 1, start - 1)
            /\ st[start].out = st[start - 1].out
            /\ end = 0 => st[Len(doc)].kind = "cpp"
            /\ end # 0 =>
                 /\ RunsOn(st, doc, "cpp", start, end - 1)
                 /\ st[end].kind = "html" /\ st[end].out = st[end - 1].out

(* It reads to the next delimiter, and to the end of the block.            *)
LEMMA PlaceRead ==
    ASSUME NEW S, NEW doc \in Seq(S), NEW st, Reads(st, doc, S), NEW at \in Places(doc),
           at[1] <= Len(doc), st[at[1] - 1].kind = "html"
    PROVE  BlockRead(st, doc, at)
<1> DEFINE n == Len(doc)
           p == at[1]
           start == Start(doc, at)
           end == End(doc, at)
<1>1. /\ n \in Nat /\ p \in Nat \ {0} /\ p <= n
      /\ FoundFrom(doc, "open", p, start)
      /\ start # 0 => /\ start \in p..n /\ FoundFrom(doc, "close", start, end)
                      /\ end # 0 => end \in (start + 1)..n
  BY PlaceIs
<1>2. "html" \in Kinds /\ "cpp" \in Kinds /\ Until("html") = "open" /\ Until("cpp") = "close"
  BY DEF Kinds, Until
<1>3. \A i \in 1..n : st[i] = ReadOn(st[i - 1], doc[i])
  BY DEF Reads
<1>4. p - 1 \in 0..n /\ (p - 1) + 1 = p /\ st[p - 1].kind = "html"
  BY <1>1
<1>5. ASSUME NEW lang \in Kinds, NEW i \in 0..n, NEW j \in i..n, st[i].kind = lang,
             \A k \in (i + 1)..j : doc[k] # Until(lang)
      PROVE  RunsOn(st, doc, lang, i, j)
  BY <1>5, LanguageRuns, Zenon
<1> HIDE DEF n, p, start, end
<1>6. ASSUME start = 0 PROVE RunsOn(st, doc, "html", p - 1, n)
  <2>1. \A k \in ((p - 1) + 1)..n : doc[k] # Until("html")
    BY <1>1, <1>2, <1>4, <1>6 DEF FoundFrom, n
  <2>2. n \in (p - 1)..n
    BY <1>1
  <2> QED BY <1>2, <1>4, <1>5, <2>1, <2>2, Zenon
<1>7. ASSUME start # 0
      PROVE  /\ RunsOn(st, doc, "html", p - 1, start - 1)
             /\ st[start].out = st[start - 1].out
             /\ end = 0 => st[n].kind = "cpp"
             /\ end # 0 => /\ RunsOn(st, doc, "cpp", start, end - 1)
                           /\ st[end].kind = "html" /\ st[end].out = st[end - 1].out
  <2>1. /\ start \in p..n /\ doc[start] = "open" /\ start \in 1..n /\ start \in 0..n
        /\ start - 1 \in (p - 1)..n /\ start \in Nat
    BY <1>1, <1>7 DEF FoundFrom, n
  <2>2. RunsOn(st, doc, "html", p - 1, start - 1)
    <3>1. \A k \in ((p - 1) + 1)..(start - 1) : doc[k] # Until("html")
      BY <1>1, <1>2, <1>4, <1>7 DEF FoundFrom
    <3> QED BY <1>2, <1>4, <1>5, <2>1, <3>1, Zenon
  <2>3. st[start - 1].kind = "html"
    BY <2>2 DEF RunsOn
  <2>4. st[start] = [kind |-> "cpp", out |-> st[start - 1].out]
    BY <1>3, <2>1, <2>3 DEF ReadOn
  <2>5. st[start].kind = "cpp" /\ st[start].out = st[start - 1].out
    BY <2>4
  <2>6. FoundFrom(doc, "close", start, end)
    BY <1>1, <1>7
  <2>7. ASSUME end = 0 PROVE st[n].kind = "cpp"
    <3>1. \A k \in (start + 1)..n : doc[k] # Until("cpp")
      BY <1>1, <1>2, <2>1, <2>6, <2>7 DEF FoundFrom, n
    <3>2. n \in start..n
      BY <1>1, <2>1
    <3>3. RunsOn(st, doc, "cpp", start, n)
      BY <1>2, <1>5, <2>1, <2>5, <3>1, <3>2, Zenon
    <3> QED BY <3>3 DEF RunsOn
  <2>8. ASSUME end # 0
        PROVE  /\ RunsOn(st, doc, "cpp", start, end - 1)
               /\ st[end].kind = "html" /\ st[end].out = st[end - 1].out
    <3>1. end \in (start + 1)..n /\ doc[end] = "close" /\ end \in 1..n /\ end - 1 \in start..n
      BY <1>1, <1>7, <2>1, <2>6, <2>8 DEF FoundFrom
    <3>2. \A k \in (start + 1)..(end - 1) : doc[k] # Until("cpp")
      BY <1>1, <1>2, <2>1, <2>6, <2>8 DEF FoundFrom
    <3>3. RunsOn(st, doc, "cpp", start, end - 1)
      BY <1>2, <1>5, <2>1, <2>5, <3>1, <3>2, Zenon
    <3>4. st[end - 1].kind = "cpp"
      BY <3>3 DEF RunsOn
    <3>5. st[end] = [kind |-> "html", out |-> st[end - 1].out]
      BY <1>3, <3>1, <3>4 DEF ReadOn
    <3> QED BY <3>3, <3>5
  <2> QED BY <2>2, <2>5, <2>7, <2>8
<1> QED BY <1>6, <1>7, Zenon DEF BlockRead, n, p, start, end

\* What is emitted from a place on is what Languages reads from there on.
RightFrom(scan, st, doc, at, S) ==
    /\ scan[at] \in Seq(PartsOf(S))
    /\ st[at[1] - 1].kind = "html" =>
           st[at[1] - 1].out \o D!Emitted(scan[at]) = st[Len(doc)].out

\* Sequences are put one behind the other in any order.
InAnyOrder(a, b, c, d) ==
    /\ a \o (b \o c) = (a \o b) \o c
    /\ a \o ((b \o c) \o d) = ((a \o b) \o c) \o d

(* They are.                                                               *)
LEMMA JoinedIs ==
    ASSUME NEW S, NEW a \in Seq(S), NEW b \in Seq(S), NEW c \in Seq(S), NEW d \in Seq(S)
    PROVE  InAnyOrder(a, b, c, d)
<1> DEFINE e == b \o c
           f == a \o b
<1>1. f \o c = a \o e
  BY W!ConcatAssociative
<1>2. e \in Seq(S) /\ f \in Seq(S)
  OBVIOUS
<1> HIDE DEF e, f
<1>3. (a \o e) \o d = a \o (e \o d)
  BY <1>2, W!ConcatAssociative
<1> QED BY <1>1, <1>3 DEF e, f, InAnyOrder

(* It is right from a place on, if it is from where it goes on.            *)
LEMMA ParseStep ==
    ASSUME NEW S, NEW doc \in Seq(S), NEW st, Reads(st, doc, S), st[Len(doc)].kind = "html",
           NEW scan, Scans(scan, doc), NEW at \in Places(doc),
           GoesOn(doc, at) => RightFrom(scan, st, doc, Onwards(doc, at), S)
    PROVE  RightFrom(scan, st, doc, at, S)
<1> DEFINE n == Len(doc)
           p == at[1]
           start == Start(doc, at)
           end == End(doc, at)
           A == Seq(PartsOf(S))
           P == Kinds \X S
           Q == Seq(P)
           e(x) == D!Emitted(x)
           a == st[p - 1].out
           piece == SubSeq(doc, p, start - 1)
           block == SubSeq(doc, start + 1, end - 1)
           onward == Onwards(doc, at)
           others == scan[onward]
<1>1. /\ n \in Nat /\ p \in Nat \ {0} /\ p <= n + 1 /\ at[2] \in BOOLEAN
      /\ start # 0 => start \in p..n /\ (end # 0 => end \in (start + 1)..n)
  BY PlaceIs
<1>2. scan[at] = IF GoesOn(doc, at) THEN Ahead(doc, at) \o others ELSE LastParts(doc, at)
  BY ScanCases, Zenon DEF Scans
<1>3. \A i \in 0..n : st[i].out \in Q /\ st[i].kind \in Kinds
  <2>1. \A i \in 0..n : st[i] \in States(S)
    BY DEF Reads
  <2> QED BY <2>1 DEF States
<1>4. \A x \in A : \A y \in A : x \o y \in A /\ e(x) \in Q /\ e(x \o y) = e(x) \o e(y)
  BY EmittedJoined
<1>5. p <= n => PartOf(D!Emit("html", D!From(doc, p)), "html", SubSeq(doc, p, n), S)
  BY PlaceParts
<1>6. start # 0 => /\ PartOf(Before(doc, at), "html", piece, S)
                   /\ end # 0 => PartOf(Block(doc, at), "cpp", block, S)
  BY PlaceParts
<1>7. scan[at] \in A
  <2>1. CASE GoesOn(doc, at)
    <3>1. Ahead(doc, at) \in A /\ others \in A
      BY <2>1, PlaceTyped DEF RightFrom
    <3> HIDE DEF A, others
    <3> QED BY <1>2, <1>4, <2>1, <3>1
  <2>2. CASE ~GoesOn(doc, at)
    BY <1>2, <2>2, PlaceTyped
  <2> QED BY <2>1, <2>2
<1>8. SUFFICES ASSUME st[p - 1].kind = "html"
               PROVE  a \o e(scan[at]) = st[n].out
  BY <1>7, Zenon DEF RightFrom
<1>9. p - 1 \in 0..n /\ (p - 1) + 1 = p /\ a \in Q
  BY <1>1, <1>3
<1>10. p <= n => BlockRead(st, doc, at)
  BY <1>8, PlaceRead
<1> HIDE DEF n, p, start, end, A, Q, P, e, a, piece, block, onward, others
<1>11. CASE p > n
  <2>1. p - 1 = n /\ ~GoesOn(doc, at)
    BY <1>1, <1>11 DEF GoesOn, n, p
  <2>2. scan[at] = <<>>
    BY <1>2, <1>11, <2>1 DEF LastParts, n, p
  <2>3. e(<<>>) = <<>>
    <3>1. <<>> \in Seq(PartsOf(S))
      OBVIOUS
    <3>2. Tokens(S) \in [PartsOf(S) -> Seq(Kinds \X S)]
      BY TokensTyped
    <3>3. W!Flat(Tokens(S), <<>>) = <<>>
      BY <3>2, W!FlatNone, Zenon
    <3> QED BY <3>1, <3>3, EmittedIs, Zenon DEF e
  <2>4. a \o <<>> = a
    BY <1>9 DEF Q
  <2>5. a = st[n].out
    BY <2>1 DEF a
  <2> QED BY <2>2, <2>3, <2>4, <2>5
<1>12. CASE p <= n /\ start = 0
  <2>1. RunsOn(st, doc, "html", p - 1, n)
    BY <1>10, <1>12, Zenon DEF BlockRead, n, p, start
  <2>2. st[n].out = a \o In("html", SubSeq(doc, p, n))
    BY <1>9, <2>1 DEF RunsOn, a
  <2>3. ~GoesOn(doc, at) /\ ~(p > n)
    BY <1>1, <1>12 DEF GoesOn, start
  <2>4. scan[at] = D!Emit("html", D!From(doc, p))
    BY <1>2, <1>12, <2>3, Zenon DEF LastParts, n, p, start
  <2>5. e(scan[at]) = In("html", SubSeq(doc, p, n))
    BY <1>5, <1>12, <2>4, Zenon DEF PartOf, e
  <2> QED BY <2>2, <2>5
<1>13. ASSUME p <= n, start # 0
       PROVE  /\ st[start - 1].out = a \o e(Before(doc, at))
              /\ Before(doc, at) \in A /\ e(Before(doc, at)) \in Q
              /\ start - 1 \in 0..n /\ start \in 0..n
  <2>1. RunsOn(st, doc, "html", p - 1, start - 1)
    BY <1>10, <1>13, Zenon DEF BlockRead, p, start
  <2>2. st[start - 1].out = a \o In("html", piece)
    BY <1>9, <2>1 DEF RunsOn, a, piece
  <2>3. e(Before(doc, at)) = In("html", piece) /\ Before(doc, at) \in A
    BY <1>6, <1>13, Zenon DEF PartOf, e, A
  <2>4. e(Before(doc, at)) \in Q
    BY <1>4, <2>3
  <2>5. start - 1 \in 0..n /\ start \in 0..n
    BY <1>1, <1>13
  <2> QED BY <2>2, <2>3, <2>4, <2>5
<1>14. CASE p <= n /\ start # 0 /\ at[2] /\ end = 0
  <2>1. st[n].kind = "cpp"
    BY <1>10, <1>14, Zenon DEF BlockRead, n, start, end
  <2> QED BY <2>1 DEF n
<1>15. CASE p <= n /\ start # 0 /\ ~at[2]
  <2>1. GoesOn(doc, at)
    BY <1>15 DEF GoesOn, n, p, start
  <2>2. onward = <<start, TRUE>> /\ Ahead(doc, at) = Before(doc, at)
    BY <1>15, Zenon DEF onward, Onwards, Ahead, start
  <2>3. onward[1] = start
    BY <2>2
  <2>4. others \in A /\ (st[start - 1].kind = "html" => st[start - 1].out \o e(others) = st[n].out)
    <3>1. RightFrom(scan, st, doc, onward, S)
      BY <2>1 DEF onward
    <3> QED BY <2>3, <3>1, Zenon DEF RightFrom, others, A, e, n
  <2>5. st[start - 1].kind = "html"
    BY <1>10, <1>15, Zenon DEF BlockRead, RunsOn, start, n
  <2> DEFINE b == e(Before(doc, at))
             c == e(others)
  <2>6. b \in Q /\ c \in Q /\ st[start - 1].out = a \o b
    BY <1>4, <1>13, <1>15, <2>4
  <2>7. e(scan[at]) = b \o c
    <3>1. scan[at] = Before(doc, at) \o others
      BY <1>2, <2>1, <2>2
    <3>2. Before(doc, at) \in A
      BY <1>13, <1>15
    <3> DEFINE x == Before(doc, at)
    <3> HIDE DEF x
    <3>3. e(x \o others) = e(x) \o e(others)
      BY <1>4, <2>4, <3>2 DEF x
    <3> QED BY <3>1, <3>3 DEF x
  <2> HIDE DEF b
  <2>8. (a \o b) \o c = st[n].out
    BY <2>4, <2>5, <2>6
  <2> HIDE DEF c
  <2>9. a \o (b \o c) = (a \o b) \o c
    <3>1. a \in Seq(P) /\ b \in Seq(P) /\ c \in Seq(P)
      BY <1>9, <2>6 DEF Q
    <3>2. InAnyOrder(a, b, c, c)
      BY <3>1, JoinedIs, Zenon
    <3> QED BY <3>2, Zenon DEF InAnyOrder
  <2> QED BY <2>7, <2>8, <2>9
<1>16. CASE p <= n /\ start # 0 /\ at[2] /\ end # 0
  <2>1. GoesOn(doc, at)
    BY <1>16 DEF GoesOn, n, p, start, end
  <2>2. onward = <<end + 1, FALSE>> /\ Ahead(doc, at) = Before(doc, at) \o Block(doc, at)
    BY <1>16, Zenon DEF onward, Onwards, Ahead, end
  <2>3. onward[1] = end + 1 /\ (end + 1) - 1 = end
    BY <1>1, <1>16, <2>2
  <2>4. others \in A /\ (st[end].kind = "html" => st[end].out \o e(others) = st[n].out)
    <3>1. RightFrom(scan, st, doc, onward, S)
      BY <2>1 DEF onward
    <3>2. onward[1] - 1 = end
      BY <2>3
    <3> QED BY <3>1, <3>2, Zenon DEF RightFrom, others, A, e, n
  <2>5. /\ RunsOn(st, doc, "cpp", start, end - 1) /\ st[start].out = st[start - 1].out
        /\ st[end].kind = "html" /\ st[end].out = st[end - 1].out
    BY <1>10, <1>16, Zenon DEF BlockRead, start, end, n
  <2>6. e(Block(doc, at)) = In("cpp", block) /\ Block(doc, at) \in A
    BY <1>6, <1>16, Zenon DEF PartOf, e, A
  <2> DEFINE b == e(Before(doc, at))
             c == e(Block(doc, at))
             d == e(others)
             x == Before(doc, at)
             y == Block(doc, at)
  <2>7. b \in Q /\ c \in Q /\ d \in Q /\ x \in A /\ y \in A /\ x \o y \in A
    BY <1>4, <1>13, <1>16, <2>4, <2>6
  <2>8. st[end].out = (a \o b) \o c
    <3>1. st[end - 1].out = st[start].out \o In("cpp", block)
      BY <2>5 DEF RunsOn, block
    <3>2. st[start - 1].out = a \o b
      BY <1>13, <1>16
    <3> QED BY <2>5, <2>6, <3>1, <3>2
  <2>9. e(scan[at]) = (b \o c) \o d
    <3>1. scan[at] = (x \o y) \o others
      BY <1>2, <2>1, <2>2
    <3>2. e(x \o y) = b \o c
      BY <1>4, <2>7
    <3> HIDE DEF x, y, b, c, d
    <3>3. e((x \o y) \o others) = e(x \o y) \o e(others)
      <4> DEFINE z == x \o y
      <4>1. z \in A
        BY <2>7
      <4> HIDE DEF z
      <4>2. e(z \o others) = e(z) \o e(others)
        BY <1>4, <2>4, <4>1
      <4> QED BY <4>2 DEF z
    <3> QED BY <3>1, <3>2, <3>3 DEF d
  <2> HIDE DEF b, c, d, x, y
  <2>10. ((a \o b) \o c) \o d = st[n].out
    BY <2>4, <2>5, <2>8 DEF d
  <2>11. a \o ((b \o c) \o d) = ((a \o b) \o c) \o d
    <3>1. a \in Seq(P) /\ b \in Seq(P) /\ c \in Seq(P) /\ d \in Seq(P)
      BY <1>9, <2>7 DEF Q
    <3>2. InAnyOrder(a, b, c, d)
      BY <3>1, JoinedIs, Zenon
    <3> QED BY <3>2, Zenon DEF InAnyOrder
  <2> QED BY <2>9, <2>10, <2>11
<1> QED BY <1>1, <1>11, <1>12, <1>14, <1>15, <1>16

(* Each token of a template is emitted in the language it is in, once and  *)
(* in order, when every block of C++ is closed.                            *)
LEMMA ParseRight ==
    ASSUME NEW S, NEW doc \in Seq(S), D!Languages(doc).kind = "html"
    PROVE  /\ D!parse(doc) \in Seq(PartsOf(S))
           /\ D!Emitted(D!parse(doc)) = D!Languages(doc).out
           /\ D!Languages(doc).out \in Seq(Kinds \X S)
<1> DEFINE n == Len(doc)
<1>1. PICK st : Reads(st, doc, S) /\ D!Languages(doc) = st[n]
  BY LanguagesRead
<1>2. PICK scan : /\ Scans(scan, doc)
                  /\ D!parse(doc) = scan[<<1, D!TokenFrom(doc, "open", 1) = 0>>]
  BY ParseScans
<1>3. st[n].kind = "html"
  BY <1>1
<1> DEFINE Right(at) == RightFrom(scan, st, doc, at, S)
           T == {r \in Nat : \E at \in Places(doc) : ToGo(doc, at) = r /\ ~Right(at)}
<1>4. ASSUME NEW at \in Places(doc), GoesOn(doc, at) => Right(Onwards(doc, at)) PROVE Right(at)
  <2> HIDE DEF n
  <2> QED BY <1>1, <1>2, <1>3, <1>4, ParseStep, Zenon DEF n
<1>5. ASSUME NEW at \in Places(doc) PROVE ToGo(doc, at) \in Nat
  <2>1. ToGo(doc, at) \in 0..(2 * n + 1)
    BY PlaceNearer
  <2> QED BY <2>1
<1> HIDE DEF Right
<1>6. \A at \in Places(doc) : Right(at)
  <2> SUFFICES ASSUME NEW x \in Places(doc), ~Right(x) PROVE FALSE
    OBVIOUS
  <2>1. T # {} /\ T \subseteq Nat
    BY <1>5
  <2>2. PICK r \in T : \A q \in T : r <= q
    <3> HIDE DEF T
    <3> QED BY <2>1, W!LeastNumber
  <2>3. PICK at \in Places(doc) : ToGo(doc, at) = r /\ ~Right(at)
    BY <2>2
  <2>4. GoesOn(doc, at) /\ ~Right(Onwards(doc, at))
    BY <1>4, <2>3
  <2>5. Onwards(doc, at) \in Places(doc) /\ ToGo(doc, Onwards(doc, at)) < ToGo(doc, at)
    BY <2>4, PlaceNearer
  <2> DEFINE y == Onwards(doc, at)
  <2>6. ToGo(doc, y) \in T
    BY <1>5, <2>4, <2>5
  <2>7. r <= ToGo(doc, y) /\ ToGo(doc, y) \in Nat /\ r \in Nat
    BY <1>5, <2>2, <2>5, <2>6
  <2> HIDE DEF y
  <2> QED BY <2>3, <2>5, <2>7 DEF y
<1> DEFINE m == D!TokenFrom(doc, "open", 1) = 0
           first == <<1, m>>
<1>7. first \in Places(doc) /\ first[1] = 1
  <2>1. m \in BOOLEAN
    OBVIOUS
  <2>2. 1 \in 1..(n + 1)
    OBVIOUS
  <2> HIDE DEF m
  <2> QED BY <2>1, <2>2 DEF Places
<1>8. Right(first)
  BY <1>6, <1>7
<1>9. D!parse(doc) = scan[first]
  BY <1>2
<1> HIDE DEF first
<1>10. st[0].kind = "html" /\ st[0].out = <<>>
  BY <1>1 DEF Reads
<1>11. scan[first] \in Seq(PartsOf(S)) /\ st[0].out \o D!Emitted(scan[first]) = st[n].out
  <2>1. first[1] - 1 = 0
    BY <1>7
  <2> QED BY <1>8, <1>10, <2>1, Zenon DEF Right, RightFrom, n
<1>12. D!Emitted(scan[first]) \in Seq(Kinds \X S)
  BY <1>11, EmittedJoined
<1>13. <<>> \o D!Emitted(scan[first]) = D!Emitted(scan[first])
  <2> DEFINE e == D!Emitted(scan[first])
             P == Kinds \X S
  <2>1. e \in Seq(P)
    BY <1>12
  <2> HIDE DEF e, P
  <2>2. <<>> \o e = e
    BY <2>1
  <2> QED BY <2>2 DEF e
<1>14. D!Emitted(scan[first]) = st[n].out
  BY <1>10, <1>11, <1>13
<1> QED BY <1>1, <1>9, <1>11, <1>12, <1>14

\* The C++ directive of a template, as a token and where it is one.
Directive == <<"cpp", CppInclude>>
\* An element on its own, unless it is the one to leave out.
KeptOne(x, out) == IF x = out THEN <<>> ELSE <<x>>

Keeping(S, out) == [x \in S |-> KeptOne(x, out)]
LeftOut(seq, out, S) ==
    /\ Keeping(S, out) \in [S -> Seq(S)]
    /\ D!Without(seq, out) = W!Flat(Keeping(S, out), seq) /\ D!Without(seq, out) \in Seq(S)

(* Without leaves out an element.                                          *)
LEMMA WithoutIs ==
    ASSUME NEW S, NEW seq \in Seq(S), NEW out
    PROVE  LeftOut(seq, out, S)
<1> DEFINE n == Len(seq)
           g == [x \in S |-> KeptOne(x, out)]
           a == [i \in DOMAIN seq |-> IF seq[i] = out THEN <<>> ELSE <<seq[i]>>]
           b == W!Each(g, seq)
<1>1. DOMAIN seq = 1..n /\ \A i \in 1..n : seq[i] \in S
  OBVIOUS
<1>2. g \in [S -> Seq(S)]
  <2>1. \A x \in S : KeptOne(x, out) \in Seq(S)
    BY DEF KeptOne
  <2> QED BY <2>1
<1>3. a = [i \in 1..n |-> KeptOne(seq[i], out)]
  BY <1>1, Zenon DEF KeptOne
<1>4. b = [i \in 1..n |-> g[seq[i]]]
  BY <1>1, Zenon DEF W!Each
<1>5. ASSUME NEW i \in 1..n PROVE g[seq[i]] = KeptOne(seq[i], out)
  BY <1>1, Zenon
<1>6. a = b
  BY <1>3, <1>4, <1>5, Zenon
<1>7. D!Without(seq, out) = D!FlattenSeq(a)
  BY Zenon DEF D!Without
<1> HIDE DEF a, b
<1>8. D!Without(seq, out) = W!Flat(g, seq)
  BY <1>6, <1>7, SameFlatten, Zenon DEF W!Flat, b
<1> HIDE DEF g
<1>9. W!Flat(g, seq) \in Seq(S)
  BY <1>2, W!EachIs, Zenon
<1> QED BY <1>2, <1>8, <1>9 DEF g, Keeping, LeftOut

\* Each token of a text on its own, with the language of the text.
Alone(lang, S) == [x \in S |-> << <<lang, x>> >>]

(* The tokens of a text, one by one.                                       *)
LEMMA InFlat ==
    ASSUME NEW S, NEW lang \in Kinds, NEW seq \in Seq(S)
    PROVE  /\ Alone(lang, S) \in [S -> Seq(Kinds \X S)]
           /\ In(lang, seq) = W!Flat(Alone(lang, S), seq)
<1> DEFINE P == Kinds \X S
           r == [x \in S |-> <<lang, x>>]
           g == Alone(lang, S)
<1>1. r \in [S -> P]
  OBVIOUS
<1>2. g \in [S -> Seq(P)]
  <2>1. ASSUME NEW x \in S PROVE << <<lang, x>> >> \in Seq(P)
    <3> DEFINE y == <<lang, x>>
    <3>1. y \in P
      OBVIOUS
    <3> HIDE DEF y, P
    <3>2. <<y>> \in Seq(P)
      BY <3>1
    <3> QED BY <3>2 DEF y
  <2> HIDE DEF P
  <2> QED BY <2>1 DEF Alone
<1>3. W!Renames(g, r, S)
  BY Zenon DEF Alone, W!Renames
<1>4. In(lang, seq) = [j \in DOMAIN seq |-> r[seq[j]]]
  <2>1. \A j \in DOMAIN seq : seq[j] \in S
    OBVIOUS
  <2>2. \A j \in DOMAIN seq : r[seq[j]] = <<lang, seq[j]>>
    BY <2>1, Zenon
  <2> HIDE DEF r
  <2> QED BY <2>2, Zenon DEF In
<1> HIDE DEF r, g, P
<1>5. W!Renamed(g, r, seq)
  BY <1>1, <1>2, <1>3, W!FlatRenames, Zenon
<1>6. In(lang, seq) = W!Flat(g, seq)
  BY <1>4, <1>5, Zenon DEF W!Renamed
<1> QED BY <1>2, <1>6 DEF g, P

(* Leaving out the directive before or after the tokens are given their    *)
(* language is the same in C++, and leaves HTML as it is.                  *)
LEMMA InWithout ==
    ASSUME NEW S, NEW lang \in Kinds, NEW seq \in Seq(S)
    PROVE  D!Without(In(lang, seq), Directive) =
               In(lang, IF lang = "cpp" THEN D!Without(seq, CppInclude) ELSE seq)
<1> DEFINE P == Kinds \X S
           g == Alone(lang, S)
           h == Keeping(P, Directive)
           w == Keeping(S, CppInclude)
           u == In(lang, seq)
           k == [x \in S |-> IF lang = "cpp" THEN (IF x = CppInclude THEN <<>> ELSE << <<lang, x>> >>)
                             ELSE << <<lang, x>> >>]
<1>1. g \in [S -> Seq(P)] /\ u = W!Flat(g, seq)
  BY InFlat, Zenon
<1>2. u \in Seq(P)
  BY InIs
<1>3. h \in [P -> Seq(P)] /\ D!Without(u, Directive) = W!Flat(h, u)
  <2>1. LeftOut(u, Directive, P)
    BY <1>2, WithoutIs, Zenon
  <2> QED BY <2>1, Zenon DEF LeftOut
<1>4. w \in [S -> Seq(S)] /\ D!Without(seq, CppInclude) = W!Flat(w, seq) /\ D!Without(seq, CppInclude) \in Seq(S)
  <2>1. LeftOut(seq, CppInclude, S)
    BY WithoutIs, Zenon
  <2> QED BY <2>1, Zenon DEF LeftOut
<1>5. \A x \in S : <<lang, x>> \in P /\ g[x] = << <<lang, x>> >>
  BY Zenon DEF Alone
<1>6. \A x \in S : h[<<lang, x>>] = k[x]
  <2>1. ASSUME NEW x \in S PROVE KeptOne(<<lang, x>>, Directive) = k[x]
    BY DEF KeptOne, Directive, Kinds
  <2>2. \A x \in S : h[<<lang, x>>] = KeptOne(<<lang, x>>, Directive)
    BY <1>5, Zenon DEF Keeping
  <2> QED BY <2>1, <2>2, Zenon
<1>7. k \in [S -> Seq(P)]
  <2>1. ASSUME NEW x \in S PROVE k[x] \in Seq(P)
    <3>1. g[x] \in Seq(P)
      BY <1>1
    <3> HIDE DEF P, g
    <3>2. << <<lang, x>> >> \in Seq(P)
      BY <1>5, <3>1
    <3>3. <<>> \in Seq(P)
      OBVIOUS
    <3> QED BY <3>2, <3>3
  <2> HIDE DEF P
  <2>2. k = [x \in S |-> k[x]]
    OBVIOUS
  <2> HIDE DEF k
  <2> QED BY <2>1, <2>2
<1> DEFINE kk(x) == k[x]
<1> HIDE DEF h, w, g, P, u
<1>8. W!Makes(k, h, g, S)
  <2>1. ASSUME NEW x \in S PROVE k[x] = W!Flat(h, g[x])
    <3> DEFINE y == <<lang, x>>
    <3>1. y \in P /\ g[x] = <<y>> /\ h[y] = k[x]
      BY <1>5, <1>6, Zenon
    <3> HIDE DEF y, k
    <3>2. W!Flat(h, <<y>>) = h[y]
      BY <1>3, <3>1, W!FlatNone, Zenon
    <3> QED BY <3>1, <3>2, Zenon
  <2> HIDE DEF k
  <2> QED BY <2>1, Zenon DEF W!Makes
<1>9. W!Flat(h, W!Flat(g, seq)) = W!Flat(k, seq)
  <2> HIDE DEF k
  <2>1. W!MadeOf(k, h, g, seq)
    BY <1>1, <1>3, <1>7, <1>8, W!FlatFlat, Zenon
  <2> QED BY <2>1, Zenon DEF W!MadeOf
<1>10. D!Without(u, Directive) = W!Flat(k, seq)
  BY <1>1, <1>3, <1>9, Zenon
<1>11. CASE lang = "cpp"
  <2>1. \A x \in S : k[x] = IF x = CppInclude THEN <<>> ELSE << <<lang, x>> >>
    BY <1>11, Zenon
  <2> HIDE DEF k
  <2>2. W!Makes(k, g, w, S)
    <3>1. ASSUME NEW x \in S PROVE k[x] = W!Flat(g, w[x])
      <4>1. w[x] = KeptOne(x, CppInclude)
        BY Zenon DEF w, Keeping
      <4>2. W!Flat(g, <<>>) = <<>> /\ W!Flat(g, <<x>>) = g[x]
        BY <1>1, W!FlatNone, Zenon
      <4>3. CASE x = CppInclude
        <5>1. w[x] = <<>> /\ k[x] = <<>>
          BY <2>1, <4>1, <4>3, Zenon DEF KeptOne
        <5> QED BY <4>2, <5>1, Zenon
      <4>4. CASE x # CppInclude
        <5>1. w[x] = <<x>> /\ k[x] = << <<lang, x>> >>
          BY <2>1, <4>1, <4>4, Zenon DEF KeptOne
        <5> QED BY <1>5, <4>2, <5>1, Zenon
      <4> QED BY <4>3, <4>4
    <3> QED BY <3>1, Zenon DEF W!Makes
  <2>3. W!MadeOf(k, g, w, seq)
    BY <1>1, <1>4, <1>7, <2>2, W!FlatFlat, Zenon
  <2>4. W!Flat(g, D!Without(seq, CppInclude)) = W!Flat(k, seq)
    BY <1>4, <2>3, Zenon DEF W!MadeOf
  <2> DEFINE v == D!Without(seq, CppInclude)
  <2>5. v \in Seq(S)
    BY <1>4
  <2> HIDE DEF v
  <2>6. In(lang, v) = W!Flat(g, v)
    BY <2>5, InFlat, Zenon DEF g
  <2> QED BY <1>10, <1>11, <2>4, <2>6, Zenon DEF u, v
<1>12. CASE lang # "cpp"
  <2>1. \A x \in S : k[x] = g[x]
    BY <1>5, <1>12, Zenon
  <2>2. k = g
    <3>1. k = [x \in S |-> k[x]] /\ g = [x \in S |-> g[x]]
      <4> HIDE DEF k
      <4> QED BY <1>1, <1>7
    <3> HIDE DEF k
    <3>2. [x \in S |-> k[x]] = [x \in S |-> g[x]]
      BY <2>1, Zenon
    <3> QED BY <3>1, <3>2
  <2> QED BY <1>1, <1>10, <1>12, <2>2, Zenon DEF u
<1> QED BY <1>11, <1>12

\* A part without its directives, and parts without theirs.
Cut(x) == IF x.kind = "cpp" THEN [x EXCEPT !.part = D!extract_cpp_includes_and_remove(@).code] ELSE x
Body(parts) == [i \in DOMAIN parts |-> Cut(parts[i])]

(* What is emitted of a part without them.                                 *)
LEMMA CutIs ==
    ASSUME NEW S, NEW x \in PartsOf(S)
    PROVE  /\ Cut(x) \in PartsOf(S)
           /\ In(Cut(x).kind, Cut(x).part) = D!Without(In(x.kind, x.part), Directive)
<1> DEFINE s == x.part
           v == D!Without(s, CppInclude)
<1>1. x.kind \in Kinds /\ s \in Seq(S) /\ x = [kind |-> x.kind, part |-> s]
  BY DEF PartsOf
<1>2. v \in Seq(S)
  <2>1. LeftOut(s, CppInclude, S)
    BY <1>1, WithoutIs, Zenon
  <2> QED BY <2>1, Zenon DEF LeftOut
<1> HIDE DEF v, s
<1>3. D!Without(In(x.kind, s), Directive) = In(x.kind, IF x.kind = "cpp" THEN v ELSE s)
  BY <1>1, InWithout, Zenon DEF v
<1>4. CASE x.kind = "cpp"
  <2>1. Cut(x) = [x EXCEPT !.part = D!extract_cpp_includes_and_remove(s).code]
    BY <1>4, Zenon DEF Cut, s
  <2>2. D!extract_cpp_includes_and_remove(s).code = v
    BY DEF D!extract_cpp_includes_and_remove, v
  <2>3. Cut(x) = [kind |-> x.kind, part |-> v]
    BY <1>1, <2>1, <2>2
  <2> QED BY <1>1, <1>2, <1>3, <1>4, <2>3 DEF PartsOf, s
<1>5. CASE x.kind # "cpp"
  <2>1. Cut(x) = x
    BY <1>5 DEF Cut
  <2> QED BY <1>3, <1>5, <2>1 DEF s
<1> QED BY <1>4, <1>5

(* And of parts without theirs.                                            *)
LEMMA BodyRight ==
    ASSUME NEW S, NEW parts \in Seq(PartsOf(S))
    PROVE  D!Emitted(Body(parts)) = D!Without(D!Emitted(parts), Directive)
<1> DEFINE T == PartsOf(S)
           P == Kinds \X S
           n == Len(parts)
           g == Tokens(S)
           h == Keeping(P, Directive)
           k == [x \in T |-> D!Without(In(x.kind, x.part), Directive)]
           b == Body(parts)
           u == D!Emitted(parts)
<1>1. n \in Nat /\ DOMAIN parts = 1..n /\ \A i \in 1..n : parts[i] \in T
  <2> HIDE DEF T
  <2> QED BY DEF T
<1>2. g \in [T -> Seq(P)] /\ \A x \in T : g[x] = In(x.kind, x.part)
  BY TokensTyped, Zenon DEF Tokens
<1>3. u = W!Flat(g, parts) /\ u \in Seq(P)
  <2>1. u = W!Flat(g, parts)
    BY EmittedIs, Zenon
  <2> HIDE DEF g, T, P
  <2>2. W!Flat(g, parts) \in Seq(P)
    BY <1>2, W!EachIs, Zenon DEF T
  <2> QED BY <2>1, <2>2
<1>4. LeftOut(u, Directive, P)
  BY <1>3, WithoutIs, Zenon
<1>5. h \in [P -> Seq(P)] /\ D!Without(u, Directive) = W!Flat(h, u)
  BY <1>4, Zenon DEF LeftOut
<1>6. ASSUME NEW x \in T
      PROVE  /\ k[x] = W!Flat(h, g[x]) /\ k[x] \in Seq(P)
             /\ Cut(x) \in T /\ g[Cut(x)] = k[x]
  <2>1. x.kind \in Kinds /\ x.part \in Seq(S)
    BY DEF PartsOf
  <2> DEFINE v == In(x.kind, x.part)
  <2>2. v \in Seq(P)
    BY <2>1, InIs
  <2> HIDE DEF v
  <2>3. LeftOut(v, Directive, P)
    BY <2>2, WithoutIs, Zenon
  <2>4. D!Without(v, Directive) = W!Flat(h, v) /\ D!Without(v, Directive) \in Seq(P)
    BY <2>3, Zenon DEF LeftOut
  <2>5. k[x] = D!Without(v, Directive) /\ g[x] = v
    BY <1>2, Zenon DEF v
  <2>6. Cut(x) \in T /\ In(Cut(x).kind, Cut(x).part) = D!Without(v, Directive)
    BY CutIs, Zenon DEF v
  <2>7. g[Cut(x)] = In(Cut(x).kind, Cut(x).part)
    BY <1>2, <2>6, Zenon
  <2> HIDE DEF k, g, h, T, P
  <2> QED BY <2>4, <2>5, <2>6, <2>7
<1>7. k \in [T -> Seq(P)]
  <2> HIDE DEF P, g, h
  <2>1. \A x \in T : k[x] \in Seq(P)
    BY <1>6, Zenon
  <2>2. k = [x \in T |-> k[x]]
    OBVIOUS
  <2> HIDE DEF k, T
  <2> QED BY <2>1, <2>2
<1> HIDE DEF T, P, g, h, k
<1>8. W!Flat(h, W!Flat(g, parts)) = W!Flat(k, parts)
  <2>1. W!Makes(k, h, g, T)
    BY <1>6, Zenon DEF W!Makes
  <2>2. parts \in Seq(T)
    BY DEF T
  <2>3. W!MadeOf(k, h, g, parts)
    BY <1>2, <1>5, <1>7, <2>1, <2>2, W!FlatFlat, Zenon
  <2> QED BY <2>3, Zenon DEF W!MadeOf
<1>9. b \in Seq(T) /\ DOMAIN b = 1..n /\ \A i \in 1..n : b[i] = Cut(parts[i])
  <2> DEFINE c == [i \in 1..n |-> Cut(parts[i])]
  <2>1. b = c
    BY <1>1, Zenon DEF Body
  <2>2. \A i \in 1..n : Cut(parts[i]) \in T
    BY <1>1, <1>6
  <2> HIDE DEF n
  <2>3. c \in Seq(T) /\ DOMAIN c = 1..n /\ \A i \in 1..n : c[i] = Cut(parts[i])
    BY <1>1, <2>2
  <2> HIDE DEF b, c
  <2> QED BY <2>1, <2>3
<1> HIDE DEF b
<1>10. W!Each(g, b) = W!Each(k, parts)
  <2>1. \A i \in 1..n : g[b[i]] = k[parts[i]]
    BY <1>1, <1>6, <1>9
  <2>2. W!Each(g, b) = [i \in 1..n |-> g[b[i]]] /\ W!Each(k, parts) = [i \in 1..n |-> k[parts[i]]]
    BY <1>1, <1>9, Zenon DEF W!Each
  <2>3. [i \in 1..n |-> g[b[i]]] = [i \in 1..n |-> k[parts[i]]]
    BY <2>1, Zenon
  <2> QED BY <2>2, <2>3, Zenon
<1>11. D!Emitted(b) = W!Flat(g, b)
  BY <1>9, EmittedIs, Zenon DEF T, g
<1> QED BY <1>3, <1>5, <1>8, <1>10, <1>11, Zenon DEF W!Flat, b, u

\* The C++ of parts, as the directives are looked for in it.
Code(parts) ==
    D!FlattenSeq([i \in DOMAIN parts |-> IF parts[i].kind = "cpp" THEN parts[i].part ELSE <<>>])

(* A directive is in it when one is emitted.                               *)
LEMMA CodeHas ==
    ASSUME NEW S, NEW parts \in Seq(PartsOf(S))
    PROVE  W!Has(Code(parts), CppInclude) <=> W!Has(D!Emitted(parts), Directive)
<1> DEFINE T == PartsOf(S)
           P == Kinds \X S
           n == Len(parts)
           g == Tokens(S)
           c == [x \in T |-> IF x.kind = "cpp" THEN x.part ELSE <<>>]
           a == [i \in DOMAIN parts |-> IF parts[i].kind = "cpp" THEN parts[i].part ELSE <<>>]
<1>1. n \in Nat /\ DOMAIN parts = 1..n /\ \A i \in 1..n : parts[i] \in T
  <2> HIDE DEF T
  <2> QED BY DEF T
<1>2. g \in [T -> Seq(P)] /\ \A x \in T : g[x] = In(x.kind, x.part)
  BY TokensTyped, Zenon DEF Tokens
<1>3. D!Emitted(parts) = W!Flat(g, parts)
  BY EmittedIs, Zenon
<1>4. c \in [T -> Seq(S)]
  <2>1. \A x \in T : (IF x.kind = "cpp" THEN x.part ELSE <<>>) \in Seq(S)
    BY DEF PartsOf
  <2> HIDE DEF T
  <2> QED BY <2>1
<1>5. Code(parts) = W!Flat(c, parts)
  <2>1. \A i \in 1..n : c[parts[i]] = IF parts[i].kind = "cpp" THEN parts[i].part ELSE <<>>
    BY <1>1, Zenon
  <2>2. W!Each(c, parts) = [i \in 1..n |-> c[parts[i]]]
    BY <1>1, Zenon DEF W!Each
  <2>3. a = [i \in 1..n |-> IF parts[i].kind = "cpp" THEN parts[i].part ELSE <<>>]
    BY <1>1, Zenon
  <2> HIDE DEF c, a
  <2>4. [i \in 1..n |-> c[parts[i]]] = [i \in 1..n |-> IF parts[i].kind = "cpp" THEN parts[i].part ELSE <<>>]
    BY <2>1, Zenon
  <2>5. W!Each(c, parts) = a
    BY <2>2, <2>3, <2>4, Zenon
  <2>6. Code(parts) = D!FlattenSeq(a)
    BY Zenon DEF Code, a
  <2> QED BY <2>5, <2>6, SameFlatten, Zenon DEF W!Flat
<1>6. ASSUME NEW x \in T PROVE W!Has(c[x], CppInclude) <=> W!Has(g[x], Directive)
  <2>1. x.kind \in Kinds /\ x.part \in Seq(S)
    BY DEF PartsOf
  <2> DEFINE v == In(x.kind, x.part)
             s == x.part
             m == Len(s)
  <2>2. DOMAIN v = DOMAIN s /\ \A j \in DOMAIN s : v[j] = <<x.kind, s[j]>>
    BY Zenon DEF In
  <2>3. g[x] = v
    BY <1>2
  <2>4. c[x] = IF x.kind = "cpp" THEN s ELSE <<>>
    BY Zenon
  <2> HIDE DEF v, s, c, g, P, T
  <2>5. CASE x.kind = "cpp"
    <3>1. \A j \in DOMAIN s : v[j] = Directive <=> s[j] = CppInclude
      BY <2>2, <2>5 DEF Directive
    <3>2. c[x] = s
      BY <2>4, <2>5
    <3> QED BY <2>2, <2>3, <3>1, <3>2, Zenon DEF W!Has
  <2>6. CASE x.kind # "cpp"
    <3>1. \A j \in DOMAIN s : v[j] # Directive
      BY <2>2, <2>6 DEF Directive
    <3>2. c[x] = <<>>
      BY <2>4, <2>6
    <3>3. ~W!Has(<<>>, CppInclude)
      BY DEF W!Has
    <3>4. ~W!Has(v, Directive)
      BY <2>2, <3>1, Zenon DEF W!Has
    <3> QED BY <2>3, <3>2, <3>3, <3>4
  <2> QED BY <2>5, <2>6
<1> HIDE DEF T, P, g, c
<1>7. parts \in Seq(T)
  BY DEF T
<1>8. W!Has(W!Flat(c, parts), CppInclude) <=> \E i \in 1..n : W!Has(c[parts[i]], CppInclude)
  BY <1>1, <1>4, <1>7, W!FlatHas, Zenon
<1>9. W!Has(W!Flat(g, parts), Directive) <=> \E i \in 1..n : W!Has(g[parts[i]], Directive)
  BY <1>1, <1>2, <1>7, W!FlatHas, Zenon
<1>10. \A i \in 1..n : W!Has(c[parts[i]], CppInclude) <=> W!Has(g[parts[i]], Directive)
  BY <1>1, <1>6
<1> QED BY <1>3, <1>5, <1>8, <1>9, <1>10, Zenon

\* What create_template makes of a text that is complete.
Template(text1) ==
    LET parts == D!parse(text1)
        cpp == D!FlattenSeq([i \in DOMAIN parts |->
                   IF parts[i].kind = "cpp" THEN parts[i].part ELSE <<>>])
    IN [includes |-> D!extract_cpp_includes_and_remove(cpp).includes,
        body |-> [i \in DOMAIN parts |->
                     IF parts[i].kind = "cpp"
                        THEN [parts[i] EXCEPT !.part = D!extract_cpp_includes_and_remove(@).code]
                        ELSE parts[i]]]

(* Its tokens are those of the text, and the directives are at the top.    *)
LEMMA TemplateRight ==
    ASSUME NEW S, NEW doc \in Seq(S), D!Languages(doc).kind = "html"
    PROVE  LET language == D!Languages(doc)
               view == Template(doc)
           IN /\ D!Emitted(view.body) = D!Without(language.out, Directive)
              /\ view.includes = RequiredIncludes \cup
                     {CppInclude : i \in {j \in DOMAIN language.out : language.out[j] = Directive}}
<1> DEFINE parts == D!parse(doc)
           out == D!Languages(doc).out
           cpp == Code(parts)
           view == Template(doc)
<1>1. parts \in Seq(PartsOf(S)) /\ D!Emitted(parts) = out
  BY ParseRight
<1>2. view.body = Body(parts) /\ view.includes = D!extract_cpp_includes_and_remove(cpp).includes
  BY DEF Template, Body, Cut, Code
<1>3. D!Emitted(view.body) = D!Without(out, Directive)
  BY <1>1, <1>2, BodyRight, Zenon
<1>4. D!extract_cpp_includes_and_remove(cpp).includes =
          RequiredIncludes \cup {t \in D!Range(cpp) : t = CppInclude}
  BY DEF D!extract_cpp_includes_and_remove
<1>5. W!Has(cpp, CppInclude) <=> W!Has(out, Directive)
  BY <1>1, CodeHas, Zenon
<1> HIDE DEF parts, out, cpp, view
<1>6. {t \in D!Range(cpp) : t = CppInclude} = {CppInclude : i \in {j \in DOMAIN out : out[j] = Directive}}
  <2>1. CppInclude \in D!Range(cpp) <=> W!Has(cpp, CppInclude)
    BY DEF D!Range, W!Has
  <2>2. {j \in DOMAIN out : out[j] = Directive} # {} <=> W!Has(out, Directive)
    BY DEF W!Has
  <2> QED BY <1>5, <2>1, <2>2
<1>7. view.includes = RequiredIncludes \cup {CppInclude : i \in {j \in DOMAIN out : out[j] = Directive}}
  BY <1>2, <1>4, <1>6, Zenon
<1> QED BY <1>3, <1>7 DEF out, view

---------------------------------------------------------------------------
(***************************************************************************)
(* The files a template includes.  A pass replaces the first tag only, so  *)
(* the passes for a tag and for all that its file brings are counted one   *)
(* after the other: by induction on their number each file becomes what it *)
(* stands for (FilesExpand), behind any text without tags, and so does the *)
(* template (IncludedRight).  No pass changes it any more.                 *)
(***************************************************************************)

\* Texts of a template; NoTags: without a tag; a pass makes b of a.
Docs == Seq(TemplateTokens)
NoTags(doc) == \A i \in 1..Len(doc) : doc[i] \notin IncludePaths
Pass(a, b) == D!IncludeOnce(a, Files) = {b}

\* c passes make b of a, on a path.
Passes(p, a, c, b) ==
    /\ p \in [0..c -> Docs] /\ p[0] = a /\ p[c] = b
    /\ \A k \in 1..c : Pass(p[k - 1], p[k])
Reaches(a, c, b) == \E p : Passes(p, a, c, b)

(* A pass is a way of one step.                                            *)
LEMMA OnePass ==
    ASSUME NEW a \in Docs, NEW b \in Docs, Pass(a, b)
    PROVE  Reaches(a, 1, b)
<1> DEFINE p == [k \in 0..1 |-> IF k = 0 THEN a ELSE b]
<1>1. p \in [0..1 -> Docs] /\ p[0] = a /\ p[1] = b
  <2> HIDE DEF Docs
  <2> QED OBVIOUS
<1>2. \A k \in 1..1 : Pass(p[k - 1], p[k])
  <2> HIDE DEF p
  <2> TAKE k \in 1..1
  <2>1. k = 1 /\ k - 1 = 0
    OBVIOUS
  <2> QED BY <1>1, <2>1
<1> QED BY <1>1, <1>2 DEF Passes, Reaches

(* One way can follow another.                                             *)
LEMMA WayOn ==
    ASSUME NEW c \in Nat, NEW d \in Nat, NEW a, NEW b, NEW e, Reaches(a, c, b), Reaches(b, d, e)
    PROVE  Reaches(a, c + d, e)
<1>1. PICK p : Passes(p, a, c, b)
  BY DEF Reaches
<1>2. PICK q : Passes(q, b, d, e)
  BY DEF Reaches
<1> DEFINE r == [k \in 0..(c + d) |-> IF k <= c THEN p[k] ELSE q[k - c]]
<1>3. /\ p \in [0..c -> Docs] /\ p[0] = a /\ p[c] = b
      /\ \A k \in 1..c : Pass(p[k - 1], p[k])
      /\ q \in [0..d -> Docs] /\ q[0] = b /\ q[d] = e
      /\ \A k \in 1..d : Pass(q[k - 1], q[k])
  BY <1>1, <1>2 DEF Passes
<1> HIDE DEF Docs
<1>4. r \in [0..(c + d) -> Docs]
  <2>1. ASSUME NEW k \in 0..(c + d) PROVE r[k] \in Docs
    <3>1. CASE k <= c
      BY <1>3, <3>1
    <3>2. CASE ~(k <= c)
      <4>1. k - c \in 0..d
        BY <3>2
      <4> QED BY <1>3, <3>2, <4>1
    <3> QED BY <3>1, <3>2
  <2> QED BY <2>1
<1>5. ASSUME NEW k \in 0..(c + d) PROVE (k <= c => r[k] = p[k]) /\ (k >= c => r[k] = q[k - c])
  <2>1. CASE k = c
    BY <1>3, <2>1
  <2>2. CASE k # c
    BY <2>2
  <2> QED BY <2>1, <2>2
<1>6. 0 \in 0..(c + d) /\ c + d \in 0..(c + d) /\ 0 <= c /\ c + d >= c /\ (c + d) - c = d
  OBVIOUS
<1> HIDE DEF r
<1>7. r[0] = a /\ r[c + d] = e
  <2>1. r[0] = p[0]
    BY <1>5, <1>6
  <2>2. r[c + d] = q[(c + d) - c]
    BY <1>5, <1>6
  <2> QED BY <1>3, <1>6, <2>1, <2>2
<1>8. ASSUME NEW k \in 1..(c + d) PROVE Pass(r[k - 1], r[k])
  <2>1. k \in 0..(c + d) /\ k - 1 \in 0..(c + d)
    OBVIOUS
  <2>2. CASE k <= c
    <3>1. k \in 1..c /\ k - 1 <= c
      BY <2>2
    <3>2. r[k] = p[k] /\ r[k - 1] = p[k - 1]
      BY <1>5, <2>1, <2>2, <3>1
    <3> QED BY <1>3, <3>1, <3>2
  <2>3. CASE ~(k <= c)
    <3>1. k - c \in 1..d /\ k - 1 >= c /\ k >= c /\ (k - 1) - c = (k - c) - 1
      BY <2>3
    <3>2. r[k] = q[k - c] /\ r[k - 1] = q[(k - 1) - c]
      BY <1>5, <2>1, <3>1
    <3> QED BY <1>3, <3>1, <3>2
  <2> QED BY <2>2, <2>3
<1> QED BY <1>4, <1>7, <1>8 DEF Passes, Reaches

(* A text without tags stays as it is, however many passes there are.      *)
LEMMA FreeStays ==
    ASSUME NEW a, NEW b \in Docs, NoTags(b), NEW c \in Nat, NEW e \in Nat, c <= e, Reaches(a, c, b)
    PROVE  Reaches(a, e, b)
<1>1. Pass(b, b)
  <2>1. {i \in DOMAIN b : b[i] \in IncludePaths} = {}
    BY DEF NoTags, Docs
  <2> QED BY <2>1, Zenon DEF Pass, D!IncludeOnce
<1> DEFINE n == e - c
           p == [k \in 0..n |-> b]
<1>2. n \in Nat /\ c + n = e
  OBVIOUS
<1> HIDE DEF n, Docs
<1>3. Passes(p, b, n, b)
  BY <1>1, <1>2 DEF Passes
<1>4. Reaches(b, n, b)
  BY <1>3, Zenon DEF Reaches
<1>5. Reaches(a, c + n, b)
  BY <1>2, <1>4, WayOn
<1> QED BY <1>2, <1>5

(* What is reached is what Included returns.                               *)
LEMMA ReachedIncluded ==
    ASSUME NEW a, NEW c \in Nat, NEW b, Reaches(a, c, b)
    PROVE  D!Included(a, Files, c) = {b}
<1> DEFINE body(f) == [n \in 0..c |->
                          IF n = 0 THEN {a} ELSE UNION {D!IncludeOnce(d, Files) : d \in f[n - 1]}]
           texts == CHOOSE f : f = body(f)
<1>1. PICK p : Passes(p, a, c, b)
  BY DEF Reaches
<1>2. /\ p[0] = a /\ p[c] = b
      /\ \A k \in 1..c : D!IncludeOnce(p[k - 1], Files) = {p[k]}
  BY <1>1 DEF Passes, Pass
<1> DEFINE f == [k \in 0..c |-> {p[k]}]
<1>3. ASSUME NEW n \in 0..c
      PROVE  f[n] = IF n = 0 THEN {a} ELSE UNION {D!IncludeOnce(d, Files) : d \in f[n - 1]}
  <2>1. CASE n = 0
    BY <1>2, <2>1
  <2>2. CASE n # 0
    <3>1. n \in 1..c /\ n - 1 \in 0..c
      BY <2>2
    <3>2. f[n] = {p[n]} /\ f[n - 1] = {p[n - 1]}
      BY <3>1
    <3>3. D!IncludeOnce(p[n - 1], Files) = {p[n]}
      BY <1>2, <3>1
    <3> HIDE DEF f
    <3>4. UNION {D!IncludeOnce(d, Files) : d \in f[n - 1]} = {p[n]}
      BY <3>2, <3>3
    <3> QED BY <2>2, <3>2, <3>4
  <2> QED BY <2>1, <2>2
<1>4. f = body(f)
  BY <1>3, Zenon
<1>5. texts = body(texts)
  <2> HIDE DEF body, f
  <2> QED BY <1>4
<1> HIDE DEF texts
<1>6. ASSUME NEW n \in 0..c
      PROVE  texts[n] = IF n = 0 THEN {a} ELSE UNION {D!IncludeOnce(d, Files) : d \in texts[n - 1]}
  <2>1. body(texts)[n] = IF n = 0 THEN {a} ELSE UNION {D!IncludeOnce(d, Files) : d \in texts[n - 1]}
    OBVIOUS
  <2> HIDE DEF body
  <2> QED BY <1>5, <2>1
<1> DEFINE T == {n \in 0..c : texts[n] = {p[n]}}
<1>7. 0 \in T
  <2>1. 0 \in 0..c
    OBVIOUS
  <2>2. texts[0] = {a}
    BY <1>6, <2>1, Zenon
  <2> QED BY <1>2, <2>1, <2>2
<1>8. ASSUME NEW n \in 1..c, n - 1 \in T PROVE n \in T
  <2>1. n \in 0..c /\ n # 0
    OBVIOUS
  <2>2. texts[n] = UNION {D!IncludeOnce(d, Files) : d \in texts[n - 1]}
    BY <1>6, <2>1
  <2>3. texts[n - 1] = {p[n - 1]}
    BY <1>8
  <2>4. D!IncludeOnce(p[n - 1], Files) = {p[n]}
    BY <1>2
  <2> QED BY <2>1, <2>2, <2>3, <2>4
<1>9. c \in T
  <2>1. c \in 0..c
    OBVIOUS
  <2> HIDE DEF T
  <2> QED BY <1>7, <1>8, <2>1, W!UpTo
<1>10. D!Included(a, Files, c) = texts[c]
  BY Zenon DEF D!Included, texts
<1> QED BY <1>2, <1>9, <1>10

\* Where d stands, behind text without tags, at most m passes make r of it.
Expands(d, r, m) ==
    /\ r \in Docs /\ NoTags(r)
    /\ \A u \in Docs : \A v \in Docs :
          NoTags(u) => \E c \in 0..m : Reaches(u \o (d \o v), c, u \o (r \o v))

(* A text without tags is the same after no pass.                          *)
LEMMA ExpandsFree == ASSUME NEW d \in Docs, NoTags(d) PROVE Expands(d, d, 0)
<1> SUFFICES ASSUME NEW u \in Docs, NEW v \in Docs
             PROVE  \E c \in 0..0 : Reaches(u \o (d \o v), c, u \o (d \o v))
  BY Zenon DEF Expands
<1> DEFINE a == u \o (d \o v)
           p == [k \in 0..0 |-> a]
<1>1. a \in Docs
  BY DEF Docs
<1> HIDE DEF a, Docs
<1>2. Passes(p, a, 0, a)
  BY <1>1 DEF Passes
<1>3. Reaches(a, 0, a)
  BY <1>2, Zenon DEF Reaches
<1> QED BY <1>3 DEF a

(* More passes are no fewer.                                               *)
LEMMA ExpandsMore ==
    ASSUME NEW d, NEW r, NEW m \in Nat, NEW n \in Nat, m <= n, Expands(d, r, m)
    PROVE  Expands(d, r, n)
<1>1. 0..m \subseteq 0..n
  OBVIOUS
<1> QED BY <1>1, Zenon DEF Expands

(* Two texts, each without tags, have none, one behind the other.          *)
LEMMA FreeOfTwo ==
    ASSUME NEW a \in Docs, NEW b \in Docs, NoTags(a), NoTags(b)
    PROVE  a \o b \in Docs /\ NoTags(a \o b)
<1> DEFINE n == Len(a)
           m == Len(b)
           c == a \o b
<1>1. /\ c \in Docs /\ Len(c) = n + m /\ n \in Nat /\ m \in Nat
      /\ \A i \in 1..n : c[i] = a[i]
      /\ \A j \in 1..m : c[n + j] = b[j]
  BY W!ConcatIs DEF Docs
<1>2. /\ \A i \in 1..n : a[i] \notin IncludePaths
      /\ \A i \in 1..m : b[i] \notin IncludePaths
  BY DEF NoTags
<1> HIDE DEF n, m, c
<1>3. ASSUME NEW i \in 1..(n + m) PROVE c[i] \notin IncludePaths
  <2>1. CASE i \in 1..n
    BY <1>1, <1>2, <2>1
  <2>2. CASE i \notin 1..n
    <3> DEFINE j == i - n
    <3>1. j \in 1..m /\ n + j = i
      BY <1>1, <2>2
    <3> HIDE DEF j
    <3>2. c[n + j] = b[j] /\ b[j] \notin IncludePaths
      BY <1>1, <1>2, <3>1
    <3> QED BY <3>1, <3>2
  <2> QED BY <2>1, <2>2
<1> QED BY <1>1, <1>3 DEF c, NoTags

Grouped(a, b, c) == (a \o b) \o c = a \o (b \o c)

(* Texts one behind the other may be grouped as one likes.                 *)
LEMMA Regroup ==
    \A a \in Docs : \A b \in Docs : a \o b \in Docs /\ \A c \in Docs : Grouped(a, b, c)
<1> SUFFICES ASSUME NEW a \in Seq(TemplateTokens), NEW b \in Seq(TemplateTokens), NEW c \in Seq(TemplateTokens)
             PROVE  a \o b \in Seq(TemplateTokens) /\ (a \o b) \o c = a \o (b \o c)
  BY Zenon DEF Docs, Grouped
<1> QED BY W!ConcatAssociative

(* One behind the other, they are expanded one after the other.            *)
LEMMA ExpandsTwo ==
    ASSUME NEW d \in Docs, NEW r, NEW m \in Nat, Expands(d, r, m),
           NEW e \in Docs, NEW s, NEW n \in Nat, Expands(e, s, n)
    PROVE  Expands(d \o e, r \o s, m + n)
<1>1. r \in Docs /\ NoTags(r) /\ s \in Docs /\ NoTags(s)
  BY DEF Expands
<1>2. r \o s \in Docs /\ NoTags(r \o s)
  BY <1>1, FreeOfTwo
<1>3. ASSUME NEW u \in Docs, NEW v \in Docs, NoTags(u)
      PROVE  \E c \in 0..(m + n) : Reaches(u \o ((d \o e) \o v), c, u \o ((r \o s) \o v))
  <2>1. e \o v \in Docs /\ s \o v \in Docs
    BY <1>1, Regroup
  <2>2. u \o r \in Docs /\ NoTags(u \o r)
    BY <1>1, <1>3, FreeOfTwo
  <2>3. PICK c \in 0..m : Reaches(u \o (d \o (e \o v)), c, u \o (r \o (e \o v)))
    BY <1>3, <2>1, Zenon DEF Expands
  <2>4. PICK k \in 0..n : Reaches((u \o r) \o (e \o v), k, (u \o r) \o (s \o v))
    BY <2>2, Zenon DEF Expands
  <2>5. Grouped(d, e, v) /\ Grouped(r, s, v) /\ Grouped(u, r, e \o v) /\ Grouped(u, r, s \o v)
    BY <1>1, <2>1, Regroup, Zenon
  <2>6. d \o (e \o v) = (d \o e) \o v /\ r \o (s \o v) = (r \o s) \o v
    BY <2>5, Zenon DEF Grouped
  <2>7. (u \o r) \o (e \o v) = u \o (r \o (e \o v)) /\ (u \o r) \o (s \o v) = u \o (r \o (s \o v))
    BY <2>5, Zenon DEF Grouped
  <2>8. Reaches(u \o ((d \o e) \o v), c, u \o (r \o (e \o v)))
    BY <2>3, <2>6, Zenon
  <2>9. Reaches(u \o (r \o (e \o v)), k, u \o ((r \o s) \o v))
    BY <2>4, <2>6, <2>7, Zenon
  <2>10. c \in Nat /\ k \in Nat /\ c + k \in 0..(m + n)
    OBVIOUS
  <2>11. Reaches(u \o ((d \o e) \o v), c + k, u \o ((r \o s) \o v))
    BY <2>8, <2>9, <2>10, WayOn, Zenon
  <2> QED BY <2>10, <2>11, Zenon
<1> QED BY <1>2, <1>3, Zenon DEF Expands

(* The first tag is replaced by the file: one pass more.                   *)
LEMMA ExpandsTag ==
    ASSUME NEW x \in IncludePaths \cap TemplateTokens, x \in DOMAIN Files, Files[x] \in Docs,
           NEW r, NEW m \in Nat, Expands(Files[x], r, m)
    PROVE  Expands(<<x>>, r, m + 1)
<1> DEFINE one == <<x>>
           d == Files[x]
<1>1. one \in Docs /\ Len(one) = 1 /\ one[1] = x
  BY DEF Docs
<1> HIDE DEF one
<1>2. ASSUME NEW u \in Docs, NEW v \in Docs, NoTags(u)
      PROVE  Pass(u \o (one \o v), u \o (d \o v))
  <2> DEFINE n == Len(u)
             l == Len(v)
             w == one \o v
             a == u \o w
             T == {i \in DOMAIN a : a[i] \in IncludePaths}
  <2>1. /\ w \in Docs /\ Len(w) = 1 + l /\ l \in Nat
        /\ \A i \in 1..1 : w[i] = one[i]
        /\ \A j \in 1..l : w[1 + j] = v[j]
    <3>1. one \in Seq(TemplateTokens) /\ v \in Seq(TemplateTokens)
      BY <1>1 DEF Docs
    <3>2. /\ w \in Seq(TemplateTokens) /\ Len(w) = Len(one) + Len(v) /\ Len(v) \in Nat
          /\ \A i \in 1..Len(one) : w[i] = one[i]
          /\ \A j \in 1..Len(v) : w[Len(one) + j] = v[j]
      BY <3>1, W!ConcatIs
    <3> QED BY <1>1, <3>2, Zenon DEF Docs
  <2> HIDE DEF w
  <2>2. /\ a \in Docs /\ Len(a) = n + (1 + l) /\ n \in Nat
        /\ \A i \in 1..n : a[i] = u[i]
        /\ \A j \in 1..(1 + l) : a[n + j] = w[j]
    <3>1. u \in Seq(TemplateTokens) /\ w \in Seq(TemplateTokens)
      BY <2>1 DEF Docs
    <3>2. /\ a \in Seq(TemplateTokens) /\ Len(a) = Len(u) + Len(w) /\ Len(u) \in Nat
          /\ \A i \in 1..Len(u) : a[i] = u[i]
          /\ \A j \in 1..Len(w) : a[Len(u) + j] = w[j]
      BY <3>1, W!ConcatIs
    <3> QED BY <2>1, <3>2, Zenon DEF Docs
  <2>3. DOMAIN a = 1..Len(a)
    BY <2>2 DEF Docs
  <2>4. \A i \in 1..n : u[i] \notin IncludePaths
    BY <1>2 DEF NoTags
  <2> HIDE DEF a, n, l
  <2>5. w[1] = x
    BY <1>1, <2>1
  <2>6. n + 1 \in T
    <3>1. 1 \in 1..(1 + l) /\ n + 1 \in 1..(n + (1 + l))
      BY <2>1, <2>2
    <3>2. a[n + 1] = x
      BY <2>2, <2>5, <3>1
    <3> QED BY <2>2, <2>3, <3>1, <3>2
  <2>7. \A i \in T : n + 1 <= i
    BY <2>1, <2>2, <2>3, <2>4
  <2>8. T \subseteq Nat /\ T # {}
    <3>1. 1..Len(a) \subseteq Nat /\ T \subseteq 1..Len(a)
      BY <2>3
    <3> HIDE DEF T
    <3> QED BY <2>6, <3>1
  <2> DEFINE i == D!Min(T)
  <2>9. i = n + 1
    <3>1. i = W!Min(T)
      BY Zenon DEF D!Min, W!Min
    <3> DEFINE k == W!Min(T)
    <3> HIDE DEF T
    <3>2. k \in T /\ \A y \in T : k <= y
      BY <2>8, W!LeastOf
    <3> HIDE DEF i, k
    <3>3. k \in Nat /\ k <= n + 1 /\ n + 1 <= k
      BY <2>6, <2>7, <2>8, <3>2
    <3>4. k = n + 1
      BY <2>2, <3>3
    <3> QED BY <3>1, <3>4 DEF k
  <2>10. SubSeq(a, 1, n) = u
    <3>1. 1 \in Nat \ {0} /\ n <= Len(a) /\ 1 <= n + 1 /\ n + 1 - 1 = n
      BY <2>1, <2>2
    <3> DEFINE b == SubSeq(a, 1, n)
    <3>2. /\ b \in Docs /\ Len(b) = n + 1 - 1
          /\ \A k \in 1..(n + 1 - 1) : b[k] = a[1 + k - 1]
      BY <2>2, <3>1, W!PieceIs DEF Docs
    <3> HIDE DEF b
    <3>3. ASSUME NEW k \in 1..n PROVE b[k] = u[k]
      <4>1. 1 + k - 1 = k
        BY <2>2
      <4> QED BY <2>2, <3>1, <3>2, <4>1
    <3>4. b = u
      <4>1. b \in Seq(TemplateTokens) /\ u \in Seq(TemplateTokens) /\ Len(b) = Len(u)
        BY <3>1, <3>2 DEF Docs, n
      <4>2. \A k \in 1..Len(b) : b[k] = u[k]
        BY <3>1, <3>2, <3>3
      <4> QED BY <4>1, <4>2, W!SeqEqual
    <3> QED BY <3>4 DEF b
  <2>11. D!From(a, i + 1) = v
    <3> DEFINE j == i + 1
               e == n + (1 + l)
               b == SubSeq(a, j, e)
    <3>1. j \in Nat \ {0} /\ e \in Nat /\ e <= Len(a) /\ j <= e + 1 /\ e + 1 - j = l
      BY <2>1, <2>2, <2>9
    <3> HIDE DEF j, e
    <3>2. /\ b \in Docs /\ Len(b) = e + 1 - j
          /\ \A k \in 1..(e + 1 - j) : b[k] = a[j + k - 1]
      BY <2>2, <3>1, W!PieceIs DEF Docs
    <3> HIDE DEF b
    <3>3. ASSUME NEW k \in 1..l PROVE b[k] = v[k]
      <4>1. j + k - 1 = n + (1 + k) /\ 1 + k \in 1..(1 + l)
        BY <2>1, <2>2, <2>9 DEF j
      <4>2. a[n + (1 + k)] = w[1 + k]
        BY <2>2, <4>1
      <4>3. w[1 + k] = v[k]
        BY <2>1
      <4> QED BY <3>1, <3>2, <4>1, <4>2, <4>3
    <3>4. b = v
      <4>1. b \in Seq(TemplateTokens) /\ v \in Seq(TemplateTokens) /\ Len(b) = Len(v)
        BY <3>1, <3>2 DEF Docs, l
      <4>2. \A k \in 1..Len(b) : b[k] = v[k]
        BY <3>1, <3>2, <3>3
      <4> QED BY <4>1, <4>2, W!SeqEqual
    <3>5. D!From(a, i + 1) = b
      BY <2>2 DEF D!From, b, j, e
    <3> QED BY <3>4, <3>5
  <2>12. SubSeq(a, 1, i - 1) = u
    <3>1. i - 1 = n
      BY <2>2, <2>9
    <3> QED BY <2>10, <3>1
  <2>13. a[i] = x
    BY <2>1, <2>2, <2>5, <2>9
  <2> HIDE DEF i, T
  <2>14. D!IncludeOnce(a, Files) = {SubSeq(a, 1, i - 1) \o Files[a[i]] \o D!From(a, i + 1)}
    <3>1. T # {} /\ a[i] \in DOMAIN Files
      BY <2>8, <2>13
    <3> QED BY <3>1, Zenon DEF D!IncludeOnce, T, i
  <2>15. (u \o d) \o v = u \o (d \o v)
    BY Regroup DEF Grouped
  <2>16. D!IncludeOnce(a, Files) = {(u \o d) \o v}
    BY <2>11, <2>12, <2>13, <2>14, Zenon
  <2> QED BY <2>15, <2>16, Zenon DEF Pass, a, w
<1>3. ASSUME NEW u \in Docs, NEW v \in Docs, NoTags(u)
      PROVE  \E c \in 0..(m + 1) : Reaches(u \o (one \o v), c, u \o (r \o v))
  <2>1. PICK c \in 0..m : Reaches(u \o (d \o v), c, u \o (r \o v))
    BY <1>3, Zenon DEF Expands
  <2>2. Reaches(u \o (one \o v), 1, u \o (d \o v))
    <3> DEFINE a == u \o (one \o v)
               b == u \o (d \o v)
    <3>1. a \in Docs /\ b \in Docs
      BY <1>1 DEF Docs
    <3>2. Pass(a, b)
      BY <1>2, <1>3
    <3> HIDE DEF a, b
    <3>3. Reaches(a, 1, b)
      BY <3>1, <3>2, OnePass
    <3> QED BY <3>3 DEF a, b
  <2>3. c \in Nat /\ 1 \in Nat /\ 1 + c \in 0..(m + 1)
    OBVIOUS
  <2>4. Reaches(u \o (one \o v), 1 + c, u \o (r \o v))
    BY <2>1, <2>2, <2>3, WayOn, Zenon
  <2> QED BY <2>3, <2>4, Zenon
<1>4. Expands(one, r, m + 1)
  BY <1>3, Zenon DEF Expands
<1> QED BY <1>4 DEF one

\* g says what each token of d becomes, after at most m passes.
EachExpands(g, d, m) == \A i \in 1..Len(d) : Expands(<<d[i]>>, g[d[i]], m)

(* Then the text becomes what they become, one behind the other.           *)
LEMMA ExpandsEach ==
    ASSUME NEW g \in [TemplateTokens -> Docs], NEW d \in Docs, NEW m \in Nat, EachExpands(g, d, m)
    PROVE  Expands(d, W!Flat(g, d), m * Len(d))
<1> DEFINE S == TemplateTokens
           n == Len(d)
           Lead(k) == SubSeq(d, 1, k)
           Good(k) == Expands(Lead(k), W!Flat(g, Lead(k)), m * k)
           T == {k \in 0..n : Good(k)}
<1>1. n \in Nat /\ d \in Seq(S) /\ g \in [S -> Seq(S)] /\ \A i \in 1..n : d[i] \in S
  BY DEF Docs
<1>2. ASSUME NEW k \in 0..n PROVE Lead(k) \in Seq(S)
  <2>1. k \in Nat /\ 1 \in Nat \ {0} /\ k <= Len(d) /\ 1 <= k + 1
    BY <1>1
  <2> QED BY <1>1, <2>1, W!PieceIs
<1>3. 0 \in T
  <2>1. Lead(0) = <<>> /\ <<>> \in Docs /\ NoTags(<<>>)
    BY <1>1 DEF Docs, NoTags
  <2>2. W!Flat(g, <<>>) = <<>>
    BY <1>1, W!FlatNone
  <2>3. Expands(<<>>, <<>>, 0)
    BY <2>1, ExpandsFree
  <2>4. m * 0 = 0 /\ 0 \in 0..n
    BY <1>1
  <2>5. Good(0)
    <3>1. Expands(Lead(0), W!Flat(g, Lead(0)), 0)
      BY <2>1, <2>2, <2>3, Zenon
    <3> QED BY <2>4, <3>1, Zenon
  <2> QED BY <2>4, <2>5
<1>4. ASSUME NEW k \in 1..n, k - 1 \in T PROVE k \in T
  <2> DEFINE l == k - 1
             a == Lead(l)
             x == d[k]
             one == <<x>>
  <2>1. l \in 0..n /\ k \in 0..n /\ l + 1 = k /\ l \in Nat /\ k \in Nat /\ x \in S
    BY <1>1
  <2>2. Expands(a, W!Flat(g, a), m * l)
    BY <1>4
  <2>3. Expands(one, g[x], m)
    BY DEF EachExpands
  <2>4. a \in Seq(S)
    BY <1>2, <2>1
  <2>5. one \in Seq(S) /\ W!Flat(g, one) = g[x]
    <3>1. \A y \in S : W!Flat(g, <<y>>) = g[y]
      BY <1>1, W!FlatNone, Zenon
    <3> HIDE DEF x
    <3>2. one \in Seq(S)
      BY <2>1
    <3> QED BY <2>1, <3>1, <3>2, Zenon
  <2>6. Lead(k) = a \o one
    <3>1. SubSeq(d, 1, l) \o SubSeq(d, l + 1, k) = SubSeq(d, 1, k)
      <4>1. 1 \in Nat \ {0} /\ 1 <= l + 1 /\ l <= k /\ k <= Len(d)
        BY <1>1, <2>1
      <4> HIDE DEF l
      <4> QED BY <1>1, <2>1, <4>1, W!PiecesMeet
    <3>2. SubSeq(d, k, k) = one
      BY <1>1, W!PieceOne
    <3> QED BY <2>1, <3>1, <3>2
  <2> HIDE DEF a, one, l, x
  <2>7. W!Flat(g, a \o one) = W!Flat(g, a) \o g[x]
    <3>1. W!OneByOne(g, S)
      BY <1>1, W!FlatOfTwo
    <3> HIDE DEF S
    <3>2. W!Flat(g, a \o one) = W!Flat(g, a) \o W!Flat(g, one)
      BY <2>4, <2>5, <3>1, Zenon DEF W!OneByOne
    <3> QED BY <2>5, <3>2, Zenon
  <2>8. m * l \in Nat /\ m * l + m = m * k
    <3>1. k = l + 1
      BY <2>1
    <3>2. m * (l + 1) = m * l + m /\ m * l \in Nat
      BY <2>1
    <3> QED BY <3>1, <3>2
  <2>9. a \in Docs /\ one \in Docs
    BY <2>4, <2>5 DEF Docs
  <2>10. Expands(a \o one, W!Flat(g, a) \o g[x], m * l + m)
    BY <2>2, <2>3, <2>8, <2>9, ExpandsTwo
  <2>11. Good(k)
    BY <2>6, <2>7, <2>8, <2>10, Zenon
  <2> HIDE DEF Good
  <2> QED BY <2>1, <2>11
<1>5. n \in T
  <2>1. n \in 0..n
    BY <1>1
  <2> HIDE DEF T
  <2> QED BY <1>1, <1>3, <1>4, <2>1, W!UpTo
<1>6. Lead(n) = d
  <2> DEFINE b == Lead(n)
  <2>1. 1 \in Nat \ {0} /\ n \in Nat /\ n <= Len(d) /\ 1 <= n + 1 /\ n + 1 - 1 = n
    BY <1>1
  <2>2. b \in Seq(S) /\ Len(b) = n + 1 - 1 /\ \A k \in 1..(n + 1 - 1) : b[k] = d[1 + k - 1]
    BY <1>1, <2>1, W!PieceIs
  <2> HIDE DEF b
  <2>3. Len(b) = Len(d) /\ \A k \in 1..Len(b) : b[k] = d[k]
    BY <2>1, <2>2
  <2>4. b = d
    BY <1>1, <2>2, <2>3, W!SeqEqual
  <2> QED BY <2>4 DEF b
<1> QED BY <1>5, <1>6

\* Each tag stands for the text of its file, of one that tells files by their
\* text; other tokens for themselves.
Within(of, n) == [x \in TemplateTokens |->
                     IF x \in IncludePaths /\ n > 0 THEN of[n - 1][Files[x]] ELSE <<x>>]
Inlines(of, docs, depth) ==
    /\ of \in [0..depth -> [docs -> Docs]]
    /\ \A n \in 0..depth : \A d \in docs : of[n][d] = W!Flat(Within(of, n), d)

\* The same as Inlined has it.
InlineAt(of, n, d) ==
    D!FlattenSeq([i \in DOMAIN d |->
        IF d[i] \in IncludePaths /\ n > 0 THEN of[n - 1][Files[d[i]]] ELSE <<d[i]>>])

\* What FilesAssumption says of the files.
FilesGiven == /\ \A f \in DOMAIN Files : Files[f] \in Docs
          /\ IncludePaths \subseteq DOMAIN Files /\ MaxPasses \in Nat

(* There is such a function, and Inlined returns what it says of doc.      *)
LEMMA InlinedIs ==
    ASSUME NEW doc \in Docs, NEW depth \in Nat, FilesGiven
    PROVE  \E of : /\ Inlines(of, {doc} \cup D!Range(Files), depth)
                   /\ D!Inlined(doc, Files, depth) = of[depth][doc]
<1> DEFINE docs == {doc} \cup D!Range(Files)
           A == [docs -> Docs]
           Dom == 0..depth
           plain == [x \in TemplateTokens |-> <<x>>]
           Of(p) == [x \in TemplateTokens |-> IF x \in IncludePaths THEN p[Files[x]] ELSE <<x>>]
           rank == [n \in Dom |-> n]
           stop == {0}
           last == [n \in Dom |-> [d \in docs |-> W!Flat(plain, d)]]
           step == [n \in Dom |-> [p \in A |-> [d \in docs |-> W!Flat(Of(p), d)]]]
           next == [n \in Dom |-> n - 1]
           body(of) == [n \in 0..depth |-> [d \in {doc} \cup D!Range(Files) |-> InlineAt(of, n, d)]]
           of == CHOOSE f : f = body(f)
<1>1. \A d \in docs : d \in Docs
  BY DEF FilesGiven, D!Range
<1>2. \A f \in IncludePaths : Files[f] \in docs
  BY DEF FilesGiven, D!Range
<1>3. plain \in [TemplateTokens -> Docs]
  BY DEF Docs
<1>4. ASSUME NEW p \in A PROVE Of(p) \in [TemplateTokens -> Docs]
  <2>1. ASSUME NEW x \in TemplateTokens
        PROVE  (IF x \in IncludePaths THEN p[Files[x]] ELSE <<x>>) \in Docs
    <3>1. CASE x \in IncludePaths
      <4>1. Files[x] \in docs
        BY <1>2, <3>1
      <4> HIDE DEF docs, Docs
      <4>2. p[Files[x]] \in Docs
        BY <4>1
      <4> QED BY <3>1, <4>2
    <3>2. CASE x \notin IncludePaths
      <4>1. <<x>> \in Docs
        BY DEF Docs
      <4> QED BY <3>2, <4>1
    <3> QED BY <3>1, <3>2
  <2> HIDE DEF A, Docs
  <2> QED BY <2>1
<1>5. ASSUME NEW g \in [TemplateTokens -> Docs]
      PROVE  [d \in docs |-> W!Flat(g, d)] \in A
  <2>1. ASSUME NEW d \in docs PROVE W!Flat(g, d) \in Docs
    <3>1. d \in Docs
      BY <1>1
    <3> HIDE DEF docs
    <3> QED BY <3>1, W!EachIs DEF Docs
  <2> HIDE DEF docs, Docs
  <2> QED BY <2>1
<1> HIDE DEF docs, A, plain, Of
<1>6. W!Recursion(Dom, A, depth, rank, stop, last, step, next)
  <2>1. \A n \in Dom : rank[n] \in 0..depth
    OBVIOUS
  <2>2. \A n \in Dom \cap stop : last[n] \in A
    BY <1>3, <1>5
  <2>3. ASSUME NEW n \in Dom \ stop
        PROVE  next[n] \in Dom /\ rank[next[n]] < rank[n] /\ step[n] \in [A -> A]
    <3>1. next[n] \in Dom /\ rank[next[n]] < rank[n]
      OBVIOUS
    <3>2. \A p \in A : [d \in docs |-> W!Flat(Of(p), d)] \in A
      BY <1>4, <1>5
    <3> QED BY <3>1, <3>2
  <2> HIDE DEF Dom, rank, stop, last, step, next
  <2> QED BY <2>1, <2>2, <2>3 DEF W!Recursion
<1>7. PICK f \in [Dom -> A] : W!Solves(f, Dom, stop, last, step, next)
  <2> HIDE DEF Dom, rank, stop, last, step, next
  <2> QED BY <1>6, W!RecursionExists
<1>8. ASSUME NEW n \in Dom, NEW d \in docs PROVE f[n][d] = W!Flat(Within(f, n), d)
  <2>1. f[n] = IF n \in stop THEN last[n] ELSE step[n][f[next[n]]]
    <3> HIDE DEF Dom, stop, last, step, next
    <3> QED BY <1>7 DEF W!Solves
  <2>2. CASE n = 0
    <3>1. f[n][d] = W!Flat(plain, d)
      BY <2>1, <2>2
    <3>2. Within(f, n) = plain
      BY <2>2 DEF Within, plain
    <3> QED BY <3>1, <3>2
  <2>3. CASE n # 0
    <3> DEFINE p == f[n - 1]
    <3>1. p \in A /\ n > 0
      <4>1. n - 1 \in Dom
        BY <2>3
      <4> QED BY <1>7, <2>3, <4>1
    <3>2. Within(f, n) = Of(p)
      BY <3>1, Zenon DEF Within, Of
    <3>3. f[n] = step[n][p]
      BY <2>1, <2>3
    <3> HIDE DEF p
    <3>4. step[n][p] = [e \in docs |-> W!Flat(Of(p), e)]
      BY <3>1
    <3>5. f[n][d] = W!Flat(Of(p), d)
      BY <3>3, <3>4
    <3> QED BY <3>2, <3>5
  <2> QED BY <2>2, <2>3
<1>9. ASSUME NEW g, NEW n \in Dom, NEW d \in docs PROVE InlineAt(g, n, d) = W!Flat(Within(g, n), d)
  <2>1. d \in Docs
    BY <1>1
  <2>2. \A i \in DOMAIN d : d[i] \in TemplateTokens
    BY <2>1 DEF Docs
  <2> DEFINE e == [i \in DOMAIN d |-> IF d[i] \in IncludePaths /\ n > 0
                                       THEN g[n - 1][Files[d[i]]] ELSE <<d[i]>>]
  <2>3. ASSUME NEW i \in DOMAIN d
        PROVE  Within(g, n)[d[i]] = IF d[i] \in IncludePaths /\ n > 0
                                       THEN g[n - 1][Files[d[i]]] ELSE <<d[i]>>
    <3> DEFINE x == d[i]
    <3>1. x \in TemplateTokens
      BY <2>2
    <3> HIDE DEF x
    <3>2. Within(g, n)[x] = IF x \in IncludePaths /\ n > 0 THEN g[n - 1][Files[x]] ELSE <<x>>
      BY <3>1, Zenon DEF Within
    <3> QED BY <3>2 DEF x
  <2>4. W!Each(Within(g, n), d) = e
    BY <2>3, Zenon DEF W!Each
  <2>5. InlineAt(g, n, d) = D!FlattenSeq(e)
    BY Zenon DEF InlineAt
  <2> HIDE DEF e
  <2> QED BY <2>4, <2>5, SameFlatten, Zenon DEF W!Flat
<1>10. f = body(f)
  <2>1. ASSUME NEW n \in Dom PROVE f[n] = [d \in docs |-> InlineAt(f, n, d)]
    <3>1. f[n] = [d \in docs |-> f[n][d]]
      BY <1>7 DEF A
    <3>2. \A d \in docs : f[n][d] = InlineAt(f, n, d)
      BY <1>8, <1>9
    <3>3. [d \in docs |-> f[n][d]] = [d \in docs |-> InlineAt(f, n, d)]
      BY <3>2, Zenon
    <3> QED BY <3>1, <3>3, Zenon
  <2>2. f = [n \in Dom |-> f[n]]
    <3> HIDE DEF Dom
    <3> QED BY <1>7
  <2>3. [n \in Dom |-> f[n]] = [n \in Dom |-> [d \in docs |-> InlineAt(f, n, d)]]
    BY <2>1, Zenon
  <2> QED BY <2>2, <2>3, Zenon DEF docs
<1>11. of = body(of)
  <2> HIDE DEF body
  <2> QED BY <1>10
<1> HIDE DEF of
<1>12. ASSUME NEW n \in Dom PROVE of[n] = [d \in docs |-> InlineAt(of, n, d)]
  <2>1. body(of)[n] = [d \in docs |-> InlineAt(of, n, d)]
    BY DEF docs
  <2> HIDE DEF body
  <2> QED BY <1>11, <2>1
<1>13. ASSUME NEW n \in Dom, NEW d \in docs PROVE of[n][d] = W!Flat(Within(of, n), d)
  <2>1. of[n][d] = InlineAt(of, n, d)
    BY <1>12
  <2> QED BY <1>9, <2>1
<1> DEFINE T == {n \in Dom : of[n] \in A}
<1>14. 0 \in T
  <2>1. 0 \in Dom
    OBVIOUS
  <2>2. Within(of, 0) = plain
    BY DEF Within, plain
  <2>3. of[0] = [d \in docs |-> of[0][d]]
    BY <1>12, <2>1
  <2>4. [d \in docs |-> of[0][d]] = [d \in docs |-> W!Flat(plain, d)]
    BY <1>13, <2>1, <2>2, Zenon
  <2>5. of[0] \in A
    BY <1>3, <1>5, <2>3, <2>4
  <2> QED BY <2>1, <2>5
<1>15. ASSUME NEW n \in 1..depth, n - 1 \in T PROVE n \in T
  <2> DEFINE p == of[n - 1]
  <2>1. n \in Dom /\ p \in A /\ n > 0
    BY <1>15
  <2>2. Within(of, n) = Of(p)
    BY <2>1, Zenon DEF Within, Of
  <2> HIDE DEF p
  <2>3. of[n] = [d \in docs |-> of[n][d]]
    BY <1>12, <2>1
  <2>4. [d \in docs |-> of[n][d]] = [d \in docs |-> W!Flat(Of(p), d)]
    BY <1>13, <2>1, <2>2, Zenon
  <2>5. of[n] \in A
    BY <1>4, <1>5, <2>1, <2>3, <2>4
  <2> QED BY <2>1, <2>5
<1>16. \A n \in Dom : of[n] \in A
  <2> HIDE DEF T
  <2>1. \A n \in 0..depth : n \in T
    BY <1>14, <1>15, W!UpTo
  <2> QED BY <2>1 DEF T
<1>17. of \in [Dom -> A]
  <2>1. of = [n \in Dom |-> of[n]]
    BY <1>11, Zenon
  <2> HIDE DEF Dom
  <2> QED BY <1>16, <2>1
<1>18. D!Inlined(doc, Files, depth) = of[depth][doc]
  BY Zenon DEF D!Inlined, of, InlineAt
<1>19. Inlines(of, docs, depth)
  BY <1>13, <1>17, Zenon DEF Inlines, A
<1> QED BY <1>18, <1>19 DEF docs

\* passes says how many passes are enough for a tag and all tags in its file.
Nested(passes) ==
    /\ passes \in [IncludePaths -> 1..MaxPasses]
    /\ \A f \in IncludePaths : \A i \in 1..Len(Files[f]) :
          Files[f][i] \in IncludePaths => 1 + Len(Files[f]) * passes[Files[f][i]] <= passes[f]

\* m passes are enough for each tag of d, the files one level deeper than n.
TagsExpand(of, n, d, passes, m) ==
    \A i \in 1..Len(d) : d[i] \in IncludePaths =>
        /\ n > 0 /\ passes[d[i]] <= m
        /\ Expands(Files[d[i]], of[n - 1][Files[d[i]]], passes[d[i]] - 1)

(* Then the text becomes what it stands for.                               *)
LEMMA ExpandsInlined ==
    ASSUME FilesGiven, NEW passes, Nested(passes), NEW docs, D!Range(Files) \subseteq docs,
           NEW depth \in Nat, NEW of, Inlines(of, docs, depth),
           NEW n \in 0..depth, NEW d \in docs \cap Docs, NEW m \in Nat, TagsExpand(of, n, d, passes, m)
    PROVE  Expands(d, of[n][d], m * Len(d))
<1> DEFINE g == Within(of, n)
<1>1. d \in Docs /\ d \in docs /\ \A i \in 1..Len(d) : d[i] \in TemplateTokens
  BY DEF Docs
<1>2. \A f \in IncludePaths : f \in DOMAIN Files /\ Files[f] \in Docs /\ Files[f] \in docs
  BY DEF FilesGiven, D!Range
<1>3. ASSUME NEW x \in TemplateTokens PROVE g[x] \in Docs
  <2>1. g[x] = IF x \in IncludePaths /\ n > 0 THEN of[n - 1][Files[x]] ELSE <<x>>
    BY Zenon DEF Within
  <2>2. CASE x \in IncludePaths /\ n > 0
    <3>1. of[n - 1] \in [docs -> Docs]
      <4>1. n - 1 \in 0..depth
        BY <2>2
      <4> HIDE DEF Docs
      <4> QED BY <4>1 DEF Inlines
    <3>2. of[n - 1][Files[x]] \in Docs
      <4> HIDE DEF Docs
      <4> QED BY <1>2, <2>2, <3>1
    <3> QED BY <2>1, <2>2, <3>2
  <2>3. CASE ~(x \in IncludePaths /\ n > 0)
    <3>1. <<x>> \in Docs
      BY DEF Docs
    <3> QED BY <2>1, <2>3, <3>1
  <2> QED BY <2>2, <2>3
<1>4. g \in [TemplateTokens -> Docs]
  <2>1. g = [x \in TemplateTokens |-> g[x]]
    BY Zenon DEF Within
  <2> HIDE DEF g, Docs
  <2> QED BY <1>3, <2>1
<1>5. ASSUME NEW i \in 1..Len(d) PROVE Expands(<<d[i]>>, g[d[i]], m)
  <2> DEFINE x == d[i]
             one == <<x>>
  <2>1. x \in TemplateTokens
    BY <1>1
  <2>2. x \in IncludePaths =>
            /\ n > 0 /\ passes[x] <= m
            /\ Expands(Files[x], of[n - 1][Files[x]], passes[x] - 1)
    BY DEF TagsExpand
  <2> HIDE DEF x
  <2>3. g[x] = IF x \in IncludePaths /\ n > 0 THEN of[n - 1][Files[x]] ELSE <<x>>
    BY <2>1, Zenon DEF Within
  <2>4. CASE x \in IncludePaths
    <3> DEFINE k == passes[x]
               l == k - 1
               r == of[n - 1][Files[x]]
    <3>1. k \in 1..MaxPasses /\ MaxPasses \in Nat
      BY <2>4 DEF Nested, FilesGiven
    <3>2. k <= m /\ Expands(Files[x], r, l) /\ g[x] = r
      BY <2>2, <2>3, <2>4
    <3>3. l \in Nat /\ l + 1 = k /\ k \in Nat
      BY <3>1
    <3> HIDE DEF k, l, r
    <3>4. x \in IncludePaths \cap TemplateTokens /\ x \in DOMAIN Files /\ Files[x] \in Docs
      BY <1>2, <2>1, <2>4
    <3>5. Expands(<<x>>, r, l + 1)
      BY <3>2, <3>3, <3>4, ExpandsTag
    <3>6. Expands(<<x>>, r, k)
      BY <3>3, <3>5
    <3>7. Expands(<<x>>, r, m)
      BY <3>2, <3>3, <3>6, ExpandsMore
    <3> QED BY <3>2, <3>7, Zenon DEF x
  <2>5. CASE x \notin IncludePaths
    <3>1. one \in Docs /\ Len(one) = 1 /\ one[1] = x
      BY <2>1 DEF Docs
    <3> HIDE DEF one
    <3>2. NoTags(one)
      BY <2>5, <3>1 DEF NoTags
    <3>3. Expands(one, one, 0)
      BY <3>1, <3>2, ExpandsFree
    <3>4. 0 \in Nat /\ 0 <= m
      OBVIOUS
    <3>5. Expands(one, one, m)
      BY <3>3, <3>4, ExpandsMore
    <3> QED BY <2>3, <2>5, <3>5, Zenon DEF x, one
  <2> QED BY <2>4, <2>5
<1> HIDE DEF g
<1>6. Expands(d, W!Flat(g, d), m * Len(d))
  <2>1. EachExpands(g, d, m)
    BY <1>5, Zenon DEF EachExpands
  <2> QED BY <1>1, <1>4, <2>1, ExpandsEach
<1>7. of[n][d] = W!Flat(g, d)
  BY <1>1, Zenon DEF Inlines, g
<1> QED BY <1>6, <1>7, Zenon

(* Products of counts.                                                     *)
LEMMA Product ==
    ASSUME NEW l \in Nat \ {0}, NEW m \in Nat
    PROVE  l * m = m * l /\ m * l \in Nat /\ m <= m * l
<1>1. l * m = m * l /\ m * l \in Nat
  OBVIOUS
<1> DEFINE k == l - 1
<1>2. k \in Nat /\ l = k + 1
  OBVIOUS
<1> HIDE DEF k
<1>3. m * (k + 1) = m * k + m /\ m * k \in Nat
  BY <1>2
<1> QED BY <1>1, <1>2, <1>3

(* Each file becomes what it stands for, in one pass less than its tag.    *)
LEMMA FilesExpand ==
    ASSUME FilesGiven, NEW passes, Nested(passes), NEW docs, D!Range(Files) \subseteq docs,
           NEW of, Inlines(of, docs, MaxPasses),
           NEW f \in IncludePaths, NEW n \in 0..MaxPasses, passes[f] - 1 <= n
    PROVE  Expands(Files[f], of[n][Files[f]], passes[f] - 1)
<1>0. /\ MaxPasses \in Nat /\ \A x \in IncludePaths : passes[x] \in 1..MaxPasses
      /\ \A x \in IncludePaths : Files[x] \in Docs /\ Files[x] \in docs
  BY DEF Nested, FilesGiven, D!Range
<1> DEFINE Good(x, i) == passes[x] - 1 <= i => Expands(Files[x], of[i][Files[x]], passes[x] - 1)
           T == {k \in 0..MaxPasses : \A x \in IncludePaths : passes[x] <= k =>
                     \A i \in 0..MaxPasses : Good(x, i)}
<1>1. 0 \in T
  <2>1. 0 \in 0..MaxPasses /\ \A x \in IncludePaths : ~(passes[x] <= 0)
    BY <1>0
  <2> HIDE DEF Good
  <2> QED BY <2>1
<1>2. ASSUME NEW k \in 1..MaxPasses, k - 1 \in T PROVE k \in T
  <2> SUFFICES ASSUME NEW x \in IncludePaths, passes[x] <= k, NEW i \in 0..MaxPasses, passes[x] - 1 <= i
               PROVE  Expands(Files[x], of[i][Files[x]], passes[x] - 1)
    <3>1. k \in 0..MaxPasses
      BY <1>0
    <3> QED BY <3>1
  <2> DEFINE d == Files[x]
             l == Len(d)
             c == passes[x] - 1
             tags == {j \in 1..l : d[j] \in IncludePaths}
             counts == {passes[d[j]] : j \in tags}
  <2>1. d \in Docs /\ d \in docs /\ l \in Nat
    BY <1>0 DEF Docs
  <2>2. c \in Nat /\ c <= i /\ c < k /\ k \in Nat /\ i \in Nat
    BY <1>0
  <2>3. ASSUME NEW j \in tags PROVE passes[d[j]] \in 1..MaxPasses /\ l * passes[d[j]] <= c
    <3>0. j \in 1..Len(Files[x]) /\ Files[x][j] \in IncludePaths
      OBVIOUS
    <3>1. 1 + l * passes[d[j]] <= passes[x]
      BY <3>0, Zenon DEF Nested
    <3> DEFINE q == passes[d[j]]
    <3>2. q \in 1..MaxPasses /\ passes[x] \in Nat
      BY <1>0
    <3> HIDE DEF q, l
    <3>3. l * q \in Nat
      BY <1>0, <2>1, <3>2
    <3>4. 1 + l * q <= passes[x]
      BY <3>1 DEF q
    <3>5. l * q <= c
      BY <3>2, <3>3, <3>4
    <3> QED BY <3>2, <3>5 DEF q
  <2> HIDE DEF c, d, l
  <2>4. PICK m \in Nat : m * l <= c /\ \A j \in tags : passes[d[j]] <= m /\ passes[d[j]] <= c
    <3>1. CASE tags = {}
      <4>1. 0 * l = 0
        BY <2>1
      <4> QED BY <2>2, <3>1, <4>1
    <3>2. CASE tags # {}
      <4>1. l \in Nat \ {0}
        BY <2>1, <3>2
      <4>2. counts \in SUBSET (0..MaxPasses) /\ counts # {}
        BY <1>0, <2>3, <3>2
      <4> DEFINE m == W!Max(counts)
      <4>3. m \in counts /\ \A y \in counts : y <= m
        <5> HIDE DEF counts
        <5> QED BY <1>0, <4>2, W!GreatestOf
      <4> HIDE DEF m
      <4>4. PICK j \in tags : m = passes[d[j]]
        BY <4>3
      <4>5. m \in Nat /\ l * m <= c
        BY <1>0, <2>3, <4>4
      <4>6. l * m = m * l /\ m * l \in Nat /\ m <= m * l
        BY <4>1, <4>5, Product
      <4>7. m * l <= c /\ m <= c
        BY <2>2, <4>5, <4>6
      <4>8. ASSUME NEW h \in tags PROVE passes[d[h]] <= m /\ passes[d[h]] <= c
        <5>1. passes[d[h]] <= m /\ passes[d[h]] \in Nat
          BY <1>0, <2>3, <4>3
        <5> QED BY <2>2, <4>5, <4>7, <5>1
      <4> QED BY <4>5, <4>7, <4>8
    <3> QED BY <3>1, <3>2
  <2>5. TagsExpand(of, i, d, passes, m)
    <3>1. ASSUME NEW j \in 1..Len(d), d[j] \in IncludePaths
          PROVE  /\ i > 0 /\ passes[d[j]] <= m
                 /\ Expands(Files[d[j]], of[i - 1][Files[d[j]]], passes[d[j]] - 1)
      <4> DEFINE y == d[j]
                 q == passes[y]
      <4>0. j \in 1..l /\ d[j] \in IncludePaths
        BY <3>1, Zenon DEF l
      <4>1. j \in tags /\ y \in IncludePaths
        BY <4>0, Zenon
      <4> HIDE DEF tags
      <4>2. q <= m /\ q <= c /\ q \in Nat /\ q >= 1
        <5>1. q <= m /\ q <= c
          BY <2>4, <4>1, Zenon
        <5> HIDE DEF y
        <5>2. q \in 1..MaxPasses
          BY <1>0, <4>1
        <5> QED BY <1>0, <5>1, <5>2
      <4> HIDE DEF y
      <4>3. i > 0 /\ i - 1 \in 0..MaxPasses /\ q <= k - 1 /\ q - 1 <= i - 1
        BY <1>0, <2>2, <4>2
      <4>4. Good(y, i - 1)
        <5> HIDE DEF Good
        <5> QED BY <1>2, <4>1, <4>3
      <4> QED BY <4>2, <4>3, <4>4 DEF y
    <3> QED BY <3>1, Zenon DEF TagsExpand
  <2>6. Expands(d, of[i][d], m * Len(d))
    <3>1. d \in docs \cap Docs
      BY <2>1
    <3> QED BY <1>0, <2>5, <3>1, ExpandsInlined
  <2>7. Expands(d, of[i][d], c)
    <3> DEFINE q == m * l
    <3>1. q \in Nat /\ q <= c /\ Expands(d, of[i][d], q)
      BY <2>1, <2>4, <2>6 DEF l
    <3> HIDE DEF q
    <3> QED BY <2>2, <3>1, ExpandsMore
  <2> QED BY <2>7 DEF d, c
<1>3. MaxPasses \in T
  <2>1. MaxPasses \in 0..MaxPasses
    BY <1>0
  <2> HIDE DEF T
  <2> QED BY <1>0, <1>1, <1>2, <2>1, W!UpTo
<1>4. passes[f] <= MaxPasses
  BY <1>0
<1> HIDE DEF Good
<1>5. Good(f, n)
  BY <1>3, <1>4
<1> QED BY <1>5 DEF Good

(* So a template becomes what it stands for, and nothing else.             *)
LEMMA IncludedRight ==
    ASSUME NEW doc \in Docs
    PROVE  /\ D!Inlined(doc, Files, MaxPasses) \in Docs
           /\ D!Included(doc, Files, Len(doc) * MaxPasses) = {D!Inlined(doc, Files, MaxPasses)}
<1>1. FilesGiven
  BY FilesAssumption DEF FilesGiven, Docs
<1>2. PICK passes : Nested(passes)
  BY FilesAssumption, Zenon DEF Nested
<1> DEFINE docs == {doc} \cup D!Range(Files)
           m == MaxPasses
           l == Len(doc)
<1>3. m \in Nat /\ l \in Nat /\ m \in 0..m /\ m * l = l * m /\ l * m \in Nat
  <2>1. m \in Nat /\ l \in Nat
    BY <1>1 DEF FilesGiven, Docs
  <2> HIDE DEF m, l
  <2> QED BY <2>1
<1>4. PICK of : Inlines(of, docs, m) /\ D!Inlined(doc, Files, m) = of[m][doc]
  BY <1>1, <1>3, InlinedIs
<1>5. D!Range(Files) \subseteq docs /\ doc \in docs \cap Docs
  OBVIOUS
<1> HIDE DEF docs
<1>6. TagsExpand(of, m, doc, passes, m)
  <2>1. ASSUME NEW i \in 1..Len(doc), doc[i] \in IncludePaths
        PROVE  /\ m > 0 /\ passes[doc[i]] <= m
               /\ Expands(Files[doc[i]], of[m - 1][Files[doc[i]]], passes[doc[i]] - 1)
    <3> DEFINE x == doc[i]
    <3>1. x \in IncludePaths /\ passes[x] \in 1..m
      BY <1>2, <2>1 DEF Nested
    <3> HIDE DEF x, m
    <3>2. m > 0 /\ passes[x] <= m /\ m - 1 \in 0..m /\ passes[x] - 1 <= m - 1
      BY <1>3, <3>1
    <3>3. Expands(Files[x], of[m - 1][Files[x]], passes[x] - 1)
      BY <1>1, <1>2, <1>4, <1>5, <3>1, <3>2, FilesExpand DEF m
    <3> QED BY <3>2, <3>3 DEF x
  <2> QED BY <2>1, Zenon DEF TagsExpand
<1> DEFINE r == of[m][doc]
<1>7. Expands(doc, r, m * l)
  BY <1>1, <1>2, <1>3, <1>4, <1>5, <1>6, ExpandsInlined
<1> HIDE DEF r, m, l
<1>8. r \in Docs /\ NoTags(r) /\ \E c \in 0..(m * l) : Reaches(doc, c, r)
  <2> DEFINE none == <<>>
  <2>1. none \in Docs /\ NoTags(none)
    BY DEF Docs, NoTags
  <2>2. r \in Docs
    BY <1>7 DEF Expands
  <2>3. none \o (doc \o none) = doc /\ none \o (r \o none) = r
    <3>1. \A s \in Seq(TemplateTokens) : <<>> \o (s \o <<>>) = s
      OBVIOUS
    <3> QED BY <2>2, <3>1 DEF Docs
  <2> HIDE DEF none
  <2>4. \E c \in 0..(m * l) : Reaches(none \o (doc \o none), c, none \o (r \o none))
    BY <1>7, <2>1, Zenon DEF Expands
  <2> QED BY <1>7, <2>2, <2>3, <2>4, Zenon DEF Expands
<1>9. PICK c \in 0..(m * l) : Reaches(doc, c, r)
  BY <1>8
<1>10. c \in Nat /\ c <= l * m
  BY <1>3
<1> DEFINE e == l * m
<1>11. e \in Nat /\ c <= e
  BY <1>3, <1>10
<1> HIDE DEF e
<1>12. Reaches(doc, e, r)
  BY <1>8, <1>9, <1>10, <1>11, FreeStays
<1>13. D!Included(doc, Files, e) = {r}
  BY <1>11, <1>12, ReachedIncluded
<1> QED BY <1>4, <1>8, <1>13 DEF e, r, m, l

(* Each token of a template reaches the generated file in the language it  *)
(* is written in, whatever the template and the files it includes.         *)
THEOREM TemplatesRight == Spec => []TemplatesAgree
<1>1. Given => TemplatesAgree
  <2> SUFFICES ASSUME Given, Input("template") PROVE TemplatesAgree
    BY DEF TemplatesAgree
  <2> DEFINE d == text.doc
             doc == D!Inlined(d, Files, MaxPasses)
             language == D!Languages(doc)
             passes == Len(d) * MaxPasses
             views == D!create_template(d, Files, passes)
             view == CHOOSE v \in views : TRUE
  <2>1. d \in Docs
    BY TextsAssumption DEF Given, Input, TemplateInput, Docs
  <2> HIDE DEF d
  <2>2. doc \in Docs /\ D!Included(d, Files, passes) = {doc}
    BY <2>1, IncludedRight
  <2>3. views = {Template(x) : x \in D!Included(d, Files, passes)}
    BY Zenon DEF D!create_template, Template
  <2> HIDE DEF doc, passes, views
  <2>4. views = {Template(doc)}
    BY <2>2, <2>3
  <2>5. view = Template(doc)
    BY <2>4
  <2> HIDE DEF view
  <2>6. language.kind = "html" =>
            /\ D!Emitted(view.body) = D!Without(language.out, Directive)
            /\ view.includes = RequiredIncludes \cup
                   {CppInclude : i \in {j \in DOMAIN language.out : language.out[j] = Directive}}
    <3>1. doc \in Seq(TemplateTokens)
      BY <2>2 DEF Docs
    <3> QED BY <2>5, <3>1, TemplateRight, Zenon
  <2> QED BY <2>6, Zenon DEF TemplatesAgree, Directive, d, doc, passes, views, view
<1> QED BY <1>1, TextGiven, PTL
=============================================================================
