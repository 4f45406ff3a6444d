----------------------- MODULE SessionManagerProofs ------------------------
(***************************************************************************)
(* The properties of SessionManager, for any numbers of threads, ids, keys *)
(* and values, any lifetime, any threshold and any delay.                  *)
(*                                                                         *)
(* The argument: nothing is erased while a thread holds the shared lock,   *)
(* so a session that passed the test of start() is still there when it is  *)
(* extended, and not expired at the instant the thread has read; an id is  *)
(* inserted before it is issued, once.  How often a clean-up runs is a     *)
(* matter of counting the threads about to reset the counter and the       *)
(* threads about to clean up.                                              *)
(***************************************************************************)
EXTENDS SessionManager, FiniteSetTheorems, TLAPS

\* What a thread knows at each place in start().
Known ==
    /\ \A t \in Threads : pc[t] = "extend" =>
          /\ Present(cookie[t])
          /\ sessions[cookie[t]].left + lag[t] > 0
    /\ \A t \in Threads : pc[t] = "insert" => sid[t] \in Ids \ issued
    /\ \A t, u \in Threads :
          pc[t] = "insert" /\ pc[u] = "insert" /\ sid[t] = sid[u] => t = u
    /\ \A id \in Ids : Present(id) => id \in issued
    /\ \A t \in Threads : pc[t] \in {"check", "extend"} => cookie[t] \in Ids

IInv == TypeOK /\ Known /\ NotCutShort

\* Which of two integers Larger returns.
LEMMA LargerIs == ASSUME NEW a \in Int, NEW b \in Int
                  PROVE  /\ a >= b => Larger(a, b) = a
                         /\ a < b => Larger(a, b) = b
                         /\ Larger(a, b) \in Int /\ Larger(a, b) >= a /\ Larger(a, b) >= b
BY DEF Larger

\* A session whose lifetime or settings change is a session.
LEMMA SessionIs == ASSUME NEW s \in Sessions, NEW n \in Lifetimes,
                          NEW k \in Keys, NEW v \in Values
                   PROVE  /\ [s EXCEPT !.left = n] \in Sessions
                          /\ [s EXCEPT !.settings[k] = v] \in Sessions
BY DEF Sessions

LEMMA ExtendedIs == ASSUME NEW s \in Sessions, NEW n \in Lifetimes
                    PROVE  /\ [s EXCEPT !.left = n] \in Sessions
                           /\ [s EXCEPT !.left = n].left = n
                           /\ s.left \in Lifetimes
BY DEF Sessions

\* What Tick does to what is left of a lifetime.
LEMMA OlderIs == ASSUME NEW n \in Lifetimes
                 PROVE  /\ Larger(n - 1, -Delay - 1) \in Lifetimes
                        /\ n > -Delay - 1 => Larger(n - 1, -Delay - 1) = n - 1
                        /\ Larger(n - 1, -Delay - 1) <= n
<1>1. Delay \in Nat /\ MaxAge \in Nat
  BY SessionAssumption
<1> QED BY <1>1 DEF Lifetimes, Larger
-----------------------------------------------------------------------------
LEMMA InitIInv == Init => IInv
<1> SUFFICES ASSUME Init PROVE IInv
  OBVIOUS
<1>1. Delay \in Nat /\ MaxAge \in Nat
  BY SessionAssumption
<1>2. TypeOK
  BY <1>1 DEF Init, TypeOK
<1>3. Known
  <2>1. \A t \in Threads : pc[t] = "idle"
    BY DEF Init
  <2>2. \A id \in Ids : ~Present(id)
    BY DEF Init, Present
  <2> QED BY <2>1, <2>2 DEF Known
<1>4. NotCutShort
  BY DEF Init, NotCutShort
<1> QED BY <1>2, <1>3, <1>4 DEF IInv

\* What a call that ends does to the history and to its own variables.
LEMMA GrantType ==
  ASSUME TypeOK, NEW t \in Threads, NEW id \in Ids, Grant(t, id)
  PROVE  /\ promised' \in [Ids -> 0..MaxAge]
         /\ promised'[id] = MaxAge - lag[t] \/ promised'[id] = promised[id]
         /\ \A i \in Ids : i # id => promised'[i] = promised[i]
         /\ pc' = [pc EXCEPT ![t] = "idle"] /\ cookie' = [cookie EXCEPT ![t] = NoId]
         /\ sid' = [sid EXCEPT ![t] = NoId] /\ lag' = [lag EXCEPT ![t] = 0]
         /\ cookie' \in [Threads -> Ids \cup {NoId}]
         /\ sid' \in [Threads -> Ids \cup {NoId}]
         /\ lag' \in [Threads -> 0..Delay]
         /\ MaxAge - lag[t] \in 1..MaxAge
<1>1. /\ Delay \in Nat /\ MaxAge \in Nat /\ Delay < MaxAge
      /\ lag[t] \in 0..Delay /\ promised[id] \in 0..MaxAge
  BY SessionAssumption DEF TypeOK
<1>2. MaxAge - lag[t] \in 1..MaxAge
  BY <1>1
<1>3. /\ Larger(promised[id], MaxAge - lag[t]) \in {promised[id], MaxAge - lag[t]}
      /\ Larger(promised[id], MaxAge - lag[t]) \in 0..MaxAge
  BY <1>1, <1>2 DEF Larger
<1> QED BY <1>1, <1>2, <1>3 DEF Grant, TypeOK

LEMMA TypeNext == TypeOK /\ Known /\ [Next]_vars => TypeOK'
<1> SUFFICES ASSUME TypeOK, Known, [Next]_vars PROVE TypeOK'
  OBVIOUS
<1>0. /\ Delay \in Nat /\ MaxAge \in Nat /\ Delay < MaxAge
      /\ Threshold \in Nat \ {0} /\ NoSession \notin Sessions
  BY SessionAssumption, NoSessionAssumption
<1> USE DEF TypeOK
<1>1. CASE Tick
  <2>1. ASSUME NEW id \in Ids PROVE sessions'[id] \in Sessions \cup {NoSession}
    <3>1. CASE Present(id)
      <4>1. sessions[id] \in Sessions
        BY <3>1 DEF Present
      <4>2. Larger(sessions[id].left - 1, -Delay - 1) \in Lifetimes
        BY <4>1, OlderIs, ExtendedIs DEF Sessions
      <4> QED BY <1>1, <3>1, <4>1, <4>2, ExtendedIs DEF Tick
    <3>2. CASE ~Present(id)
      BY <1>1, <3>2 DEF Tick
    <3> QED BY <3>1, <3>2
  <2>2. sessions' \in [Ids -> Sessions \cup {NoSession}]
    BY <1>1, <2>1 DEF Tick
  <2>3. lag' \in [Threads -> 0..Delay]
    BY <1>0, <1>1 DEF Tick
  <2>4. promised' \in [Ids -> 0..MaxAge]
    <3>1. \A id \in Ids : Larger(promised[id] - 1, 0) \in 0..MaxAge
      BY <1>0 DEF Larger
    <3> QED BY <1>1, <3>1 DEF Tick
  <2> QED BY <1>1, <2>2, <2>3, <2>4 DEF Tick
<1>2. ASSUME NEW t \in Threads, NEW c \in issued \cup {NoId}, Count(t, c) PROVE TypeOK'
  BY <1>2 DEF Count, Goto
<1>3. ASSUME NEW t \in Threads, CleanUp(t) PROVE TypeOK'
  BY <1>3 DEF CleanUp, Goto, Erase
<1>4. ASSUME NEW t \in Threads, ResetCounter(t) PROVE TypeOK'
  BY <1>4 DEF ResetCounter, Goto
<1>5. ASSUME NEW t \in Threads, Lookup(t) PROVE TypeOK'
  BY <1>0, <1>5 DEF Lookup, Goto
<1>6. ASSUME NEW t \in Threads, Check(t) PROVE TypeOK'
  BY <1>6 DEF Check, Goto
<1>7. ASSUME NEW t \in Threads, Extend(t) PROVE TypeOK'
  <2>1. cookie[t] \in Ids /\ sessions[cookie[t]] \in Sessions
    BY <1>7 DEF Extend, Known, Present
  <2>2. MaxAge - lag[t] \in Lifetimes
    BY <1>0, <1>7, <2>1, GrantType DEF Extend, Lifetimes
  <2>3. sessions' \in [Ids -> Sessions \cup {NoSession}]
    <3>1. [sessions[cookie[t]] EXCEPT !.left = MaxAge - lag[t]] \in Sessions
      BY <2>1, <2>2, ExtendedIs
    <3> QED BY <1>7, <2>1, <3>1 DEF Extend
  <2> QED BY <1>7, <2>1, <2>3, GrantType DEF Extend
<1>8. ASSUME NEW t \in Threads, Create(t) PROVE TypeOK'
  BY <1>0, <1>8 DEF Create, Goto
<1>9. ASSUME NEW t \in Threads, Insert(t) PROVE TypeOK'
  <2>1. sid[t] \in Ids
    BY <1>9 DEF Insert, Known
  <2>2. MaxAge - lag[t] \in Lifetimes
    BY <1>0, <1>9, <2>1, GrantType DEF Insert, Lifetimes
  <2>3. [left |-> MaxAge - lag[t], settings |-> [k \in Keys |-> NoValue]] \in Sessions
    BY <2>2 DEF Sessions
  <2>4. sessions' \in [Ids -> Sessions \cup {NoSession}]
    BY <1>9, <2>1, <2>3 DEF Insert
  <2> QED BY <1>9, <2>1, <2>4, GrantType DEF Insert
<1>10. ASSUME NEW S \in SUBSET Ids, EndSessions(S) PROVE TypeOK'
  BY <1>0, <1>10 DEF EndSessions, Erase, callVars
<1>11. ASSUME NEW id \in issued, NEW k \in Keys, NEW v \in Values, set_value(id, k, v)
       PROVE TypeOK'
  <2>1. sessions[id] \in Sessions /\ id \in Ids
    BY <1>11 DEF set_value, Valid, Present
  <2>2. [sessions[id] EXCEPT !.settings[k] = v] \in Sessions
    BY <2>1 DEF Sessions
  <2>3. sessions' \in [Ids -> Sessions \cup {NoSession}]
    BY <1>11, <2>1, <2>2 DEF set_value
  <2> QED BY <1>11, <2>3 DEF set_value, callVars
<1>12. CASE UNCHANGED vars
  BY <1>12 DEF vars, callVars
<1>13. ASSUME NEW id \in issued, destroy(id) PROVE TypeOK'
  BY <1>10, <1>13 DEF destroy
<1>14. ASSUME NEW k \in Keys, NEW v \in Values, invalidate(k, v) PROVE TypeOK'
  BY <1>10, <1>14 DEF invalidate
<1> QED
  BY <1>1, <1>2, <1>3, <1>4, <1>5, <1>6, <1>7, <1>8, <1>9, <1>11, <1>12, <1>13, <1>14
  DEF Next, Start, Change
-----------------------------------------------------------------------------
\* The threads whose place in start() a step of t leaves alone.
LEMMA GotoOthers ==
  ASSUME TypeOK, NEW t \in Threads, NEW label, Goto(t, label)
  PROVE  /\ pc'[t] = label
         /\ \A u \in Threads : u # t => pc'[u] = pc[u]
BY DEF TypeOK, Goto

LEMMA KnownNext == TypeOK /\ Known /\ [Next]_vars => Known'
<1> SUFFICES ASSUME TypeOK, Known, [Next]_vars PROVE Known'
  OBVIOUS
<1>0. /\ Delay \in Nat /\ MaxAge \in Nat /\ Delay < MaxAge
      /\ NoSession \notin Sessions /\ NoId \notin Ids
      /\ \A t \in Threads : lag[t] \in 0..Delay
      /\ \A t \in Threads : cookie[t] \in Ids =>
            cookie[t] # NoId /\ sessions[cookie[t]] \in Sessions \cup {NoSession}
  BY SessionAssumption, NoSessionAssumption DEF TypeOK
<1>a. \A id \in Ids : Present(id) => /\ sessions[id] \in Sessions
                                     /\ sessions[id].left \in Lifetimes
  <2> SUFFICES ASSUME NEW id \in Ids, Present(id)
               PROVE  sessions[id] \in Sessions /\ sessions[id].left \in Lifetimes
    OBVIOUS
  <2>1. sessions[id] \in Sessions
    BY DEF TypeOK, Present
  <2> QED BY <2>1 DEF Sessions
<1>1. CASE Tick
  <2>1. \A id \in Ids : Present(id)' <=> Present(id)
    <3> SUFFICES ASSUME NEW id \in Ids PROVE Present(id)' <=> Present(id)
      OBVIOUS
    <3>1. CASE Present(id)
      <4>1. sessions'[id] = [sessions[id] EXCEPT !.left = Larger(@ - 1, -Delay - 1)]
        BY <1>1, <3>1 DEF Tick
      <4>2. sessions'[id] \in Sessions
        BY <1>a, <3>1, <4>1, OlderIs, ExtendedIs
      <4> QED BY <1>0, <3>1, <4>2 DEF Present
    <3>2. CASE ~Present(id)
      BY <1>1, <3>2 DEF Tick, Present
    <3> QED BY <3>1, <3>2
  <2>2. ASSUME NEW t \in Threads, pc'[t] = "extend"
        PROVE  sessions'[cookie[t]].left + lag'[t] > 0
    <3>1. /\ pc[t] = "extend" /\ cookie[t] \in Ids /\ Present(cookie[t])
          /\ sessions[cookie[t]].left + lag[t] > 0
      BY <1>1, <2>2 DEF Tick, Known
    <3>2. lag[t] < Delay /\ lag'[t] = lag[t] + 1
      BY <1>1, <3>1 DEF Tick, Timed, Readers, TypeOK
    <3>3. sessions'[cookie[t]].left = Larger(sessions[cookie[t]].left - 1, -Delay - 1)
      <4>1. sessions'[cookie[t]] =
              [sessions[cookie[t]] EXCEPT !.left = Larger(@ - 1, -Delay - 1)]
        BY <1>1, <3>1 DEF Tick
      <4> QED BY <1>a, <3>1, <4>1, OlderIs, ExtendedIs
    <3>4. sessions[cookie[t]].left > -Delay - 1 /\ sessions[cookie[t]].left \in Lifetimes
      BY <1>0, <1>a, <3>1, <3>2 DEF Lifetimes
    <3>5. Larger(sessions[cookie[t]].left - 1, -Delay - 1) = sessions[cookie[t]].left - 1
      BY <3>4, OlderIs
    <3> QED BY <1>0, <3>1, <3>2, <3>3, <3>4, <3>5 DEF Lifetimes
  <2> QED BY <1>1, <2>1, <2>2 DEF Tick, Known
<1>2. ASSUME NEW t \in Threads, NEW c \in issued \cup {NoId}, Count(t, c) PROVE Known'
  <2>1. /\ pc'[t] \in {"cleanup", "lookup"} /\ \A u \in Threads : u # t => pc'[u] = pc[u]
        /\ \A u \in Threads : u # t => cookie'[u] = cookie[u]
    BY <1>2, GotoOthers DEF Count, TypeOK
  <2> QED BY <1>2, <2>1 DEF Count, Known, Present
<1>3. ASSUME NEW t \in Threads, CleanUp(t) PROVE Known'
  <2>1. pc'[t] = "reset" /\ \A u \in Threads : u # t => pc'[u] = pc[u]
    BY <1>3, GotoOthers DEF CleanUp
  <2>2. \A u \in Threads : pc'[u] \notin {"check", "extend"}
    BY <1>3, <2>1 DEF CleanUp, Readers
  <2>3. \A id \in Ids : Present(id)' => Present(id)
    BY <1>3 DEF CleanUp, Erase, Present
  <2> QED BY <1>3, <2>1, <2>2, <2>3 DEF CleanUp, Known
<1>4. ASSUME NEW t \in Threads, ResetCounter(t) PROVE Known'
  <2>1. pc'[t] = "lookup" /\ \A u \in Threads : u # t => pc'[u] = pc[u]
    BY <1>4, GotoOthers DEF ResetCounter
  <2> QED BY <1>4, <2>1 DEF ResetCounter, Known, Present
<1>5. ASSUME NEW t \in Threads, Lookup(t) PROVE Known'
  <2>1. /\ pc'[t] = "check" /\ \A u \in Threads : u # t => pc'[u] = pc[u]
        /\ \A u \in Threads : u # t => lag'[u] = lag[u]
        /\ cookie[t] \in Ids
    BY <1>5, GotoOthers DEF Lookup, TypeOK
  <2> QED BY <1>5, <2>1 DEF Lookup, Known, Present
<1>6. ASSUME NEW t \in Threads, Check(t) PROVE Known'
  <2>1. /\ pc'[t] \in {"extend", "create"}
        /\ pc'[t] = "extend" => Unexpired(t)
        /\ \A u \in Threads : u # t => pc'[u] = pc[u]
        /\ cookie[t] \in Ids
    BY <1>6, GotoOthers DEF Check, Known
  <2> QED BY <1>6, <2>1 DEF Check, Known, Present, Unexpired
<1>7. ASSUME NEW t \in Threads, Extend(t) PROVE Known'
  <2>1. cookie[t] \in Ids /\ Present(cookie[t])
    BY <1>7 DEF Extend, Known
  <2>2. /\ pc'[t] = "idle" /\ MaxAge - lag[t] \in 1..MaxAge
        /\ \A u \in Threads : u # t => /\ pc'[u] = pc[u] /\ cookie'[u] = cookie[u]
                                       /\ lag'[u] = lag[u] /\ sid'[u] = sid[u]
    BY <1>7, <2>1, GrantType DEF Extend, TypeOK
  <2>3. /\ sessions'[cookie[t]] \in Sessions
        /\ sessions'[cookie[t]].left = MaxAge - lag[t]
        /\ \A id \in Ids : id # cookie[t] => sessions'[id] = sessions[id]
    <3>1. sessions'[cookie[t]] = [sessions[cookie[t]] EXCEPT !.left = MaxAge - lag[t]]
      BY <1>7, <2>1 DEF Extend, TypeOK
    <3>2. MaxAge - lag[t] \in Lifetimes
      BY <1>0, <2>2 DEF Lifetimes
    <3> QED BY <1>7, <1>a, <2>1, <3>1, <3>2, ExtendedIs DEF Extend, TypeOK
  <2>4. \A id \in Ids : Present(id)' <=> Present(id)
    BY <1>0, <2>1, <2>3 DEF Present
  <2>5. ASSUME NEW u \in Threads, pc'[u] = "extend"
        PROVE  sessions'[cookie'[u]].left + lag'[u] > 0
    <3>1. u # t /\ pc[u] = "extend" /\ cookie'[u] = cookie[u] /\ lag'[u] = lag[u]
      BY <2>2, <2>5
    <3>2. CASE cookie[u] = cookie[t]
      BY <1>0, <2>2, <2>3, <3>1, <3>2
    <3>3. CASE cookie[u] # cookie[t]
      BY <2>3, <3>1, <3>3 DEF Known
    <3> QED BY <3>2, <3>3
  <2> QED BY <1>7, <2>1, <2>2, <2>4, <2>5 DEF Extend, Known
<1>8. ASSUME NEW t \in Threads, Create(t) PROVE Known'
  <2>1. /\ pc'[t] = "insert" /\ \A u \in Threads : u # t => pc'[u] = pc[u]
        /\ sid'[t] \in Ids \ issued /\ \A u \in Threads : sid'[t] # sid[u]
        /\ \A u \in Threads : u # t => sid'[u] = sid[u] /\ lag'[u] = lag[u]
    BY <1>8, GotoOthers DEF Create, TypeOK
  <2> QED BY <1>8, <2>1 DEF Create, Known, Present
<1>9. ASSUME NEW t \in Threads, Insert(t) PROVE Known'
  <2>1. sid[t] \in Ids
    BY <1>9 DEF Insert, Known
  <2>2. /\ pc'[t] = "idle"
        /\ \A u \in Threads : u # t => /\ pc'[u] = pc[u] /\ cookie'[u] = cookie[u]
                                       /\ lag'[u] = lag[u] /\ sid'[u] = sid[u]
    BY <1>9, <2>1, GrantType DEF Insert, TypeOK
  <2>3. \A u \in Threads : pc'[u] \notin {"check", "extend"}
    BY <1>9, <2>2 DEF Insert, Readers
  <2>4. \A id \in Ids : Present(id)' => Present(id) \/ id = sid[t]
    BY <1>9 DEF Insert, Present, TypeOK
  <2>5. ASSUME NEW u \in Threads, pc'[u] = "insert" PROVE sid'[u] \in Ids \ issued'
    <3>1. u # t /\ pc[u] = "insert" /\ sid'[u] = sid[u]
      BY <2>2, <2>5
    <3>2. sid[u] # sid[t]
      BY <1>9, <3>1 DEF Insert, Known
    <3> QED BY <1>9, <3>1, <3>2 DEF Insert, Known
  <2> QED BY <1>9, <2>2, <2>3, <2>4, <2>5 DEF Insert, Known
<1>10. ASSUME NEW S \in SUBSET Ids, Readers = {}, EndSessions(S) PROVE Known'
  <2>1. \A u \in Threads : pc[u] \notin {"check", "extend"}
    BY <1>10 DEF Readers
  <2>2. \A id \in Ids : Present(id)' => Present(id)
    BY <1>10 DEF EndSessions, Erase, Present
  <2> QED BY <1>10, <2>1, <2>2 DEF EndSessions, callVars, Known
<1>11. ASSUME NEW id \in issued, NEW k \in Keys, NEW v \in Values, set_value(id, k, v)
       PROVE Known'
  <2>1. \A u \in Threads : pc[u] \notin {"check", "extend"}
    BY <1>11 DEF Readers, set_value
  <2>2. \A i \in Ids : i # id => sessions'[i] = sessions[i]
    BY <1>11 DEF set_value, TypeOK
  <2>3. \A i \in Ids : Present(i)' => i \in issued
    BY <2>2 DEF Known, Present
  <2> QED BY <1>11, <2>1, <2>3 DEF set_value, callVars, Known
<1>12. CASE UNCHANGED vars
  BY <1>12 DEF vars, callVars, Known, Present
<1>13. ASSUME NEW id \in issued, destroy(id) PROVE Known'
  BY <1>10, <1>13 DEF destroy, TypeOK
<1>14. ASSUME NEW k \in Keys, NEW v \in Values, invalidate(k, v) PROVE Known'
  BY <1>10, <1>14 DEF invalidate
<1> QED
  BY <1>1, <1>2, <1>3, <1>4, <1>5, <1>6, <1>7, <1>8, <1>9, <1>11, <1>12, <1>13, <1>14
  DEF Next, Start, Change
-----------------------------------------------------------------------------
LEMMA KeptNext == IInv /\ [Next]_vars => NotCutShort'
<1> SUFFICES ASSUME IInv, [Next]_vars, NEW id \in issued', promised'[id] > Delay
             PROVE  Present(id)' /\ sessions'[id].left >= promised'[id] - Delay
  BY DEF NotCutShort
<1>0. /\ Delay \in Nat /\ MaxAge \in Nat /\ Delay < MaxAge
      /\ NoSession \notin Sessions /\ NoId \notin Ids
  BY SessionAssumption, NoSessionAssumption
<1>a. TypeOK /\ Known /\ TypeOK' /\ issued' \subseteq Ids
  <2>1. TypeOK'
    BY TypeNext DEF IInv
  <2> QED BY <2>1 DEF IInv, TypeOK
<1>b. id \in Ids /\ promised[id] \in 0..MaxAge /\ promised'[id] \in 0..MaxAge
  BY <1>a DEF TypeOK
<1>c. ASSUME id \in issued, promised[id] > Delay
      PROVE  /\ Present(id) /\ sessions[id].left >= promised[id] - Delay
             /\ sessions[id] \in Sessions /\ sessions[id].left \in Lifetimes
  <2>1. Present(id) /\ sessions[id].left >= promised[id] - Delay
    BY <1>c DEF IInv, NotCutShort
  <2>2. sessions[id] \in Sessions
    BY <1>a, <1>b, <2>1 DEF TypeOK, Present
  <2> QED BY <2>1, <2>2 DEF Sessions
\* A step that leaves the session and what it was promised alone.
<1>d. ASSUME id \in issued, promised'[id] = promised[id], sessions'[id] = sessions[id]
      PROVE  Present(id)' /\ sessions'[id].left >= promised'[id] - Delay
  BY <1>c, <1>d DEF Present
<1>1. CASE Tick
  <2>1. promised'[id] = promised[id] - 1 /\ promised[id] > Delay /\ id \in issued
    BY <1>0, <1>1, <1>b DEF Tick, Larger
  <2>2. sessions'[id] = [sessions[id] EXCEPT !.left = Larger(@ - 1, -Delay - 1)]
    BY <1>1, <1>b, <1>c, <2>1 DEF Tick
  <2>3. sessions[id].left > -Delay - 1
    BY <1>0, <1>b, <1>c, <2>1 DEF Lifetimes
  <2>4. sessions'[id] \in Sessions /\ sessions'[id].left = sessions[id].left - 1
    BY <1>c, <2>1, <2>2, <2>3, OlderIs, ExtendedIs
  <2> QED BY <1>0, <1>b, <1>c, <2>1, <2>4 DEF Present, Lifetimes
<1>2. ASSUME NEW t \in Threads, NEW c \in issued \cup {NoId}, Count(t, c)
      PROVE  Present(id)' /\ sessions'[id].left >= promised'[id] - Delay
  BY <1>2, <1>d DEF Count
<1>3. ASSUME NEW t \in Threads, CleanUp(t)
      PROVE  Present(id)' /\ sessions'[id].left >= promised'[id] - Delay
  <2>1. id \in issued /\ promised'[id] = promised[id] /\ promised[id] > Delay
    BY <1>3 DEF CleanUp
  <2>2. ~(sessions[id].left < 0)
    BY <1>0, <1>b, <1>c, <2>1 DEF Lifetimes
  <2>3. sessions'[id] = sessions[id]
    BY <1>3, <1>b, <2>2 DEF CleanUp, Erase
  <2> QED BY <1>d, <2>1, <2>3
<1>4. ASSUME NEW t \in Threads, ResetCounter(t) \/ Lookup(t) \/ Check(t) \/ Create(t)
      PROVE  Present(id)' /\ sessions'[id].left >= promised'[id] - Delay
  BY <1>4, <1>d DEF ResetCounter, Lookup, Check, Create
<1>7. ASSUME NEW t \in Threads, Extend(t)
      PROVE  Present(id)' /\ sessions'[id].left >= promised'[id] - Delay
  <2>1. cookie[t] \in Ids /\ Present(cookie[t]) /\ sessions[cookie[t]] \in Sessions
    BY <1>7, <1>a DEF Extend, Known, TypeOK, Present
  <2>2. CASE id = cookie[t]
    <3>1. /\ sessions'[id] = [sessions[id] EXCEPT !.left = MaxAge - lag[t]]
          /\ lag[t] \in 0..Delay
      BY <1>7, <1>a, <1>b, <2>2 DEF Extend, TypeOK
    <3>2. MaxAge - lag[t] \in Lifetimes
      BY <1>0, <3>1 DEF Lifetimes
    <3>3. sessions'[id] \in Sessions /\ sessions'[id].left = MaxAge - lag[t]
      BY <2>1, <2>2, <3>1, <3>2, ExtendedIs
    <3> QED BY <1>0, <1>b, <3>1, <3>3 DEF Present
  <2>3. CASE id # cookie[t]
    <3>1. promised'[id] = promised[id] /\ sessions'[id] = sessions[id] /\ id \in issued
      BY <1>7, <1>a, <1>b, <2>1, <2>3, GrantType DEF Extend, TypeOK
    <3> QED BY <1>d, <3>1
  <2> QED BY <2>2, <2>3
<1>9. ASSUME NEW t \in Threads, Insert(t)
      PROVE  Present(id)' /\ sessions'[id].left >= promised'[id] - Delay
  <2>1. sid[t] \in Ids
    BY <1>9, <1>a DEF Insert, Known
  <2>2. CASE id = sid[t]
    <3>1. /\ sessions'[id] = [left |-> MaxAge - lag[t],
                              settings |-> [k \in Keys |-> NoValue]]
          /\ lag[t] \in 0..Delay
      BY <1>9, <1>a, <1>b, <2>2 DEF Insert, TypeOK
    <3>2. MaxAge - lag[t] \in Lifetimes
      BY <1>0, <3>1 DEF Lifetimes
    <3>3. sessions'[id] \in Sessions /\ sessions'[id].left = MaxAge - lag[t]
      BY <3>1, <3>2 DEF Sessions
    <3> QED BY <1>0, <1>b, <3>1, <3>3 DEF Present
  <2>3. CASE id # sid[t]
    <3>1. promised'[id] = promised[id] /\ sessions'[id] = sessions[id] /\ id \in issued
      BY <1>9, <1>a, <1>b, <2>1, <2>3, GrantType DEF Insert, TypeOK
    <3> QED BY <1>d, <3>1
  <2> QED BY <2>2, <2>3
<1>10. ASSUME NEW S \in SUBSET Ids, EndSessions(S)
       PROVE  Present(id)' /\ sessions'[id].left >= promised'[id] - Delay
  <2>1. id \notin S
    BY <1>0, <1>10, <1>b DEF EndSessions
  <2>2. promised'[id] = promised[id] /\ sessions'[id] = sessions[id] /\ id \in issued
    BY <1>10, <1>b, <2>1 DEF EndSessions, Erase
  <2> QED BY <1>d, <2>2
<1>11. ASSUME NEW i \in issued, NEW k \in Keys, NEW v \in Values, set_value(i, k, v)
       PROVE  Present(id)' /\ sessions'[id].left >= promised'[id] - Delay
  <2>1. id \in issued /\ promised'[id] = promised[id]
    BY <1>11 DEF set_value
  <2>2. CASE id = i
    <3>1. sessions'[id] = [sessions[id] EXCEPT !.settings[k] = v]
      BY <1>11, <1>a, <1>b, <2>2 DEF set_value, TypeOK
    <3>2. sessions'[id] \in Sessions /\ sessions'[id].left = sessions[id].left
      BY <1>c, <2>1, <3>1 DEF Sessions
    <3> QED BY <1>0, <1>c, <2>1, <3>2 DEF Present
  <2>3. CASE id # i
    BY <1>11, <1>a, <1>b, <1>d, <2>1, <2>3 DEF set_value, TypeOK
  <2> QED BY <2>2, <2>3
<1>12. CASE UNCHANGED vars
  BY <1>12, <1>d DEF vars
<1>13. ASSUME NEW i \in issued, destroy(i)
       PROVE  Present(id)' /\ sessions'[id].left >= promised'[id] - Delay
  BY <1>a, <1>10, <1>13 DEF destroy, TypeOK
<1>14. ASSUME NEW k \in Keys, NEW v \in Values, invalidate(k, v)
       PROVE  Present(id)' /\ sessions'[id].left >= promised'[id] - Delay
  BY <1>10, <1>14 DEF invalidate
<1> QED
  BY <1>1, <1>2, <1>3, <1>4, <1>7, <1>9, <1>11, <1>12, <1>13, <1>14
  DEF Next, Start, Change

LEMMA Invariance == Spec => []IInv
<1>1. IInv /\ [Next]_vars => IInv'
  BY TypeNext, KnownNext, KeptNext DEF IInv
<1> QED BY InitIInv, <1>1, PTL DEF Spec
-----------------------------------------------------------------------------
\* The variables range over what the code can store in them, and no session
\* ever has more than MAX_AGE_SECONDS to live.
THEOREM TypeCorrect == Spec => []TypeOK
<1>1. IInv => TypeOK
  BY DEF IInv
<1> QED BY <1>1, Invariance, PTL

\* A session that start() has created or prolonged lasts as long as it was
\* promised, up to the duration of a call, unless it is destroyed.
THEOREM SessionsKept == Spec => []NotCutShort
<1>1. IInv => NotCutShort
  BY DEF IInv
<1> QED BY <1>1, Invariance, PTL

\* A session that is no longer in the map never comes back, as an id is
\* inserted once and a session is extended only while the shared lock keeps it.
THEOREM EndedStay == Spec => EndedForGood
<1>1. ASSUME IInv, [Next]_vars, NEW id \in issued, ~Present(id) PROVE ~Present(id)'
  <2>0. id \in Ids /\ sessions[id] = NoSession
    BY <1>1 DEF IInv, TypeOK, Present
  <2>1. CASE Tick
    BY <1>1, <2>0, <2>1 DEF Tick, Present
  <2>2. ASSUME NEW t \in Threads, Start(t) PROVE ~Present(id)'
    <3>1. CASE Extend(t)
      BY <1>1, <2>0, <3>1 DEF Extend, IInv, Known, TypeOK, Present
    <3>2. CASE Insert(t)
      BY <1>1, <2>0, <3>2 DEF Insert, IInv, Known, TypeOK, Present
    <3>3. CASE CleanUp(t)
      BY <2>0, <3>3 DEF CleanUp, Erase, Present
    <3> QED
      BY <2>0, <2>2, <3>1, <3>2, <3>3
      DEF Start, Count, ResetCounter, Lookup, Check, Create, Present
  <2>3. ASSUME NEW i \in issued, destroy(i) PROVE ~Present(id)'
    BY <2>0, <2>3 DEF destroy, EndSessions, Erase, Present
  <2>4. ASSUME NEW i \in issued, NEW k \in Keys, NEW v \in Values, set_value(i, k, v)
        PROVE  ~Present(id)'
    BY <1>1, <2>0, <2>4 DEF set_value, Valid, IInv, TypeOK, Present
  <2>5. ASSUME NEW k \in Keys, NEW v \in Values, invalidate(k, v) PROVE ~Present(id)'
    BY <2>0, <2>5 DEF invalidate, EndSessions, Erase, Present
  <2>6. CASE UNCHANGED vars
    BY <2>0, <2>6 DEF vars, Present
  <2> QED BY <1>1, <2>1, <2>2, <2>3, <2>4, <2>5, <2>6 DEF Next, Change
<1>2. IInv /\ [Next]_vars => [\A id \in issued : ~Present(id) => ~Present(id)']_vars
  BY <1>1
<1> QED BY <1>2, Invariance, PTL DEF Spec, EndedForGood

\* A session that expired longer ago than a call takes is not prolonged: start()
\* extends a session that was not expired at the instant it has read.
THEOREM ExpiredStay == Spec => ExpiredForGood
<1>1. ASSUME IInv, [Next]_vars, NEW id \in Ids, Present(id), sessions[id].left <= -Delay
      PROVE  ~Present(id)' \/ sessions'[id].left <= sessions[id].left
  <2>0. /\ sessions[id] \in Sessions /\ sessions[id].left \in Lifetimes
        /\ Delay \in Nat /\ MaxAge \in Nat /\ TypeOK /\ Known
    <3>1. sessions[id] \in Sessions
      BY <1>1 DEF IInv, TypeOK, Present
    <3> QED BY <1>1, <3>1, SessionAssumption DEF Sessions, IInv
  <2>a. ASSUME sessions'[id] = sessions[id]
        PROVE  ~Present(id)' \/ sessions'[id].left <= sessions[id].left
    BY <2>0, <2>a DEF Lifetimes
  <2>1. CASE Tick
    <3>1. sessions'[id] = [sessions[id] EXCEPT !.left = Larger(@ - 1, -Delay - 1)]
      BY <1>1, <2>1 DEF Tick
    <3>2. sessions'[id].left = Larger(sessions[id].left - 1, -Delay - 1)
      BY <2>0, <3>1, OlderIs, ExtendedIs
    <3> QED BY <2>0, <3>2, OlderIs
  <2>2. ASSUME NEW t \in Threads, Start(t)
        PROVE  ~Present(id)' \/ sessions'[id].left <= sessions[id].left
    <3>1. CASE Extend(t)
      <4>1. lag[t] \in 0..Delay /\ sessions[cookie[t]].left + lag[t] > 0
        BY <2>0, <3>1 DEF Extend, Known, TypeOK
      <4>2. id # cookie[t]
        BY <1>1, <2>0, <4>1 DEF Lifetimes
      <4>3. sessions'[id] = sessions[id]
        BY <2>0, <3>1, <4>2 DEF Extend, TypeOK
      <4> QED BY <2>a, <4>3
    <3>2. CASE Insert(t)
      <4>1. id # sid[t]
        BY <1>1, <2>0, <3>2 DEF Insert, Known
      <4>2. sessions'[id] = sessions[id]
        BY <2>0, <3>2, <4>1 DEF Insert, TypeOK
      <4> QED BY <2>a, <4>2
    <3>3. CASE CleanUp(t)
      <4>1. sessions'[id] = NoSession \/ sessions'[id] = sessions[id]
        BY <3>3 DEF CleanUp, Erase
      <4> QED BY <2>a, <4>1 DEF Present
    <3> QED
      BY <2>2, <2>a, <3>1, <3>2, <3>3
      DEF Start, Count, ResetCounter, Lookup, Check, Create
  <2>3. ASSUME NEW S \in SUBSET Ids, EndSessions(S)
        PROVE  ~Present(id)' \/ sessions'[id].left <= sessions[id].left
    <3>1. sessions'[id] = NoSession \/ sessions'[id] = sessions[id]
      BY <2>3 DEF EndSessions, Erase
    <3> QED BY <2>a, <3>1 DEF Present
  <2>4. ASSUME NEW i \in issued, NEW k \in Keys, NEW v \in Values, set_value(i, k, v)
        PROVE  ~Present(id)' \/ sessions'[id].left <= sessions[id].left
    <3>1. CASE id = i
      <4>1. sessions'[id] = [sessions[id] EXCEPT !.settings[k] = v]
        BY <2>0, <2>4, <3>1 DEF set_value, TypeOK
      <4>2. sessions'[id].left = sessions[id].left
        BY <2>0, <4>1 DEF Sessions
      <4> QED BY <2>0, <4>2 DEF Lifetimes
    <3>2. CASE id # i
      BY <2>0, <2>4, <2>a, <3>2 DEF set_value, TypeOK
    <3> QED BY <3>1, <3>2
  <2>5. ASSUME NEW i \in issued, destroy(i)
        PROVE  ~Present(id)' \/ sessions'[id].left <= sessions[id].left
    BY <2>0, <2>3, <2>5 DEF destroy, TypeOK
  <2>6. ASSUME NEW k \in Keys, NEW v \in Values, invalidate(k, v)
        PROVE  ~Present(id)' \/ sessions'[id].left <= sessions[id].left
    BY <2>3, <2>6 DEF invalidate
  <2>7. CASE UNCHANGED vars
    BY <2>a, <2>7 DEF vars
  <2> QED BY <1>1, <2>1, <2>2, <2>4, <2>5, <2>6, <2>7 DEF Next, Change
<1>2. IInv /\ [Next]_vars =>
        [\A id \in Ids : Present(id) /\ sessions[id].left <= -Delay =>
            ~Present(id)' \/ sessions'[id].left <= sessions[id].left]_vars
  BY <1>1
<1> QED BY <1>2, Invariance, PTL DEF Spec, ExpiredForGood
-----------------------------------------------------------------------------
(* How often a clean-up runs *)

N == Cardinality(Threads)
Cleaning == {t \in Threads : pc[t] = "cleanup"}
Resetting == {t \in Threads : pc[t] = "reset"}
C == Cardinality(Cleaning)
R == Cardinality(Resetting)
Modulus == requestCounter % Threshold

\* Each thread that has reset the counter since the last clean-up has hidden
\* less than Threshold requests, and each thread waiting to clean up stands for
\* Threshold of them.  All threads wait only right after the last one counted.
Budget ==
    /\ uncleaned + R * (Threshold - 1) <= N * (Threshold - 1) + C * Threshold + Modulus
    /\ C = N => Modulus = 0

\* Sets of threads can be counted, one by one.
LEMMA ThreadsCount ==
  ASSUME NEW S \in SUBSET Threads
  PROVE  /\ IsFiniteSet(S) /\ Cardinality(S) \in Nat /\ N \in Nat /\ Cardinality(S) <= N
         /\ \A t \in S : Cardinality(S \ {t}) = Cardinality(S) - 1 /\ Cardinality(S) > 0
         /\ \A t \in Threads \ S : Cardinality(S \cup {t}) = Cardinality(S) + 1
<1>1. /\ IsFiniteSet(S) /\ Cardinality(S) \in Nat /\ Cardinality(S) <= N
      /\ N \in Nat
  BY SessionAssumption, FS_Subset, FS_CardinalityType DEF N
<1>2. \A t \in S : Cardinality(S \ {t}) = Cardinality(S) - 1 /\ Cardinality(S) > 0
  <2> SUFFICES ASSUME NEW t \in S
               PROVE  Cardinality(S \ {t}) = Cardinality(S) - 1 /\ Cardinality(S) > 0
    OBVIOUS
  <2>1. Cardinality(S \ {t}) = Cardinality(S) - 1
    BY <1>1, FS_RemoveElement
  <2>2. Cardinality(S) # 0
    BY <1>1, FS_EmptySet
  <2> QED BY <1>1, <2>1, <2>2
<1>3. \A t \in Threads \ S : Cardinality(S \cup {t}) = Cardinality(S) + 1
  BY <1>1, FS_AddElement
<1> QED BY <1>1, <1>2, <1>3

\* A set that lacks a thread is smaller than the set of all threads.
LEMMA DisjointCount ==
  ASSUME NEW S \in SUBSET Threads, NEW t \in Threads, t \notin S
  PROVE  Cardinality(S) + 1 <= N
<1>1. Cardinality(S \cup {t}) = Cardinality(S) + 1
  BY ThreadsCount
<1>2. S \cup {t} \in SUBSET Threads
  OBVIOUS
<1>3. Cardinality(S \cup {t}) <= N
  BY <1>2, ThreadsCount
<1> QED BY <1>1, <1>3

LEMMA ThresholdIs == Threshold \in Nat \ {0}
BY SessionAssumption

\* Counting one more request.
LEMMA ModulusNext ==
  ASSUME NEW a \in Nat
  PROVE  /\ a % Threshold \in 0..(Threshold - 1)
         /\ (a + 1) % Threshold # 0 => (a + 1) % Threshold = (a % Threshold) + 1
         /\ 0 % Threshold = 0
<1> DEFINE q == a \div Threshold
           r == a % Threshold
<1>1. a = Threshold * q + r /\ q \in Nat /\ r \in 0..(Threshold - 1)
  BY ThresholdIs, Z3
<1>2. 0 % Threshold = 0
  BY ThresholdIs, Z3
<1> HIDE DEF q, r
<1>3. ASSUME NEW m \in Int, NEW d \in 0..(Threshold - 1)
      PROVE  (Threshold * m + d) % Threshold = d
  BY ThresholdIs, Z3
<1>4. CASE r + 1 < Threshold
  <2>1. a + 1 = Threshold * q + (r + 1) /\ r + 1 \in 0..(Threshold - 1)
    BY <1>1, <1>4, ThresholdIs, Z3
  <2>2. (a + 1) % Threshold = r + 1
    BY <1>1, <1>3, <2>1
  <2> QED BY <1>1, <1>2, <2>2 DEF r
<1>5. CASE r + 1 = Threshold
  <2>1. a + 1 = Threshold * (q + 1) + 0
    BY <1>1, <1>5, ThresholdIs, Z3
  <2>2. (a + 1) % Threshold = 0
    BY <1>1, <1>3, <2>1, ThresholdIs
  <2> QED BY <1>1, <1>2, <2>2 DEF r
<1> QED BY <1>1, <1>4, <1>5, ThresholdIs

\* One thread more, one product more.
LEMMA Products ==
  ASSUME NEW a \in Nat, NEW b \in Nat
  PROVE  /\ a * b \in Nat
         /\ (a + 1) * b = a * b + b
         /\ a > 0 => (a - 1) * b = a * b - b
         /\ \A c \in Nat : a <= c => a * b <= c * b
<1>1. a * b \in Nat
  BY Z3
<1>2. (a + 1) * b = a * b + b /\ (a - 1) * b = a * b - b
  BY Z3
<1>3. ASSUME NEW c \in Nat, a <= c PROVE a * b <= c * b
  BY <1>3, Z3
<1> QED BY <1>1, <1>2, <1>3

LEMMA CountTypes ==
  ASSUME TypeOK
  PROVE  /\ C \in Nat /\ C <= N /\ R \in Nat /\ R <= N /\ N \in Nat
         /\ Threshold \in Nat \ {0} /\ Threshold - 1 \in Nat
         /\ Modulus \in 0..(Threshold - 1)
         /\ uncleaned \in Nat /\ requestCounter \in Nat
<1>1. Cleaning \in SUBSET Threads /\ Resetting \in SUBSET Threads
  BY DEF Cleaning, Resetting
<1>2. C \in Nat /\ C <= N /\ R \in Nat /\ R <= N /\ N \in Nat
  BY <1>1, ThreadsCount DEF C, R
<1>3. uncleaned \in Nat /\ requestCounter \in Nat
  BY DEF TypeOK
<1> QED BY <1>2, <1>3, ThresholdIs, ModulusNext DEF Modulus

LEMMA InitBudget == Init => Budget
<1> SUFFICES ASSUME Init PROVE Budget
  OBVIOUS
<1>1. Cleaning = {} /\ Resetting = {} /\ uncleaned = 0 /\ requestCounter = 0
  BY DEF Init, Cleaning, Resetting
<1>2. C = 0 /\ R = 0 /\ Modulus = 0
  BY <1>1, FS_EmptySet, ModulusNext DEF C, R, Modulus
<1>3. TypeOK
  BY InitIInv DEF IInv
<1>4. 0 * (Threshold - 1) = 0 /\ 0 * Threshold = 0 /\ N * (Threshold - 1) \in Nat
  BY <1>3, CountTypes, Products
<1> QED BY <1>1, <1>2, <1>4 DEF Budget

LEMMA BudgetNext == TypeOK /\ TypeOK' /\ Budget /\ [Next]_vars => Budget'
<1> SUFFICES ASSUME TypeOK, TypeOK', Budget, [Next]_vars PROVE Budget'
  OBVIOUS
<1> DEFINE A == N * (Threshold - 1)
           B == R * (Threshold - 1)
           D == C * Threshold
<1>0. /\ C \in Nat /\ C <= N /\ R \in Nat /\ R <= N /\ N \in Nat
      /\ Threshold \in Nat \ {0} /\ Threshold - 1 \in Nat
      /\ Modulus \in 0..(Threshold - 1)
      /\ uncleaned \in Nat /\ requestCounter \in Nat
      /\ Cleaning \in SUBSET Threads /\ Resetting \in SUBSET Threads
  BY CountTypes DEF Cleaning, Resetting
<1>a. A \in Nat /\ B \in Nat /\ D \in Nat
  BY <1>0, Products
<1>b. uncleaned + B <= A + D + Modulus /\ (C = N => Modulus = 0)
  BY DEF Budget
\* A step that neither counts nor moves a thread into or out of the two sets.
<1>c. ASSUME Cleaning' = Cleaning, Resetting' = Resetting,
             UNCHANGED <<requestCounter, uncleaned>>
      PROVE  Budget'
  BY <1>b, <1>c DEF Budget, C, R, Modulus
<1>1. CASE Tick
  BY <1>1, <1>c DEF Tick, Cleaning, Resetting
<1>2. ASSUME NEW t \in Threads, NEW c \in issued \cup {NoId}, Count(t, c) PROVE Budget'
  <2>1. /\ pc[t] = "idle" /\ t \notin Cleaning
        /\ requestCounter' = requestCounter + 1 /\ uncleaned' = uncleaned + 1
        /\ \A u \in Threads : u # t => pc'[u] = pc[u]
        /\ pc'[t] = IF requestCounter' % Threshold = 0 THEN "cleanup" ELSE "lookup"
    BY <1>2, GotoOthers DEF Count, Cleaning
  <2>2. Resetting' = Resetting /\ R' = R
    BY <2>1 DEF Resetting, R
  <2>3. CASE requestCounter' % Threshold = 0
    <3>1. Cleaning' = Cleaning \cup {t}
      BY <2>1, <2>3 DEF Cleaning
    <3>2. C' = C + 1
      BY <1>0, <2>1, <3>1, ThreadsCount DEF C
    <3>3. C' * Threshold = D + Threshold
      BY <1>0, <3>2, Products
    <3>4. Modulus' = 0
      BY <2>3 DEF Modulus
    <3>5. uncleaned' + B <= A + (D + Threshold) + 0
      BY <1>0, <1>a, <1>b, <2>1
    <3> QED BY <2>2, <3>3, <3>4, <3>5 DEF Budget
  <2>4. CASE requestCounter' % Threshold # 0
    <3>1. Cleaning' = Cleaning /\ C' = C
      BY <2>1, <2>4 DEF Cleaning, C
    <3>2. Modulus' = Modulus + 1
      BY <1>0, <2>1, <2>4, ModulusNext DEF Modulus
    <3>3. C + 1 <= N
      BY <1>0, <2>1, DisjointCount DEF C
    <3>4. C # N
      BY <1>0, <3>3
    <3>5. uncleaned' + B <= A + D + (Modulus + 1)
      BY <1>0, <1>a, <1>b, <2>1
    <3> QED BY <2>2, <3>1, <3>2, <3>4, <3>5 DEF Budget
  <2> QED BY <2>3, <2>4
<1>3. ASSUME NEW t \in Threads, CleanUp(t) PROVE Budget'
  <2>1. /\ pc[t] = "cleanup" /\ t \in Cleaning /\ t \notin Resetting
        /\ requestCounter' = requestCounter /\ uncleaned' = 0
        /\ pc'[t] = "reset" /\ \A u \in Threads : u # t => pc'[u] = pc[u]
    BY <1>3, GotoOthers DEF CleanUp, Cleaning, Resetting
  <2>2. Cleaning' = Cleaning \ {t} /\ Resetting' = Resetting \cup {t}
    BY <2>1 DEF Cleaning, Resetting
  <2>3. C' = C - 1 /\ C > 0 /\ R' = R + 1 /\ R + 1 <= N
    BY <1>0, <2>1, <2>2, ThreadsCount, DisjointCount DEF C, R
  <2>4. C' * Threshold \in Nat
    <3>1. C' \in Nat
      BY <1>0, <2>3
    <3> QED BY <1>0, <3>1, Products
  <2>5. (R + 1) * (Threshold - 1) <= A
    <3>1. R + 1 \in Nat
      BY <1>0
    <3> QED BY <1>0, <2>3, <3>1, Products
  <2>6. (R + 1) * (Threshold - 1) \in Nat
    <3>1. R + 1 \in Nat
      BY <1>0
    <3> QED BY <1>0, <3>1, Products
  <2>7. Modulus' = Modulus /\ C' # N
    BY <1>0, <2>1, <2>3 DEF Modulus
  <2>8. uncleaned' + R' * (Threshold - 1) <= A + C' * Threshold + Modulus'
    <3> DEFINE E == (R + 1) * (Threshold - 1)
               F == C' * Threshold
    <3>1. E <= A /\ E \in Nat /\ F \in Nat
      BY <2>4, <2>5, <2>6
    <3>2. R' * (Threshold - 1) = E
      BY <2>3
    <3> HIDE DEF E, F, A
    <3>3. 0 + E <= A + F + Modulus
      BY <1>0, <1>a, <3>1
    <3> QED BY <2>1, <2>7, <3>2, <3>3 DEF F
  <2> QED BY <2>7, <2>8 DEF Budget
<1>4. ASSUME NEW t \in Threads, ResetCounter(t) PROVE Budget'
  <2>1. /\ pc[t] = "reset" /\ t \in Resetting
        /\ requestCounter' = 0 /\ uncleaned' = uncleaned
        /\ pc'[t] = "lookup" /\ \A u \in Threads : u # t => pc'[u] = pc[u]
    BY <1>4, GotoOthers DEF ResetCounter, Resetting
  <2>2. Cleaning' = Cleaning /\ Resetting' = Resetting \ {t} /\ C' = C
    BY <2>1 DEF Cleaning, Resetting, C
  <2>3. R' = R - 1 /\ R > 0
    BY <1>0, <2>1, <2>2, ThreadsCount DEF R
  <2>4. R' * (Threshold - 1) = B - (Threshold - 1)
    BY <1>0, <2>3, Products
  <2>5. Modulus' = 0
    BY <2>1, ModulusNext DEF Modulus
  <2>6. uncleaned' + (B - (Threshold - 1)) <= A + D + 0
    BY <1>0, <1>a, <1>b, <2>1
  <2> QED BY <2>2, <2>4, <2>5, <2>6 DEF Budget
<1>5. ASSUME NEW t \in Threads,
             Lookup(t) \/ Check(t) \/ Extend(t) \/ Create(t) \/ Insert(t)
      PROVE  Budget'
  <2>1. /\ pc[t] \notin {"cleanup", "reset"} /\ pc'[t] \notin {"cleanup", "reset"}
        /\ \A u \in Threads : u # t => pc'[u] = pc[u]
        /\ UNCHANGED <<requestCounter, uncleaned>>
    BY <1>5, GotoOthers DEF Lookup, Check, Extend, Create, Insert, Grant, TypeOK
  <2>2. Cleaning' = Cleaning /\ Resetting' = Resetting
    BY <2>1 DEF Cleaning, Resetting
  <2> QED BY <1>c, <2>1, <2>2
<1>6. ASSUME UNCHANGED <<pc, requestCounter, uncleaned>> PROVE Budget'
  BY <1>6, <1>c DEF Cleaning, Resetting
<1>7. CASE Change
  BY <1>6, <1>7 DEF Change, destroy, set_value, invalidate, EndSessions, callVars
<1>8. CASE UNCHANGED vars
  BY <1>6, <1>8 DEF vars, callVars
<1> QED
  BY <1>1, <1>2, <1>3, <1>4, <1>5, <1>7, <1>8 DEF Next, Start

\* However the threads race, at most 2 * Threshold requests per thread go by
\* without a clean-up.
THEOREM CleanupsDue == Spec => []CleanupDue
<1>1. IInv /\ Budget /\ [Next]_vars => IInv' /\ Budget'
  BY TypeNext, KnownNext, KeptNext, BudgetNext DEF IInv
<1>2. ASSUME TypeOK, Budget PROVE CleanupDue
  <2> DEFINE A == N * (Threshold - 1)
             B == R * (Threshold - 1)
             D == C * Threshold
             P == N * Threshold
  <2>0. /\ C \in Nat /\ C <= N /\ R \in Nat /\ N \in Nat
        /\ Threshold \in Nat \ {0} /\ Threshold - 1 \in Nat
        /\ Modulus \in 0..(Threshold - 1) /\ uncleaned \in Nat
    BY <1>2, CountTypes
  <2>1. A \in Nat /\ B \in Nat /\ D \in Nat /\ P \in Nat /\ D <= P
    BY <2>0, Products
  <2>2. A = P - N
    BY <2>0, Z3
  <2>3. uncleaned + B <= A + D + Modulus /\ (C = N => Modulus = 0)
    BY <1>2 DEF Budget
  <2>4. C # N => D + Threshold <= P
    <3>1. ASSUME C # N PROVE (C + 1) * Threshold <= P
      <4>1. C + 1 \in Nat /\ C + 1 <= N
        BY <2>0, <3>1
      <4> QED BY <2>0, <4>1, Products
    <3>2. (C + 1) * Threshold = D + Threshold
      BY <2>0, Products
    <3> QED BY <3>1, <3>2
  <2>5. 2 * Threshold * N = P + P
    BY <2>0, Z3
  <2> HIDE DEF A, B, D, P
  <2>6. uncleaned <= P + P
    BY <2>0, <2>1, <2>2, <2>3, <2>4
  <2> QED BY <2>5, <2>6 DEF CleanupDue, N
<1>3. Init => IInv /\ Budget
  BY InitIInv, InitBudget
<1>4. IInv /\ Budget => CleanupDue
  BY <1>2 DEF IInv
<1> QED BY <1>1, <1>3, <1>4, PTL DEF Spec
=============================================================================
