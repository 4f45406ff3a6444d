-------------------------- MODULE SessionStateProofs --------------------------
(***************************************************************************)
(* What a restart finds of the sessions that were saved, for any sets of   *)
(* ids, values and sessions, any finite set of keys, and any time.         *)
(*                                                                         *)
(* The invariant says where each record of the file, or of the file and    *)
(* the stream's buffer, begins (Layout); that load_state, which works out  *)
(* the same places one by one, finds the sessions again is by induction on *)
(* the number of records (Finds).                                          *)
(***************************************************************************)
EXTENDS SessionState, FiniteSetTheorems, SequenceTheorems, WellFoundedInduction, TLAPS

---------------------------------------------------------------------------
(* The recursion of Reading *)

\* A set of numbers that is not empty has a least one.
LEMMA LeastNumber ==
  ASSUME NEW T, T \subseteq Nat, T # {}
  PROVE  \E x \in T : \A y \in T : x <= y
<1>1. PICK x \in T : \A y \in T : <<y, x>> \notin OpToRel(<, Nat)
  BY NatLessThanWellFounded, WFMin, Zenon
<1>2. ASSUME NEW y \in T PROVE x <= y
  <2>1. x \in Nat /\ y \in Nat
    OBVIOUS
  <2>2. ~(y < x)
    BY <1>1, <2>1, Zenon DEF OpToRel
  <2> QED BY <2>1, <2>2
<1> QED BY <1>2

\* What is read before the first record.
Start == [at |-> 2, found |-> NoSessions]

\* f is where the reader is after each of the first n records.
Reads(f, n) == f = [i \in 0..n |-> IF i = 0 THEN Start ELSE ReadRecord(f[i - 1])]

\* There is such a function for every n,
LEMMA ReadsExists == ASSUME NEW n \in Nat PROVE \E f : Reads(f, n)
<1> DEFINE T == {k \in Nat : ~ \E f : Reads(f, k)}
<1> SUFFICES ASSUME T # {} PROVE FALSE
  OBVIOUS
<1>1. PICK k \in T : \A l \in T : k <= l
  BY LeastNumber
<1>2. k # 0
  <2>1. Reads([i \in 0..0 |-> Start], 0)
    BY DEF Reads
  <2> QED BY <2>1
<1>3. PICK f : Reads(f, k - 1)
  <2>1. k - 1 \in Nat /\ k - 1 \notin T
    BY <1>1, <1>2
  <2> QED BY <2>1
<1> DEFINE g == [i \in 0..k |-> IF i < k THEN f[i] ELSE ReadRecord(f[i - 1])]
<1>4. \A i \in 0..(k - 1) : f[i] = IF i = 0 THEN Start ELSE ReadRecord(f[i - 1])
  BY <1>3 DEF Reads
<1>5. \A i \in 0..k : g[i] = IF i = 0 THEN Start ELSE ReadRecord(g[i - 1])
  <2> TAKE i \in 0..k
  <2>1. CASE i < k
    <3>1. i \in 0..(k - 1) /\ (i # 0 => i - 1 \in 0..k /\ i - 1 < k)
      BY <2>1
    <3>2. g[i] = f[i] /\ (i # 0 => g[i - 1] = f[i - 1])
      BY <2>1, <3>1
    <3> HIDE DEF g
    <3> QED BY <1>4, <3>1, <3>2
  <2>2. CASE i = k
    <3>1. g[i] = ReadRecord(f[i - 1]) /\ i # 0 /\ i - 1 \in 0..k /\ i - 1 < k
      BY <1>2, <2>2
    <3>2. g[i - 1] = f[i - 1]
      BY <3>1
    <3> HIDE DEF g
    <3> QED BY <3>1, <3>2
  <2> QED BY <2>1, <2>2
<1>6. g = [i \in 0..k |-> g[i]]
  OBVIOUS
<1>7. Reads(g, k)
  <2> HIDE DEF g
  <2> QED BY <1>5, <1>6 DEF Reads
<1> QED BY <1>7

\* and each is the beginning of the next.
LEMMA ReadsAgree ==
  ASSUME NEW n \in Nat, NEW f, NEW g, NEW m \in 0..n, Reads(f, m), Reads(g, n)
  PROVE  \A i \in 0..m : f[i] = g[i]
<1> DEFINE T == {i \in 0..m : f[i] # g[i]}
<1> SUFFICES ASSUME T # {} PROVE FALSE
  OBVIOUS
<1>1. PICK k \in T : \A l \in T : k <= l
  <2>1. T \subseteq Nat
    OBVIOUS
  <2> HIDE DEF T
  <2> QED BY <2>1, LeastNumber
<1>2. k \in 0..m /\ k \in 0..n
  OBVIOUS
<1>3. /\ f[k] = IF k = 0 THEN Start ELSE ReadRecord(f[k - 1])
      /\ g[k] = IF k = 0 THEN Start ELSE ReadRecord(g[k - 1])
  BY <1>2 DEF Reads
<1>4. k # 0 => f[k - 1] = g[k - 1]
  <2>1. k # 0 => k - 1 \in 0..m /\ ~(k <= k - 1)
    BY <1>2
  <2> QED BY <1>1, <2>1
<1> QED BY <1>3, <1>4

\* Reading is what it is defined to be.
LEMMA ReadingIs ==
  /\ Reading[0] = Start
  /\ \A n \in Nat : Reading[n + 1] = ReadRecord(Reading[n])
<1> DEFINE R(f) == [n \in Nat |-> IF n = 0 THEN Start ELSE ReadRecord(f[n - 1])]
           F(n) == CHOOSE f : Reads(f, n)
           g == [n \in Nat |-> F(n)[n]]
<1>1. \A n \in Nat : Reads(F(n), n)
  BY ReadsExists
<1>2. \A n \in Nat : g[n] = IF n = 0 THEN Start ELSE ReadRecord(g[n - 1])
  <2> TAKE n \in Nat
  <2>1. F(n)[n] = IF n = 0 THEN Start ELSE ReadRecord(F(n)[n - 1])
    <3>1. Reads(F(n), n) /\ n \in 0..n
      BY <1>1
    <3> HIDE DEF F
    <3> QED BY <3>1 DEF Reads
  <2>2. n # 0 => F(n)[n - 1] = F(n - 1)[n - 1]
    <3> SUFFICES ASSUME n # 0 PROVE F(n)[n - 1] = F(n - 1)[n - 1]
      OBVIOUS
    <3>1. n - 1 \in Nat /\ n - 1 \in 0..n /\ n - 1 \in 0..(n - 1)
      OBVIOUS
    <3>2. Reads(F(n), n) /\ Reads(F(n - 1), n - 1)
      BY <1>1, <3>1
    <3> HIDE DEF F
    <3> QED BY <3>1, <3>2, ReadsAgree
  <2>3. n # 0 => n - 1 \in Nat
    OBVIOUS
  <2>4. g[n] = F(n)[n] /\ (n # 0 => g[n - 1] = F(n - 1)[n - 1])
    BY <2>3
  <2> HIDE DEF F, g
  <2> QED BY <2>1, <2>2, <2>4
<1>3. g = R(g)
  <2>1. g = [n \in Nat |-> g[n]]
    OBVIOUS
  <2> HIDE DEF g
  <2> QED BY <1>2, <2>1
<1>4. Reading = CHOOSE f : f = R(f)
  BY DEF Reading, Start
<1>5. Reading = R(Reading)
  <2> HIDE DEF g, R
  <2> QED BY <1>3, <1>4
<1>6. Reading[0] = Start
  BY <1>5
<1>7. ASSUME NEW n \in Nat PROVE Reading[n + 1] = ReadRecord(Reading[n])
  <2>1. n + 1 \in Nat /\ n + 1 # 0 /\ (n + 1) - 1 = n
    OBVIOUS
  <2>2. Reading[n + 1] = ReadRecord(Reading[(n + 1) - 1])
    BY <1>5, <2>1
  <2> QED BY <2>1, <2>2
<1> QED BY <1>6, <1>7

---------------------------------------------------------------------------
(* Records, and where they are *)

Fields == Ids \cup Keys \cup Values \cup Nat

\* What the map of sessions may be.
Maps == UNION {[D -> Sessions] : D \in SUBSET Ids}

\* c has the record of the session id of map at p, with the keys in this order.
Holds(c, p, map, id, keys) ==
    /\ {keys[j] : j \in 1..Len(keys)} = DOMAIN map[id].settings
    /\ p + 2 + 2 * Len(keys) <= Len(c)
    /\ c[p] = id /\ c[p + 1] = map[id].expires /\ c[p + 2] = Len(keys)
    /\ \A j \in 1..Len(keys) : /\ c[p + 1 + 2 * j] = keys[j]
                               /\ c[p + 2 + 2 * j] = map[id].settings[keys[j]]

\* Behind its first field, c has the records of n sessions who[1], ..., who[n].
Laid(c, n, map, at, who, order) ==
    /\ at \in [1..(n + 1) -> Nat \ {0, 1}] /\ at[1] = 2 /\ at[n + 1] = Len(c) + 1
    /\ who \in [1..n -> DOMAIN map] /\ order \in [1..n -> Seq(Keys)]
    /\ \A i \in 1..n : /\ Holds(c, at[i], map, who[i], order[i])
                       /\ at[i + 1] = at[i] + 3 + 2 * Len(order[i])

\* These are the sessions of done.
Layout(c, n, map, done) ==
    \E at, who, order : /\ Laid(c, n, map, at, who, order)
                        /\ done = {who[i] : i \in 1..n}

\* A session of a map is one.
LEMMA SessionOf ==
  ASSUME NEW map \in Maps, NEW id \in DOMAIN map
  PROVE  /\ id \in Ids /\ map[id] \in Sessions /\ map[id].expires \in Nat
         /\ map[id] = [expires |-> map[id].expires, settings |-> map[id].settings]
         /\ DOMAIN map[id].settings \subseteq Keys
         /\ \A k \in DOMAIN map[id].settings : map[id].settings[k] \in Values
         /\ map[id].settings = [k \in DOMAIN map[id].settings |-> map[id].settings[k]]
<1>1. id \in Ids /\ map[id] \in Sessions
  BY DEF Maps
<1>2. PICK ks \in SUBSET Keys : map[id].settings \in [ks -> Values]
  BY <1>1 DEF Sessions
<1>3. map[id].expires \in Nat /\ map[id] = [expires |-> map[id].expires, settings |-> map[id].settings]
  BY <1>1, StateAssumption DEF Sessions, Times
<1> QED BY <1>1, <1>2, <1>3

\* The fields of a record.
LEMMA RecordFields ==
  ASSUME sessions \in Maps, NEW id \in DOMAIN sessions, NEW keys \in Seq(Keys),
         {keys[j] : j \in 1..Len(keys)} = DOMAIN sessions[id].settings
  PROVE  /\ Record(id, keys) \in Seq(Fields) /\ Len(Record(id, keys)) = 3 + 2 * Len(keys)
         /\ Holds(Record(id, keys), 1, sessions, id, keys)
<1> DEFINE n == Len(keys)
           head == <<id, sessions[id].expires, n>>
           tail == [i \in 1..(2 * n) |->
                       LET k == keys[(i + 1) \div 2]
                       IN IF i % 2 = 1 THEN k ELSE sessions[id].settings[k]]
<1>0. n \in Nat /\ 2 * n \in Nat
  OBVIOUS
<1>1. /\ head \in Seq(Fields) /\ Len(head) = 3
      /\ head[1] = id /\ head[2] = sessions[id].expires /\ head[3] = n
  <2>1. id \in Fields /\ sessions[id].expires \in Fields /\ n \in Fields
    BY <1>0, SessionOf DEF Fields
  <2> HIDE DEF n, Fields
  <2>2. head = <<id, sessions[id].expires, n>>
    OBVIOUS
  <2> QED BY <2>1
<1>2. \A j \in 1..n : /\ 2 * j - 1 \in 1..(2 * n) /\ 2 * j \in 1..(2 * n)
                      /\ ((2 * j - 1) + 1) \div 2 = j /\ (2 * j + 1) \div 2 = j
                      /\ (2 * j - 1) % 2 = 1 /\ (2 * j) % 2 = 0
  BY <1>0
<1>3. \A j \in 1..n : tail[2 * j - 1] = keys[j] /\ tail[2 * j] = sessions[id].settings[keys[j]]
  BY <1>2, SMTT(30)
<1>4. tail \in Seq(Fields) /\ Len(tail) = 2 * n
  <2>1. ASSUME NEW i \in 1..(2 * n) PROVE tail[i] \in Fields
    <3>1. (i + 1) \div 2 \in 1..n
      BY <1>0
    <3>2. PICK k : k = keys[(i + 1) \div 2]
      OBVIOUS
    <3>3. k \in DOMAIN sessions[id].settings /\ k \in Keys
      BY <3>1, <3>2
    <3>4. sessions[id].settings[k] \in Values
      BY <3>3, SessionOf
    <3>5. tail[i] = k \/ tail[i] = sessions[id].settings[k]
      BY <3>2
    <3> QED BY <3>3, <3>4, <3>5 DEF Fields
  <2>2. tail \in [1..(2 * n) -> Fields]
    BY <2>1
  <2> HIDE DEF tail
  <2> QED BY <1>0, <2>2
<1>5. Record(id, keys) = head \o tail
  BY Zenon DEF Record
<1>6. PICK h \in Seq(Fields), t \in Seq(Fields) :
         /\ Record(id, keys) = h \o t /\ Len(h) = 3 /\ Len(t) = 2 * n
         /\ h[1] = id /\ h[2] = sessions[id].expires /\ h[3] = n
         /\ \A j \in 1..n : t[2 * j - 1] = keys[j] /\ t[2 * j] = sessions[id].settings[keys[j]]
  <2> HIDE DEF head, tail, n
  <2> QED BY <1>1, <1>3, <1>4, <1>5
<1> DEFINE r == h \o t
<1>7. /\ r \in Seq(Fields) /\ Len(r) = 3 + 2 * n
      /\ \A i \in 1..(3 + 2 * n) : r[i] = IF i <= 3 THEN h[i] ELSE t[i - 3]
  <2>1. h \o t \in Seq(Fields) /\ Len(h \o t) = Len(h) + Len(t)
    BY ConcatProperties
  <2>2. \A i \in 1..(Len(h) + Len(t)) : (h \o t)[i] = IF i <= Len(h) THEN h[i] ELSE t[i - Len(h)]
    BY ConcatProperties
  <2>3. Len(h) = 3 /\ Len(t) = 2 * n
    BY <1>6
  <2> HIDE DEF n
  <2> QED BY <2>1, <2>2, <2>3
<1> HIDE DEF r
<1> HIDE DEF n
<1>8. r[1] = id /\ r[2] = sessions[id].expires /\ r[3] = n
  BY <1>0, <1>6, <1>7
<1>9. ASSUME NEW j \in 1..n
      PROVE  r[2 + 2 * j] = keys[j] /\ r[3 + 2 * j] = sessions[id].settings[keys[j]]
  <2>1. 2 + 2 * j \in 1..(3 + 2 * n) /\ 3 + 2 * j \in 1..(3 + 2 * n)
    BY <1>0
  <2>2. ~(2 + 2 * j <= 3) /\ ~(3 + 2 * j <= 3)
    BY <1>0
  <2>3. (2 + 2 * j) - 3 = 2 * j - 1 /\ (3 + 2 * j) - 3 = 2 * j
    BY <1>0
  <2>4. r[2 + 2 * j] = t[2 * j - 1] /\ r[3 + 2 * j] = t[2 * j]
    BY <1>7, <2>1, <2>2, <2>3
  <2> QED BY <1>6, <2>4
<1>10. Record(id, keys) = r
  BY <1>6 DEF r
<1>11. Holds(r, 1, sessions, id, keys)
  <2>1. /\ r[1] = id /\ r[1 + 1] = sessions[id].expires /\ r[1 + 2] = Len(keys)
        /\ 1 + 2 + 2 * Len(keys) <= Len(r)
    BY <1>0, <1>7, <1>8 DEF n
  <2>2. ASSUME NEW j \in 1..Len(keys)
        PROVE  r[1 + 1 + 2 * j] = keys[j] /\ r[1 + 2 + 2 * j] = sessions[id].settings[keys[j]]
    BY <1>9 DEF n
  <2> QED BY <2>1, <2>2 DEF Holds
<1> QED BY <1>7, <1>10, <1>11 DEF n

\* Nothing is written behind the first field yet.
LEMMA LaidNone == ASSUME NEW c, Len(c) = 1, NEW map PROVE Layout(c, 0, map, {})
<1> DEFINE at == [i \in 1..1 |-> 2]
           none == [i \in 1..0 |-> 2]
<1>1. at \in [1..(0 + 1) -> Nat \ {0, 1}] /\ at[1] = 2 /\ at[0 + 1] = Len(c) + 1
  OBVIOUS
<1>2. none \in [1..0 -> DOMAIN map] /\ none \in [1..0 -> Seq(Keys)] /\ {none[i] : i \in 1..0} = {}
  OBVIOUS
<1>3. Laid(c, 0, map, at, none, none)
  BY <1>1, <1>2 DEF Laid
<1> QED BY <1>2, <1>3 DEF Layout

\* A record stays one when it is found at another place.
LEMMA HoldsThere ==
  ASSUME NEW c, NEW d, NEW map, NEW id, NEW keys \in Seq(Keys),
         NEW p \in Nat, NEW q \in Nat, Holds(c, p, map, id, keys),
         q + 2 + 2 * Len(keys) <= Len(d),
         \A i \in 0..(2 + 2 * Len(keys)) : d[q + i] = c[p + i]
  PROVE  Holds(d, q, map, id, keys)
<1>1. Len(keys) \in Nat
  OBVIOUS
<1>2. d[q] = id /\ d[q + 1] = map[id].expires /\ d[q + 2] = Len(keys)
  <2>1. 0 \in 0..(2 + 2 * Len(keys)) /\ 1 \in 0..(2 + 2 * Len(keys)) /\ 2 \in 0..(2 + 2 * Len(keys))
    BY <1>1
  <2>2. d[q + 0] = c[p + 0] /\ d[q + 1] = c[p + 1] /\ d[q + 2] = c[p + 2]
    BY <2>1
  <2>3. q + 0 = q /\ p + 0 = p
    OBVIOUS
  <2> QED BY <2>2, <2>3 DEF Holds
<1>3. ASSUME NEW j \in 1..Len(keys)
      PROVE  d[q + 1 + 2 * j] = keys[j] /\ d[q + 2 + 2 * j] = map[id].settings[keys[j]]
  <2>1. 1 + 2 * j \in 0..(2 + 2 * Len(keys)) /\ 2 + 2 * j \in 0..(2 + 2 * Len(keys))
    BY <1>1
  <2>2. d[q + (1 + 2 * j)] = c[p + (1 + 2 * j)] /\ d[q + (2 + 2 * j)] = c[p + (2 + 2 * j)]
    BY <2>1
  <2>3. c[p + 1 + 2 * j] = keys[j] /\ c[p + 2 + 2 * j] = map[id].settings[keys[j]]
    BY DEF Holds
  <2>4. /\ q + (1 + 2 * j) = q + 1 + 2 * j /\ q + (2 + 2 * j) = q + 2 + 2 * j
        /\ p + (1 + 2 * j) = p + 1 + 2 * j /\ p + (2 + 2 * j) = p + 2 + 2 * j
    BY <2>1
  <2> QED BY <2>2, <2>3, <2>4
<1> QED BY <1>2, <1>3 DEF Holds

\* Every record is within c.
LEMMA LaidWithin ==
  ASSUME NEW c, Len(c) \in Nat, NEW n \in Nat, NEW map, NEW at, NEW who, NEW order,
         Laid(c, n, map, at, who, order), NEW i \in 1..n
  PROVE  /\ i \in 1..(n + 1) /\ i + 1 \in 1..(n + 1)
         /\ at[i] \in Nat /\ at[i] > 1 /\ who[i] \in DOMAIN map /\ order[i] \in Seq(Keys)
         /\ Len(order[i]) \in Nat /\ at[i] + 2 + 2 * Len(order[i]) <= Len(c)
<1>1. i \in 1..(n + 1) /\ i + 1 \in 1..(n + 1)
  OBVIOUS
<1>2. at[i] \in Nat \ {0, 1} /\ who[i] \in DOMAIN map /\ order[i] \in Seq(Keys)
  BY <1>1 DEF Laid
<1>3. Holds(c, at[i], map, who[i], order[i])
  BY DEF Laid
<1>4. at[i] + 2 + 2 * Len(order[i]) <= Len(c)
  BY <1>3 DEF Holds
<1> QED BY <1>1, <1>2, <1>4

\* One more record is written.
LEMMA LaidMore ==
  ASSUME NEW c \in Seq(Fields), NEW r \in Seq(Fields), NEW n \in Nat, NEW map, NEW done,
         NEW id \in DOMAIN map, NEW keys \in Seq(Keys), Layout(c, n, map, done),
         Len(r) = 3 + 2 * Len(keys), Holds(r, 1, map, id, keys)
  PROVE  Layout(c \o r, n + 1, map, done \cup {id})
<1>1. PICK at, who, order : Laid(c, n, map, at, who, order) /\ done = {who[i] : i \in 1..n}
  BY DEF Layout
<1> DEFINE d == c \o r
           m == n + 1
           at2 == [i \in 1..(m + 1) |-> IF i = m + 1 THEN Len(d) + 1 ELSE at[i]]
           who2 == [i \in 1..m |-> IF i = m THEN id ELSE who[i]]
           order2 == [i \in 1..m |-> IF i = m THEN keys ELSE order[i]]
<1>2. /\ Len(d) = Len(c) + Len(r) /\ Len(c) \in Nat /\ Len(keys) \in Nat
      /\ \A i \in 1..(Len(c) + Len(r)) : d[i] = IF i <= Len(c) THEN c[i] ELSE r[i - Len(c)]
  <2>1. Len(c \o r) = Len(c) + Len(r)
    BY ConcatProperties
  <2>2. \A i \in 1..(Len(c) + Len(r)) : (c \o r)[i] = IF i <= Len(c) THEN c[i] ELSE r[i - Len(c)]
    BY ConcatProperties
  <2> QED BY <2>1, <2>2
<1> HIDE DEF d
<1>3. Len(c) \in Nat /\ Len(r) \in Nat /\ Len(d) \in Nat /\ Len(d) = Len(c) + 3 + 2 * Len(keys)
  BY <1>2
<1>4. ASSUME NEW i \in 1..n PROVE Holds(d, at[i], map, who[i], order[i])
  <2>1. /\ at[i] \in Nat /\ at[i] > 1 /\ order[i] \in Seq(Keys) /\ Len(order[i]) \in Nat
        /\ at[i] + 2 + 2 * Len(order[i]) <= Len(c)
    BY <1>1, <1>2, LaidWithin
  <2>2. PICK p \in Nat, l \in Nat : p = at[i] /\ l = Len(order[i]) /\ p > 1 /\ p + 2 + 2 * l <= Len(c)
    BY <2>1
  <2>3. \A k \in 0..(2 + 2 * l) : d[p + k] = c[p + k]
    <3> TAKE k \in 0..(2 + 2 * l)
    <3>0. p + 2 + 2 * l <= Len(c) /\ p > 1
      BY <2>2
    <3>1. k \in Nat /\ k <= 2 + 2 * l
      OBVIOUS
    <3>2. p + k \in Nat /\ p + k >= 1 /\ p + k <= p + 2 + 2 * l
      BY <3>0, <3>1
    <3>3. p + k <= Len(c)
      BY <1>3, <3>0, <3>2
    <3>4. Len(c) <= Len(c) + Len(r)
      BY <1>3
    <3>5. p + k \in 1..(Len(c) + Len(r))
      BY <1>3, <3>2, <3>3, <3>4
    <3> QED BY <1>2, <3>3, <3>5
  <2>4. p + 2 + 2 * l <= Len(d)
    <3>1. p + 2 + 2 * l <= Len(c)
      BY <2>2
    <3>2. Len(c) <= Len(d)
      BY <1>3
    <3> QED BY <1>3, <3>1, <3>2
  <2>5. Holds(c, at[i], map, who[i], order[i])
    BY <1>1 DEF Laid
  <2> QED BY <2>1, <2>2, <2>3, <2>4, <2>5, HoldsThere
<1>5. Holds(d, Len(c) + 1, map, id, keys)
  <2>1. \A k \in 0..(2 + 2 * Len(keys)) : d[(Len(c) + 1) + k] = r[1 + k]
    <3> TAKE k \in 0..(2 + 2 * Len(keys))
    <3>1. /\ (Len(c) + 1) + k \in 1..(Len(c) + Len(r)) /\ ~((Len(c) + 1) + k <= Len(c))
          /\ ((Len(c) + 1) + k) - Len(c) = 1 + k
      BY <1>2, <1>3
    <3> QED BY <1>2, <3>1
  <2>2. Len(c) + 1 \in Nat /\ (Len(c) + 1) + 2 + 2 * Len(keys) <= Len(d)
    BY <1>2, <1>3
  <2> QED BY <2>1, <2>2, HoldsThere
<1>6. at[n + 1] = Len(c) + 1 /\ at[1] = 2 /\ at \in [1..m -> Nat \ {0, 1}]
  BY <1>1 DEF Laid
<1>7. /\ at2 \in [1..(m + 1) -> Nat \ {0, 1}] /\ at2[1] = 2 /\ at2[m + 1] = Len(d) + 1
  <2>1. 1 # m + 1 /\ 1 \in 1..(m + 1) /\ m + 1 \in 1..(m + 1)
    OBVIOUS
  <2>2. Len(d) + 1 \in Nat \ {0, 1}
    BY <1>2, <1>3
  <2>3. \A i \in 1..(m + 1) : i # m + 1 => i \in 1..m
    OBVIOUS
  <2> HIDE DEF m
  <2> QED BY <1>6, <2>1, <2>2, <2>3
<1>8. who2 \in [1..m -> DOMAIN map] /\ order2 \in [1..m -> Seq(Keys)]
  <2>1. \A i \in 1..m : i # m => i \in 1..n
    OBVIOUS
  <2>2. who \in [1..n -> DOMAIN map] /\ order \in [1..n -> Seq(Keys)]
    BY <1>1 DEF Laid
  <2> HIDE DEF m
  <2> QED BY <2>1, <2>2
<1>9. ASSUME NEW i \in 1..m
      PROVE  /\ Holds(d, at2[i], map, who2[i], order2[i])
             /\ at2[i + 1] = at2[i] + 3 + 2 * Len(order2[i])
  <2>1. CASE i = m
    <3>1. i \in 1..(m + 1) /\ i + 1 \in 1..(m + 1) /\ i # m + 1 /\ i + 1 = m + 1
      BY <2>1
    <3>2. who2[i] = id /\ order2[i] = keys /\ at2[i] = at[i] /\ at2[i + 1] = Len(d) + 1
      BY <2>1, <3>1
    <3>3. at[i] = Len(c) + 1
      BY <1>6, <2>1
    <3> HIDE DEF at2, who2, order2
    <3>4. Len(d) + 1 = (Len(c) + 1) + 3 + 2 * Len(keys)
      BY <1>2, <1>3
    <3> QED BY <1>5, <3>2, <3>3, <3>4
  <2>2. CASE i # m
    <3>1. i \in 1..n /\ i \in 1..(m + 1) /\ i + 1 \in 1..(m + 1) /\ i # m + 1 /\ i + 1 # m + 1
      BY <2>2
    <3>2. who2[i] = who[i] /\ order2[i] = order[i] /\ at2[i] = at[i] /\ at2[i + 1] = at[i + 1]
      BY <2>2, <3>1
    <3>3. at[i + 1] = at[i] + 3 + 2 * Len(order[i])
      BY <1>1, <3>1 DEF Laid
    <3> HIDE DEF at2, who2, order2
    <3> QED BY <1>4, <3>1, <3>2, <3>3
  <2> QED BY <2>1, <2>2
<1>10. done \cup {id} = {who2[i] : i \in 1..m}
  <2>1. \A i \in 1..n : i \in 1..m /\ i # m /\ who2[i] = who[i]
    OBVIOUS
  <2>2. m \in 1..m /\ who2[m] = id /\ \A i \in 1..m : i = m \/ i \in 1..n
    OBVIOUS
  <2> HIDE DEF m, who2
  <2> QED BY <1>1, <2>1, <2>2
<1>11. Laid(d, m, map, at2, who2, order2)
  <2>1. \A i \in 1..m : /\ Holds(d, at2[i], map, who2[i], order2[i])
                         /\ at2[i + 1] = at2[i] + 3 + 2 * Len(order2[i])
    <3> HIDE DEF m, at2, who2, order2
    <3> QED BY <1>9
  <2> HIDE DEF m, at2, who2, order2
  <2> QED BY <1>7, <1>8, <2>1 DEF Laid
<1>12. Layout(d, m, map, done \cup {id})
  <2> HIDE DEF m, at2, who2, order2
  <2> SUFFICES \E a, w, o : Laid(d, m, map, a, w, o) /\ done \cup {id} = {w[i] : i \in 1..m}
    BY DEF Layout
  <2> WITNESS at2, who2, order2
  <2> QED BY <1>10, <1>11
<1> QED BY <1>12 DEF d

\* The first field is none of the records'.
LEMMA LaidFirst ==
  ASSUME NEW c \in Seq(Fields), NEW n \in Nat, NEW map, NEW done, NEW x, c # <<>>,
         Layout(c, n, map, done)
  PROVE  Layout([c EXCEPT ![1] = x], n, map, done)
<1>1. PICK at, who, order : Laid(c, n, map, at, who, order) /\ done = {who[i] : i \in 1..n}
  BY DEF Layout
<1> DEFINE d == [c EXCEPT ![1] = x]
<1>2. /\ Len(d) = Len(c) /\ Len(c) \in Nat /\ Len(c) > 0
      /\ \A i \in 1..Len(c) : i # 1 => d[i] = c[i]
  OBVIOUS
<1> HIDE DEF d
<1>3. ASSUME NEW i \in 1..n PROVE Holds(d, at[i], map, who[i], order[i])
  <2>1. /\ at[i] \in Nat /\ at[i] > 1 /\ order[i] \in Seq(Keys) /\ Len(order[i]) \in Nat
        /\ at[i] + 2 + 2 * Len(order[i]) <= Len(c)
    BY <1>1, <1>2, LaidWithin
  <2>2. PICK p \in Nat, l \in Nat : p = at[i] /\ l = Len(order[i])
    BY <2>1
  <2>3. p > 1 /\ p + 2 + 2 * l <= Len(c)
    BY <2>1, <2>2
  <2>4. \A k \in 0..(2 + 2 * l) : d[p + k] = c[p + k]
    <3> TAKE k \in 0..(2 + 2 * l)
    <3>1. k \in Nat /\ k <= 2 + 2 * l
      OBVIOUS
    <3>2. Len(c) \in Nat
      OBVIOUS
    <3>3. p + k \in 1..Len(c) /\ p + k # 1
      BY <2>3, <3>1, <3>2
    <3> QED BY <1>2, <3>3
  <2>5. p + 2 + 2 * l <= Len(d)
    BY <1>2, <2>3
  <2>6. Holds(c, at[i], map, who[i], order[i])
    BY <1>1 DEF Laid
  <2> QED BY <2>1, <2>2, <2>4, <2>5, <2>6, HoldsThere
<1>4. Laid(d, n, map, at, who, order)
  <2>1. at[n + 1] = Len(d) + 1
    BY <1>1, <1>2 DEF Laid
  <2> QED BY <1>1, <1>3, <2>1 DEF Laid
<1>5. Layout(d, n, map, done)
  <2> SUFFICES \E a, w, o : Laid(d, n, map, a, w, o) /\ done = {w[i] : i \in 1..n}
    BY DEF Layout
  <2> WITNESS at, who, order
  <2> QED BY <1>1, <1>4
<1> QED BY <1>5 DEF d

---------------------------------------------------------------------------
(* What load_state finds *)

\* A record that is there is read.
LEMMA RecordFound ==
  ASSUME file \in Seq(Fields), NEW map \in Maps, NEW id \in DOMAIN map, NEW keys \in Seq(Keys),
         NEW p \in Nat \ {0}, Holds(file, p, map, id, keys)
  PROVE  RecordAt[p] = [id |-> id, expires |-> map[id].expires, keys |-> Len(keys),
                        settings |-> map[id].settings]
<1> DEFINE n == Len(keys)
           set == map[id].settings
<1>1. n \in Nat /\ p + 2 + 2 * n <= Len(file) /\ Len(file) \in Nat
  BY DEF Holds
<1>2. \A q \in Nat : p <= q /\ q <= p + 2 + 2 * n => Field(q) = file[q]
  <2> TAKE q \in Nat
  <2> HAVE p <= q /\ q <= p + 2 + 2 * n
  <2> HIDE DEF n
  <2>1. q \in 1..Len(file)
    BY <1>1
  <2> QED BY <2>1 DEF Field
<1>3. Field(p) = id /\ Field(p + 1) = map[id].expires /\ Field(p + 2) = n
  <2>1. file[p] = id /\ file[p + 1] = map[id].expires /\ file[p + 2] = n
    BY DEF Holds
  <2> HIDE DEF n
  <2>2. /\ p <= p /\ p <= p + 1 /\ p <= p + 2 /\ p <= p + 2 + 2 * n
        /\ p + 1 <= p + 2 + 2 * n /\ p + 2 <= p + 2 + 2 * n
    BY <1>1
  <2> QED BY <1>2, <2>1, <2>2
<1>4. \A j \in 1..n : Field(p + 1 + 2 * j) = keys[j] /\ Field(p + 2 + 2 * j) = set[keys[j]]
  <2> TAKE j \in 1..n
  <2>1. file[p + 1 + 2 * j] = keys[j] /\ file[p + 2 + 2 * j] = set[keys[j]]
    BY DEF Holds
  <2> HIDE DEF n, set
  <2>2. /\ p + 1 + 2 * j \in Nat /\ p + 2 + 2 * j \in Nat
        /\ p <= p + 1 + 2 * j /\ p + 1 + 2 * j <= p + 2 + 2 * n
        /\ p <= p + 2 + 2 * j /\ p + 2 + 2 * j <= p + 2 + 2 * n
    BY <1>1
  <2> QED BY <1>2, <2>1, <2>2
<1>5. {Field(p + 1 + 2 * j) : j \in 1..n} = DOMAIN set
  <2>1. {keys[j] : j \in 1..n} = DOMAIN set
    BY DEF Holds
  <2> DEFINE F(j) == Field(p + 1 + 2 * j)
  <2>2. \A j \in 1..n : F(j) = keys[j]
    BY <1>4
  <2>3. {F(j) : j \in 1..n} = DOMAIN set
    <3> HIDE DEF n, set, F
    <3> QED BY <2>1, <2>2
  <2> QED BY <2>3
<1> DEFINE readOf(m) == [k \in {Field(p + 1 + 2 * j) : j \in 1..m} |->
                            LET j == CHOOSE i \in 1..m : Field(p + 1 + 2 * i) = k
                            IN Field(p + 2 + 2 * j)]
           read == readOf(n)
<1>6. ASSUME NEW k \in DOMAIN set PROVE read[k] = set[k]
  <2> DEFINE j == CHOOSE i \in 1..n : Field(p + 1 + 2 * i) = k
  <2>1. \E i \in 1..n : Field(p + 1 + 2 * i) = k
    <3> HIDE DEF n, set
    <3> QED BY <1>5
  <2>2. j \in 1..n /\ Field(p + 1 + 2 * j) = k
    <3> HIDE DEF n, set
    <3> QED BY <2>1
  <2>3. read[k] = Field(p + 2 + 2 * j)
    BY <1>5, Zenon
  <2> HIDE DEF n, set, j, read
  <2> QED BY <1>4, <2>2, <2>3
<1>7. read = set
  <2>1. DOMAIN read = DOMAIN set
    BY <1>5
  <2>2. read = [k \in DOMAIN read |-> read[k]]
    OBVIOUS
  <2>3. set = [k \in DOMAIN set |-> set[k]]
    BY SessionOf
  <2> HIDE DEF read, set
  <2> QED BY <1>6, <2>1, <2>2, <2>3
<1>8. RecordAt[p] = [id |-> Field(p), expires |-> Field(p + 1), keys |-> Field(p + 2),
                     settings |-> readOf(Field(p + 2))]
  BY Zenon DEF RecordAt
<1>9. RecordAt[p] = [id |-> id, expires |-> map[id].expires, keys |-> n, settings |-> readOf(n)]
  <2> HIDE DEF n, readOf
  <2> QED BY <1>3, <1>8
<1>10. readOf(n) = set
  BY <1>7
<1> HIDE DEF readOf
<1> QED BY <1>9, <1>10

\* What is found of the sessions of a set: those that have not expired.
Found(map, set) == [id \in {i \in set : ~(map[i].expires < now)} |-> map[id]]

\* The sessions found and one more of map.
Added(found, map, x) ==
    IF map[x].expires < now THEN found
    ELSE [id \in DOMAIN found \cup {x} |-> IF id = x THEN map[x] ELSE found[id]]

\* What is found once one more session has been read.
LEMMA FoundMore ==
  ASSUME NEW map \in Maps, NEW set, NEW x \in DOMAIN map
  PROVE  Found(map, set \cup {x}) = Added(Found(map, set), map, x)
<1> DEFINE L(s) == {i \in s : ~(map[i].expires < now)}
<1>1. CASE map[x].expires < now
  <2>1. L(set \cup {x}) = L(set)
    BY <1>1
  <2> HIDE DEF L
  <2>2. Found(map, set \cup {x}) = [id \in L(set \cup {x}) |-> map[id]]
    BY DEF Found, L
  <2>3. Found(map, set) = [id \in L(set) |-> map[id]]
    BY DEF Found, L
  <2> QED BY <1>1, <2>1, <2>2, <2>3 DEF Added
<1>2. CASE ~(map[x].expires < now)
  <2>1. L(set \cup {x}) = L(set) \cup {x}
    BY <1>2
  <2>2. Found(map, set \cup {x}) = [id \in L(set \cup {x}) |-> map[id]]
    BY DEF Found
  <2>3. Found(map, set) = [id \in L(set) |-> map[id]]
    BY DEF Found
  <2> HIDE DEF L
  <2> QED BY <1>2, <2>1, <2>2, <2>3 DEF Added
<1> QED BY <1>1, <1>2

\* The reader goes from one record to the next and finds the sessions.
LEMMA Finds ==
  ASSUME file \in Seq(Fields), NEW map \in Maps, NEW n \in Nat, NEW done,
         Layout(file, n, map, done)
  PROVE  Reading[n].found = Found(map, done)
<1>1. PICK at, who, order : Laid(file, n, map, at, who, order) /\ done = {who[i] : i \in 1..n}
  BY DEF Layout
<1> DEFINE Upto(k) == {who[i] : i \in 1..k}
           P(k) == Reading[k] = [at |-> at[k + 1], found |-> Found(map, Upto(k))]
           T == {k \in 0..n : ~P(k)}
<1>2. T = {}
  <2> SUFFICES ASSUME T # {} PROVE FALSE
    OBVIOUS
  <2>1. PICK k \in T : \A l \in T : k <= l
    <3>1. T \subseteq Nat
      OBVIOUS
    <3> HIDE DEF T
    <3> QED BY <3>1, LeastNumber
  <2>2. k \in 0..n /\ ~P(k)
    OBVIOUS
  <2>3. P(0)
    <3>1. Upto(0) = {} /\ at[0 + 1] = 2
      BY <1>1 DEF Laid
    <3>2. Found(map, {}) = NoSessions
      <4>1. {i \in {} : ~(map[i].expires < now)} = {}
        OBVIOUS
      <4>2. Found(map, {}) = [id \in {} |-> map[id]]
        BY <4>1 DEF Found
      <4> QED BY <4>2 DEF NoSessions
    <3> HIDE DEF Upto
    <3> QED BY <3>1, <3>2, ReadingIs DEF Start
  <2>4. CASE k # 0
    <3>1. k \in 1..n /\ k - 1 \in 0..n /\ k - 1 \in Nat /\ (k - 1) + 1 = k /\ ~(k <= k - 1)
      BY <2>2, <2>4
    <3>2. P(k - 1)
      <4>1. k - 1 \notin T
        BY <2>1, <3>1
      <4> HIDE DEF P
      <4> QED BY <3>1, <4>1
    <3> DEFINE S == Found(map, Upto(k - 1))
               x == who[k]
               before == Reading[k - 1]
    <3>3. Reading[k] = ReadRecord(before)
      <4>1. Reading[(k - 1) + 1] = ReadRecord(Reading[k - 1])
        BY <3>1, ReadingIs
      <4> QED BY <3>1, <4>1
    <3>4. before.at = at[k] /\ before.found = S
      <4> HIDE DEF S
      <4> QED BY <3>1, <3>2 DEF S
    <3>5. /\ Holds(file, at[k], map, who[k], order[k])
          /\ at[k + 1] = at[k] + 3 + 2 * Len(order[k])
      BY <1>1, <3>1 DEF Laid
    <3>6. at[k] \in Nat \ {0} /\ x \in DOMAIN map /\ order[k] \in Seq(Keys)
      <4>1. Len(file) \in Nat
        OBVIOUS
      <4>2. at[k] \in Nat /\ at[k] > 1 /\ who[k] \in DOMAIN map /\ order[k] \in Seq(Keys)
        BY <1>1, <3>1, <4>1, LaidWithin
      <4> QED BY <4>2
    <3>7. RecordAt[at[k]] = [id |-> x, expires |-> map[x].expires, keys |-> Len(order[k]),
                             settings |-> map[x].settings]
      BY <3>5, <3>6, RecordFound
    <3>8. map[x] = [expires |-> map[x].expires, settings |-> map[x].settings]
      BY <3>6, SessionOf
    <3>9. ReadRecord(before) = [at |-> at[k + 1], found |-> Added(S, map, x)]
      <4> HIDE DEF S, x, before
      <4>1. PICK r : r = RecordAt[at[k]]
        OBVIOUS
      <4>2. /\ r.id = x /\ r.expires = map[x].expires
            /\ r.keys = Len(order[k]) /\ r.settings = map[x].settings
        BY <3>7, <4>1
      <4>3. ReadRecord(before) =
              [at |-> at[k] + 3 + 2 * r.keys,
               found |-> IF r.expires < now THEN S
                         ELSE [id \in DOMAIN S \cup {r.id} |->
                                 IF id = r.id THEN [expires |-> r.expires, settings |-> r.settings]
                                 ELSE S[id]]]
        BY <3>4, <4>1 DEF ReadRecord
      <4> QED BY <3>5, <3>8, <4>2, <4>3 DEF Added
    <3>10. Upto(k) = Upto(k - 1) \cup {x}
      <4>1. \A i : i \in 1..k <=> i \in 1..(k - 1) \/ i = k
        BY <3>1
      <4> QED BY <4>1
    <3>11. Reading[k] = [at |-> at[k + 1], found |-> Found(map, Upto(k))]
      <4>1. Found(map, Upto(k)) = Added(S, map, x)
        <5> HIDE DEF Upto, x
        <5> QED BY <3>6, <3>10, FoundMore
      <4> HIDE DEF S, x, Upto, before
      <4> QED BY <3>3, <3>9, <4>1
    <3> QED BY <2>2, <3>11
  <2> QED BY <2>2, <2>3, <2>4
<1>3. P(n)
  <2>1. n \in 0..n
    OBVIOUS
  <2> HIDE DEF P
  <2> QED BY <1>2, <2>1
<1> QED BY <1>1, <1>3

---------------------------------------------------------------------------
(* The invariant *)

TypeOK ==
    /\ sessions \in Maps /\ snapshot \in Maps
    /\ now \in Nat /\ saveTime \in Nat /\ saveTime <= now
    /\ pc \in {"idle", "records", "count", "close"}
    /\ file \in Seq(Fields) /\ buffer \in Seq(Fields)
    /\ numberOfSessions \in Nat /\ complete \in BOOLEAN

\* The sessions that are written: those done with that had not expired.
Written == {id \in DOMAIN snapshot \ todo : ~(snapshot[id].expires < saveTime)}

\* What a save under way has put where, in the file and in the buffer.
Saving ==
    /\ pc # "idle" => sessions = snapshot /\ todo \subseteq DOMAIN snapshot /\ complete = FALSE
    /\ pc = "records" => /\ file \o buffer # <<>> /\ (file \o buffer)[1] = 0
                         /\ Layout(file \o buffer, numberOfSessions, snapshot, Written)
    /\ pc \in {"count", "close"} => /\ todo = {} /\ file # <<>>
                                    /\ Layout(file, numberOfSessions, snapshot, Written)
    /\ pc = "close" => buffer = <<numberOfSessions>>

\* What the last save has left: all, under their number, or nothing that counts.
Saved ==
    /\ complete => /\ todo = {} /\ file # <<>> /\ file[1] = numberOfSessions
                   /\ Layout(file, numberOfSessions, snapshot, Written)
    /\ ~complete => file = <<>> \/ file[1] = 0

IInv == TypeOK /\ Saving /\ Saved

\* No sessions are a map of them.
LEMMA NoneIsMap == NoSessions \in Maps
<1>1. NoSessions \in [{} -> Sessions]
  BY DEF NoSessions
<1> QED BY <1>1 DEF Maps

\* Part of a map is one.
LEMMA LiveIsMap == ASSUME NEW map \in Maps, NEW t PROVE Live(map, t) \in Maps
<1> DEFINE D == {i \in DOMAIN map : ~(map[i].expires < t)}
<1>1. D \subseteq Ids /\ \A id \in D : map[id] \in Sessions
  BY SessionOf
<1>2. Live(map, t) = [id \in D |-> map[id]]
  BY DEF Live
<1>3. Live(map, t) \in [D -> Sessions]
  <2> HIDE DEF D
  <2> QED BY <1>1, <1>2
<1> HIDE DEF D
<1> QED BY <1>1, <1>3 DEF Maps

\* What load_state finds: what has not expired of the last save, if that was
\* carried to its end, and nothing otherwise.
LEMMA StoredIs ==
  ASSUME IInv
  PROVE  Stored = IF complete THEN Live(snapshot, now) ELSE NoSessions
<1>1. CASE complete
  <2>1. Field(1) = numberOfSessions
    <3>1. file \in Seq(Fields) /\ file # <<>> /\ file[1] = numberOfSessions
      BY <1>1 DEF IInv, TypeOK, Saved
    <3>2. 1 \in DOMAIN file
      BY <3>1
    <3> QED BY <3>1, <3>2 DEF Field
  <2>2. Reading[numberOfSessions].found = Found(snapshot, Written)
    BY <1>1, Finds DEF IInv, TypeOK, Saved
  <2>3. Found(snapshot, Written) = Live(snapshot, now)
    <3> DEFINE F == {i \in Written : ~(snapshot[i].expires < now)}
               L == {i \in DOMAIN snapshot : ~(snapshot[i].expires < now)}
    <3>1. \A i \in DOMAIN snapshot : snapshot[i].expires < saveTime => snapshot[i].expires < now
      <4> TAKE i \in DOMAIN snapshot
      <4>1. snapshot[i].expires \in Nat /\ saveTime \in Nat /\ now \in Nat /\ saveTime <= now
        BY SessionOf DEF IInv, TypeOK
      <4> QED BY <4>1
    <3>2. F = L
      BY <1>1, <3>1 DEF Written, IInv, Saved
    <3>3. Found(snapshot, Written) = [id \in F |-> snapshot[id]]
      BY DEF Found
    <3>4. Live(snapshot, now) = [id \in L |-> snapshot[id]]
      BY DEF Live
    <3> HIDE DEF F, L
    <3> QED BY <3>2, <3>3, <3>4
  <2> QED BY <1>1, <2>1, <2>2, <2>3 DEF Stored
<1>2. CASE ~complete
  <2>1. Field(1) = 0
    BY <1>2 DEF IInv, Saved, Field
  <2> QED BY <1>2, <2>1, ReadingIs DEF Stored, Start
<1> QED BY <1>1, <1>2

\* What load_state finds is a map of sessions.
LEMMA StoredIsMap == ASSUME IInv PROVE Stored \in Maps
BY StoredIs, LiveIsMap, NoneIsMap DEF IInv, TypeOK

\* There is no file at first.
LEMMA InitIInv == Init => IInv
<1> SUFFICES ASSUME Init PROVE IInv
  OBVIOUS
<1>1. <<>> \in Seq(Fields)
  OBVIOUS
<1>2. TypeOK
  <2>1. sessions \in Maps /\ snapshot \in Maps
    BY NoneIsMap DEF Init
  <2>2. /\ now \in Nat /\ saveTime \in Nat /\ saveTime <= now
        /\ numberOfSessions \in Nat
    <3>1. now = 1 /\ saveTime = 1 /\ numberOfSessions = 0
      BY DEF Init
    <3> QED BY <3>1
  <2>3. complete \in BOOLEAN /\ pc \in {"idle"} /\ file = <<>> /\ buffer = <<>>
    BY Zenon DEF Init
  <2> QED BY <1>1, <2>1, <2>2, <2>3 DEF TypeOK
<1> QED BY <1>2 DEF Init, IInv, Saving, Saved

\* Wherever the buffer is cut, what has been written stays what it is.
LEMMA SpillKeeps ==
  ASSUME file \in Seq(Fields), buffer \in Seq(Fields), NEW n \in 0..Len(buffer), Spill(n)
  PROVE  /\ file' \in Seq(Fields) /\ buffer' \in Seq(Fields) /\ file' \o buffer' = file \o buffer
         /\ file' # <<>> => file'[1] = (file \o buffer)[1]
<1> DEFINE s == SubSeq(buffer, 1, n)
           t == SubSeq(buffer, n + 1, Len(buffer))
<1>1. Len(buffer) \in Nat /\ n \in Nat /\ n <= Len(buffer)
  OBVIOUS
<1>2. s \in Seq(Fields) /\ t \in Seq(Fields)
  BY <1>1
<1>3. s \o t = buffer
  <2>1. /\ 1 \in 1..(Len(buffer) + 1) /\ n \in (1 - 1)..Len(buffer) /\ Len(buffer) \in n..Len(buffer)
    BY <1>1
  <2>2. s \o t = SubSeq(buffer, 1, Len(buffer))
    BY <2>1, ConcatAdjacentSubSeq
  <2> QED BY <2>2, SubSeqFull
<1>4. file' = file \o s /\ buffer' = t
  BY DEF Spill
<1> HIDE DEF s, t
<1>5. (file \o s) \o t = file \o buffer
  <2>1. (file \o s) \o t = file \o (s \o t)
    BY <1>2, ConcatAssociative, SMTT(30)
  <2> QED BY <1>3, <2>1
<1>6. file \o s \in Seq(Fields)
  BY <1>2
<1>7. file \o s # <<>> => (file \o s)[1] = ((file \o s) \o t)[1]
  BY <1>2, <1>6
<1> QED BY <1>2, <1>4, <1>5, <1>6, <1>7

\* One session is written, or passed over.
LEMMA SaveSessionKeeps == ASSUME IInv, NEW id \in todo, SaveSession(id) PROVE IInv'
<1>0. /\ TypeOK /\ Saving /\ Saved /\ pc = "records" /\ todo' = todo \ {id}
      /\ UNCHANGED <<sessions, now, file, pc, saveTime, snapshot, complete>>
  BY DEF IInv, SaveSession
<1>1. /\ sessions = snapshot /\ todo \subseteq DOMAIN snapshot /\ complete = FALSE
      /\ file \o buffer # <<>> /\ (file \o buffer)[1] = 0
      /\ Layout(file \o buffer, numberOfSessions, snapshot, Written)
  BY <1>0 DEF Saving
<1>2. id \in DOMAIN snapshot /\ sessions \in Maps
  BY <1>0, <1>1 DEF TypeOK
<1>3. CASE sessions[id].expires < saveTime
  <2>1. UNCHANGED <<buffer, numberOfSessions>>
    BY <1>3 DEF SaveSession
  <2>2. Written' = Written
    BY <1>0, <1>1, <1>3 DEF Written
  <2> QED BY <1>0, <1>1, <2>1, <2>2 DEF IInv, TypeOK, Saving, Saved
<1>4. CASE ~(sessions[id].expires < saveTime)
  <2>1. PICK keys \in Orders(DOMAIN sessions[id].settings) :
           buffer' = buffer \o Record(id, keys) /\ numberOfSessions' = numberOfSessions + 1
    BY <1>4 DEF SaveSession
  <2>2. keys \in Seq(Keys) /\ {keys[j] : j \in 1..Len(keys)} = DOMAIN sessions[id].settings
    <3> DEFINE D == DOMAIN sessions[id].settings
    <3>1. D \subseteq Keys
      BY <1>1, <1>2, SessionOf
    <3>2. Cardinality(D) \in Nat
      BY <3>1, StateAssumption, FS_Subset, FS_CardinalityType
    <3>3. keys \in [1..Cardinality(D) -> D] /\ {keys[i] : i \in DOMAIN keys} = D
      BY <2>1 DEF Orders
    <3> HIDE DEF D
    <3>4. keys \in Seq(Keys) /\ DOMAIN keys = 1..Len(keys)
      BY <3>1, <3>2, <3>3
    <3> QED BY <3>3, <3>4 DEF D
  <2> DEFINE r == Record(id, keys)
  <2>3. r \in Seq(Fields) /\ Len(r) = 3 + 2 * Len(keys) /\ Holds(r, 1, sessions, id, keys)
    BY <1>1, <1>2, <2>2, RecordFields
  <2> HIDE DEF r
  <2>4. file \in Seq(Fields) /\ buffer \in Seq(Fields) /\ numberOfSessions \in Nat
    BY <1>0 DEF TypeOK
  <2>5. /\ buffer' = buffer \o r /\ buffer \o r \in Seq(Fields)
        /\ file \o buffer \in Seq(Fields) /\ file' \o buffer' = (file \o buffer) \o r
    <3>1. buffer' = buffer \o r
      BY <2>1 DEF r
    <3>2. buffer \o r \in Seq(Fields) /\ file \o buffer \in Seq(Fields)
      BY <2>3, <2>4
    <3>3. (file \o buffer) \o r = file \o (buffer \o r)
      <4>1. r \in Seq(Fields)
        BY <2>3
      <4> QED BY <2>4, <4>1, ConcatAssociative, SMTT(30)
    <3> QED BY <1>0, <3>1, <3>2, <3>3
  <2>6. Written' = Written \cup {id}
    BY <1>0, <1>1, <1>2, <1>4 DEF Written
  <2>7. Layout((file \o buffer) \o r, numberOfSessions + 1, snapshot, Written \cup {id})
    BY <1>1, <1>2, <2>2, <2>3, <2>4, <2>5, LaidMore
  <2>8. (file \o buffer) \o r # <<>> /\ ((file \o buffer) \o r)[1] = 0
    BY <1>1, <2>3, <2>5
  <2>9. Saving'
    <3>1. file' \o buffer' # <<>> /\ (file' \o buffer')[1] = 0
      BY <2>5, <2>8
    <3>2. Layout(file' \o buffer', numberOfSessions', snapshot', Written')
      BY <1>0, <2>1, <2>5, <2>6, <2>7
    <3> QED BY <1>0, <1>1, <3>1, <3>2 DEF Saving
  <2>10. TypeOK'
    BY <1>0, <2>1, <2>4, <2>5 DEF TypeOK
  <2>11. Saved'
    BY <1>0, <1>1 DEF Saved
  <2> QED BY <2>9, <2>10, <2>11 DEF IInv
<1> QED BY <1>3, <1>4

\* Every step keeps the invariant.
LEMMA NextIInv == ASSUME IInv, [Next]_vars PROVE IInv'
<1>0. TypeOK /\ Saving /\ Saved
  BY DEF IInv
<1>1. ASSUME NEW id \in Ids, NEW session \in Sessions, Put(id, session) PROVE IInv'
  <2>1. sessions' \in Maps
    <3> DEFINE D == DOMAIN sessions \cup {id}
    <3>1. D \subseteq Ids /\ \A i \in DOMAIN sessions : sessions[i] \in Sessions
      BY <1>0, SessionOf DEF TypeOK
    <3>2. sessions' \in [D -> Sessions]
      BY <1>1, <3>1 DEF Put
    <3> HIDE DEF D
    <3> QED BY <3>1, <3>2 DEF Maps
  <2> QED BY <1>0, <1>1, <2>1 DEF Put, saveVars, IInv, TypeOK, Saving, Saved, Written
<1>2. ASSUME NEW id, Remove(id) PROVE IInv'
  <2>1. sessions' \in Maps
    <3> DEFINE D == DOMAIN sessions \ {id}
    <3>1. D \subseteq Ids /\ \A i \in DOMAIN sessions : sessions[i] \in Sessions
      BY <1>0, SessionOf DEF TypeOK
    <3>2. sessions' \in [D -> Sessions]
      BY <1>2, <3>1 DEF Remove
    <3> HIDE DEF D
    <3> QED BY <3>1, <3>2 DEF Maps
  <2> QED BY <1>0, <1>2, <2>1 DEF Remove, saveVars, IInv, TypeOK, Saving, Saved, Written
<1>3. ASSUME Tick PROVE IInv'
  <2>1. now' \in Nat /\ saveTime <= now'
    BY <1>0, <1>3 DEF Tick, TypeOK
  <2>2. UNCHANGED <<sessions, file, pc, buffer, todo, numberOfSessions, saveTime, snapshot, complete>>
    BY <1>3 DEF Tick, saveVars
  <2> QED BY <1>0, <2>1, <2>2 DEF IInv, TypeOK, Saving, Saved, Written
<1>4. ASSUME BeginSave PROVE IInv'
  <2>1. /\ file' = <<>> /\ buffer' = <<0>> /\ todo' = DOMAIN sessions /\ numberOfSessions' = 0
        /\ saveTime' = now /\ snapshot' = sessions /\ complete' = FALSE /\ pc' = "records"
        /\ sessions' = sessions /\ now' = now
    BY <1>4 DEF BeginSave
  <2>2. /\ <<0>> \in Seq(Fields) /\ <<>> \in Seq(Fields)
        /\ <<>> \o <<0>> = <<0>> /\ Len(<<0>>) = 1 /\ <<0>>[1] = 0 /\ <<0>> # <<>>
    <3>1. 0 \in Fields
      BY DEF Fields
    <3> HIDE DEF Fields
    <3> QED BY <3>1
  <2>3. Written' = {}
    BY <2>1 DEF Written
  <2>4. Layout(<<0>>, 0, sessions, {})
    BY <2>2, LaidNone
  <2>5. TypeOK'
    <3>1. now' \in Nat /\ saveTime' \in Nat /\ saveTime' <= now' /\ numberOfSessions' \in Nat
      BY <1>0, <2>1 DEF TypeOK
    <3> QED BY <1>0, <2>1, <2>2, <3>1 DEF TypeOK
  <2>6. Saving'
    <3>1. file' \o buffer' = <<0>>
      BY <2>1, <2>2
    <3>2. /\ file' \o buffer' # <<>> /\ (file' \o buffer')[1] = 0
          /\ Layout(file' \o buffer', numberOfSessions', snapshot', Written')
      BY <2>1, <2>2, <2>3, <2>4, <3>1
    <3>3. /\ pc' = "records" /\ sessions' = snapshot'
          /\ todo' \subseteq DOMAIN snapshot' /\ complete' = FALSE
      BY <2>1
    <3> QED BY <3>2, <3>3 DEF Saving
  <2>7. Saved'
    BY <2>1 DEF Saved
  <2> QED BY <2>5, <2>6, <2>7 DEF IInv
<1>5. ASSUME NEW id \in todo, SaveSession(id) PROVE IInv'
  BY <1>5, SaveSessionKeeps
<1>6. ASSUME NEW n \in 1..Len(buffer), Flush(n) PROVE IInv'
  <2>1. /\ Spill(n) /\ pc = "records"
        /\ UNCHANGED <<sessions, now, pc, todo, numberOfSessions, saveTime, snapshot, complete>>
    BY <1>6 DEF Flush
  <2>2. /\ file' \in Seq(Fields) /\ buffer' \in Seq(Fields) /\ file' \o buffer' = file \o buffer
        /\ file' # <<>> => file'[1] = (file \o buffer)[1]
    <3>1. n \in 0..Len(buffer)
      OBVIOUS
    <3> QED BY <1>0, <2>1, <3>1, SpillKeeps DEF TypeOK
  <2>3. Written' = Written
    BY <2>1 DEF Written
  <2>4. complete = FALSE /\ (file \o buffer)[1] = 0
    BY <1>0, <2>1 DEF Saving
  <2>5. TypeOK'
    BY <1>0, <2>1, <2>2 DEF TypeOK
  <2>6. Saving'
    BY <1>0, <2>1, <2>2, <2>3 DEF Saving
  <2>7. Saved'
    BY <2>1, <2>2, <2>4 DEF Saved
  <2> QED BY <2>5, <2>6, <2>7 DEF IInv
<1>7. ASSUME Rewind PROVE IInv'
  <2>1. /\ Spill(Len(buffer)) /\ pc = "records" /\ todo = {} /\ pc' = "count"
        /\ UNCHANGED <<sessions, now, todo, numberOfSessions, saveTime, snapshot, complete>>
    BY <1>7 DEF Rewind
  <2>2. file \in Seq(Fields) /\ buffer \in Seq(Fields)
    BY <1>0 DEF TypeOK
  <2>3. file' = file \o buffer /\ buffer' \in Seq(Fields)
    <3>1. /\ file' = file \o SubSeq(buffer, 1, Len(buffer))
          /\ buffer' = SubSeq(buffer, Len(buffer) + 1, Len(buffer))
      BY <2>1 DEF Spill
    <3>2. SubSeq(buffer, 1, Len(buffer)) = buffer
      BY <2>2, SubSeqFull
    <3>3. SubSeq(buffer, Len(buffer) + 1, Len(buffer)) = <<>>
      BY <2>2
    <3> QED BY <3>1, <3>2, <3>3
  <2>4. Written' = Written
    BY <2>1 DEF Written
  <2>5. /\ complete = FALSE /\ (file \o buffer)[1] = 0 /\ file \o buffer # <<>>
        /\ Layout(file \o buffer, numberOfSessions, snapshot, Written)
    BY <1>0, <2>1 DEF Saving
  <2>6. file \o buffer \in Seq(Fields)
    BY <2>2
  <2>7. TypeOK'
    BY <1>0, <2>1, <2>3, <2>6 DEF TypeOK
  <2>8. Saving'
    BY <1>0, <2>1, <2>3, <2>4, <2>5 DEF Saving
  <2>9. Saved'
    BY <2>1, <2>3, <2>5 DEF Saved
  <2> QED BY <2>7, <2>8, <2>9 DEF IInv
<1>8. ASSUME WriteCount PROVE IInv'
  <2>1. /\ pc = "count" /\ pc' = "close" /\ buffer' = <<numberOfSessions>>
        /\ UNCHANGED <<sessions, now, file, todo, numberOfSessions, saveTime, snapshot, complete>>
    BY <1>8 DEF WriteCount
  <2>2. <<numberOfSessions>> \in Seq(Fields)
    <3>1. numberOfSessions \in Fields
      BY <1>0 DEF TypeOK, Fields
    <3> HIDE DEF Fields
    <3> QED BY <3>1
  <2>3. Written' = Written
    BY <2>1 DEF Written
  <2> QED BY <1>0, <2>1, <2>2, <2>3 DEF IInv, TypeOK, Saving, Saved
<1>9. ASSUME Close PROVE IInv'
  <2>1. /\ pc = "close" /\ pc' = "idle" /\ complete' = TRUE /\ buffer' = <<>>
        /\ file' = [file EXCEPT ![1] = buffer[1]]
        /\ UNCHANGED <<sessions, now, todo, numberOfSessions, saveTime, snapshot>>
    BY <1>9 DEF Close
  <2>2. /\ todo = {} /\ file # <<>> /\ buffer = <<numberOfSessions>>
        /\ Layout(file, numberOfSessions, snapshot, Written)
    BY <1>0, <2>1 DEF Saving
  <2>3. buffer[1] = numberOfSessions /\ numberOfSessions \in Nat /\ file \in Seq(Fields)
    BY <1>0, <2>2 DEF TypeOK
  <2>4. file' \in Seq(Fields) /\ file' # <<>> /\ file'[1] = numberOfSessions
    <3>1. numberOfSessions \in Fields /\ file' = [file EXCEPT ![1] = numberOfSessions]
      BY <2>1, <2>3 DEF Fields
    <3>2. 1 \in 1..Len(file)
      BY <2>2, <2>3
    <3> HIDE DEF Fields
    <3> QED BY <2>2, <2>3, <3>1, <3>2, ExceptSeq
  <2>5. Written' = Written
    BY <2>1 DEF Written
  <2>6. Layout(file', numberOfSessions, snapshot, Written)
    BY <2>1, <2>2, <2>3, LaidFirst
  <2>7. TypeOK'
    BY <1>0, <2>1, <2>4 DEF TypeOK
  <2>8. Saved'
    BY <2>1, <2>2, <2>4, <2>5, <2>6 DEF Saved
  <2>9. Saving'
    BY <2>1 DEF Saving
  <2> QED BY <2>7, <2>8, <2>9 DEF IInv
<1>10. ASSUME Fail PROVE IInv'
  <2>1. /\ pc # "idle" /\ pc' = "idle" /\ buffer' = <<>> /\ todo' = {}
        /\ UNCHANGED <<sessions, now, numberOfSessions, saveTime, snapshot, complete>>
    BY <1>10 DEF Fail
  <2>2. complete = FALSE
    BY <1>0, <2>1 DEF Saving
  <2>3. file' \in Seq(Fields) /\ (file' = <<>> \/ file'[1] = 0)
    <3>1. CASE pc = "records"
      <4>1. PICK n \in 0..Len(buffer) : file' = file \o SubSeq(buffer, 1, n)
        BY <1>10, <3>1 DEF Fail
      <4>2. file \in Seq(Fields) /\ buffer \in Seq(Fields) /\ (file \o buffer)[1] = 0
        BY <1>0, <3>1 DEF TypeOK, Saving
      <4>3. /\ SubSeq(buffer, 1, n) \in Seq(Fields) /\ Len(SubSeq(buffer, 1, n)) = n
            /\ n # 0 => SubSeq(buffer, 1, n)[1] = buffer[1]
        BY <4>2
      <4>4. file' \in Seq(Fields)
        BY <4>1, <4>2, <4>3
      <4>5. file' # <<>> => file'[1] = (file \o buffer)[1]
        BY <4>1, <4>2, <4>3
      <4> QED BY <4>2, <4>4, <4>5
    <3>2. CASE pc # "records"
      BY <1>0, <1>10, <2>2, <3>2 DEF Fail, TypeOK, Saved
    <3> QED BY <3>1, <3>2
  <2>4. <<>> \in Seq(Fields)
    OBVIOUS
  <2> QED BY <1>0, <2>1, <2>2, <2>3, <2>4 DEF IInv, TypeOK, Saving, Saved
<1>11. ASSUME Load PROVE IInv'
  <2>1. sessions' \in Maps /\ pc = "idle" /\ UNCHANGED <<now, file, saveVars>>
    BY <1>11, StoredIsMap DEF Load
  <2> QED BY <1>0, <2>1 DEF saveVars, IInv, TypeOK, Saving, Saved, Written
<1>12. ASSUME Crash PROVE IInv'
  <2>1. /\ sessions' \in Maps /\ pc' = "idle" /\ buffer' = <<>> /\ todo' = {}
        /\ UNCHANGED <<now, file, numberOfSessions, saveTime, snapshot, complete>>
    BY <1>12, NoneIsMap DEF Crash
  <2>2. <<>> \in Seq(Fields)
    OBVIOUS
  <2>3. complete => Written' = Written
    BY <1>0, <2>1 DEF Saved, Written
  <2> QED BY <1>0, <2>1, <2>2, <2>3 DEF IInv, TypeOK, Saving, Saved
<1>13. ASSUME UNCHANGED vars PROVE IInv'
  BY <1>0, <1>13 DEF vars, saveVars, IInv, TypeOK, Saving, Saved, Written
<1> QED BY <1>1, <1>2, <1>3, <1>4, <1>5, <1>6, <1>7, <1>8, <1>9, <1>10, <1>11, <1>12, <1>13
        DEF Next, SaveStep

\* Every step, a crash among them, keeps the invariant.
LEMMA Invariance == Spec => []IInv
<1>1. Init => IInv
  BY InitIInv
<1>2. IInv /\ [Next]_vars => IInv'
  BY NextIInv
<1> QED BY <1>1, <1>2, PTL DEF Spec

(* save_state keeps what the file, the buffer and the map may hold.        *)
THEOREM TypeCorrect == Spec => []TypeOK
<1>1. IInv => TypeOK
  BY DEF IInv
<1> QED BY <1>1, Invariance, PTL

(* Wherever save_state is killed or a write fails, load_state finds all of *)
(* the sessions of the last save that have not expired, or none of them,   *)
(* however many there are and whatever their settings.                     *)
THEOREM AllOrNone == Spec => []AllOrNothing
<1>1. IInv => AllOrNothing
  BY StoredIs DEF AllOrNothing
<1> QED BY <1>1, Invariance, PTL

---------------------------------------------------------------------------
(* The save as one step.  BeginSave maps to Begin, Close to Save, Fail to  *)
(* GiveUp, Crash to Restart; the steps that write map to none.             *)

\* Nothing is safe at first, and nothing is found.
LEMMA InitAtomic == Init => Atomic!Init
<1> SUFFICES ASSUME Init PROVE Atomic!Init
  OBVIOUS
<1>1. Stored = NoSessions
  BY InitIInv, StoredIs DEF Init
<1> QED BY <1>1 DEF Init, NoSessions, Atomic!Init, Atomic!None

\* The checkpoint, and what has not expired of it.
Safe == IF complete THEN snapshot ELSE NoSessions

\* A load finds what has not expired of the checkpoint.
LEMMA StoredIsSafe == ASSUME IInv PROVE Stored = Atomic!Live(Safe, now)
<1>1. Live(NoSessions, now) = NoSessions
  BY DEF Live, NoSessions
<1>2. Stored = Live(Safe, now)
  BY <1>1, StoredIs DEF Safe
<1> QED BY <1>2 DEF Live, Atomic!Live

\* A step of the program is one of the checkpoint's, or none.
LEMMA NextAtomic == ASSUME IInv, IInv', [Next]_vars PROVE [Atomic!Next]_(Atomic!vars)
<1>0. /\ pc # "idle" => sessions = snapshot /\ complete = FALSE
      /\ complete \in BOOLEAN /\ NoSessions = Atomic!None
  BY DEF IInv, TypeOK, Saving, NoSessions, Atomic!None
<1>a. Stored = Atomic!Live(Safe, now)
  BY StoredIsSafe
<1>b. Stored' = Atomic!Live(Safe', now')
  <2>1. (IInv => Stored = Atomic!Live(Safe, now))'
    BY StoredIsSafe, PTL
  <2> QED BY <2>1 DEF Atomic!Live
<1>c. ASSUME UNCHANGED <<complete, snapshot, now>> PROVE UNCHANGED Stored
  BY <1>a, <1>b, <1>c DEF Safe
<1>1. ASSUME NEW id \in Ids, NEW session \in Sessions, Put(id, session) PROVE Atomic!Put(id, session)
  BY <1>1 DEF Put, saveVars, Atomic!Put
<1>2. ASSUME NEW id \in DOMAIN sessions, Remove(id) PROVE Atomic!Remove(id)
  BY <1>2 DEF Remove, saveVars, Atomic!Remove
<1>3. ASSUME Tick PROVE Atomic!Tick
  BY <1>3 DEF Tick, saveVars, Atomic!Tick
<1>4. ASSUME BeginSave PROVE Atomic!Begin
  BY <1>0, <1>4 DEF BeginSave, Atomic!Begin
<1>5. ASSUME \/ \E id \in todo : SaveSession(id)
             \/ \E n \in 1..Len(buffer) : Flush(n)
             \/ Rewind \/ WriteCount
      PROVE  UNCHANGED Atomic!vars
  <2>1. UNCHANGED <<sessions, now, complete, snapshot>> /\ (pc # "idle")' = (pc # "idle")
    BY <1>5 DEF SaveSession, Flush, Rewind, WriteCount
  <2> QED BY <2>1, <1>c DEF Atomic!vars
<1>6. ASSUME Close PROVE Atomic!Save
  BY <1>0, <1>6 DEF Close, Atomic!Save
<1>7. ASSUME Fail PROVE Atomic!GiveUp
  BY <1>7 DEF Fail, Atomic!GiveUp
<1>8. ASSUME Load PROVE Atomic!Load
  <2>1. sessions' = Stored /\ pc = "idle" /\ UNCHANGED <<now, file, saveVars>>
    BY <1>8 DEF Load
  <2> QED BY <2>1 DEF saveVars, Atomic!Load
<1>9. ASSUME Crash PROVE Atomic!Restart
  BY <1>0, <1>9 DEF Crash, Atomic!Restart
<1>10. ASSUME UNCHANGED vars PROVE UNCHANGED Atomic!vars
  <2>1. UNCHANGED <<sessions, now, complete, snapshot, pc>>
    BY <1>10 DEF vars, saveVars
  <2> QED BY <2>1, <1>c DEF Atomic!vars
<1>d. Next \/ UNCHANGED vars
  OBVIOUS
<1>e. Stored' = Atomic!Live((IF complete THEN snapshot ELSE NoSessions)', now')
  BY <1>b DEF Safe
<1> QED BY <1>d, <1>e, <1>1, <1>2, <1>3, <1>4, <1>5, <1>6, <1>7, <1>8, <1>9, <1>10
        DEF Next, SaveStep, Atomic!Next

(* Killed at any moment, with its writes late, cut or failing, a save is a *)
(* checkpoint made in one step, and load_state finds just that: the        *)
(* program implements Checkpoint, however many sessions there are.         *)
THEOREM RefinesCheckpoint == Spec => ImplementsCheckpoint
<1>1. Init => Atomic!Init
  BY InitAtomic
<1>2. IInv /\ IInv' /\ [Next]_vars => [Atomic!Next]_(Atomic!vars)
  BY NextAtomic
<1> QED BY <1>1, <1>2, Invariance, PTL DEF Spec, ImplementsCheckpoint, Atomic!Spec
=============================================================================
