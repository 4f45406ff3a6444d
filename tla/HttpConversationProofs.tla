----------------------- MODULE HttpConversationProofs -----------------------
(***************************************************************************)
(* The safety properties of HttpConversation, for any number of requests,  *)
(* any sizes of heads, bodies and contents, and any limits.                *)
(*                                                                         *)
(* The invariant has four parts beside the types:                          *)
(*   Lasting  the responses, their announcements and closeConnection agree *)
(*            about when the connection ends;                              *)
(*   Writing  the client has every response but the last, and of that one  *)
(*            what on_write has counted;                                   *)
(*   Framed   the property itself;                                         *)
(*   Cutting  the client's requests, one behind the other, are a stream of *)
(*            which the server has taken a beginning; while aligned, and   *)
(*            while there is a next request, what it holds of it belongs   *)
(*            to the request whose turn it is.                             *)
(* The bytes of the responses are a fold, FlattenSeq: all that is needed   *)
(* of it is what one more response adds, FlattenAppend, whose proof goes   *)
(* by the least counterexample.                                            *)
(***************************************************************************)
EXTENDS HttpConversation, SequenceTheorems, WellFoundedInduction, TLAPS

-----------------------------------------------------------------------------
(* FlattenSeq *)

\* A set of numbers that is not empty has a least one.
LEMMA LeastNumber ==
  ASSUME NEW T, T \subseteq Nat, T # {}
  PROVE  \E x \in T : \A y \in T : x <= y
<1>1. PICK x \in T : \A y \in T : <<y, x>> \notin OpToRel(<, Nat)
  BY NatLessThanWellFounded, WFMin, Zenon
<1>2. ASSUME NEW y \in T PROVE x <= y
  <2>1. x \in Nat /\ y \in Nat
    OBVIOUS
  <2>2. ~(y < x)
    BY <1>1, <2>1, Zenon DEF OpToRel
  <2> QED BY <2>1, <2>2
<1> QED BY <1>2

\* f is what FlattenSeq makes of the first n sequences of s, one by one.
Flattens(f, s, n) ==
    f = [i \in 1..n |-> IF i = 1 THEN s[i] ELSE f[i - 1] \o s[i]]

\* There is such a function.
LEMMA FlattenExists == ASSUME NEW s, NEW n \in Nat PROVE \E f : Flattens(f, s, n)
<1> DEFINE T == {k \in Nat : ~ \E f : Flattens(f, s, k)}
<1> SUFFICES ASSUME T # {} PROVE FALSE
  OBVIOUS
<1>1. PICK k \in T : \A l \in T : k <= l
  BY LeastNumber
<1>2. k # 0
  <2>1. Flattens([i \in 1..0 |-> s[i]], s, 0)
    BY DEF Flattens
  <2> QED BY <2>1
<1>3. PICK f : Flattens(f, s, k - 1)
  <2>1. k - 1 \in Nat /\ k - 1 \notin T
    BY <1>1, <1>2
  <2> QED BY <2>1
<1> DEFINE g == [i \in 1..k |-> IF i < k THEN f[i]
                                ELSE IF i = 1 THEN s[i] ELSE f[i - 1] \o s[i]]
<1>4. \A i \in 1..k : g[i] = IF i = 1 THEN s[i] ELSE g[i - 1] \o s[i]
  <2>1. \A i \in 1..(k - 1) : f[i] = IF i = 1 THEN s[i] ELSE f[i - 1] \o s[i]
    BY <1>3 DEF Flattens
  <2> QED BY <2>1, <1>2
<1>5. Flattens(g, s, k)
  BY <1>4 DEF Flattens
<1> QED BY <1>5

\* And only one; it does not depend on what follows the first n.
LEMMA FlattenUnique ==
  ASSUME NEW s, NEW t, NEW n \in Nat, NEW m \in Nat, n <= m, NEW f, NEW g,
         Flattens(f, s, n), Flattens(g, t, m), \A i \in 1..n : s[i] = t[i]
  PROVE  \A i \in 1..n : f[i] = g[i]
<1> DEFINE T == {i \in 1..n : f[i] # g[i]}
<1> SUFFICES ASSUME T # {} PROVE FALSE
  OBVIOUS
<1>1. PICK k \in T : \A l \in T : k <= l
  <2>1. T \subseteq Nat
    OBVIOUS
  <2> HIDE DEF T
  <2> QED BY <2>1, LeastNumber
<1>2. f[k] = IF k = 1 THEN s[k] ELSE f[k - 1] \o s[k]
  <2>1. \A i \in 1..n : f[i] = IF i = 1 THEN s[i] ELSE f[i - 1] \o s[i]
    BY DEF Flattens
  <2> QED BY <1>1, <2>1
<1>3. g[k] = IF k = 1 THEN t[k] ELSE g[k - 1] \o t[k]
  <2>1. \A i \in 1..m : g[i] = IF i = 1 THEN t[i] ELSE g[i - 1] \o t[i]
    BY DEF Flattens
  <2> QED BY <1>1, <2>1
<1>4. k # 1 => f[k - 1] = g[k - 1]
  <2> SUFFICES ASSUME k # 1 PROVE f[k - 1] = g[k - 1]
    OBVIOUS
  <2>1. k - 1 \in 1..n /\ k - 1 \notin T
    BY <1>1
  <2> QED BY <2>1
<1> QED BY <1>2, <1>3, <1>4

\* FlattenSeq is the last value of such a function.
LEMMA FlattenIs ==
  ASSUME NEW s, Len(s) \in Nat \ {0}
  PROVE  \E f : Flattens(f, s, Len(s)) /\ FlattenSeq(s) = f[Len(s)]
<1> DEFINE n == Len(s)
           F == CHOOSE f : f = [i \in 1..n |-> IF i = 1 THEN s[i] ELSE f[i - 1] \o s[i]]
<1>1. Flattens(F, s, n)
  BY FlattenExists DEF Flattens
<1>2. FlattenSeq(s) = F[n]
  BY DEF FlattenSeq
<1> QED BY <1>1, <1>2

\* It is a sequence when they are.
LEMMA FlattenSequence ==
  ASSUME NEW S, NEW s \in Seq(Seq(S))
  PROVE  FlattenSeq(s) \in Seq(S)
<1>1. CASE Len(s) = 0
  BY <1>1 DEF FlattenSeq
<1>2. CASE Len(s) # 0
  <2>1. PICK f : Flattens(f, s, Len(s)) /\ FlattenSeq(s) = f[Len(s)]
    BY <1>2, FlattenIs
  <2> DEFINE n == Len(s)
             T == {i \in 1..n : f[i] \notin Seq(S)}
  <2>2. \A i \in 1..n : f[i] = IF i = 1 THEN s[i] ELSE f[i - 1] \o s[i]
    BY <2>1 DEF Flattens
  <2>3. T = {}
    <3> SUFFICES ASSUME T # {} PROVE FALSE
      OBVIOUS
    <3>1. PICK k \in T : \A l \in T : k <= l
      <4>1. T \subseteq Nat
        OBVIOUS
      <4> HIDE DEF T
      <4> QED BY <4>1, LeastNumber
    <3>2. s[k] \in Seq(S)
      BY <3>1
    <3>3. k # 1 => k - 1 \in 1..n /\ k - 1 \notin T
      BY <3>1
    <3>4. k # 1 => f[k - 1] \in Seq(S)
      BY <3>3
    <3>5. f[k] = IF k = 1 THEN s[k] ELSE f[k - 1] \o s[k]
      BY <2>2, <3>1
    <3>6. f[k] \in Seq(S)
      BY <3>2, <3>4, <3>5, ConcatProperties
    <3> QED BY <3>1, <3>6
  <2> QED BY <1>2, <2>1, <2>3
<1> QED BY <1>1, <1>2

\* One sequence more is one more at the end.
LEMMA FlattenMore ==
  ASSUME NEW s, NEW t, NEW n \in Nat \ {0}, n = Len(s), Len(t) = n + 1,
         \A i \in 1..n : t[i] = s[i]
  PROVE  FlattenSeq(t) = FlattenSeq(s) \o t[n + 1]
<1>1. n + 1 \in Nat \ {0} /\ n <= n + 1 /\ n + 1 # 1 /\ n + 1 - 1 = n /\ n \in 1..n
  OBVIOUS
<1>2. PICK f : Flattens(f, s, n) /\ FlattenSeq(s) = f[n]
  BY FlattenIs
<1>3. PICK g : Flattens(g, t, n + 1) /\ FlattenSeq(t) = g[n + 1]
  BY <1>1, FlattenIs
<1>4. \A i \in 1..n : f[i] = g[i]
  <2>1. PICK m \in Nat : m = n + 1 /\ n <= m
    BY <1>1
  <2>2. Flattens(f, s, n) /\ Flattens(g, t, m) /\ \A i \in 1..n : s[i] = t[i]
    BY <1>2, <1>3, <2>1
  <2>3. n \in Nat /\ m \in Nat
    OBVIOUS
  <2> QED BY ONLY <2>1, <2>2, <2>3, FlattenUnique
<1>5. \A i \in 1..(n + 1) : g[i] = IF i = 1 THEN t[i] ELSE g[i - 1] \o t[i]
  BY <1>3 DEF Flattens
<1>6. g[n + 1] = g[n] \o t[n + 1]
  <2>1. n + 1 \in 1..(n + 1)
    OBVIOUS
  <2>2. g[n + 1] = IF n + 1 = 1 THEN t[n + 1] ELSE g[n + 1 - 1] \o t[n + 1]
    BY <1>5, <2>1
  <2> QED BY <1>1, <2>2
<1>7. f[n] = g[n]
  BY <1>1, <1>4
<1> QED BY <1>2, <1>3, <1>6, <1>7

\* One sequence is what it flattens to.
LEMMA FlattenOne == ASSUME NEW t, Len(t) = 1 PROVE FlattenSeq(t) = t[1]
<1>1. PICK g : Flattens(g, t, 1) /\ FlattenSeq(t) = g[1]
  <2>1. Len(t) \in Nat \ {0}
    OBVIOUS
  <2>2. PICK g : Flattens(g, t, Len(t)) /\ FlattenSeq(t) = g[Len(t)]
    BY <2>1, FlattenIs
  <2> QED BY <2>2
<1>2. \A i \in 1..1 : g[i] = IF i = 1 THEN t[i] ELSE g[i - 1] \o t[i]
  BY <1>1 DEF Flattens
<1> QED BY <1>1, <1>2

\* One more sequence is appended to what the others flatten to.
LEMMA FlattenAppend ==
  ASSUME NEW S, NEW s, NEW x, s \in Seq(Seq(S)), x \in Seq(S)
  PROVE  FlattenSeq(Append(s, x)) = FlattenSeq(s) \o x
<1>1. PICK n \in Nat : n = Len(s)
  OBVIOUS
<1>2. PICK t : t = Append(s, x)
  OBVIOUS
<1>3. Len(t) = n + 1 /\ t[n + 1] = x /\ \A i \in 1..n : t[i] = s[i]
  BY <1>1, <1>2
<1>4. CASE n = 0
  <2>1. FlattenSeq(s) = <<>>
    <3>1. FlattenSeq(s) = s
      BY <1>1, <1>4 DEF FlattenSeq
    <3> QED BY <3>1, <1>1, <1>4, EmptySeq
  <2>2. FlattenSeq(t) = x
    BY ONLY <1>3, <1>4, FlattenOne
  <2> QED BY <2>1, <2>2, <1>2, ConcatEmptySeq
<1>5. CASE n # 0
  <2>1. FlattenSeq(t) = FlattenSeq(s) \o t[n + 1]
    BY ONLY <1>1, <1>3, <1>5, FlattenMore
  <2> QED BY <2>1, <1>2, <1>3
<1> QED BY <1>4, <1>5
-----------------------------------------------------------------------------
(* The inductive invariant *)

\* A unit of the client's requests, and one of the responses.
Sendable == (DOMAIN asked) \X {"head", "body"} \X Nat
Receivable == Nat \X {"head", "content"} \X Nat

Contents == [length : Nat, offset : Nat, stream : {"memory", "file"}]

TypeOK ==
    /\ asked \in Seq(Requests)
    /\ toSend \in Seq(Sendable) /\ wire \in Seq(Sendable)
    /\ phase \in {"read", "handle", "write", "closed", "terminated"}
    /\ requestBuffer \in Seq(Sendable) /\ initial \in Seq(Sendable)
    /\ requestCount \in Nat /\ closeConnection \in BOOLEAN
    /\ headerBytesSent \in 0..HeadSize
    /\ content \in Contents /\ content.offset <= content.length
    /\ bodyLeft \in Nat
    /\ got \in Seq(Receivable)
    /\ seen \in Seq([msg : DOMAIN asked, exact : BOOLEAN, body : Seq(Sendable)])
    /\ replies \in Seq([announces : {"close", "keep-alive", "nothing"}, length : Nat,
                         headers : {"none", "other", "close", "keep-alive", "error"}])
    /\ aligned \in BOOLEAN

\* The first h units of the head of response j, and c of its content.
Written(j, h, c) ==
    [i \in 1..h |-> <<j, "head", i>>] \o [i \in 1..c |-> <<j, "content", i>>]

\* The bytes of the responses rs.
BytesOf(rs) == FlattenSeq([j \in DOMAIN rs |-> Written(j, HeadSize, rs[j].length)])

\* A response is being sent, or was when the program ended.
Ongoing == phase \in {"write", "terminated"}

\* The client has all the responses but the last, and of that one what
\* on_write has counted.  The program has ended only within the last buffer of
\* a file.
Writing ==
    /\ ~Ongoing => got = BytesOf(replies)
    /\ phase \in {"read", "handle"} => headerBytesSent = 0
    /\ Ongoing =>
          /\ replies # <<>> /\ content.length = Last(replies).length
          /\ got = BytesOf(Front(replies))
                      \o Written(Len(replies), headerBytesSent, content.offset)
          /\ content.offset > 0 => headerBytesSent = HeadSize
    /\ phase = "terminated" =>
          /\ content.stream = "file" /\ headerBytesSent = HeadSize
          /\ content.length - content.offset \in 1..(BufferSize - 1)

\* The last request asked for the end of the connection.
EndAsked == seen # <<>> /\ asked[Last(seen).msg].wants \in {"close", "1.0"}

\* What the responses announced, what the client asked for and how many
\* responses there were decide closeConnection.
Lasting ==
    /\ phase = "handle" => seen # <<>>
    /\ Len(replies) = IF Ongoing THEN requestCount + 1 ELSE requestCount
    /\ IF phase = "closed" THEN requestCount <= MaxRequests ELSE requestCount < MaxRequests
    /\ Ongoing \/ phase = "closed" => replies # <<>>
    /\ phase = "closed" => closeConnection
    /\ \A j \in 1..Len(replies) :
          replies[j].announces = "close" =>
             j = Len(replies) /\ (Ongoing \/ phase = "closed") /\ closeConnection
    /\ (Ongoing \/ phase = "closed") /\ closeConnection =>
          \/ Last(replies).announces = "close"
          \/ EndAsked
          \/ phase = "closed" /\ Len(replies) = MaxRequests

\* sent is all the client has to send of its requests, and request k begins
\* behind the first start[k] units of it.
Stream(start, sent) ==
    /\ start \in [1..(Len(asked) + 1) -> Nat] /\ start[1] = 0
    /\ sent \in Seq(Sendable) /\ Len(sent) = start[Len(asked) + 1]
    /\ \A k \in DOMAIN asked :
          /\ start[k + 1] = start[k] + HeadSize + asked[k].length /\ start[k + 1] <= Len(sent)
          /\ \A i \in 1..HeadSize : sent[start[k] + i] = <<k, "head", i>>
          /\ \A i \in 1..asked[k].length : sent[start[k] + HeadSize + i] = <<k, "body", i>>

\* s is what sent has behind its unit from up to its unit to.
Runs(s, sent, from, to) ==
    /\ from + Len(s) = to /\ to <= Len(sent)
    /\ \A i \in 1..Len(s) : s[i] = sent[from + i]

\* The server has taken the first pos units off the wire, those up to arrived
\* are there, and what it holds belongs to the request whose turn it is.
Cut(start, sent, pos, arrived) ==
    /\ Runs(wire, sent, pos, arrived) /\ Runs(toSend, sent, arrived, Len(sent))
    /\ phase = "read" =>
          /\ Len(seen) <= Len(asked) /\ Len(requestBuffer) < HeadSize
          /\ Runs(requestBuffer, sent, start[Len(seen) + 1], pos)
    /\ phase = "handle" =>
          /\ Len(seen) \in DOMAIN asked
          /\ \E read \in Nat :
                /\ Runs(Last(seen).body, sent, start[Len(seen)] + HeadSize, read)
                /\ Runs(initial, sent, read, pos)
                /\ read + bodyLeft = start[Len(seen) + 1]
    /\ phase = "write" => Len(seen) <= Len(asked) /\ pos = start[Len(seen) + 1]

\* There is a next request, or the connection ends.
GoesOn == phase \in {"read", "handle"} \/ (phase = "write" /\ ~closeConnection)

Cutting ==
    aligned /\ GoesOn =>
       \E start, sent : \E pos, arrived \in Nat :
          Stream(start, sent) /\ Cut(start, sent, pos, arrived)

IInv == TypeOK /\ Writing /\ Lasting /\ Framed /\ Cutting
-----------------------------------------------------------------------------
(* Sequences and the least of some numbers *)

\* A piece of a sequence.
LEMMA Piece ==
  ASSUME NEW S, NEW s \in Seq(S), NEW m \in Nat, NEW n \in Nat, n <= Len(s)
  PROVE  /\ SubSeq(s, m + 1, n) \in Seq(S)
         /\ Len(SubSeq(s, m + 1, n)) = IF m < n THEN n - m ELSE 0
         /\ \A i \in 1..Len(SubSeq(s, m + 1, n)) : SubSeq(s, m + 1, n)[i] = s[m + i]
<1>1. m + 1 \in Int /\ n \in Int /\ \A i \in (m + 1)..n : s[i] \in S
  BY ElementOfSeq
<1>2. /\ SubSeq(s, m + 1, n) \in Seq(S)
      /\ Len(SubSeq(s, m + 1, n)) = IF m + 1 <= n THEN n - (m + 1) + 1 ELSE 0
      /\ \A i \in 1..n - (m + 1) + 1 : SubSeq(s, m + 1, n)[i] = s[m + 1 + i - 1]
  BY <1>1, SubSeqProperties
<1>3. Len(SubSeq(s, m + 1, n)) = IF m < n THEN n - m ELSE 0
  BY <1>2
<1>4. ASSUME NEW i \in 1..Len(SubSeq(s, m + 1, n)) PROVE SubSeq(s, m + 1, n)[i] = s[m + i]
  <2>1. i \in 1..n - (m + 1) + 1 /\ m + 1 + i - 1 = m + i
    BY <1>3
  <2> QED BY <1>2, <2>1
<1> QED BY <1>2, <1>3, <1>4

\* A function on the first n numbers is a sequence.
LEMMA FunctionSeq ==
  ASSUME NEW S, NEW n \in Nat, NEW f \in [1..n -> S]
  PROVE  f \in Seq(S) /\ Len(f) = n
<1>1. f \in Seq(S)
  BY SeqDef
<1>2. Len(f) \in Nat /\ 1..Len(f) = 1..n
  BY <1>1
<1> QED BY <1>1, <1>2

\* A sequence with one element more.
LEMMA AppendFacts ==
  ASSUME NEW S, NEW s \in Seq(S), NEW x
  PROVE  /\ Len(Append(s, x)) = Len(s) + 1 /\ Append(s, x) # <<>>
         /\ Append(s, x)[Len(s) + 1] = x
         /\ \A i \in 1..Len(s) : Append(s, x)[i] = s[i]
<1>1. PICK T : T = S \cup {x}
  OBVIOUS
<1>2. s \in Seq(T) /\ x \in T
  BY <1>1, SeqMonotonic
<1> QED BY <1>2

\* A prefix, element by element.
LEMMA PrefixPointwise ==
  ASSUME NEW S, NEW s \in Seq(S), NEW t \in Seq(S), Len(s) <= Len(t),
         \A i \in 1..Len(s) : s[i] = t[i]
  PROVE  IsPrefix(s, t)
<1>1. PICK n \in Nat : n = Len(s) /\ n <= Len(t)
  OBVIOUS
<1>2. /\ SubSeq(t, 0 + 1, n) \in Seq(S)
      /\ Len(SubSeq(t, 0 + 1, n)) = IF 0 < n THEN n - 0 ELSE 0
      /\ \A i \in 1..Len(SubSeq(t, 0 + 1, n)) : SubSeq(t, 0 + 1, n)[i] = t[0 + i]
  BY <1>1, Piece
<1>3. PICK u : u = SubSeq(t, 1, n)
  OBVIOUS
<1>4. u \in Seq(S) /\ Len(u) = n /\ \A i \in 1..n : u[i] = s[i]
  BY <1>1, <1>2, <1>3
<1>5. u = s
  BY <1>1, <1>4, SeqEqual
<1>6. SubSeq(s, 1, n) = s
  BY <1>1, SubSeqFull
<1> QED BY <1>1, <1>3, <1>5, <1>6 DEF IsPrefix

\* Two sequences joined, element by element.
LEMMA JoinPointwise ==
  ASSUME NEW S, NEW v, NEW u, NEW w, v \in Seq(S), u \in Seq(S), w \in Seq(S),
         Len(w) = Len(v) + Len(u), \A i \in 1..Len(v) : w[i] = v[i],
         \A i \in 1..Len(u) : w[Len(v) + i] = u[i]
  PROVE  v \o u = w
<1>1. PICK m \in Nat, n \in Nat : m = Len(v) /\ n = Len(u)
  <2>1. Len(v) \in Nat /\ Len(u) \in Nat
    BY LenProperties
  <2> QED BY ONLY <2>1, Zenon
<1>2. /\ v \o u \in Seq(S) /\ Len(v \o u) = m + n
      /\ \A i \in 1..m + n : (v \o u)[i] = IF i <= m THEN v[i] ELSE u[i - m]
  BY <1>1, ConcatProperties
<1>3. ASSUME NEW i \in 1..m + n PROVE (v \o u)[i] = w[i]
  <2>1. CASE i <= m
    BY <1>1, <1>2, <2>1
  <2>2. CASE ~(i <= m)
    <3>1. i - m \in 1..n /\ m + (i - m) = i
      BY <2>2
    <3>2. w[m + (i - m)] = u[i - m]
      BY <1>1, <3>1
    <3> QED BY <1>2, <2>2, <3>1, <3>2
  <2> QED BY <2>1, <2>2
<1>4. PICK x : x = v \o u
  OBVIOUS
<1> QED BY <1>1, <1>2, <1>3, <1>4, SeqEqual

\* A common beginning.
LEMMA PrefixJoin ==
  ASSUME NEW S, NEW s, NEW v, NEW w, s \in Seq(S), v \in Seq(S), w \in Seq(S),
         Len(v) <= Len(w), \A i \in 1..Len(v) : v[i] = w[i]
  PROVE  IsPrefix(s \o v, s \o w)
<1>1. PICK m, n, k \in Nat : m = Len(s) /\ n = Len(v) /\ k = Len(w)
  OBVIOUS
<1>2. PICK p, q : p = s \o v /\ q = s \o w
  OBVIOUS
<1>3. /\ p \in Seq(S) /\ Len(p) = m + n
      /\ \A i \in 1..m + n : p[i] = IF i <= m THEN s[i] ELSE v[i - m]
  BY <1>1, <1>2, ConcatProperties
<1>4. /\ q \in Seq(S) /\ Len(q) = m + k
      /\ \A i \in 1..m + k : q[i] = IF i <= m THEN s[i] ELSE w[i - m]
  BY <1>1, <1>2, ConcatProperties
<1>5. n <= k
  BY <1>1
<1>6. ASSUME NEW i \in 1..m + n PROVE p[i] = q[i]
  <2>1. i \in 1..m + k
    BY <1>5
  <2>2. CASE i <= m
    BY <1>3, <1>4, <2>1, <2>2
  <2>3. CASE ~(i <= m)
    <3>1. i - m \in 1..n
      BY <2>3
    <3>2. v[i - m] = w[i - m]
      BY <1>1, <3>1
    <3> QED BY <1>3, <1>4, <2>1, <2>3, <3>2
  <2> QED BY <2>2, <2>3
<1>7. Len(p) <= Len(q) /\ \A i \in 1..Len(p) : p[i] = q[i]
  BY <1>3, <1>4, <1>5, <1>6
<1>8. IsPrefix(p, q)
  BY <1>3, <1>4, <1>7, PrefixPointwise
<1> QED BY <1>2, <1>8

\* The lesser of two numbers.
LEMMA MinTwo ==
  ASSUME NEW a \in Nat, NEW b \in Nat
  PROVE  /\ Min({a, b}) \in Nat /\ Min({a, b}) \in {a, b}
         /\ Min({a, b}) <= a /\ Min({a, b}) <= b
<1>1. \E x \in {a, b} : \A y \in {a, b} : x <= y
  OBVIOUS
<1> QED BY <1>1 DEF Min

\* The least of a set of numbers.
LEMMA MinLeast ==
  ASSUME NEW T, T \subseteq Nat, T # {}
  PROVE  Min(T) \in T /\ \A y \in T : Min(T) <= y
<1>1. \E x \in T : \A y \in T : x <= y
  BY LeastNumber
<1> QED BY <1>1 DEF Min

\* What recv() returns, and what is left.
LEMMA ReceivedFacts ==
  ASSUME TypeOK, wire # <<>>
  PROVE  \E m \in 1..Len(wire) :
            /\ Len(Received) = m /\ \A i \in 1..m : Received[i] = wire[i]
            /\ Received \in Seq(Sendable)
            /\ SubSeq(wire, Len(Received) + 1, Len(wire)) \in Seq(Sendable)
            /\ Len(SubSeq(wire, Len(Received) + 1, Len(wire))) = Len(wire) - m
            /\ \A i \in 1..(Len(wire) - m) :
                  SubSeq(wire, Len(Received) + 1, Len(wire))[i] = wire[m + i]
            /\ NextBuffer \in Seq(Sendable)
            /\ Len(NextBuffer) = Len(requestBuffer) + m
            /\ \A i \in 1..Len(requestBuffer) : NextBuffer[i] = requestBuffer[i]
            /\ \A i \in 1..m : NextBuffer[Len(requestBuffer) + i] = wire[i]
<1>1. wire \in Seq(Sendable) /\ requestBuffer \in Seq(Sendable) /\ Len(wire) \in Nat \ {0}
  BY EmptySeq DEF TypeOK
<1>2. PICK m \in Nat : m = Min({BufferSize, Len(wire)})
  BY <1>1, MinTwo, ConversationAssumption
<1>3. m \in 1..Len(wire)
  BY <1>1, <1>2, MinTwo, ConversationAssumption
<1>4. /\ Received \in Seq(Sendable) /\ Len(Received) = m
      /\ \A i \in 1..m : Received[i] = wire[i]
  <2>1. Received = SubSeq(wire, 0 + 1, m)
    BY <1>2 DEF Received
  <2>2. m <= Len(wire)
    BY <1>3
  <2>3. /\ SubSeq(wire, 0 + 1, m) \in Seq(Sendable)
        /\ Len(SubSeq(wire, 0 + 1, m)) = IF 0 < m THEN m - 0 ELSE 0
        /\ \A i \in 1..Len(SubSeq(wire, 0 + 1, m)) : SubSeq(wire, 0 + 1, m)[i] = wire[0 + i]
    BY <1>1, <2>2, Piece
  <2> QED BY <1>3, <2>1, <2>3
<1>5. /\ SubSeq(wire, m + 1, Len(wire)) \in Seq(Sendable)
      /\ Len(SubSeq(wire, m + 1, Len(wire))) = Len(wire) - m
      /\ \A i \in 1..(Len(wire) - m) : SubSeq(wire, m + 1, Len(wire))[i] = wire[m + i]
  <2>1. Len(wire) \in Nat /\ Len(wire) <= Len(wire)
    BY <1>1
  <2>2. /\ SubSeq(wire, m + 1, Len(wire)) \in Seq(Sendable)
        /\ Len(SubSeq(wire, m + 1, Len(wire))) = IF m < Len(wire) THEN Len(wire) - m ELSE 0
        /\ \A i \in 1..Len(SubSeq(wire, m + 1, Len(wire))) :
              SubSeq(wire, m + 1, Len(wire))[i] = wire[m + i]
    BY <1>1, <2>1, Piece
  <2>3. Len(SubSeq(wire, m + 1, Len(wire))) = Len(wire) - m
    BY <1>1, <1>3, <2>2
  <2> QED BY <2>2, <2>3
<1>6. /\ NextBuffer \in Seq(Sendable)
      /\ Len(NextBuffer) = Len(requestBuffer) + m
      /\ \A i \in 1..Len(requestBuffer) + m :
            NextBuffer[i] = IF i <= Len(requestBuffer) THEN requestBuffer[i]
                                                       ELSE Received[i - Len(requestBuffer)]
  BY <1>1, <1>4, ConcatProperties DEF NextBuffer
<1>7. Len(requestBuffer) \in Nat
  BY <1>1, LenProperties
<1>8. ASSUME NEW i \in 1..Len(requestBuffer) PROVE NextBuffer[i] = requestBuffer[i]
  BY <1>3, <1>6, <1>7
<1>9. ASSUME NEW i \in 1..m PROVE NextBuffer[Len(requestBuffer) + i] = wire[i]
  <2>1. PICK k \in Nat : k = Len(requestBuffer)
    BY <1>7
  <2>2. k + i \in 1..k + m /\ ~(k + i <= k) /\ k + i - k = i
    BY <1>3
  <2> QED BY <1>4, <1>6, <2>1, <2>2
<1> QED BY <1>3, <1>4, <1>5, <1>6, <1>8, <1>9
-----------------------------------------------------------------------------
(* Types *)

\* What send_response does to them.
LEMMA SendResponseTypes ==
  ASSUME TypeOK, SendResponse
  PROVE  /\ phase' = "write" /\ closeConnection' = TRUE /\ headerBytesSent' \in 0..HeadSize
         /\ content' \in Contents /\ content'.offset <= content'.length
         /\ replies' \in Seq([announces : {"close", "keep-alive", "nothing"}, length : Nat,
                               headers : {"none", "other", "close", "keep-alive", "error"}])
BY DEF SendResponse, TypeOK, NoContent, Contents

\* Content-Length is a number.
LEMMA LengthTypes == \A r \in Requests : r.length \in Nat
BY ConversationAssumption DEF Requests

\* The lengths of requests are numbers.
LEMMA AskedTypes == ASSUME TypeOK PROVE \A k \in DOMAIN asked : asked[k].length \in Nat
<1>1. asked \in Seq(Requests)
  BY DEF TypeOK
<1>2. \A k \in DOMAIN asked : asked[k] \in Requests
  BY <1>1
<1> QED BY <1>2, LengthTypes

\* The client.
LEMMA AskTypes == ASSUME TypeOK, NEW r \in Requests, Ask(r) PROVE TypeOK'
<1>1. asked \in Seq(Requests) /\ asked' = Append(asked, r)
  BY DEF TypeOK, Ask
<1>2. PICK n \in Nat : n = Len(asked)
  BY <1>1
<1>3. asked' \in Seq(Requests) /\ Len(asked') = n + 1
  BY <1>1, <1>2
<1>4. DOMAIN asked = 1..n /\ DOMAIN asked' = 1..(n + 1)
  BY <1>1, <1>2, <1>3, LenProperties
<1>5. Sendable \subseteq Sendable' /\ DOMAIN asked \subseteq DOMAIN asked'
  BY <1>4 DEF Sendable
<1>6. toSend' \in Seq(Sendable')
  <2>1. PICK S : S = Sendable'
    OBVIOUS
  <2>2. \A i \in Nat : <<n + 1, "head", i>> \in S /\ <<n + 1, "body", i>> \in S
    BY <1>4, <2>1 DEF Sendable
  <2>3. HeadSize \in Nat /\ r.length \in Nat
    BY LengthTypes, ConversationAssumption
  <2>4. HeadOf(n + 1) \in Seq(S)
    <3>1. HeadOf(n + 1) \in [1..HeadSize -> S]
      <4>1. ASSUME NEW i \in 1..HeadSize PROVE <<n + 1, "head", i>> \in S
        <5>1. i \in Nat
          BY <2>3
        <5> QED BY <2>2, <5>1
      <4> QED BY <4>1 DEF HeadOf
    <3> QED BY <2>3, <3>1, FunctionSeq
  <2>5. [i \in 1..r.length |-> <<n + 1, "body", i>>] \in Seq(S)
    <3>1. [i \in 1..r.length |-> <<n + 1, "body", i>>] \in [1..r.length -> S]
      <4>1. ASSUME NEW i \in 1..r.length PROVE <<n + 1, "body", i>> \in S
        <5>1. i \in Nat
          BY <2>3
        <5> QED BY <2>2, <5>1
      <4> QED BY <4>1
    <3> QED BY <2>3, <3>1, FunctionSeq
  <2>6. toSend' = HeadOf(n + 1) \o [i \in 1..r.length |-> <<n + 1, "body", i>>]
    BY <1>3 DEF Ask
  <2> QED BY <2>1, <2>4, <2>5, <2>6, ConcatProperties
<1>7. /\ wire' \in Seq(Sendable') /\ requestBuffer' \in Seq(Sendable')
      /\ initial' \in Seq(Sendable')
  BY <1>5, SeqMonotonic DEF Ask, inVars, TypeOK
<1>8. seen' \in Seq([msg : DOMAIN asked', exact : BOOLEAN, body : Seq(Sendable')])
  <2>1. Seq(Sendable) \subseteq Seq(Sendable')
    BY <1>5, SeqMonotonic
  <2>2. PICK X, Y : /\ X = [msg : DOMAIN asked, exact : BOOLEAN, body : Seq(Sendable)]
                    /\ Y = [msg : DOMAIN asked', exact : BOOLEAN, body : Seq(Sendable')]
    OBVIOUS
  <2>3. X \subseteq Y
    BY <1>5, <2>1, <2>2
  <2>4. seen \in Seq(X) /\ seen' = seen
    BY <2>2 DEF TypeOK, Ask, inVars
  <2>5. seen \in Seq(Y)
    BY <2>3, <2>4, SeqMonotonic
  <2> QED BY <2>2, <2>4, <2>5
<1> QED BY <1>3, <1>6, <1>7, <1>8 DEF Ask, inVars, outVars, TypeOK

LEMMA DeliverTypes == ASSUME TypeOK, NEW n \in 1..Len(toSend), Deliver(n) PROVE TypeOK'
<1> USE DEF TypeOK
<1>1. Sendable' = Sendable /\ asked' = asked
  BY DEF Sendable, Deliver
<1>2. n \in Nat /\ Len(toSend) \in Nat /\ n <= Len(toSend)
  BY LenProperties
<1>3. SubSeq(toSend, 0 + 1, n) \in Seq(Sendable)
  BY <1>2, Piece
<1>4. SubSeq(toSend, n + 1, Len(toSend)) \in Seq(Sendable)
  BY <1>2, Piece
<1>5. wire' \in Seq(Sendable) /\ toSend' \in Seq(Sendable)
  <2>1. /\ wire' = wire \o SubSeq(toSend, 1, n)
        /\ toSend' = SubSeq(toSend, n + 1, Len(toSend))
    BY DEF Deliver
  <2>2. wire \in Seq(Sendable) /\ SubSeq(toSend, 1, n) \in Seq(Sendable)
    BY <1>3
  <2>3. wire \o SubSeq(toSend, 1, n) \in Seq(Sendable)
    BY ONLY <2>2, ConcatProperties
  <2> QED BY ONLY <1>4, <2>1, <2>3
<1> QED BY <1>1, <1>5 DEF Deliver, outVars

\* The worker.
LEMMA OnReadTypes == ASSUME TypeOK, OnRead PROVE TypeOK'
<1>1. Sendable' = Sendable /\ asked' = asked /\ wire # <<>> /\ phase = "read"
  BY DEF Sendable, OnRead, ReadTooMuch, ReadPart, ReadHead, Read, clientVars
<1>2. wire' \in Seq(Sendable) /\ NextBuffer \in Seq(Sendable)
  BY <1>1, ReceivedFacts DEF OnRead, ReadTooMuch, ReadPart, ReadHead, Read
<1>3. CASE ReadTooMuch
  BY <1>1, <1>2, <1>3, SendResponseTypes DEF ReadTooMuch, TypeOK, clientVars
<1>4. CASE ReadPart
  BY <1>1, <1>2, <1>4 DEF ReadPart, TypeOK, clientVars, outVars
<1>5. CASE ReadHead
  <2>1. CASE SendResponse /\ UNCHANGED <<seen, bodyLeft, initial>>
    BY <1>1, <1>2, <1>5, <2>1, SendResponseTypes DEF ReadHead, TypeOK, clientVars
  <2>2. CASE ~(SendResponse /\ UNCHANGED <<seen, bodyLeft, initial>>)
    <3> DEFINE m == Min(HeadEnds)
               k == NextBuffer[m][1]
    <3>1. m \in DOMAIN NextBuffer
      <4>1. HeadEnds \subseteq Nat /\ HeadEnds # {}
        <5>1. DOMAIN NextBuffer = 1..Len(NextBuffer) /\ Len(NextBuffer) \in Nat
          BY <1>2, LenProperties
        <5>2. HeadEnds \subseteq DOMAIN NextBuffer
          BY DEF HeadEnds
        <5>3. HeadEnds # {}
          BY <1>5 DEF ReadHead
        <5> QED BY ONLY <5>1, <5>2, <5>3
      <4> QED BY <4>1, MinLeast DEF HeadEnds
    <3>2. NextBuffer[m] \in Sendable
      BY <1>2, <3>1
    <3>3. k \in DOMAIN asked
      BY <3>2 DEF Sendable
    <3>4. asked[k].length \in Nat
      BY <3>3, AskedTypes
    <3>5. SubSeq(NextBuffer, m + 1, Len(NextBuffer)) \in Seq(Sendable)
      <4>1. m \in Nat /\ Len(NextBuffer) \in Nat
        BY <1>2, <3>1
      <4> QED BY <1>2, <4>1, Piece
    <3> HIDE DEF m
    <3>6. /\ seen' = Append(seen, [msg |-> k, exact |-> Exact, body |-> <<>>])
          /\ bodyLeft' = asked[k].length
          /\ initial' = SubSeq(NextBuffer, m + 1, Len(NextBuffer))
          /\ phase' = "handle" /\ UNCHANGED outVars
      BY <1>5, <2>2 DEF ReadHead, m
    <3>7. Exact \in BOOLEAN
      BY DEF Exact
    <3>8. seen' \in Seq([msg : DOMAIN asked, exact : BOOLEAN, body : Seq(Sendable)])
      <4>1. <<>> \in Seq(Sendable)
        OBVIOUS
      <4>2. PICK x : x = Exact
        OBVIOUS
      <4>3. [msg |-> k, exact |-> x, body |-> <<>>]
               \in [msg : DOMAIN asked, exact : BOOLEAN, body : Seq(Sendable)]
        BY <3>3, <3>7, <4>1, <4>2
      <4> QED BY <3>6, <4>2, <4>3 DEF TypeOK
    <3> QED BY <1>1, <1>2, <1>5, <3>4, <3>5, <3>6, <3>8 DEF ReadHead, TypeOK, clientVars, outVars
  <2> QED BY <2>1, <2>2
<1> QED BY <1>3, <1>4, <1>5 DEF OnRead
\* What the handler reads, and what it leaves.
LEMMA SourceFacts ==
  ASSUME TypeOK, NEW n \in Nat, HandlerRead(n)
  PROVE  \E source \in Seq(Sendable) :
            /\ source = IF initial # <<>> THEN initial ELSE wire
            /\ n \in 1..bodyLeft /\ n <= Len(source)
            /\ seen' = [seen EXCEPT ![Len(seen)].body = @ \o SubSeq(source, 1, n)]
            /\ SubSeq(source, 1, n) \in Seq(Sendable) /\ Len(SubSeq(source, 1, n)) = n
            /\ \A i \in 1..n : SubSeq(source, 1, n)[i] = source[i]
            /\ SubSeq(source, n + 1, Len(source)) \in Seq(Sendable)
            /\ Len(SubSeq(source, n + 1, Len(source))) = Len(source) - n
            /\ \A i \in 1..(Len(source) - n) :
                  SubSeq(source, n + 1, Len(source))[i] = source[n + i]
            /\ IF initial # <<>>
                   THEN initial' = SubSeq(source, n + 1, Len(source)) /\ UNCHANGED wire
                   ELSE wire' = SubSeq(source, n + 1, Len(source)) /\ UNCHANGED initial
<1>1. PICK source : source = IF initial # <<>> THEN initial ELSE wire
  OBVIOUS
<1>2. source \in Seq(Sendable) /\ Len(source) \in Nat /\ bodyLeft \in Nat
  BY <1>1 DEF TypeOK
<1>3. /\ n \in 1..Min({bodyLeft, Len(source)})
      /\ seen' = [seen EXCEPT ![Len(seen)].body = @ \o SubSeq(source, 1, n)]
      /\ IF initial # <<>>
            THEN initial' = SubSeq(source, n + 1, Len(source)) /\ UNCHANGED wire
            ELSE wire' = SubSeq(source, n + 1, Len(source)) /\ UNCHANGED initial
  BY <1>1 DEF HandlerRead
<1>4. n \in 1..bodyLeft /\ n <= Len(source) /\ 0 < n
  <2>1. PICK m : m = Min({bodyLeft, Len(source)})
    OBVIOUS
  <2>2. m \in Nat /\ m <= bodyLeft /\ m <= Len(source)
    BY <1>2, <2>1, MinTwo
  <2> QED BY <1>2, <1>3, <2>1, <2>2
<1>5. /\ SubSeq(source, 0 + 1, n) \in Seq(Sendable)
      /\ Len(SubSeq(source, 0 + 1, n)) = IF 0 < n THEN n - 0 ELSE 0
      /\ \A i \in 1..Len(SubSeq(source, 0 + 1, n)) : SubSeq(source, 0 + 1, n)[i] = source[0 + i]
  BY <1>2, <1>4, Piece
<1>6. /\ SubSeq(source, 1, n) \in Seq(Sendable) /\ Len(SubSeq(source, 1, n)) = n
      /\ \A i \in 1..n : SubSeq(source, 1, n)[i] = source[i]
  BY <1>4, <1>5
<1>7. /\ SubSeq(source, n + 1, Len(source)) \in Seq(Sendable)
      /\ Len(SubSeq(source, n + 1, Len(source))) = IF n < Len(source) THEN Len(source) - n ELSE 0
      /\ \A i \in 1..Len(SubSeq(source, n + 1, Len(source))) :
            SubSeq(source, n + 1, Len(source))[i] = source[n + i]
  BY <1>2, <1>4, Piece
<1>8. Len(SubSeq(source, n + 1, Len(source))) = Len(source) - n
  BY <1>2, <1>4, <1>7
<1> QED BY <1>1, <1>2, <1>3, <1>4, <1>6, <1>7, <1>8

\* The handler.
LEMMA HandlerReadTypes ==
  ASSUME TypeOK, seen # <<>>, NEW n \in Nat, HandlerRead(n) PROVE TypeOK'
<1>1. PICK source \in Seq(Sendable) :
            /\ n \in 1..bodyLeft
            /\ seen' = [seen EXCEPT ![Len(seen)].body = @ \o SubSeq(source, 1, n)]
            /\ SubSeq(source, 1, n) \in Seq(Sendable)
            /\ wire' \in Seq(Sendable) /\ initial' \in Seq(Sendable)
  <2>1. wire \in Seq(Sendable) /\ initial \in Seq(Sendable)
    BY DEF TypeOK
  <2>2. PICK source \in Seq(Sendable) :
            /\ n \in 1..bodyLeft
            /\ seen' = [seen EXCEPT ![Len(seen)].body = @ \o SubSeq(source, 1, n)]
            /\ SubSeq(source, 1, n) \in Seq(Sendable)
            /\ SubSeq(source, n + 1, Len(source)) \in Seq(Sendable)
            /\ IF initial # <<>>
               THEN initial' = SubSeq(source, n + 1, Len(source)) /\ wire' = wire
               ELSE wire' = SubSeq(source, n + 1, Len(source)) /\ initial' = initial
    BY SourceFacts
  <2>3. wire' \in Seq(Sendable) /\ initial' \in Seq(Sendable)
    BY ONLY <2>1, <2>2
  <2> QED BY <2>2, <2>3
<1>2. Sendable' = Sendable /\ asked' = asked
  BY DEF Sendable, HandlerRead, clientVars
<1>3. bodyLeft' \in Nat
  <2>1. bodyLeft' = bodyLeft - n /\ bodyLeft \in Nat
    BY DEF TypeOK, HandlerRead
  <2> QED BY <1>1, <2>1
<1>4. seen' \in Seq([msg : DOMAIN asked, exact : BOOLEAN, body : Seq(Sendable)])
  <2>1. PICK T, Z : /\ T = [msg : DOMAIN asked, exact : BOOLEAN, body : Seq(Sendable)]
                    /\ Z = Seq(Sendable)
    OBVIOUS
  <2>2. seen \in Seq(T) /\ Len(seen) \in 1..Len(seen)
    BY <2>1, EmptySeq DEF TypeOK
  <2>3. seen[Len(seen)] \in T
    BY <2>2
  <2> DEFINE e == [seen[Len(seen)] EXCEPT !.body = @ \o SubSeq(source, 1, n)]
  <2>4. seen[Len(seen)].body \o SubSeq(source, 1, n) \in Z
    <3>1. seen[Len(seen)].body \in Seq(Sendable)
      BY <2>1, <2>3
    <3> QED BY <1>1, <2>1, <3>1, ConcatProperties
  <2>5. e \in T
    BY <2>1, <2>3, <2>4
  <2>6. seen' = [seen EXCEPT ![Len(seen)] = e]
    BY <1>1
  <2> HIDE DEF e
  <2> QED BY <2>1, <2>2, <2>5, <2>6, ExceptSeq
<1> QED BY <1>1, <1>2, <1>3, <1>4 DEF HandlerRead, TypeOK, clientVars, outVars

\* What the end of a handler leaves alone.
LEMMA HandlerReturnsTypes ==
  ASSUME TypeOK, HandlerReturns
  PROVE  /\ asked' = asked /\ Sendable' = Sendable /\ UNCHANGED <<toSend, wire, requestBuffer, seen>>
         /\ initial' = <<>> /\ bodyLeft' = 0 /\ aligned' \in BOOLEAN
         /\ UNCHANGED <<requestCount, got>>
BY DEF HandlerReturns, Sendable, TypeOK, clientVars

LEMMA HandlerFailsTypes == ASSUME TypeOK, HandlerFails PROVE TypeOK'
<1>1. HandlerReturns /\ SendResponse
  BY DEF HandlerFails
<1>2. initial' \in Seq(Sendable)
  BY <1>1, HandlerReturnsTypes
<1>3. /\ phase' = "write" /\ closeConnection' = TRUE /\ headerBytesSent' \in 0..HeadSize
      /\ content' \in Contents /\ content'.offset <= content'.length
      /\ replies' \in Seq([announces : {"close", "keep-alive", "nothing"}, length : Nat,
                            headers : {"none", "other", "close", "keep-alive", "error"}])
  BY <1>1, SendResponseTypes
<1>4. /\ asked' = asked /\ Sendable' = Sendable /\ UNCHANGED <<toSend, wire, requestBuffer, seen>>
      /\ initial' = <<>> /\ bodyLeft' = 0 /\ aligned' \in BOOLEAN
      /\ UNCHANGED <<requestCount, got>>
  BY <1>1, HandlerReturnsTypes
<1> QED BY <1>2, <1>3, <1>4 DEF TypeOK

\* What a response announces.
LEMMA AnnouncesTypes ==
  ASSUME NEW wants, NEW response \in Responses
  PROVE  /\ Announces(wants, response) \in {"close", "keep-alive", "nothing"}
         /\ KeepAlive(wants, response) \in BOOLEAN
         /\ ~KeepAlive(wants, response) =>
               wants \in {"close", "1.0"} \/ requestCount = MaxRequests
         /\ KeepAlive(wants, response) => Announces(wants, response) # "close"
BY DEF Announces, KeepAlive, HasConnection, MustClose, Responses

LEMMA RespondTypes ==
  ASSUME TypeOK, NEW response \in Responses, Respond(response) PROVE TypeOK'
<1>1. HandlerReturns
  BY DEF Respond
<1>2. /\ response.length \in Nat /\ response.headers \in {"none", "other", "close", "keep-alive"}
      /\ response.stream \in {"memory", "file"}
  BY ConversationAssumption DEF Responses
<1>3. PICK wants, a, k : /\ wants = asked[Last(seen).msg].wants
                         /\ a = Announces(wants, response) /\ k = KeepAlive(wants, response)
  OBVIOUS
<1>4. a \in {"close", "keep-alive", "nothing"} /\ k \in BOOLEAN
  BY <1>3, AnnouncesTypes
<1>5. /\ closeConnection' = ~k
      /\ replies' = Append(replies, [announces |-> a, length |-> response.length,
                                     headers |-> response.headers])
      /\ content' = [length |-> response.length, offset |-> 0, stream |-> response.stream]
      /\ phase' = "write" /\ UNCHANGED headerBytesSent
  BY <1>3 DEF Respond
<1>6. replies' \in Seq([announces : {"close", "keep-alive", "nothing"}, length : Nat,
                        headers : {"none", "other", "close", "keep-alive", "error"}])
  BY <1>2, <1>4, <1>5 DEF TypeOK
<1>7. content' \in Contents /\ content'.offset <= content'.length
  BY <1>2, <1>5 DEF Contents
<1>8. initial' \in Seq(Sendable)
  BY <1>1, HandlerReturnsTypes
<1>9. phase' = "write" /\ closeConnection' \in BOOLEAN /\ UNCHANGED headerBytesSent
  BY <1>4, <1>5
<1>10. /\ asked' = asked /\ Sendable' = Sendable /\ UNCHANGED <<toSend, wire, requestBuffer, seen>>
       /\ bodyLeft' = 0 /\ aligned' \in BOOLEAN /\ UNCHANGED <<requestCount, got>>
  BY <1>1, HandlerReturnsTypes
<1> QED BY <1>6, <1>7, <1>8, <1>9, <1>10 DEF TypeOK

\* Some units of the response.
LEMMA UnitsFacts ==
  ASSUME TypeOK, NEW part \in {"head", "content"}, NEW first \in Nat, NEW n \in Nat
  PROVE  /\ Units(part, first + 1, first + n) \in Seq(Receivable)
         /\ Len(Units(part, first + 1, first + n)) = n
         /\ \A i \in 1..n : Units(part, first + 1, first + n)[i] = <<Len(replies), part, first + i>>
<1>1. first + n + 1 - (first + 1) = n /\ \A i \in 1..n : first + 1 + i - 1 = first + i
  OBVIOUS
<1>2. PICK k \in Nat : k = Len(replies)
  BY DEF TypeOK
<1>3. Units(part, first + 1, first + n) = [i \in 1..n |-> <<k, part, first + i>>]
  BY <1>1, <1>2 DEF Units
<1>4. [i \in 1..n |-> <<k, part, first + i>>] \in [1..n -> Receivable]
  <2>1. ASSUME NEW i \in 1..n PROVE <<k, part, first + i>> \in Receivable
    <3>1. first + i \in Nat
      OBVIOUS
    <3> QED BY <3>1 DEF Receivable
  <2> QED BY <2>1
<1>5. /\ Units(part, first + 1, first + n) \in Seq(Receivable)
      /\ Len(Units(part, first + 1, first + n)) = n
  BY <1>3, <1>4, FunctionSeq
<1> QED BY <1>2, <1>3, <1>5

\* The response.
LEMMA WriteHeaderTypes ==
  ASSUME TypeOK, NEW n \in Nat, WriteHeader(n) PROVE TypeOK'
<1>1. headerBytesSent \in Nat /\ headerBytesSent + n \in 0..HeadSize
  BY ConversationAssumption DEF TypeOK, WriteHeader
<1>2. Units("head", headerBytesSent + 1, headerBytesSent + n) \in Seq(Receivable)
  BY <1>1, UnitsFacts
<1>3. got' \in Seq(Receivable)
  BY <1>2, ConcatProperties DEF TypeOK, WriteHeader
<1>4. Sendable' = Sendable /\ asked' = asked
  BY DEF Sendable, WriteHeader, clientVars
<1> QED BY <1>1, <1>3, <1>4 DEF TypeOK, WriteHeader, clientVars, inVars

\* The socket takes n units of the content, and the content goes on behind them.
LEMMA WriteContentFacts ==
  ASSUME TypeOK, NEW n \in Nat, WriteContent(n)
  PROVE  /\ content.offset \in Nat /\ content.length \in Nat
         /\ content.offset + n <= content.length
         /\ content' \in Contents /\ content'.stream = content.stream
         /\ content'.length = content.length /\ content'.offset = content.offset + n
         /\ phase' \in {"write", "terminated"}
         /\ phase' = "terminated" =>
               /\ content'.stream = "file"
               /\ content'.length - content'.offset \in 1..(BufferSize - 1)
<1>1. /\ content \in Contents /\ content.offset <= content.length
      /\ BufferSize \in Nat
  BY ConversationAssumption DEF TypeOK
<1>2. PICK len, off \in Nat : len = content.length /\ off = content.offset /\ off <= len
  BY <1>1 DEF Contents
<1>3. PICK chunk : chunk = Min({BufferSize, len - off})
  OBVIOUS
<1>4. chunk \in Nat /\ chunk <= len - off /\ chunk \in {BufferSize, len - off}
  <2>1. len - off \in Nat
    BY <1>1, <1>2
  <2> QED BY <1>1, <1>3, <2>1, MinTwo
<1>5. Chunk = chunk
  BY <1>2, <1>3 DEF Chunk
<1>6. n \in 0..chunk /\ content' = [content EXCEPT !.offset = @ + n]
  BY <1>5 DEF WriteContent
<1>7. /\ content' \in Contents /\ content'.stream = content.stream
      /\ content'.length = len /\ content'.offset = off + n
  BY <1>1, <1>2, <1>6 DEF Contents
<1>8. off + n <= len
  BY <1>2, <1>4, <1>6
<1>9. phase' = IF n < chunk /\ SeekThrows THEN "terminated" ELSE "write"
  BY <1>5 DEF WriteContent
<1>10. ASSUME phase' = "terminated"
       PROVE  content.stream = "file" /\ len - (off + n) \in 1..(BufferSize - 1)
  <2>1. n < chunk /\ content.stream = "file" /\ chunk < BufferSize
    BY <1>5, <1>9, <1>10 DEF SeekThrows
  <2> QED BY <1>1, <1>2, <1>4, <1>6, <2>1
<1> QED BY <1>2, <1>7, <1>8, <1>9, <1>10

LEMMA WriteContentTypes ==
  ASSUME TypeOK, NEW n \in Nat, WriteContent(n) PROVE TypeOK'
<1>1. /\ content.offset \in Nat /\ content.length \in Nat
      /\ content' \in Contents /\ content'.offset <= content'.length
      /\ phase' \in {"read", "handle", "write", "closed", "terminated"}
  BY WriteContentFacts
<1>2. Units("content", content.offset + 1, content.offset + n) \in Seq(Receivable)
  BY <1>1, UnitsFacts
<1>3. got' \in Seq(Receivable)
  BY <1>2, ConcatProperties DEF TypeOK, WriteContent
<1>4. Sendable' = Sendable /\ asked' = asked
  BY DEF Sendable, WriteContent, clientVars
<1>5. UNCHANGED <<clientVars, inVars, closeConnection, headerBytesSent, replies,
                  requestCount, aligned>>
  BY DEF WriteContent
<1> QED BY <1>1, <1>3, <1>4, <1>5 DEF TypeOK, clientVars, inVars

\* What the end of a response does.
LEMMA FinishFacts ==
  ASSUME TypeOK, Finish
  PROVE  /\ phase = "write" /\ headerBytesSent = HeadSize /\ content.offset = content.length
         /\ requestCount' = requestCount + 1
         /\ UNCHANGED <<asked, toSend, wire, initial, bodyLeft, seen, replies, got, aligned>>
         /\ \/ /\ closeConnection \/ requestCount + 1 >= MaxRequests
               /\ phase' = "closed" /\ closeConnection' = TRUE
               /\ UNCHANGED <<requestBuffer, headerBytesSent, content>>
            \/ /\ ~closeConnection /\ requestCount + 1 < MaxRequests
               /\ phase' = "read" /\ requestBuffer' = <<>> /\ headerBytesSent' = 0
               /\ content' = NoContent /\ closeConnection' = FALSE
BY DEF Finish, TypeOK, clientVars

LEMMA FinishTypes == ASSUME TypeOK, Finish PROVE TypeOK'
<1>1. Sendable' = Sendable
  BY DEF Sendable, Finish, clientVars
<1>2. <<>> \in Seq(Sendable) /\ 0 \in 0..HeadSize
  BY ConversationAssumption
<1>3. /\ requestCount' \in Nat /\ phase' \in {"read", "handle", "write", "closed", "terminated"}
      /\ requestBuffer' \in Seq(Sendable) /\ headerBytesSent' \in 0..HeadSize
      /\ closeConnection' \in BOOLEAN
      /\ content' \in Contents /\ content'.offset <= content'.length
  <2>1. /\ requestCount' = requestCount + 1
        /\ \/ /\ phase' = "closed" /\ closeConnection' = TRUE
              /\ UNCHANGED <<requestBuffer, headerBytesSent, content>>
           \/ /\ phase' = "read" /\ requestBuffer' = <<>> /\ headerBytesSent' = 0
              /\ content' = NoContent /\ closeConnection' = FALSE
    BY FinishFacts
  <2>2. /\ requestCount \in Nat /\ requestBuffer \in Seq(Sendable) /\ headerBytesSent \in 0..HeadSize
        /\ content \in Contents /\ content.offset <= content.length
    BY DEF TypeOK
  <2>3. CASE phase' = "closed"
    BY <2>1, <2>2, <2>3
  <2>4. CASE phase' # "closed"
    <3>1. /\ requestBuffer' = <<>> /\ headerBytesSent' = 0 /\ phase' = "read"
          /\ content' = NoContent /\ closeConnection' = FALSE
      BY <2>1, <2>4
    <3>2. requestCount' \in Nat
      BY <2>1, <2>2
    <3>3. NoContent \in Contents /\ NoContent.offset <= NoContent.length
      BY DEF NoContent, Contents
    <3>4. content' \in Contents /\ content'.offset <= content'.length
      BY ONLY <3>1, <3>3
    <3> QED BY <1>2, <3>1, <3>2, <3>4
  <2> QED BY <2>3, <2>4
<1>4. UNCHANGED <<asked, toSend, wire, initial, bodyLeft, seen, replies, got, aligned>>
  BY FinishFacts
<1> QED BY <1>1, <1>3, <1>4 DEF TypeOK

LEMMA InitTypes == Init => TypeOK
<1> SUFFICES ASSUME Init PROVE TypeOK
  OBVIOUS
<1>1. /\ asked \in Seq(Requests) /\ toSend \in Seq(Sendable) /\ wire \in Seq(Sendable)
      /\ requestBuffer \in Seq(Sendable) /\ initial \in Seq(Sendable) /\ got \in Seq(Receivable)
  BY EmptySeq DEF Init
<1>2. seen \in Seq([msg : DOMAIN asked, exact : BOOLEAN, body : Seq(Sendable)])
  BY EmptySeq DEF Init
<1>3. replies \in Seq([announces : {"close", "keep-alive", "nothing"}, length : Nat,
                       headers : {"none", "other", "close", "keep-alive", "error"}])
  BY EmptySeq DEF Init
<1>4. headerBytesSent \in 0..HeadSize
  BY ConversationAssumption DEF Init
<1>5. content \in Contents /\ content.offset <= content.length
  BY DEF Init, NoContent, Contents
<1> QED BY <1>1, <1>2, <1>3, <1>4, <1>5 DEF Init, TypeOK

LEMMA NextTypes == ASSUME TypeOK, Lasting, [Next]_vars PROVE TypeOK'
<1>1. CASE Client
  BY <1>1, AskTypes, DeliverTypes DEF Client
<1>2. CASE OnRead
  BY <1>2, OnReadTypes
<1>3. CASE Handler
  <2>1. ASSUME NEW n \in 1..bodyLeft, HandlerRead(n) PROVE TypeOK'
    <3>1. n \in Nat
      BY DEF TypeOK
    <3>2. seen # <<>>
      BY <2>1 DEF HandlerRead, Lasting
    <3> QED BY <2>1, <3>1, <3>2, HandlerReadTypes
  <2> QED BY <1>3, <2>1, HandlerFailsTypes, RespondTypes DEF Handler
<1>4. CASE OnWrite
  <2>1. ASSUME NEW n \in 1..HeadSize, WriteHeader(n) PROVE TypeOK'
    <3>1. n \in Nat
      BY ConversationAssumption
    <3> QED BY <2>1, <3>1, WriteHeaderTypes
  <2>2. ASSUME NEW n \in 0..BufferSize, WriteContent(n) PROVE TypeOK'
    <3>1. n \in Nat
      BY ConversationAssumption
    <3> QED BY <2>2, <3>1, WriteContentTypes
  <2> QED BY <1>4, <2>1, <2>2, FinishTypes DEF OnWrite
<1>5. CASE UNCHANGED vars
  <2>1. Sendable' = Sendable
    BY <1>5 DEF Sendable, vars, clientVars
  <2> QED BY <1>5, <2>1 DEF TypeOK, vars, clientVars, inVars, outVars
<1> QED BY <1>1, <1>2, <1>3, <1>4, <1>5 DEF Next
-----------------------------------------------------------------------------
(* How long the connection lasts *)

\* A response is made and announces the end only when closeConnection is set,
\* which it is only then or when the client asked for the end.
LEMMA LastingReply ==
  ASSUME TypeOK, Lasting, phase \in {"read", "handle"}, phase' = "write",
         UNCHANGED requestCount, NEW r, replies' = Append(replies, r),
         r.announces = "close" => closeConnection',
         closeConnection' => r.announces = "close" \/ EndAsked'
  PROVE  Lasting'
<1>1. PICK n \in Nat : n = Len(replies)
  BY DEF TypeOK
<1>2. /\ Len(replies') = n + 1 /\ replies' # <<>> /\ replies'[n + 1] = r
      /\ \A j \in 1..n : replies'[j] = replies[j]
  <2>1. PICK T : replies \in Seq(T)
    BY DEF TypeOK
  <2> QED BY <1>1, <2>1, AppendFacts
<1>3. /\ n = requestCount /\ requestCount < MaxRequests
      /\ \A j \in 1..n : replies[j].announces # "close"
  BY <1>1 DEF Lasting, Ongoing
<1>4. Last(replies') = r
  BY <1>2 DEF Last
<1>5. ASSUME NEW j \in 1..(n + 1), replies'[j].announces = "close"
      PROVE  j = n + 1 /\ closeConnection'
  <2>1. j \notin 1..n
    BY <1>2, <1>3, <1>5
  <2>2. j = n + 1
    BY <2>1
  <2> QED BY <1>2, <1>5, <2>2
<1> QED BY <1>2, <1>3, <1>4, <1>5 DEF Lasting, Ongoing

\* A step that changes none of it.
LEMMA LastingIdle ==
  ASSUME Lasting, UNCHANGED <<phase, requestCount, closeConnection, replies>>,
         EndAsked => EndAsked', seen # <<>> => seen' # <<>>
  PROVE  Lasting'
BY DEF Lasting, Ongoing

\* Nor does one that sends a part of the response, or ends the program.
LEMMA LastingSending ==
  ASSUME Lasting, phase = "write", phase' \in {"write", "terminated"},
         UNCHANGED <<requestCount, closeConnection, replies, seen, asked>>
  PROVE  Lasting'
<1>1. EndAsked' <=> EndAsked
  BY DEF EndAsked
<1> QED BY <1>1 DEF Lasting, Ongoing

\* The client has no part in it.
LEMMA LastingClient == ASSUME TypeOK, Lasting, Client PROVE Lasting'
<1>1. UNCHANGED <<phase, requestCount, closeConnection, replies, seen>>
  BY DEF Client, Ask, Deliver, inVars, outVars
<1>2. EndAsked => EndAsked'
  <2> SUFFICES ASSUME EndAsked PROVE EndAsked'
    OBVIOUS
  <2>1. Last(seen).msg \in DOMAIN asked
    <3>1. PICK T : T = [msg : DOMAIN asked, exact : BOOLEAN, body : Seq(Sendable)]
      OBVIOUS
    <3>2. seen \in Seq(T) /\ seen # <<>>
      BY <3>1 DEF TypeOK, EndAsked
    <3>3. Last(seen) \in T
      BY <3>2, EmptySeq DEF Last
    <3> QED BY <3>1, <3>3
  <2>2. \A k \in DOMAIN asked : asked'[k] = asked[k]
    <3>1. asked \in Seq(Requests)
      BY DEF TypeOK
    <3>2. ASSUME NEW r \in Requests, Ask(r) PROVE \A k \in DOMAIN asked : asked'[k] = asked[k]
      BY <3>1, <3>2 DEF Ask
    <3> QED BY <3>2 DEF Client, Deliver
  <2>3. PICK k \in DOMAIN asked : k = Last(seen).msg
    BY <2>1
  <2>4. k = Last(seen').msg
    BY <1>1, <2>3
  <2>5. asked'[k].wants \in {"close", "1.0"} /\ seen' # <<>>
    BY <1>1, <2>2, <2>3 DEF EndAsked
  <2> QED BY <2>4, <2>5 DEF EndAsked
<1> QED BY <1>1, <1>2, LastingIdle

\* A response of the server itself ends the connection.
LEMMA LastingError ==
  ASSUME TypeOK, Lasting, phase \in {"read", "handle"}, SendResponse, UNCHANGED requestCount
  PROVE  Lasting'
<1>1. PICK r : r = [announces |-> "close", length |-> 0, headers |-> "error"]
  OBVIOUS
<1>2. r.announces = "close" /\ closeConnection' /\ phase' = "write" /\ replies' = Append(replies, r)
  BY <1>1 DEF SendResponse
<1> QED BY <1>2, LastingReply

LEMMA LastingOnRead == ASSUME TypeOK, Lasting, OnRead PROVE Lasting'
<1>1. phase = "read" /\ UNCHANGED requestCount /\ UNCHANGED asked
  BY DEF OnRead, ReadTooMuch, ReadPart, ReadHead, Read, clientVars
<1>2. CASE SendResponse
  BY <1>1, <1>2, LastingError
<1>3. CASE ReadPart
  <2>1. UNCHANGED <<phase, requestCount, closeConnection, replies, seen, asked>>
    BY <1>3 DEF ReadPart, outVars, clientVars
  <2> QED BY <2>1, LastingIdle DEF EndAsked
<1>4. CASE ReadHead /\ ~SendResponse
  <2>1. PICK x : seen' = Append(seen, x)
    BY <1>4 DEF ReadHead
  <2>2. seen' # <<>>
    BY <2>1, AppendFacts DEF TypeOK
  <2>3. phase' = "handle" /\ UNCHANGED <<requestCount, closeConnection, replies>>
    BY <1>4 DEF ReadHead, outVars
  <2> QED BY <1>1, <2>2, <2>3 DEF Lasting, Ongoing
<1> QED BY <1>2, <1>3, <1>4 DEF OnRead, ReadTooMuch

LEMMA LastingHandler == ASSUME TypeOK, Lasting, Handler PROVE Lasting'
<1>1. phase = "handle" /\ UNCHANGED <<requestCount, asked>> /\ seen # <<>>
  BY DEF Handler, HandlerRead, HandlerFails, Respond, HandlerReturns, clientVars, Lasting
<1>2. ASSUME NEW n \in 1..bodyLeft, HandlerRead(n) PROVE Lasting'
  <2>1. UNCHANGED <<phase, requestCount, closeConnection, replies>>
    BY <1>2 DEF HandlerRead, outVars
  <2>2. ~(Ongoing \/ phase = "closed") /\ seen' # <<>>
    <3>1. PICK x : seen' = [seen EXCEPT ![Len(seen)] = x]
      BY <1>2 DEF HandlerRead
    <3>2. seen \in Seq([msg : DOMAIN asked, exact : BOOLEAN, body : Seq(Sendable)])
      BY DEF TypeOK
    <3>3. DOMAIN seen' = DOMAIN seen /\ 1 \in DOMAIN seen
      BY <1>1, <3>1, <3>2, EmptySeq
    <3>4. DOMAIN <<>> = {}
      OBVIOUS
    <3> QED BY <1>1, <3>3, <3>4 DEF Ongoing
  <2> QED BY <2>1, <2>2 DEF Lasting, Ongoing
<1>3. ASSUME HandlerFails PROVE Lasting'
  BY <1>1, <1>3, LastingError DEF HandlerFails
<1>4. ASSUME NEW response \in Responses, Respond(response) PROVE Lasting'
  <2>1. PICK wants, a, k : /\ wants = asked[Last(seen).msg].wants
                           /\ a = Announces(wants, response) /\ k = KeepAlive(wants, response)
    OBVIOUS
  <2>2. PICK r : r = [announces |-> a, length |-> response.length, headers |-> response.headers]
    OBVIOUS
  <2>3. closeConnection' = ~k /\ replies' = Append(replies, r) /\ phase' = "write" /\ seen' = seen
    BY <1>4, <2>1, <2>2 DEF Respond, HandlerReturns
  <2>4. requestCount # MaxRequests
    BY <1>1, ConversationAssumption DEF Lasting, TypeOK
  <2>5. (k => a # "close") /\ (~k => wants \in {"close", "1.0"}) /\ k \in BOOLEAN
    BY <2>1, <2>4, AnnouncesTypes
  <2>6. ~k => EndAsked'
    BY <1>1, <2>1, <2>3, <2>5 DEF EndAsked
  <2>7. r.announces = a
    BY <2>2
  <2> QED BY <1>1, <2>3, <2>5, <2>6, <2>7, LastingReply
<1> QED BY <1>2, <1>3, <1>4 DEF Handler

LEMMA LastingOnWrite == ASSUME TypeOK, Lasting, OnWrite PROVE Lasting'
<1>1. ASSUME ~Finish PROVE Lasting'
  <2>1. /\ UNCHANGED <<requestCount, closeConnection, replies, seen, asked>>
        /\ phase = "write" /\ phase' \in {"write", "terminated"}
    BY <1>1 DEF OnWrite, WriteHeader, WriteContent, inVars, clientVars
  <2> QED BY <2>1, LastingSending
<1>2. ASSUME Finish PROVE Lasting'
  <2>1. /\ phase = "write" /\ requestCount' = requestCount + 1
        /\ UNCHANGED <<asked, seen, replies>>
        /\ \/ /\ closeConnection \/ requestCount + 1 >= MaxRequests
              /\ phase' = "closed" /\ closeConnection' = TRUE
           \/ /\ ~closeConnection /\ requestCount + 1 < MaxRequests
              /\ phase' = "read" /\ closeConnection' = FALSE
    BY <1>2, FinishFacts
  <2>2. requestCount \in Nat /\ MaxRequests \in Nat
    BY ConversationAssumption DEF TypeOK
  <2>3. EndAsked' <=> EndAsked
    BY <2>1 DEF EndAsked
  <2>4. /\ Len(replies) = requestCount + 1 /\ requestCount < MaxRequests /\ replies # <<>>
        /\ \A j \in 1..Len(replies) : replies[j].announces = "close" =>
                j = Len(replies) /\ closeConnection
        /\ closeConnection => Last(replies).announces = "close" \/ EndAsked
    BY <2>1 DEF Lasting, Ongoing
  <2>5. CASE phase' = "read"
    BY <2>1, <2>2, <2>3, <2>4, <2>5 DEF Lasting, Ongoing
  <2>6. CASE phase' = "closed"
    BY <2>1, <2>2, <2>3, <2>4, <2>6 DEF Lasting, Ongoing
  <2> QED BY <2>1, <2>5, <2>6
<1> QED BY <1>1, <1>2

LEMMA InitLasting == Init => Lasting
BY ConversationAssumption DEF Init, Lasting, Ongoing

LEMMA NextLasting == ASSUME TypeOK, Lasting, [Next]_vars PROVE Lasting'
<1>1. CASE UNCHANGED vars
  BY <1>1, LastingIdle DEF vars, clientVars, inVars, outVars, EndAsked
<1> QED BY <1>1, LastingClient, LastingOnRead, LastingHandler, LastingOnWrite DEF Next

\* Each end of a connection has a reason that the client knows.
LEMMA LastingHonours == ASSUME TypeOK, Lasting PROVE PersistenceHonoured
<1>1. phase = "closed" => Last(replies).announces = "close" \/ EndAsked \/ Len(replies) = MaxRequests
  BY DEF Lasting
<1>2. ASSUME NEW j \in 1..(Len(replies) - 1) PROVE replies[j].announces # "close"
  <2>1. Len(replies) \in Nat
    BY DEF TypeOK
  <2>2. j \in 1..Len(replies) /\ j # Len(replies)
    BY <2>1
  <2> QED BY <2>2 DEF Lasting
<1> QED BY <1>1, <1>2 DEF PersistenceHonoured, EndAsked, Lasting
-----------------------------------------------------------------------------
(* What the client has of the responses *)

\* What Written is made of.
LEMMA WrittenFacts ==
  ASSUME NEW j \in Nat, NEW h \in Nat, NEW c \in Nat
  PROVE  /\ Written(j, h, c) \in Seq(Receivable)
         /\ Len(Written(j, h, c)) = h + c
         /\ \A i \in 1..(h + c) :
               Written(j, h, c)[i] = IF i <= h THEN <<j, "head", i>> ELSE <<j, "content", i - h>>
<1> DEFINE H == [i \in 1..h |-> <<j, "head", i>>]
           C == [i \in 1..c |-> <<j, "content", i>>]
<1>1. H \in [1..h -> Receivable]
  <2>1. ASSUME NEW i \in 1..h PROVE <<j, "head", i>> \in Receivable
    BY DEF Receivable
  <2> QED BY <2>1
<1>2. C \in [1..c -> Receivable]
  <2>1. ASSUME NEW i \in 1..c PROVE <<j, "content", i>> \in Receivable
    BY DEF Receivable
  <2> QED BY <2>1
<1>3. /\ H \in Seq(Receivable) /\ C \in Seq(Receivable) /\ Len(H) = h /\ Len(C) = c
      /\ \A i \in 1..h : H[i] = <<j, "head", i>>
      /\ \A i \in 1..c : C[i] = <<j, "content", i>>
  BY <1>1, <1>2, FunctionSeq
<1> HIDE DEF H, C
<1>4. /\ H \o C \in Seq(Receivable) /\ Len(H \o C) = h + c
      /\ \A i \in 1..(h + c) : (H \o C)[i] = IF i <= h THEN H[i] ELSE C[i - h]
  BY <1>3, ConcatProperties
<1>5. ASSUME NEW i \in 1..(h + c)
      PROVE  (H \o C)[i] = IF i <= h THEN <<j, "head", i>> ELSE <<j, "content", i - h>>
  <2>1. CASE i <= h
    BY <1>3, <1>4, <2>1
  <2>2. CASE ~(i <= h)
    <3>1. i - h \in 1..c
      BY <2>2
    <3>2. C[i - h] = <<j, "content", i - h>>
      BY <1>3, <3>1
    <3> QED BY <1>4, <2>2, <3>2
  <2> QED BY <2>1, <2>2
<1>6. Written(j, h, c) = H \o C
  BY DEF Written, H, C
<1> QED BY <1>4, <1>5, <1>6

\* The bytes of responses are bytes, and one response more adds its own.
LEMMA BytesFacts ==
  ASSUME NEW T, \A r \in T : r.length \in Nat, NEW rs \in Seq(T)
  PROVE  /\ BytesOf(rs) \in Seq(Receivable)
         /\ \A r \in T : BytesOf(Append(rs, r)) =
                             BytesOf(rs) \o Written(Len(rs) + 1, HeadSize, r.length)
<1>1. PICK n \in Nat : n = Len(rs) /\ DOMAIN rs = 1..n
  OBVIOUS
<1> DEFINE parts(s) == [j \in DOMAIN s |-> Written(j, HeadSize, s[j].length)]
<1>2. ASSUME NEW j \in 1..n PROVE Written(j, HeadSize, rs[j].length) \in Seq(Receivable)
  <2>1. rs[j].length \in Nat /\ j \in Nat
    BY <1>1
  <2> QED BY <2>1, WrittenFacts, ConversationAssumption
<1>3. parts(rs) \in [1..n -> Seq(Receivable)]
  BY <1>1, <1>2
<1>4. parts(rs) \in Seq(Seq(Receivable)) /\ Len(parts(rs)) = n
  BY <1>3, FunctionSeq
<1>5. ASSUME NEW r \in T
      PROVE  BytesOf(Append(rs, r)) = BytesOf(rs) \o Written(n + 1, HeadSize, r.length)
  <2>1. PICK x : x = Written(n + 1, HeadSize, r.length)
    OBVIOUS
  <2>2. x \in Seq(Receivable)
    <3>1. r.length \in Nat /\ n + 1 \in Nat
      OBVIOUS
    <3> QED BY <2>1, <3>1, WrittenFacts, ConversationAssumption
  <2>3. /\ Append(rs, r) \in Seq(T) /\ Len(Append(rs, r)) = n + 1
        /\ DOMAIN Append(rs, r) = 1..(n + 1) /\ Append(rs, r)[n + 1] = r
        /\ \A j \in 1..n : Append(rs, r)[j] = rs[j]
    BY <1>1
  <2>4. parts(Append(rs, r)) = Append(parts(rs), x)
    <3>1. PICK f : f = parts(Append(rs, r))
      OBVIOUS
    <3>2. f = [j \in 1..(n + 1) |-> Written(j, HeadSize, Append(rs, r)[j].length)]
      BY <2>3, <3>1
    <3>3. \A j \in 1..(n + 1) : f[j] = IF j = n + 1 THEN x ELSE parts(rs)[j]
      BY <1>1, <2>1, <2>3, <3>2
    <3>4. PICK g : g = Append(parts(rs), x)
      OBVIOUS
    <3> HIDE DEF parts
    <3>5. /\ g \in Seq(Seq(Receivable)) /\ Len(g) = n + 1 /\ g[n + 1] = x
          /\ \A j \in 1..n : g[j] = parts(rs)[j]
      BY <1>4, <2>2, <3>4
    <3>6. f \in [1..(n + 1) -> Seq(Receivable)]
      <4>1. \A j \in 1..(n + 1) : f[j] \in Seq(Receivable)
        BY <1>3, <2>2, <3>3
      <4> QED BY <3>2, <4>1
    <3>7. f \in Seq(Seq(Receivable)) /\ Len(f) = n + 1
      <4>1. n + 1 \in Nat
        OBVIOUS
      <4> QED BY <3>6, <4>1, FunctionSeq
    <3>8. \A j \in 1..(n + 1) : f[j] = g[j]
      BY <3>3, <3>5
    <3>9. f = g
      BY <3>5, <3>7, <3>8, SeqEqual
    <3> QED BY <3>1, <3>4, <3>9
  <2>5. FlattenSeq(Append(parts(rs), x)) = FlattenSeq(parts(rs)) \o x
    <3> HIDE DEF parts
    <3> QED BY <1>4, <2>2, FlattenAppend
  <2>6. BytesOf(Append(rs, r)) = FlattenSeq(parts(Append(rs, r))) /\ BytesOf(rs) = FlattenSeq(parts(rs))
    BY DEF BytesOf
  <2> HIDE DEF parts
  <2> QED BY <2>1, <2>4, <2>5, <2>6
<1>6. BytesOf(rs) = FlattenSeq(parts(rs))
  BY DEF BytesOf
<1> HIDE DEF parts
<1>7. BytesOf(rs) \in Seq(Receivable)
  BY <1>4, <1>6, FlattenSequence
<1> QED BY <1>1, <1>5, <1>7

\* The parts of a sequence that was appended to.
LEMMA FrontOfAppend ==
  ASSUME NEW T, NEW s \in Seq(T), NEW x \in T
  PROVE  Front(Append(s, x)) = s /\ Last(Append(s, x)) = x
BY DEF Front, Last

\* A sequence is its front and its last.
LEMMA AppendOfFront ==
  ASSUME NEW T, NEW s \in Seq(T), s # <<>>
  PROVE  /\ Front(s) \in Seq(T) /\ Last(s) \in T /\ Len(Front(s)) + 1 = Len(s)
         /\ s = Append(Front(s), Last(s))
<1>1. PICK n \in Nat : n + 1 = Len(s)
  BY EmptySeq
<1>2. Front(s) \in Seq(T) /\ Len(Front(s)) = n /\ \A i \in 1..n : Front(s)[i] = s[i]
  <2>1. Front(s) = SubSeq(s, 0 + 1, n)
    BY <1>1 DEF Front
  <2>2. /\ SubSeq(s, 0 + 1, n) \in Seq(T)
        /\ Len(SubSeq(s, 0 + 1, n)) = IF 0 < n THEN n - 0 ELSE 0
        /\ \A i \in 1..Len(SubSeq(s, 0 + 1, n)) : SubSeq(s, 0 + 1, n)[i] = s[0 + i]
    BY <1>1, Piece
  <2>3. Len(Front(s)) = n
    BY <2>1, <2>2
  <2> QED BY <2>1, <2>2, <2>3
<1>3. Last(s) = s[n + 1] /\ Last(s) \in T
  BY <1>1 DEF Last
<1>4. s = Append(Front(s), Last(s))
  <2>1. PICK f, x : f = Front(s) /\ x = Last(s)
    OBVIOUS
  <2>2. f \in Seq(T) /\ x \in T /\ Len(f) = n /\ (\A i \in 1..n : f[i] = s[i]) /\ x = s[n + 1]
    BY <1>2, <1>3, <2>1
  <2>3. /\ Append(f, x) \in Seq(T) /\ Len(Append(f, x)) = n + 1
        /\ \A i \in 1..(n + 1) : Append(f, x)[i] = s[i]
    BY <2>2
  <2>4. s = Append(f, x)
    BY <1>1, <2>3, SeqEqual
  <2> QED BY <2>1, <2>4
<1> QED BY <1>1, <1>2, <1>3, <1>4

\* v is h units of the head of response j and c of its content.
IsWritten(v, j, h, c) ==
    /\ v \in Seq(Receivable) /\ Len(v) = h + c
    /\ \A i \in 1..h : v[i] = <<j, "head", i>>
    /\ \A i \in 1..c : v[h + i] = <<j, "content", i>>

\* Written is what IsWritten says.
LEMMA WrittenIs ==
  ASSUME NEW j \in Nat, NEW h \in Nat, NEW c \in Nat
  PROVE  IsWritten(Written(j, h, c), j, h, c)
<1>1. PICK v : v = Written(j, h, c)
  OBVIOUS
<1>2. /\ v \in Seq(Receivable) /\ Len(v) = h + c
      /\ \A i \in 1..(h + c) : v[i] = IF i <= h THEN <<j, "head", i>> ELSE <<j, "content", i - h>>
  <2>1. /\ Written(j, h, c) \in Seq(Receivable)
        /\ Len(Written(j, h, c)) = h + c
        /\ \A i \in 1..(h + c) :
              Written(j, h, c)[i] = IF i <= h THEN <<j, "head", i>> ELSE <<j, "content", i - h>>
    BY WrittenFacts, Zenon
  <2> QED BY ONLY <1>1, <2>1
<1>3. ASSUME NEW i \in 1..h PROVE v[i] = <<j, "head", i>>
  BY <1>2
<1>4. ASSUME NEW i \in 1..c PROVE v[h + i] = <<j, "content", i>>
  <2>1. h + i \in 1..(h + c) /\ h + i - h = i /\ ~(h + i <= h)
    OBVIOUS
  <2>2. \A k \in 1..(h + c) : ~(k <= h) => v[k] = <<j, "content", k - h>>
    BY <1>2
  <2> QED BY <2>1, <2>2
<1> QED BY <1>1, <1>2, <1>3, <1>4 DEF IsWritten

\* u is a part of response j, from behind its unit first to its unit last.
IsPiece(u, j, part, first, last) ==
    /\ u \in Seq(Receivable) /\ first + Len(u) = last
    /\ \A i \in 1..Len(u) : u[i] = <<j, part, first + i>>

Joined(v, u, w) == v \o u = w

\* A response goes on where it stopped.
LEMMA WrittenHead ==
  ASSUME NEW j \in Nat, NEW h \in Nat, NEW m \in Nat, NEW u, IsPiece(u, j, "head", h, m)
  PROVE  Joined(Written(j, h, 0), u, Written(j, m, 0))
<1>0. u \in Seq(Receivable) /\ \A i \in 1..Len(u) : u[i] = <<j, "head", h + i>>
  BY DEF IsPiece
<1>1. Len(u) \in Nat /\ m = h + Len(u)
  BY <1>0 DEF IsPiece
<1>2. PICK v, w : v = Written(j, h, 0) /\ w = Written(j, m, 0)
  OBVIOUS
<1>3. IsWritten(v, j, h, 0) /\ IsWritten(w, j, m, 0)
  BY <1>2, WrittenIs
<1>4. v \in Seq(Receivable) /\ Len(v) = h /\ \A i \in 1..h : v[i] = <<j, "head", i>>
  BY <1>3 DEF IsWritten
<1>5. w \in Seq(Receivable) /\ Len(w) = m /\ \A i \in 1..m : w[i] = <<j, "head", i>>
  BY <1>3 DEF IsWritten
<1>6. Len(w) = Len(v) + Len(u)
  BY <1>0, <1>1, <1>4, <1>5
<1>7. ASSUME NEW i \in 1..Len(v) PROVE w[i] = v[i]
  <2>1. i \in 1..h /\ i \in 1..m
    BY <1>1, <1>4
  <2>2. v[i] = <<j, "head", i>>
    BY <1>4, <2>1
  <2>3. w[i] = <<j, "head", i>>
    BY <1>5, <2>1
  <2> QED BY <2>2, <2>3
<1>8. ASSUME NEW i \in 1..Len(u) PROVE w[Len(v) + i] = u[i]
  <2>1. u[i] = <<j, "head", h + i>> /\ h + i \in 1..m
    BY <1>0, <1>1
  <2> QED BY <1>4, <1>5, <2>1
<1>9. v \o u = w
  BY <1>0, <1>4, <1>5, <1>6, <1>7, <1>8, JoinPointwise
<1> QED BY <1>1, <1>2, <1>9 DEF Joined

\* A piece of content continues what is written of it.
LEMMA WrittenContent ==
  ASSUME NEW j \in Nat, NEW h \in Nat, NEW c \in Nat, NEW m \in Nat, NEW u,
         IsPiece(u, j, "content", c, m)
  PROVE  Joined(Written(j, h, c), u, Written(j, h, m))
<1>0. u \in Seq(Receivable) /\ \A i \in 1..Len(u) : u[i] = <<j, "content", c + i>>
  BY DEF IsPiece
<1>1. Len(u) \in Nat /\ m = c + Len(u)
  BY <1>0 DEF IsPiece
<1>2. PICK v, w : v = Written(j, h, c) /\ w = Written(j, h, m)
  OBVIOUS
<1>3. IsWritten(v, j, h, c) /\ IsWritten(w, j, h, m)
  BY <1>2, WrittenIs
<1>4. /\ v \in Seq(Receivable) /\ Len(v) = h + c /\ \A i \in 1..h : v[i] = <<j, "head", i>>
      /\ \A i \in 1..c : v[h + i] = <<j, "content", i>>
  BY <1>3 DEF IsWritten
<1>5. /\ w \in Seq(Receivable) /\ Len(w) = h + m /\ \A i \in 1..h : w[i] = <<j, "head", i>>
      /\ \A i \in 1..m : w[h + i] = <<j, "content", i>>
  BY <1>3 DEF IsWritten
<1>6. Len(w) = Len(v) + Len(u)
  BY <1>0, <1>1, <1>4, <1>5
<1>7. ASSUME NEW i \in 1..Len(v) PROVE w[i] = v[i]
  <2>1. CASE i <= h
    <3>1. i \in 1..h
      BY <1>4, <2>1
    <3>2. v[i] = <<j, "head", i>>
      BY <1>4, <3>1
    <3>3. w[i] = <<j, "head", i>>
      BY <1>5, <3>1
    <3> QED BY <3>2, <3>3
  <2>2. CASE ~(i <= h)
    <3>1. PICK k \in 1..c : i = h + k
      BY <1>4, <2>2
    <3>2. k \in 1..m
      BY <1>1
    <3> QED BY <1>4, <1>5, <3>1, <3>2
  <2> QED BY <2>1, <2>2
<1>8. ASSUME NEW i \in 1..Len(u) PROVE w[Len(v) + i] = u[i]
  <2>1. u[i] = <<j, "content", c + i>> /\ c + i \in 1..m
    BY <1>0, <1>1
  <2>2. w[h + (c + i)] = <<j, "content", c + i>>
    BY <1>5, <2>1
  <2>3. Len(v) + i = h + (c + i)
    BY <1>4
  <2> QED BY <2>1, <2>2, <2>3
<1>9. v \o u = w
  BY <1>0, <1>4, <1>5, <1>6, <1>7, <1>8, JoinPointwise
<1> QED BY <1>1, <1>2, <1>9 DEF Joined

\* The socket takes such a piece.
LEMMA UnitsPiece ==
  ASSUME TypeOK, NEW part \in {"head", "content"}, NEW first \in Nat, NEW n \in Nat
  PROVE  IsPiece(Units(part, first + 1, first + n), Len(replies), part, first, first + n)
<1>1. /\ Units(part, first + 1, first + n) \in Seq(Receivable)
      /\ Len(Units(part, first + 1, first + n)) = n
      /\ \A i \in 1..n : Units(part, first + 1, first + n)[i] = <<Len(replies), part, first + i>>
  BY UnitsFacts
<1> QED BY ONLY <1>1 DEF IsPiece

\* What is written of a response is the beginning of it.
LEMMA WrittenPrefix ==
  ASSUME NEW s, NEW j \in Nat, NEW h \in 0..HeadSize,
         NEW l \in Nat, NEW c \in 0..l, c > 0 => h = HeadSize, s \in Seq(Receivable)
  PROVE  IsPrefix(s \o Written(j, h, c), s \o Written(j, HeadSize, l))
<1>1. PICK d \in Nat : d = HeadSize
  BY ConversationAssumption
<1>2. h \in Nat /\ c \in Nat /\ h <= d /\ c <= l /\ (c = 0 \/ h = d)
  BY <1>1
<1>3. PICK v, w : v = Written(j, h, c) /\ w = Written(j, d, l)
  OBVIOUS
<1>4. IsWritten(v, j, h, c) /\ IsWritten(w, j, d, l)
  BY <1>2, <1>3, WrittenIs
<1>5. /\ v \in Seq(Receivable) /\ Len(v) = h + c /\ \A i \in 1..h : v[i] = <<j, "head", i>>
      /\ \A i \in 1..c : v[h + i] = <<j, "content", i>>
  BY <1>4 DEF IsWritten
<1>6. /\ w \in Seq(Receivable) /\ Len(w) = d + l /\ \A i \in 1..d : w[i] = <<j, "head", i>>
      /\ \A i \in 1..l : w[d + i] = <<j, "content", i>>
  BY <1>4 DEF IsWritten
<1>7. ASSUME NEW i \in 1..Len(v) PROVE v[i] = w[i]
  <2>1. CASE i <= h
    <3>1. i \in 1..h /\ i \in 1..d
      BY <1>2, <1>5, <2>1
    <3>2. v[i] = <<j, "head", i>>
      BY <1>5, <3>1
    <3>3. w[i] = <<j, "head", i>>
      BY <1>6, <3>1
    <3> QED BY <3>2, <3>3
  <2>2. CASE ~(i <= h)
    <3>1. PICK k \in 1..c : i = h + k
      BY <1>2, <1>5, <2>2
    <3>2. k \in 1..l /\ h = d
      BY <1>2
    <3> QED BY <1>5, <1>6, <3>1, <3>2
  <2> QED BY <2>1, <2>2
<1>8. Len(v) <= Len(w)
  BY <1>2, <1>5, <1>6
<1>9. IsPrefix(s \o v, s \o w)
  BY <1>5, <1>6, <1>7, <1>8, PrefixJoin
<1> QED BY <1>1, <1>3, <1>9

\* The responses made.
Made == [announces : {"close", "keep-alive", "nothing"}, length : Nat,
         headers : {"none", "other", "close", "keep-alive", "error"}]

\* What responses are made of.
LEMMA RepliesTypes == ASSUME TypeOK PROVE replies \in Seq(Made) /\ \A r \in Made : r.length \in Nat
BY DEF TypeOK, Made

\* Nothing is written of a response yet.
LEMMA WrittenNothing ==
  ASSUME NEW s \in Seq(Receivable), NEW j \in Nat PROVE s \o Written(j, 0, 0) = s
<1>1. PICK v : v = Written(j, 0, 0)
  OBVIOUS
<1>2. IsWritten(v, j, 0, 0)
  BY <1>1, WrittenIs
<1>3. v \in Seq(Receivable) /\ Len(v) = 0
  BY <1>2 DEF IsWritten
<1>4. v = <<>>
  BY <1>3, EmptySeq
<1> QED BY <1>1, <1>4, ConcatEmptySeq

\* A response begins when all the others are with the client.
LEMMA WritingReply ==
  ASSUME TypeOK, Writing, phase \in {"read", "handle"}, phase' = "write", NEW r \in Made,
         replies' = Append(replies, r), content'.length = r.length, content'.offset = 0,
         UNCHANGED <<headerBytesSent, got>>
  PROVE  Writing'
<1>1. headerBytesSent' = 0 /\ got' = BytesOf(replies)
  BY DEF Writing, Ongoing
<1>2. PICK s, t : s = replies /\ t = replies'
  OBVIOUS
<1>3. s \in Seq(Made) /\ t = Append(s, r) /\ \A x \in Made : x.length \in Nat
  BY <1>2, RepliesTypes
<1>4. Front(t) = s /\ Last(t) = r
  BY <1>3, FrontOfAppend
<1>5. t # <<>> /\ Len(t) \in Nat
  BY <1>3
<1>6. BytesOf(s) \in Seq(Receivable)
  BY <1>3, BytesFacts
<1>7. BytesOf(s) \o Written(Len(t), 0, 0) = BytesOf(s)
  BY <1>5, <1>6, WrittenNothing
<1>8. /\ content'.length = Last(t).length /\ ~(content'.offset > 0)
      /\ got' = BytesOf(Front(t)) \o Written(Len(t), headerBytesSent', content'.offset)
  BY <1>1, <1>2, <1>4, <1>7
<1> QED BY <1>2, <1>5, <1>8 DEF Writing, Ongoing

\* A step that neither makes a response nor sends any of it.
LEMMA WritingIdle ==
  ASSUME Writing, UNCHANGED <<headerBytesSent, got, replies, content>>,
         Ongoing' <=> Ongoing, phase' = "terminated" => phase = "terminated",
         phase' \in {"read", "handle"} => phase \in {"read", "handle"}
  PROVE  Writing'
BY DEF Writing, Ongoing

\* A response of the server itself begins as any other.
LEMMA WritingError ==
  ASSUME TypeOK, Writing, phase \in {"read", "handle"}, SendResponse, UNCHANGED got
  PROVE  Writing'
<1>1. PICK r : r = [announces |-> "close", length |-> 0, headers |-> "error"]
  OBVIOUS
<1>2. r \in Made /\ r.length = 0
  BY <1>1 DEF Made
<1> QED BY <1>1, <1>2, WritingReply DEF SendResponse, NoContent

LEMMA WritingOnRead == ASSUME TypeOK, Writing, OnRead PROVE Writing'
<1>1. phase = "read" /\ UNCHANGED got
  BY DEF OnRead, ReadTooMuch, ReadPart, ReadHead, Read
<1>2. CASE SendResponse
  BY <1>1, <1>2, WritingError
<1>3. CASE ~SendResponse
  <2>1. UNCHANGED <<headerBytesSent, replies, content>> /\ phase' \in {"read", "handle"}
    BY <1>1, <1>3 DEF OnRead, ReadTooMuch, ReadPart, ReadHead, outVars
  <2> QED BY <1>1, <2>1, WritingIdle DEF Ongoing
<1> QED BY <1>2, <1>3

LEMMA WritingHandler == ASSUME TypeOK, Writing, Handler PROVE Writing'
<1>1. phase = "handle" /\ UNCHANGED got
  BY DEF Handler, HandlerRead, HandlerFails, Respond, HandlerReturns
<1>2. ASSUME NEW n \in 1..bodyLeft, HandlerRead(n) PROVE Writing'
  <2>1. UNCHANGED <<headerBytesSent, replies, content, phase>>
    BY <1>2 DEF HandlerRead, outVars
  <2> QED BY <1>1, <2>1, WritingIdle DEF Ongoing
<1>3. ASSUME HandlerFails PROVE Writing'
  BY <1>1, <1>3, WritingError DEF HandlerFails
<1>4. ASSUME NEW response \in Responses, Respond(response) PROVE Writing'
  <2>1. PICK wants, a : wants = asked[Last(seen).msg].wants /\ a = Announces(wants, response)
    OBVIOUS
  <2>2. PICK r : r = [announces |-> a, length |-> response.length, headers |-> response.headers]
    OBVIOUS
  <2>3. r \in Made /\ r.length = response.length
    <3>1. a \in {"close", "keep-alive", "nothing"}
      BY <2>1, AnnouncesTypes
    <3>2. response.length \in Nat /\ response.headers \in {"none", "other", "close", "keep-alive"}
      BY ConversationAssumption DEF Responses
    <3> QED BY <2>2, <3>1, <3>2 DEF Made
  <2>4. /\ replies' = Append(replies, r) /\ phase' = "write" /\ UNCHANGED headerBytesSent
        /\ content'.length = response.length /\ content'.offset = 0
    BY <1>4, <2>1, <2>2 DEF Respond
  <2> QED BY <1>1, <2>3, <2>4, WritingReply
<1> QED BY <1>2, <1>3, <1>4 DEF Handler

\* What is with the client while a response is sent.
LEMMA WritingFacts ==
  ASSUME TypeOK, Writing, Ongoing
  PROVE  /\ replies \in Seq(Made) /\ replies # <<>> /\ Len(replies) \in Nat
         /\ Last(replies) \in Made /\ content.length = Last(replies).length
         /\ BytesOf(Front(replies)) \in Seq(Receivable)
         /\ got = BytesOf(Front(replies))
                     \o Written(Len(replies), headerBytesSent, content.offset)
         /\ content.offset > 0 => headerBytesSent = HeadSize
         /\ BytesOf(replies) = BytesOf(Front(replies))
                                  \o Written(Len(replies), HeadSize, Last(replies).length)
<1>1. replies \in Seq(Made) /\ replies # <<>> /\ \A x \in Made : x.length \in Nat
  BY RepliesTypes DEF Writing
<1>2. PICK s, r : s = Front(replies) /\ r = Last(replies)
  OBVIOUS
<1>3. s \in Seq(Made) /\ r \in Made /\ Len(s) + 1 = Len(replies) /\ replies = Append(s, r)
  BY <1>1, <1>2, AppendOfFront
<1>4. /\ BytesOf(s) \in Seq(Receivable)
      /\ BytesOf(Append(s, r)) = BytesOf(s) \o Written(Len(s) + 1, HeadSize, r.length)
  BY <1>1, <1>3, BytesFacts
<1>5. BytesOf(replies) = BytesOf(s) \o Written(Len(replies), HeadSize, r.length)
  BY <1>3, <1>4
<1>6. /\ content.length = Last(replies).length
      /\ got = BytesOf(Front(replies))
                  \o Written(Len(replies), headerBytesSent, content.offset)
      /\ content.offset > 0 => headerBytesSent = HeadSize
  BY DEF Writing
<1>7. Len(replies) \in Nat
  BY <1>1
<1> QED BY <1>1, <1>2, <1>3, <1>4, <1>5, <1>6, <1>7

\* A piece more of the response is with the client.
LEMMA WritingMore ==
  ASSUME TypeOK, Writing, phase = "write", NEW u, NEW h \in Nat, NEW c \in Nat,
         u \in Seq(Receivable), got' = got \o u,
         Joined(Written(Len(replies), headerBytesSent, content.offset), u, Written(Len(replies), h, c)),
         headerBytesSent' = h, content'.length = content.length,
         content'.offset = c, c > 0 => h = HeadSize, UNCHANGED replies,
         \/ UNCHANGED phase
         \/ /\ phase' = "terminated" /\ content'.stream = "file" /\ h = HeadSize
            /\ content'.length - c \in 1..(BufferSize - 1)
  PROVE  Writing'
<1>0. PICK s, r, k : s = Front(replies) /\ r = Last(replies) /\ k = Len(replies)
  OBVIOUS
<1>1. /\ k = Len(replies) /\ Front(replies) = s /\ Last(replies) = r /\ replies # <<>>
      /\ content.length = r.length /\ BytesOf(s) \in Seq(Receivable) /\ k \in Nat
      /\ got = BytesOf(s) \o Written(k, headerBytesSent, content.offset)
  BY <1>0, WritingFacts DEF Ongoing
<1>2. PICK v : v = Written(k, headerBytesSent, content.offset)
  OBVIOUS
<1>3. v \in Seq(Receivable)
  <2>1. headerBytesSent \in Nat /\ content.offset \in Nat
    BY ConversationAssumption DEF TypeOK, Contents
  <2>2. PICK p, q \in Nat : p = headerBytesSent /\ q = content.offset
    BY <2>1
  <2>3. IsWritten(Written(k, p, q), k, p, q)
    BY <1>1, <2>2, WrittenIs
  <2>4. v = Written(k, p, q)
    BY <1>2, <2>2
  <2> QED BY ONLY <2>3, <2>4 DEF IsWritten
<1>4. v \o u = Written(k, h, c)
  BY <1>1, <1>2 DEF Joined
<1>5. got' = BytesOf(s) \o Written(k, h, c)
  <2>1. PICK b : b = BytesOf(s)
    OBVIOUS
  <2>2. b \in Seq(Receivable)
    BY <1>1, <2>1
  <2>3. (b \o v) \o u = b \o (v \o u)
    <3>1. u \in Seq(Receivable)
      OBVIOUS
    <3>2. PICK R, x, y, z : R = Receivable /\ x = b /\ y = v /\ z = u
      OBVIOUS
    <3>3. x \in Seq(R) /\ y \in Seq(R) /\ z \in Seq(R)
      BY ONLY <1>3, <2>2, <3>1, <3>2
    <3>4. (x \o y) \o z = x \o (y \o z)
      BY ONLY <3>3, ConcatAssociative
    <3> QED BY ONLY <3>2, <3>4
  <2>4. got' = (b \o v) \o u
    BY <1>1, <1>2, <2>1
  <2> QED BY <1>4, <2>1, <2>3, <2>4
<1>6. content'.length = r.length /\ content'.offset = c
  BY <1>1
<1>7. Ongoing' /\ Ongoing /\ phase' \notin {"read", "handle"}
  BY DEF Ongoing
<1>8. phase' = "terminated" =>
         /\ content'.stream = "file" /\ headerBytesSent' = HeadSize
         /\ content'.length - content'.offset \in 1..(BufferSize - 1)
  BY <1>6
<1> QED BY <1>1, <1>5, <1>6, <1>7, <1>8 DEF Writing

\* A part of the head is sent.
LEMMA WritingHeader ==
  ASSUME TypeOK, Writing, NEW n \in Nat, WriteHeader(n) PROVE Writing'
<1>1. /\ phase = "write" /\ n \in 1..(HeadSize - headerBytesSent)
      /\ got' = got \o Units("head", headerBytesSent + 1, headerBytesSent + n)
      /\ headerBytesSent' = headerBytesSent + n /\ UNCHANGED <<content, replies, phase>>
  BY DEF WriteHeader
<1>2. /\ content \in Contents
      /\ headerBytesSent \in 0..HeadSize /\ HeadSize \in Nat /\ Len(replies) \in Nat
  BY ConversationAssumption DEF TypeOK
<1>3. PICK h, k, m \in Nat : h = headerBytesSent /\ k = Len(replies) /\ m = headerBytesSent'
  <2>1. headerBytesSent \in Nat /\ Len(replies) \in Nat /\ headerBytesSent' \in Nat
    BY <1>1, <1>2
  <2> QED BY <2>1
<1>4. content.offset = 0
  BY <1>1, <1>2 DEF Writing, Contents, Ongoing
<1>5. PICK u : u = Units("head", headerBytesSent + 1, headerBytesSent + n)
  OBVIOUS
<1>6. IsPiece(u, k, "head", h, m)
  <2>1. headerBytesSent \in Nat
    BY <1>2
  <2>2. IsPiece(Units("head", headerBytesSent + 1, headerBytesSent + n), Len(replies), "head",
                headerBytesSent, headerBytesSent + n)
    BY <2>1, UnitsPiece
  <2> QED BY <1>1, <1>3, <1>5, <2>2
<1>7. Joined(Written(k, h, 0), u, Written(k, m, 0))
  BY <1>6, WrittenHead
<1>8. content'.length = content.length /\ content'.offset = 0
  BY <1>1, <1>2, <1>4
<1>9. Joined(Written(Len(replies), headerBytesSent, content.offset), u, Written(Len(replies), m, 0))
  BY <1>3, <1>4, <1>7
<1>10. got' = got \o u /\ headerBytesSent' = m /\ UNCHANGED <<replies, phase>>
  BY <1>1, <1>3, <1>5
<1>11. u \in Seq(Receivable) /\ ~(0 > 0) /\ phase = "write" /\ 0 \in Nat
  BY <1>1, <1>6 DEF IsPiece
<1> QED BY <1>8, <1>9, <1>10, <1>11, WritingMore

\* A part of the content is sent.
LEMMA WritingContent ==
  ASSUME TypeOK, Writing, NEW n \in Nat, WriteContent(n) PROVE Writing'
<1>1. /\ phase = "write" /\ headerBytesSent = HeadSize
      /\ got' = got \o Units("content", content.offset + 1, content.offset + n)
      /\ UNCHANGED <<headerBytesSent, replies>>
  BY DEF WriteContent
<1>2. /\ content.offset \in Nat
      /\ content'.length = content.length /\ content'.offset = content.offset + n
      /\ \/ UNCHANGED phase
         \/ /\ phase' = "terminated" /\ content'.stream = "file"
            /\ content'.length - content'.offset \in 1..(BufferSize - 1)
  BY <1>1, WriteContentFacts
<1>3. PICK h, k, c, m \in Nat :
         h = HeadSize /\ k = Len(replies) /\ c = content.offset /\ m = content.offset + n
  <2>1. Len(replies) \in Nat
    BY DEF TypeOK
  <2> QED BY <1>2, <2>1, ConversationAssumption
<1>4. PICK u : u = Units("content", content.offset + 1, content.offset + n)
  OBVIOUS
<1>5. IsPiece(u, k, "content", c, m)
  <2>1. IsPiece(Units("content", content.offset + 1, content.offset + n), Len(replies), "content",
                content.offset, content.offset + n)
    BY <1>2, UnitsPiece
  <2> QED BY <1>3, <1>4, <2>1
<1>6. Joined(Written(k, h, c), u, Written(k, h, m))
  BY <1>5, WrittenContent
<1>7. Joined(Written(Len(replies), headerBytesSent, content.offset), u, Written(Len(replies), h, m))
  BY <1>1, <1>3, <1>6
<1>8. /\ got' = got \o u /\ headerBytesSent' = h
      /\ content'.length = content.length /\ content'.offset = m
  BY <1>1, <1>2, <1>3, <1>4
<1>9. u \in Seq(Receivable)
  BY <1>5 DEF IsPiece
<1>10. \/ UNCHANGED phase
       \/ /\ phase' = "terminated" /\ content'.stream = "file" /\ h = HeadSize
          /\ content'.length - m \in 1..(BufferSize - 1)
  BY <1>2, <1>3
<1> QED BY <1>1, <1>3, <1>7, <1>8, <1>9, <1>10, WritingMore

\* The response is complete.
LEMMA WritingFinish == ASSUME TypeOK, Writing, Finish PROVE Writing'
<1>1. /\ phase = "write" /\ headerBytesSent = HeadSize /\ content.offset = content.length
      /\ UNCHANGED <<replies, got>> /\ phase' \in {"read", "closed"}
      /\ phase' = "read" => headerBytesSent' = 0
  BY FinishFacts
<1>2. got = BytesOf(replies)
  BY <1>1, WritingFacts DEF Ongoing
<1>3. PICK rs : rs = replies
  OBVIOUS
<1>4. got' = BytesOf(rs) /\ replies' = rs
  BY <1>1, <1>2, <1>3
<1> QED BY <1>1, <1>4 DEF Writing, Ongoing

LEMMA InitWriting == Init => Writing
<1> SUFFICES ASSUME Init PROVE Writing
  OBVIOUS
<1>1. PICK none : none = <<>>
  OBVIOUS
<1>2. BytesOf(none) = <<>>
  <2>1. [j \in DOMAIN none |-> Written(j, HeadSize, none[j].length)] = <<>>
    BY <1>1, EmptySeq
  <2>2. FlattenSeq(<<>>) = <<>>
    BY DEF FlattenSeq
  <2> QED BY <2>1, <2>2 DEF BytesOf
<1> QED BY <1>1, <1>2 DEF Init, Writing, Ongoing

LEMMA NextWriting == ASSUME TypeOK, Writing, [Next]_vars PROVE Writing'
<1>1. CASE UNCHANGED vars
  BY <1>1, WritingIdle DEF vars, outVars, Ongoing
<1>2. CASE Client
  <2>1. UNCHANGED <<headerBytesSent, got, replies, content, phase>>
    BY <1>2 DEF Client, Ask, Deliver, outVars
  <2> QED BY <2>1, WritingIdle DEF Ongoing
<1>3. CASE OnWrite
  <2>1. ASSUME NEW n \in 1..HeadSize, WriteHeader(n) PROVE Writing'
    <3>1. n \in Nat
      BY ConversationAssumption
    <3> QED BY <2>1, <3>1, WritingHeader
  <2>2. ASSUME NEW n \in 0..BufferSize, WriteContent(n) PROVE Writing'
    <3>1. n \in Nat
      BY ConversationAssumption
    <3> QED BY <2>2, <3>1, WritingContent
  <2> QED BY <1>3, <2>1, <2>2, WritingFinish DEF OnWrite
<1> QED BY <1>1, <1>2, <1>3, WritingOnRead, WritingHandler DEF Next

\* Together they are ResponsesIntact.
LEMMA WritingIntact == ASSUME TypeOK, Writing PROVE ResponsesIntact
<1>1. Promised = BytesOf(replies)
  BY DEF Promised, BytesOf, Written
<1>2. CASE ~Ongoing
  <2>1. got = Promised /\ got \in Seq(Receivable)
    BY <1>1, <1>2 DEF Writing, TypeOK
  <2>2. PICK g : g = got
    OBVIOUS
  <2>3. IsPrefix(g, g)
    BY <2>1, <2>2, PrefixPointwise
  <2> QED BY <1>2, <2>1, <2>2, <2>3 DEF ResponsesIntact, Ongoing
<1>3. CASE Ongoing
  <2>0. PICK s, r, k : s = Front(replies) /\ r = Last(replies) /\ k = Len(replies)
    OBVIOUS
  <2>1. /\ content.length = r.length /\ BytesOf(s) \in Seq(Receivable) /\ k \in Nat
        /\ got = BytesOf(s) \o Written(k, headerBytesSent, content.offset)
        /\ content.offset > 0 => headerBytesSent = HeadSize
        /\ BytesOf(replies) = BytesOf(s) \o Written(k, HeadSize, r.length)
    BY <1>3, <2>0, WritingFacts
  <2>2. /\ content \in Contents /\ content.offset <= content.length
        /\ headerBytesSent \in 0..HeadSize
    BY DEF TypeOK
  <2>3. PICK h \in 0..HeadSize, l \in Nat, c \in Nat : c \in 0..l /\
            h = headerBytesSent /\ l = r.length /\ c = content.offset
    BY <2>1, <2>2 DEF Contents
  <2>4. PICK b : b = BytesOf(s)
    OBVIOUS
  <2>5. IsPrefix(b \o Written(k, h, c), b \o Written(k, HeadSize, l))
    BY <2>1, <2>3, <2>4, WrittenPrefix
  <2>6. IsPrefix(got, Promised)
    BY <1>1, <2>1, <2>3, <2>4, <2>5
  <2>7. ASSUME phase = "terminated"
        PROVE  content.stream = "file" /\ Len(Promised) - Len(got) \in 1..(BufferSize - 1)
    <3>1. content.stream = "file" /\ h = HeadSize /\ l - c \in 1..(BufferSize - 1)
      BY <2>1, <2>3, <2>7 DEF Writing
    <3>2. PICK v, w : v = Written(k, h, c) /\ w = Written(k, HeadSize, l)
      OBVIOUS
    <3>3. HeadSize \in Nat /\ h \in Nat
      BY ConversationAssumption
    <3>4. /\ v \in Seq(Receivable) /\ Len(v) = h + c
          /\ w \in Seq(Receivable) /\ Len(w) = HeadSize + l
      <4>1. IsWritten(Written(k, h, c), k, h, c) /\ IsWritten(Written(k, HeadSize, l), k, HeadSize, l)
        BY <2>1, <3>3, WrittenIs
      <4> QED BY <3>2, <4>1 DEF IsWritten
    <3>5. Len(b \o v) = Len(b) + Len(v) /\ Len(b \o w) = Len(b) + Len(w) /\ Len(b) \in Nat
      <4>1. b \in Seq(Receivable)
        BY <2>1, <2>4
      <4>2. \A x, y \in Seq(Receivable) : Len(x \o y) = Len(x) + Len(y) /\ Len(x) \in Nat
        BY ConcatProperties
      <4>3. PICK S : S = Seq(Receivable)
        OBVIOUS
      <4>4. b \in S /\ v \in S /\ w \in S
        BY <3>4, <4>1, <4>3
      <4>5. \A x, y \in S : Len(x \o y) = Len(x) + Len(y) /\ Len(x) \in Nat
        BY <4>2, <4>3
      <4> QED BY ONLY <4>4, <4>5, Zenon
    <3>6. got = b \o v /\ Promised = b \o w
      BY <1>1, <2>1, <2>3, <2>4, <3>2
    <3>7. PICK n \in Nat : n = Len(b)
      BY <3>5
    <3>8. Len(got) = n + (h + c) /\ Len(Promised) = n + (HeadSize + l)
      BY ONLY <3>4, <3>5, <3>6, <3>7
    <3> QED BY <3>1, <3>3, <3>7, <3>8
  <2> QED BY <1>3, <2>6, <2>7 DEF ResponsesIntact, Ongoing
<1> QED BY <1>2, <1>3
-----------------------------------------------------------------------------
(* How requests are cut out of the stream *)

\* A beginning of a run, and the rest of it.
LEMMA RunsSplit ==
  ASSUME NEW S, NEW s, NEW sent, NEW from \in Nat, NEW mid \in Nat, NEW to \in Nat, NEW n \in Nat,
         s \in Seq(S), sent \in Seq(S), Runs(s, sent, from, to), from + n = mid, n <= Len(s)
  PROVE  /\ SubSeq(s, 1, n) \in Seq(S) /\ Runs(SubSeq(s, 1, n), sent, from, mid)
         /\ SubSeq(s, n + 1, Len(s)) \in Seq(S) /\ Runs(SubSeq(s, n + 1, Len(s)), sent, mid, to)
<1>1. PICK l \in Nat : l = Len(s)
  OBVIOUS
<1>2. from + l = to /\ to <= Len(sent) /\ n <= l /\ \A i \in 1..l : s[i] = sent[from + i]
  BY <1>1 DEF Runs
<1>3. /\ SubSeq(s, 0 + 1, n) \in Seq(S)
      /\ Len(SubSeq(s, 0 + 1, n)) = IF 0 < n THEN n - 0 ELSE 0
      /\ \A i \in 1..Len(SubSeq(s, 0 + 1, n)) : SubSeq(s, 0 + 1, n)[i] = s[0 + i]
  BY Piece
<1>4. /\ SubSeq(s, n + 1, l) \in Seq(S)
      /\ Len(SubSeq(s, n + 1, l)) = IF n < l THEN l - n ELSE 0
      /\ \A i \in 1..Len(SubSeq(s, n + 1, l)) : SubSeq(s, n + 1, l)[i] = s[n + i]
  BY <1>1, Piece
<1>5. PICK u, v : u = SubSeq(s, 1, n) /\ v = SubSeq(s, n + 1, l)
  OBVIOUS
<1>6. u \in Seq(S) /\ Len(u) = n /\ \A i \in 1..n : u[i] = s[i]
  BY <1>3, <1>5
<1>7. v \in Seq(S) /\ Len(v) = l - n /\ \A i \in 1..(l - n) : v[i] = s[n + i]
  BY <1>2, <1>4, <1>5
<1>8. Len(sent) \in Nat
  OBVIOUS
<1>9. Runs(u, sent, from, mid)
  <2>1. mid <= Len(sent)
    BY <1>2, <1>8
  <2>2. ASSUME NEW i \in 1..n PROVE u[i] = sent[from + i]
    <3>1. i \in 1..l
      BY <1>2
    <3>2. s[i] = sent[from + i]
      BY <1>2, <3>1
    <3> QED BY <1>6, <3>2
  <2> QED BY <1>6, <2>1, <2>2 DEF Runs
<1>10. Runs(v, sent, mid, to)
  <2>1. ASSUME NEW i \in 1..(l - n) PROVE v[i] = sent[mid + i]
    <3>1. n + i \in 1..l /\ from + (n + i) = mid + i
      BY <1>2
    <3> QED BY <1>2, <1>7, <3>1
  <2>2. mid + (l - n) = to
    BY <1>2
  <2> QED BY <1>2, <1>7, <2>1, <2>2 DEF Runs
<1> QED BY <1>1, <1>5, <1>6, <1>7, <1>9, <1>10

\* Two runs, one behind the other.
LEMMA RunsJoin ==
  ASSUME NEW S, NEW s, NEW t, NEW sent, NEW from \in Nat, NEW mid \in Nat, NEW to \in Nat,
         s \in Seq(S), t \in Seq(S), sent \in Seq(S),
         Runs(s, sent, from, mid), Runs(t, sent, mid, to)
  PROVE  s \o t \in Seq(S) /\ Runs(s \o t, sent, from, to)
<1>1. PICK m, n \in Nat : m = Len(s) /\ n = Len(t)
  OBVIOUS
<1>2. PICK u : u = s \o t
  OBVIOUS
<1>3. /\ u \in Seq(S) /\ Len(u) = m + n
      /\ \A i \in 1..m + n : u[i] = IF i <= m THEN s[i] ELSE t[i - m]
  BY <1>1, <1>2, ConcatProperties
<1>4. /\ from + m = mid /\ mid + n = to /\ to <= Len(sent)
      /\ \A i \in 1..m : s[i] = sent[from + i]
      /\ \A i \in 1..n : t[i] = sent[mid + i]
  BY <1>1 DEF Runs
<1>5. ASSUME NEW i \in 1..m + n PROVE u[i] = sent[from + i]
  <2>1. CASE i <= m
    <3>1. i \in 1..m
      BY <2>1
    <3>2. s[i] = sent[from + i]
      BY <1>4, <3>1
    <3> QED BY <1>3, <2>1, <3>2
  <2>2. CASE ~(i <= m)
    <3>1. i - m \in 1..n /\ mid + (i - m) = from + i
      BY <1>4, <2>2
    <3>2. t[i - m] = sent[mid + (i - m)]
      BY <1>4, <3>1
    <3> QED BY <1>3, <2>2, <3>1, <3>2
  <2> QED BY <2>1, <2>2
<1>6. from + (m + n) = to
  BY <1>4
<1>7. Runs(u, sent, from, to)
  BY <1>3, <1>4, <1>5, <1>6 DEF Runs
<1> QED BY <1>2, <1>3, <1>7

\* Nothing runs from a place to itself.
LEMMA RunsNothing ==
  ASSUME NEW sent, NEW from \in Nat, from <= Len(sent) PROVE Runs(<<>>, sent, from, from)
BY DEF Runs

\* Where a run begins and ends.
LEMMA RunsBounds ==
  ASSUME NEW S, NEW s, NEW sent, NEW from \in Nat, NEW to, s \in Seq(S), sent \in Seq(S),
         Runs(s, sent, from, to)
  PROVE  to \in Nat /\ from <= to /\ to <= Len(sent) /\ (s = <<>> => from = to)
BY DEF Runs

\* What is sent later changes nothing.
LEMMA RunsMore ==
  ASSUME NEW S, NEW s, NEW sent, NEW more, NEW from \in Nat, NEW to \in Nat,
         s \in Seq(S), sent \in Seq(S), more \in Seq(S), Runs(s, sent, from, to)
  PROVE  Runs(s, sent \o more, from, to)
<1>1. PICK l, m, n \in Nat : l = Len(s) /\ m = Len(sent) /\ n = Len(more)
  OBVIOUS
<1>2. PICK u : u = sent \o more
  OBVIOUS
<1>3. Len(u) = m + n /\ \A i \in 1..m + n : u[i] = IF i <= m THEN sent[i] ELSE more[i - m]
  BY <1>1, <1>2, ConcatProperties
<1>4. from + l = to /\ to <= m /\ \A i \in 1..l : s[i] = sent[from + i]
  BY <1>1 DEF Runs
<1>5. ASSUME NEW i \in 1..l PROVE s[i] = u[from + i]
  <2>1. from + i \in 1..m + n /\ from + i <= m
    BY <1>4
  <2> QED BY <1>3, <1>4, <2>1
<1>6. Runs(s, u, from, to)
  BY <1>1, <1>3, <1>4, <1>5 DEF Runs
<1> QED BY <1>2, <1>6

\* Where the requests begin.
LEMMA StreamFacts ==
  ASSUME TypeOK, NEW start, NEW sent, Stream(start, sent)
  PROVE  /\ sent \in Seq(Sendable) /\ Len(asked) \in Nat /\ DOMAIN asked = 1..Len(asked)
         /\ \A k \in 1..(Len(asked) + 1) : start[k] \in Nat
         /\ start[Len(asked) + 1] = Len(sent) /\ HeadSize \in Nat \ {0}
         /\ \A k \in DOMAIN asked : asked[k].length \in Nat
<1>1. asked \in Seq(Requests)
  BY DEF TypeOK
<1>2. Len(asked) \in Nat /\ DOMAIN asked = 1..Len(asked)
  BY <1>1
<1>3. /\ start \in [1..(Len(asked) + 1) -> Nat]
      /\ sent \in Seq(Sendable) /\ Len(sent) = start[Len(asked) + 1]
  BY DEF Stream
<1> QED BY <1>2, <1>3, AskedTypes, ConversationAssumption

\* What follows the requests that were parsed is the head of the next one.
LEMMA HeadUnits ==
  ASSUME TypeOK, NEW start, NEW sent, NEW b, NEW to, Stream(start, sent), b \in Seq(Sendable),
         Len(seen) <= Len(asked), b # <<>>, Runs(b, sent, start[Len(seen) + 1], to)
  PROVE  /\ Len(seen) + 1 \in DOMAIN asked
         /\ \A i \in 1..Len(b) : i <= HeadSize => b[i] = <<Len(seen) + 1, "head", i>>
<1>0. PICK n \in Nat : n = Len(seen) /\ n <= Len(asked)
  BY DEF TypeOK
<1>1. PICK a \in Nat : a = Len(asked) /\ DOMAIN asked = 1..a
  BY StreamFacts
<1>2. PICK f : f = start[n + 1]
  OBVIOUS
<1>3. f \in Nat /\ (n = a => f = Len(sent)) /\ Len(sent) \in Nat
  BY <1>0, <1>1, <1>2, StreamFacts
<1>4. Len(b) \in Nat \ {0}
  BY EmptySeq
<1>5. f + Len(b) <= Len(sent) /\ \A i \in 1..Len(b) : b[i] = sent[f + i]
  BY <1>0, <1>2 DEF Runs
<1>6. n # a
  BY <1>3, <1>4, <1>5
<1>7. n + 1 \in DOMAIN asked
  BY <1>0, <1>1, <1>6
<1>8. PICK k \in DOMAIN asked : k = n + 1
  BY <1>7
<1>9. \A i \in 1..HeadSize : sent[start[k] + i] = <<k, "head", i>>
  BY DEF Stream
<1>10. ASSUME NEW i \in 1..Len(b), i <= HeadSize PROVE b[i] = <<n + 1, "head", i>>
  <2>1. i \in 1..HeadSize
    BY <1>10, ConversationAssumption
  <2>2. sent[f + i] = <<k, "head", i>>
    BY <1>2, <1>8, <1>9, <2>1
  <2> QED BY <1>5, <1>8, <2>2
<1> QED BY <1>0, <1>7, <1>10

\* What follows a head is the body, up to the next request.
LEMMA BodyUnits ==
  ASSUME TypeOK, NEW start, NEW sent, NEW s, NEW k \in DOMAIN asked, NEW to \in Nat,
         Stream(start, sent), s \in Seq(Sendable),
         Runs(s, sent, start[k] + HeadSize, to), to <= start[k + 1]
  PROVE  IsPrefix(s, BodyOf(k))
<1>1. PICK f, h, l \in Nat : f = start[k] /\ h = HeadSize /\ l = asked[k].length
  <2>1. k \in 1..(Len(asked) + 1)
    BY StreamFacts
  <2> QED BY <2>1, StreamFacts
<1>2. start[k + 1] = f + h + l /\ \A i \in 1..l : sent[f + h + i] = <<k, "body", i>>
  BY <1>1 DEF Stream
<1>3. PICK n \in Nat : n = Len(s)
  OBVIOUS
<1>4. f + h + n = to /\ \A i \in 1..n : s[i] = sent[f + h + i]
  BY <1>1, <1>3 DEF Runs
<1>5. n <= l
  BY <1>2, <1>4
<1>6. PICK b : b = BodyOf(k)
  OBVIOUS
<1>7. b = [i \in 1..l |-> <<k, "body", i>>]
  BY <1>1, <1>6 DEF BodyOf
<1>8. b \in [1..l -> Sendable]
  BY <1>7 DEF Sendable
<1>9. b \in Seq(Sendable) /\ Len(b) = l
  BY <1>8, FunctionSeq
<1>10. ASSUME NEW i \in 1..Len(s) PROVE s[i] = b[i]
  <2>1. i \in 1..n /\ i \in 1..l
    BY <1>3, <1>5
  <2>2. s[i] = <<k, "body", i>>
    BY <1>2, <1>4, <2>1
  <2> QED BY <1>7, <2>1, <2>2
<1>11. Len(s) <= Len(b)
  BY <1>3, <1>5, <1>9
<1>12. IsPrefix(s, b)
  BY <1>9, <1>10, <1>11, PrefixPointwise
<1> QED BY <1>6, <1>12

\* What was parsed.
LEMMA SeenTypes ==
  ASSUME TypeOK, NEW j \in DOMAIN seen
  PROVE  seen[j].msg \in DOMAIN asked /\ seen[j].body \in Seq(Sendable)
<1>1. PICK T : T = [msg : DOMAIN asked, exact : BOOLEAN, body : Seq(Sendable)]
  OBVIOUS
<1>2. seen \in Seq(T)
  BY <1>1 DEF TypeOK
<1>3. seen[j] \in T
  BY <1>2
<1> QED BY <1>1, <1>3

\* What the last request is made of.
LEMMA LastTypes ==
  ASSUME TypeOK, seen # <<>>
  PROVE  /\ Len(seen) \in DOMAIN seen /\ Last(seen) = seen[Len(seen)]
         /\ Last(seen).msg \in DOMAIN asked /\ Last(seen).body \in Seq(Sendable)
<1>1. PICK T : T = [msg : DOMAIN asked, exact : BOOLEAN, body : Seq(Sendable)]
  OBVIOUS
<1>2. seen \in Seq(T)
  BY <1>1 DEF TypeOK
<1>3. Len(seen) \in DOMAIN seen
  BY <1>2, EmptySeq
<1>4. Last(seen) = seen[Len(seen)]
  BY DEF Last
<1> QED BY <1>3, <1>4, SeenTypes

\* A step that leaves the stream and what was taken of it.
LEMMA CutIdle ==
  ASSUME UNCHANGED <<asked, toSend, wire, seen, requestBuffer, initial, bodyLeft, phase, aligned>>,
         Framed, Cutting, closeConnection => closeConnection'
  PROVE  Framed' /\ Cutting'
<1>1. Framed'
  BY DEF Framed, BodyOf
<1>2. ASSUME aligned', GoesOn'
      PROVE  \E start, sent : \E pos, arrived \in Nat :
                Stream(start, sent)' /\ Cut(start, sent, pos, arrived)'
  <2>1. aligned /\ GoesOn
    BY <1>2 DEF GoesOn
  <2>2. PICK start, sent : \E pos, arrived \in Nat :
                Stream(start, sent) /\ Cut(start, sent, pos, arrived)
    BY <2>1 DEF Cutting
  <2>3. PICK pos \in Nat, arrived \in Nat : Stream(start, sent) /\ Cut(start, sent, pos, arrived)
    BY <2>2
  <2>4. Stream(start, sent)'
    BY <2>3 DEF Stream, Sendable
  <2>5. Cut(start, sent, pos, arrived)'
    BY <2>3 DEF Cut
  <2> QED BY <2>4, <2>5
<1> QED BY <1>1, <1>2 DEF Cutting

\* What arrives moves from what the client has to send to the wire.
LEMMA CutDeliver ==
  ASSUME TypeOK, Framed, Cutting, NEW n \in 1..Len(toSend), Deliver(n)
  PROVE  Framed' /\ Cutting'
<1>1. /\ UNCHANGED <<asked, requestBuffer, initial, bodyLeft, seen, phase, aligned, closeConnection>>
      /\ wire' = wire \o SubSeq(toSend, 1, n) /\ toSend' = SubSeq(toSend, n + 1, Len(toSend))
  BY DEF Deliver, outVars
<1>2. Framed'
  BY <1>1 DEF Framed, BodyOf
<1>3. ASSUME aligned', GoesOn'
      PROVE  \E start, sent : \E pos, arrived \in Nat :
                Stream(start, sent)' /\ Cut(start, sent, pos, arrived)'
  <2>1. aligned /\ GoesOn
    BY <1>1, <1>3 DEF GoesOn
  <2>2. PICK start, sent : \E pos, arrived \in Nat :
                Stream(start, sent) /\ Cut(start, sent, pos, arrived)
    BY <2>1 DEF Cutting
  <2>3. PICK pos \in Nat, arrived \in Nat : Stream(start, sent) /\ Cut(start, sent, pos, arrived)
    BY <2>2
  <2>4. Stream(start, sent)'
    BY <1>1, <2>3 DEF Stream, Sendable
  <2>5. /\ wire \in Seq(Sendable) /\ toSend \in Seq(Sendable) /\ sent \in Seq(Sendable)
        /\ Runs(wire, sent, pos, arrived) /\ Runs(toSend, sent, arrived, Len(sent))
    BY <2>3 DEF TypeOK, Cut, Stream
  <2>6. PICK m \in Nat, k \in Nat, l \in Nat : m = n /\ k = arrived + n /\ l = Len(sent)
    <3>1. Len(sent) \in Nat /\ Len(toSend) \in Nat
      BY <2>5
    <3>2. n \in Nat /\ arrived + n \in Nat
      BY <3>1
    <3> QED BY <3>1, <3>2
  <2>7. m <= Len(toSend) /\ arrived + m = k
    BY <2>5, <2>6
  <2>8. PICK u, v : u = SubSeq(toSend, 1, n) /\ v = SubSeq(toSend, n + 1, Len(toSend))
    OBVIOUS
  <2>9. /\ u \in Seq(Sendable) /\ Runs(u, sent, arrived, k) /\ Runs(v, sent, k, l)
    BY <2>5, <2>6, <2>7, <2>8, RunsSplit
  <2>10. Runs(wire \o u, sent, pos, k)
    BY <2>5, <2>9, RunsJoin
  <2>11. wire' = wire \o u /\ toSend' = v
    BY <1>1, <2>8
  <2>12. Cut(start, sent, pos, k)'
    BY <1>1, <2>3, <2>6, <2>9, <2>10, <2>11 DEF Cut
  <2> QED BY <2>4, <2>12
<1> QED BY <1>2, <1>3 DEF Cutting

\* The sizes of which the stream is made.
LEMMA StreamSizes ==
  ASSUME TypeOK, NEW r \in Requests
  PROVE  Len(asked) \in Nat /\ HeadSize \in Nat /\ r.length \in Nat
BY LengthTypes, ConversationAssumption DEF TypeOK

\* The units of the next request.
LEMMA AskUnits ==
  ASSUME TypeOK, NEW r \in Requests, Ask(r)
  PROVE  /\ Len(toSend') = HeadSize + r.length
         /\ \A i \in 1..HeadSize : toSend'[i] = <<Len(asked) + 1, "head", i>>
         /\ \A i \in 1..r.length : toSend'[HeadSize + i] = <<Len(asked) + 1, "body", i>>
<1>0. PICK n \in Nat, h \in Nat, l \in Nat : n = Len(asked) /\ h = HeadSize /\ l = r.length
  BY StreamSizes
<1>1. PICK S : S = {n + 1} \X {"head", "body"} \X Nat
  OBVIOUS
<1> DEFINE H == [i \in 1..h |-> <<n + 1, "head", i>>]
           B == [i \in 1..l |-> <<n + 1, "body", i>>]
<1>2. H \in [1..h -> S] /\ B \in [1..l -> S]
  BY <1>1
<1>3. /\ H \in Seq(S) /\ Len(H) = h /\ B \in Seq(S) /\ Len(B) = l
      /\ \A i \in 1..h : H[i] = <<n + 1, "head", i>>
      /\ \A i \in 1..l : B[i] = <<n + 1, "body", i>>
  BY <1>2, FunctionSeq
<1>4. Len(asked') = n + 1
  BY <1>0 DEF Ask, TypeOK
<1>5. toSend' = H \o B
  BY <1>0, <1>4 DEF Ask, HeadOf
<1> HIDE DEF H, B
<1>6. PICK t : t = H \o B
  OBVIOUS
<1>7. Len(t) = h + l /\ \A i \in 1..h + l : t[i] = IF i <= h THEN H[i] ELSE B[i - h]
  <2>1. H \in Seq(S) /\ B \in Seq(S) /\ Len(H) = h /\ Len(B) = l
    BY <1>3
  <2> QED BY ONLY <1>6, <2>1, ConcatProperties
<1>8. ASSUME NEW i \in 1..h PROVE t[i] = <<n + 1, "head", i>>
  <2>1. i \in 1..h + l /\ i <= h
    OBVIOUS
  <2>2. t[i] = H[i]
    BY <1>7, <2>1
  <2> QED BY <1>3, <2>2
<1>9. ASSUME NEW i \in 1..l PROVE t[h + i] = <<n + 1, "body", i>>
  <2>1. PICK k : k = h + i
    OBVIOUS
  <2>2. k \in 1..h + l /\ ~(k <= h) /\ k - h = i
    BY <2>1
  <2>3. t[k] = B[i]
    BY <1>7, <2>2
  <2> QED BY <1>3, <2>1, <2>3
<1> QED BY <1>0, <1>5, <1>6, <1>7, <1>8, <1>9

\* The stream goes on with it.
LEMMA StreamAsk ==
  ASSUME TypeOK, NEW r \in Requests, Ask(r), NEW start, NEW sent, Stream(start, sent)
  PROVE  \E z, w : /\ Stream(z, w)' /\ w = sent \o toSend'
                   /\ \A k \in 1..(Len(asked) + 1) : z[k] = start[k]
<1>1. PICK n \in Nat : n = Len(asked)
  BY StreamFacts
<1>2. PICK h \in Nat, l \in Nat : h = HeadSize /\ l = r.length
  BY LengthTypes, ConversationAssumption
<1>0. /\ Len(toSend') = HeadSize + r.length
      /\ \A i \in 1..HeadSize : toSend'[i] = <<Len(asked) + 1, "head", i>>
      /\ \A i \in 1..r.length : toSend'[HeadSize + i] = <<Len(asked) + 1, "body", i>>
  BY AskUnits
<1>3. PICK t, S, before, after : t = toSend' /\ S = Sendable' /\ before = asked /\ after = asked'
  OBVIOUS
<1>4. PICK e \in Nat : e = Len(sent)
  BY StreamFacts
<1>5. /\ before \in Seq(Requests) /\ after = Append(before, r) /\ Len(before) = n /\ Sendable \subseteq S
  <2>1. asked \in Seq(Requests) /\ asked' = Append(asked, r)
    BY DEF TypeOK, Ask
  <2>2. DOMAIN asked \subseteq DOMAIN asked'
    BY <2>1
  <2> QED BY <1>1, <1>3, <2>1, <2>2 DEF Sendable
<1>6. /\ Len(after) = n + 1 /\ DOMAIN after = 1..(n + 1) /\ after[n + 1] = r
      /\ \A k \in 1..n : after[k] = before[k]
  <2>1. before \in Seq(Requests) /\ after = Append(before, r) /\ Len(before) = n
    BY <1>5
  <2>2. r \in Requests
    OBVIOUS
  <2>3. after \in Seq(Requests) /\ Len(after) = n + 1
    BY <2>1, <2>2
  <2>4. DOMAIN after = 1..(n + 1)
    BY ONLY <2>3
  <2>5. /\ Append(before, r)[Len(before) + 1] = r
        /\ \A i \in 1..Len(before) : Append(before, r)[i] = before[i]
    BY <2>1, AppendFacts
  <2> QED BY ONLY <2>1, <2>3, <2>4, <2>5
<1>7. t \in Seq(S)
  BY <1>3, AskTypes DEF TypeOK
<1>8. /\ Len(t) = h + l
      /\ \A i \in 1..h : t[i] = <<n + 1, "head", i>>
      /\ \A i \in 1..l : t[h + i] = <<n + 1, "body", i>>
  BY <1>0, <1>1, <1>2, <1>3
<1>9. /\ start \in [1..(n + 1) -> Nat] /\ start[1] = 0 /\ sent \in Seq(S) /\ e = start[n + 1]
      /\ \A k \in 1..n :
            /\ start[k + 1] = start[k] + h + before[k].length /\ start[k + 1] <= e
            /\ \A i \in 1..h : sent[start[k] + i] = <<k, "head", i>>
            /\ \A i \in 1..before[k].length : sent[start[k] + h + i] = <<k, "body", i>>
  <2>1. sent \in Seq(S)
    BY <1>5, SeqMonotonic DEF Stream
  <2>2. DOMAIN asked = 1..n
    BY <1>1, StreamFacts
  <2> QED BY <1>1, <1>2, <1>3, <1>4, <2>1, <2>2 DEF Stream
<1>10. PICK w : w = sent \o t
  OBVIOUS
<1>11. /\ w \in Seq(S) /\ Len(w) = e + (h + l)
       /\ \A i \in 1..e + (h + l) : w[i] = IF i <= e THEN sent[i] ELSE t[i - e]
  <2>1. /\ sent \in Seq(S) /\ t \in Seq(S) /\ Len(sent) = e /\ Len(t) = h + l
        /\ w = sent \o t
    BY <1>4, <1>7, <1>8, <1>9, <1>10
  <2>2. /\ sent \o t \in Seq(S) /\ Len(sent \o t) = Len(sent) + Len(t)
        /\ \A i \in 1..Len(sent) + Len(t) :
              (sent \o t)[i] = IF i <= Len(sent) THEN sent[i] ELSE t[i - Len(sent)]
    BY ONLY <2>1, ConcatProperties
  <2> QED BY ONLY <2>1, <2>2
<1>12. PICK z : z = [k \in 1..(n + 2) |-> IF k <= n + 1 THEN start[k] ELSE e + h + l]
  OBVIOUS
<1>13. /\ z \in [1..(n + 2) -> Nat] /\ z[1] = 0 /\ Len(w) = z[n + 2] /\ z[n + 1] = e
       /\ \A k \in 1..(n + 1) : z[k] = start[k]
  BY <1>9, <1>11, <1>12
<1>14. ASSUME NEW k \in 1..n PROVE before[k].length \in Nat
  <2>1. before \in Seq(Requests) /\ Len(before) = n
    BY <1>5
  <2>2. before[k] \in Requests
    BY <2>1, ElementOfSeq
  <2> QED BY <2>2, LengthTypes
<1>15. ASSUME NEW k \in 1..n
       PROVE  /\ z[k + 1] = z[k] + h + after[k].length /\ z[k + 1] <= Len(w)
              /\ \A i \in 1..h : w[z[k] + i] = <<k, "head", i>>
              /\ \A i \in 1..after[k].length : w[z[k] + h + i] = <<k, "body", i>>
  <2>0. k \in 1..(n + 1) /\ k + 1 \in 1..(n + 1)
    OBVIOUS
  <2>1. PICK f \in Nat, m \in Nat : f = start[k] /\ m = before[k].length
    <3>1. start[k] \in Nat
      BY <1>9, <2>0
    <3> QED BY <1>14, <3>1
  <2>2. z[k] = f /\ after[k].length = m /\ z[k + 1] = start[k + 1]
    <3>1. after[k] = before[k]
      BY <1>6
    <3> QED BY <1>13, <2>0, <2>1, <3>1
  <2>3. /\ start[k + 1] = f + h + m /\ f + h + m <= e
        /\ \A i \in 1..h : sent[f + i] = <<k, "head", i>>
        /\ \A i \in 1..m : sent[f + h + i] = <<k, "body", i>>
    BY <1>9, <2>1
  <2>4. ASSUME NEW i \in 1..h PROVE w[f + i] = <<k, "head", i>>
    <3>1. PICK x : x = f + i
      OBVIOUS
    <3>2. x \in 1..e + (h + l) /\ x <= e
      BY <2>3, <3>1
    <3>3. w[x] = sent[x]
      BY <1>11, <3>2
    <3> QED BY <2>3, <3>1, <3>3
  <2>5. ASSUME NEW i \in 1..m PROVE w[f + h + i] = <<k, "body", i>>
    <3>1. PICK x : x = f + h + i
      OBVIOUS
    <3>2. x \in 1..e + (h + l) /\ x <= e
      BY <2>3, <3>1
    <3>3. w[x] = sent[x]
      BY <1>11, <3>2
    <3> QED BY <2>3, <3>1, <3>3
  <2>6. z[k + 1] = f + h + m /\ z[k + 1] <= Len(w)
    BY <1>11, <2>2, <2>3
  <2> QED BY <2>2, <2>4, <2>5, <2>6
<1>16. /\ z[n + 2] = z[n + 1] + h + after[n + 1].length /\ z[n + 2] <= Len(w)
       /\ \A i \in 1..h : w[z[n + 1] + i] = <<n + 1, "head", i>>
       /\ \A i \in 1..after[n + 1].length : w[z[n + 1] + h + i] = <<n + 1, "body", i>>
  <2>1. after[n + 1].length = l /\ z[n + 1] = e /\ z[n + 2] = e + h + l /\ Len(w) = e + h + l
    <3>1. after[n + 1].length = l
      BY <1>2, <1>6
    <3>2. z[n + 1] = e /\ z[n + 2] = Len(w)
      BY <1>13
    <3>3. Len(w) = e + (h + l) /\ e \in Nat /\ h \in Nat /\ l \in Nat
      BY <1>2, <1>4, <1>11
    <3> QED BY ONLY <3>1, <3>2, <3>3
  <2>2. ASSUME NEW i \in 1..h PROVE w[e + i] = <<n + 1, "head", i>>
    <3>1. PICK x : x = e + i
      OBVIOUS
    <3>2. x \in 1..e + (h + l) /\ ~(x <= e) /\ x - e = i
      BY <3>1
    <3>3. w[x] = t[i]
      BY <1>11, <3>2
    <3> QED BY <1>8, <3>1, <3>3
  <2>3. ASSUME NEW i \in 1..l PROVE w[e + h + i] = <<n + 1, "body", i>>
    <3>1. PICK x : x = e + h + i
      OBVIOUS
    <3>2. x \in 1..e + (h + l) /\ ~(x <= e) /\ x - e = h + i
      BY <3>1
    <3>3. w[x] = t[h + i]
      BY <1>11, <3>2
    <3>4. t[h + i] = <<n + 1, "body", i>>
      BY <1>8
    <3> QED BY <3>1, <3>3, <3>4
  <2>4. z[n + 2] = z[n + 1] + h + after[n + 1].length /\ z[n + 2] <= Len(w)
    BY <2>1
  <2>5. \A i \in 1..h : w[z[n + 1] + i] = <<n + 1, "head", i>>
    BY <2>1, <2>2
  <2>6. \A i \in 1..after[n + 1].length : w[z[n + 1] + h + i] = <<n + 1, "body", i>>
    BY <2>1, <2>3
  <2> QED BY <2>4, <2>5, <2>6
<1>17. \A k \in DOMAIN after :
          /\ z[k + 1] = z[k] + h + after[k].length /\ z[k + 1] <= Len(w)
          /\ \A i \in 1..h : w[z[k] + i] = <<k, "head", i>>
          /\ \A i \in 1..after[k].length : w[z[k] + h + i] = <<k, "body", i>>
  <2>1. ASSUME NEW k \in DOMAIN after, k \notin 1..n PROVE k = n + 1 /\ k + 1 = n + 2
    BY <1>6, <2>1
  <2> QED BY <1>15, <1>16, <2>1
<1>18. Stream(z, w)'
  <2>1. Len(after) + 1 = n + 2
    BY <1>6
  <2> QED BY <1>2, <1>3, <1>11, <1>13, <1>17, <2>1 DEF Stream
<1> QED BY <1>1, <1>3, <1>10, <1>13, <1>18

\* The client makes its stream longer, and the server has what it had.
LEMMA CutAsk ==
  ASSUME TypeOK, Framed, Cutting, NEW r \in Requests, Ask(r)
  PROVE  Framed' /\ Cutting'
<1>1. /\ UNCHANGED <<wire, requestBuffer, initial, bodyLeft, seen, phase, aligned, closeConnection>>
      /\ asked' = Append(asked, r) /\ toSend = <<>> /\ asked \in Seq(Requests)
  BY DEF Ask, inVars, outVars, TypeOK
<1>2. /\ \A k \in DOMAIN asked : k \in DOMAIN asked' /\ asked'[k] = asked[k]
      /\ Len(asked') = Len(asked) + 1 /\ Len(asked) \in Nat
  BY <1>1
<1>3. Framed'
  <2> SUFFICES ASSUME aligned, NEW j \in DOMAIN seen
               PROVE  seen[j].msg = j /\ seen[j].exact /\ IsPrefix(seen[j].body, BodyOf(j)')
    BY <1>1 DEF Framed
  <2>1. seen[j].msg = j /\ seen[j].exact /\ IsPrefix(seen[j].body, BodyOf(j))
    BY DEF Framed
  <2>2. j \in DOMAIN asked
    <3>1. seen[j].msg \in DOMAIN asked
      BY SeenTypes
    <3> QED BY <2>1, <3>1
  <2>3. BodyOf(j)' = BodyOf(j)
    BY <1>2, <2>2 DEF BodyOf
  <2> QED BY <2>1, <2>3
<1>4. ASSUME aligned', GoesOn'
      PROVE  \E start, sent : \E pos, arrived \in Nat :
                Stream(start, sent)' /\ Cut(start, sent, pos, arrived)'
  <2>1. aligned /\ GoesOn
    BY <1>1, <1>4 DEF GoesOn
  <2>2. PICK start, sent : \E pos, arrived \in Nat :
                Stream(start, sent) /\ Cut(start, sent, pos, arrived)
    BY <2>1 DEF Cutting
  <2>3. PICK pos \in Nat, arrived \in Nat : Stream(start, sent) /\ Cut(start, sent, pos, arrived)
    BY <2>2
  <2>4. PICK z, w : /\ Stream(z, w)' /\ w = sent \o toSend'
                    /\ \A k \in 1..(Len(asked) + 1) : z[k] = start[k]
    BY <2>3, StreamAsk
  <2>5. PICK S : S = Sendable'
    OBVIOUS
  <2>6. /\ \A s \in Seq(Sendable) : s \in Seq(S)
        /\ toSend' \in Seq(S)
    <3>1. Sendable \subseteq S
      BY <1>2, <2>5 DEF Sendable
    <3>2. toSend' \in Seq(S)
      BY <2>5, AskTypes DEF TypeOK
    <3> QED BY <3>1, <3>2, SeqMonotonic
  <2>7. PICK t : t = toSend'
    OBVIOUS
  <2>8. sent \in Seq(S) /\ t \in Seq(S) /\ w = sent \o t
    BY <2>3, <2>4, <2>6, <2>7 DEF Stream
  <2>9. ASSUME NEW s \in Seq(Sendable), NEW from \in Nat, NEW to \in Nat, Runs(s, sent, from, to)
        PROVE  Runs(s, w, from, to)
    <3>1. s \in Seq(S)
      BY <2>6
    <3>2. Runs(s, sent \o t, from, to)
      BY <2>8, <2>9, <3>1, RunsMore
    <3> QED BY <2>8, <3>2
  <2>10. Runs(wire, w, pos, arrived)
    BY <2>3, <2>9 DEF TypeOK, Cut
  <2>11. Runs(t, w, arrived, Len(w))
    <3>1. arrived = Len(sent)
      BY <1>1, <2>3 DEF Cut, Runs
    <3>2. PICK m, n \in Nat : m = Len(sent) /\ n = Len(t)
      BY <2>8
    <3>3. Len(w) = m + n /\ \A i \in 1..m + n : w[i] = IF i <= m THEN sent[i] ELSE t[i - m]
      BY <2>8, <3>2, ConcatProperties
    <3>4. ASSUME NEW i \in 1..n PROVE t[i] = w[m + i]
      <4>1. PICK x : x = m + i
        OBVIOUS
      <4>2. x \in 1..m + n /\ ~(x <= m) /\ x - m = i
        BY <4>1
      <4> QED BY <3>3, <4>1, <4>2
    <3>5. arrived = m /\ Len(t) = n /\ Len(w) = m + n
      BY <3>1, <3>2, <3>3
    <3>6. arrived + Len(t) = Len(w) /\ Len(w) <= Len(w)
      BY <3>5
    <3>7. \A i \in 1..Len(t) : t[i] = w[arrived + i]
      BY <3>4, <3>5
    <3> QED BY <3>6, <3>7 DEF Runs
  <2>12. Cut(z, w, pos, arrived)'
    <3>1. phase = "read" =>
             /\ Len(seen) <= Len(asked') /\ Len(requestBuffer) < HeadSize
             /\ Runs(requestBuffer, w, z[Len(seen) + 1], pos)
      <4> SUFFICES ASSUME phase = "read"
                   PROVE  /\ Len(seen) <= Len(asked') /\ Len(requestBuffer) < HeadSize
                          /\ Runs(requestBuffer, w, z[Len(seen) + 1], pos)
        OBVIOUS
      <4>1. /\ Len(seen) <= Len(asked) /\ Len(requestBuffer) < HeadSize
            /\ Runs(requestBuffer, sent, start[Len(seen) + 1], pos)
        BY <2>3 DEF Cut
      <4>2. PICK k \in 1..(Len(asked) + 1) : k = Len(seen) + 1
        BY <1>2, <4>1 DEF TypeOK
      <4>3. start[k] \in Nat /\ z[k] = start[k] /\ requestBuffer \in Seq(Sendable)
        BY <2>3, <2>4, StreamFacts DEF TypeOK
      <4>4. Runs(requestBuffer, w, start[k], pos)
        BY <2>9, <4>1, <4>2, <4>3
      <4> QED BY <1>2, <4>1, <4>2, <4>3, <4>4 DEF TypeOK
    <3>2. phase = "handle" =>
             /\ Len(seen) \in DOMAIN asked'
             /\ \E read \in Nat :
                   /\ Runs(Last(seen).body, w, z[Len(seen)] + HeadSize, read)
                   /\ Runs(initial, w, read, pos)
                   /\ read + bodyLeft = z[Len(seen) + 1]
      <4> SUFFICES ASSUME phase = "handle"
                   PROVE  /\ Len(seen) \in DOMAIN asked'
                          /\ \E read \in Nat :
                                /\ Runs(Last(seen).body, w, z[Len(seen)] + HeadSize, read)
                                /\ Runs(initial, w, read, pos)
                                /\ read + bodyLeft = z[Len(seen) + 1]
        OBVIOUS
      <4>1. PICK read \in Nat :
               /\ Len(seen) \in DOMAIN asked
               /\ Runs(Last(seen).body, sent, start[Len(seen)] + HeadSize, read)
               /\ Runs(initial, sent, read, pos)
               /\ read + bodyLeft = start[Len(seen) + 1]
        BY <2>3 DEF Cut
      <4>2. PICK k \in 1..Len(asked) : k = Len(seen) /\ k \in DOMAIN asked
        BY <1>1, <4>1
      <4>3. k \in 1..(Len(asked) + 1) /\ k + 1 \in 1..(Len(asked) + 1)
        BY <1>2
      <4>4. start[k] \in Nat /\ z[k] = start[k] /\ z[k + 1] = start[k + 1] /\ HeadSize \in Nat
        BY <2>3, <2>4, <4>3, StreamFacts
      <4>5. Last(seen).body \in Seq(Sendable) /\ initial \in Seq(Sendable)
        <5>1. seen # <<>>
          BY <4>2
        <5> QED BY <5>1, LastTypes DEF TypeOK
      <4>6. PICK f \in Nat : f = start[k] + HeadSize
        BY <4>4
      <4>7. Runs(Last(seen).body, w, f, read) /\ Runs(initial, w, read, pos)
        BY <2>9, <4>1, <4>2, <4>5, <4>6
      <4> QED BY <1>2, <4>1, <4>2, <4>4, <4>6, <4>7
    <3>3. phase = "write" => Len(seen) <= Len(asked') /\ pos = z[Len(seen) + 1]
      <4> SUFFICES ASSUME phase = "write"
                   PROVE  Len(seen) <= Len(asked') /\ pos = z[Len(seen) + 1]
        OBVIOUS
      <4>1. Len(seen) <= Len(asked) /\ pos = start[Len(seen) + 1] /\ Len(seen) \in Nat
        BY <2>3 DEF Cut, TypeOK
      <4>2. Len(seen) + 1 \in 1..(Len(asked) + 1)
        BY <1>2, <4>1
      <4> QED BY <1>2, <2>4, <4>1, <4>2
    <3> QED BY <1>1, <2>7, <2>10, <2>11, <3>1, <3>2, <3>3 DEF Cut
  <2> QED BY <2>4, <2>12
<1> QED BY <1>3, <1>4 DEF Cutting

\* With what recv() returns, the buffer holds what follows the last request.
LEMMA ReadRuns ==
  ASSUME TypeOK, NEW start, NEW sent, NEW pos \in Nat, NEW arrived \in Nat,
         Stream(start, sent), Cut(start, sent, pos, arrived), phase = "read", wire # <<>>
  PROVE  \E q \in Nat :
            /\ NextBuffer \in Seq(Sendable) /\ NextBuffer # <<>>
            /\ Runs(NextBuffer, sent, start[Len(seen) + 1], q)
            /\ Runs(SubSeq(wire, Len(Received) + 1, Len(wire)), sent, q, arrived)
<1>1. PICK m \in 1..Len(wire) :
            /\ Len(Received) = m /\ \A i \in 1..m : Received[i] = wire[i]
            /\ Received \in Seq(Sendable)
            /\ Len(NextBuffer) = Len(requestBuffer) + m
  BY ReceivedFacts
<1>2. PICK u, b : u = Received /\ b = requestBuffer
  OBVIOUS
<1>3. /\ b \in Seq(Sendable) /\ wire \in Seq(Sendable) /\ sent \in Seq(Sendable)
      /\ Runs(wire, sent, pos, arrived) /\ Len(wire) \in Nat
      /\ Runs(b, sent, start[Len(seen) + 1], pos)
  BY <1>2 DEF TypeOK, Cut, Stream
<1>4. PICK f \in Nat : f = start[Len(seen) + 1]
  <2>1. Len(seen) <= Len(asked) /\ Len(seen) \in Nat /\ Len(asked) \in Nat
    BY StreamFacts DEF Cut, TypeOK
  <2>2. Len(seen) + 1 \in 1..(Len(asked) + 1)
    BY <2>1
  <2> QED BY <2>2, StreamFacts
<1>5. m \in Nat /\ m <= Len(wire) /\ m # 0
  BY <1>3
<1>6. PICK q \in Nat : pos + m = q
  BY <1>5
<1>7. PICK v, w : v = SubSeq(wire, 1, m) /\ w = SubSeq(wire, m + 1, Len(wire))
  OBVIOUS
<1>8. v \in Seq(Sendable) /\ Runs(v, sent, pos, q) /\ Runs(w, sent, q, arrived)
  BY <1>3, <1>5, <1>6, <1>7, RunsSplit
<1>9. u = v
  <2>1. Len(v) = m /\ \A i \in 1..m : v[i] = wire[i]
    <3>1. /\ Len(SubSeq(wire, 0 + 1, m)) = IF 0 < m THEN m - 0 ELSE 0
          /\ \A i \in 1..Len(SubSeq(wire, 0 + 1, m)) : SubSeq(wire, 0 + 1, m)[i] = wire[0 + i]
      BY <1>3, <1>5, Piece
    <3>2. v = SubSeq(wire, 0 + 1, m)
      BY <1>7
    <3>3. Len(v) = m
      BY <1>5, <3>1, <3>2
    <3> QED BY <3>1, <3>2, <3>3
  <2> QED BY <1>1, <1>2, <1>8, <2>1, SeqEqual
<1>10. b \o u \in Seq(Sendable) /\ Runs(b \o u, sent, f, q)
  BY <1>3, <1>4, <1>8, <1>9, RunsJoin
<1>11. NextBuffer = b \o u
  BY <1>2 DEF NextBuffer
<1>12. NextBuffer # <<>>
  <2>1. Len(requestBuffer) \in Nat
    BY DEF TypeOK
  <2>2. Len(NextBuffer) # 0
    BY <1>1, <1>5, <2>1
  <2> QED BY <2>2
<1> QED BY <1>1, <1>4, <1>7, <1>8, <1>10, <1>11, <1>12

\* The blank line that ends the head is found where it is, and not before.
LEMMA HeadFound ==
  ASSUME TypeOK, NEW n \in Nat, n + 1 \in DOMAIN asked, NextBuffer \in Seq(Sendable),
         \A i \in 1..Len(NextBuffer) : i <= HeadSize => NextBuffer[i] = <<n + 1, "head", i>>
  PROVE  /\ HeadEnds = {} => Len(NextBuffer) < HeadSize
         /\ HeadEnds # {} =>
               /\ Min(HeadEnds) = HeadSize /\ HeadSize <= Len(NextBuffer)
               /\ NextBuffer[Min(HeadEnds)][1] = n + 1 /\ Exact
<1>1. PICK l \in Nat, h \in Nat, b \in Seq(Sendable) : l = Len(NextBuffer) /\ h = HeadSize /\ h # 0 /\ b = NextBuffer
  BY ConversationAssumption
<1>2. DOMAIN b = 1..l /\ b \in Seq(Sendable) /\ \A i \in 1..l : i <= h => b[i] = <<n + 1, "head", i>>
  BY <1>1
<1>3. ASSUME h <= l PROVE h \in HeadEnds
  <2>1. h \in 1..l /\ b[h] = <<n + 1, "head", h>>
    BY <1>1, <1>2, <1>3
  <2> QED BY <1>1, <1>2, <2>1 DEF HeadEnds
<1>4. ASSUME NEW i \in HeadEnds PROVE h <= i /\ i \in 1..l
  <2>1. i \in 1..l /\ b[i][3] = h
    BY <1>1, <1>2 DEF HeadEnds
  <2>2. i <= h => b[i][3] = i
    BY <1>2, <2>1
  <2> QED BY <2>1, <2>2
<1>5. HeadEnds = {} => l < h
  BY <1>1, <1>3
<1>6. ASSUME HeadEnds # {}
      PROVE  /\ Min(HeadEnds) = h /\ h <= l
             /\ b[Min(HeadEnds)][1] = n + 1 /\ Exact
  <2>1. HeadEnds \subseteq Nat
    BY <1>4
  <2>2. PICK m : m = Min(HeadEnds)
    OBVIOUS
  <2>3. m \in HeadEnds /\ \A i \in HeadEnds : m <= i
    BY <1>6, <2>1, <2>2, MinLeast
  <2>4. h <= m /\ m \in 1..l
    BY <1>4, <2>3
  <2>5. h <= l
    BY <2>4
  <2>6. m = h
    BY <1>3, <2>3, <2>4, <2>5
  <2>7. b[h] = <<n + 1, "head", h>>
    BY <1>1, <1>2, <2>5
  <2>8. SubSeq(b, 1, h) = HeadOf(n + 1)
    <3>1. /\ SubSeq(b, 0 + 1, h) \in Seq(Sendable)
          /\ Len(SubSeq(b, 0 + 1, h)) = IF 0 < h THEN h - 0 ELSE 0
          /\ \A i \in 1..Len(SubSeq(b, 0 + 1, h)) : SubSeq(b, 0 + 1, h)[i] = b[0 + i]
      BY <1>1, <1>2, <2>5, Piece
    <3>2. PICK s : s = SubSeq(b, 1, h)
      OBVIOUS
    <3>3. Len(SubSeq(b, 0 + 1, h)) = h
      BY <1>1, <3>1
    <3>4. s \in Seq(Sendable) /\ Len(s) = h /\ \A i \in 1..h : s[i] = b[i]
      BY <3>1, <3>2, <3>3
    <3>5. ASSUME NEW i \in 1..h PROVE s[i] = <<n + 1, "head", i>>
      <4>1. i \in 1..l /\ i <= h
        BY <2>5
      <4>2. b[i] = <<n + 1, "head", i>>
        BY <1>2, <4>1
      <4> QED BY <3>4, <4>2
    <3>6. PICK t : t = [i \in 1..h |-> <<n + 1, "head", i>>]
      OBVIOUS
    <3>7. t \in [1..h -> Sendable]
      <4>1. ASSUME NEW i \in 1..h PROVE t[i] \in Sendable
        <5>1. s[i] \in Sendable
          BY <3>4
        <5>2. s[i] = t[i]
          BY <3>5, <3>6
        <5> QED BY <5>1, <5>2
      <4> QED BY <3>6, <4>1
    <3>8. t \in Seq(Sendable) /\ Len(t) = h
      BY <3>7, FunctionSeq
    <3>9. \A i \in 1..h : s[i] = t[i]
      BY <3>5, <3>6
    <3>10. s = t
      BY <3>4, <3>8, <3>9, SeqEqual
    <3> QED BY <1>1, <3>2, <3>6, <3>10 DEF HeadOf
  <2>9. Exact
    BY <1>1, <2>2, <2>6, <2>8 DEF Exact
  <2>10. b[m][1] = n + 1
    BY <2>6, <2>7
  <2> QED BY <2>2, <2>5, <2>6, <2>9, <2>10
<1> QED BY <1>1, <1>5, <1>6

\* After an error response nothing of the stream matters any more.
LEMMA CutError ==
  ASSUME Framed, SendResponse, UNCHANGED <<asked, seen>>, aligned' => aligned
  PROVE  Framed' /\ Cutting'
<1>1. Framed'
  BY DEF Framed, BodyOf
<1>2. ~GoesOn'
  BY DEF SendResponse, GoesOn
<1> QED BY <1>1, <1>2 DEF Cutting

\* The worker reads, and the head is not complete.
LEMMA CutReadPart ==
  ASSUME TypeOK, Framed, Cutting, ReadPart
  PROVE  Framed' /\ Cutting'
<1>1. /\ UNCHANGED <<asked, toSend, initial, bodyLeft, seen, phase, aligned, closeConnection>>
      /\ phase = "read" /\ wire # <<>> /\ HeadEnds = {} /\ requestBuffer' = NextBuffer
      /\ wire' = SubSeq(wire, Len(Received) + 1, Len(wire))
  BY DEF ReadPart, Read, clientVars, outVars
<1>2. Framed'
  BY <1>1 DEF Framed, BodyOf
<1>3. ASSUME aligned', GoesOn'
      PROVE  \E start, sent : \E pos, arrived \in Nat :
                Stream(start, sent)' /\ Cut(start, sent, pos, arrived)'
  <2>1. aligned /\ GoesOn
    BY <1>1, <1>3 DEF GoesOn
  <2>2. PICK start, sent : \E pos, arrived \in Nat :
                Stream(start, sent) /\ Cut(start, sent, pos, arrived)
    BY <2>1 DEF Cutting
  <2>3. PICK pos \in Nat, arrived \in Nat : Stream(start, sent) /\ Cut(start, sent, pos, arrived)
    BY <2>2
  <2>4. Stream(start, sent)'
    BY <1>1, <2>3 DEF Stream, Sendable
  <2>5. PICK q \in Nat :
            /\ NextBuffer \in Seq(Sendable) /\ NextBuffer # <<>>
            /\ Runs(NextBuffer, sent, start[Len(seen) + 1], q)
            /\ Runs(SubSeq(wire, Len(Received) + 1, Len(wire)), sent, q, arrived)
    BY <1>1, <2>3, ReadRuns
  <2>6. PICK n \in Nat : n = Len(seen)
    BY DEF TypeOK
  <2>7. /\ n <= Len(asked) /\ Runs(toSend, sent, arrived, Len(sent))
    BY <1>1, <2>3, <2>6 DEF Cut
  <2>8. /\ n + 1 \in DOMAIN asked
        /\ \A i \in 1..Len(NextBuffer) : i <= HeadSize => NextBuffer[i] = <<n + 1, "head", i>>
    <3>1. /\ Len(seen) + 1 \in DOMAIN asked
          /\ \A i \in 1..Len(NextBuffer) : i <= HeadSize => NextBuffer[i] = <<Len(seen) + 1, "head", i>>
      BY <2>3, <2>5, <2>6, <2>7, HeadUnits
    <3> QED BY <2>6, <3>1
  <2>9. Len(NextBuffer) < HeadSize
    BY <1>1, <2>5, <2>8, HeadFound
  <2>10. PICK b, w : b = NextBuffer /\ w = SubSeq(wire, Len(Received) + 1, Len(wire))
    OBVIOUS
  <2>11. Cut(start, sent, q, arrived)'
    BY <1>1, <2>5, <2>6, <2>7, <2>9, <2>10 DEF Cut
  <2> QED BY <2>4, <2>11
<1> QED BY <1>2, <1>3 DEF Cutting

\* The worker reads, and the head is complete: the handler gets the rest.
LEMMA CutReadHead ==
  ASSUME TypeOK, Framed, Cutting, ReadHead, ~SendResponse
  PROVE  Framed' /\ Cutting'
<1>1. /\ UNCHANGED <<asked, toSend, aligned, closeConnection>>
      /\ phase = "read" /\ wire # <<>> /\ HeadEnds # {} /\ phase' = "handle"
      /\ wire' = SubSeq(wire, Len(Received) + 1, Len(wire))
      /\ seen' = Append(seen, [msg |-> NextBuffer[Min(HeadEnds)][1], exact |-> Exact, body |-> <<>>])
      /\ bodyLeft' = asked[NextBuffer[Min(HeadEnds)][1]].length
      /\ initial' = SubSeq(NextBuffer, Min(HeadEnds) + 1, Len(NextBuffer))
  BY DEF ReadHead, Read, clientVars, outVars
<1>2. GoesOn
  BY <1>1 DEF GoesOn
<1>3. SUFFICES ASSUME aligned
               PROVE  /\ Framed'
                      /\ \E start, sent : \E pos, arrived \in Nat :
                            Stream(start, sent)' /\ Cut(start, sent, pos, arrived)'
  BY <1>1 DEF Framed, Cutting
<1>4. PICK start, sent : \E pos, arrived \in Nat :
                Stream(start, sent) /\ Cut(start, sent, pos, arrived)
  BY <1>2, <1>3 DEF Cutting
<1>5. PICK pos \in Nat, arrived \in Nat : Stream(start, sent) /\ Cut(start, sent, pos, arrived)
  BY <1>4
<1>6. Stream(start, sent)'
  BY <1>1, <1>5 DEF Stream, Sendable
<1>7. PICK q \in Nat :
            /\ NextBuffer \in Seq(Sendable) /\ NextBuffer # <<>>
            /\ Runs(NextBuffer, sent, start[Len(seen) + 1], q)
            /\ Runs(SubSeq(wire, Len(Received) + 1, Len(wire)), sent, q, arrived)
  BY <1>1, <1>5, ReadRuns
<1>8. PICK n \in Nat : n = Len(seen)
  BY DEF TypeOK
<1>9. /\ n <= Len(asked) /\ Runs(toSend, sent, arrived, Len(sent))
  BY <1>1, <1>5, <1>8 DEF Cut
<1>10. /\ n + 1 \in DOMAIN asked
       /\ \A i \in 1..Len(NextBuffer) : i <= HeadSize => NextBuffer[i] = <<n + 1, "head", i>>
  <2>1. /\ Len(seen) + 1 \in DOMAIN asked
        /\ \A i \in 1..Len(NextBuffer) : i <= HeadSize => NextBuffer[i] = <<Len(seen) + 1, "head", i>>
    BY <1>5, <1>7, <1>8, <1>9, HeadUnits
  <2> QED BY <1>8, <2>1
<1>11. /\ Min(HeadEnds) = HeadSize /\ HeadSize <= Len(NextBuffer)
       /\ NextBuffer[Min(HeadEnds)][1] = n + 1 /\ Exact
  BY <1>1, <1>7, <1>10, HeadFound
<1>12. PICK k \in DOMAIN asked : k = n + 1
  BY <1>10
<1>13. PICK f \in Nat, h \in Nat, l \in Nat : f = start[k] /\ h = HeadSize /\ l = asked[k].length
  <2>1. k \in 1..(Len(asked) + 1)
    BY StreamFacts
  <2> QED BY <1>5, <2>1, StreamFacts
<1>14. PICK x : x = [msg |-> k, exact |-> TRUE, body |-> <<>>]
  OBVIOUS
<1>15. /\ seen' = Append(seen, x) /\ bodyLeft' = l
       /\ initial' = SubSeq(NextBuffer, h + 1, Len(NextBuffer))
  BY <1>1, <1>11, <1>12, <1>13, <1>14
<1>16. /\ Len(seen') = n + 1 /\ seen'[n + 1] = x /\ \A i \in 1..n : seen'[i] = seen[i]
       /\ DOMAIN seen' = 1..(n + 1) /\ DOMAIN seen = 1..n /\ Last(seen') = x
  <2>1. PICK T : T = [msg : DOMAIN asked, exact : BOOLEAN, body : Seq(Sendable)]
    OBVIOUS
  <2>2. PICK s, t : s = seen /\ t = seen'
    OBVIOUS
  <2>3. s \in Seq(T) /\ t = Append(s, x)
    BY <1>15, <2>1, <2>2 DEF TypeOK
  <2>4. x \in T
    <3>1. <<>> \in Seq(Sendable)
      OBVIOUS
    <3> QED BY <1>14, <2>1, <3>1
  <2>5. /\ t \in Seq(T) /\ Len(t) = n + 1 /\ t[n + 1] = x /\ \A i \in 1..n : t[i] = s[i]
    BY <1>8, <2>2, <2>3, <2>4
  <2>6. DOMAIN t = 1..(n + 1) /\ DOMAIN s = 1..n
    BY <1>8, <2>2, <2>3, <2>5
  <2>7. Last(t) = x
    BY <2>5 DEF Last
  <2> QED BY <2>2, <2>5, <2>6, <2>7
<1>17. Framed'
  <2>1. ASSUME NEW j \in DOMAIN seen'
        PROVE  seen'[j].msg = j /\ seen'[j].exact /\ IsPrefix(seen'[j].body, BodyOf(j)')
    <3>1. BodyOf(j)' = BodyOf(j)
      BY <1>1 DEF BodyOf
    <3>2. CASE j \in 1..n
      <4>1. seen[j].msg = j /\ seen[j].exact /\ IsPrefix(seen[j].body, BodyOf(j))
        BY <1>3, <1>16, <3>2 DEF Framed
      <4> QED BY <1>16, <3>1, <3>2, <4>1
    <3>3. CASE j \notin 1..n
      <4>1. j = k
        BY <1>12, <1>16, <3>3
      <4>2. PICK none : none = <<>>
        OBVIOUS
      <4>3. PICK e \in Nat : e = start[k] + HeadSize
        BY <1>13
      <4>4. start[k + 1] = start[k] + HeadSize + asked[k].length /\ start[k + 1] <= Len(sent)
        BY <1>5 DEF Stream
      <4>5. e <= start[k + 1] /\ e <= Len(sent)
        <5>1. start[k + 1] = f + h + l /\ f + h + l <= Len(sent)
          BY <1>13, <4>4
        <5>2. Len(sent) \in Nat /\ e = f + h
          BY <1>5, <1>13, <4>3, StreamFacts
        <5> QED BY <5>1, <5>2
      <4>6. Runs(<<>>, sent, e, e)
        BY <4>5, RunsNothing
      <4>7. none \in Seq(Sendable) /\ Runs(none, sent, start[k] + HeadSize, e)
        BY <4>2, <4>3, <4>6
      <4>8. IsPrefix(none, BodyOf(k))
        BY <1>5, <4>5, <4>7, BodyUnits
      <4> QED BY <1>12, <1>14, <1>16, <3>1, <4>1, <4>2, <4>8
    <3> QED BY <3>2, <3>3
  <2> QED BY <2>1 DEF Framed
<1>18. Cut(start, sent, q, arrived)'
  <2>1. PICK b, w : b = NextBuffer /\ w = SubSeq(wire, Len(Received) + 1, Len(wire))
    OBVIOUS
  <2>2. PICK read \in Nat : read = f + h
    OBVIOUS
  <2>3. Runs(b, sent, f, q) /\ b \in Seq(Sendable) /\ sent \in Seq(Sendable) /\ h <= Len(b)
    BY <1>5, <1>7, <1>8, <1>11, <1>12, <1>13, <2>1, StreamFacts
  <2>4. Runs(SubSeq(b, h + 1, Len(b)), sent, read, q)
    BY <2>2, <2>3, RunsSplit
  <2>5. start[k + 1] = f + h + l /\ f + h + l <= Len(sent) /\ Len(sent) \in Nat
    BY <1>5, <1>13, StreamFacts DEF Stream
  <2>6. Runs(<<>>, sent, read, read)
    <3>1. read <= Len(sent)
      BY <2>2, <2>5
    <3> QED BY <3>1, RunsNothing
  <2>7. Last(seen').body = <<>> /\ Len(seen') = k
    BY <1>12, <1>14, <1>16
  <2>8. /\ Runs(Last(seen').body, sent, start[Len(seen')] + HeadSize, read)
        /\ Runs(initial', sent, read, q)
        /\ read + bodyLeft' = start[Len(seen') + 1]
    <3>1. start[Len(seen')] + HeadSize = read
      BY <1>13, <2>2, <2>7
    <3>2. read + bodyLeft' = start[Len(seen') + 1]
      BY <1>15, <2>2, <2>5, <2>7
    <3> QED BY <1>15, <2>1, <2>4, <2>6, <2>7, <3>1, <3>2
  <2>9. Runs(wire', sent, q, arrived) /\ Runs(toSend', sent, arrived, Len(sent))
    BY <1>1, <1>7, <1>9
  <2>10. Len(seen') \in DOMAIN asked'
    BY <1>1, <2>7
  <2> QED BY <1>1, <2>8, <2>9, <2>10 DEF Cut
<1> QED BY <1>6, <1>17, <1>18

\* Whatever the worker reads, or refuses.
LEMMA CutOnRead == ASSUME TypeOK, Framed, Cutting, OnRead PROVE Framed' /\ Cutting'
<1>1. CASE SendResponse
  <2>1. UNCHANGED <<asked, seen>> /\ UNCHANGED aligned
    BY <1>1 DEF OnRead, ReadTooMuch, ReadPart, ReadHead, SendResponse, clientVars, outVars
  <2> QED BY <1>1, <2>1, CutError
<1>2. CASE ~SendResponse
  BY <1>2, CutReadPart, CutReadHead DEF OnRead, ReadTooMuch
<1> QED BY <1>1, <1>2

\* The handler reads the next units of the stream, wherever they are.
LEMMA HandlerReadRuns ==
  ASSUME TypeOK, NEW n \in Nat, HandlerRead(n), NEW sent \in Seq(Sendable),
         NEW read \in Nat, NEW pos \in Nat, NEW arrived \in Nat, NEW next \in Nat,
         Runs(initial, sent, read, pos), Runs(wire, sent, pos, arrived), next = read + n
  PROVE  \E u \in Seq(Sendable) : \E q \in Nat :
            /\ seen' = [seen EXCEPT ![Len(seen)].body = @ \o u] /\ n \in 1..bodyLeft
            /\ Runs(u, sent, read, next)
            /\ Runs(initial', sent, next, q) /\ Runs(wire', sent, q, arrived)
<1>1. PICK source \in Seq(Sendable) :
            /\ source = IF initial # <<>> THEN initial ELSE wire
            /\ n \in 1..bodyLeft /\ n <= Len(source)
            /\ seen' = [seen EXCEPT ![Len(seen)].body = @ \o SubSeq(source, 1, n)]
            /\ IF initial # <<>>
                   THEN initial' = SubSeq(source, n + 1, Len(source)) /\ UNCHANGED wire
                   ELSE wire' = SubSeq(source, n + 1, Len(source)) /\ UNCHANGED initial
  BY SourceFacts
<1>2. PICK u, v : u = SubSeq(source, 1, n) /\ v = SubSeq(source, n + 1, Len(source))
  OBVIOUS
<1>3. ASSUME NEW to \in Nat, Runs(source, sent, read, to)
      PROVE  u \in Seq(Sendable) /\ Runs(u, sent, read, next) /\ Runs(v, sent, next, to)
  <2>1. n <= Len(source) /\ read + n = next
    BY <1>1
  <2> QED BY <1>2, <1>3, <2>1, RunsSplit
<1>4. CASE initial # <<>>
  <2>1. Runs(source, sent, read, pos) /\ initial' = v /\ wire' = wire
    BY <1>1, <1>2, <1>4
  <2>2. u \in Seq(Sendable) /\ Runs(u, sent, read, next) /\ Runs(v, sent, next, pos)
    BY <1>3, <2>1
  <2> QED BY <1>1, <1>2, <2>1, <2>2
<1>5. CASE initial = <<>>
  <2>1. read = pos
    BY <1>5 DEF Runs
  <2>2. Runs(source, sent, read, arrived) /\ wire' = v /\ initial' = <<>>
    BY <1>1, <1>2, <1>5, <2>1
  <2>3. u \in Seq(Sendable) /\ Runs(u, sent, read, next) /\ Runs(v, sent, next, arrived)
    BY <1>3, <2>2
  <2>4. next <= Len(sent)
    BY <2>3, RunsBounds
  <2>5. Runs(<<>>, sent, next, next)
    BY <2>4, RunsNothing
  <2> QED BY <1>1, <1>2, <2>2, <2>3, <2>5
<1> QED BY <1>4, <1>5

\* The handler reads of the body what is left over, then off the wire.
LEMMA CutHandlerRead ==
  ASSUME TypeOK, Framed, Cutting, NEW n \in Nat, HandlerRead(n)
  PROVE  Framed' /\ Cutting'
<1>1. /\ UNCHANGED <<asked, toSend, aligned, closeConnection, phase>>
      /\ phase = "handle" /\ bodyLeft' = bodyLeft - n /\ bodyLeft \in Nat
  BY DEF HandlerRead, clientVars, outVars, TypeOK
<1>2. GoesOn
  BY <1>1 DEF GoesOn
<1>3. SUFFICES ASSUME aligned
               PROVE  /\ Framed'
                      /\ \E start, sent : \E pos, arrived \in Nat :
                            Stream(start, sent)' /\ Cut(start, sent, pos, arrived)'
  BY <1>1 DEF Framed, Cutting
<1>4. PICK start, sent : \E pos, arrived \in Nat :
                Stream(start, sent) /\ Cut(start, sent, pos, arrived)
  BY <1>2, <1>3 DEF Cutting
<1>5. PICK pos \in Nat, arrived \in Nat : Stream(start, sent) /\ Cut(start, sent, pos, arrived)
  BY <1>4
<1>6. Stream(start, sent)' /\ sent \in Seq(Sendable)
  BY <1>1, <1>5 DEF Stream, Sendable
<1>7. PICK read \in Nat :
         /\ Len(seen) \in DOMAIN asked
         /\ Runs(Last(seen).body, sent, start[Len(seen)] + HeadSize, read)
         /\ Runs(initial, sent, read, pos)
         /\ read + bodyLeft = start[Len(seen) + 1]
  BY <1>1, <1>5 DEF Cut
<1>8. Runs(wire, sent, pos, arrived) /\ Runs(toSend, sent, arrived, Len(sent))
  BY <1>5 DEF Cut
<1>9. PICK next \in Nat : next = read + n
  OBVIOUS
<1>10. PICK u \in Seq(Sendable), q \in Nat :
            /\ seen' = [seen EXCEPT ![Len(seen)].body = @ \o u] /\ n \in 1..bodyLeft
            /\ Runs(u, sent, read, next)
            /\ Runs(initial', sent, next, q) /\ Runs(wire', sent, q, arrived)
  BY <1>6, <1>7, <1>8, <1>9, HandlerReadRuns
<1>11. PICK k \in DOMAIN asked : k = Len(seen)
  BY <1>7
<1>12. PICK f \in Nat, h \in Nat, e \in Nat : f = start[k] /\ h = HeadSize /\ e = f + h
  <2>1. k \in 1..(Len(asked) + 1)
    BY StreamFacts
  <2> QED BY <1>5, <2>1, StreamFacts
<1>13. seen # <<>>
  <2>1. k \in 1..Len(asked)
    BY StreamFacts
  <2> QED BY <1>11, <2>1
<1>14. PICK b : b = Last(seen).body /\ b \in Seq(Sendable)
  BY <1>13, LastTypes
<1>15. Runs(b, sent, e, read)
  BY <1>7, <1>11, <1>12, <1>14
<1>16. PICK c : c = b \o u
  OBVIOUS
<1>17. c \in Seq(Sendable) /\ Runs(c, sent, e, next)
  BY <1>6, <1>10, <1>14, <1>15, <1>16, RunsJoin
<1>18. next + bodyLeft' = start[k + 1] /\ next <= start[k + 1]
  <2>1. PICK l \in Nat : l = bodyLeft
    BY <1>1
  <2>2. read + l = start[k + 1] /\ bodyLeft' = l - n /\ n \in 1..l
    BY <1>1, <1>7, <1>10, <1>11, <2>1
  <2> QED BY <1>9, <2>2
<1>19. /\ Len(seen') = k /\ DOMAIN seen' = DOMAIN seen /\ Last(seen').body = c
       /\ seen'[k].body = c /\ seen'[k].msg = seen[k].msg /\ seen'[k].exact = seen[k].exact
       /\ \A j \in DOMAIN seen \ {k} : seen'[j] = seen[j]
  <2>1. PICK T : T = [msg : DOMAIN asked, exact : BOOLEAN, body : Seq(Sendable)]
    OBVIOUS
  <2>2. PICK s, t : s = seen /\ t = seen'
    OBVIOUS
  <2>3. s \in Seq(T) /\ k \in DOMAIN s /\ k = Len(s) /\ s[k].body = b
    BY <1>11, <1>13, <1>14, <2>1, <2>2, LastTypes DEF TypeOK
  <2>4. s[k] \in T
    BY <2>3
  <2>5. PICK x : x = [s[k] EXCEPT !.body = @ \o u]
    OBVIOUS
  <2>6. x \in T /\ x.body = c /\ x.msg = s[k].msg /\ x.exact = s[k].exact
    BY <1>16, <1>17, <2>1, <2>3, <2>4, <2>5
  <2>7. t = [s EXCEPT ![k] = x]
    BY <1>10, <1>11, <2>2, <2>5
  <2>8. t \in Seq(T) /\ Len(t) = k /\ DOMAIN t = DOMAIN s
    BY <2>3, <2>6, <2>7, ExceptSeq
  <2>9. t[k] = x /\ \A j \in DOMAIN s \ {k} : t[j] = s[j]
    BY <2>3, <2>7
  <2>10. Last(t) = x
    BY <2>8, <2>9 DEF Last
  <2> QED BY <2>2, <2>6, <2>8, <2>9, <2>10
<1>20. Framed'
  <2>1. ASSUME NEW j \in DOMAIN seen'
        PROVE  seen'[j].msg = j /\ seen'[j].exact /\ IsPrefix(seen'[j].body, BodyOf(j)')
    <3>1. BodyOf(j)' = BodyOf(j)
      BY <1>1 DEF BodyOf
    <3>2. seen[j].msg = j /\ seen[j].exact /\ IsPrefix(seen[j].body, BodyOf(j))
      BY <1>3, <1>19, <2>1 DEF Framed
    <3>3. CASE j # k
      BY <1>19, <3>1, <3>2, <3>3
    <3>4. CASE j = k
      <4>1. Runs(c, sent, start[k] + HeadSize, next)
        BY <1>12, <1>17
      <4>2. IsPrefix(c, BodyOf(k))
        BY <1>5, <1>17, <1>18, <4>1, BodyUnits
      <4> QED BY <1>19, <3>1, <3>2, <3>4, <4>2
    <3> QED BY <3>3, <3>4
  <2> QED BY <2>1 DEF Framed
<1>21. Cut(start, sent, q, arrived)'
  <2>1. /\ Runs(Last(seen').body, sent, start[Len(seen')] + HeadSize, next)
        /\ Runs(initial', sent, next, q)
        /\ next + bodyLeft' = start[Len(seen') + 1]
    BY <1>10, <1>12, <1>17, <1>18, <1>19
  <2>2. Runs(wire', sent, q, arrived) /\ Runs(toSend', sent, arrived, Len(sent))
    BY <1>1, <1>8, <1>10
  <2>3. Len(seen') \in DOMAIN asked'
    BY <1>1, <1>19
  <2> QED BY <1>1, <2>1, <2>2, <2>3 DEF Cut
<1> QED BY <1>6, <1>20, <1>21

\* The handler returns: if it has read the body and nothing came behind it,
\* the next request begins where the server stopped.
LEMMA CutRespond ==
  ASSUME TypeOK, Framed, Cutting, NEW response \in Responses, Respond(response)
  PROVE  Framed' /\ Cutting'
<1>1. /\ UNCHANGED <<asked, toSend, wire, seen>> /\ phase = "handle" /\ phase' = "write"
      /\ aligned' = (aligned /\ bodyLeft = 0 /\ initial = <<>>)
  BY DEF Respond, HandlerReturns, clientVars
<1>2. GoesOn
  BY <1>1 DEF GoesOn
<1>3. SUFFICES ASSUME aligned, bodyLeft = 0, initial = <<>>
               PROVE  /\ Framed'
                      /\ \E start, sent : \E pos, arrived \in Nat :
                            Stream(start, sent)' /\ Cut(start, sent, pos, arrived)'
  BY <1>1 DEF Framed, Cutting
<1>4. Framed'
  BY <1>1, <1>3 DEF Framed, BodyOf
<1>5. PICK start, sent : \E pos, arrived \in Nat :
                Stream(start, sent) /\ Cut(start, sent, pos, arrived)
  BY <1>2, <1>3 DEF Cutting
<1>6. PICK pos \in Nat, arrived \in Nat : Stream(start, sent) /\ Cut(start, sent, pos, arrived)
  BY <1>5
<1>7. Stream(start, sent)'
  BY <1>1, <1>6 DEF Stream, Sendable
<1>8. PICK read \in Nat :
         /\ Len(seen) \in DOMAIN asked
         /\ Runs(initial, sent, read, pos)
         /\ read + bodyLeft = start[Len(seen) + 1]
  BY <1>1, <1>6 DEF Cut
<1>9. read = pos
  BY <1>3, <1>8 DEF Runs
<1>10. pos = start[Len(seen) + 1]
  BY <1>3, <1>8, <1>9
<1>11. Len(seen) <= Len(asked)
  BY <1>6, <1>8, StreamFacts
<1>12. Cut(start, sent, pos, arrived)'
  BY <1>1, <1>6, <1>10, <1>11 DEF Cut
<1> QED BY <1>4, <1>7, <1>12

\* Whatever the handler does.
LEMMA CutHandler == ASSUME TypeOK, Framed, Cutting, Handler PROVE Framed' /\ Cutting'
<1>1. ASSUME NEW n \in 1..bodyLeft, HandlerRead(n) PROVE Framed' /\ Cutting'
  <2>1. n \in Nat
    BY DEF TypeOK
  <2> QED BY <1>1, <2>1, CutHandlerRead
<1>2. ASSUME HandlerFails PROVE Framed' /\ Cutting'
  <2>1. SendResponse /\ UNCHANGED <<asked, seen>> /\ (aligned' => aligned)
    BY <1>2 DEF HandlerFails, HandlerReturns, clientVars
  <2> QED BY <2>1, CutError
<1> QED BY <1>1, <1>2, CutRespond DEF Handler

\* request_finished: the buffer is emptied, and the next request is read.
LEMMA CutFinish == ASSUME TypeOK, Framed, Cutting, Finish PROVE Framed' /\ Cutting'
<1>1. /\ phase = "write" /\ UNCHANGED <<asked, toSend, wire, initial, bodyLeft, seen, aligned>>
      /\ \/ phase' = "closed"
         \/ ~closeConnection /\ phase' = "read" /\ requestBuffer' = <<>>
  BY FinishFacts
<1>2. Framed'
  BY <1>1 DEF Framed, BodyOf
<1>3. ASSUME aligned', GoesOn'
      PROVE  \E start, sent : \E pos, arrived \in Nat :
                Stream(start, sent)' /\ Cut(start, sent, pos, arrived)'
  <2>1. aligned /\ GoesOn /\ phase' = "read" /\ requestBuffer' = <<>>
    BY <1>1, <1>3 DEF GoesOn
  <2>2. PICK start, sent : \E pos, arrived \in Nat :
                Stream(start, sent) /\ Cut(start, sent, pos, arrived)
    BY <2>1 DEF Cutting
  <2>3. PICK pos \in Nat, arrived \in Nat : Stream(start, sent) /\ Cut(start, sent, pos, arrived)
    BY <2>2
  <2>4. Stream(start, sent)'
    BY <1>1, <2>3 DEF Stream, Sendable
  <2>5. /\ Len(seen) <= Len(asked) /\ pos = start[Len(seen) + 1]
        /\ Runs(wire, sent, pos, arrived) /\ Runs(toSend, sent, arrived, Len(sent))
    BY <1>1, <2>3 DEF Cut
  <2>6. pos <= Len(sent)
    <3>1. wire \in Seq(Sendable) /\ sent \in Seq(Sendable)
      BY <2>3 DEF TypeOK, Stream
    <3>2. pos <= arrived /\ arrived <= Len(sent) /\ Len(sent) \in Nat
      BY <2>5, <3>1, RunsBounds
    <3> QED BY <3>2
  <2>7. Runs(<<>>, sent, pos, pos)
    BY <2>6, RunsNothing
  <2>8. Len(requestBuffer') < HeadSize
    BY <2>1, ConversationAssumption
  <2>9. Runs(requestBuffer', sent, start[Len(seen') + 1], pos)
    BY <1>1, <2>1, <2>5, <2>7
  <2>10. Cut(start, sent, pos, arrived)'
    BY <1>1, <2>1, <2>5, <2>8, <2>9 DEF Cut
  <2> QED BY <2>4, <2>10
<1> QED BY <1>2, <1>3 DEF Cutting

\* The next request begins where the last one ended.
LEMMA CutOnWrite == ASSUME TypeOK, Framed, Cutting, OnWrite PROVE Framed' /\ Cutting'
<1>1. CASE Finish
  BY <1>1, CutFinish
<1>2. CASE ~Finish
  <2>1. /\ UNCHANGED <<asked, toSend, wire, seen, requestBuffer, initial, bodyLeft, aligned>>
        /\ UNCHANGED closeConnection /\ phase = "write" /\ phase' \in {"write", "terminated"}
    BY <1>2 DEF OnWrite, WriteHeader, WriteContent, clientVars, inVars
  <2>2. CASE phase' = "write"
    BY <2>1, <2>2, CutIdle
  <2>3. CASE phase' = "terminated"
    <3>1. Framed' /\ ~GoesOn'
      BY <2>1, <2>3 DEF Framed, BodyOf, GoesOn
    <3> QED BY <3>1 DEF Cutting
  <2> QED BY <2>1, <2>2, <2>3
<1> QED BY <1>1, <1>2

LEMMA InitCutting == Init => Framed /\ Cutting
<1> SUFFICES ASSUME Init PROVE Framed /\ Cutting
  OBVIOUS
<1>1. Framed
  BY DEF Init, Framed
<1>2. PICK none, start : none = <<>> /\ start = [k \in 1..1 |-> 0]
  OBVIOUS
<1>3. Len(none) = 0 /\ none \in Seq(Sendable) /\ start \in [1..1 -> Nat] /\ start[1] = 0
  BY <1>2
<1>4. /\ asked = none /\ toSend = none /\ wire = none /\ requestBuffer = none /\ seen = none
      /\ phase = "read" /\ DOMAIN asked = {}
  BY <1>2 DEF Init
<1>5. Stream(start, none)
  <2>1. Len(asked) = 0
    BY <1>3, <1>4
  <2> QED BY <1>3, <1>4, <2>1 DEF Stream
<1>6. Runs(none, none, 0, 0)
  BY <1>3 DEF Runs
<1>7. Cut(start, none, 0, 0)
  <2>1. /\ Len(seen) = 0 /\ Len(asked) = 0 /\ Len(none) = 0 /\ start[0 + 1] = 0
        /\ 0 < HeadSize /\ Len(requestBuffer) = 0
    BY <1>3, <1>4, ConversationAssumption
  <2> QED BY <1>4, <1>6, <2>1 DEF Cut
<1>8. 0 \in Nat
  OBVIOUS
<1> QED BY <1>1, <1>5, <1>7, <1>8 DEF Cutting

LEMMA NextCutting == ASSUME TypeOK, Framed, Cutting, [Next]_vars PROVE Framed' /\ Cutting'
<1>1. CASE UNCHANGED vars
  BY <1>1, CutIdle DEF vars, clientVars, inVars, outVars
<1>2. CASE Client
  BY <1>2, CutAsk, CutDeliver DEF Client
<1> QED BY <1>1, <1>2, CutOnRead, CutHandler, CutOnWrite DEF Next
-----------------------------------------------------------------------------
(* The theorems *)

\* All of it holds in every state the server and its client reach, whatever
\* the sizes, the number of requests and the way the bytes are cut.
THEOREM Invariance == Spec => []IInv
<1>1. Init => IInv
  BY InitTypes, InitWriting, InitLasting, InitCutting DEF IInv
<1>2. IInv /\ [Next]_vars => IInv'
  BY NextTypes, NextWriting, NextLasting, NextCutting DEF IInv
<1> QED BY <1>1, <1>2, PTL DEF Spec

\* Every variable has its type: what is counted as sent of a head is at most a
\* head, and the read position of a content lies within it.
THEOREM TypeCorrect == Spec => []TypeOK
<1>1. IInv => TypeOK
  BY DEF IInv
<1> QED BY <1>1, Invariance, PTL

\* The client receives the responses whole and in order, however little the
\* socket takes at a time.
THEOREM Intact == Spec => []ResponsesIntact
<1>1. IInv => ResponsesIntact
  BY WritingIntact DEF IInv
<1> QED BY <1>1, Invariance, PTL

\* While handlers read their bodies and nothing arrives behind them, every
\* request is the client's next one, with its own body.
THEOREM InFrame == Spec => []Framed
<1>1. IInv => Framed
  BY DEF IInv
<1> QED BY <1>1, Invariance, PTL

\* The connection lasts as long as the client was told it would.
THEOREM Persists == Spec => []PersistenceHonoured
<1>1. IInv => PersistenceHonoured
  BY LastingHonours DEF IInv
<1> QED BY <1>1, Invariance, PTL
=============================================================================
