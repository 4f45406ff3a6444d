--------------------------- MODULE WebSocketProofs ---------------------------
(***************************************************************************)
(* The safety properties of WebSocket, for any messages, cut in any way,   *)
(* any chunk size, and any number of frames on their way.                  *)
(*                                                                         *)
(* The invariant has three parts beside the types, one for each property:  *)
(*   Echoing   whose payload each close frame on its way carries;          *)
(*   Ordered   the frames on their way to the peer take it from what it    *)
(*             has to the messages send() has written, unless a write      *)
(*             ended inside a frame;                                       *)
(*   Received  the frames on their way to us, and those the peer has still *)
(*             to send, are the fragments that follow on what receive()    *)
(*             has handed over and collected.                              *)
(* The last two are paths (Leads): a frame is a step from one state of its *)
(* reader to the next.                                                     *)
(*                                                                         *)
(* The second half is about the functions of Strings.                      *)
(***************************************************************************)
EXTENDS WebSocket, SequenceTheorems, WellFoundedInduction, TLAPS

---------------------------------------------------------------------------
(* FlattenSeq *)

\* A set of numbers that is not empty has a least one.
LEMMA LeastNumber ==
  ASSUME NEW T, T \subseteq Nat, T # {}
  PROVE  \E x \in T : \A y \in T : x <= y
<1>1. PICK x \in T : \A y \in T : <<y, x>> \notin OpToRel(<, Nat)
  BY NatLessThanWellFounded, WFMin, Zenon
<1>2. ASSUME NEW y \in T PROVE x <= y
  <2>1. x \in Nat /\ y \in Nat
    OBVIOUS
  <2>2. ~(y < x)
    BY <1>1, <2>1, Zenon DEF OpToRel
  <2> QED BY <2>1, <2>2
<1> QED BY <1>2

\* f is what FlattenSeq makes of the first n sequences of s, one by one.
Flattens(f, s, n) ==
    f = [i \in 1..n |-> IF i = 1 THEN s[i] ELSE f[i - 1] \o s[i]]

\* There is such a function.
LEMMA FlattenExists == ASSUME NEW s, NEW n \in Nat PROVE \E f : Flattens(f, s, n)
<1> DEFINE T == {k \in Nat : ~ \E f : Flattens(f, s, k)}
<1> SUFFICES ASSUME T # {} PROVE FALSE
  OBVIOUS
<1>1. PICK k \in T : \A l \in T : k <= l
  BY LeastNumber
<1>2. k # 0
  <2>1. Flattens([i \in 1..0 |-> s[i]], s, 0)
    BY DEF Flattens
  <2> QED BY <2>1
<1>3. PICK f : Flattens(f, s, k - 1)
  <2>1. k - 1 \in Nat /\ k - 1 \notin T
    BY <1>1, <1>2
  <2> QED BY <2>1
<1> DEFINE g == [i \in 1..k |-> IF i < k THEN f[i]
                                ELSE IF i = 1 THEN s[i] ELSE f[i - 1] \o s[i]]
<1>4. \A i \in 1..k : g[i] = IF i = 1 THEN s[i] ELSE g[i - 1] \o s[i]
  <2>1. \A i \in 1..(k - 1) : f[i] = IF i = 1 THEN s[i] ELSE f[i - 1] \o s[i]
    BY <1>3 DEF Flattens
  <2> QED BY <2>1, <1>2
<1>5. Flattens(g, s, k)
  BY <1>4 DEF Flattens
<1> QED BY <1>5

\* FlattenSeq is the last value of such a function.
LEMMA FlattenIs ==
  ASSUME NEW s, Len(s) \in Nat \ {0}
  PROVE  \E f : Flattens(f, s, Len(s)) /\ FlattenSeq(s) = f[Len(s)]
<1> DEFINE n == Len(s)
           F == CHOOSE f : f = [i \in 1..n |-> IF i = 1 THEN s[i] ELSE f[i - 1] \o s[i]]
<1>1. Flattens(F, s, n)
  BY FlattenExists DEF Flattens
<1>2. FlattenSeq(s) = F[n]
  BY DEF FlattenSeq
<1> QED BY <1>1, <1>2

\* It is a sequence when they are.
LEMMA FlattenSequence ==
  ASSUME NEW S, NEW s \in Seq(Seq(S))
  PROVE  FlattenSeq(s) \in Seq(S)
<1>1. CASE Len(s) = 0
  BY <1>1 DEF FlattenSeq
<1>2. CASE Len(s) # 0
  <2>1. PICK f : Flattens(f, s, Len(s)) /\ FlattenSeq(s) = f[Len(s)]
    BY <1>2, FlattenIs
  <2> DEFINE n == Len(s)
             T == {i \in 1..n : f[i] \notin Seq(S)}
  <2>2. \A i \in 1..n : f[i] = IF i = 1 THEN s[i] ELSE f[i - 1] \o s[i]
    BY <2>1 DEF Flattens
  <2>3. T = {}
    <3> SUFFICES ASSUME T # {} PROVE FALSE
      OBVIOUS
    <3>1. PICK k \in T : \A l \in T : k <= l
      <4>1. T \subseteq Nat
        OBVIOUS
      <4> HIDE DEF T
      <4> QED BY <4>1, LeastNumber
    <3>2. s[k] \in Seq(S)
      BY <3>1
    <3>3. k # 1 => k - 1 \in 1..n /\ k - 1 \notin T
      BY <3>1
    <3>4. k # 1 => f[k - 1] \in Seq(S)
      BY <3>3
    <3>5. f[k] = IF k = 1 THEN s[k] ELSE f[k - 1] \o s[k]
      BY <2>2, <3>1
    <3>6. f[k] \in Seq(S)
      BY <3>2, <3>4, <3>5, ConcatProperties
    <3> QED BY <3>1, <3>6
  <2> QED BY <1>2, <2>1, <2>3
<1> QED BY <1>1, <1>2

---------------------------------------------------------------------------
(* Frames, and the types *)

Ops == Data \cup Control \cup {"continuation", "reserved"}
Bytes == Seq(Nat)
Pieces == [op : Ops, data : Bytes]

\* Every frame on its way is veiled as its mask says.
Frames ==
    {f \in [op : Ops, fin : BOOLEAN, data : Bytes, masked : BOOLEAN, veiled : BOOLEAN,
            whole : BOOLEAN] : f.veiled = f.masked}

Typed ==
    /\ isClient \in BOOLEAN
    /\ sock \in {"open", "shut", "closed"}
    /\ call \in {"none", "receive", "send", "close"}
    /\ message \in Pieces /\ rest \in Pieces
    /\ toUs \in Seq(Frames) /\ toPeer \in Seq(Frames)
    /\ peer \in [there : BOOLEAN, due : Seq(Frames), part : Pieces, extras : Nat,
                 code : SUBSET Bytes, echo : SUBSET Bytes]
    /\ posted \in Seq(Pieces) /\ given \in Seq(Pieces)
    /\ asked \in Seq(Pieces) /\ taken \in Seq(Pieces) /\ broken \in BOOLEAN

\* What an end makes of the frame it reads.
Read(f) == IF f.masked THEN ApplyMask(f) ELSE f

\* A frame has the fields it is made of.
LEMMA Framed ==
  ASSUME NEW op \in Ops, NEW fin \in BOOLEAN, NEW data \in Bytes, NEW masked \in BOOLEAN,
         NEW f, f = Frame(op, fin, data, masked)
  PROVE  /\ f \in Frames
         /\ f.op = op /\ f.fin = fin /\ f.data = data /\ f.masked = masked
BY DEF Frame, Frames

\* A frame that was masked by one end is read as it was by the other.
LEMMA Unmasked ==
  ASSUME NEW f \in Frames
  PROVE  /\ Payload(Read(f)) = f.data /\ Read(f).data = f.data
         /\ Read(f).op = f.op /\ Read(f).fin = f.fin /\ Read(f).masked = f.masked
         /\ f.op \in Ops /\ f.fin \in BOOLEAN /\ f.data \in Bytes /\ f.masked \in BOOLEAN
<1>1. /\ f \in [op : Ops, fin : BOOLEAN, data : Bytes, masked : BOOLEAN, veiled : BOOLEAN,
                whole : BOOLEAN]
      /\ f.veiled = f.masked
  BY DEF Frames
<1>2. CASE f.masked
  <2>1. Read(f) = [f EXCEPT !.veiled = FALSE]
    BY <1>1, <1>2 DEF Read, ApplyMask
  <2>2. Read(f).veiled = FALSE
    BY <1>1, <2>1
  <2> QED BY <1>1, <2>1, <2>2 DEF Payload
<1>3. CASE ~f.masked
  BY <1>1, <1>3 DEF Read, Payload
<1> QED BY <1>2, <1>3

\* The fields of a frame.
LEMMA FrameFields ==
  ASSUME NEW f \in Frames
  PROVE  f.op \in Ops /\ f.fin \in BOOLEAN /\ f.data \in Bytes /\ f.masked \in BOOLEAN
BY DEF Frames

\* The first frame and the others.
LEMMA HeadOfFrames ==
  ASSUME NEW s \in Seq(Frames), s # <<>>
  PROVE  Head(s) \in Frames /\ Tail(s) \in Seq(Frames)
OBVIOUS

\* What MessagesOK says of a single message.
LEMMA MessageFields ==
  ASSUME MessagesOK
  PROVE  /\ \A m \in PeerMessages :
               /\ m.op \in Data /\ m.frags \in Seq(Bytes) /\ m.frags # <<>>
               /\ Len(m.frags) \in Nat \ {0}
         /\ \A m \in AppMessages :
               /\ m \in Pieces /\ m.op \in Data \cup {"close", "ping"} /\ m.data \in Bytes
               /\ m.op \in Control => Len(m.data) <= ChunkSize
         /\ CloseCodes \subseteq Bytes
         /\ ChunkSize \in Nat \ {0} /\ MaxControl \in Nat
<1>1. ASSUME NEW m \in PeerMessages
      PROVE  m.op \in Data /\ m.frags \in Seq(Bytes) /\ m.frags # <<>> /\ Len(m.frags) \in Nat \ {0}
  <2>1. m \in [op : Data, frags : Seq(Seq(Nat)) \ {<<>>}]
    BY DEF MessagesOK
  <2>2. m.op \in Data /\ m.frags \in Seq(Bytes) /\ m.frags # <<>>
    BY <2>1 DEF Bytes
  <2> QED BY <2>2
<1>2. ASSUME NEW m \in AppMessages
      PROVE  /\ m \in Pieces /\ m.op \in Data \cup {"close", "ping"} /\ m.data \in Bytes
             /\ m.op \in Control => Len(m.data) <= ChunkSize
  BY DEF MessagesOK, Pieces, Bytes, Ops, Control, Data
<1>3. CloseCodes \subseteq Bytes /\ ChunkSize \in Nat \ {0} /\ MaxControl \in Nat
  BY DEF MessagesOK, Bytes
<1> QED BY <1>1, <1>2, <1>3

---------------------------------------------------------------------------
(* What a step does to the frames on their way *)

\* A frame that is written is the last on its way, unless the peer is gone or a
\* frame is not all there.
LEMMA SentTyped ==
  ASSUME Typed, NEW f \in Frames, Sent(f)
  PROVE  /\ toPeer' \in Seq(Frames) /\ broken' = broken
         /\ peer.there /\ ~broken => toPeer' = Append(toPeer, f)
         /\ ~peer.there \/ broken => toPeer' = toPeer
BY DEF Typed, Sent

\* A frame the peer delivers is the last on its way to us, unless we have closed.
LEMMA DeliversTyped ==
  ASSUME Typed, NEW f \in Frames, NEW whole \in BOOLEAN, Delivers(f, whole)
  PROVE  /\ toUs' \in Seq(Frames)
         /\ sock = "closed" => toUs' = toUs
         /\ sock # "closed" =>
               \E g \in Frames :
                  /\ toUs' = Append(toUs, g)
                  /\ g.op = f.op /\ g.fin = f.fin /\ g.data = f.data
<1>1. CASE sock = "closed"
  BY <1>1 DEF Typed, Delivers
<1>2. CASE sock # "closed"
  <2> DEFINE g == [f EXCEPT !.whole = whole]
  <2>1. g \in Frames /\ g.op = f.op /\ g.fin = f.fin /\ g.data = f.data
    BY DEF Frames
  <2>2. toUs' = Append(toUs, g)
    BY <1>2 DEF Delivers
  <2> HIDE DEF g
  <2>3. toUs' \in Seq(Frames)
    BY <2>1, <2>2 DEF Typed
  <2> QED BY <1>2, <2>1, <2>2, <2>3
<1> QED BY <1>1, <1>2

\* A byte sequence cut in two is its two parts, one behind the other.
LEMMA Cutting ==
  ASSUME NEW d \in Bytes, NEW k \in 0..Len(d)
  PROVE  /\ SubSeq(d, 1, k) \in Bytes /\ SubSeq(d, k + 1, Len(d)) \in Bytes
         /\ d = SubSeq(d, 1, k) \o SubSeq(d, k + 1, Len(d))
<1>1. PICK n \in Nat : n = Len(d)
  BY DEF Bytes
<1>2. d \in Seq(Nat) /\ 1 \in 1..(Len(d) + 1) /\ k \in (1 - 1)..Len(d) /\ Len(d) \in k..Len(d)
  BY DEF Bytes
<1>3. SubSeq(d, 1, k) \o SubSeq(d, k + 1, Len(d)) = SubSeq(d, 1, Len(d))
  BY <1>2, ConcatAdjacentSubSeq
<1>4. SubSeq(d, 1, Len(d)) = d
  BY <1>2, SubSeqFull
<1>5. SubSeq(d, 1, k) \in Bytes /\ SubSeq(d, k + 1, Len(d)) \in Bytes
  BY <1>2 DEF Bytes
<1> QED BY <1>3, <1>4, <1>5

\* A frame of send() holds the first ChunkSize bytes of what is left.
LEMMA SendsFrame ==
  ASSUME Typed, MessagesOK, SendFrame
  PROVE  \E f \in Frames, more \in Bytes :
            /\ Sent(f) /\ f.op = rest.op /\ f.fin = (more = <<>>)
            /\ f.data \in Bytes /\ rest.data = f.data \o more
            /\ Len(rest.data) <= ChunkSize => more = <<>>
            /\ rest' = [op |-> "continuation", data |-> more]
            /\ call' = IF more = <<>> THEN "none" ELSE "send"
<1> DEFINE size == IF Len(rest.data) < ChunkSize THEN Len(rest.data) ELSE ChunkSize
           more == SubSeq(rest.data, size + 1, Len(rest.data))
           chunk == SubSeq(rest.data, 1, size)
           f == Frame(rest.op, more = <<>>, chunk, isClient)
<1>1. rest.op \in Ops /\ rest.data \in Bytes /\ isClient \in BOOLEAN
  BY DEF Typed, Pieces
<1>2. ChunkSize \in Nat \ {0}
  BY MessageFields
<1>3. size \in 0..Len(rest.data)
  BY <1>1, <1>2 DEF Bytes
<1>4. chunk \in Bytes /\ more \in Bytes /\ rest.data = chunk \o more
  <2>1. PICK d, k : d = rest.data /\ k = size
    OBVIOUS
  <2>2. d \in Bytes /\ k \in 0..Len(d)
    BY <1>1, <1>3, <2>1
  <2> HIDE DEF size
  <2> QED BY ONLY <2>1, <2>2, Cutting
<1>5. Len(rest.data) <= ChunkSize => more = <<>>
  <2> SUFFICES ASSUME Len(rest.data) <= ChunkSize PROVE more = <<>>
    OBVIOUS
  <2>1. size = Len(rest.data)
    BY <1>1, <1>2 DEF Bytes
  <2> QED BY <1>1, <2>1 DEF Bytes
<1>6. /\ Sent(f) /\ rest' = [op |-> "continuation", data |-> more]
      /\ call' = IF more = <<>> THEN "none" ELSE "send"
  BY DEF SendFrame
<1>7. f \in Frames /\ f.op = rest.op /\ f.fin = (more = <<>>) /\ f.data = chunk
  <2> HIDE DEF more, chunk
  <2>1. (more = <<>>) \in BOOLEAN
    OBVIOUS
  <2>2. PICK last \in BOOLEAN, op \in Ops, m \in BOOLEAN : last = (more = <<>>) /\ op = rest.op /\ m = isClient
    BY <1>1, <2>1
  <2>3. f = Frame(op, last, chunk, m)
    BY <2>2
  <2> HIDE DEF f, more, chunk
  <2>4. f \in Frames /\ f.op = op /\ f.fin = last /\ f.data = chunk
    BY <1>4, <2>3, Framed
  <2> QED BY <2>2, <2>4
<1> HIDE DEF f, more, chunk, size
<1> QED BY <1>4, <1>5, <1>6, <1>7

\* receive() reads the frame as the peer wrote it.
LEMMA ReadsFrame ==
  ASSUME Typed, ReadFrame
  PROVE  /\ call = "receive" /\ toUs # <<>> /\ toUs' = Tail(toUs)
         /\ Head(toUs) \in Frames /\ Tail(toUs) \in Seq(Frames)
         /\ Incoming = Read(Head(toUs)) /\ Payload(Incoming) = Head(toUs).data
         /\ Incoming.data = Head(toUs).data /\ Incoming.op = Head(toUs).op
         /\ Incoming.fin = Head(toUs).fin /\ Incoming.masked = Head(toUs).masked
<1>1. call = "receive" /\ toUs # <<>> /\ toUs' = Tail(toUs)
  BY DEF ReadFrame
<1>2. toUs \in Seq(Frames)
  BY DEF Typed
<1>3. Head(toUs) \in Frames /\ Tail(toUs) \in Seq(Frames)
  BY <1>1, <1>2, HeadOfFrames
<1>4. Incoming = Read(Head(toUs))
  BY DEF Incoming, Read
<1> QED BY <1>1, <1>3, <1>4, Unmasked

\* A frame of the peer has the fields it is made of.
LEMMA PeerFramed ==
  ASSUME Typed, NEW op \in Ops, NEW fin \in BOOLEAN, NEW data \in Bytes,
         NEW f, f = PeerFrame(op, fin, data)
  PROVE  f \in Frames /\ f.op = op /\ f.fin = fin /\ f.data = data
<1>1. PICK m \in BOOLEAN : m = ~isClient
  BY DEF Typed
<1>2. f = Frame(op, fin, data, m)
  BY <1>1 DEF PeerFrame
<1> QED BY <1>2, Framed

\* The frames of a message that the peer has cut.
LEMMA Fragments ==
  ASSUME Typed, MessagesOK, NEW m \in PeerMessages, NEW s, s = FragmentsOf(m)
  PROVE  /\ s \in Seq(Frames) /\ Len(s) = Len(m.frags)
         /\ \A i \in 1..Len(m.frags) :
               /\ s[i].op = IF i = 1 THEN m.op ELSE "continuation"
               /\ s[i].fin = (i = Len(m.frags)) /\ s[i].data = m.frags[i]
<1>1. m.op \in Data /\ m.frags \in Seq(Bytes) /\ Len(m.frags) \in Nat \ {0}
  BY MessageFields
<1>2. DOMAIN m.frags = 1..Len(m.frags)
  BY <1>1
<1>3. DOMAIN s = 1..Len(m.frags)
  BY <1>2 DEF FragmentsOf
<1>4. ASSUME NEW i \in 1..Len(m.frags)
      PROVE  /\ s[i] \in Frames
             /\ s[i].op = IF i = 1 THEN m.op ELSE "continuation"
             /\ s[i].fin = (i = Len(m.frags)) /\ s[i].data = m.frags[i]
  <2>1. PICK op, fin, data :
              /\ op = (IF i = 1 THEN m.op ELSE "continuation")
              /\ fin = (i = Len(m.frags)) /\ data = m.frags[i]
    OBVIOUS
  <2>2. op \in Ops
    BY <1>1, <2>1 DEF Ops
  <2>3. fin \in BOOLEAN
    BY <2>1
  <2>4. data \in Bytes
    BY <1>1, <2>1
  <2>5. s[i] = PeerFrame(op, fin, data)
    BY <1>2, <2>1 DEF FragmentsOf
  <2>6. s[i] \in Frames /\ s[i].op = op /\ s[i].fin = fin /\ s[i].data = data
    BY <2>2, <2>3, <2>4, <2>5, PeerFramed
  <2> QED BY <2>1, <2>6
<1>5. s \in Seq(Frames) /\ Len(s) = Len(m.frags)
  <2>1. PICK n \in Nat : n = Len(m.frags)
    BY <1>1
  <2>2. s = [i \in 1..n |-> s[i]]
    BY <1>2, <2>1 DEF FragmentsOf
  <2>3. s \in [1..n -> Frames]
    BY <1>4, <2>1, <2>2
  <2> QED BY <2>1, <2>3
<1> QED BY <1>4, <1>5

\* The peer takes the first of our frames, as we wrote it.
TookRefused(f) ==
    /\ peer' = [peer EXCEPT !.there = FALSE]
    /\ taken' = taken /\ toUs' = toUs

TookData(f) ==
    LET got == [op |-> IF f.op \in Data THEN f.op ELSE peer.part.op,
                data |-> peer.part.data \o f.data]
    IN /\ f.op \in Data \cup {"continuation"} /\ ~PeerRefuses(f)
       /\ taken' = IF f.fin THEN Append(taken, got) ELSE taken
       /\ peer' = [peer EXCEPT !.part = IF f.fin THEN NoMessage ELSE got]
       /\ toUs' = toUs

TookClose(f) ==
    /\ f.op = "close"
    /\ peer' = [peer EXCEPT !.echo = {f.data}, !.there = FALSE]
    /\ taken' = taken
    /\ \/ toUs' = toUs
       \/ peer.code = {} /\ \E g \in Frames : g.op = "close" /\ Delivers(g, TRUE)

TookOther(f) ==
    /\ f.op \in {"ping", "pong"}
    /\ taken' = IF f.op = "ping" THEN Append(taken, [op |-> "ping", data |-> f.data]) ELSE taken
    /\ peer' = peer
    /\ \/ toUs' = toUs
       \/ \E g \in Frames : g.op = "pong" /\ Delivers(g, TRUE)

\* What PeerTakes says of the frame as it was before it was masked.
LEMMA TakesFrame ==
  ASSUME Typed, PeerTakes
  PROVE  \E f \in Frames :
            /\ toPeer # <<>> /\ f = Head(toPeer)
            /\ toPeer' = Tail(toPeer) /\ toPeer' \in Seq(Frames)
            /\ TookRefused(f) \/ TookData(f) \/ TookClose(f) \/ TookOther(f)
<1>1. PICK f : f = Head(toPeer)
  OBVIOUS
<1>2. toPeer # <<>> /\ toPeer' = Tail(toPeer)
  BY DEF PeerTakes
<1>3. f \in Frames /\ Tail(toPeer) \in Seq(Frames)
  BY <1>1, <1>2, HeadOfFrames DEF Typed
<1>4. PICK g : g = Read(f)
  OBVIOUS
<1>5. PeerTakesRefused(g) \/ PeerTakesData(g) \/ PeerTakesClose(g) \/ PeerTakesOther(g)
  BY <1>1, <1>4 DEF PeerTakes, Read
<1>6. Payload(g) = f.data /\ g.op = f.op /\ g.fin = f.fin /\ f.data \in Bytes
  BY <1>3, <1>4, Unmasked
<1>7. ASSUME PeerTakesData(g) PROVE TookData(f)
  BY <1>6, <1>7 DEF PeerTakesData, TookData, PeerRefuses
<1>10. ASSUME PeerTakesRefused(g) PROVE TookRefused(f)
  BY <1>10 DEF PeerTakesRefused, TookRefused
<1>8. ASSUME PeerTakesClose(g) PROVE TookClose(f)
  <2>1. ASSUME peer.code = {}
        PROVE  \E h \in Frames : h.op = "close" /\ Delivers(h, TRUE)
    <3>1. PICK h : h = PeerFrame("close", TRUE, f.data)
      OBVIOUS
    <3>2. h \in Frames /\ h.op = "close"
      <4>1. PICK op \in Ops, fin \in BOOLEAN, d \in Bytes : op = "close" /\ fin = TRUE /\ d = f.data
        BY <1>6 DEF Ops, Control
      <4>2. h = PeerFrame(op, fin, d)
        BY <3>1, <4>1
      <4>3. h \in Frames /\ h.op = op
        BY <4>2, PeerFramed
      <4> QED BY <4>1, <4>3
    <3>3. Delivers(h, TRUE)
      BY <1>6, <1>8, <2>1, <3>1 DEF PeerTakesClose
    <3> QED BY <3>2, <3>3
  <2>2. peer.code # {} => toUs' = toUs
    BY <1>8 DEF PeerTakesClose
  <2>3. f.op = "close" /\ peer' = [peer EXCEPT !.echo = {f.data}, !.there = FALSE] /\ taken' = taken
    BY <1>6, <1>8 DEF PeerTakesClose
  <2> QED BY <2>1, <2>2, <2>3 DEF TookClose
<1>9. ASSUME PeerTakesOther(g) PROVE TookOther(f)
  <2>1. CASE f.op = "ping" /\ peer.code = {}
    <3>1. PICK h : h = PeerFrame("pong", TRUE, f.data)
      OBVIOUS
    <3>2. h \in Frames /\ h.op = "pong"
      <4>1. PICK op \in Ops, fin \in BOOLEAN, d \in Bytes : op = "pong" /\ fin = TRUE /\ d = f.data
        BY <1>6 DEF Ops, Control
      <4>2. h = PeerFrame(op, fin, d)
        BY <3>1, <4>1
      <4>3. h \in Frames /\ h.op = op
        BY <4>2, PeerFramed
      <4> QED BY <4>1, <4>3
    <3>3. Delivers(h, TRUE)
      BY <1>6, <1>9, <2>1, <3>1 DEF PeerTakesOther
    <3>4. \E h2 \in Frames : h2.op = "pong" /\ Delivers(h2, TRUE)
      BY <3>2, <3>3
    <3>5. taken' = (IF f.op = "ping" THEN Append(taken, [op |-> "ping", data |-> f.data]) ELSE taken)
          /\ peer' = peer /\ f.op \in {"ping", "pong"}
      BY <1>6, <1>9 DEF PeerTakesOther
    <3> QED BY <3>4, <3>5 DEF TookOther
  <2>2. CASE ~(f.op = "ping" /\ peer.code = {})
    BY <1>6, <1>9, <2>2 DEF PeerTakesOther, TookOther
  <2> QED BY <2>1, <2>2
<1> QED BY <1>1, <1>2, <1>3, <1>5, <1>7, <1>8, <1>9, <1>10

\* Three byte sequences may be joined in either order.
LEMMA BytesAssociative ==
  ASSUME NEW a \in Bytes, NEW b \in Bytes, NEW c \in Bytes
  PROVE  (a \o b) \o c = a \o (b \o c)
<1>1. PICK R, x, y, z : R = Nat /\ x = a /\ y = b /\ z = c
  OBVIOUS
<1>2. x \in Seq(R) /\ y \in Seq(R) /\ z \in Seq(R)
  BY <1>1 DEF Bytes
<1>3. (x \o y) \o z = x \o (y \o z)
  BY ONLY <1>2, ConcatAssociative
<1> QED BY <1>1, <1>3

\* An opcode with a payload.
LEMMA PieceOf == ASSUME NEW op \in Ops, NEW d \in Bytes PROVE [op |-> op, data |-> d] \in Pieces
BY DEF Pieces

\* The message that has not begun.
LEMMA NothingTyped == NoMessage \in Pieces /\ NoMessage.op = "continuation" /\ NoMessage.data = <<>>
BY DEF NoMessage, Pieces, Bytes, Ops

\* Two byte sequences, one behind the other, are one.
LEMMA Joined == ASSUME NEW c \in Bytes, NEW d \in Bytes PROVE c \o d \in Bytes
BY ConcatProperties DEF Bytes

\* What receive() makes of a data frame.
Gathered(f) ==
    [op |-> IF f.op \in Data THEN f.op ELSE message.op, data |-> message.data \o f.data]

LEMMA Collects ==
  ASSUME Typed, ReadFrame, NEW f, f = Head(toUs)
  PROVE  Gathered(f) \in Pieces /\ Collected(Incoming) = Gathered(f)
<1>1. /\ Payload(Incoming) = f.data /\ Incoming.op = f.op /\ f \in Frames
  BY ReadsFrame
<1>2. f.op \in Ops /\ f.data \in Bytes /\ message \in Pieces
  BY <1>1, FrameFields DEF Typed
<1>3. PICK op \in Ops, d \in Bytes :
            op = (IF f.op \in Data THEN f.op ELSE message.op) /\ d = message.data \o f.data
  BY <1>2, Joined DEF Pieces
<1>4. [op |-> op, data |-> d] \in Pieces
  BY PieceOf
<1> QED BY <1>1, <1>3, <1>4 DEF Collected, Gathered

\* All elements but the last.
LEMMA FrontTyped ==
  ASSUME NEW S, NEW s \in Seq(S)
  PROVE  /\ Front(s) \in Seq(S)
         /\ s # <<>> => /\ s[Len(s)] \in S /\ s = Append(Front(s), s[Len(s)])
                       /\ \A i \in DOMAIN Front(s) : i \in DOMAIN s /\ Front(s)[i] = s[i]
<1>1. PICK n \in Nat : n = Len(s)
  OBVIOUS
<1>2. Front(s) = SubSeq(s, 1, n - 1)
  BY <1>1 DEF Front
<1>3. CASE s = <<>>
  BY <1>1, <1>2, <1>3
<1>4. CASE s # <<>>
  <2>1. n >= 1
    BY <1>1, <1>4
  <2> QED BY <1>1, <1>2, <2>1
<1> QED BY <1>3, <1>4

\* All but what was appended.
LEMMA FrontOf ==
  ASSUME NEW S, NEW s \in Seq(S), NEW m \in S
  PROVE  Front(Append(s, m)) = s
<1>1. PICK u \in Seq(S) : u = Append(s, m)
  BY AppendProperties
<1>2. PICK n \in Nat : n = Len(s)
  OBVIOUS
<1>3. Len(u) = n + 1 /\ \A i \in 1..n : u[i] = s[i]
  BY <1>1, <1>2, AppendProperties
<1>4. Front(u) = SubSeq(u, 1, n)
  BY <1>3 DEF Front
<1>5. SubSeq(u, 1, n) = s
  BY <1>2, <1>3
<1> QED BY <1>1, <1>4, <1>5

\* The types: the initial states, the application's steps, receive(), the peer.
LEMMA InitTyped == WsInit => Typed
<1> SUFFICES ASSUME WsInit PROVE Typed
  OBVIOUS
<1>1. peer \in [there : BOOLEAN, due : Seq(Frames), part : Pieces, extras : Nat,
                code : SUBSET Bytes, echo : SUBSET Bytes]
  BY NothingTyped DEF WsInit
<1>2. /\ <<>> \in Seq(Frames) /\ <<>> \in Seq(Pieces)
  BY EmptySeq
<1> QED BY <1>1, <1>2, NothingTyped DEF WsInit, Typed

\* send() and close() keep the types.
LEMMA ApplicationTyped ==
  ASSUME MessagesOK, Typed,
         \/ StartSend \/ SendFrame \/ SendFails \/ StartClose \/ FinishClose \/ SetBlocking
         \/ StartReceive
  PROVE  Typed'
<1>1. ASSUME StartSend PROVE Typed'
  <2>1. PICK m \in AppMessages : asked' = Append(asked, m) /\ rest' = m
    BY <1>1 DEF StartSend
  <2>2. m \in Pieces
    BY MessageFields
  <2> QED BY <1>1, <2>1, <2>2 DEF StartSend, Typed, app, peerSide
<1>2. ASSUME SendFrame PROVE Typed'
  <2>1. PICK f \in Frames, more \in Bytes :
              /\ Sent(f) /\ rest' = [op |-> "continuation", data |-> more]
              /\ call' = IF more = <<>> THEN "none" ELSE "send"
    BY <1>2, SendsFrame
  <2>2. toPeer' \in Seq(Frames) /\ broken' = broken
    BY <2>1, SentTyped
  <2>3. rest' \in Pieces
    BY <2>1 DEF Pieces, Ops
  <2>4. call' \in {"none", "send"}
    BY <2>1
  <2> QED BY <1>2, <2>2, <2>3, <2>4 DEF SendFrame, Typed, app, peerSide
<1>3. ASSUME SendFails PROVE Typed'
  <2>1. asked' = Front(asked) /\ toPeer' = toPeer /\ broken' \in {broken, broken \/ peer.there}
    BY <1>3 DEF SendFails, NotSent
  <2>2. asked' \in Seq(Pieces)
    BY <2>1, FrontTyped DEF Typed
  <2>3. broken' \in BOOLEAN
    BY <2>1 DEF Typed
  <2> QED BY <1>3, <2>1, <2>2, <2>3, NothingTyped DEF SendFails, Typed, app, peerSide
<1>4. ASSUME StartClose PROVE Typed'
  BY <1>4, NothingTyped DEF StartClose, BeginClose, Typed, app, peerSide
<1>5. ASSUME FinishClose PROVE Typed'
  BY <1>5 DEF FinishClose, Typed, app, peerSide
<1>6. ASSUME SetBlocking PROVE Typed'
  BY <1>6 DEF SetBlocking, Typed, peerSide
<1>7. ASSUME StartReceive PROVE Typed'
  BY <1>7, NothingTyped DEF StartReceive, Typed, app, peerSide
<1> QED BY <1>1, <1>2, <1>3, <1>4, <1>5, <1>6, <1>7

\* receive() answers with a frame, with nothing or with a part of a frame.
Nothing == toPeer' = toPeer /\ broken' \in {broken, broken \/ peer.there}
Answers == Nothing \/ \E f \in Frames : f.op \in {"close", "pong"} /\ Sent(f)

\* An answer is a frame.
LEMMA AnswersTyped == ASSUME Typed, Answers PROVE toPeer' \in Seq(Frames) /\ broken' \in BOOLEAN
<1>1. ASSUME Nothing PROVE toPeer' \in Seq(Frames) /\ broken' \in BOOLEAN
  BY <1>1 DEF Nothing, Typed
<1> QED BY <1>1, SentTyped DEF Answers, Typed

\* The pong is a frame.
LEMMA PongTyped == ASSUME NEW f, f = Frame("pong", TRUE, <<>>, TRUE) PROVE f \in Frames /\ f.op = "pong"
<1>1. <<>> \in Bytes
  BY EmptySeq DEF Bytes
<1>2. f \in [op : Ops, fin : BOOLEAN, data : Bytes, masked : BOOLEAN, veiled : BOOLEAN,
             whole : BOOLEAN]
  BY <1>1 DEF Frame, Ops, Control
<1>3. f.veiled = f.masked /\ f.op = "pong"
  BY DEF Frame
<1> QED BY <1>2, <1>3 DEF Frames

\* The close frame carries the first two bytes of the one it answers, or none.
Echo(d) == IF Len(d) >= 2 THEN SubSeq(d, 1, 2) ELSE <<>>

\* The payload of the answer to a close frame is a byte sequence.
LEMMA EchoTyped == ASSUME NEW d \in Bytes PROVE Echo(d) \in Bytes
BY DEF Echo, Bytes

\* The answer to a close frame.
LEMMA ClosesWith ==
  ASSUME Typed, ReceiveClose
  PROVE  \/ Nothing
         \/ \E f \in Frames : f.op = "close" /\ f.data = Echo(Head(toUs).data) /\ Sent(f)
<1> SUFFICES ASSUME ~Nothing
             PROVE  \E f \in Frames : f.op = "close" /\ f.data = Echo(Head(toUs).data) /\ Sent(f)
  OBVIOUS
<1>1. ReadFrame
  BY DEF ReceiveClose
<1>2. Head(toUs) \in Frames /\ Incoming.data = Head(toUs).data /\ Incoming.masked = Head(toUs).masked
  BY <1>1, ReadsFrame
<1>3. Head(toUs).data \in Bytes /\ Head(toUs).masked \in BOOLEAN
  BY <1>2, FrameFields
<1>4. PICK op \in Ops, fin \in BOOLEAN, d \in Bytes, m \in BOOLEAN :
            op = "close" /\ fin = TRUE /\ d = Echo(Head(toUs).data) /\ m = ~Incoming.masked
  BY <1>2, <1>3, EchoTyped DEF Ops, Control
<1>5. PICK f : f = Frame(op, fin, d, m)
  OBVIOUS
<1>6. f \in Frames /\ f.op = op /\ f.data = d
  BY <1>5, Framed
<1>7. Sent(f)
  <2>1. UNCHANGED <<toPeer, broken>> => Nothing
    BY DEF Nothing
  <2>2. NotSent => Nothing
    BY DEF NotSent, Nothing
  <2>3. connectionState # "disconnecting"
    BY <2>1 DEF ReceiveClose
  <2>4. Answered(f)
    BY <1>2, <1>4, <1>5, <2>3 DEF ReceiveClose, Echo
  <2> QED BY <2>2, <2>4 DEF Answered
<1> QED BY <1>4, <1>6, <1>7

\* What receive() writes is a close frame or a pong.
LEMMA Replies ==
  ASSUME Typed, Receive
  PROVE  Answers
<1>1. ASSUME ReceiveClose PROVE Answers
  BY <1>1, ClosesWith DEF Answers
<1>2. ASSUME ReceivePing PROVE Answers
  <2>1. PICK f : f = Frame("pong", TRUE, <<>>, TRUE)
    OBVIOUS
  <2>2. Nothing \/ Sent(f)
    BY <1>2, <2>1 DEF ReceivePing, Answered, NotSent, Nothing
  <2>3. f \in Frames /\ f.op = "pong"
    BY <2>1, PongTyped
  <2> QED BY <2>2, <2>3 DEF Answers
<1> QED BY <1>1, <1>2 DEF Receive, Answers, Nothing, ReceiveNothing, ReceiveBroken, ReceiveError, ReceiveData,
           ReceivePong, ReceiveReserved

\* Of the frames it reads at most the first, and it does not touch the rest.
LEMMA ReceiveFrame ==
  ASSUME Receive
  PROVE  /\ call = "receive"
         /\ toUs' = toUs \/ (toUs # <<>> /\ toUs' = Tail(toUs))
         /\ isClient' = isClient /\ rest' = rest /\ peer' = peer
         /\ posted' = posted /\ asked' = asked /\ taken' = taken
BY DEF Receive, ReceiveNothing, ReceiveBroken, ReceiveError, ReceiveData, ReceiveClose,
       ReceivePing, ReceivePong, ReceiveReserved, ReadFrame, app, peerSide

\* receive() keeps the types.
LEMMA ReceiveTyped ==
  ASSUME Typed, Receive
  PROVE  Typed'
<1>1. toPeer' \in Seq(Frames) /\ broken' \in BOOLEAN
  BY Replies, AnswersTyped
<1>2. toUs' \in Seq(Frames)
  BY ReceiveFrame, HeadOfFrames DEF Typed
<1>3. sock' \in {"open", "shut", "closed"} /\ call' \in {"none", "receive", "close"}
  BY DEF Typed, Receive, ReceiveNothing, ReceiveBroken, ReceiveError, ReceiveData, ReceiveClose,
         ReceivePing, ReceivePong, ReceiveReserved, ReadFrame, Resume, BeginClose
<1>4. message' \in Pieces /\ given' \in Seq(Pieces)
  <2>1. CASE ReceiveData
    <3>1. ReadFrame
      BY <2>1 DEF ReceiveData
    <3>2. PICK m \in Pieces : m = Collected(Incoming)
      <4>1. PICK f : f = Head(toUs)
        OBVIOUS
      <4> QED BY <3>1, <4>1, Collects
    <3>3. given' \in {given, Append(given, m)} /\ message' \in {m, NoMessage}
      BY <2>1, <3>2 DEF ReceiveData
    <3>4. given \in Seq(Pieces)
      BY DEF Typed
    <3>5. Append(given, m) \in Seq(Pieces)
      BY <3>2, <3>4, AppendProperties
    <3> QED BY <3>2, <3>3, <3>4, <3>5, NothingTyped
  <2>2. CASE ~ReceiveData
    <3>1. given' = given /\ message' \in {message, NoMessage}
      BY <2>2 DEF Receive, ReceiveNothing, ReceiveBroken, ReceiveError, ReceiveClose,
         ReceivePing, ReceivePong, ReceiveReserved, BeginClose
    <3> QED BY <3>1, NothingTyped DEF Typed
  <2> QED BY <2>1, <2>2
<1> QED BY <1>1, <1>2, <1>3, <1>4, ReceiveFrame DEF Typed

\* What a peer may put between its messages, a ping or a malformed frame,
Long == [i \in 1..(MaxControl + 1) |-> 65]
Extra == {PeerFrame("ping", TRUE, <<>>), PeerFrame("reserved", TRUE, <<65>>),
          PeerFrame("ping", FALSE, <<>>), PeerFrame("ping", TRUE, Long)}

\* is a frame.
LEMMA ExtraTyped ==
  ASSUME MessagesOK, Typed,
         NEW f \in Extra
  PROVE  f \in Frames /\ f.op \in {"ping", "reserved"}
<1>1. <<>> \in Bytes /\ <<65>> \in Bytes /\ Long \in Bytes
  <2>1. PICK n \in Nat : n = MaxControl + 1
    BY MessageFields
  <2>2. [i \in 1..n |-> 65] \in Seq(Nat)
    OBVIOUS
  <2> QED BY <2>1, <2>2, EmptySeq DEF Bytes, Long
<1> DEFINE Shapes == [op : Ops, fin : BOOLEAN, data : Bytes, masked : BOOLEAN, veiled : BOOLEAN,
                      whole : BOOLEAN]
<1>2. f \in Shapes
  <2>1. isClient \in BOOLEAN
    BY DEF Typed
  <2>2. PeerFrame("ping", TRUE, <<>>) \in Shapes /\ PeerFrame("ping", FALSE, <<>>) \in Shapes
    BY <1>1, <2>1 DEF PeerFrame, Frame, Ops, Control
  <2>3. PeerFrame("reserved", TRUE, <<65>>) \in Shapes
    BY <1>1, <2>1 DEF PeerFrame, Frame, Ops
  <2>4. PeerFrame("ping", TRUE, Long) \in Shapes
    BY <1>1, <2>1 DEF PeerFrame, Frame, Ops, Control
  <2> QED BY <2>2, <2>3, <2>4 DEF Extra
<1>3. f.veiled = f.masked /\ f.op \in {"ping", "reserved"}
  BY DEF Extra, PeerFrame, Frame
<1> QED BY <1>2, <1>3 DEF Frames

\* The peer's close frame is a frame.
LEMMA CloseTyped ==
  ASSUME Typed, NEW code \in Bytes, NEW f, f = PeerFrame("close", TRUE, code)
  PROVE  f \in Frames /\ f.op = "close" /\ f.data = code
<1>1. f \in [op : Ops, fin : BOOLEAN, data : Bytes, masked : BOOLEAN, veiled : BOOLEAN,
             whole : BOOLEAN]
  BY DEF PeerFrame, Frame, Ops, Control, Typed
<1>2. f.veiled = f.masked /\ f.op = "close" /\ f.data = code
  BY DEF PeerFrame, Frame
<1> QED BY <1>1, <1>2 DEF Frames

PeerTypes ==
    [there : BOOLEAN, due : Seq(Frames), part : Pieces, extras : Nat,
     code : SUBSET Bytes, echo : SUBSET Bytes]

\* The peer keeps the types.
LEMMA PeerTyped ==
  ASSUME MessagesOK, Typed, Peer
  PROVE  Typed'
<1>0. peer \in PeerTypes /\ toUs \in Seq(Frames) /\ toPeer \in Seq(Frames)
      /\ posted \in Seq(Pieces) /\ taken \in Seq(Pieces)
  BY DEF Typed, PeerTypes
<1>a. ASSUME peer' \in PeerTypes, toUs' \in Seq(Frames), toPeer' \in Seq(Frames),
             posted' \in Seq(Pieces), taken' \in Seq(Pieces), UNCHANGED ours
      PROVE  Typed'
  BY <1>a DEF Typed, PeerTypes, ours, app
<1>1. ASSUME PeerPosts PROVE Typed'
  <2>1. PICK m \in PeerMessages :
           /\ posted' = Append(posted, [op |-> m.op, data |-> FlattenSeq(m.frags)])
           /\ peer' = [peer EXCEPT !.due = FragmentsOf(m)]
    BY <1>1 DEF PeerPosts
  <2>2. PICK frags \in Seq(Seq(Nat)) : frags = m.frags
    BY MessageFields DEF Bytes
  <2>3. FlattenSeq(frags) \in Seq(Nat)
    BY FlattenSequence
  <2>4. m.op \in Ops
    BY MessageFields DEF Ops
  <2>5. PICK x \in Pieces : x = [op |-> m.op, data |-> FlattenSeq(m.frags)]
    BY <2>2, <2>3, <2>4 DEF Pieces, Bytes
  <2>6. posted' \in Seq(Pieces)
    BY <1>0, <2>1, <2>5
  <2>7. FragmentsOf(m) \in Seq(Frames)
    BY Fragments
  <2>8. peer' \in PeerTypes
    BY <1>0, <2>1, <2>7 DEF PeerTypes
  <2> QED BY <1>0, <1>a, <1>1, <2>6, <2>8 DEF PeerPosts
<1>2. ASSUME PeerSends PROVE Typed'
  <2>1. PICK whole \in BOOLEAN : Delivers(Head(peer.due), whole)
    BY <1>2 DEF PeerSends
  <2>2. peer.due \in Seq(Frames) /\ peer.due # <<>>
    BY <1>0, <1>2 DEF PeerSends, PeerTypes
  <2>3. Head(peer.due) \in Frames /\ Tail(peer.due) \in Seq(Frames)
    BY <2>2, HeadOfFrames
  <2>4. toUs' \in Seq(Frames)
    BY <2>1, <2>3, DeliversTyped
  <2>5. peer' \in PeerTypes
    BY <1>0, <1>2, <2>3 DEF PeerSends, PeerTypes
  <2> QED BY <1>0, <1>a, <1>2, <2>4, <2>5 DEF PeerSends
<1>3. ASSUME PeerCompletes PROVE Typed'
  <2>1. toUs' = [toUs EXCEPT ![Len(toUs)].whole = TRUE] /\ toUs # <<>>
    BY <1>3 DEF PeerCompletes, Settled
  <2>2. toUs[Len(toUs)] \in Frames /\ Len(toUs) \in 1..Len(toUs)
    BY <1>0, <2>1
  <2>3. PICK f \in Frames : f = [toUs[Len(toUs)] EXCEPT !.whole = TRUE]
    BY <2>2 DEF Frames
  <2>4. toUs' = [toUs EXCEPT ![Len(toUs)] = f]
    BY <2>1, <2>3
  <2>5. toUs' \in Seq(Frames)
    BY <1>0, <2>2, <2>4, ExceptSeq
  <2> QED BY <1>0, <1>a, <1>3, <2>5 DEF PeerCompletes, peerSide
<1>4. ASSUME PeerPings PROVE Typed'
  <2>1. PICK f : f = PeerFrame("ping", TRUE, <<>>)
    OBVIOUS
  <2>2. f \in Frames
    BY <2>1, ExtraTyped DEF Extra
  <2>3. toUs' \in Seq(Frames)
    BY <1>4, <2>1, <2>2, DeliversTyped DEF PeerPings
  <2>4. peer' \in PeerTypes
    <3>1. peer' = [peer EXCEPT !.extras = @ + 1]
      BY <1>4 DEF PeerPings
    <3>2. PICK n \in Nat : n = peer.extras + 1
      BY <1>0 DEF PeerTypes
    <3>3. peer' = [peer EXCEPT !.extras = n]
      BY <3>1, <3>2
    <3> QED BY <1>0, <3>3 DEF PeerTypes
  <2> QED BY <1>0, <1>a, <1>4, <2>3, <2>4 DEF PeerPings
<1>5. ASSUME PeerMisbehaves PROVE Typed'
  <2>1. PICK f \in Extra : Delivers(f, TRUE)
    BY <1>5 DEF PeerMisbehaves, Extra, Long
  <2>2. f \in Frames
    BY ExtraTyped
  <2>3. toUs' \in Seq(Frames)
    BY <2>1, <2>2, DeliversTyped
  <2>4. peer' \in PeerTypes
    <3>1. peer' = [peer EXCEPT !.extras = @ + 1]
      BY <1>5 DEF PeerMisbehaves
    <3>2. PICK n \in Nat : n = peer.extras + 1
      BY <1>0 DEF PeerTypes
    <3>3. peer' = [peer EXCEPT !.extras = n]
      BY <3>1, <3>2
    <3> QED BY <1>0, <3>3 DEF PeerTypes
  <2> QED BY <1>0, <1>a, <1>5, <2>3, <2>4 DEF PeerMisbehaves
<1>6. ASSUME PeerCloses PROVE Typed'
  <2>1. PICK code \in CloseCodes :
              /\ Delivers(PeerFrame("close", TRUE, code), TRUE)
              /\ peer' = [peer EXCEPT !.code = {code}]
    BY <1>6 DEF PeerCloses
  <2>2. code \in Bytes
    BY MessageFields
  <2>3. PICK f : f = PeerFrame("close", TRUE, code)
    OBVIOUS
  <2>4. f \in Frames
    BY <2>2, <2>3, CloseTyped
  <2>5. toUs' \in Seq(Frames)
    BY <2>1, <2>3, <2>4, DeliversTyped
  <2>6. peer' \in PeerTypes
    BY <1>0, <2>1, <2>2 DEF PeerTypes
  <2> QED BY <1>0, <1>a, <1>6, <2>5, <2>6 DEF PeerCloses
<1>7. ASSUME PeerTakes PROVE Typed'
  <2>1. PICK f \in Frames :
            /\ toPeer' \in Seq(Frames)
            /\ TookRefused(f) \/ TookData(f) \/ TookClose(f) \/ TookOther(f)
    BY <1>7, TakesFrame
  <2>2. f.op \in Ops /\ f.data \in Bytes
    BY FrameFields
  <2>3. posted' = posted /\ UNCHANGED ours
    BY <1>7 DEF PeerTakes
  <2>4. CASE TookData(f)
    <3>1. PICK op \in Ops, d \in Bytes :
                op = (IF f.op \in Data THEN f.op ELSE peer.part.op) /\ d = peer.part.data \o f.data
      BY <1>0, <2>2, Joined DEF PeerTypes, Pieces
    <3>2. PICK got \in Pieces : got = [op |-> op, data |-> d]
      BY PieceOf
    <3>3. /\ taken' \in {taken, Append(taken, got)}
          /\ peer' = [peer EXCEPT !.part = IF f.fin THEN NoMessage ELSE got]
          /\ toUs' = toUs
      BY <2>4, <3>1, <3>2 DEF TookData
    <3>4. taken' \in Seq(Pieces)
      <4>1. Append(taken, got) \in Seq(Pieces)
        BY <1>0, AppendProperties
      <4> QED BY <1>0, <3>3, <4>1
    <3>5. peer' \in PeerTypes
      BY <1>0, <3>2, <3>3, NothingTyped DEF PeerTypes
    <3> QED BY <1>0, <1>a, <2>1, <2>3, <3>3, <3>4, <3>5
  <2>5. CASE TookClose(f)
    <3>1. toUs' \in Seq(Frames)
      BY <1>0, <2>5, DeliversTyped DEF TookClose
    <3>2. peer' \in PeerTypes /\ taken' = taken
      BY <1>0, <2>2, <2>5 DEF TookClose, PeerTypes
    <3> QED BY <1>0, <1>a, <2>1, <2>3, <3>1, <3>2
  <2>6. CASE TookOther(f)
    <3>1. toUs' \in Seq(Frames)
      BY <1>0, <2>6, DeliversTyped DEF TookOther
    <3>2. PICK got \in Pieces : got = [op |-> "ping", data |-> f.data]
      <4>1. PICK op \in Ops : op = "ping"
        BY DEF Ops, Control
      <4> QED BY <2>2, <4>1, PieceOf
    <3>3. taken' \in {taken, Append(taken, got)} /\ peer' = peer
      BY <2>6, <3>2 DEF TookOther
    <3>4. taken' \in Seq(Pieces)
      <4>1. Append(taken, got) \in Seq(Pieces)
        BY <1>0, AppendProperties
      <4> QED BY <1>0, <3>3, <4>1
    <3> QED BY <1>0, <1>a, <2>1, <2>3, <3>1, <3>3, <3>4
  <2>7. CASE TookRefused(f)
    <3>1. peer' \in PeerTypes /\ taken' = taken /\ toUs' = toUs
      BY <1>0, <2>7 DEF TookRefused, PeerTypes
    <3> QED BY <1>0, <1>a, <2>1, <2>3, <3>1
  <2> QED BY <2>1, <2>4, <2>5, <2>6, <2>7
<1>10. ASSUME PeerMisreads PROVE Typed'
  <2>1. Garbled \in Pieces
    BY EmptySeq DEF Garbled, Pieces, Ops, Bytes
  <2>2. taken' = Append(taken, Garbled)
    BY <1>10 DEF PeerMisreads
  <2>3. taken' \in Seq(Pieces)
    BY <1>0, <2>1, <2>2, AppendProperties
  <2> QED BY <1>0, <1>a, <1>10, <2>3 DEF PeerMisreads
<1>8. ASSUME PeerLeaves PROVE Typed'
  <2>1. peer' \in PeerTypes
    BY <1>0, <1>8 DEF PeerLeaves, PeerTypes
  <2> QED BY <1>0, <1>a, <1>8, <2>1 DEF PeerLeaves
<1>9. ASSUME PeerDies PROVE Typed'
  <2>1. peer' \in PeerTypes
    BY <1>0, <1>9 DEF PeerDies, PeerTypes
  <2>2. toUs' \in Seq(Frames) /\ toPeer' \in Seq(Frames)
    BY <1>0, <1>9, EmptySeq DEF PeerDies
  <2> QED BY <1>0, <1>a, <1>9, <2>1, <2>2 DEF PeerDies
<1> QED BY <1>1, <1>2, <1>3, <1>4, <1>5, <1>6, <1>7, <1>8, <1>9, <1>10 DEF Peer

\* Every step keeps the types.
LEMMA NextTyped == ASSUME MessagesOK, Typed, [WsNext]_wsVars PROVE Typed'
<1>1. CASE UNCHANGED wsVars
  BY <1>1 DEF wsVars, Typed
<1> QED BY <1>1, ApplicationTyped, ReceiveTyped, PeerTyped DEF WsNext

---------------------------------------------------------------------------
(***************************************************************************)
(* Close frames.  While the peer is there, each one on its way to us is    *)
(* the peer's, and each one on its way to it, when the application has     *)
(* sent none, is receive()'s answer to it.                                 *)
(***************************************************************************)

\* The close frames of s carry one of the payloads.
Closes(s, payloads) == \A i \in 1..Len(s) : s[i].op = "close" => s[i].data \in payloads

\* The messages that send() has written, all frames of each.
Base == IF call = "send" THEN Front(asked) ELSE asked
NoneSent == \A i \in DOMAIN Base : Base[i].op # "close"
Echoes == {Echo(c) : c \in peer.code}

\* send() is writing the last message that was asked for, or what is left of it.
Sending ==
    /\ asked \in Seq(AppMessages)
    /\ call = "send" => asked # <<>> /\ (rest = asked[Len(asked)] \/ rest.op = "continuation")

Echoing ==
    /\ peer.there => peer.echo = {} /\ Closes(toUs, peer.code)
    /\ peer.there /\ NoneSent => Closes(toPeer, Echoes)
    /\ ~peer.there /\ NoneSent => peer.echo \subseteq Echoes
    /\ Closes(peer.due, {})

\* Reading the first frame leaves the close frames behind it.
LEMMA ClosesLess ==
  ASSUME NEW s \in Seq(Frames), s # <<>>, NEW payloads, Closes(s, payloads)
  PROVE  /\ Closes(Tail(s), payloads)
         /\ Head(s).op = "close" => Head(s).data \in payloads
<1>1. Len(Tail(s)) = Len(s) - 1 /\ \A i \in 1..Len(Tail(s)) : Tail(s)[i] = s[i + 1]
  BY HeadTailProperties
<1>2. Head(s) = s[1] /\ 1 \in 1..Len(s)
  OBVIOUS
<1>3. ASSUME NEW i \in 1..Len(Tail(s)), Tail(s)[i].op = "close" PROVE Tail(s)[i].data \in payloads
  <2>1. i + 1 \in 1..Len(s) /\ Tail(s)[i] = s[i + 1]
    BY <1>1
  <2> QED BY <1>3, <2>1 DEF Closes
<1> QED BY <1>2, <1>3 DEF Closes

\* A frame more.
LEMMA ClosesMore ==
  ASSUME NEW s \in Seq(Frames), NEW payloads, Closes(s, payloads), NEW f \in Frames,
         f.op = "close" => f.data \in payloads
  PROVE  Closes(Append(s, f), payloads)
<1>1. /\ Len(Append(s, f)) = Len(s) + 1 /\ Append(s, f)[Len(s) + 1] = f
      /\ \A i \in 1..Len(s) : Append(s, f)[i] = s[i]
  BY AppendProperties
<1> SUFFICES ASSUME NEW i \in 1..Len(Append(s, f)), Append(s, f)[i].op = "close"
             PROVE  Append(s, f)[i].data \in payloads
  BY DEF Closes
<1>2. CASE i \in 1..Len(s)
  BY <1>1, <1>2 DEF Closes
<1>3. CASE i = Len(s) + 1
  BY <1>1, <1>3
<1> QED BY <1>1, <1>2, <1>3

\* No frame is no close frame.
LEMMA ClosesNone ==
  ASSUME NEW payloads PROVE Closes(<<>>, payloads)
BY DEF Closes

\* More payloads are allowed.
LEMMA ClosesWider ==
  ASSUME NEW s, NEW T, NEW payloads, Closes(s, T), T \subseteq payloads
  PROVE  Closes(s, payloads)
BY DEF Closes

\* PeerCompletes changes nothing of a frame but that all of it has arrived.
SameBut(f, g) == f.op = g.op /\ f.fin = g.fin /\ f.data = g.data

\* The frames after PeerCompletes.
LEMMA Completed ==
  ASSUME NEW s \in Seq(Frames), NEW t, t = [s EXCEPT ![Len(s)].whole = TRUE]
  PROVE  Len(t) = Len(s) /\ \A i \in 1..Len(s) : SameBut(t[i], s[i])
<1>1. DOMAIN t = DOMAIN s /\ Len(t) = Len(s)
  OBVIOUS
<1>2. ASSUME NEW i \in 1..Len(s) PROVE SameBut(t[i], s[i])
  <2>1. s[i] \in Frames
    OBVIOUS
  <2>2. t[i] = s[i] \/ t[i] = [s[i] EXCEPT !.whole = TRUE]
    <3>1. PICK n \in Nat : n = Len(s) /\ i \in 1..n
      OBVIOUS
    <3>2. DOMAIN s = 1..n
      BY <3>1
    <3>3. t = [j \in 1..n |-> IF j = n THEN [s[n] EXCEPT !.whole = TRUE] ELSE s[j]]
      BY <3>1, <3>2
    <3>4. CASE i = n
      BY <3>1, <3>3, <3>4
    <3>5. CASE i # n
      BY <3>1, <3>3, <3>5
    <3> QED BY <3>4, <3>5
  <2> QED BY <2>1, <2>2 DEF SameBut, Frames
<1> QED BY <1>1, <1>2

\* Close frames, initially.
LEMMA InitEchoing == WsInit => Sending /\ Echoing
<1> SUFFICES ASSUME WsInit PROVE Sending /\ Echoing
  OBVIOUS
<1>1. /\ toUs = <<>> /\ toPeer = <<>> /\ call = "none" /\ asked = <<>>
      /\ peer.there = TRUE /\ peer.echo = {} /\ peer.due = <<>>
  BY DEF WsInit
<1>2. asked \in Seq(AppMessages)
  BY <1>1, EmptySeq
<1> QED BY <1>1, <1>2, ClosesNone DEF Sending, Echoing

\* What delivers no close frame leaves the rest.
LEMMA DeliversNoClose ==
  ASSUME Typed, Closes(toUs, peer.code), NEW f \in Frames, f.op # "close", NEW whole \in BOOLEAN,
         Delivers(f, whole)
  PROVE  Closes(toUs', peer.code)
<1>1. CASE toUs' = toUs
  BY <1>1
<1>2. CASE sock # "closed"
  <2>1. PICK g \in Frames : toUs' = Append(toUs, g) /\ g.op # "close"
    BY <1>2, DeliversTyped
  <2>2. toUs \in Seq(Frames)
    BY DEF Typed
  <2> QED BY <2>1, <2>2, ClosesMore
<1> QED BY <1>1, <1>2, DeliversTyped

\* send() writes the last message that was asked for, until it is done.
LEMMA NextSending == ASSUME MessagesOK, Typed, Sending, [WsNext]_wsVars PROVE Sending'
<1>0. asked \in Seq(AppMessages)
  BY DEF Sending
<1>1. ASSUME StartSend PROVE Sending'
  <2>1. PICK m \in AppMessages : asked' = Append(asked, m) /\ rest' = m
    BY <1>1 DEF StartSend
  <2>2. asked' \in Seq(AppMessages) /\ asked' # <<>> /\ asked'[Len(asked')] = m
    BY <1>0, <2>1, AppendProperties
  <2> QED BY <2>1, <2>2 DEF Sending
<1>2. ASSUME SendFrame PROVE Sending'
  <2>1. asked' = asked /\ rest'.op = "continuation" /\ (call' = "send" => call = "send")
    BY <1>2 DEF SendFrame
  <2> QED BY <2>1 DEF Sending
<1>3. ASSUME SendFails PROVE Sending'
  <2>1. asked' = Front(asked) /\ call' # "send"
    BY <1>3 DEF SendFails
  <2>2. asked' \in Seq(AppMessages)
    BY <1>0, <2>1, FrontTyped
  <2> QED BY <2>1, <2>2 DEF Sending
<1>4. ASSUME asked' = asked, call' # "send" \/ (call' = call /\ rest' = rest) PROVE Sending'
  BY <1>4 DEF Sending
<1>5. ASSUME Receive PROVE asked' = asked /\ call' # "send"
  BY <1>5 DEF Receive, ReceiveNothing, ReceiveBroken, ReceiveError, ReceiveData, ReceiveClose,
         ReceivePing, ReceivePong, ReceiveReserved, ReadFrame, Resume, BeginClose
<1>6. ASSUME Peer PROVE call' = call /\ asked' = asked /\ rest' = rest
  BY <1>6 DEF Peer, PeerPosts, PeerSends, PeerCompletes, PeerPings, PeerMisbehaves, PeerCloses,
         PeerTakes, PeerMisreads, PeerLeaves, PeerDies, ours
<1>7. ASSUME StartClose \/ FinishClose \/ SetBlocking \/ StartReceive \/ UNCHANGED wsVars
      PROVE  asked' = asked /\ (call' # "send" \/ (call' = call /\ rest' = rest))
  BY <1>7 DEF StartClose, BeginClose, FinishClose, SetBlocking, StartReceive, wsVars
<1> QED BY <1>1, <1>2, <1>3, <1>4, <1>5, <1>6, <1>7 DEF WsNext

\* What send() has written is a beginning of what it was asked for.
LEMMA BaseIs ==
  ASSUME Sending
  PROVE  /\ Base \in Seq(AppMessages)
         /\ call # "send" => asked = Base
         /\ call = "send" => /\ asked[Len(asked)] \in AppMessages
                             /\ asked = Append(Base, asked[Len(asked)])
BY FrontTyped DEF Sending, Base

\* A frame of send() that is not the last leaves it, and so does every other
\* step, a failure too.
LEMMA NextBase ==
  ASSUME MessagesOK, Typed, Sending, [WsNext]_wsVars
  PROVE  Base' = IF call = "send" /\ SendFrame /\ call' # "send" THEN asked ELSE Base
<1>0. asked \in Seq(AppMessages)
  BY DEF Sending
<1>1. ASSUME StartSend PROVE Base' = Base /\ ~SendFrame
  <2>1. PICK m \in AppMessages : asked' = Append(asked, m)
    BY <1>1 DEF StartSend
  <2>2. call = "none" /\ call' = "send"
    BY <1>1 DEF StartSend
  <2>3. Front(asked') = asked
    BY <1>0, <2>1, FrontOf
  <2> QED BY <2>2, <2>3 DEF Base, SendFrame
<1>2. ASSUME SendFrame PROVE call = "send" /\ Base' = IF call' # "send" THEN asked ELSE Base
  <2>1. call = "send" /\ asked' = asked /\ call' \in {"none", "send"}
    BY <1>2 DEF SendFrame
  <2> QED BY <2>1 DEF Base
<1>3. ASSUME SendFails, ~SendFrame PROVE Base' = Base
  BY <1>3 DEF SendFails, Base
<1>4. ASSUME asked' = asked, call # "send", call' # "send" PROVE Base' = Base /\ ~SendFrame
  BY <1>4 DEF Base, SendFrame
<1>5. ASSUME Receive PROVE asked' = asked /\ call # "send" /\ call' # "send"
  BY <1>5 DEF Receive, ReceiveNothing, ReceiveBroken, ReceiveError, ReceiveData, ReceiveClose,
         ReceivePing, ReceivePong, ReceiveReserved, ReadFrame, Resume, BeginClose
<1>6. ASSUME Peer \/ UNCHANGED wsVars PROVE call' = call /\ asked' = asked
  BY <1>6 DEF Peer, PeerPosts, PeerSends, PeerCompletes, PeerPings, PeerMisbehaves, PeerCloses,
         PeerTakes, PeerMisreads, PeerLeaves, PeerDies, ours, wsVars
<1>7. ASSUME StartClose \/ FinishClose \/ SetBlocking \/ StartReceive
      PROVE  asked' = asked /\ call # "send" /\ call' # "send"
  BY <1>7 DEF StartClose, BeginClose, FinishClose, SetBlocking, StartReceive
<1>8. ASSUME call' = call, asked' = asked PROVE Base' = Base
  BY <1>8 DEF Base
<1> QED BY <1>1, <1>2, <1>3, <1>4, <1>5, <1>6, <1>7, <1>8 DEF WsNext

\* Every step keeps whose payload a close frame carries.
LEMMA NextEchoing ==
  ASSUME MessagesOK, Typed, Sending, Echoing, [WsNext]_wsVars
  PROVE  Echoing'
<1>0. /\ toUs \in Seq(Frames) /\ toPeer \in Seq(Frames) /\ peer \in PeerTypes
      /\ asked \in Seq(Pieces)
  BY DEF Typed, PeerTypes
<1>a. ASSUME peer' = peer, Base' = Base, toPeer' = toPeer, toUs' = toUs PROVE Echoing'
  BY <1>a DEF Echoing, NoneSent, Echoes
\* Neither the peer nor what the application has sent changes.
<1>b. ASSUME peer' = peer, Base' = Base, peer.there => Closes(toUs', peer.code),
             peer.there /\ NoneSent => Closes(toPeer', Echoes)
      PROVE  Echoing'
  BY <1>b DEF Echoing, NoneSent, Echoes
\* Only a last frame of send() changes what it has sent.
<1>c. Base' = IF call = "send" /\ SendFrame /\ call' # "send" THEN asked ELSE Base
  BY NextBase
<1>1. ASSUME StartSend PROVE Echoing'
  <2>1. peer' = peer /\ toUs' = toUs /\ toPeer' = toPeer /\ call = "none"
    BY <1>1 DEF StartSend, peerSide
  <2> QED BY <1>a, <1>c, <2>1
<1>2. ASSUME SendFrame PROVE Echoing'
  <2>1. PICK f \in Frames, more \in Bytes :
              /\ Sent(f) /\ f.op = rest.op /\ (Len(rest.data) <= ChunkSize => more = <<>>)
              /\ call' = IF more = <<>> THEN "none" ELSE "send"
    BY <1>2, SendsFrame
  <2>2. peer' = peer /\ asked' = asked /\ toUs' = toUs /\ call = "send"
    BY <1>2 DEF SendFrame, peerSide
  <2>3. PICK m \in AppMessages : m = asked[Len(asked)] /\ asked = Append(Base, m)
    BY <2>2, BaseIs
  <2>4. Base \in Seq(AppMessages) /\ (rest = m \/ rest.op = "continuation")
    BY <2>2, <2>3, BaseIs DEF Sending
  \* A close frame is all of its message, which is sent from here on.
  <2>5. f.op = "close" => Base' = asked /\ m.op = "close"
    <3> SUFFICES ASSUME f.op = "close" PROVE Base' = asked /\ m.op = "close"
      OBVIOUS
    <3>1. rest = m /\ m.op = "close"
      BY <2>1, <2>4
    <3>2. Len(m.data) <= ChunkSize
      BY <3>1, MessageFields DEF Control
    <3> QED BY <1>2, <1>c, <2>1, <2>2, <3>1, <3>2
  <2>6. NoneSent' => NoneSent /\ f.op # "close"
    <3> SUFFICES ASSUME NoneSent' PROVE NoneSent /\ f.op # "close"
      OBVIOUS
    <3>1. CASE Base' = Base
      <4>1. f.op # "close"
        <5> SUFFICES ASSUME f.op = "close" PROVE FALSE
          OBVIOUS
        <5>1. Len(Append(Base, m)) # Len(Base)
          BY <2>4, AppendProperties
        <5> QED BY <2>3, <2>5, <3>1, <5>1
      <4> QED BY <3>1, <4>1 DEF NoneSent
    <3>2. CASE Base' = asked
      <4>1. /\ \A i \in DOMAIN Base : i \in DOMAIN asked /\ asked[i] = Base[i]
            /\ Len(asked) \in DOMAIN asked
        BY <2>3, <2>4, AppendProperties
      <4>2. NoneSent /\ m.op # "close"
        BY <2>3, <3>2, <4>1 DEF NoneSent
      <4> QED BY <2>5, <4>2
    <3> QED BY <1>c, <3>1, <3>2
  <2>7. ASSUME peer.there, NoneSent' PROVE Closes(toPeer', Echoes)
    <3>1. Closes(toPeer, Echoes)
      BY <2>6, <2>7 DEF Echoing
    <3>2. CASE broken
      BY <2>1, <3>1, <3>2, SentTyped
    <3>3. CASE ~broken
      <4>1. toPeer' = Append(toPeer, f)
        BY <2>1, <2>7, <3>3, SentTyped
      <4> QED BY <1>0, <2>6, <2>7, <3>1, <4>1, ClosesMore
    <3> QED BY <3>2, <3>3
  <2> QED BY <2>2, <2>6, <2>7 DEF Echoing, Echoes
<1>d. Peer => Base' = Base
  <2>1. Peer => ~(call = "send" /\ SendFrame /\ call' # "send")
    BY DEF Peer, PeerPosts, PeerSends, PeerCompletes, PeerPings, PeerMisbehaves, PeerCloses,
       PeerTakes, PeerMisreads, PeerLeaves, PeerDies, ours
  <2> QED BY <1>c, <2>1
<1>3. ASSUME FinishClose PROVE Echoing'
  <2>1. peer' = peer /\ Base' = Base /\ toPeer' = toPeer /\ toUs' = <<>>
    BY <1>3, <1>c DEF FinishClose, peerSide
  <2> QED BY <1>b, <2>1, ClosesNone DEF Echoing
<1>4. ASSUME Receive PROVE Echoing'
  <2>1. peer' = peer /\ Base' = Base
    BY <1>4, <1>c, ReceiveFrame
  <2>2. peer.there => Closes(toUs', peer.code)
    BY <1>0, <1>4, ReceiveFrame, ClosesLess DEF Echoing
  <2>3. ASSUME peer.there, NoneSent PROVE Closes(toPeer', Echoes)
    <3>1. Closes(toPeer, Echoes)
      BY <2>3 DEF Echoing
    <3>2. CASE ReceiveClose
      <4>1. CASE toPeer' = toPeer
        BY <3>1, <4>1
      <4>2. CASE toPeer' # toPeer
        <5>0. ~Nothing
          BY <4>2 DEF Nothing
        <5>1. PICK f \in Frames : f.op = "close" /\ f.data = Echo(Head(toUs).data) /\ Sent(f)
          BY <3>2, <5>0, ClosesWith
        <5>2. toUs # <<>> /\ Head(toUs).op = "close"
          BY <3>2, ReadsFrame DEF ReceiveClose
        <5>3. Head(toUs).data \in peer.code
          BY <1>0, <2>3, <5>2, ClosesLess DEF Echoing
        <5>4. f.data \in Echoes
          BY <5>1, <5>3 DEF Echoes
        <5>5. toPeer' = Append(toPeer, f)
          BY <2>3, <4>2, <5>1, SentTyped
        <5> QED BY <1>0, <3>1, <5>4, <5>5, ClosesMore
      <4> QED BY <4>1, <4>2
    <3>3. CASE ReceivePing
      <4>1. PICK f : f = Frame("pong", TRUE, <<>>, TRUE)
        OBVIOUS
      <4>2. toPeer' = toPeer \/ Sent(f)
        BY <3>3, <4>1 DEF ReceivePing, Answered, NotSent
      <4>3. f \in Frames /\ f.op = "pong"
        BY <4>1, PongTyped
      <4>4. toPeer' = toPeer \/ toPeer' = Append(toPeer, f)
        BY <2>3, <4>2, <4>3, SentTyped
      <4>5. Closes(Append(toPeer, f), Echoes)
        BY <1>0, <3>1, <4>3, ClosesMore
      <4> QED BY <3>1, <4>4, <4>5
    <3>4. CASE toPeer' = toPeer
      BY <3>1, <3>4
    <3>5. ReceiveClose \/ ReceivePing \/ toPeer' = toPeer
      BY <1>4 DEF Receive, ReceiveNothing, ReceiveBroken, ReceiveError, ReceiveData,
             ReceivePong, ReceiveReserved
    <3> QED BY <3>2, <3>3, <3>4, <3>5
  <2> QED BY <1>b, <2>1, <2>2, <2>3
<1>5. ASSUME PeerPosts PROVE Echoing'
  <2>1. PICK m \in PeerMessages : peer' = [peer EXCEPT !.due = FragmentsOf(m)]
    BY <1>5 DEF PeerPosts
  <2>2. /\ peer'.there = peer.there /\ peer'.echo = peer.echo /\ peer'.code = peer.code
        /\ peer'.due = FragmentsOf(m)
    BY <1>0, <2>1 DEF PeerTypes
  <2>3. Base' = Base /\ toUs' = toUs /\ toPeer' = toPeer
    BY <1>5, <1>d DEF PeerPosts, Peer
  <2>4. Closes(FragmentsOf(m), {})
    <3>1. PICK s : s = FragmentsOf(m)
      OBVIOUS
    <3>2. /\ Len(s) = Len(m.frags)
          /\ \A i \in 1..Len(m.frags) : s[i].op = IF i = 1 THEN m.op ELSE "continuation"
      BY <3>1, Fragments
    <3>3. m.op # "close"
      BY MessageFields DEF Data
    <3>4. \A i \in 1..Len(s) : s[i].op # "close"
      BY <3>2, <3>3
    <3> QED BY <3>1, <3>4 DEF Closes
  <2> QED BY <2>2, <2>3, <2>4 DEF Echoing, NoneSent, Echoes
<1>6. ASSUME PeerSends PROVE Echoing'
  <2>1. peer' = [peer EXCEPT !.due = Tail(@)] /\ peer.due # <<>>
    BY <1>6 DEF PeerSends
  <2>2. /\ peer'.there = peer.there /\ peer'.echo = peer.echo /\ peer'.code = peer.code
        /\ peer'.due = Tail(peer.due) /\ peer.due \in Seq(Frames)
    BY <1>0, <2>1 DEF PeerTypes
  <2>3. Base' = Base /\ toPeer' = toPeer
    BY <1>6, <1>d DEF PeerSends, Peer
  <2>4. Closes(Tail(peer.due), {}) /\ Head(peer.due).op # "close" /\ Head(peer.due) \in Frames
    BY <2>1, <2>2, ClosesLess, HeadOfFrames DEF Echoing
  <2>5. peer.there => Closes(toUs', peer.code)
    <3>1. PICK whole \in BOOLEAN : Delivers(Head(peer.due), whole)
      BY <1>6 DEF PeerSends
    <3> QED BY <2>4, <3>1, DeliversNoClose DEF Echoing
  <2> QED BY <2>2, <2>3, <2>4, <2>5 DEF Echoing, NoneSent, Echoes
<1>7. ASSUME PeerCompletes PROVE Echoing'
  <2>1. toUs' = [toUs EXCEPT ![Len(toUs)].whole = TRUE]
    BY <1>7 DEF PeerCompletes
  <2>2. Len(toUs') = Len(toUs) /\ \A i \in 1..Len(toUs) : SameBut(toUs'[i], toUs[i])
    BY <1>0, <2>1, Completed
  <2>3. peer' = peer /\ Base' = Base /\ toPeer' = toPeer
    BY <1>7, <1>d DEF Peer, PeerCompletes, peerSide
  <2>4. peer.there => Closes(toUs', peer.code)
    BY <2>2 DEF Echoing, Closes, SameBut
  <2> QED BY <1>b, <2>3, <2>4 DEF Echoing
<1>8. ASSUME PeerPings \/ PeerMisbehaves PROVE Echoing'
  <2>1. peer' = [peer EXCEPT !.extras = @ + 1]
    BY <1>8 DEF PeerPings, PeerMisbehaves, Extra
  <2>2. /\ peer'.there = peer.there /\ peer'.echo = peer.echo /\ peer'.code = peer.code
        /\ peer'.due = peer.due
    BY <1>0, <2>1 DEF PeerTypes
  <2>3. Base' = Base /\ toPeer' = toPeer
    BY <1>8, <1>d DEF Peer, PeerPings, PeerMisbehaves
  <2>4. peer.there => Closes(toUs', peer.code)
    <3>1. PICK f \in Extra : Delivers(f, TRUE)
      BY <1>8 DEF PeerPings, PeerMisbehaves, Extra, Long
    <3>2. f \in Frames /\ f.op # "close"
      BY ExtraTyped
    <3> QED BY <3>1, <3>2, DeliversNoClose DEF Echoing
  <2> QED BY <2>2, <2>3, <2>4 DEF Echoing, NoneSent, Echoes
<1>9. ASSUME PeerCloses PROVE Echoing'
  <2>1. PICK code \in CloseCodes :
              /\ Delivers(PeerFrame("close", TRUE, code), TRUE)
              /\ peer' = [peer EXCEPT !.code = {code}]
    BY <1>9 DEF PeerCloses
  <2>2. peer.there /\ peer.code = {}
    BY <1>9 DEF PeerCloses
  <2>3. /\ peer'.there = peer.there /\ peer'.echo = peer.echo /\ peer'.code = {code}
        /\ peer'.due = peer.due
    BY <1>0, <2>1 DEF PeerTypes
  <2>4. Base' = Base /\ toPeer' = toPeer
    BY <1>9, <1>d DEF Peer, PeerCloses
  <2>5. Closes(toUs', {code})
    <3>1. Closes(toUs, {code})
      BY <2>2, ClosesWider DEF Echoing
    <3>2. PICK f : f = PeerFrame("close", TRUE, code)
      OBVIOUS
    <3>3. f \in Frames /\ f.op = "close" /\ f.data = code
      <4>1. code \in Bytes
        BY MessageFields
      <4> QED BY <3>2, <4>1, CloseTyped
    <3>4. Delivers(f, TRUE)
      BY <2>1, <3>2
    <3>5. CASE sock = "closed"
      BY <3>1, <3>3, <3>4, <3>5, DeliversTyped
    <3>6. CASE sock # "closed"
      <4>1. PICK g \in Frames : toUs' = Append(toUs, g) /\ g.op = f.op /\ g.data = f.data
        BY <3>3, <3>4, <3>6, DeliversTyped
      <4>2. g.data \in {code}
        BY <3>3, <4>1
      <4> QED BY <1>0, <3>1, <4>1, <4>2, ClosesMore
    <3> QED BY <3>5, <3>6
  <2>6. NoneSent => Closes(toPeer, {})
    BY <2>2 DEF Echoing, Echoes
  <2>7. NoneSent => Closes(toPeer, Echoes')
    BY <2>6, ClosesWider
  <2> QED BY <2>2, <2>3, <2>4, <2>5, <2>7 DEF Echoing, NoneSent
<1>10. ASSUME PeerTakes PROVE Echoing'
  <2>1. PICK f \in Frames :
            /\ toPeer # <<>> /\ f = Head(toPeer) /\ toPeer' = Tail(toPeer)
            /\ TookRefused(f) \/ TookData(f) \/ TookClose(f) \/ TookOther(f)
    BY <1>10, TakesFrame
  <2>2. Base' = Base /\ peer.there
    BY <1>10, <1>d DEF Peer, PeerTakes
  <2>3. NoneSent => Closes(toPeer', Echoes) /\ (f.op = "close" => f.data \in Echoes)
    BY <1>0, <2>1, <2>2, ClosesLess DEF Echoing
  <2>4. CASE TookData(f)
    <3>1. PICK p : peer' = [peer EXCEPT !.part = p]
      BY <2>4 DEF TookData
    <3>2. /\ peer'.there = peer.there /\ peer'.echo = peer.echo /\ peer'.code = peer.code
          /\ peer'.due = peer.due
      BY <1>0, <3>1 DEF PeerTypes
    <3>3. toUs' = toUs
      BY <2>4 DEF TookData
    <3> QED BY <2>2, <2>3, <3>2, <3>3 DEF Echoing, NoneSent, Echoes
  <2>5. CASE TookClose(f)
    <3>1. f.op = "close" /\ peer' = [peer EXCEPT !.echo = {f.data}, !.there = FALSE]
      BY <2>5 DEF TookClose
    <3>2. /\ peer'.there = FALSE /\ peer'.echo = {f.data} /\ peer'.code = peer.code
          /\ peer'.due = peer.due
      BY <1>0, <3>1 DEF PeerTypes
    <3> QED BY <2>2, <2>3, <3>1, <3>2 DEF Echoing, NoneSent, Echoes
  <2>6. CASE TookOther(f)
    <3>1. peer' = peer /\ Closes(toUs, peer.code)
      BY <2>2, <2>6 DEF TookOther, Echoing
    <3>2. Closes(toUs', peer.code)
      BY <2>6, <3>1, DeliversNoClose DEF TookOther
    <3> QED BY <1>b, <2>2, <2>3, <3>1, <3>2
  <2>7. CASE TookRefused(f)
    <3>1. peer' = [peer EXCEPT !.there = FALSE]
      BY <2>7 DEF TookRefused
    <3>2. /\ peer'.there = FALSE /\ peer'.echo = {} /\ peer'.code = peer.code
          /\ peer'.due = peer.due
      BY <1>0, <2>2, <3>1 DEF PeerTypes, Echoing
    <3> QED BY <2>2, <3>2 DEF Echoing
  <2> QED BY <2>1, <2>4, <2>5, <2>6, <2>7
<1>11. ASSUME PeerLeaves \/ PeerDies PROVE Echoing'
  <2>1. peer' = [peer EXCEPT !.there = FALSE] /\ peer.there /\ Base' = Base
    BY <1>11, <1>d DEF Peer, PeerLeaves, PeerDies
  <2>2. /\ peer'.there = FALSE /\ peer'.echo = {} /\ peer'.code = peer.code
        /\ peer'.due = peer.due
    BY <1>0, <2>1 DEF PeerTypes, Echoing
  <2> QED BY <2>1, <2>2 DEF Echoing
<1>12. ASSUME SendFails \/ StartClose \/ SetBlocking \/ StartReceive \/ PeerMisreads
              \/ UNCHANGED wsVars
       PROVE  Echoing'
  <2>1. CASE SendFrame
    BY <1>2, <2>1
  <2>2. CASE ~SendFrame
    BY <1>a, <1>c, <1>12, <2>2 DEF SendFails, NotSent, StartClose, BeginClose, SetBlocking,
       StartReceive, PeerMisreads, peerSide, wsVars
  <2> QED BY <2>1, <2>2
<1> QED BY <1>1, <1>2, <1>3, <1>4, <1>5, <1>6, <1>7, <1>8, <1>9, <1>10, <1>11, <1>12
        DEF WsNext, Peer

\* And so the code is echoed.
LEMMA EchoingImplies == ASSUME Typed, Sending, Echoing PROVE CloseEchoed
<1> SUFFICES ASSUME \A i \in DOMAIN asked : asked[i].op # "close", NEW e \in peer.echo
             PROVE  \E c \in peer.code : e = IF Len(c) < 2 THEN <<>> ELSE SubSeq(c, 1, 2)
  BY DEF CloseEchoed
<1>0. NoneSent
  BY FrontTyped DEF NoneSent, Base, Sending
<1>1. e \in Echoes
  BY <1>0 DEF Echoing
<1>2. PICK c \in peer.code : e = Echo(c)
  BY <1>1 DEF Echoes
<1>3. c \in Bytes
  BY DEF Typed
<1>4. Len(c) \in Nat
  BY <1>3 DEF Bytes
<1> QED BY <1>2, <1>4 DEF Echo

---------------------------------------------------------------------------
(* Paths.  The frames of s, each of which is a step of R, lead from x to y. *)

Path(s, X, S, R) ==
    /\ X \in [1..(Len(s) + 1) -> S]
    /\ \A i \in 1..Len(s) : <<s[i], X[i], X[i + 1]>> \in R

Leads(s, x, y, S, R) == \E X : Path(s, X, S, R) /\ X[1] = x /\ X[Len(s) + 1] = y

\* No frames lead from x to x.
LEMMA LeadsNone == ASSUME NEW S, NEW R, NEW x \in S PROVE Leads(<<>>, x, x, S, R)
<1> DEFINE X == [i \in 1..1 |-> x]
<1>1. Len(<<>>) = 0 /\ Len(<<>>) + 1 = 1
  OBVIOUS
<1>2. X \in [1..1 -> S] /\ X[1] = x
  OBVIOUS
<1> HIDE DEF X
<1>3. Path(<<>>, X, S, R)
  BY <1>1, <1>2 DEF Path
<1> QED BY <1>1, <1>2, <1>3 DEF Leads

\* A frame more leads a step further.
LEMMA LeadsMore ==
  ASSUME NEW s \in Seq(Frames), NEW f \in Frames, NEW S, NEW R, NEW x, NEW y, NEW z \in S,
         Leads(s, x, y, S, R), <<f, y, z>> \in R
  PROVE  Leads(Append(s, f), x, z, S, R)
<1>1. PICK X : Path(s, X, S, R) /\ X[1] = x /\ X[Len(s) + 1] = y
  BY DEF Leads
<1>2. PICK n \in Nat : n = Len(s)
  OBVIOUS
<1>3. PICK u : u = Append(s, f)
  OBVIOUS
<1>4. Len(u) = n + 1 /\ u[n + 1] = f /\ \A i \in 1..n : u[i] = s[i]
  BY <1>2, <1>3, AppendProperties
<1> DEFINE Y == [i \in 1..(n + 2) |-> IF i = n + 2 THEN z ELSE X[i]]
<1>5. X \in [1..(n + 1) -> S] /\ \A i \in 1..n : <<s[i], X[i], X[i + 1]>> \in R
  BY <1>1, <1>2 DEF Path
<1>6. Y \in [1..(n + 2) -> S] /\ Y[n + 2] = z /\ \A i \in 1..(n + 1) : Y[i] = X[i]
  BY <1>5
<1> HIDE DEF Y
<1>7. ASSUME NEW i \in 1..(n + 1) PROVE <<u[i], Y[i], Y[i + 1]>> \in R
  <2>1. CASE i \in 1..n
    <3>1. i + 1 \in 1..(n + 1) /\ i \in 1..(n + 1)
      BY <2>1
    <3>2. Y[i] = X[i] /\ Y[i + 1] = X[i + 1] /\ u[i] = s[i]
      BY <1>4, <1>6, <2>1, <3>1
    <3> QED BY <1>5, <2>1, <3>2
  <2>2. CASE i = n + 1
    <3>1. i + 1 = n + 2 /\ i \in 1..(n + 1)
      BY <2>2
    <3>2. Y[i] = y /\ Y[i + 1] = z /\ u[i] = f
      BY <1>1, <1>2, <1>4, <1>6, <2>2, <3>1
    <3> QED BY <3>2
  <2> QED BY <2>1, <2>2
<1>8. Len(u) + 1 = n + 2 /\ 1 \in 1..(n + 1)
  BY <1>4
<1>9. Path(u, Y, S, R) /\ Y[1] = x /\ Y[Len(u) + 1] = z
  BY <1>1, <1>4, <1>6, <1>7, <1>8 DEF Path
<1> QED BY <1>3, <1>9 DEF Leads

\* The first frame is the first step.
LEMMA LeadsLess ==
  ASSUME NEW s \in Seq(Frames), s # <<>>, NEW S, NEW R, NEW x, NEW z, Leads(s, x, z, S, R)
  PROVE  \E y \in S : <<Head(s), x, y>> \in R /\ Leads(Tail(s), y, z, S, R)
<1>1. PICK X : Path(s, X, S, R) /\ X[1] = x /\ X[Len(s) + 1] = z
  BY DEF Leads
<1>2. PICK n \in Nat : Len(s) = n + 1
  <2>1. Len(s) \in Nat \ {0}
    BY EmptySeq
  <2> QED BY <2>1
<1>3. PICK u : u = Tail(s)
  OBVIOUS
<1>4. Len(u) = n /\ \A i \in 1..n : u[i] = s[i + 1]
  BY <1>2, <1>3, HeadTailProperties
<1>5. X \in [1..(n + 2) -> S] /\ \A i \in 1..(n + 1) : <<s[i], X[i], X[i + 1]>> \in R
  BY <1>1, <1>2 DEF Path
<1> DEFINE Y == [i \in 1..(n + 1) |-> X[i + 1]]
<1>6. Y \in [1..(n + 1) -> S] /\ \A i \in 1..(n + 1) : Y[i] = X[i + 1]
  BY <1>5
<1> HIDE DEF Y
<1>7. ASSUME NEW i \in 1..n PROVE <<u[i], Y[i], Y[i + 1]>> \in R
  <2>1. i + 1 \in 1..(n + 1) /\ i \in 1..(n + 1)
    OBVIOUS
  <2>2. <<s[i + 1], X[i + 1], X[i + 1 + 1]>> \in R
    BY <1>5, <2>1
  <2> QED BY <1>4, <1>6, <2>1, <2>2
<1>8. Path(u, Y, S, R)
  BY <1>4, <1>6, <1>7 DEF Path
<1>9. Y[1] = X[2] /\ Y[n + 1] = z /\ X[2] \in S
  <2>1. 1 \in 1..(n + 1) /\ n + 1 \in 1..(n + 1) /\ 2 \in 1..(n + 2) /\ n + 1 + 1 = Len(s) + 1
    BY <1>2
  <2>2. Y[n + 1] = X[n + 1 + 1]
    BY <1>6, <2>1
  <2> QED BY <1>1, <1>5, <1>6, <2>1, <2>2
<1>10. <<Head(s), x, X[2]>> \in R
  <2>1. Head(s) = s[1] /\ 1 \in 1..(n + 1) /\ 1 + 1 = 2
    BY <1>2
  <2>2. <<s[1], X[1], X[1 + 1]>> \in R
    BY <1>5, <2>1
  <2> QED BY <1>1, <2>1, <2>2
<1>11. Leads(u, X[2], z, S, R)
  BY <1>4, <1>8, <1>9 DEF Leads
<1> QED BY <1>3, <1>9, <1>10, <1>11

\* More states, and more steps.
LEMMA LeadsWider ==
  ASSUME NEW s, NEW S, NEW R, NEW T, NEW Q, NEW x, NEW y, Leads(s, x, y, S, R),
         S \subseteq T, R \subseteq Q
  PROVE  Leads(s, x, y, T, Q)
<1>1. PICK X : Path(s, X, S, R) /\ X[1] = x /\ X[Len(s) + 1] = y
  BY DEF Leads
<1>2. Path(s, X, T, Q)
  BY <1>1 DEF Path
<1> QED BY <1>1, <1>2 DEF Leads

\* Nothing leads from x but to x.
LEMMA LeadsFromNone ==
  ASSUME NEW S, NEW R, NEW x, NEW y, Leads(<<>>, x, y, S, R)
  PROVE  x = y /\ y \in S
<1>1. PICK X : Path(<<>>, X, S, R) /\ X[1] = x /\ X[Len(<<>>) + 1] = y
  BY DEF Leads
<1>2. Len(<<>>) = 0 /\ Len(<<>>) + 1 = 1
  OBVIOUS
<1> QED BY <1>1, <1>2 DEF Path

\* The frames that R does not tell apart lead from x to y as well.
LEMMA LeadsSame ==
  ASSUME NEW s, NEW u, Len(u) = Len(s), NEW S, NEW R, NEW x, NEW y, Leads(s, x, y, S, R),
         \A i \in 1..Len(s) : \A v, w : <<s[i], v, w>> \in R => <<u[i], v, w>> \in R
  PROVE  Leads(u, x, y, S, R)
<1>1. PICK X : Path(s, X, S, R) /\ X[1] = x /\ X[Len(s) + 1] = y
  BY DEF Leads
<1>2. Path(u, X, S, R)
  BY <1>1 DEF Path
<1> QED BY <1>1, <1>2 DEF Leads

---------------------------------------------------------------------------
(***************************************************************************)
(* What is sent.  While the peer is there, and no frame on its way to it   *)
(* is broken off, the frames on their way take it, from what it has, to    *)
(* the messages that send() has written, and to what it has written of the *)
(* last one.  The peer takes no frame after a close, and none after one it *)
(* refuses: that is the first of a message behind a message that send()    *)
(* has given up half-way.                                                  *)
(***************************************************************************)

Beginnings == {t \in Seq(Pieces) : IsPrefix(t, Base)}

\* The messages the peer has, and its part of the next.
Takings == Beginnings \X Pieces

Refuses(f, x) == IF f.op \in Data THEN x[2].data # <<>>
                                  ELSE f.op = "continuation" /\ x[2].data = <<>>

Takes(f, x, y) ==
    \/ /\ f.op \in Data \cup {"continuation"}
       /\ LET got == [op |-> IF f.op \in Data THEN f.op ELSE x[2].op, data |-> x[2].data \o f.data]
          IN y = IF f.fin THEN <<Append(x[1], got), NoMessage>> ELSE <<x[1], got>>
    \/ f.op = "ping" /\ y = <<Append(x[1], [op |-> "ping", data |-> f.data]), x[2]>>
    \/ f.op = "pong" /\ y = x
    \/ f.op = "close"
    \/ Refuses(f, x)

Taken == {e \in Frames \X Takings \X Takings : Takes(e[1], e[2], e[3])}

\* send() has the rest of m to write.
Remains(y, m) ==
    \/ rest = m
    \/ rest.op = "continuation" /\ y[2].op = m.op /\ y[2].data \o rest.data = m.data

Ends(y) == ~broken => y[1] = Base /\ (call = "send" => Remains(y, asked[Len(asked)]))

Outgoing == \E y \in Takings : Leads(toPeer, <<taken, peer.part>>, y, Takings, Taken) /\ Ends(y)

\* The peer has read behind a frame that was not all there.
Astray ==
    /\ broken /\ toPeer = <<>>
    /\ \E t \in Seq(Pieces) : taken = Append(t, Garbled) /\ IsPrefix(t, Base)

Ordered ==
    \/ Astray
    \/ IsPrefix(taken, Base) /\ (peer.there => Outgoing)

\* A sequence is a prefix of itself,
LEMMA PrefixSelf == ASSUME NEW t \in Seq(Pieces) PROVE IsPrefix(t, t)
BY DEF IsPrefix

\* of what is longer by an element,
LEMMA PrefixLonger ==
  ASSUME NEW s \in Seq(Pieces), NEW t \in Seq(Pieces), NEW m \in Pieces, IsPrefix(s, t)
  PROVE  IsPrefix(s, Append(t, m))
<1>1. PICK u \in Seq(Pieces) : u = Append(t, m)
  BY AppendProperties
<1>2. Len(u) = Len(t) + 1 /\ \A i \in 1..Len(t) : u[i] = t[i]
  BY <1>1, AppendProperties
<1>3. Len(s) <= Len(t) /\ SubSeq(s, 1, Len(s)) = SubSeq(t, 1, Len(s))
  BY DEF IsPrefix
<1>4. SubSeq(u, 1, Len(s)) = SubSeq(t, 1, Len(s))
  BY <1>2, <1>3
<1>5. Len(s) <= Len(u)
  BY <1>2, <1>3
<1> QED BY <1>1, <1>3, <1>4, <1>5 DEF IsPrefix

\* What send() has written is a sequence of messages,
LEMMA BaseTyped ==
  ASSUME MessagesOK, Typed, Sending
  PROVE  Base \in Seq(Pieces) /\ asked \in Seq(Pieces)
<1>1. asked \in Seq(Pieces) /\ Front(asked) \in Seq(Pieces)
  BY FrontTyped DEF Typed
<1> QED BY <1>1 DEF Base

\* and keeps beginning with what it began with.
LEMMA BasePrefix ==
  ASSUME MessagesOK, Typed, Sending, [WsNext]_wsVars, NEW t \in Seq(Pieces), IsPrefix(t, Base)
  PROVE  IsPrefix(t, Base')
<1>1. Base' = Base \/ (call = "send" /\ Base' = asked)
  BY NextBase
<1>2. CASE Base' = Base
  BY <1>2
<1>3. CASE call = "send" /\ Base' = asked
  <2>1. PICK m : m \in AppMessages /\ asked = Append(Base, m) /\ Base \in Seq(AppMessages)
    BY <1>3, BaseIs
  <2>2. m \in Pieces /\ Base \in Seq(Pieces)
    BY <2>1, BaseTyped, MessageFields
  <2>3. PICK c, u \in Seq(Pieces) : u = Base /\ c = Base' /\ c = Append(u, m)
    BY <1>3, <2>1, <2>2
  <2>4. IsPrefix(t, Append(u, m))
    BY <2>2, <2>3, PrefixLonger
  <2> QED BY <2>3, <2>4
<1> QED BY <1>1, <1>2, <1>3

\* What is sent, initially.
LEMMA InitOrdered == ASSUME WsInit PROVE Ordered
<1>1. /\ asked = <<>> /\ taken = <<>> /\ toPeer = <<>> /\ call = "none"
      /\ peer.part = NoMessage
  BY DEF WsInit
<1>2. Base = <<>> /\ Base \in Seq(Pieces)
  BY <1>1, EmptySeq DEF Base
<1>3. IsPrefix(Base, Base)
  BY <1>2, PrefixSelf
<1>4. PICK y \in Takings : y = <<Base, NoMessage>>
  BY <1>2, <1>3, NothingTyped DEF Takings, Beginnings
<1>5. Leads(toPeer, y, y, Takings, Taken)
  BY <1>1, LeadsNone
<1>6. <<taken, peer.part>> = y /\ Ends(y)
  BY <1>1, <1>2, <1>4 DEF Ends
<1>7. Outgoing
  BY <1>4, <1>5, <1>6 DEF Outgoing
<1> QED BY <1>1, <1>2, <1>3, <1>7 DEF Ordered

\* The peer astray stays there.
LEMMA AstraySame ==
  ASSUME MessagesOK, Typed, Sending, [WsNext]_wsVars, Astray,
         broken', taken' = taken, toPeer' = toPeer
  PROVE  Ordered'
<1>1. PICK t \in Seq(Pieces) : taken = Append(t, Garbled) /\ IsPrefix(t, Base)
  BY DEF Astray
<1>2. IsPrefix(t, Base')
  BY <1>1, BasePrefix
<1>3. Astray'
  BY <1>1, <1>2 DEF Astray
<1> QED BY <1>3 DEF Ordered

\* More messages sent, more states that are beginnings of them.
LEMMA TakingsGrow ==
  ASSUME MessagesOK, Typed, Sending, [WsNext]_wsVars
  PROVE  Takings \subseteq Takings' /\ Taken \subseteq Taken'
<1>1. Beginnings \subseteq Beginnings'
  BY BasePrefix DEF Beginnings
<1>2. Takings \subseteq Takings'
  BY <1>1 DEF Takings
<1>3. ASSUME NEW e \in Taken PROVE e \in Taken'
  <2>1. e \in Frames \X Takings \X Takings /\ Takes(e[1], e[2], e[3])
    BY DEF Taken
  <2>2. e \in Frames \X Takings' \X Takings'
    BY <1>2, <2>1
  <2>3. Takes(e[1], e[2], e[3])' = Takes(e[1], e[2], e[3])
    BY DEF Takes, Refuses
  <2> QED BY <2>1, <2>2, <2>3 DEF Taken
<1> QED BY <1>2, <1>3

\* Steps that leave what is on its way to the peer alone.
LEMMA OrderedSame ==
  ASSUME MessagesOK, Typed, Sending, [WsNext]_wsVars, Ordered,
         taken' = taken, broken => broken', toPeer' = toPeer \/ ~Astray,
         peer'.there => /\ peer.there /\ peer'.part = peer.part /\ toPeer' = toPeer
                        /\ \A y \in Takings : Ends(y) => Ends(y)'
  PROVE  Ordered'
<1>1. ASSUME Astray PROVE Ordered'
  <2>1. broken' /\ toPeer' = toPeer
    BY <1>1 DEF Astray
  <2> QED BY <1>1, <2>1, AstraySame
<1>2. ASSUME ~Astray PROVE Ordered'
  <2>0. IsPrefix(taken, Base) /\ (peer.there => Outgoing)
    BY <1>2 DEF Ordered
  <2>1. IsPrefix(taken', Base')
    BY <2>0, BasePrefix DEF Typed
  <2>2. ASSUME peer'.there PROVE Outgoing'
    <3>1. PICK y \in Takings : Leads(toPeer, <<taken, peer.part>>, y, Takings, Taken) /\ Ends(y)
      BY <2>0, <2>2 DEF Outgoing
    <3>2. PICK x : x = <<taken, peer.part>>
      OBVIOUS
    <3>3. Leads(toPeer, x, y, Takings', Taken')
      BY <3>1, <3>2, TakingsGrow, LeadsWider
    <3>4. y \in Takings' /\ x = <<taken, peer.part>>' /\ toPeer' = toPeer /\ Ends(y)'
      BY <2>2, <3>1, <3>2, TakingsGrow
    <3> QED BY <3>3, <3>4 DEF Outgoing
  <2> QED BY <2>1, <2>2 DEF Ordered
<1> QED BY <1>1, <1>2

\* A frame more on its way to the peer.
LEMMA OrderedMore ==
  ASSUME MessagesOK, Typed, Sending, [WsNext]_wsVars, Ordered,
         peer.there, ~broken, broken' = broken, taken' = taken, peer' = peer,
         NEW f \in Frames, toPeer' = Append(toPeer, f),
         \A y \in Takings : Ends(y) => \E z \in Takings' : Takes(f, y, z) /\ Ends(z)'
  PROVE  Ordered'
<1>0. IsPrefix(taken, Base) /\ Outgoing
  BY DEF Ordered, Astray
<1>1. PICK y \in Takings : Leads(toPeer, <<taken, peer.part>>, y, Takings, Taken) /\ Ends(y)
  BY <1>0 DEF Outgoing
<1>2. PICK z \in Takings' : Takes(f, y, z) /\ Ends(z)'
  BY <1>1
<1>3. PICK S, R : S = Takings' /\ R = Taken'
  OBVIOUS
<1>4. <<f, y, z>> \in R
  <2>1. y \in Takings'
    BY <1>1, TakingsGrow
  <2>2. Takes(f, y, z)' = Takes(f, y, z)
    BY DEF Takes, Refuses
  <2> QED BY <1>2, <1>3, <2>1, <2>2 DEF Taken
<1>5. PICK x : x = <<taken, peer.part>>
  OBVIOUS
<1>6. toPeer \in Seq(Frames) /\ Leads(toPeer, x, y, S, R)
  BY <1>1, <1>3, <1>5, TakingsGrow, LeadsWider DEF Typed
<1>7. Leads(Append(toPeer, f), x, z, S, R)
  BY <1>2, <1>3, <1>4, <1>6, LeadsMore
<1>8. Leads(toPeer', <<taken, peer.part>>', z, Takings', Taken')
  BY <1>3, <1>5, <1>7
<1>9. Outgoing'
  BY <1>2, <1>8 DEF Outgoing
<1>10. IsPrefix(taken', Base')
  BY <1>0, BasePrefix DEF Typed
<1> QED BY <1>9, <1>10 DEF Ordered

\* A frame of send(), when m is the message and y what the peer has before it.
LEMMA SendStep ==
  ASSUME MessagesOK, Typed, Sending, SendFrame, call = "send", asked' = asked,
         NEW f \in Frames, NEW more \in Bytes, NEW y \in Takings, NEW m \in AppMessages,
         y[1] = Base, asked = Append(Base, m), m = asked[Len(asked)], Remains(y, m),
         f.op = rest.op, f.fin = (more = <<>>), rest.data = f.data \o more,
         Len(rest.data) <= ChunkSize => more = <<>>,
         rest' = [op |-> "continuation", data |-> more],
         call' = IF more = <<>> THEN "none" ELSE "send"
  PROVE  \E z \in Takings' : Takes(f, y, z) /\ Ends(z)'
<1>1. /\ f.op \in Ops /\ f.data \in Bytes /\ rest \in Pieces /\ asked \in Seq(Pieces)
      /\ m \in Pieces /\ m.op \in Data \cup {"close", "ping"}
      /\ m.op \in Control => Len(m.data) <= ChunkSize
  BY FrameFields, MessageFields DEF Typed
<1>2. y[1] \in Seq(Pieces) /\ y[2] \in Pieces /\ y = <<y[1], y[2]>> /\ y[1] \in Beginnings
  BY DEF Takings, Beginnings
<1>3. Base' = IF more = <<>> THEN asked ELSE Base
  <2>1. [WsNext]_wsVars
    BY DEF WsNext
  <2> QED BY <2>1, NextBase
<1>4. m = [op |-> m.op, data |-> m.data] /\ m.data \in Bytes /\ m.op \in Ops
  BY <1>1 DEF Pieces
\* What the peer has of m afterwards.
<1>a. PICK has : has = IF rest = m THEN f.data ELSE y[2].data \o f.data
  OBVIOUS
<1>b. PICK got : got = [op |-> m.op, data |-> has]
  OBVIOUS
<1>c. PICK z : z = IF more = <<>> THEN <<asked, IF f.op = "ping" THEN y[2] ELSE NoMessage>>
                                  ELSE <<Base, got>>
  OBVIOUS
<1>7. ASSUME got \in Pieces, got.op = m.op, got.data = has, has \o more = m.data
      PROVE  z \in Takings' /\ Ends(z)'
  <2>1. CASE more = <<>>
    <3>1. z[1] = asked /\ z[2] \in Pieces /\ z = <<z[1], z[2]>>
      BY <1>c, <1>2, <2>1, NothingTyped
    <3>2. z \in Takings'
      BY <1>1, <1>3, <2>1, <3>1, PrefixSelf DEF Takings, Beginnings
    <3>3. Ends(z)'
      BY <1>3, <2>1, <3>1 DEF Ends
    <3> QED BY <3>2, <3>3
  <2>2. CASE more # <<>>
    <3>1. z[1] = Base /\ z[2] = got /\ z = <<z[1], z[2]>> /\ Base' = Base
      BY <1>c, <1>3, <2>2
    <3>2. z \in Takings'
      BY <1>7, <3>1, BaseTyped, PrefixSelf DEF Takings, Beginnings
    <3>3. rest'.op = "continuation" /\ rest'.data = more
      OBVIOUS
    <3>4. Remains(z, m)'
      BY <1>7, <3>1, <3>3 DEF Remains
    <3>5. Ends(z)'
      BY <3>1, <3>4 DEF Ends
    <3> QED BY <3>2, <3>5
  <2> QED BY <2>1, <2>2
<1>5. CASE rest = m
  <2>1. f.op = m.op /\ has = f.data /\ has \in Bytes /\ has \o more = m.data
    BY <1>a, <1>1, <1>5
  <2>2. got \in Pieces /\ got.op = m.op /\ got.data = has
    BY <1>b, <1>4, <2>1 DEF Pieces
  <2>3. more = <<>> => got = m
    BY <1>b, <1>4, <2>1, ConcatEmptySeq DEF Bytes
  <2>4. z \in Takings' /\ Ends(z)'
    BY <1>7, <2>1, <2>2
  <2>5. Takes(f, y, z)
    <3>1. CASE m.op = "close"
      BY <2>1, <3>1 DEF Takes
    <3>2. CASE m.op = "ping"
      <4>1. more = <<>>
        BY <1>1, <1>5, <3>2 DEF Control
      <4>2. z = <<Append(y[1], m), y[2]>>
        BY <1>c, <2>1, <3>2, <4>1
      <4>3. m = [op |-> "ping", data |-> f.data]
        BY <1>b, <2>1, <2>3, <3>2, <4>1
      <4> QED BY <2>1, <3>2, <4>2, <4>3 DEF Takes
    <3>3. CASE m.op \in Data /\ y[2].data # <<>>
      BY <2>1, <3>3 DEF Takes, Refuses
    <3>4. CASE m.op \in Data /\ y[2].data = <<>>
      <4>1. y[2].data \o f.data = f.data
        BY <1>1, <3>4, ConcatEmptySeq DEF Bytes
      <4>2. got = [op |-> IF f.op \in Data THEN f.op ELSE y[2].op, data |-> y[2].data \o f.data]
        BY <1>b, <2>1, <3>4, <4>1
      <4>3. f.op # "ping"
        BY <2>1, <3>4 DEF Data
      <4>4. z = IF f.fin THEN <<Append(y[1], got), NoMessage>> ELSE <<y[1], got>>
        BY <1>c, <2>3, <4>3
      <4> QED BY <2>1, <3>4, <4>2, <4>4 DEF Takes
    <3> QED BY <1>1, <3>1, <3>2, <3>3, <3>4
  <2> QED BY <2>4, <2>5
<1>6. CASE rest # m
  <2>1. rest.op = "continuation" /\ y[2].op = m.op /\ y[2].data \o rest.data = m.data
    BY <1>6 DEF Remains
  <2>2. y[2].data \in Bytes /\ has = y[2].data \o f.data
    BY <1>a, <1>2, <1>6 DEF Pieces
  <2>3. has \in Bytes /\ has \o more = m.data
    <3>1. PICK a, b, c \in Bytes : a = y[2].data /\ b = f.data /\ c = more
      BY <1>1, <2>2
    <3>2. (a \o b) \o c = a \o (b \o c) /\ a \o b \in Bytes
      BY BytesAssociative, Joined
    <3> QED BY <2>1, <2>2, <3>1, <3>2
  <2>4. got \in Pieces /\ got.op = m.op /\ got.data = has
    BY <1>b, <1>4, <2>3 DEF Pieces
  <2>5. more = <<>> => got = m
    <3>1. PICK h \in Bytes : h = has
      BY <2>3
    <3>2. h \o <<>> = h
      BY ConcatEmptySeq DEF Bytes
    <3> QED BY <1>b, <1>4, <2>3, <3>1, <3>2
  <2>6. z \in Takings' /\ Ends(z)'
    BY <1>7, <2>3, <2>4
  <2>7. Takes(f, y, z)
    <3>1. f.op = "continuation" /\ f.op \notin Data
      BY <2>1 DEF Data
    <3>2. got = [op |-> IF f.op \in Data THEN f.op ELSE y[2].op, data |-> y[2].data \o f.data]
      BY <1>b, <2>1, <2>2, <3>1
    <3>3. z = IF f.fin THEN <<Append(y[1], got), NoMessage>> ELSE <<y[1], got>>
      BY <1>c, <2>5, <3>1
    <3> QED BY <3>1, <3>2, <3>3 DEF Takes
  <2> QED BY <2>6, <2>7
<1> QED BY <1>5, <1>6

\* The application asks for one more message.
LEMMA StartsInOrder ==
  ASSUME MessagesOK, Typed, Sending, Ordered, StartSend
  PROVE  Ordered'
<1>1. PICK m \in AppMessages : asked' = Append(asked, m) /\ rest' = m
  BY DEF StartSend
<1>2. /\ call = "none" /\ call' = "send" /\ toPeer' = toPeer /\ taken' = taken /\ peer' = peer
      /\ broken' = broken
  BY DEF StartSend, peerSide
<1>3. [WsNext]_wsVars
  BY DEF WsNext
<1>4. Base' = Base
  BY <1>2, <1>3, NextBase
<1>5. asked'[Len(asked')] = m
  BY <1>1, AppendProperties DEF Sending
<1>6. ASSUME NEW y \in Takings, Ends(y) PROVE Ends(y)'
  <2>1. Remains(y, m)'
    BY <1>1 DEF Remains
  <2> QED BY <1>2, <1>4, <1>5, <1>6, <2>1 DEF Ends
<1> QED BY <1>2, <1>3, <1>6, OrderedSame

\* send() writes a frame.
LEMMA SendsInOrder ==
  ASSUME MessagesOK, Typed, Sending, Ordered, SendFrame
  PROVE  Ordered'
<1>1. PICK f \in Frames, more \in Bytes :
            /\ Sent(f) /\ f.op = rest.op /\ f.fin = (more = <<>>)
            /\ f.data \in Bytes /\ rest.data = f.data \o more
            /\ Len(rest.data) <= ChunkSize => more = <<>>
            /\ rest' = [op |-> "continuation", data |-> more]
            /\ call' = IF more = <<>> THEN "none" ELSE "send"
  BY SendsFrame
<1>2. call = "send" /\ asked' = asked /\ taken' = taken /\ peer' = peer /\ broken' = broken
  BY <1>1, SentTyped DEF SendFrame, peerSide
<1>3. [WsNext]_wsVars
  BY DEF WsNext
<1>4. CASE ~peer.there \/ broken
  <2>1. toPeer' = toPeer
    BY <1>1, <1>4, SentTyped
  <2>2. \A y \in Takings : peer.there => Ends(y)'
    BY <1>2, <1>4 DEF Ends
  <2> QED BY <1>2, <1>3, <2>1, <2>2, OrderedSame
<1>5. CASE peer.there /\ ~broken
  <2>1. toPeer' = Append(toPeer, f)
    BY <1>1, <1>5, SentTyped
  <2>2. PICK m \in AppMessages : m = asked[Len(asked)] /\ asked = Append(Base, m)
    BY <1>2, BaseIs
  <2>3. ASSUME NEW y \in Takings, Ends(y)
        PROVE  \E z \in Takings' : Takes(f, y, z) /\ Ends(z)'
    <3>1. y[1] = Base /\ Remains(y, m)
      BY <1>2, <1>5, <2>2, <2>3 DEF Ends
    <3> QED BY <1>1, <1>2, <2>2, <3>1, SendStep
  <2> QED BY <1>2, <1>3, <1>5, <2>1, <2>3, OrderedMore
<1> QED BY <1>4, <1>5

\* send() fails, perhaps inside a frame: what it has written stays written.
LEMMA FailsInOrder ==
  ASSUME MessagesOK, Typed, Sending, Ordered, SendFails
  PROVE  Ordered'
<1>1. /\ call = "send" /\ call' = "none" /\ taken' = taken /\ peer' = peer /\ toPeer' = toPeer
      /\ broken => broken'
  BY DEF SendFails, NotSent, peerSide
<1>2. [WsNext]_wsVars
  BY DEF WsNext
<1>3. Base' = Base
  BY <1>1 DEF SendFails, Base
<1>4. ASSUME NEW y \in Takings, Ends(y) PROVE Ends(y)'
  BY <1>1, <1>3, <1>4 DEF Ends
<1> QED BY <1>1, <1>2, <1>4, OrderedSame

\* receive() writes between messages only.
LEMMA AnswersInOrder ==
  ASSUME MessagesOK, Typed, Sending, Ordered, Receive
  PROVE  Ordered'
<1>1. call = "receive" /\ peer' = peer /\ taken' = taken
  BY ReceiveFrame
<1>2. call' # "send"
  BY DEF Receive, ReceiveNothing, ReceiveBroken, ReceiveError, ReceiveData, ReceiveClose,
         ReceivePing, ReceivePong, ReceiveReserved, ReadFrame, Resume, BeginClose
<1>3. [WsNext]_wsVars
  BY DEF WsNext
<1>4. Base' = Base
  BY <1>1, <1>3, NextBase
<1>5. ASSUME NEW y \in Takings, Ends(y), broken => broken' PROVE Ends(y)'
  BY <1>1, <1>2, <1>4, <1>5 DEF Ends
<1>6. CASE Nothing
  <2>1. toPeer' = toPeer /\ (broken => broken')
    BY <1>6 DEF Nothing, Typed
  <2> QED BY <1>1, <1>3, <1>5, <2>1, OrderedSame
<1>7. ASSUME NEW f \in Frames, f.op \in {"close", "pong"}, Sent(f) PROVE Ordered'
  <2>1. broken' = broken
    BY <1>7, SentTyped
  <2>2. CASE ~peer.there \/ broken
    <3>1. toPeer' = toPeer
      BY <1>7, <2>2, SentTyped
    <3> QED BY <1>1, <1>3, <1>5, <2>1, <3>1, OrderedSame
  <2>3. CASE peer.there /\ ~broken
    <3>1. toPeer' = Append(toPeer, f)
      BY <1>7, <2>3, SentTyped
    <3>2. ASSUME NEW y \in Takings, Ends(y)
          PROVE  \E z \in Takings' : Takes(f, y, z) /\ Ends(z)'
      <4>1. Takes(f, y, y) /\ Ends(y)'
        BY <1>5, <1>7, <2>1, <3>2 DEF Takes
      <4> QED BY <1>3, <4>1, TakingsGrow
    <3> QED BY <1>1, <1>3, <2>1, <2>3, <3>1, <3>2, OrderedMore
  <2> QED BY <2>2, <2>3
<1> QED BY <1>6, <1>7, Replies DEF Answers

\* The peer takes the first frame, and is where the path says.
LEMMA TakesInOrder ==
  ASSUME MessagesOK, Typed, Sending, Ordered, PeerTakes
  PROVE  Ordered'
<1>1. PICK f \in Frames :
          /\ toPeer # <<>> /\ f = Head(toPeer) /\ toPeer' = Tail(toPeer)
          /\ TookRefused(f) \/ TookData(f) \/ TookClose(f) \/ TookOther(f)
  BY TakesFrame
<1>2. peer.there /\ asked' = asked /\ rest' = rest /\ call' = call /\ broken' = broken
  BY DEF PeerTakes, ours
<1>b. Base' = Base /\ ~Astray /\ [WsNext]_wsVars
  BY <1>1, <1>2 DEF Base, Astray, WsNext, Peer
<1>3. peer \in PeerTypes /\ toPeer \in Seq(Frames)
  BY DEF Typed, PeerTypes
<1>a. PICK x : x = <<taken, peer.part>>
  OBVIOUS
<1>4. PICK y \in Takings : Leads(toPeer, x, y, Takings, Taken) /\ Ends(y)
  BY <1>2, <1>a, <1>b DEF Ordered, Outgoing
<1>5. PICK x2 \in Takings : <<f, x, x2>> \in Taken /\ Leads(toPeer', x2, y, Takings, Taken)
  BY <1>1, <1>3, <1>4, LeadsLess
<1>6. Takes(f, x, x2) /\ x[1] = taken /\ x[2] = peer.part
  BY <1>a, <1>5 DEF Taken
<1>7. CASE TookClose(f) \/ TookRefused(f)
  <2>1. taken' = taken /\ \E e : peer' = [peer EXCEPT !.echo = e, !.there = FALSE]
    <3>1. TookRefused(f) => peer' = [peer EXCEPT !.echo = peer.echo, !.there = FALSE]
      BY <1>3 DEF TookRefused, PeerTypes
    <3> QED BY <1>7, <3>1 DEF TookClose, TookRefused
  <2>2. ~peer'.there
    BY <1>3, <2>1 DEF PeerTypes
  <2> QED BY <1>2, <1>b, <2>1, <2>2, OrderedSame
<1>8. CASE TookData(f) \/ TookOther(f)
  <2>1. x2 = <<taken', peer'.part>>
    <3>1. CASE TookData(f)
      <4>1. PICK got : got = [op |-> IF f.op \in Data THEN f.op ELSE peer.part.op,
                              data |-> peer.part.data \o f.data]
        OBVIOUS
      <4>2. /\ f.op \in Data \cup {"continuation"} /\ ~Refuses(f, x)
            /\ taken' = IF f.fin THEN Append(taken, got) ELSE taken
            /\ peer' = [peer EXCEPT !.part = IF f.fin THEN NoMessage ELSE got]
        BY <1>6, <3>1, <4>1 DEF TookData, PeerRefuses, Refuses
      <4>3. peer'.part = IF f.fin THEN NoMessage ELSE got
        BY <1>3, <4>2 DEF PeerTypes
      <4>4. x2 = IF f.fin THEN <<Append(taken, got), NoMessage>> ELSE <<taken, got>>
        BY <1>6, <4>1, <4>2 DEF Takes, Data
      <4> QED BY <4>2, <4>3, <4>4
    <3>2. CASE TookOther(f)
      <4>1. peer' = peer /\ f.op \in {"ping", "pong"} /\ ~Refuses(f, x)
        BY <3>2 DEF TookOther, Refuses, Data
      <4>2. CASE f.op = "ping"
        BY <1>6, <3>2, <4>1, <4>2 DEF TookOther, Takes, Data
      <4>3. CASE f.op = "pong"
        BY <1>a, <1>6, <3>2, <4>1, <4>3 DEF TookOther, Takes, Data
      <4> QED BY <4>1, <4>2, <4>3
    <3> QED BY <1>8, <3>1, <3>2
  <2>2. IsPrefix(taken', Base')
    <3>1. taken' \in Beginnings
      BY <2>1 DEF Takings
    <3> QED BY <1>b, <3>1 DEF Beginnings
  <2>3. Takings' = Takings /\ Taken' = Taken /\ Ends(y)'
    <3>1. Beginnings' = Beginnings
      BY <1>b DEF Beginnings
    <3>2. Takings' = Takings /\ Taken' = Taken
      BY <3>1 DEF Takings, Taken, Takes, Refuses
    <3>3. Ends(y)'
      BY <1>2, <1>4, <1>b DEF Ends, Remains
    <3> QED BY <3>2, <3>3
  <2>4. Outgoing'
    BY <1>5, <2>1, <2>3 DEF Outgoing
  <2> QED BY <2>2, <2>4 DEF Ordered
<1> QED BY <1>1, <1>7, <1>8

\* The peer reads behind a frame that is not all there, once.
LEMMA MisreadsInOrder ==
  ASSUME MessagesOK, Typed, Sending, Ordered, PeerMisreads
  PROVE  Ordered'
<1>1. /\ toPeer = <<>> /\ toPeer' = toPeer /\ broken /\ broken' = broken /\ ~Misread
      /\ taken' = Append(taken, Garbled) /\ asked' = asked /\ call' = call
  BY DEF PeerMisreads, ours
<1>2. taken \in Seq(Pieces) /\ Garbled \in Pieces
  BY EmptySeq DEF Typed, Garbled, Pieces, Ops, Bytes
<1>3. ~Astray
  <2> SUFFICES ASSUME Astray PROVE FALSE
    OBVIOUS
  <2>1. PICK t \in Seq(Pieces) : taken = Append(t, Garbled)
    BY DEF Astray
  <2>2. taken # <<>> /\ taken[Len(taken)] = Garbled
    BY <1>2, <2>1, AppendProperties
  <2> QED BY <1>1, <2>2 DEF Misread, Last
<1>4. IsPrefix(taken, Base) /\ Base' = Base
  BY <1>1, <1>3 DEF Ordered, Base
<1>5. Astray'
  BY <1>1, <1>2, <1>4 DEF Astray
<1> QED BY <1>5 DEF Ordered

\* Every step keeps what is sent in order.
LEMMA NextOrdered ==
  ASSUME MessagesOK, Typed, Sending, Ordered, [WsNext]_wsVars
  PROVE  Ordered'
<1>0. peer \in PeerTypes
  BY DEF Typed, PeerTypes
<1>2. ASSUME StartClose \/ FinishClose \/ SetBlocking \/ StartReceive \/ UNCHANGED wsVars
      PROVE  Ordered'
  <2>1. /\ asked' = asked /\ taken' = taken /\ peer' = peer /\ toPeer' = toPeer
        /\ rest' = rest /\ broken' = broken /\ (call' = "send") = (call = "send")
    BY <1>2 DEF StartClose, BeginClose, FinishClose, SetBlocking, StartReceive, peerSide, wsVars
  <2>2. Base' = Base
    BY <2>1 DEF Base
  <2>3. \A y \in Takings : Ends(y) => Ends(y)'
    BY <2>1, <2>2 DEF Ends, Remains
  <2> QED BY <2>1, <2>3, OrderedSame
<1>3. ASSUME PeerPosts \/ PeerSends \/ PeerCompletes \/ PeerPings \/ PeerMisbehaves \/ PeerCloses
      PROVE  Ordered'
  <2>1. /\ asked' = asked /\ taken' = taken /\ toPeer' = toPeer /\ rest' = rest /\ call' = call
        /\ peer.there /\ broken' = broken
    BY <1>3 DEF PeerPosts, PeerSends, PeerCompletes, PeerPings, PeerMisbehaves, PeerCloses, ours,
       peerSide
  <2>2. peer'.part = peer.part
    <3>1. \/ peer' = peer
          \/ \E d : peer' = [peer EXCEPT !.due = d] \/ peer' = [peer EXCEPT !.extras = d]
                    \/ peer' = [peer EXCEPT !.code = d]
      BY <1>3 DEF PeerPosts, PeerSends, PeerCompletes, PeerPings, PeerMisbehaves, PeerCloses, peerSide
    <3> QED BY <1>0, <3>1 DEF PeerTypes
  <2>3. Base' = Base
    BY <2>1 DEF Base
  <2>4. \A y \in Takings : Ends(y) => Ends(y)'
    BY <2>1, <2>3 DEF Ends, Remains
  <2> QED BY <2>1, <2>2, <2>4, OrderedSame
<1>4. ASSUME PeerLeaves PROVE Ordered'
  <2>1. /\ peer' = [peer EXCEPT !.there = FALSE] /\ taken' = taken /\ toPeer' = toPeer
        /\ broken' = broken
    BY <1>4 DEF PeerLeaves, ours
  <2>2. ~peer'.there
    BY <1>0, <2>1 DEF PeerTypes
  <2> QED BY <2>1, <2>2, OrderedSame
<1>5. ASSUME PeerDies PROVE Ordered'
  <2>1. /\ peer' = [peer EXCEPT !.there = FALSE] /\ taken' = taken /\ toPeer' = <<>>
        /\ broken' = broken
    BY <1>5 DEF PeerDies, ours
  <2>2. ~peer'.there
    BY <1>0, <2>1 DEF PeerTypes
  <2>3. toPeer' = toPeer \/ ~Astray
    BY <2>1 DEF Astray
  <2> QED BY <2>1, <2>2, <2>3, OrderedSame
<1> QED BY <1>2, <1>3, <1>4, <1>5, StartsInOrder, SendsInOrder, FailsInOrder, AnswersInOrder,
        TakesInOrder, MisreadsInOrder DEF WsNext, Peer

\* And so the messages are sent in order.
LEMMA OrderedImplies == ASSUME MessagesOK, Typed, Sending, Ordered PROVE SentInOrder
<1>1. ASSUME NEW t \in Seq(Pieces), IsPrefix(t, Base) PROVE IsPrefix(t, asked)
  <2>1. CASE call # "send"
    BY <1>1, <2>1, BaseIs
  <2>2. CASE call = "send"
    <3>1. PICK m : m \in AppMessages /\ asked = Append(Base, m)
      BY <2>2, BaseIs
    <3>2. PICK b \in Seq(Pieces) : b = Base
      BY BaseTyped
    <3>3. m \in Pieces
      BY <3>1, MessageFields
    <3>4. IsPrefix(t, Append(b, m))
      BY <1>1, <3>2, <3>3, PrefixLonger
    <3> QED BY <3>1, <3>2, <3>4
  <2> QED BY <2>1, <2>2
<1>2. ASSUME Astray PROVE SentInOrder
  <2>1. PICK t \in Seq(Pieces) : taken = Append(t, Garbled) /\ IsPrefix(t, Base)
    BY <1>2 DEF Astray
  <2>2. Garbled \in Pieces
    BY EmptySeq DEF Garbled, Pieces, Ops, Bytes
  <2>3. Front(taken) = t /\ taken # <<>> /\ taken[Len(taken)] = Garbled
    BY <2>1, <2>2, FrontOf, AppendProperties
  <2>4. broken /\ Misread
    BY <1>2, <2>3 DEF Astray, Misread, Last
  <2> QED BY <1>1, <2>1, <2>3, <2>4 DEF SentInOrder
<1>3. taken \in Seq(Pieces)
  BY DEF Typed
<1> QED BY <1>1, <1>2, <1>3 DEF Ordered, SentInOrder

---------------------------------------------------------------------------
(***************************************************************************)
(* What is received.  A position <<k, i>> is before fragment i of message  *)
(* k.  While the connection is open, the frames on their way to us lead    *)
(* from where receive() is to where the peer is, and those that the peer   *)
(* has still to send, from there to the end of what it has posted.  What   *)
(* receive() has collected is the beginning of message k.  It may have     *)
(* forgotten that: then its rules refuse the next fragment.                *)
(***************************************************************************)

\* Sum(m, i) is the first i fragments of m, one behind the other.
Sums(frags) == CHOOSE f : Flattens(f, frags, Len(frags))
Sum(m, i) == Sums(m.frags)[i]

\* The fragments, one behind the other, are the message.
LEMMA SumIs ==
  ASSUME MessagesOK, NEW m \in PeerMessages
  PROVE  /\ Sum(m, 1) = m.frags[1]
         /\ \A i \in 1..Len(m.frags) : i # 1 => Sum(m, i) = Sum(m, i - 1) \o m.frags[i]
         /\ Sum(m, Len(m.frags)) = FlattenSeq(m.frags)
<1>1. PICK s : s = m.frags
  OBVIOUS
<1>2. Len(s) \in Nat \ {0}
  BY <1>1, MessageFields
<1>3. Flattens(Sums(s), s, Len(s))
  BY <1>2, FlattenExists DEF Sums
<1>4. FlattenSeq(s) = Sums(s)[Len(s)]
  BY <1>2 DEF FlattenSeq, Sums, Flattens
<1>5. \A i \in 1..Len(s) : Sums(s)[i] = IF i = 1 THEN s[i] ELSE Sums(s)[i - 1] \o s[i]
  BY <1>3 DEF Flattens
<1>6. 1 \in 1..Len(s)
  BY <1>2
<1> QED BY <1>1, <1>4, <1>5, <1>6 DEF Sum

Places == Nat \ {0}
Positions == Places \X Places

\* The frame f takes a reader of msgs from x to y.
Steps(f, x, y, msgs) ==
    IF f.op \in Data \cup {"continuation"}
       THEN LET m == msgs[x[1]]
            IN /\ x[1] \in DOMAIN msgs /\ x[2] \in DOMAIN m.frags
               /\ f.op = IF x[2] = 1 THEN m.op ELSE "continuation"
               /\ f.fin = (x[2] = Len(m.frags))
               /\ f.data = m.frags[x[2]]
               /\ y = IF f.fin THEN <<x[1] + 1, 1>> ELSE <<x[1], x[2] + 1>>
       ELSE y = x

Stream(msgs) == {e \in Frames \X Positions \X Positions : Steps(e[1], e[2], e[3], msgs)}
End(msgs) == <<Len(msgs) + 1, 1>>

Posts(msgs) ==
    /\ Len(posted) = Len(msgs)
    /\ \A k \in DOMAIN msgs : posted[k] = [op |-> msgs[k].op, data |-> FlattenSeq(msgs[k].frags)]

\* Where receive() is.
Receives(x, msgs) ==
    /\ x[1] = Len(given) + 1
    /\ message.data # <<>> =>
          /\ x[1] \in DOMAIN msgs /\ x[2] # 1
          /\ message = [op |-> msgs[x[1]].op, data |-> Sum(msgs[x[1]], x[2] - 1)]

Reading(msgs, x, y) ==
    /\ Posts(msgs)
    /\ Receives(x, msgs)
    /\ Leads(toUs, x, y, Positions, Stream(msgs))
    /\ peer.there => Leads(peer.due, y, End(msgs), Positions, Stream(msgs))

Incomplete == \E msgs \in Seq(PeerMessages), x \in Positions, y \in Positions : Reading(msgs, x, y)

Received ==
    /\ MessagesInOrder
    /\ call = "receive" => sock = "open"
    /\ sock = "open" => Incomplete

\* The end of what is posted is a position.
LEMMA EndIsPosition ==
  ASSUME NEW msgs \in Seq(PeerMessages)
  PROVE  End(msgs) \in Positions
BY DEF End, Positions, Places

\* More messages leave the steps through the first as they are.
LEMMA StreamMore ==
  ASSUME NEW msgs \in Seq(PeerMessages), NEW m \in PeerMessages
  PROVE  Stream(msgs) \subseteq Stream(Append(msgs, m))
<1>1. PICK more \in Seq(PeerMessages) : more = Append(msgs, m)
  BY AppendProperties
<1>2. \A k \in DOMAIN msgs : k \in DOMAIN more /\ more[k] = msgs[k]
  BY <1>1
<1>3. ASSUME NEW e \in Stream(msgs) PROVE e \in Stream(more)
  <2>1. e \in Frames \X Positions \X Positions /\ Steps(e[1], e[2], e[3], msgs)
    BY DEF Stream
  <2>2. Steps(e[1], e[2], e[3], more)
    BY <1>2, <2>1 DEF Steps
  <2> QED BY <2>1, <2>2 DEF Stream
<1> QED BY <1>1, <1>3

\* The fragments of a message lead from its beginning to its end.
LEMMA FragmentsLead ==
  ASSUME MessagesOK, Typed, NEW msgs \in Seq(PeerMessages), NEW m \in PeerMessages,
         NEW more, more = Append(msgs, m), NEW s, s = FragmentsOf(m)
  PROVE  Leads(s, End(msgs), End(more), Positions, Stream(more))
<1>1. /\ s \in Seq(Frames) /\ Len(s) = Len(m.frags)
      /\ \A i \in 1..Len(m.frags) :
            /\ s[i].op = IF i = 1 THEN m.op ELSE "continuation"
            /\ s[i].fin = (i = Len(m.frags)) /\ s[i].data = m.frags[i]
  BY Fragments
<1>2. PICK n \in Nat \ {0} : n = Len(m.frags) /\ DOMAIN m.frags = 1..n
  BY MessageFields
<1>3. PICK k \in Nat \ {0} : k = Len(msgs) + 1
  OBVIOUS
<1>4. Len(more) = k /\ k \in DOMAIN more /\ more[k] = m
  BY <1>3
<1> DEFINE X == [i \in 1..(n + 1) |-> IF i = n + 1 THEN <<k + 1, 1>> ELSE <<k, i>>]
<1>5. /\ X \in [1..(n + 1) -> Positions] /\ X[n + 1] = <<k + 1, 1>>
      /\ \A i \in 1..n : X[i] = <<k, i>>
  BY DEF Positions, Places
<1> HIDE DEF X
<1>6. ASSUME NEW i \in 1..n PROVE <<s[i], X[i], X[i + 1]>> \in Stream(more)
  <2>1. s[i] \in Frames /\ X[i] \in Positions /\ X[i + 1] \in Positions
    <3>1. i \in 1..(n + 1) /\ i + 1 \in 1..(n + 1)
      OBVIOUS
    <3>2. i \in 1..Len(s) /\ s \in Seq(Frames)
      BY <1>1, <1>2
    <3>3. s[i] \in Frames
      BY <3>2, ElementOfSeq
    <3> QED BY <1>5, <3>1, <3>3
  <2>2. /\ s[i].op = IF i = 1 THEN m.op ELSE "continuation"
        /\ s[i].fin = (i = n) /\ s[i].data = m.frags[i]
    BY <1>1, <1>2
  <2>3. s[i].op \in Data \cup {"continuation"}
    <3>1. m.op \in Data
      BY MessageFields
    <3> QED BY <2>2, <3>1
  <2>4. X[i] = <<k, i>> /\ i \in DOMAIN m.frags
    BY <1>2, <1>5
  <2>5. X[i + 1] = IF s[i].fin THEN <<k + 1, 1>> ELSE <<k, i + 1>>
    <3>1. CASE i = n
      BY <1>5, <2>2, <3>1
    <3>2. CASE i # n
      <4>1. i + 1 \in 1..n
        BY <3>2
      <4> QED BY <1>5, <2>2, <3>2, <4>1
    <3> QED BY <3>1, <3>2
  <2>6. Steps(s[i], X[i], X[i + 1], more)
    BY <1>2, <1>4, <2>2, <2>3, <2>4, <2>5 DEF Steps
  <2> QED BY <2>1, <2>6 DEF Stream
<1>7. Path(s, X, Positions, Stream(more))
  BY <1>1, <1>2, <1>5, <1>6 DEF Path
<1>8. X[1] = End(msgs) /\ X[Len(s) + 1] = End(more)
  <2>1. 1 \in 1..n
    OBVIOUS
  <2> QED BY <1>1, <1>2, <1>3, <1>4, <1>5, <2>1 DEF End
<1> QED BY <1>7, <1>8 DEF Leads

\* What is received, initially.
LEMMA InitReceived == ASSUME WsInit PROVE Received
<1>1. /\ toUs = <<>> /\ posted = <<>> /\ given = <<>> /\ peer.due = <<>> /\ call = "none"
      /\ message = NoMessage
  BY DEF WsInit
<1>2. PICK msgs \in Seq(PeerMessages) : msgs = <<>>
  BY EmptySeq
<1>3. PICK x \in Positions : x = End(msgs)
  BY EndIsPosition
<1>4. Len(msgs) = 0 /\ x = <<1, 1>> /\ DOMAIN msgs = {}
  BY <1>2, <1>3 DEF End
<1>5. Posts(msgs)
  BY <1>1, <1>2, <1>4 DEF Posts
<1>6. Receives(x, msgs)
  BY <1>1, <1>2, <1>4, NothingTyped DEF Receives
<1>7. Leads(toUs, x, x, Positions, Stream(msgs)) /\ Leads(peer.due, x, End(msgs), Positions, Stream(msgs))
  BY <1>1, <1>3, LeadsNone
<1>8. Incomplete
  BY <1>5, <1>6, <1>7 DEF Incomplete, Reading
<1>9. MessagesInOrder
  BY <1>1, EmptySeq, PrefixSelf DEF MessagesInOrder
<1> QED BY <1>1, <1>8, <1>9 DEF Received

\* Steps that leave what is received alone, but for a message that is forgotten.
LEMMA ReceivedSame ==
  ASSUME Received, given' = given, posted' = posted, call' = "receive" => sock' = "open",
         sock' = "open" =>
            /\ sock = "open" /\ toUs' = toUs /\ (message' = message \/ message'.data = <<>>)
            /\ peer'.there => peer.there /\ peer'.due = peer.due
  PROVE  Received'
<1>1. ASSUME sock' = "open" PROVE Incomplete'
  <2>1. PICK msgs \in Seq(PeerMessages), x \in Positions, y \in Positions : Reading(msgs, x, y)
    BY <1>1 DEF Received, Incomplete
  <2>2. Posts(msgs)'
    BY <2>1 DEF Reading, Posts
  <2>3. Receives(x, msgs)'
    BY <1>1, <2>1 DEF Reading, Receives
  <2>4. Leads(toUs', x, y, Positions, Stream(msgs))
    BY <1>1, <2>1 DEF Reading
  <2>5. peer'.there => Leads(peer'.due, y, End(msgs), Positions, Stream(msgs))
    BY <1>1, <2>1 DEF Reading
  <2> QED BY <2>2, <2>3, <2>4, <2>5 DEF Incomplete, Reading
<1> QED BY <1>1 DEF Received, MessagesInOrder

\* The peer delivers a frame that takes its position from y to z.
LEMMA ReceivedMore ==
  ASSUME Typed, Received, given' = given, posted' = posted, call' = call, sock' = sock,
         message' = message, NEW f \in Frames, NEW whole \in BOOLEAN, Delivers(f, whole),
         \A msgs \in Seq(PeerMessages) : \A x \in Positions : \A y \in Positions :
            sock = "open" /\ Reading(msgs, x, y) =>
               \E z \in Positions :
                  /\ Steps(f, y, z, msgs)
                  /\ peer'.there => Leads(peer'.due, z, End(msgs), Positions, Stream(msgs))
  PROVE  Received'
<1>1. ASSUME sock = "open" PROVE Incomplete'
  <2>1. PICK msgs \in Seq(PeerMessages), x \in Positions, y \in Positions : Reading(msgs, x, y)
    BY <1>1 DEF Received, Incomplete
  <2>2. PICK z \in Positions :
              /\ Steps(f, y, z, msgs)
              /\ peer'.there => Leads(peer'.due, z, End(msgs), Positions, Stream(msgs))
    BY <1>1, <2>1
  <2>3. PICK g \in Frames :
              toUs' = Append(toUs, g) /\ g.op = f.op /\ g.fin = f.fin /\ g.data = f.data
    BY <1>1, DeliversTyped
  <2>4. <<g, y, z>> \in Stream(msgs)
    BY <2>2, <2>3 DEF Stream, Steps
  <2>5. toUs \in Seq(Frames) /\ Leads(toUs, x, y, Positions, Stream(msgs))
    BY <2>1 DEF Typed, Reading
  <2>6. Leads(toUs', x, z, Positions, Stream(msgs))
    BY <2>3, <2>4, <2>5, LeadsMore
  <2>7. Posts(msgs)' /\ Receives(x, msgs)'
    BY <2>1 DEF Reading, Posts, Receives
  <2> QED BY <2>2, <2>6, <2>7 DEF Incomplete, Reading
<1> QED BY <1>1 DEF Received, MessagesInOrder

\* The peer delivers a control frame.
LEMMA ReceivedControl ==
  ASSUME Typed, Received, given' = given, posted' = posted, call' = call, sock' = sock,
         message' = message, NEW f \in Frames, f.op \notin Data \cup {"continuation"},
         NEW whole \in BOOLEAN, Delivers(f, whole),
         peer'.there => peer.there /\ peer'.due = peer.due
  PROVE  Received'
<1>1. ASSUME NEW msgs \in Seq(PeerMessages), NEW x \in Positions, NEW y \in Positions,
             Reading(msgs, x, y)
      PROVE  /\ Steps(f, y, y, msgs)
             /\ peer'.there => Leads(peer'.due, y, End(msgs), Positions, Stream(msgs))
  BY <1>1 DEF Reading, Steps
<1> QED BY <1>1, ReceivedMore

\* receive() reads a frame from its position.
LEMMA ReadsNext ==
  ASSUME Typed, ReadFrame, NEW msgs \in Seq(PeerMessages), NEW x \in Positions,
         NEW y \in Positions, Reading(msgs, x, y)
  PROVE  \E z \in Positions :
            /\ Steps(Head(toUs), x, z, msgs)
            /\ Leads(toUs', z, y, Positions, Stream(msgs))
<1>1. toUs \in Seq(Frames) /\ toUs # <<>> /\ toUs' = Tail(toUs)
  BY ReadsFrame DEF Typed
<1>2. Leads(toUs, x, y, Positions, Stream(msgs))
  BY DEF Reading
<1>3. PICK z \in Positions : /\ <<Head(toUs), x, z>> \in Stream(msgs)
                             /\ Leads(Tail(toUs), z, y, Positions, Stream(msgs))
  BY <1>1, <1>2, LeadsLess
<1> QED BY <1>1, <1>3 DEF Stream

\* receive() reads a control frame, and may forget what it has collected.
LEMMA ReadsControl ==
  ASSUME Typed, Received, ReadFrame, Head(toUs).op \notin Data \cup {"continuation"},
         sock' = sock, given' = given, posted' = posted, peer' = peer,
         message' = message \/ message'.data = <<>>
  PROVE  Received'
<1>1. call = "receive" /\ sock = "open"
  BY DEF ReadFrame, Received
<1>2. PICK msgs \in Seq(PeerMessages), x \in Positions, y \in Positions : Reading(msgs, x, y)
  BY <1>1 DEF Received, Incomplete
<1>3. PICK z \in Positions : /\ Steps(Head(toUs), x, z, msgs)
                             /\ Leads(toUs', z, y, Positions, Stream(msgs))
  BY <1>2, ReadsNext
<1>4. z = x
  BY <1>3 DEF Steps
<1>5. Posts(msgs)' /\ Receives(x, msgs)'
  BY <1>2 DEF Reading, Posts, Receives
<1>6. peer'.there => Leads(peer'.due, y, End(msgs), Positions, Stream(msgs))
  BY <1>2 DEF Reading
<1>7. Incomplete'
  BY <1>3, <1>4, <1>5, <1>6 DEF Incomplete, Reading
<1> QED BY <1>1, <1>7 DEF Received, MessagesInOrder

\* and with the next element it is still one.
LEMMA PrefixNext ==
  ASSUME NEW s \in Seq(Pieces), NEW t \in Seq(Pieces), IsPrefix(s, t), Len(s) < Len(t),
         NEW m \in Pieces, m = t[Len(s) + 1]
  PROVE  IsPrefix(Append(s, m), t)
<1>1. PICK n \in Nat : n = Len(s) /\ n + 1 <= Len(t)
  OBVIOUS
<1>2. PICK u \in Seq(Pieces) : u = Append(s, m)
  BY AppendProperties
<1>3. Len(u) = n + 1 /\ u[n + 1] = m /\ \A i \in 1..n : u[i] = s[i]
  BY <1>1, <1>2, AppendProperties
<1>4. SubSeq(s, 1, n) = SubSeq(t, 1, n)
  BY <1>1 DEF IsPrefix
<1>5. \A i \in 1..n : s[i] = t[i]
  <2> SUFFICES ASSUME NEW i \in 1..n PROVE s[i] = t[i]
    OBVIOUS
  <2>1. SubSeq(s, 1, n)[i] = s[i] /\ SubSeq(t, 1, n)[i] = t[i]
    BY <1>1
  <2> QED BY <1>4, <2>1
<1>6. \A i \in 1..(n + 1) : u[i] = t[i]
  BY <1>1, <1>3, <1>5
<1>7. SubSeq(u, 1, n + 1) = SubSeq(t, 1, n + 1)
  BY <1>1, <1>3, <1>6
<1> QED BY <1>1, <1>2, <1>3, <1>7 DEF IsPrefix

\* receive() collects the next fragment, and hands over the message it ends.
LEMMA CollectsInOrder ==
  ASSUME MessagesOK, Typed, Received, ReceiveData
  PROVE  Received'
<1>1. ReadFrame
  BY DEF ReceiveData
<1>2. PICK f : f = Head(toUs)
  OBVIOUS
<1>3. /\ call = "receive" /\ f \in Frames /\ Incoming.data = f.data /\ Incoming.op = f.op
      /\ Incoming.fin = f.fin
  BY <1>1, <1>2, ReadsFrame
<1>4. PICK got \in Pieces : got = Gathered(f) /\ got = Collected(Incoming)
  BY <1>1, <1>2, Collects
<1>a. got = [op |-> IF f.op \in Data THEN f.op ELSE message.op, data |-> message.data \o f.data]
  BY <1>4 DEF Gathered
<1>5. sock = "open" /\ sock' = sock /\ posted' = posted /\ peer' = peer
  BY <1>3 DEF Received, ReceiveData, peerSide
<1>6. f.op \in Data \cup {"continuation"} /\ ~Refused(Incoming)
  BY <1>3 DEF ReceiveData
<1>7. /\ f.data # <<>>
      /\ f.op \in Data => message.data = <<>>
      /\ f.op = "continuation" => message.data # <<>>
  BY <1>3, <1>6 DEF Refused, OutOfPlace
<1>8. /\ f.fin => given' = Append(given, got) /\ call' = "none" /\ message' = NoMessage
      /\ ~f.fin => given' = given /\ call' = call /\ message' = got
  BY <1>3, <1>4 DEF ReceiveData
<1>9. PICK msgs \in Seq(PeerMessages), x \in Positions, y \in Positions : Reading(msgs, x, y)
  BY <1>5 DEF Received, Incomplete
<1>10. PICK z \in Positions : Steps(f, x, z, msgs) /\ Leads(toUs', z, y, Positions, Stream(msgs))
  BY <1>1, <1>2, <1>9, ReadsNext
<1>11. PICK k \in Places, i \in Places : x = <<k, i>>
  BY DEF Positions
<1>12. k \in Nat \ {0} /\ i \in Nat \ {0} /\ x[1] = k /\ x[2] = i
  BY <1>11 DEF Places
<1>13. k \in DOMAIN msgs /\ k \in 1..Len(msgs) /\ msgs[k] \in PeerMessages
  BY <1>6, <1>10, <1>12 DEF Steps
<1>14. PICK m \in PeerMessages : m = msgs[k]
  BY <1>13
<1>15. /\ i \in DOMAIN m.frags /\ f.op = (IF i = 1 THEN m.op ELSE "continuation")
       /\ f.fin = (i = Len(m.frags)) /\ f.data = m.frags[i]
       /\ z = IF f.fin THEN <<k + 1, 1>> ELSE <<k, i + 1>>
  BY <1>6, <1>10, <1>12, <1>14 DEF Steps
<1>16. m.op \in Data /\ i \in 1..Len(m.frags)
  BY <1>15, MessageFields
<1>17. Receives(x, msgs)
  BY <1>9 DEF Reading
<1>18. Len(given) + 1 = k
  BY <1>12, <1>17 DEF Receives
<1>19. got = [op |-> m.op, data |-> Sum(m, i)]
  <2>1. CASE i = 1
    <3>1. f.op \in Data /\ f.op = m.op /\ message.data = <<>>
      BY <1>7, <1>15, <1>16, <2>1
    <3>2. message.data \o f.data = f.data
      <4>1. f.data \in Bytes
        BY <1>3, FrameFields
      <4> QED BY <3>1, <4>1, ConcatEmptySeq DEF Bytes
    <3>3. Sum(m, 1) = f.data
      BY <1>15, <2>1, SumIs
    <3> QED BY <1>a, <2>1, <3>1, <3>2, <3>3
  <2>2. CASE i # 1
    <3>1. f.op = "continuation" /\ f.op \notin Data
      BY <1>15, <2>2 DEF Data
    <3>2. message = [op |-> m.op, data |-> Sum(m, i - 1)]
      BY <1>7, <1>12, <1>14, <1>17, <3>1 DEF Receives
    <3>3. Sum(m, i) = Sum(m, i - 1) \o m.frags[i]
      BY <1>16, <2>2, SumIs
    <3>4. message.op = m.op /\ message.data = Sum(m, i - 1)
      BY <3>2
    <3> QED BY <1>a, <1>15, <3>1, <3>3, <3>4
  <2> QED BY <2>1, <2>2
<1>20. Posts(msgs)' /\ Posts(msgs)
  BY <1>5, <1>9 DEF Reading, Posts
<1>21. peer'.there => Leads(peer'.due, y, End(msgs), Positions, Stream(msgs))
  BY <1>5, <1>9 DEF Reading
<1>22. CASE ~f.fin
  <2>1. z = <<k, i + 1>> /\ z[1] = k /\ z[2] = i + 1 /\ i + 1 # 1 /\ i + 1 - 1 = i
    BY <1>12, <1>15, <1>22
  <2>2. Receives(z, msgs)'
    <3>1. message' = [op |-> msgs[k].op, data |-> Sum(msgs[k], z[2] - 1)]
      <4>1. z[2] - 1 = i
        <5>1. PICK j \in Nat, l \in Nat : j = i /\ l = j + 1
          BY <1>12
        <5>2. z[2] = l /\ l - 1 = j
          BY <2>1, <5>1
        <5> QED BY <5>1, <5>2
      <4>2. message' = [op |-> m.op, data |-> Sum(m, i)]
        BY <1>8, <1>19, <1>22
      <4> QED BY <1>14, <4>1, <4>2
    <3>2. given' = given
      BY <1>8, <1>22
    <3> QED BY <1>13, <1>18, <2>1, <3>1, <3>2 DEF Receives
  <2>3. Incomplete'
    BY <1>10, <1>20, <1>21, <2>2 DEF Incomplete, Reading
  <2>4. MessagesInOrder'
    BY <1>5, <1>8, <1>22 DEF Received, MessagesInOrder
  <2> QED BY <1>5, <2>3, <2>4 DEF Received
<1>23. CASE f.fin
  <2>1. z = <<k + 1, 1>> /\ z[1] = k + 1
    BY <1>15, <1>23
  <2>2. given \in Seq(Pieces) /\ posted \in Seq(Pieces)
    BY DEF Typed
  <2>3. Len(given') = Len(given) + 1
    BY <1>8, <1>23, <2>2, AppendProperties
  <2>4. message'.data = <<>>
    BY <1>8, <1>23, NothingTyped
  <2>5. Receives(z, msgs)'
    BY <1>18, <2>1, <2>3, <2>4 DEF Receives
  <2>6. Incomplete'
    BY <1>10, <1>20, <1>21, <2>5 DEF Incomplete, Reading
  <2>7. got = posted[k]
    <3>1. posted[k] = [op |-> m.op, data |-> FlattenSeq(m.frags)]
      BY <1>13, <1>14, <1>20 DEF Posts
    <3>2. Sum(m, i) = FlattenSeq(m.frags)
      BY <1>15, <1>23, SumIs
    <3> QED BY <1>19, <3>1, <3>2
  <2>8. MessagesInOrder'
    <3>1. IsPrefix(given, posted)
      BY DEF Received, MessagesInOrder
    <3>2. Len(given) < Len(posted)
      BY <1>13, <1>18, <1>20, <2>2 DEF Posts
    <3>3. IsPrefix(Append(given, got), posted)
      BY <1>18, <2>2, <2>7, <3>1, <3>2, PrefixNext
    <3> QED BY <1>5, <1>8, <1>23, <3>3 DEF MessagesInOrder
  <2> QED BY <1>5, <2>6, <2>8 DEF Received
<1> QED BY <1>22, <1>23

\* Every pass of receive() keeps what is received in order.
LEMMA ReceivesInOrder ==
  ASSUME MessagesOK, Typed, Received, Receive
  PROVE  Received'
<1>1. call = "receive" /\ sock = "open" /\ peer' = peer /\ posted' = posted
  BY ReceiveFrame DEF Received
<1>2. ASSUME ReceiveNothing PROVE Received'
  BY <1>1, <1>2, ReceivedSame, NothingTyped DEF ReceiveNothing
<1>3. ASSUME ReceiveBroken \/ ReceiveError PROVE Received'
  BY <1>1, <1>3, ReceivedSame DEF ReceiveBroken, ReceiveError, BeginClose
<1>4. ASSUME ReceiveClose \/ ReceivePing \/ ReceivePong \/ ReceiveReserved PROVE Received'
  <2>1. ReadFrame /\ Incoming.op \in {"close", "ping", "pong", "reserved"}
    BY <1>4 DEF ReceiveClose, ReceivePing, ReceivePong, ReceiveReserved
  <2>2. Head(toUs).op \notin Data \cup {"continuation"}
    BY <2>1, ReadsFrame DEF Data
  <2>3. sock' = sock /\ given' = given /\ (message' = message \/ message'.data = <<>>)
    BY <1>4, NothingTyped DEF ReceiveClose, ReceivePing, ReceivePong, ReceiveReserved
  <2> QED BY <1>1, <2>1, <2>2, <2>3, ReadsControl
<1> QED BY <1>2, <1>3, <1>4, CollectsInOrder DEF Receive

\* The peer posts one more message, behind all that is on its way.
LEMMA PostsInOrder ==
  ASSUME MessagesOK, Typed, Received, PeerPosts
  PROVE  Received'
<1>1. PICK m \in PeerMessages :
         /\ posted' = Append(posted, [op |-> m.op, data |-> FlattenSeq(m.frags)])
         /\ peer' = [peer EXCEPT !.due = FragmentsOf(m)]
  BY DEF PeerPosts
<1>2. /\ peer.there /\ peer.due = <<>> /\ toUs' = toUs /\ given' = given /\ message' = message
      /\ call' = call /\ sock' = sock
  BY DEF PeerPosts, ours
<1>3. PICK p : p = [op |-> m.op, data |-> FlattenSeq(m.frags)]
  OBVIOUS
<1>4. p \in Pieces
  <2>1. PICK frags \in Seq(Seq(Nat)) : frags = m.frags
    BY MessageFields DEF Bytes
  <2>2. FlattenSeq(frags) \in Seq(Nat)
    BY FlattenSequence
  <2>3. m.op \in Ops
    BY MessageFields DEF Ops
  <2> QED BY <1>3, <2>1, <2>2, <2>3 DEF Pieces, Bytes
<1>5. posted \in Seq(Pieces) /\ given \in Seq(Pieces) /\ posted' = Append(posted, p)
  BY <1>1, <1>3 DEF Typed
<1>6. MessagesInOrder'
  BY <1>2, <1>4, <1>5, PrefixLonger DEF Received, MessagesInOrder
<1>7. ASSUME sock = "open" PROVE Incomplete'
  <2>1. PICK msgs \in Seq(PeerMessages), x \in Positions, y \in Positions : Reading(msgs, x, y)
    BY <1>7 DEF Received, Incomplete
  <2>2. PICK more \in Seq(PeerMessages) : more = Append(msgs, m)
    BY AppendProperties
  <2>3. /\ Len(more) = Len(msgs) + 1 /\ more[Len(msgs) + 1] = m
        /\ \A k \in DOMAIN msgs : k \in DOMAIN more /\ more[k] = msgs[k]
    BY <2>2
  <2>4. y = End(msgs)
    BY <1>2, <2>1, LeadsFromNone DEF Reading
  <2>5. PICK s : s = FragmentsOf(m)
    OBVIOUS
  <2>6. Leads(s, End(msgs), End(more), Positions, Stream(more))
    BY <2>2, <2>5, FragmentsLead
  <2>7. peer'.due = s
    BY <1>1, <2>5 DEF Typed
  <2>8. Leads(toUs, x, y, Positions, Stream(msgs)) /\ Stream(msgs) \subseteq Stream(more)
    BY <2>1, <2>2, StreamMore DEF Reading
  <2>9. Leads(toUs, x, y, Positions, Stream(more))
    BY <2>8, LeadsWider
  <2>10. Posts(more)'
    <3>1. Posts(msgs)
      BY <2>1 DEF Reading
    <3>2. Len(posted') = Len(more)
      BY <1>4, <1>5, <2>3, <3>1 DEF Posts
    <3>3. ASSUME NEW k \in DOMAIN more
          PROVE  posted'[k] = [op |-> more[k].op, data |-> FlattenSeq(more[k].frags)]
      <4>1. CASE k \in DOMAIN msgs
        <5>1. k \in 1..Len(posted)
          BY <3>1, <4>1 DEF Posts
        <5>2. posted'[k] = posted[k]
          BY <1>4, <1>5, <5>1
        <5> QED BY <2>3, <3>1, <4>1, <5>2 DEF Posts
      <4>2. CASE k = Len(msgs) + 1
        <5>1. k = Len(posted) + 1
          BY <3>1, <4>2 DEF Posts
        <5>2. posted'[k] = p
          BY <1>4, <1>5, <5>1
        <5> QED BY <1>3, <2>3, <4>2, <5>2
      <4>3. k \in DOMAIN msgs \/ k = Len(msgs) + 1
        BY <2>2
      <4> QED BY <4>1, <4>2, <4>3
    <3> QED BY <3>2, <3>3 DEF Posts
  <2>11. Receives(x, more)'
    BY <1>2, <2>1, <2>3 DEF Reading, Receives
  <2> QED BY <1>2, <2>4, <2>6, <2>7, <2>9, <2>10, <2>11 DEF Incomplete, Reading
<1> QED BY <1>2, <1>6, <1>7 DEF Received

\* Every step keeps what is received in order.
LEMMA NextReceived ==
  ASSUME MessagesOK, Typed, Echoing, Received, [WsNext]_wsVars
  PROVE  Received'
<1>0. /\ peer \in PeerTypes /\ toUs \in Seq(Frames)
  BY DEF Typed, PeerTypes
<1>1. ASSUME StartSend \/ SendFrame \/ SendFails \/ SetBlocking \/ PeerMisreads \/ UNCHANGED wsVars
      PROVE  Received'
  <2>1. /\ given' = given /\ posted' = posted /\ sock' = sock /\ toUs' = toUs /\ message' = message
        /\ peer' = peer /\ (call' = "receive" => call = "receive")
    BY <1>1 DEF StartSend, SendFrame, SendFails, SetBlocking, PeerMisreads, ours, peerSide, wsVars
  <2> QED BY <2>1, ReceivedSame DEF Received
<1>2. ASSUME StartClose \/ FinishClose PROVE Received'
  <2>1. given' = given /\ posted' = posted /\ sock' # "open" /\ call' # "receive"
    BY <1>2 DEF StartClose, BeginClose, FinishClose, peerSide
  <2> QED BY <2>1, ReceivedSame
<1>3. ASSUME StartReceive PROVE Received'
  <2>1. /\ given' = given /\ posted' = posted /\ sock' = sock /\ toUs' = toUs
        /\ message'.data = <<>> /\ peer' = peer /\ sock = "open"
    BY <1>3, NothingTyped DEF StartReceive, peerSide
  <2> QED BY <2>1, ReceivedSame
<1>4. ASSUME PeerSends PROVE Received'
  <2>1. peer' = [peer EXCEPT !.due = Tail(@)] /\ peer.due # <<>> /\ peer.there
    BY <1>4 DEF PeerSends
  <2>2. peer'.due = Tail(peer.due) /\ peer.due \in Seq(Frames)
    BY <1>0, <2>1 DEF PeerTypes
  <2>3. PICK whole \in BOOLEAN : Delivers(Head(peer.due), whole)
    BY <1>4 DEF PeerSends
  <2>4. PICK f \in Frames : f = Head(peer.due)
    BY <2>1, <2>2, HeadOfFrames
  <2>5. /\ given' = given /\ posted' = posted /\ call' = call /\ sock' = sock
        /\ message' = message
    BY <1>4 DEF PeerSends, ours
  <2>6. ASSUME NEW msgs \in Seq(PeerMessages), NEW x \in Positions, NEW y \in Positions,
               Reading(msgs, x, y)
        PROVE  \E z \in Positions :
                  /\ Steps(f, y, z, msgs)
                  /\ peer'.there => Leads(peer'.due, z, End(msgs), Positions, Stream(msgs))
    <3>1. PICK e : e = End(msgs)
      OBVIOUS
    <3>2. Leads(peer.due, y, e, Positions, Stream(msgs))
      BY <2>1, <2>6, <3>1 DEF Reading
    <3>3. PICK s \in Seq(Frames) : s = peer.due /\ s # <<>>
      BY <2>1, <2>2
    <3>4. PICK R : R = Stream(msgs)
      OBVIOUS
    <3>5. Leads(s, y, e, Positions, R)
      BY <3>2, <3>3, <3>4
    <3>6. PICK z \in Positions : <<Head(s), y, z>> \in R /\ Leads(Tail(s), z, e, Positions, R)
      BY <3>3, <3>5, LeadsLess
    <3>7. Steps(f, y, z, msgs)
      BY <2>4, <3>3, <3>4, <3>6 DEF Stream
    <3>8. Leads(peer'.due, z, End(msgs), Positions, Stream(msgs))
      BY <2>2, <3>1, <3>3, <3>4, <3>6
    <3> QED BY <3>7, <3>8
  <2> QED BY <2>3, <2>4, <2>5, <2>6, ReceivedMore
<1>5. ASSUME PeerCompletes PROVE Received'
  <2>1. toUs' = [toUs EXCEPT ![Len(toUs)].whole = TRUE]
    BY <1>5 DEF PeerCompletes
  <2>2. Len(toUs') = Len(toUs) /\ \A i \in 1..Len(toUs) : SameBut(toUs'[i], toUs[i])
    BY <1>0, <2>1, Completed
  <2>3. toUs' \in Seq(Frames)
    <3>1. Peer
      BY <1>5 DEF Peer
    <3> QED BY <3>1, PeerTyped DEF Typed
  <2>4. /\ given' = given /\ posted' = posted /\ call' = call /\ sock' = sock
        /\ message' = message /\ peer' = peer
    BY <1>5 DEF PeerCompletes, ours, peerSide
  <2>5. ASSUME sock = "open" PROVE Incomplete'
    <3>1. PICK msgs \in Seq(PeerMessages), x \in Positions, y \in Positions : Reading(msgs, x, y)
      BY <2>5 DEF Received, Incomplete
    <3>2. ASSUME NEW i \in 1..Len(toUs), NEW v, NEW w, <<toUs[i], v, w>> \in Stream(msgs)
          PROVE  <<toUs'[i], v, w>> \in Stream(msgs)
      <4>1. toUs'[i] \in Frames
        BY <2>2, <2>3
      <4>2. SameBut(toUs'[i], toUs[i])
        BY <2>2
      <4>3. v \in Positions /\ w \in Positions /\ Steps(toUs[i], v, w, msgs)
        BY <3>2 DEF Stream
      <4>4. Steps(toUs'[i], v, w, msgs)
        BY <4>2, <4>3 DEF SameBut, Steps
      <4> QED BY <4>1, <4>3, <4>4 DEF Stream
    <3>3. Leads(toUs', x, y, Positions, Stream(msgs))
      <4>1. Leads(toUs, x, y, Positions, Stream(msgs))
        BY <3>1 DEF Reading
      <4> QED BY <2>2, <3>2, <4>1, LeadsSame
    <3>4. Posts(msgs)' /\ Receives(x, msgs)'
      BY <2>4, <3>1 DEF Reading, Posts, Receives
    <3>5. peer'.there => Leads(peer'.due, y, End(msgs), Positions, Stream(msgs))
      BY <2>4, <3>1 DEF Reading
    <3> QED BY <3>3, <3>4, <3>5 DEF Incomplete, Reading
  <2> QED BY <2>4, <2>5 DEF Received, MessagesInOrder
<1>6. ASSUME PeerPings \/ PeerMisbehaves PROVE Received'
  <2>1. PICK f \in Extra : Delivers(f, TRUE)
    BY <1>6 DEF PeerPings, PeerMisbehaves, Extra, Long
  <2>2. f \in Frames /\ f.op \notin Data \cup {"continuation"}
    BY ExtraTyped DEF Data
  <2>3. peer' = [peer EXCEPT !.extras = @ + 1]
    BY <1>6 DEF PeerPings, PeerMisbehaves
  <2>4. peer'.there = peer.there /\ peer'.due = peer.due
    BY <1>0, <2>3 DEF PeerTypes
  <2>5. /\ given' = given /\ posted' = posted /\ call' = call /\ sock' = sock
        /\ message' = message
    BY <1>6 DEF PeerPings, PeerMisbehaves, ours
  <2> QED BY <2>1, <2>2, <2>4, <2>5, ReceivedControl
<1>7. ASSUME PeerCloses PROVE Received'
  <2>1. PICK code \in CloseCodes :
              /\ Delivers(PeerFrame("close", TRUE, code), TRUE)
              /\ peer' = [peer EXCEPT !.code = {code}]
    BY <1>7 DEF PeerCloses
  <2>2. PICK f : f = PeerFrame("close", TRUE, code)
    OBVIOUS
  <2>3. f \in Frames /\ f.op \notin Data \cup {"continuation"}
    <3>1. code \in Bytes
      BY MessageFields
    <3> QED BY <2>2, <3>1, CloseTyped DEF Data
  <2>4. peer'.there = peer.there /\ peer'.due = peer.due
    BY <1>0, <2>1 DEF PeerTypes
  <2>5. /\ given' = given /\ posted' = posted /\ call' = call /\ sock' = sock
        /\ message' = message
    BY <1>7 DEF PeerCloses, ours
  <2>6. Delivers(f, TRUE)
    BY <2>1, <2>2
  <2> QED BY <2>3, <2>4, <2>5, <2>6, ReceivedControl
<1>8. ASSUME PeerTakes PROVE Received'
  <2>1. PICK f \in Frames : TookRefused(f) \/ TookData(f) \/ TookClose(f) \/ TookOther(f)
    BY <1>8, TakesFrame
  <2>2. /\ given' = given /\ posted' = posted /\ call' = call /\ sock' = sock
        /\ message' = message
    BY <1>8 DEF PeerTakes, ours
  <2>3. peer'.there => peer.there /\ peer'.due = peer.due
    BY <1>0, <2>1 DEF TookRefused, TookData, TookClose, TookOther, PeerTypes
  <2>4. CASE toUs' = toUs
    BY <2>2, <2>3, <2>4, ReceivedSame DEF Received
  <2>5. CASE toUs' # toUs
    <3>1. PICK g \in Frames : g.op \in {"close", "pong"} /\ Delivers(g, TRUE)
      BY <2>1, <2>5 DEF TookRefused, TookData, TookClose, TookOther
    <3>2. g.op \notin Data \cup {"continuation"}
      BY <3>1 DEF Data
    <3> QED BY <2>2, <2>3, <3>1, <3>2, ReceivedControl
  <2> QED BY <2>4, <2>5
<1>9. ASSUME PeerLeaves PROVE Received'
  <2>1. given' = given /\ posted' = posted /\ call' = call /\ sock' = sock /\ sock # "open"
    BY <1>9 DEF PeerLeaves, ours
  <2> QED BY <2>1, ReceivedSame DEF Received
<1>10. ASSUME PeerDies PROVE Received'
  <2>1. /\ given' = given /\ posted' = posted /\ call' = call /\ sock' = sock
        /\ message' = message
    BY <1>10 DEF PeerDies, ours
  <2>2. ~peer'.there
    BY <1>0, <1>10 DEF PeerDies, PeerTypes
  <2>3. CASE toUs' = toUs
    BY <2>1, <2>2, <2>3, ReceivedSame DEF Received
  <2>4. CASE toUs' = <<>>
    <3>1. ASSUME sock = "open" PROVE Incomplete'
      <4>1. PICK msgs \in Seq(PeerMessages), x \in Positions, y \in Positions : Reading(msgs, x, y)
        BY <3>1 DEF Received, Incomplete
      <4>2. Leads(toUs', x, x, Positions, Stream(msgs))
        BY <2>4, LeadsNone
      <4>3. Posts(msgs)' /\ Receives(x, msgs)'
        BY <2>1, <4>1 DEF Reading, Posts, Receives
      <4> QED BY <2>2, <4>2, <4>3 DEF Incomplete, Reading
    <3> QED BY <2>1, <3>1 DEF Received, MessagesInOrder
  <2> QED BY <1>10, <2>3, <2>4 DEF PeerDies
<1> QED BY <1>1, <1>2, <1>3, <1>4, <1>5, <1>6, <1>7, <1>8, <1>9, <1>10, ReceivesInOrder, PostsInOrder
        DEF WsNext, Peer

---------------------------------------------------------------------------

Invariant == Typed /\ Sending /\ Echoing /\ Ordered /\ Received

\* The invariant.
LEMMA Invariance == ASSUME MessagesOK PROVE WsSpec => []Invariant
<1>1. WsInit => Invariant
  BY InitTyped, InitEchoing, InitOrdered, InitReceived DEF Invariant
<1>2. Invariant /\ [WsNext]_wsVars => Invariant'
  BY NextTyped, NextSending, NextEchoing, NextOrdered, NextReceived DEF Invariant
<1> QED BY <1>1, <1>2, PTL DEF WsSpec

(* The types of the message layer: every frame on its way is masked as its *)
(* mask says, and nothing but opcodes and bytes is collected.              *)
THEOREM TypeCorrect == ASSUME MessagesOK PROVE WsSpec => []Typed
<1>1. Invariant => Typed
  BY DEF Invariant
<1> QED BY <1>1, Invariance, PTL

(* However the peer cuts its messages, whatever it puts between the        *)
(* fragments, wherever receive() gives one up, and whether the peer dies:  *)
(* onReceived has the messages, whole, in order and without a gap.         *)
THEOREM ReceivedInOrder == ASSUME MessagesOK PROVE WsSpec => []MessagesInOrder
<1>1. Invariant => MessagesInOrder
  BY DEF Invariant, Received
<1> QED BY <1>1, Invariance, PTL

(* However long the messages of send() are, whatever receive() writes      *)
(* between them, and at whatever frame a write gives up: the peer has the  *)
(* messages that were sent, whole, in order and unmasked, and nothing of   *)
(* one that was not, unless the write gave up inside a frame; and then it  *)
(* has a beginning of them, and what it misreads.                          *)
THEOREM DeliveredInOrder == ASSUME MessagesOK PROVE WsSpec => []SentInOrder
<1>1. Invariant => SentInOrder
  BY OrderedImplies DEF Invariant
<1> QED BY <1>1, Invariance, PTL

(* The code in receive()'s close frame is the one the peer sent.           *)
THEOREM CodeEchoed == ASSUME MessagesOK PROVE WsSpec => []CloseEchoed
<1>1. Invariant => CloseEchoed
  BY EchoingImplies DEF Invariant
<1> QED BY <1>1, Invariance, PTL

---------------------------------------------------------------------------
(***************************************************************************)
(* The functions of Strings, which the web socket takes its URIs apart     *)
(* with and the rest of the library its texts, for texts of any length:    *)
(* UTF-8, url_decode, html_decode, split and replace, and the functions    *)
(* that take a URI apart.                                                  *)
(***************************************************************************)

---------------------------------------------------------------------------
(***************************************************************************)
(* UTF-8, for texts of any length.  The argument: as long as the validator *)
(* has found nothing wrong, it expects as many bytes as the last leading   *)
(* byte asks for, less those that have followed.                           *)
(***************************************************************************)

\* What is_valid_utf8 expects after one more byte.
Utf8Step(numBytes, byte) ==
    CASE numBytes < 0 -> -1
      [] numBytes = 0 -> ExpectedAfter(byte)
      [] OTHER        -> IF Continuation(byte) THEN numBytes - 1 ELSE -1

(* The elements of a sequence, and the bytes of a text.                    *)
LEMMA ElementsOf ==
    ASSUME NEW S, NEW s \in Seq(S)
    PROVE  /\ Len(s) \in Nat /\ DOMAIN s = 1..Len(s)
           /\ \A k \in 1..Len(s) : s[k] \in S
OBVIOUS

\* The same of bytes.
LEMMA BytesOf ==
    ASSUME NEW data \in Seq(0..255)
    PROVE  /\ Len(data) \in Nat /\ DOMAIN data = 1..Len(data)
           /\ \A k \in 1..Len(data) : data[k] \in 0..255
<1> DEFINE B == 0..255
<1>1. data \in Seq(B)
  OBVIOUS
<1> HIDE DEF B
<1>2. /\ Len(data) \in Nat /\ DOMAIN data = 1..Len(data)
      /\ \A k \in 1..Len(data) : data[k] \in B
  BY <1>1, ElementsOf
<1> QED BY <1>2 DEF B

\* it is what the fold makes of the bytes at the places of each set.
Utf8Folds(it, S, data) ==
    it = [s \in SUBSET S |-> IF s = {} THEN 0 ELSE Utf8Step(it[s \ {Max(s)}], data[Max(s)])]

(* The greatest number up to n is n.                                       *)
LEMMA Greatest ==
    ASSUME NEW n \in Nat, NEW s \in SUBSET (1..n), n \in s
    PROVE  Max(s) = n
<1>1. \A x \in s : x \in Int /\ n >= x
  OBVIOUS
<1>2. \A x \in s : (\A y \in s : x >= y) <=> x = n
  BY <1>1
<1>3. Max(s) = CHOOSE x \in s : \A y \in s : x >= y
  BY DEF Max
<1>4. /\ (CHOOSE x \in s : \A y \in s : x >= y) \in s
      /\ \A y \in s : (CHOOSE x \in s : \A z \in s : x >= z) >= y
  BY <1>1, Zenon
<1> QED BY <1>2, <1>3, <1>4

(* There is such a function.                                               *)
LEMMA Utf8FoldExists ==
    ASSUME NEW n \in Nat, NEW data PROVE \E it : Utf8Folds(it, 1..n, data)
<1> DEFINE T == {k \in Nat : ~ \E it : Utf8Folds(it, 1..k, data)}
<1> SUFFICES ASSUME T # {} PROVE FALSE
  OBVIOUS
<1>1. PICK k \in T : \A l \in T : k <= l
  BY LeastNumber
<1>2. k # 0
  <2>1. Utf8Folds([s \in SUBSET {} |-> 0], {}, data)
    BY DEF Utf8Folds
  <2>2. 1..0 = {}
    OBVIOUS
  <2> QED BY <2>1, <2>2
<1>3. PICK f : Utf8Folds(f, 1..(k - 1), data)
  <2>1. k - 1 \in Nat /\ k - 1 \notin T
    BY <1>1, <1>2
  <2> QED BY <2>1
<1> DEFINE g == [s \in SUBSET (1..k) |->
                    IF k \in s THEN Utf8Step(f[s \ {k}], data[k]) ELSE f[s]]
<1>4. k \in Nat /\ k \in 1..k /\ 1..(k - 1) = (1..k) \ {k}
  BY <1>1, <1>2
<1>5. \A s \in SUBSET (1..(k - 1)) :
          f[s] = IF s = {} THEN 0 ELSE Utf8Step(f[s \ {Max(s)}], data[Max(s)])
  BY <1>3, Zenon DEF Utf8Folds
<1>6. ASSUME NEW s \in SUBSET (1..k)
      PROVE  g[s] = IF s = {} THEN 0 ELSE Utf8Step(g[s \ {Max(s)}], data[Max(s)])
  <2>1. CASE k \in s
    <3>1. Max(s) = k
      BY <1>4, <2>1, Greatest
    <3>2. s \ {k} \in SUBSET (1..k) /\ k \notin s \ {k} /\ s # {}
      BY <2>1
    <3>3. g[s \ {k}] = f[s \ {k}]
      BY <3>2, Zenon
    <3>4. g[s] = Utf8Step(f[s \ {k}], data[k])
      BY <2>1, Zenon
    <3> HIDE DEF g
    <3> QED BY <3>1, <3>2, <3>3, <3>4
  <2>2. CASE k \notin s
    <3>1. s \in SUBSET (1..(k - 1)) /\ s \ {Max(s)} \in SUBSET (1..k) /\ k \notin s \ {Max(s)}
      BY <1>4, <2>2
    <3>2. g[s] = f[s] /\ g[s \ {Max(s)}] = f[s \ {Max(s)}]
      BY <2>2, <3>1, Zenon
    <3> HIDE DEF g
    <3> QED BY <1>5, <3>1, <3>2
  <2> QED BY <2>1, <2>2
<1>7. Utf8Folds(g, 1..k, data)
  <2>1. g = [s \in SUBSET (1..k) |-> g[s]]
    OBVIOUS
  <2> HIDE DEF g
  <2> QED BY <1>6, <2>1 DEF Utf8Folds
<1> QED BY <1>1, <1>7

\* expected[k] is what is expected after k bytes.
Utf8States(data, expected) ==
    /\ expected[0] = 0
    /\ \A k \in 1..Len(data) : expected[k] = Utf8Step(expected[k - 1], data[k])

(* The bytes are accepted when nothing is expected behind the last.        *)
LEMMA Utf8Accepts ==
    ASSUME NEW data \in Seq(0..255)
    PROVE  \E expected : /\ Utf8States(data, expected)
                         /\ IsValidUtf8(data) <=> expected[Len(data)] = 0
<1> DEFINE n == Len(data)
           it == CHOOSE f : Utf8Folds(f, DOMAIN data, data)
           expected == [k \in 0..n |-> it[1..k]]
<1>1. n \in Nat /\ DOMAIN data = 1..n
  OBVIOUS
<1>2. IsValidUtf8(data) <=> it[DOMAIN data] = 0
  BY Zenon DEF IsValidUtf8, FoldLeft, MapThenFoldSet, Utf8Folds, Utf8Step
<1>3. Utf8Folds(it, 1..n, data)
  <2>1. \E f : Utf8Folds(f, DOMAIN data, data)
    BY <1>1, Utf8FoldExists
  <2>2. Utf8Folds(it, DOMAIN data, data)
    BY <2>1, Zenon
  <2> HIDE DEF it, n
  <2> QED BY <1>1, <2>2
<1> HIDE DEF it, n
<1>4. \A s \in SUBSET (1..n) :
          it[s] = IF s = {} THEN 0 ELSE Utf8Step(it[s \ {Max(s)}], data[Max(s)])
  BY <1>3, Zenon DEF Utf8Folds
<1>5. expected[0] = 0
  <2>1. 1..0 = {} /\ 0 \in 0..n
    BY <1>1
  <2>2. expected[0] = it[1..0]
    BY <2>1
  <2> HIDE DEF expected
  <2> QED BY <1>4, <2>1, <2>2
<1>6. ASSUME NEW k \in 1..n PROVE expected[k] = Utf8Step(expected[k - 1], data[k])
  <2>1. /\ k \in 0..n /\ k - 1 \in 0..n /\ 1..k \in SUBSET (1..n) /\ k \in 1..k /\ k \in Nat
        /\ (1..k) \ {k} = 1..(k - 1)
    BY <1>1
  <2>2. Max(1..k) = k
    BY <2>1, Greatest
  <2>3. expected[k] = it[1..k] /\ expected[k - 1] = it[1..(k - 1)]
    BY <2>1
  <2> HIDE DEF expected
  <2> QED BY <1>4, <2>1, <2>2, <2>3
<1>7. IsValidUtf8(data) <=> expected[n] = 0
  <2>1. expected[n] = it[1..n]
    BY <1>1
  <2> HIDE DEF expected
  <2> QED BY <1>1, <1>2, <2>1
<1> HIDE DEF expected
<1>8. Utf8States(data, expected)
  BY <1>5, <1>6 DEF Utf8States, n
<1> QED BY <1>7, <1>8 DEF n

---------------------------------------------------------------------------

\* No byte between the two begins a character.
Followed(data, i, k) == i \in LeadBytes(data) /\ \A j \in (i + 1)..k : j \notin LeadBytes(data)

(* What NextAfter is.                                                      *)
LEMMA NextLeadIs ==
    ASSUME NEW data \in Seq(0..255), NEW i \in LeadBytes(data)
    PROVE  /\ NextAfter(data, i) \in (i + 1)..(Len(data) + 1)
           /\ Followed(data, i, NextAfter(data, i) - 1)
           /\ NextAfter(data, i) \in LeadBytes(data) \/ NextAfter(data, i) = Len(data) + 1
<1> DEFINE S == {j \in LeadBytes(data) : j > i} \cup {Len(data) + 1}
<1>1. Len(data) \in Nat /\ DOMAIN data = 1..Len(data) /\ i \in 1..Len(data)
  BY DEF LeadBytes
<1>2. S \subseteq (i + 1)..(Len(data) + 1) /\ S \subseteq Nat /\ S # {}
  BY <1>1 DEF LeadBytes
<1>3. PICK m \in S : \A j \in S : m <= j
  <2> HIDE DEF S
  <2> QED BY <1>2, LeastNumber
<1>4. NextAfter(data, i) \in S /\ \A j \in S : NextAfter(data, i) <= j
  <2>1. NextAfter(data, i) = Min(S)
    BY DEF NextAfter
  <2> HIDE DEF S
  <2> QED BY <1>3, <2>1 DEF Min
<1> DEFINE next == NextAfter(data, i)
<1>5. next \in (i + 1)..(Len(data) + 1) /\ (next \in LeadBytes(data) \/ next = Len(data) + 1)
  BY <1>2, <1>4
<1>6. ASSUME NEW j \in (i + 1)..(next - 1), j \in LeadBytes(data) PROVE FALSE
  <2>1. j \in S /\ j < next /\ j \in Int /\ next \in Int
    BY <1>1, <1>5, <1>6
  <2> HIDE DEF S, next
  <2> QED BY <1>4, <2>1 DEF next
<1> QED BY <1>5, <1>6 DEF Followed

(* What a byte makes the validator expect.                                 *)
LEMMA ExpectedIs ==
    ASSUME NEW byte \in 0..255
    PROVE  /\ ExpectedAfter(byte) \in Int
           /\ Continuation(byte) => ExpectedAfter(byte) = -1
BY DEF ExpectedAfter, Continuation

(* The step of the validator, case by case.                                *)
LEMMA StepIs ==
    ASSUME NEW e \in Int, NEW byte \in 0..255
    PROVE  /\ Utf8Step(e, byte) \in Int
           /\ e < 0 => Utf8Step(e, byte) < 0
           /\ e = 0 => Utf8Step(e, byte) = ExpectedAfter(byte)
           /\ e > 0 /\ Continuation(byte) => Utf8Step(e, byte) = e - 1
           /\ e > 0 /\ ~Continuation(byte) => Utf8Step(e, byte) < 0
           /\ e = 0 /\ Continuation(byte) => Utf8Step(e, byte) < 0
BY ExpectedIs DEF Utf8Step

(* A number is always expected.                                            *)
LEMMA StatesType ==
    ASSUME NEW data \in Seq(0..255), NEW expected, Utf8States(data, expected)
    PROVE  \A k \in 0..Len(data) : expected[k] \in Int
<1> DEFINE T == {k \in 0..Len(data) : expected[k] \notin Int}
<1> SUFFICES ASSUME T # {} PROVE FALSE
  OBVIOUS
<1>1. Len(data) \in Nat /\ \A k \in 1..Len(data) : data[k] \in 0..255
  BY BytesOf
<1>2. PICK k \in T : \A l \in T : k <= l
  <2>1. T \subseteq Nat
    OBVIOUS
  <2> HIDE DEF T
  <2> QED BY <2>1, LeastNumber
<1>3. k # 0
  BY DEF Utf8States
<1>4. k \in 1..Len(data) /\ k - 1 \in 0..Len(data) /\ k - 1 \notin T
  BY <1>1, <1>2, <1>3
<1>5. expected[k - 1] \in Int
  BY <1>4
<1>6. expected[k] \in Int
  <2>1. expected[k] = Utf8Step(expected[k - 1], data[k]) /\ data[k] \in 0..255
    BY <1>1, <1>4 DEF Utf8States
  <2>2. Utf8Step(expected[k - 1], data[k]) \in Int
    BY <1>5, <2>1, StepIs
  <2> QED BY <2>1, <2>2
<1> QED BY <1>2, <1>6

(* Once something is wrong it stays so.                                    *)
LEMMA WrongStays ==
    ASSUME NEW data \in Seq(0..255), NEW expected, Utf8States(data, expected),
           expected[Len(data)] >= 0
    PROVE  \A k \in 0..Len(data) : expected[k] >= 0
<1>1. /\ Len(data) \in Nat /\ \A k \in 1..Len(data) : data[k] \in 0..255
      /\ \A k \in 0..Len(data) : expected[k] \in Int
  BY StatesType, BytesOf
<1> DEFINE T == {m \in 0..Len(data) : ~(expected[Len(data) - m] >= 0)}
<1>2. T = {}
  <2> SUFFICES ASSUME T # {} PROVE FALSE
    OBVIOUS
  <2>1. PICK m \in T : \A l \in T : m <= l
    <3>1. T \subseteq Nat
      OBVIOUS
    <3> HIDE DEF T
    <3> QED BY <3>1, LeastNumber
  <2>2. m # 0
    BY <1>1, <2>1
  <2>3. m \in 0..Len(data) /\ m - 1 \in 0..Len(data)
    BY <1>1, <2>1, <2>2
  <2>4. m - 1 \notin T
    <3> HIDE DEF T
    <3> QED BY <2>1, <2>3
  <2>5. expected[Len(data) - (m - 1)] >= 0
    BY <2>3, <2>4
  <2> DEFINE k == Len(data) - (m - 1)
  <2>6. k \in 1..Len(data) /\ k - 1 = Len(data) - m /\ k - 1 \in 0..Len(data)
    BY <1>1, <2>2, <2>3
  <2>7. ~(expected[k - 1] >= 0)
    BY <2>1, <2>6
  <2>8. expected[k] >= 0
    BY <2>5
  <2> HIDE DEF k, T
  <2>9. expected[k] = Utf8Step(expected[k - 1], data[k])
    BY <2>6 DEF Utf8States
  <2>10. expected[k - 1] \in Int /\ data[k] \in 0..255
    BY <1>1, <2>6
  <2>11. expected[k] < 0
    <3>1. expected[k - 1] < 0
      BY <2>7, <2>10
    <3> QED BY <2>9, <2>10, <3>1, StepIs
  <2>12. expected[k] \in Int
    BY <1>1, <2>6
  <2> QED BY <2>8, <2>11, <2>12
<1>3. ASSUME NEW k \in 0..Len(data) PROVE expected[k] >= 0
  <2>1. Len(data) - k \in 0..Len(data) /\ Len(data) - (Len(data) - k) = k
    BY <1>1
  <2> QED BY <1>2, <2>1
<1> QED BY <1>3

(* In a character, each byte lowers what is expected.                      *)
LEMMA Counted ==
    ASSUME NEW data \in Seq(0..255), NEW expected, Utf8States(data, expected),
           NEW i \in LeadBytes(data), expected[i] = ExpectedAfter(data[i]),
           NEW k \in i..Len(data), Followed(data, i, k),
           \A j \in i..(k - 1) : ExpectedAfter(data[i]) - (j - i) > 0
    PROVE  expected[k] = ExpectedAfter(data[i]) - (k - i)
<1>1. /\ Len(data) \in Nat /\ \A l \in 1..Len(data) : data[l] \in 0..255
      /\ DOMAIN data = 1..Len(data) /\ i \in 1..Len(data)
  BY BytesOf DEF LeadBytes
<1> DEFINE E == ExpectedAfter(data[i])
           T == {m \in 0..(k - i) : expected[i + m] # E - m}
<1>2. E \in Int
  <2>1. data[i] \in 0..255
    BY <1>1
  <2> QED BY <2>1, ExpectedIs
<1>3. T = {}
  <2> SUFFICES ASSUME T # {} PROVE FALSE
    OBVIOUS
  <2>1. PICK m \in T : \A l \in T : m <= l
    <3>1. T \subseteq Nat
      OBVIOUS
    <3> HIDE DEF T
    <3> QED BY <3>1, LeastNumber
  <2>2. m # 0
    BY <1>1, <1>2
  <2>3. m \in 0..(k - i) /\ m - 1 \in 0..(k - i) /\ m - 1 \notin T
    BY <1>1, <2>1, <2>2
  <2>4. expected[i + (m - 1)] = E - (m - 1)
    BY <2>3
  <2> DEFINE l == i + m
  <2>5. l \in 1..Len(data) /\ l - 1 = i + (m - 1) /\ l \in (i + 1)..k /\ l - 1 \in i..(k - 1)
    BY <1>1, <2>2, <2>3
  <2>6. expected[l] # E - m
    BY <2>1
  <2> HIDE DEF l, T
  <2>7. Continuation(data[l])
    BY <1>1, <2>5 DEF Followed, LeadBytes
  <2>8. E - (m - 1) > 0
    <3>1. E - ((l - 1) - i) > 0
      BY <2>5
    <3> QED BY <1>1, <2>3, <2>5, <3>1
  <2>9. expected[l] = Utf8Step(E - (m - 1), data[l])
    BY <2>4, <2>5 DEF Utf8States
  <2>10. E - (m - 1) \in Int /\ data[l] \in 0..255
    BY <1>1, <1>2, <2>3, <2>5
  <2>11. expected[l] = (E - (m - 1)) - 1
    BY <2>7, <2>8, <2>9, <2>10, StepIs
  <2> HIDE DEF E
  <2> QED BY <1>2, <2>3, <2>6, <2>11
<1>4. k - i \in 0..(k - i) /\ i + (k - i) = k
  BY <1>1
<1> QED BY <1>3, <1>4

\* Every character has the length its leading byte asks for.
Complete(data) ==
    /\ data # <<>> => 1 \in LeadBytes(data)
    /\ \A i \in LeadBytes(data) : NextAfter(data, i) - i - 1 = ExpectedAfter(data[i])

LEMMA CompleteIs == ASSUME NEW data PROVE Utf8Shaped(data) <=> Complete(data)
BY DEF Utf8Shaped, Complete

(* What the validator accepts is complete.                                 *)
LEMMA AcceptedComplete ==
    ASSUME NEW data \in Seq(0..255), NEW expected, Utf8States(data, expected),
           expected[Len(data)] = 0
    PROVE  Complete(data)
<1>1. /\ Len(data) \in Nat /\ \A l \in 1..Len(data) : data[l] \in 0..255
      /\ DOMAIN data = 1..Len(data)
  BY BytesOf
<1>2. \A k \in 0..Len(data) : expected[k] \in Int /\ expected[k] >= 0
  BY StatesType, WrongStays
<1>3. ASSUME NEW k \in 1..Len(data)
      PROVE  /\ expected[k] = Utf8Step(expected[k - 1], data[k]) /\ data[k] \in 0..255
             /\ expected[k - 1] \in Int /\ expected[k - 1] >= 0
             /\ expected[k] \in Int /\ expected[k] >= 0
  <2>1. k - 1 \in 0..Len(data) /\ k \in 0..Len(data)
    BY <1>1
  <2> QED BY <1>1, <1>2, <2>1 DEF Utf8States
<1>4. ASSUME NEW i \in LeadBytes(data)
      PROVE  expected[i - 1] = 0 /\ expected[i] = ExpectedAfter(data[i])
  <2>1. i \in 1..Len(data) /\ ~Continuation(data[i])
    BY <1>1 DEF LeadBytes
  <2>2. ASSUME expected[i - 1] > 0 PROVE FALSE
    <3>1. Utf8Step(expected[i - 1], data[i]) < 0
      BY <1>3, <2>1, <2>2, StepIs
    <3> QED BY <1>3, <2>1, <3>1
  <2>3. expected[i - 1] = 0
    BY <1>3, <2>1, <2>2
  <2>4. expected[i] = Utf8Step(expected[i - 1], data[i])
    BY <1>3, <2>1
  <2> QED BY <2>3, <2>4 DEF Utf8Step
<1>5. ASSUME NEW k \in 1..Len(data), k \notin LeadBytes(data)
      PROVE  expected[k - 1] > 0
  <2>1. Continuation(data[k])
    BY <1>1, <1>5 DEF LeadBytes
  <2>2. ASSUME expected[k - 1] = 0 PROVE FALSE
    <3>1. Utf8Step(expected[k - 1], data[k]) < 0
      BY <1>3, <2>1, <2>2, StepIs
    <3> QED BY <1>3, <3>1
  <2> QED BY <1>3, <2>2
<1>6. data # <<>> => 1 \in LeadBytes(data)
  <2> SUFFICES ASSUME data # <<>>, 1 \notin LeadBytes(data) PROVE FALSE
    OBVIOUS
  <2>1. 1 \in 1..Len(data)
    BY <1>1
  <2>2. expected[1 - 1] > 0
    BY <1>5, <2>1
  <2>3. expected[1 - 1] = 0
    BY DEF Utf8States
  <2> QED BY <2>2, <2>3
<1>7. ASSUME NEW i \in LeadBytes(data)
      PROVE  NextAfter(data, i) - i - 1 = ExpectedAfter(data[i])
  <2> DEFINE last == NextAfter(data, i) - 1
             E == ExpectedAfter(data[i])
  <2>1. i \in 1..Len(data)
    BY <1>1 DEF LeadBytes
  <2>2. /\ last \in i..Len(data) /\ Followed(data, i, last)
        /\ NextAfter(data, i) = last + 1
        /\ last + 1 \in LeadBytes(data) \/ last = Len(data)
    BY <1>1, <2>1, NextLeadIs
  <2>3. E \in Int
    <3>1. data[i] \in 0..255
      BY <1>1, <2>1
    <3> QED BY <3>1, ExpectedIs
  <2> HIDE DEF last
  <2>4. \A k \in i..last : expected[k] = E - (k - i)
    <3> DEFINE T == {k \in i..last : expected[k] # E - (k - i)}
    <3> SUFFICES ASSUME T # {} PROVE FALSE
      OBVIOUS
    <3>1. PICK k \in T : \A l \in T : k <= l
      <4>1. T \subseteq Nat
        BY <2>1
      <4> HIDE DEF T
      <4> QED BY <4>1, LeastNumber
    <3>2. k \in i..last /\ expected[k] # E - (k - i)
      OBVIOUS
    <3>3. \A j \in i..(k - 1) : expected[j] = E - (j - i)
      <4> TAKE j \in i..(k - 1)
      <4>1. j \in i..last /\ ~(k <= j)
        BY <2>1, <2>2, <3>2
      <4> QED BY <3>1, <4>1
    <3>4. Followed(data, i, k)
      BY <2>1, <2>2, <3>2 DEF Followed
    <3>5. ASSUME NEW j \in i..(k - 1) PROVE E - (j - i) > 0
      <4>1. j + 1 \in (i + 1)..k /\ j + 1 \in 1..Len(data) /\ (j + 1) - 1 = j
        BY <2>1, <2>2, <3>2
      <4>2. j + 1 \notin LeadBytes(data)
        BY <3>4, <4>1 DEF Followed
      <4>3. expected[j] > 0
        BY <1>5, <4>1, <4>2
      <4> QED BY <3>3, <4>3
    <3>6. k \in i..Len(data)
      BY <2>1, <2>2, <3>2
    <3>7. expected[i] = E
      BY <1>4
    <3>8. expected[k] = E - (k - i)
      BY <3>4, <3>5, <3>6, <3>7, Counted
    <3> QED BY <3>2, <3>8
  <2>5. expected[last] = 0
    <3>1. CASE last = Len(data)
      BY <3>1
    <3>2. CASE last + 1 \in LeadBytes(data)
      <4>1. (last + 1) - 1 = last
        BY <2>1, <2>2
      <4> QED BY <1>4, <3>2, <4>1
    <3> QED BY <2>2, <3>1, <3>2
  <2>6. E - (last - i) = 0
    BY <2>1, <2>2, <2>4, <2>5
  <2> HIDE DEF E
  <2> QED BY <2>1, <2>2, <2>3, <2>6 DEF E
<1> QED BY <1>6, <1>7 DEF Complete

(* The last leading byte up to a place.                                    *)
LEMMA LastLead ==
    ASSUME NEW data \in Seq(0..255), 1 \in LeadBytes(data), NEW k \in 1..Len(data)
    PROVE  \E i \in LeadBytes(data) : i \in 1..k /\ Followed(data, i, k)
<1>1. Len(data) \in Nat /\ DOMAIN data = 1..Len(data)
  BY BytesOf
<1> DEFINE T == {m \in 0..(k - 1) : k - m \in LeadBytes(data)}
<1>2. k - 1 \in T
  BY <1>1
<1>3. PICK m \in T : \A l \in T : m <= l
  <2>1. T \subseteq Nat
    OBVIOUS
  <2> HIDE DEF T
  <2> QED BY <1>2, <2>1, LeastNumber
<1>4. m \in 0..(k - 1) /\ k - m \in LeadBytes(data) /\ k - m \in 1..k
  BY <1>1
<1>5. ASSUME NEW j \in (k - m + 1)..k, j \in LeadBytes(data) PROVE FALSE
  <2>1. k - j \in 0..(k - 1) /\ k - (k - j) = j /\ ~(m <= k - j)
    BY <1>1, <1>4
  <2>2. k - j \in T
    BY <1>5, <2>1
  <2> QED BY <1>3, <2>1, <2>2
<1> QED BY <1>4, <1>5 DEF Followed

(* The validator accepts what is complete.                                 *)
LEMMA CompleteAccepted ==
    ASSUME NEW data \in Seq(0..255), NEW expected, Utf8States(data, expected),
           Complete(data)
    PROVE  expected[Len(data)] = 0
<1>1. /\ Len(data) \in Nat /\ \A l \in 1..Len(data) : data[l] \in 0..255
      /\ DOMAIN data = 1..Len(data)
  BY BytesOf
<1>2. CASE Len(data) = 0
  BY <1>2 DEF Utf8States
<1>3. CASE Len(data) # 0
  <2>1. 1 \in LeadBytes(data)
    BY <1>1, <1>3 DEF Complete
  <2>2. ASSUME NEW i \in LeadBytes(data), expected[i] = ExpectedAfter(data[i]),
               NEW k \in i..(NextAfter(data, i) - 1)
        PROVE  expected[k] = ExpectedAfter(data[i]) - (k - i)
    <3>1. /\ NextAfter(data, i) \in (i + 1)..(Len(data) + 1) /\ i \in 1..Len(data)
          /\ Followed(data, i, NextAfter(data, i) - 1)
      BY <1>1, NextLeadIs DEF LeadBytes
    <3>2. NextAfter(data, i) - i - 1 = ExpectedAfter(data[i])
      BY DEF Complete
    <3>3. Followed(data, i, k) /\ k \in i..Len(data)
      BY <1>1, <3>1 DEF Followed
    <3>4. \A j \in i..(k - 1) : ExpectedAfter(data[i]) - (j - i) > 0
      BY <1>1, <3>1, <3>2
    <3> QED BY <2>2, <3>3, <3>4, Counted
  <2>3. \A i \in LeadBytes(data) : expected[i] = ExpectedAfter(data[i])
    <3> DEFINE T == {i \in LeadBytes(data) : expected[i] # ExpectedAfter(data[i])}
    <3> SUFFICES ASSUME T # {} PROVE FALSE
      OBVIOUS
    <3>1. PICK i \in T : \A l \in T : i <= l
      <4>1. T \subseteq Nat
        BY <1>1 DEF LeadBytes
      <4> HIDE DEF T
      <4> QED BY <4>1, LeastNumber
    <3>2. i \in LeadBytes(data) /\ i \in 1..Len(data) /\ data[i] \in 0..255
      BY <1>1 DEF LeadBytes
    <3>3. expected[i] = Utf8Step(expected[i - 1], data[i])
      BY <3>2 DEF Utf8States
    <3>4. expected[i - 1] = 0
      <4>1. CASE i = 1
        BY <4>1 DEF Utf8States
      <4>2. CASE i # 1
        <5>1. i - 1 \in 1..Len(data)
          BY <1>1, <3>2, <4>2
        <5>2. PICK l \in LeadBytes(data) : l \in 1..(i - 1) /\ Followed(data, l, i - 1)
          BY <2>1, <5>1, LastLead
        <5>3. expected[l] = ExpectedAfter(data[l])
          <6>1. ~(i <= l)
            BY <3>2, <5>2
          <6> QED BY <3>1, <6>1
        <5>4. NextAfter(data, l) = i
          <6>1. /\ NextAfter(data, l) \in (l + 1)..(Len(data) + 1)
                /\ Followed(data, l, NextAfter(data, l) - 1)
                /\ NextAfter(data, l) \in LeadBytes(data) \/ NextAfter(data, l) = Len(data) + 1
            BY NextLeadIs
          <6>2. NextAfter(data, l) <= i
            BY <1>1, <3>2, <5>2, <6>1 DEF Followed
          <6>3. ~(NextAfter(data, l) < i)
            BY <1>1, <3>2, <5>2, <6>1 DEF Followed
          <6> QED BY <1>1, <3>2, <5>2, <6>1, <6>2, <6>3
        <5>5. expected[i - 1] = ExpectedAfter(data[l]) - (i - 1 - l)
          BY <2>2, <3>2, <5>2, <5>3, <5>4
        <5>6. i - l - 1 = ExpectedAfter(data[l])
          BY <5>4 DEF Complete
        <5> QED BY <3>2, <5>2, <5>5, <5>6
      <4> QED BY <4>1, <4>2
    <3>5. expected[i] = ExpectedAfter(data[i])
      BY <3>3, <3>4 DEF Utf8Step
    <3> QED BY <3>5
  <2>4. PICK l \in LeadBytes(data) : l \in 1..Len(data) /\ Followed(data, l, Len(data))
    <3>1. Len(data) \in 1..Len(data)
      BY <1>1, <1>3
    <3> QED BY <2>1, <3>1, LastLead
  <2>5. NextAfter(data, l) = Len(data) + 1
    <3>1. /\ NextAfter(data, l) \in (l + 1)..(Len(data) + 1)
          /\ NextAfter(data, l) \in LeadBytes(data) \/ NextAfter(data, l) = Len(data) + 1
      BY NextLeadIs
    <3> QED BY <1>1, <2>4, <3>1 DEF Followed
  <2>6. expected[Len(data)] = ExpectedAfter(data[l]) - (Len(data) - l)
    BY <1>1, <2>2, <2>3, <2>4, <2>5
  <2>7. Len(data) - l = ExpectedAfter(data[l])
    <3>1. (Len(data) + 1) - l - 1 = ExpectedAfter(data[l])
      BY <2>5 DEF Complete
    <3> QED BY <1>1, <2>4, <3>1
  <2> QED BY <1>1, <2>4, <2>6, <2>7
<1> QED BY <1>2, <1>3

(* string::is_valid_utf8 accepts the texts, of any length, in which every  *)
(* character is as long as its leading byte says, and no others.           *)
LEMMA Utf8Accepted ==
    \A data \in Seq(0..255) : IsValidUtf8(data) <=> Utf8Shaped(data)
<1> TAKE data \in Seq(0..255)
<1>1. PICK expected : /\ Utf8States(data, expected)
                      /\ IsValidUtf8(data) <=> expected[Len(data)] = 0
  BY Utf8Accepts
<1> QED BY <1>1, AcceptedComplete, CompleteAccepted, CompleteIs

(* A character of UTF-8 is as long as its leading byte says.               *)
LEMMA CharacterShaped ==
    ASSUME NEW c, Utf8Character(c)
    PROVE  Len(c) \in 1..4 /\ Len(c) - 1 = ExpectedAfter(c[1])
<1>1. /\ c[1] \in 0..127 => ExpectedAfter(c[1]) = 0
      /\ c[1] \in 194..223 => ExpectedAfter(c[1]) = 1
      /\ c[1] \in 224..239 => ExpectedAfter(c[1]) = 2
      /\ c[1] \in 240..244 => ExpectedAfter(c[1]) = 3
  BY DEF ExpectedAfter
<1>2. \/ Len(c) = 1 /\ c[1] \in 0..127
      \/ Len(c) = 2 /\ c[1] \in 194..223
      \/ Len(c) = 3 /\ c[1] \in 224..239
      \/ Len(c) = 4 /\ c[1] \in 240..244
  <2> DEFINE first == c[1]
  <2>1. \/ Len(c) = 1 /\ first \in 0..127
        \/ Len(c) = 2 /\ first \in 194..223
        \/ Len(c) = 3 /\ (first \in (225..239) \ {237} \/ first = 224 \/ first = 237)
        \/ Len(c) = 4 /\ (first \in 241..243 \/ first = 240 \/ first = 244)
    BY Zenon DEF Utf8Character
  <2> HIDE DEF first
  <2>2. /\ first \in (225..239) \ {237} \/ first = 224 \/ first = 237 => first \in 224..239
        /\ first \in 241..243 \/ first = 240 \/ first = 244 => first \in 240..244
    OBVIOUS
  <2> QED BY <2>1, <2>2, Zenon DEF first
<1> DEFINE first == c[1]
           n == Len(c)
           k == ExpectedAfter(first)
<1>3. /\ first \in 0..127 => k = 0
      /\ first \in 194..223 => k = 1
      /\ first \in 224..239 => k = 2
      /\ first \in 240..244 => k = 3
  BY <1>1, Zenon
<1>4. \/ n = 1 /\ first \in 0..127
      \/ n = 2 /\ first \in 194..223
      \/ n = 3 /\ first \in 224..239
      \/ n = 4 /\ first \in 240..244
  BY <1>2, Zenon
<1> HIDE DEF first, n, k
<1>5. \/ n = 1 /\ k = 0
      \/ n = 2 /\ k = 1
      \/ n = 3 /\ k = 2
      \/ n = 4 /\ k = 3
  BY <1>3, <1>4, Zenon
<1>6. n \in 1..4 /\ n - 1 = k
  BY <1>5
<1> QED BY <1>6 DEF first, n, k

(* It refuses nothing that is UTF-8.                                       *)
LEMMA Utf8Taken ==
    \A data \in Seq(0..255) : Utf8WellFormed(data) => IsValidUtf8(data)
<1> SUFFICES ASSUME NEW data \in Seq(0..255), Utf8WellFormed(data) PROVE Utf8Shaped(data)
  BY Utf8Accepted
<1>1. ASSUME NEW i \in LeadBytes(data)
      PROVE  NextAfter(data, i) - i - 1 = ExpectedAfter(data[i])
  <2> DEFINE next == NextAfter(data, i)
             c == SubSeq(data, i, next - 1)
  <2>1. /\ next \in (i + 1)..(Len(data) + 1) /\ i \in 1..Len(data)
        /\ Len(data) \in Nat
    BY NextLeadIs DEF LeadBytes
  <2>2. Utf8Character(c)
    BY DEF Utf8WellFormed
  <2> HIDE DEF next
  <2>3. Len(c) = next - i /\ c[1] = data[i]
    <3>1. /\ i \in Int /\ next - 1 \in Int /\ i <= next - 1 /\ i \in 1..Len(data)
          /\ next - 1 \in 1..Len(data) /\ (next - 1) - i + 1 = next - i /\ 1 \in 1..(next - i)
          /\ i + 1 - 1 = i
      BY <2>1
    <3>2. \A k \in i..(next - 1) : data[k] \in 0..255
      <4>1. \A k \in i..(next - 1) : k \in 1..Len(data)
        BY <2>1
      <4> DEFINE S == 0..255
      <4>2. data \in Seq(S)
        OBVIOUS
      <4> HIDE DEF S
      <4>3. \A k \in 1..Len(data) : data[k] \in S
        BY <4>2, ElementsOf
      <4> QED BY <4>1, <4>3 DEF S
    <3> QED BY <3>1, <3>2, SubSeqProperties
  <2>4. Len(c) - 1 = ExpectedAfter(c[1]) /\ Len(c) \in 1..4
    BY <2>2, CharacterShaped
  <2> HIDE DEF c
  <2>5. (next - i) - 1 = ExpectedAfter(data[i])
    BY <2>3, <2>4
  <2> QED BY <2>5 DEF next
<1> QED BY <1>1 DEF Utf8Shaped, Utf8WellFormed

(* It accepts more than that: the null character in a form that is too     *)
(* long is no UTF-8.                                                       *)
THEOREM MoreThanUtf8 == \E data \in Seq(0..255) : IsValidUtf8(data) /\ ~Utf8WellFormed(data)
<1> DEFINE data == <<192, 128>>
<1>1. data \in Seq(0..255) /\ Len(data) = 2 /\ data[1] = 192 /\ data[2] = 128
  OBVIOUS
<1>2. 1 \in LeadBytes(data)
  BY <1>1 DEF LeadBytes, Continuation
<1> HIDE DEF data
<1>3. IsValidUtf8(data)
  <2>1. PICK expected : /\ Utf8States(data, expected)
                        /\ IsValidUtf8(data) <=> expected[Len(data)] = 0
    BY <1>1, Utf8Accepts
  <2>2. /\ expected[0] = 0
        /\ expected[1] = Utf8Step(expected[0], 192)
        /\ expected[2] = Utf8Step(expected[1], 128)
    BY <1>1, <2>1 DEF Utf8States
  <2>3. Utf8Step(0, 192) = 1 /\ Utf8Step(1, 128) = 0
    BY DEF Utf8Step, ExpectedAfter, Continuation
  <2> QED BY <1>1, <2>1, <2>2, <2>3
<1>4. ~Utf8WellFormed(data)
  <2> DEFINE next == NextAfter(data, 1)
             c == SubSeq(data, 1, next - 1)
  <2>1. next \in 2..3
    <3>1. NextAfter(data, 1) \in (1 + 1)..(Len(data) + 1)
      BY <1>1, <1>2, NextLeadIs, Zenon
    <3> QED BY <1>1, <3>1
  <2> HIDE DEF next
  <2>2. c[1] = 192
    <3>1. 1 \in 1..(next - 1) /\ next - 1 \in 1..2
      BY <2>1
    <3> QED BY <1>1, <3>1
  <2> HIDE DEF c
  <2>3. ~Utf8Character(c)
    BY <2>2 DEF Utf8Character
  <2> QED BY <1>2, <2>3 DEF Utf8WellFormed, c, next
<1> QED BY <1>1, <1>3, <1>4

(* The least of some natural numbers.                                      *)
LEMMA LeastOf ==
    ASSUME NEW T, T \subseteq Nat, T # {}
    PROVE  Min(T) \in T /\ \A y \in T : Min(T) <= y
<1>1. PICK m \in T : \A y \in T : m <= y
  BY LeastNumber
<1>2. Min(T) = CHOOSE x \in T : \A y \in T : x <= y
  BY DEF Min
<1> QED BY <1>1, <1>2

(* What a concatenation is made of.                                        *)
LEMMA ConcatIs ==
    ASSUME NEW S, NEW s \in Seq(S), NEW t \in Seq(S)
    PROVE  /\ s \o t \in Seq(S) /\ Len(s \o t) = Len(s) + Len(t)
           /\ Len(s) \in Nat /\ Len(t) \in Nat
           /\ \A i \in 1..Len(s) : (s \o t)[i] = s[i]
           /\ \A j \in 1..Len(t) : (s \o t)[Len(s) + j] = t[j]
<1>1. /\ s \o t \in Seq(S) /\ Len(s \o t) = Len(s) + Len(t)
      /\ Len(s) \in Nat /\ Len(t) \in Nat
  OBVIOUS
<1>2. \A i \in 1..(Len(s) + Len(t)) :
          (s \o t)[i] = IF i <= Len(s) THEN s[i] ELSE t[i - Len(s)]
  BY ConcatProperties
<1>3. ASSUME NEW i \in 1..Len(s) PROVE (s \o t)[i] = s[i]
  <2>1. i \in 1..(Len(s) + Len(t)) /\ i <= Len(s)
    BY <1>1
  <2> QED BY <1>2, <2>1
<1>4. ASSUME NEW j \in 1..Len(t) PROVE (s \o t)[Len(s) + j] = t[j]
  <2>1. /\ Len(s) + j \in 1..(Len(s) + Len(t)) /\ ~(Len(s) + j <= Len(s))
        /\ (Len(s) + j) - Len(s) = j
    BY <1>1
  <2> QED BY <1>2, <2>1
<1> QED BY <1>1, <1>3, <1>4

\* A recursion that comes down to smaller and smaller ranks: f[x] is last[x]
\* where it stops, and step[x] of f[next[x]] elsewhere.
Recursion(Dom, A, N, rank, stop, last, step, next) ==
    /\ \A x \in Dom : rank[x] \in 0..N
    /\ \A x \in Dom \cap stop : last[x] \in A
    /\ \A x \in Dom \ stop :
           next[x] \in Dom /\ rank[next[x]] < rank[x] /\ step[x] \in [A -> A]
Solves(f, Dom, stop, last, step, next) ==
    \A x \in Dom : f[x] = IF x \in stop THEN last[x] ELSE step[x][f[next[x]]]

(* It defines a function.  The domain, the ranks and the steps are data.   *)
LEMMA RecursionExists ==
    ASSUME NEW Dom, NEW A, NEW N \in Nat, NEW rank, NEW stop, NEW last, NEW step, NEW next,
           Recursion(Dom, A, N, rank, stop, last, step, next)
    PROVE  \E f \in [Dom -> A] : Solves(f, Dom, stop, last, step, next)
<1>0. /\ \A x \in Dom : rank[x] \in 0..N
      /\ \A x \in Dom \cap stop : last[x] \in A
      /\ \A x \in Dom \ stop :
             next[x] \in Dom /\ rank[next[x]] < rank[x] /\ step[x] \in [A -> A]
  BY DEF Recursion
<1> DEFINE Below(m) == {x \in Dom : rank[x] < m}
           Good(m) == \E f \in [Below(m) -> A] :
               \A x \in Below(m) : f[x] = IF x \in stop THEN last[x] ELSE step[x][f[next[x]]]
           T == {m \in 0..(N + 1) : ~Good(m)}
<1>1. T = {}
  <2> SUFFICES ASSUME T # {} PROVE FALSE
    OBVIOUS
  <2>1. PICK m \in T : \A l \in T : m <= l
    <3>1. T \subseteq Nat
      OBVIOUS
    <3> HIDE DEF T
    <3> QED BY <3>1, LeastNumber
  <2>2. m \in 0..(N + 1) /\ ~Good(m)
    BY <2>1
  <2>3. m # 0
    <3> SUFFICES ASSUME m = 0 PROVE FALSE
      OBVIOUS
    <3>1. Below(0) = {}
      BY <1>0
    <3> DEFINE e == [x \in {} |-> 0]
    <3>2. e \in [{} -> A]
      OBVIOUS
    <3>3. Good(0)
      <4> HIDE DEF e
      <4> QED BY <3>1, <3>2, Zenon
    <3> QED BY <2>2, <3>3
  <2>4. Good(m - 1)
    <3>1. m - 1 \in 0..(N + 1) /\ ~(m <= m - 1)
      BY <2>2, <2>3
    <3>2. m - 1 \notin T
      <4> HIDE DEF T
      <4> QED BY <2>1, <3>1
    <3> HIDE DEF Good
    <3> QED BY <3>1, <3>2
  <2>5. PICK f \in [Below(m - 1) -> A] :
            \A x \in Below(m - 1) : f[x] = IF x \in stop THEN last[x] ELSE step[x][f[next[x]]]
    BY <2>4, Zenon
  <2> DEFINE g == [x \in Below(m) |-> IF x \in stop THEN last[x] ELSE step[x][f[next[x]]]]
  <2>6. ASSUME NEW x \in Below(m), x \notin stop
        PROVE  next[x] \in Below(m - 1) /\ next[x] \in Below(m)
    BY <1>0, <2>2, <2>3, <2>6
  <2>7. g \in [Below(m) -> A]
    <3>1. ASSUME NEW x \in Below(m)
          PROVE  (IF x \in stop THEN last[x] ELSE step[x][f[next[x]]]) \in A
      <4>1. x \in Dom
        OBVIOUS
      <4>2. CASE x \in stop
        <5>1. last[x] \in A
          BY <1>0, <4>1, <4>2
        <5> QED BY <4>2, <5>1
      <4>3. CASE x \notin stop
        <5>1. next[x] \in Below(m - 1) /\ step[x] \in [A -> A]
          BY <1>0, <2>6, <4>1, <4>3
        <5> HIDE DEF Below
        <5>2. f[next[x]] \in A
          BY <5>1
        <5> QED BY <4>3, <5>1, <5>2
      <4> QED BY <4>2, <4>3
    <3> HIDE DEF Below
    <3> QED BY <3>1
  <2>8. ASSUME NEW x \in Below(m - 1) PROVE x \in Below(m) /\ g[x] = f[x]
    <3>1. x \in Below(m)
      BY <1>0, <2>2, <2>3
    <3> HIDE DEF Below
    <3>2. g[x] = IF x \in stop THEN last[x] ELSE step[x][f[next[x]]]
      BY <3>1, Zenon
    <3> HIDE DEF g
    <3> QED BY <2>5, <3>1, <3>2
  <2>9. ASSUME NEW x \in Below(m)
        PROVE  g[x] = IF x \in stop THEN last[x] ELSE step[x][g[next[x]]]
    <3>1. g[x] = IF x \in stop THEN last[x] ELSE step[x][f[next[x]]]
      <4> HIDE DEF Below
      <4> QED BY Zenon
    <3>2. x \notin stop => g[next[x]] = f[next[x]]
      <4> HIDE DEF g, Below
      <4> QED BY <2>6, <2>8
    <3> HIDE DEF g, Below
    <3> QED BY <3>1, <3>2
  <2>10. Good(m)
    <3> HIDE DEF g, Below
    <3> QED BY <2>7, <2>9, Zenon
  <2> QED BY <2>2, <2>10
<1>2. Good(N + 1)
  <2>1. N + 1 \in 0..(N + 1)
    OBVIOUS
  <2> HIDE DEF Good
  <2> QED BY <1>1, <2>1
<1>3. Below(N + 1) = Dom
  BY <1>0
<1> HIDE DEF Below
<1> QED BY <1>2, <1>3 DEF Solves

\* flat[k] is the first k sequences, one behind the other.
FlattensTo(flat, seqs) ==
    flat = [i \in 1..Len(seqs) |-> IF i = 1 THEN seqs[i] ELSE flat[i - 1] \o seqs[i]]

(* There is such a function.                                               *)
LEMMA FlattensToExists ==
    ASSUME NEW S, NEW seqs \in Seq(Seq(S))
    PROVE  \E flat : FlattensTo(flat, seqs)
<1> DEFINE A == Seq(S)
           n == Len(seqs)
           Dom == 1..n
           rank == [i \in Dom |-> i]
           step == [i \in Dom |-> [a \in A |-> a \o seqs[i]]]
           next == [i \in Dom |-> i - 1]
           stop == {1}
<1>1. n \in Nat /\ \A i \in Dom : seqs[i] \in A
  OBVIOUS
<1>2. ASSUME NEW i \in Dom, NEW a \in A PROVE a \o seqs[i] \in A
  BY <1>1
<1> HIDE DEF A, n
<1>3. PICK f \in [Dom -> A] : Solves(f, Dom, stop, seqs, step, next)
  <2>1. \A x \in Dom : rank[x] \in 0..n
    BY <1>1
  <2>2. \A x \in Dom \cap stop : seqs[x] \in A
    BY <1>1
  <2>3. \A x \in Dom \ stop :
            next[x] \in Dom /\ rank[next[x]] < rank[x] /\ step[x] \in [A -> A]
    BY <1>1, <1>2
  <2> HIDE DEF Dom, rank, step, next, stop
  <2>4. Recursion(Dom, A, n, rank, stop, seqs, step, next)
    BY <2>1, <2>2, <2>3 DEF Recursion
  <2> QED BY <1>1, <2>4, RecursionExists
<1>4. ASSUME NEW x \in Dom
      PROVE  f[x] = IF x = 1 THEN seqs[x] ELSE f[x - 1] \o seqs[x]
  <2>1. CASE x = 1
    BY <1>3, <2>1 DEF Solves
  <2>2. CASE x # 1
    <3>1. x - 1 \in Dom /\ next[x] = x - 1
      BY <1>1, <2>2
    <3>2. f[x] = step[x][f[x - 1]] /\ f[x - 1] \in A
      <4> HIDE DEF step, Dom, next
      <4> QED BY <1>3, <2>2, <3>1 DEF Solves
    <3>3. step[x][f[x - 1]] = f[x - 1] \o seqs[x]
      <4> HIDE DEF Dom, next
      <4> QED BY <3>2
    <3> QED BY <2>2, <3>2, <3>3
  <2> QED BY <2>1, <2>2
<1>5. f = [x \in Dom |-> f[x]]
  <2> HIDE DEF Dom
  <2> QED OBVIOUS
<1>6. FlattensTo(f, seqs)
  BY <1>4, <1>5 DEF FlattensTo, n
<1> QED BY <1>6

(* Where each sequence is in the whole: behind the places of those before. *)
LEMMA FlattenPlaces ==
    ASSUME NEW S, NEW seqs \in Seq(Seq(S))
    PROVE  \E o \in [0..Len(seqs) -> Nat] :
               /\ o[0] = 0 /\ o[Len(seqs)] = Len(FlattenSeq(seqs))
               /\ FlattenSeq(seqs) \in Seq(S)
               /\ \A k \in 1..Len(seqs) :
                      /\ o[k] = o[k - 1] + Len(seqs[k]) /\ o[k] <= Len(FlattenSeq(seqs))
                      /\ \A j \in 1..Len(seqs[k]) : FlattenSeq(seqs)[o[k - 1] + j] = seqs[k][j]
<1> DEFINE n == Len(seqs)
           flat == CHOOSE f : FlattensTo(f, seqs)
           o == [k \in 0..n |-> IF k = 0 THEN 0 ELSE Len(flat[k])]
<1>1. n \in Nat /\ \A i \in 1..n : seqs[i] \in Seq(S) /\ Len(seqs[i]) \in Nat
  OBVIOUS
<1>2. FlattenSeq(seqs) = IF n = 0 THEN seqs ELSE flat[n]
  BY Zenon DEF FlattenSeq, FlattensTo
<1>3. FlattensTo(flat, seqs)
  BY FlattensToExists, Zenon
<1> HIDE DEF flat
<1>4. \A i \in 1..n : flat[i] = IF i = 1 THEN seqs[i] ELSE flat[i - 1] \o seqs[i]
  BY <1>3, Zenon DEF FlattensTo
<1> HIDE DEF n
<1> DEFINE P(m) ==
               /\ flat[m] \in Seq(S)
               /\ \A k \in 1..m :
                      /\ o[k] = o[k - 1] + Len(seqs[k]) /\ o[k] <= Len(flat[m])
                      /\ \A j \in 1..Len(seqs[k]) : flat[m][o[k - 1] + j] = seqs[k][j]
           T == {m \in 1..n : ~P(m)}
<1>5. \A k \in 1..n : o[k] = Len(flat[k])
  BY <1>1
<1>6. o[0] = 0
  BY <1>1
<1>7. T = {}
  <2> SUFFICES ASSUME T # {} PROVE FALSE
    OBVIOUS
  <2>1. PICK m \in T : \A l \in T : m <= l
    <3>1. T \subseteq Nat
      OBVIOUS
    <3> HIDE DEF T
    <3> QED BY <3>1, LeastNumber
  <2>2. m \in 1..n /\ ~P(m)
    BY <2>1
  <2> HIDE DEF P, T
  <2>3. CASE m = 1
    <3>1. flat[1] = seqs[1] /\ seqs[1] \in Seq(S) /\ o[1] = Len(seqs[1]) /\ Len(seqs[1]) \in Nat
      BY <1>1, <1>4, <1>5, <2>2, <2>3
    <3> HIDE DEF o
    <3>2. \A k \in 1..1 : k = 1
      OBVIOUS
    <3>3. \A j \in 1..Len(seqs[1]) : 0 + j = j
      OBVIOUS
    <3>4. o[1 - 1] = 0
      BY <1>6
    <3>5. P(1)
      BY <3>1, <3>2, <3>3, <3>4 DEF P
    <3> QED BY <2>2, <2>3, <3>5
  <2>4. CASE m # 1
    <3>1. m - 1 \in 1..n /\ ~(m <= m - 1)
      BY <1>1, <2>2, <2>4
    <3>2. P(m - 1)
      <4>1. m - 1 \notin T
        BY <2>1, <3>1
      <4> QED BY <3>1, <4>1 DEF T
    <3>3. flat[m] = flat[m - 1] \o seqs[m] /\ seqs[m] \in Seq(S) /\ flat[m - 1] \in Seq(S)
      BY <1>1, <1>4, <2>2, <2>4, <3>2 DEF P
    <3>4. /\ flat[m] \in Seq(S) /\ Len(flat[m]) = Len(flat[m - 1]) + Len(seqs[m])
          /\ Len(flat[m - 1]) \in Nat /\ Len(seqs[m]) \in Nat
          /\ \A i \in 1..Len(flat[m - 1]) : flat[m][i] = flat[m - 1][i]
          /\ \A j \in 1..Len(seqs[m]) : flat[m][Len(flat[m - 1]) + j] = seqs[m][j]
      <4> DEFINE a == flat[m - 1]
                 b == seqs[m]
      <4>1. a \in Seq(S) /\ b \in Seq(S) /\ flat[m] = a \o b
        BY <3>3
      <4> HIDE DEF a, b
      <4>2. /\ a \o b \in Seq(S) /\ Len(a \o b) = Len(a) + Len(b)
            /\ Len(a) \in Nat /\ Len(b) \in Nat
            /\ \A i \in 1..Len(a) : (a \o b)[i] = a[i]
            /\ \A j \in 1..Len(b) : (a \o b)[Len(a) + j] = b[j]
        BY <4>1, ConcatIs
      <4> QED BY <4>1, <4>2 DEF a, b
    <3>5. o[m] = Len(flat[m]) /\ o[m - 1] = Len(flat[m - 1])
      BY <1>5, <2>2, <3>1
    <3>6. \A k \in 1..(m - 1) : o[k] \in Nat /\ o[k - 1] \in Nat
      <4> TAKE k \in 1..(m - 1)
      <4>1. \A l \in 1..(m - 1) : l \in 1..n /\ o[l] = Len(flat[l])
        BY <1>1, <1>5, <2>2
      <4>2. \A l \in 1..(m - 1) : o[l] \in Nat
        <5> TAKE l \in 1..(m - 1)
        <5>1. ~(m <= l) /\ l \in 1..n
          BY <1>1, <2>2
        <5>2. P(l)
          <6>1. l \notin T
            BY <2>1, <5>1
          <6> QED BY <5>1, <6>1 DEF T
        <5>3. flat[l] \in Seq(S)
          BY <5>2 DEF P
        <5> QED BY <4>1, <5>3
      <4>3. k = 1 \/ k - 1 \in 1..(m - 1)
        BY <2>2
      <4> HIDE DEF o
      <4> QED BY <1>6, <4>2, <4>3
    <3> HIDE DEF o
    <3>9. Len(flat[m - 1]) \in Nat /\ Len(flat[m]) \in Nat /\ Len(flat[m - 1]) <= Len(flat[m])
      <4> DEFINE a == Len(flat[m - 1])
                 b == Len(seqs[m])
                 c == Len(flat[m])
      <4>1. a \in Nat /\ b \in Nat /\ c = a + b
        BY <3>4
      <4> HIDE DEF a, b, c
      <4>2. a \in Nat /\ c \in Nat /\ a <= c
        BY <4>1
      <4> QED BY <4>2 DEF a, c
    <3>7. ASSUME NEW k \in 1..m
          PROVE  /\ o[k] = o[k - 1] + Len(seqs[k]) /\ o[k] <= Len(flat[m])
                 /\ \A j \in 1..Len(seqs[k]) : flat[m][o[k - 1] + j] = seqs[k][j]
      <4>1. CASE k = m
        <5>1. /\ o[m] = o[m - 1] + Len(seqs[m]) /\ o[m] <= Len(flat[m])
          BY <3>4, <3>5
        <5>2. \A j \in 1..Len(seqs[m]) : flat[m][o[m - 1] + j] = seqs[m][j]
          BY <3>4, <3>5
        <5> QED BY <4>1, <5>1, <5>2
      <4>2. CASE k # m
        <5>1. k \in 1..(m - 1)
          BY <2>2, <4>2
        <5>2. /\ o[k] = o[k - 1] + Len(seqs[k]) /\ o[k] <= Len(flat[m - 1])
              /\ \A j \in 1..Len(seqs[k]) : flat[m - 1][o[k - 1] + j] = seqs[k][j]
          BY <3>2, <5>1 DEF P
        <5>3. o[k] \in Nat /\ o[k - 1] \in Nat
          BY <3>6, <5>1
        <5>4. Len(seqs[k]) \in Nat
          BY <1>1, <2>2
        <5>5. ASSUME NEW j \in 1..Len(seqs[k]) PROVE flat[m][o[k - 1] + j] = seqs[k][j]
          <6>1. o[k - 1] + j <= o[k] /\ o[k - 1] + j >= 1 /\ o[k - 1] + j \in Int
            BY <5>2, <5>3, <5>4
          <6>2. o[k - 1] + j \in 1..Len(flat[m - 1])
            BY <3>4, <5>2, <5>3, <6>1
          <6> QED BY <3>4, <5>2, <6>2
        <5>6. o[k] <= Len(flat[m])
          BY <3>9, <5>2, <5>3
        <5> QED BY <5>2, <5>5, <5>6
      <4> QED BY <4>1, <4>2
    <3>8. P(m)
      BY <3>4, <3>7 DEF P
    <3> QED BY <2>2, <3>8
  <2> QED BY <2>3, <2>4
<1>8. \A m \in 1..n : P(m)
  <2> HIDE DEF P
  <2> QED BY <1>7
<1>9. CASE n = 0
  <2>1. seqs = <<>> /\ FlattenSeq(seqs) = <<>> /\ Len(<<>>) = 0 /\ <<>> \in Seq(S)
    BY <1>2, <1>9 DEF n
  <2>2. o = [k \in 0..n |-> 0]
    BY <1>9
  <2> HIDE DEF o
  <2>3. o \in [0..n -> Nat] /\ o[n] = 0 /\ \A k \in 1..n : FALSE
    BY <1>9, <2>2
  <2> QED BY <1>6, <2>1, <2>3 DEF n
<1>10. CASE n # 0
  <2>1. n \in 1..n /\ FlattenSeq(seqs) = flat[n]
    BY <1>1, <1>2, <1>10
  <2>2. P(n) /\ o[n] = Len(flat[n])
    BY <1>5, <1>8, <2>1
  <2>3. o \in [0..n -> Nat]
    <3>1. \A m \in 1..n : Len(flat[m]) \in Nat
      <4> TAKE m \in 1..n
      <4>1. flat[m] \in Seq(S)
        BY <1>8
      <4> QED BY <4>1
    <3> QED BY <1>1, <3>1
  <2> HIDE DEF o
  <2> QED BY <1>6, <2>1, <2>2, <2>3 DEF n
<1> QED BY <1>9, <1>10

(* The greatest of some numbers up to n.                                   *)
LEMMA GreatestOf ==
    ASSUME NEW n \in Nat, NEW s \in SUBSET (0..n), s # {}
    PROVE  Max(s) \in s /\ \A y \in s : y <= Max(s)
<1> DEFINE T == {n - x : x \in s}
<1>0. \A x \in s : x \in 0..n
  OBVIOUS
<1>1. T \subseteq Nat /\ T # {}
  <2>1. \A x \in s : n - x \in Nat
    BY <1>0
  <2> QED BY <2>1
<1>2. PICK m \in T : \A l \in T : m <= l
  <2> HIDE DEF T
  <2> QED BY <1>1, LeastNumber
<1>3. PICK x \in s : m = n - x
  OBVIOUS
<1>4. ASSUME NEW y \in s PROVE x >= y
  <2>1. n - y \in T
    OBVIOUS
  <2>2. m <= n - y
    <3> HIDE DEF T
    <3> QED BY <1>2, <2>1
  <2> QED BY <1>3, <2>2
<1>5. Max(s) = CHOOSE z \in s : \A y \in s : z >= y
  BY DEF Max
<1> DEFINE top == Max(s)
<1>6. top \in s /\ \A y \in s : top >= y
  BY <1>4, <1>5, Zenon
<1> HIDE DEF top, T
<1>7. ASSUME NEW y \in s PROVE y <= top
  <2>1. top >= y /\ top \in 0..n /\ y \in 0..n
    BY <1>0, <1>6
  <2> QED BY <2>1
<1> QED BY <1>6, <1>7 DEF top

\* it is what a fold makes of the places in each set.
Folds(it, n, base, step) ==
    \A s \in SUBSET (1..n) :
        it[s] = IF s = {} THEN base ELSE step[Max(s)][it[s \ {Max(s)}]]

(* There is such a function.                                               *)
LEMMA FoldExists ==
    ASSUME NEW n \in Nat, NEW A, NEW base \in A, NEW step,
           \A k \in 1..n : step[k] \in [A -> A]
    PROVE  \E it \in [SUBSET (1..n) -> A] : Folds(it, n, base, step)
<1> DEFINE Dom == SUBSET (1..n)
           rank == [s \in Dom |-> IF s = {} THEN 0 ELSE Max(s)]
           stop == {{}}
           last == [s \in Dom |-> base]
           go == [s \in Dom |-> step[Max(s)]]
           next == [s \in Dom |-> s \ {Max(s)}]
<1>1. ASSUME NEW s \in Dom, s # {}
      PROVE  Max(s) \in s /\ Max(s) \in 1..n /\ \A y \in s : y <= Max(s)
  <2>1. s \in SUBSET (0..n)
    OBVIOUS
  <2>2. Max(s) \in s /\ \A y \in s : y <= Max(s)
    BY <1>1, <2>1, GreatestOf
  <2> QED BY <2>2
<1>2. \A s \in Dom : rank[s] \in 0..n
  <2> TAKE s \in Dom
  <2>1. CASE s = {}
    BY <2>1
  <2>2. CASE s # {}
    BY <1>1, <2>2
  <2> QED BY <2>1, <2>2
<1>3. ASSUME NEW s \in Dom, s # {}
      PROVE  next[s] \in Dom /\ rank[next[s]] < rank[s] /\ go[s] \in [A -> A]
  <2>1. Max(s) \in s /\ Max(s) \in 1..n /\ \A y \in s : y <= Max(s)
    BY <1>1, <1>3
  <2>2. next[s] = s \ {Max(s)} /\ next[s] \in Dom
    OBVIOUS
  <2>3. go[s] \in [A -> A]
    BY <2>1
  <2>4. rank[s] = Max(s)
    BY <1>3
  <2>5. rank[next[s]] < Max(s)
    <3>1. CASE next[s] = {}
      <4>1. rank[next[s]] = 0
        BY <2>2, <3>1
      <4> QED BY <2>1, <4>1
    <3>2. CASE next[s] # {}
      <4> DEFINE t == next[s]
      <4>1. t \in Dom /\ t # {} /\ t = s \ {Max(s)}
        BY <2>2, <3>2
      <4> HIDE DEF t, next
      <4>2. rank[t] = Max(t)
        BY <4>1
      <4>3. Max(t) \in t /\ Max(t) \in 1..n
        BY <1>1, <4>1
      <4>4. Max(t) \in s /\ Max(t) # Max(s)
        BY <4>1, <4>3
      <4>5. Max(t) <= Max(s)
        BY <2>1, <4>4
      <4>6. Max(t) < Max(s)
        <5> HIDE DEF Dom
        <5> QED BY <2>1, <4>3, <4>4, <4>5
      <4> QED BY <4>2, <4>6 DEF t
    <3> QED BY <3>1, <3>2
  <2> HIDE DEF rank, go, next
  <2> QED BY <2>2, <2>3, <2>4, <2>5
<1>4. \A s \in Dom : last[s] \in A
  OBVIOUS
<1>5. Recursion(Dom, A, n, rank, stop, last, go, next)
  <2> HIDE DEF Dom, rank, go, next, last
  <2> QED BY <1>2, <1>3, <1>4 DEF Recursion
<1>6. PICK it \in [Dom -> A] : Solves(it, Dom, stop, last, go, next)
  <2> HIDE DEF Dom, rank, stop, go, next, last
  <2> QED BY <1>5, RecursionExists
<1>7. ASSUME NEW s \in Dom
      PROVE  it[s] = IF s = {} THEN base ELSE step[Max(s)][it[s \ {Max(s)}]]
  <2>1. it[s] = IF s \in stop THEN last[s] ELSE go[s][it[next[s]]]
    <3> HIDE DEF Dom, stop, go, next, last
    <3> QED BY <1>6 DEF Solves
  <2>2. last[s] = base /\ go[s] = step[Max(s)] /\ next[s] = s \ {Max(s)}
    OBVIOUS
  <2> HIDE DEF go, next, last, Dom
  <2> QED BY <2>1, <2>2
<1>8. Folds(it, n, base, step)
  BY <1>7 DEF Folds
<1> QED BY <1>8

---------------------------------------------------------------------------
(***************************************************************************)
(* Numbers, for texts of any length. A recursion over places or over sets  *)
(* of places is a function that satisfies its equation at every argument;  *)
(* that there is one, and that it is what the definition chooses, is shown *)
(* by taking the least argument up to which there is none.                 *)
(***************************************************************************)

(* A digit's value, and that of any character.                             *)
LEMMA ValueIs ==
    /\ \A c \in Chars : Value(c) \in Nat
    /\ \A d \in 0..9 : Value(d + 48) = d
    /\ \A d \in 0..15 : HexDigit(d) \in Chars /\ Value(HexDigit(d)) = d
BY DEF Chars, Value, Digit, HexDigit

\* acc[k] is the number that the first k digits are.
Numbers(acc, digits, base) ==
    /\ acc \in [0..Len(digits) -> Nat] /\ acc[0] = 0
    /\ \A k \in 1..Len(digits) : acc[k] = base * acc[k - 1] + Value(digits[k])

(* Number is the last of them.                                             *)
LEMMA NumberIs ==
    ASSUME NEW digits \in Seq(Chars), NEW base \in {10, 16}
    PROVE  \E acc : Numbers(acc, digits, base) /\ Number(digits, base) = acc[Len(digits)]
<1> DEFINE n == Len(digits)
           Is(it) == it = [s \in SUBSET (DOMAIN digits) |->
                              IF s = {} THEN 0
                              ELSE base * it[s \ {Max(s)}] + Value(digits[Max(s)])]
           fold == CHOOSE it : Is(it)
           acc == [k \in 0..n |-> fold[1..k]]
           step == [k \in 1..n |-> [a \in Nat |-> base * a + Value(digits[k])]]
<1>1. n \in Nat /\ DOMAIN digits = 1..n /\ \A k \in 1..n : digits[k] \in Chars
  BY ElementsOf
<1>2. Number(digits, base) = fold[DOMAIN digits]
  BY Zenon DEF Number, FoldLeft, MapThenFoldSet
<1>3. ASSUME NEW k \in 1..n, NEW a \in Nat
      PROVE  base * a + Value(digits[k]) \in Nat
  <2>1. Value(digits[k]) \in Nat
    <3>1. digits[k] \in Chars
      BY <1>1
    <3> QED BY <3>1, ValueIs
  <2>2. CASE base = 10
    BY <2>1, <2>2
  <2>3. CASE base = 16
    BY <2>1, <2>3
  <2> QED BY <2>2, <2>3
<1>4. \A k \in 1..n : step[k] \in [Nat -> Nat]
  BY <1>3
<1> HIDE DEF n
<1>5. PICK it \in [SUBSET (1..n) -> Nat] : Folds(it, n, 0, step)
  <2> HIDE DEF step
  <2> QED BY <1>1, <1>4, FoldExists
<1>6. ASSUME NEW s \in SUBSET (1..n), s # {}
      PROVE  Max(s) \in 1..n /\ s \ {Max(s)} \in SUBSET (1..n)
  <2>1. s \in SUBSET (0..n)
    BY <1>1
  <2>2. Max(s) \in s
    BY <1>1, <1>6, <2>1, GreatestOf
  <2> QED BY <2>2
<1>7. ASSUME NEW s \in SUBSET (1..n)
      PROVE  it[s] = IF s = {} THEN 0
                     ELSE base * it[s \ {Max(s)}] + Value(digits[Max(s)])
  <2>1. it[s] = IF s = {} THEN 0 ELSE step[Max(s)][it[s \ {Max(s)}]]
    <3> HIDE DEF step
    <3> QED BY <1>5 DEF Folds
  <2>2. ASSUME s # {}
        PROVE  step[Max(s)][it[s \ {Max(s)}]] =
                  base * it[s \ {Max(s)}] + Value(digits[Max(s)])
    <3> DEFINE m == Max(s)
               a == it[s \ {Max(s)}]
    <3>1. m \in 1..n /\ a \in Nat
      BY <1>5, <1>6, <2>2
    <3> HIDE DEF m, a
    <3>2. step[m][a] = base * a + Value(digits[m])
      BY <3>1
    <3> QED BY <3>2 DEF m, a
  <2> HIDE DEF step
  <2> QED BY <2>1, <2>2
<1>8. Is(it)
  <2>1. it = [s \in SUBSET (1..n) |-> it[s]]
    BY <1>5
  <2> QED BY <1>1, <1>7, <2>1, Zenon
<1>9. Is(fold)
  <2> HIDE DEF Is
  <2> QED BY <1>8, Zenon
<1> HIDE DEF fold
<1>10. \A s \in SUBSET (1..n) :
           fold[s] = IF s = {} THEN 0
                     ELSE base * fold[s \ {Max(s)}] + Value(digits[Max(s)])
  BY <1>1, <1>9, Zenon
<1> HIDE DEF Is
<1>11. acc[0] = 0 /\ acc[n] = fold[1..n]
  <2>1. 1..0 = {} /\ 0 \in 0..n /\ n \in 0..n
    BY <1>1
  <2> QED BY <1>10, <2>1
<1>12. ASSUME NEW k \in 1..n PROVE acc[k] = base * acc[k - 1] + Value(digits[k])
  <2>1. /\ k \in 0..n /\ k - 1 \in 0..n /\ 1..k \in SUBSET (1..n) /\ k \in 1..k /\ k \in Nat
        /\ (1..k) \ {k} = 1..(k - 1)
    BY <1>1
  <2>2. Max(1..k) = k
    BY <2>1, Greatest
  <2>3. acc[k] = fold[1..k] /\ acc[k - 1] = fold[1..(k - 1)]
    BY <2>1
  <2>4. fold[1..k] = base * fold[(1..k) \ {k}] + Value(digits[k])
    <3>1. 1..k # {}
      BY <2>1
    <3> QED BY <1>10, <2>1, <2>2, <3>1, Zenon
  <2> HIDE DEF acc
  <2> QED BY <2>1, <2>3, <2>4
<1> DEFINE T == {k \in 0..n : acc[k] \notin Nat}
<1>13. T = {}
  <2> SUFFICES ASSUME T # {} PROVE FALSE
    OBVIOUS
  <2>1. PICK m \in T : \A l \in T : m <= l
    <3>1. T \subseteq Nat
      OBVIOUS
    <3> HIDE DEF T
    <3> QED BY <3>1, LeastNumber
  <2>2. m # 0
    BY <1>11
  <2>3. m \in 1..n /\ m - 1 \in 0..n /\ m - 1 \notin T
    BY <1>1, <2>1, <2>2
  <2>4. acc[m - 1] \in Nat
    BY <2>3
  <2> HIDE DEF acc
  <2>5. acc[m] \in Nat
    BY <1>3, <1>12, <2>3, <2>4
  <2> QED BY <2>1, <2>5
<1>14. acc \in [0..n -> Nat]
  BY <1>13
<1> HIDE DEF acc
<1>15. Numbers(acc, digits, base)
  BY <1>11, <1>12, <1>14 DEF Numbers, n
<1> QED BY <1>1, <1>2, <1>11, <1>15 DEF n

(* A digit more makes base times the number, and the digit.                *)
LEMMA NumberMore ==
    ASSUME NEW s \in Seq(Chars), NEW c \in Chars, NEW base \in {10, 16}
    PROVE  Number(s \o <<c>>, base) = base * Number(s, base) + Value(c)
<1> DEFINE t == s \o <<c>>
           n == Len(s)
<1>1. /\ n \in Nat /\ t \in Seq(Chars) /\ Len(t) = n + 1 /\ t[n + 1] = c
      /\ \A k \in 1..n : t[k] = s[k]
  <2>1. <<c>> \in Seq(Chars) /\ Len(<<c>>) = 1 /\ <<c>>[1] = c
    <3> HIDE DEF Chars
    <3> QED OBVIOUS
  <2>2. /\ t \in Seq(Chars) /\ Len(t) = Len(s) + 1 /\ Len(s) \in Nat
        /\ \A i \in 1..Len(s) : t[i] = s[i]
        /\ \A j \in 1..1 : t[Len(s) + j] = <<c>>[j]
    <3> HIDE DEF Chars
    <3> QED BY <2>1, ConcatIs
  <2>3. 1 \in 1..1
    OBVIOUS
  <2> HIDE DEF t
  <2> QED BY <2>1, <2>2, <2>3
<1> HIDE DEF t, n
<1>2. PICK a : Numbers(a, s, base) /\ Number(s, base) = a[n]
  BY NumberIs DEF n
<1>3. PICK b : Numbers(b, t, base) /\ Number(t, base) = b[n + 1]
  BY <1>1, NumberIs
<1> DEFINE T == {k \in 0..n : a[k] # b[k]}
<1>4. T = {}
  <2> SUFFICES ASSUME T # {} PROVE FALSE
    OBVIOUS
  <2>1. PICK m \in T : \A l \in T : m <= l
    <3>1. T \subseteq Nat
      OBVIOUS
    <3> HIDE DEF T
    <3> QED BY <3>1, LeastNumber
  <2>2. m \in 0..n /\ a[m] # b[m]
    OBVIOUS
  <2>3. m # 0
    BY <1>2, <1>3, <2>2 DEF Numbers
  <2>4. m \in 1..n /\ m \in 1..(n + 1) /\ m - 1 \in 0..n /\ ~(m <= m - 1)
    BY <1>1, <2>2, <2>3
  <2>5. a[m - 1] = b[m - 1]
    BY <2>1, <2>4
  <2>6. a[m] = base * a[m - 1] + Value(s[m])
    BY <1>2, <2>4 DEF Numbers, n
  <2>7. b[m] = base * b[m - 1] + Value(t[m])
    BY <1>1, <1>3, <2>4 DEF Numbers
  <2>8. t[m] = s[m]
    BY <1>1, <2>4
  <2> HIDE DEF T
  <2> QED BY <2>2, <2>5, <2>6, <2>7, <2>8
<1>5. n \in 0..n /\ n + 1 \in 1..(n + 1) /\ (n + 1) - 1 = n
  BY <1>1
<1>6. a[n] = b[n]
  BY <1>4, <1>5
<1>7. b[n + 1] = base * b[n] + Value(c)
  <2>1. b[n + 1] = base * b[(n + 1) - 1] + Value(t[n + 1])
    BY <1>1, <1>3, <1>5 DEF Numbers
  <2> QED BY <1>1, <1>5, <2>1
<1> QED BY <1>2, <1>3, <1>6, <1>7 DEF t

(* The numbers of no digit and of one.                                     *)
LEMMA NumberOne ==
    ASSUME NEW base \in {10, 16}
    PROVE  /\ Number(<<>>, base) = 0
           /\ \A c \in Chars : Number(<<c>>, base) = Value(c)
<1>1. <<>> \in Seq(Chars) /\ Len(<<>>) = 0
  OBVIOUS
<1>2. Number(<<>>, base) = 0
  BY <1>1, NumberIs DEF Numbers
<1>3. ASSUME NEW c \in Chars PROVE Number(<<c>>, base) = Value(c)
  <2>1. <<>> \o <<c>> = <<c>>
    <3>1. <<c>> \in Seq(Chars)
      <4> HIDE DEF Chars
      <4> QED OBVIOUS
    <3> HIDE DEF Chars
    <3> QED BY <3>1, ConcatEmptySeq
  <2>2. Value(c) \in Nat
    BY ValueIs
  <2>3. Number(<<>> \o <<c>>, base) = base * Number(<<>>, base) + Value(c)
    <3> HIDE DEF Chars
    <3> QED BY <1>1, NumberMore
  <2>4. base * 0 = 0
    OBVIOUS
  <2> HIDE DEF Chars
  <2> QED BY <1>2, <2>1, <2>2, <2>3, <2>4
<1> QED BY <1>2, <1>3

(* Of a text that is all digits, the digits are all.                       *)
LEMMA DigitsAll ==
    ASSUME NEW s \in Seq(Chars), NEW base \in Nat, \A i \in 1..Len(s) : Value(s[i]) < base
    PROVE  Digits(s, base) = s
<1>1. Len(s) \in Nat /\ DOMAIN s = 1..Len(s) /\ \A i \in 1..Len(s) : s[i] \in Chars
  BY ElementsOf
<1> DEFINE stops == {i \in DOMAIN s : Value(s[i]) >= base}
<1>2. stops = {}
  <2>1. ASSUME NEW i \in 1..Len(s) PROVE ~(Value(s[i]) >= base)
    <3>1. Value(s[i]) < base /\ Value(s[i]) \in Nat
      BY <1>1, ValueIs
    <3> QED BY <3>1
  <2> QED BY <1>1, <2>1
<1>3. Min({Len(s) + 1}) = Len(s) + 1
  BY <1>1, LeastOf
<1>4. Digits(s, base) = SubSeq(s, 1, Min(stops \cup {Len(s) + 1}) - 1)
  BY DEF Digits
<1>5. stops \cup {Len(s) + 1} = {Len(s) + 1} /\ (Len(s) + 1) - 1 = Len(s)
  BY <1>1, <1>2
<1> HIDE DEF stops
<1>6. Digits(s, base) = SubSeq(s, 1, Len(s))
  BY <1>3, <1>4, <1>5
<1>7. SubSeq(s, 1, Len(s)) = s
  BY SubSeqFull
<1> QED BY <1>6, <1>7

(* What does not begin with a blank is not trimmed at its beginning.       *)
LEMMA NotTrimmed ==
    ASSUME NEW s \in Seq(Chars), s # <<>>, s[1] \notin Blank
    PROVE  trim_start(s) = s
<1> DEFINE T == {i \in DOMAIN s : s[i] \notin Blank} \cup {Len(s) + 1}
<1>1. Len(s) \in Nat /\ DOMAIN s = 1..Len(s) /\ 1 \in 1..Len(s)
  BY ElementsOf
<1>2. 1 \in T /\ T \subseteq Nat /\ \A y \in T : 1 <= y
  BY <1>1
<1>3. Min(T) = 1
  <2>1. Min(T) \in T /\ \A y \in T : Min(T) <= y
    <3> HIDE DEF T
    <3> QED BY <1>2, LeastOf
  <2>2. Min(T) <= 1 /\ 1 <= Min(T) /\ Min(T) \in Nat
    <3> HIDE DEF T
    <3> QED BY <1>2, <2>1
  <2> HIDE DEF T
  <2> QED BY <2>2
<1>4. trim_start(s) = SubSeq(s, Min(T), Len(s))
  BY DEF trim_start, From
<1> HIDE DEF T
<1> QED BY <1>3, <1>4, SubSeqFull

(* Two hexadecimal digits are read as the byte they stand for.             *)
LEMMA HexReadIs ==
    ASSUME NEW a \in 0..15, NEW b \in 0..15, NEW x \in HexDigits(a), NEW y \in HexDigits(b)
    PROVE  HexRead(<<x, y>>) = {16 * a + b}
<1> DEFINE two == <<x, y>>
<1>1. x \in Chars /\ y \in Chars /\ Value(x) = a /\ Value(y) = b
  BY DEF HexDigits, Chars, Digit
<1>2. x \notin Blank /\ x # 43 /\ x # 45 /\ y # 120 /\ y # 88
  BY DEF HexDigits, Digit, Blank, Space
<1>3. /\ two \in Seq(Chars) /\ two # <<>> /\ two[1] = x /\ Len(two) = 2 /\ two[2] = y
      /\ two = <<x>> \o <<y>> /\ <<x>> \in Seq(Chars)
  <2>1. <<x>> \in Seq(Chars) /\ <<y>> \in Seq(Chars)
    <3> HIDE DEF Chars
    <3> QED BY <1>1
  <2>2. two[1] = x /\ Len(two) = 2 /\ two[2] = y
    OBVIOUS
  <2>4. two \in Seq(Chars)
    <3> HIDE DEF Chars
    <3> QED BY <1>1
  <2>3. two = <<x>> \o <<y>>
    <3> DEFINE u == <<x>>
               v == <<y>>
    <3>1. Len(u) = 1 /\ Len(v) = 1 /\ u[1] = x /\ v[1] = y /\ u \in Seq(Chars) /\ v \in Seq(Chars)
      BY <2>1
    <3> HIDE DEF u, v, two, Chars
    <3>2. /\ u \o v \in Seq(Chars) /\ Len(u \o v) = 2 /\ (u \o v)[1] = x
          /\ (u \o v)[2] = y
      <4>1. /\ u \o v \in Seq(Chars) /\ Len(u \o v) = Len(u) + Len(v)
            /\ \A i \in 1..Len(u) : (u \o v)[i] = u[i]
            /\ \A j \in 1..Len(v) : (u \o v)[Len(u) + j] = v[j]
        <5> DEFINE S == Chars
        <5>1. u \in Seq(S) /\ v \in Seq(S)
          BY <3>1
        <5> HIDE DEF S
        <5>2. /\ u \o v \in Seq(S) /\ Len(u \o v) = Len(u) + Len(v)
              /\ Len(u) \in Nat /\ Len(v) \in Nat
              /\ \A i \in 1..Len(u) : (u \o v)[i] = u[i]
              /\ \A j \in 1..Len(v) : (u \o v)[Len(u) + j] = v[j]
          BY <5>1, ConcatIs
        <5> QED BY <5>2, Zenon DEF S
      <4>2. (u \o v)[1] = u[1] /\ (u \o v)[1 + 1] = v[1]
        BY <3>1, <4>1
      <4> QED BY <3>1, <4>1, <4>2
    <3>3. \A i \in 1..2 : two[i] = (u \o v)[i]
      <4>1. ASSUME NEW i \in 1..2 PROVE two[i] = (u \o v)[i]
        <5>1. i = 1 \/ i = 2
          OBVIOUS
        <5> QED BY <2>2, <3>2, <5>1
      <4> QED BY <4>1
    <3>4. two = u \o v
      BY <2>2, <2>4, <3>2, <3>3, SeqEqual
    <3> QED BY <3>4 DEF u, v
  <2> HIDE DEF two
  <2>5. two # <<>>
    BY <2>2
  <2> QED BY <2>1, <2>2, <2>3, <2>4, <2>5
<1>4. trim_start(two) = two
  <2> HIDE DEF two
  <2> QED BY <1>2, <1>3, NotTrimmed
<1>5. Digits(two, 16) = two
  <2>1. \A i \in 1..Len(two) : Value(two[i]) < 16
    <3>1. ASSUME NEW i \in 1..2 PROVE Value(two[i]) < 16
      <4>1. i = 1 \/ i = 2
        OBVIOUS
      <4> HIDE DEF two
      <4> QED BY <1>1, <1>3, <4>1
    <3> HIDE DEF two
    <3> QED BY <1>3, <3>1
  <2> HIDE DEF two
  <2> QED BY <1>3, <2>1, DigitsAll
<1>6. Number(two, 16) = 16 * a + b
  <2>1. Number(<<x>>, 16) = a
    BY <1>1, NumberOne
  <2>2. Number(<<x>> \o <<y>>, 16) = 16 * Number(<<x>>, 16) + b
    BY <1>1, <1>3, NumberMore
  <2> HIDE DEF two
  <2> QED BY <1>3, <2>1, <2>2
<1> HIDE DEF two
<1>8. two \notin {<<48, LowerX>>, <<48, 88>>}
  <2>1. <<48, LowerX>>[2] = 120 /\ <<48, 88>>[2] = 88
    BY DEF LowerX
  <2> QED BY <1>2, <1>3, <2>1
<1>7. HexRead(two) =
          LET trimmed == two
              digits == Digits(trimmed, 16)
              n == Number(digits, 16)
          IN IF digits = <<>> THEN {} ELSE {n}
  <2>1. trim_start(two)[1] \notin {Plus, Minus}
    BY <1>2, <1>3, <1>4 DEF Plus, Minus
  <2>2. Minus # 0
    BY DEF Minus
  <2> QED BY <1>4, <1>8, <2>1, <2>2, Zenon DEF HexRead
<1> QED BY <1>3, <1>5, <1>6, <1>7 DEF two

---------------------------------------------------------------------------
(***************************************************************************)
(* url_decode. The argument: decoding is a function on places. The         *)
(* encoding of a text is cut into the forms of its characters, and where a *)
(* form begins, decoding takes its character and goes on behind it.        *)
(***************************************************************************)

\* What is read at i, and where the next character is.
UrlHex(str, i) == IF i + 2 <= Len(str) THEN HexRead(SubSeq(str, i + 1, i + 2)) ELSE {}
UrlTaken(str, i) ==
    IF str[i] = 37 /\ UrlHex(str, i) # {} THEN CHOOSE n \in UrlHex(str, i) : TRUE
    ELSE IF str[i] = 43 THEN 32 ELSE str[i]
UrlNext(str, i) == IF str[i] = 37 /\ UrlHex(str, i) # {} THEN i + 3 ELSE i + 1
DecodesUrl(d, str) ==
    /\ d[Len(str) + 1] = <<>>
    /\ \A i \in 1..Len(str) : d[i] = <<UrlTaken(str, i)>> \o d[UrlNext(str, i)]

(* url_decode is what its recursion says.                                  *)
LEMMA UrlRecursion ==
    ASSUME NEW str \in Seq(Chars)
    PROVE  \E d : DecodesUrl(d, str) /\ url_decode(str) = d[1]
<1> DEFINE n == Len(str)
           Is(d) == d = [i \in 1..(n + 1) |->
                            IF i > n THEN <<>>
                            ELSE IF str[i] = Percent /\ UrlHex(str, i) # {}
                                 THEN <<CHOOSE m \in UrlHex(str, i) : TRUE>> \o d[i + 3]
                                 ELSE <<IF str[i] = Plus THEN Space ELSE str[i]>> \o d[i + 1]]
           decode == CHOOSE d : Is(d)
           reads == [i \in 1..n |-> UrlTaken(str, i)]
           A == Seq({reads[i] : i \in 1..n})
           Dom == 1..(n + 1)
           rank == [i \in Dom |-> n + 1 - i]
           stop == {n + 1}
           last == [i \in Dom |-> <<>>]
           step == [i \in 1..n |-> [a \in A |-> <<reads[i]>> \o a]]
           next == [i \in 1..n |-> UrlNext(str, i)]
<1>1. url_decode(str) = decode[1]
  BY Zenon DEF url_decode, UrlHex
<1>2. n \in Nat
  OBVIOUS
<1>3. ASSUME NEW i \in 1..n PROVE next[i] \in Dom /\ next[i] > i
  <2>1. UrlHex(str, i) # {} => i + 2 <= n
    BY Zenon DEF UrlHex
  <2>2. UrlNext(str, i) = i + 1 \/ (UrlNext(str, i) = i + 3 /\ i + 2 <= n)
    BY <2>1 DEF UrlNext
  <2> HIDE DEF n
  <2> QED BY <1>2, <2>2
<1>4. ASSUME NEW i \in 1..n, NEW a \in A PROVE <<reads[i]>> \o a \in A
  <2> DEFINE U == {reads[j] : j \in 1..n}
  <2>1. reads[i] \in U
    OBVIOUS
  <2> HIDE DEF U, reads
  <2>2. <<reads[i]>> \in Seq(U)
    BY <2>1
  <2> QED BY <2>2 DEF U
<1> HIDE DEF n, A, reads, decode
<1>5. ASSUME NEW i \in Dom PROVE i = n + 1 \/ i \in 1..n
  BY <1>2
<1>6. \A i \in Dom : rank[i] \in 0..n
  BY <1>2
<1>7. \A i \in Dom \cap stop : last[i] \in A
  BY DEF A
<1>8. ASSUME NEW i \in Dom \ stop
      PROVE  next[i] \in Dom /\ rank[next[i]] < rank[i] /\ step[i] \in [A -> A]
  <2>1. i \in 1..n
    BY <1>5
  <2>2. next[i] \in Dom /\ next[i] > i
    BY <1>3, <2>1
  <2>3. step[i] \in [A -> A]
    BY <1>4, <2>1
  <2> HIDE DEF next, step
  <2>4. rank[next[i]] < rank[i]
    BY <1>2, <2>1, <2>2
  <2> QED BY <2>2, <2>3, <2>4
<1>9. PICK f \in [Dom -> A] : Solves(f, Dom, stop, last, step, next)
  <2>1. Recursion(Dom, A, n, rank, stop, last, step, next)
    <3> HIDE DEF Dom, rank, stop, last, step, next
    <3> QED BY <1>6, <1>7, <1>8 DEF Recursion
  <2> HIDE DEF Dom, rank, stop, last, step, next
  <2> QED BY <1>2, <2>1, RecursionExists
<1>10. f[n + 1] = <<>>
  <2>1. n + 1 \in Dom /\ n + 1 \in stop
    BY <1>2
  <2>2. last[n + 1] = <<>>
    BY <2>1
  <2> HIDE DEF Dom, stop, last, step, next
  <2> QED BY <1>9, <2>1, <2>2 DEF Solves
<1>11. ASSUME NEW i \in 1..n PROVE f[i] = <<UrlTaken(str, i)>> \o f[UrlNext(str, i)]
  <2>1. i \in Dom /\ i \notin stop /\ next[i] \in Dom
    BY <1>2, <1>3
  <2>2. f[i] = step[i][f[next[i]]] /\ f[next[i]] \in A
    <3> HIDE DEF Dom, stop, last, step, next
    <3> QED BY <1>9, <2>1 DEF Solves
  <2>3. next[i] = UrlNext(str, i)
    OBVIOUS
  <2> HIDE DEF next
  <2>4. step[i][f[next[i]]] = <<reads[i]>> \o f[next[i]]
    BY <2>2
  <2>5. reads[i] = UrlTaken(str, i)
    BY DEF reads
  <2> QED BY <2>2, <2>3, <2>4, <2>5
<1>12. ASSUME NEW d, Is(d) PROVE DecodesUrl(d, str)
  <2>1. d[n + 1] = <<>>
    <3>1. n + 1 \in 1..(n + 1) /\ n + 1 > n
      BY <1>2
    <3> QED BY <1>12, <3>1, Zenon
  <2>2. ASSUME NEW i \in 1..n PROVE d[i] = <<UrlTaken(str, i)>> \o d[UrlNext(str, i)]
    <3>1. i \in 1..(n + 1) /\ ~(i > n)
      BY <1>2
    <3>2. d[i] = IF str[i] = Percent /\ UrlHex(str, i) # {}
                 THEN <<CHOOSE m \in UrlHex(str, i) : TRUE>> \o d[i + 3]
                 ELSE <<IF str[i] = Plus THEN Space ELSE str[i]>> \o d[i + 1]
      BY <1>12, <3>1, Zenon
    <3> QED BY <3>2, Zenon DEF UrlTaken, UrlNext, Percent, Plus, Space
  <2> QED BY <2>1, <2>2 DEF DecodesUrl, n
<1>13. Is(f)
  <2>1. ASSUME NEW i \in Dom
        PROVE  f[i] = IF i > n THEN <<>>
                      ELSE IF str[i] = Percent /\ UrlHex(str, i) # {}
                           THEN <<CHOOSE m \in UrlHex(str, i) : TRUE>> \o f[i + 3]
                           ELSE <<IF str[i] = Plus THEN Space ELSE str[i]>> \o f[i + 1]
    <3>1. CASE i = n + 1
      <4>1. i > n
        BY <1>2, <3>1
      <4> QED BY <1>10, <3>1, <4>1, Zenon
    <3>2. CASE i \in 1..n
      <4>1. ~(i > n)
        BY <1>2, <3>2
      <4>2. f[i] = <<UrlTaken(str, i)>> \o f[UrlNext(str, i)]
        BY <1>11, <3>2
      <4> QED BY <4>1, <4>2, Zenon DEF UrlTaken, UrlNext, Percent, Plus, Space
    <3> QED BY <1>5, <3>1, <3>2
  <2> QED BY <1>9, <2>1, Zenon
<1>14. Is(decode)
  BY <1>13, Zenon DEF decode
<1> HIDE DEF Is
<1> QED BY <1>1, <1>12, <1>14

(* Where a form of c is written, c is what is read, and the whole form.    *)
LEMMA UrlFormRead ==
    ASSUME NEW str \in Seq(Chars), NEW c \in 1..255, NEW form \in UrlForms(c),
           NEW at \in Nat, at + Len(form) <= Len(str),
           \A j \in 1..Len(form) : str[at + j] = form[j]
    PROVE  UrlTaken(str, at + 1) = c /\ UrlNext(str, at + 1) = at + 1 + Len(form)
<1> DEFINE i == at + 1
<1>1. Len(str) \in Nat /\ i \in Nat
  OBVIOUS
<1>2. ASSUME NEW h \in HexDigits(c \div 16), NEW l \in HexDigits(c % 16), form = <<37, h, l>>
      PROVE  UrlTaken(str, i) = c /\ UrlNext(str, i) = i + Len(form)
  <2>1. form = <<37, h, l>>
    BY <1>2
  <2>2. Len(form) = 3 /\ form[1] = 37 /\ form[2] = h /\ form[3] = l
    BY <2>1
  <2> HIDE <2>1
  <2>3. str[at + 1] = 37 /\ str[at + 2] = h /\ str[at + 3] = l /\ i + 2 <= Len(str)
    BY <1>1, <2>2
  <2>4. SubSeq(str, i + 1, i + 2) = <<h, l>>
    <3> DEFINE two == SubSeq(str, i + 1, i + 2)
    <3>1. /\ i + 1 \in Int /\ i + 2 \in Int /\ i + 1 \in 1..Len(str) /\ i + 2 \in 1..Len(str)
          /\ (i + 2) - (i + 1) + 1 = 2 /\ i + 1 <= i + 2
          /\ (i + 1) + 1 - 1 = at + 2 /\ (i + 1) + 2 - 1 = at + 3
      BY <1>1, <2>3
    <3>2. \A j \in (i + 1)..(i + 2) : str[j] \in Chars
      <4>1. \A j \in 1..Len(str) : str[j] \in Chars
        <5> HIDE DEF Chars
        <5> QED BY ElementsOf
      <4> HIDE DEF Chars
      <4>2. \A j \in (i + 1)..(i + 2) : j \in 1..Len(str)
        BY <1>1, <3>1
      <4> QED BY <4>1, <4>2
    <3>3. /\ two \in Seq(Chars) /\ Len(two) = 2
          /\ \A j \in 1..2 : two[j] = str[(i + 1) + j - 1]
      BY <3>1, <3>2, SubSeqProperties
    <3>4. two[1] = h /\ two[2] = l
      BY <2>3, <3>1, <3>3
    <3>5. two[1] \in Chars /\ two[2] \in Chars
      <4>1. two[1] = str[i + 1] /\ two[2] = str[i + 2]
        BY <3>1, <3>3
      <4> HIDE DEF two, Chars
      <4>2. i + 1 \in (i + 1)..(i + 2) /\ i + 2 \in (i + 1)..(i + 2)
        BY <1>1
      <4> QED BY <3>2, <4>1, <4>2
    <3> DEFINE pair == <<h, l>>
    <3>6. pair \in Seq(Chars) /\ Len(pair) = 2 /\ pair[1] = h /\ pair[2] = l
      <4> HIDE DEF two, Chars
      <4> QED BY <3>4, <3>5
    <3> HIDE DEF two, pair, Chars
    <3>7. \A j \in 1..2 : two[j] = pair[j]
      <4>1. ASSUME NEW j \in 1..2 PROVE two[j] = pair[j]
        <5>1. j = 1 \/ j = 2
          OBVIOUS
        <5> QED BY <3>4, <3>6, <5>1
      <4> QED BY <4>1
    <3>8. two = pair
      BY <3>3, <3>6, <3>7, SeqEqual
    <3> QED BY <3>8 DEF two, pair
  <2>5. c \div 16 \in 0..15 /\ c % 16 \in 0..15 /\ 16 * (c \div 16) + (c % 16) = c
    OBVIOUS
  <2>6. HexRead(<<h, l>>) = {c}
    <3>1. HexRead(<<h, l>>) = {16 * (c \div 16) + (c % 16)}
      BY <2>5, HexReadIs, Zenon
    <3> QED BY <2>5, <3>1
  <2>7. UrlHex(str, i) = {c}
    BY <2>3, <2>4, <2>6, Zenon DEF UrlHex
  <2>8. UrlTaken(str, i) = c /\ UrlNext(str, i) = i + 3
    BY <2>3, <2>7 DEF UrlTaken, UrlNext
  <2> QED BY <2>2, <2>8
<1>3. CASE \A h \in HexDigits(c \div 16), l \in HexDigits(c % 16) : form # <<37, h, l>>
  <2>1. \/ form = <<c>> /\ c \notin {37, 43, 32}
        \/ form = <<43>> /\ c = 32
    <3> DEFINE hex == {<<Percent, h, l>> : h \in HexDigits(c \div 16), l \in HexDigits(c % 16)}
    <3>1. UrlForms(c) = hex \cup (IF c \in {Percent, Plus, Space} THEN {} ELSE {<<c>>})
                            \cup (IF c = Space THEN {<<Plus>>} ELSE {})
      BY DEF UrlForms
    <3>2. form \notin hex
      BY <1>3 DEF Percent
    <3> HIDE DEF hex
    <3> QED BY <3>1, <3>2 DEF Percent, Plus, Space
  <2>2. /\ Len(form) = 1
        /\ \/ form[1] = c /\ c \notin {37, 43, 32}
           \/ form[1] = 43 /\ c = 32
    <3>1. Len(<<c>>) = 1 /\ <<c>>[1] = c /\ Len(<<43>>) = 1 /\ <<43>>[1] = 43
      OBVIOUS
    <3> QED BY <2>1, <3>1
  <2>3. str[i] = form[1]
    BY <2>2
  <2>4. UrlTaken(str, i) = c /\ UrlNext(str, i) = i + 1
    BY <2>2, <2>3 DEF UrlTaken, UrlNext
  <2> QED BY <2>2, <2>4
<1> QED BY <1>2, <1>3

(* url_decode undoes every way of encoding each character of a text.       *)
THEOREM UrlDecodes ==
    ASSUME NEW chars \in Seq(1..255), NEW forms \in Seq(Seq(Chars)),
           Len(forms) = Len(chars),
           \A k \in 1..Len(chars) : forms[k] \in UrlForms(chars[k])
    PROVE  url_decode(FlattenSeq(forms)) = chars
<1> DEFINE str == FlattenSeq(forms)
           n == Len(forms)
<1>1. n \in Nat /\ n = Len(chars) /\ \A k \in 1..n : chars[k] \in 1..255
  BY ElementsOf
<1>2. PICK o \in [0..n -> Nat] :
               /\ o[0] = 0 /\ o[n] = Len(str)
               /\ str \in Seq(Chars)
               /\ \A k \in 1..n :
                      /\ o[k] = o[k - 1] + Len(forms[k]) /\ o[k] <= Len(str)
                      /\ \A j \in 1..Len(forms[k]) : str[o[k - 1] + j] = forms[k][j]
  <2> HIDE DEF Chars
  <2> QED BY FlattenPlaces
<1> HIDE DEF str
<1>3. PICK d : DecodesUrl(d, str) /\ url_decode(str) = d[1]
  BY <1>2, UrlRecursion
<1> HIDE DEF n
<1>4. ASSUME NEW k \in 1..n PROVE d[o[k - 1] + 1] = <<chars[k]>> \o d[o[k] + 1]
  <2>1. k - 1 \in 0..n /\ k \in 0..n
    BY <1>1
  <2>2. o[k - 1] \in Nat /\ o[k] \in Nat /\ Len(str) \in Nat /\ Len(forms[k]) \in Nat
    <3>1. forms[k] \in Seq(Chars)
      <4> HIDE DEF Chars
      <4> QED BY DEF n
    <3> QED BY <1>2, <2>1, <3>1
  <2>3. /\ chars[k] \in 1..255 /\ forms[k] \in UrlForms(chars[k])
        /\ o[k] = o[k - 1] + Len(forms[k]) /\ o[k] <= Len(str)
        /\ \A j \in 1..Len(forms[k]) : str[o[k - 1] + j] = forms[k][j]
    BY <1>1, <1>2 DEF n
  <2> DEFINE at == o[k - 1]
             form == forms[k]
             c == chars[k]
             behind == o[k]
  <2> HIDE DEF at, form, c, behind
  <2>4. /\ c \in 1..255 /\ form \in UrlForms(c) /\ at \in Nat /\ at + Len(form) <= Len(str)
        /\ \A j \in 1..Len(form) : str[at + j] = form[j]
        /\ behind = at + Len(form) /\ Len(form) \in Nat
    BY <2>2, <2>3 DEF at, form, c, behind
  <2>5. UrlTaken(str, at + 1) = c /\ UrlNext(str, at + 1) = at + 1 + Len(form)
    <3> HIDE DEF Chars
    <3> QED BY <1>2, <2>4, UrlFormRead
  <2>6. Len(form) # 0
    <3>1. (\E h, l : form = <<Percent, h, l>>) \/ form = <<c>> \/ form = <<43>>
      <4> DEFINE hex == {<<Percent, h, l>> : h \in HexDigits(c \div 16), l \in HexDigits(c % 16)}
      <4>1. form \in hex \/ form = <<c>> \/ form = <<43>>
        <5>1. UrlForms(c) = hex \cup (IF c \in {Percent, Plus, Space} THEN {} ELSE {<<c>>})
                                \cup (IF c = Space THEN {<<Plus>>} ELSE {})
          BY DEF UrlForms
        <5> HIDE DEF hex
        <5> QED BY <2>4, <5>1 DEF Plus
      <4>2. \A f \in hex : \E h, l : f = <<Percent, h, l>>
        OBVIOUS
      <4> HIDE DEF hex
      <4> QED BY <4>1, <4>2, Zenon
    <3>2. \A h, l : Len(<<Percent, h, l>>) = 3
      OBVIOUS
    <3>3. Len(<<c>>) = 1
      OBVIOUS
    <3>4. Len(<<43>>) = 1
      OBVIOUS
    <3>5. Len(form) = 3 \/ Len(form) = 1
      BY <3>1, <3>2, <3>3, <3>4, Zenon
    <3> DEFINE m == Len(form)
    <3>6. m = 3 \/ m = 1
      BY <3>5
    <3> HIDE DEF m
    <3>7. m # 0
      BY <3>6
    <3> QED BY <3>7 DEF m
  <2>7. at + 1 \in 1..Len(str) /\ at + 1 + Len(form) = behind + 1
    BY <2>2, <2>4, <2>6
  <2>8. d[at + 1] = <<c>> \o d[behind + 1]
    BY <1>3, <2>5, <2>7 DEF DecodesUrl
  <2> QED BY <2>8 DEF at, c, behind
<1>5. d[o[n] + 1] = <<>>
  BY <1>2, <1>3 DEF DecodesUrl
<1> DEFINE P(k) == d[o[n - k] + 1] = SubSeq(chars, n - k + 1, n)
           T == {k \in 0..n : ~P(k)}
<1>6. T = {}
  <2>1. SUFFICES ASSUME T # {} PROVE FALSE
    OBVIOUS
  <2>2. PICK k \in T : \A m \in T : k <= m
    <3>1. T \subseteq Nat
      OBVIOUS
    <3> HIDE DEF T
    <3> QED BY <2>1, <3>1, LeastNumber
  <2>3. k \in 0..n /\ ~P(k)
    OBVIOUS
  <2>4. CASE k = 0
    <3>1. n - k = n /\ n - k + 1 = n + 1 /\ n + 1 \in Int /\ n \in Int /\ n < n + 1
      BY <1>1, <2>4
    <3>2. SubSeq(chars, n + 1, n) = <<>>
      BY <3>1, SubSeqEmpty
    <3> QED BY <1>5, <2>3, <3>1, <3>2
  <2>5. CASE k # 0
    <3> DEFINE i == n - k + 1
    <3>1. /\ k - 1 \in 0..n /\ k - 1 < k /\ i \in 1..n /\ n \in i..n /\ n - (k - 1) = i
          /\ i - 1 = n - k /\ n - (k - 1) + 1 = i + 1
      BY <1>1, <2>3, <2>5
    <3>2. P(k - 1)
      <4> HIDE DEF P
      <4>1. k - 1 \notin T
        <5> HIDE DEF T
        <5>1. k \in 0..n
          BY <2>3
        <5> QED BY <2>2, <3>1, <5>1
      <4> QED BY <3>1, <4>1
    <3>3. d[o[i] + 1] = SubSeq(chars, i + 1, n)
      BY <3>1, <3>2
    <3> HIDE DEF i
    <3>4. d[o[i - 1] + 1] = <<chars[i]>> \o SubSeq(chars, i + 1, n)
      BY <1>4, <3>1, <3>3
    <3>5. SubSeq(chars, i, n) = <<chars[i]>> \o SubSeq(chars, i + 1, n)
      BY <1>1, <3>1, SubSeqRecursiveFirst
    <3>6. d[o[n - k] + 1] = SubSeq(chars, i, n)
      BY <3>1, <3>4, <3>5
    <3> QED BY <2>3, <3>6 DEF i
  <2> QED BY <2>4, <2>5
<1>7. P(n)
  <2>1. n \in 0..n
    BY <1>1
  <2> HIDE DEF P
  <2> QED BY <1>6, <2>1
<1>8. n - n = 0 /\ n - n + 1 = 1 /\ 0 + 1 = 1
  BY <1>1
<1>9. d[1] = SubSeq(chars, 1, n)
  BY <1>2, <1>7, <1>8
<1>10. SubSeq(chars, 1, n) = chars
  BY <1>1, SubSeqFull
<1> QED BY <1>3, <1>9, <1>10 DEF str

---------------------------------------------------------------------------
(***************************************************************************)
(* Decimal and Hexadecimal: what they write is a numeral, and reading it   *)
(* gives the number back.                                                  *)
(***************************************************************************)

(* Dividing by a base, with its remainder.                                 *)
LEMMA Divided ==
    ASSUME NEW m \in Nat, NEW base \in {10, 16}
    PROVE  /\ m \div base \in Nat /\ m % base \in 0..(base - 1)
           /\ base * (m \div base) + (m % base) = m
           /\ m >= base => m \div base < m
<1>1. CASE base = 10
  <2>1. /\ m \div 10 \in Nat /\ m % 10 \in 0..9 /\ 10 * (m \div 10) + (m % 10) = m
        /\ m >= 10 => m \div 10 < m
    OBVIOUS
  <2> QED BY <1>1, <2>1
<1>2. CASE base = 16
  <2>1. /\ m \div 16 \in Nat /\ m % 16 \in 0..15 /\ 16 * (m \div 16) + (m % 16) = m
        /\ m >= 16 => m \div 16 < m
    OBVIOUS
  <2> QED BY <1>2, <2>1
<1> QED BY <1>1, <1>2

\* The digits of the base, and f, which writes the numbers up to n with them.
DigitsOf(dig, base) ==
    dig \in [0..(base - 1) -> Chars] /\ \A d \in 0..(base - 1) : Value(dig[d]) = d
Writes(f, n, base, dig) ==
    \A m \in 0..n :
        f[m] = IF m < base THEN <<dig[m]>> ELSE f[m \div base] \o <<dig[m % base]>>

(* There is such a function.                                               *)
LEMMA WritesExists ==
    ASSUME NEW n \in Nat, NEW base \in {10, 16}, NEW dig, DigitsOf(dig, base)
    PROVE  \E f \in [0..n -> Seq(Chars)] : Writes(f, n, base, dig)
<1> DEFINE A == Seq(Chars)
           Dom == 0..n
           rank == [m \in Dom |-> m]
           stop == {m \in Dom : m < base}
           last == [m \in Dom |-> <<dig[m]>>]
           step == [m \in Dom |-> [a \in A |-> a \o <<dig[m % base]>>]]
           next == [m \in Dom |-> m \div base]
<1>1. ASSUME NEW d \in 0..(base - 1) PROVE <<dig[d]>> \in A
  <2>1. dig[d] \in Chars
    BY Zenon DEF DigitsOf
  <2> HIDE DEF Chars
  <2> QED BY <2>1
<1>2. ASSUME NEW m \in Dom, NEW a \in A PROVE a \o <<dig[m % base]>> \in A
  <2> DEFINE t == <<dig[m % base]>>
  <2>1. t \in A
    BY <1>1, Divided
  <2> HIDE DEF t
  <2>2. a \o t \in A
    BY <2>1, ConcatIs
  <2> QED BY <2>2 DEF t
<1> HIDE DEF A
<1>3. ASSUME NEW m \in Dom \cap stop PROVE last[m] \in A
  <2>1. m \in 0..(base - 1)
    OBVIOUS
  <2> QED BY <1>1, <2>1
<1>4. ASSUME NEW m \in Dom \ stop
      PROVE  next[m] \in Dom /\ rank[next[m]] < rank[m] /\ step[m] \in [A -> A]
  <2>1. m \in Nat /\ m <= n /\ m >= base
    OBVIOUS
  <2>2. m \div base \in Nat /\ m \div base < m
    BY <2>1, Divided
  <2>3. next[m] \in Dom /\ rank[next[m]] < rank[m]
    BY <2>1, <2>2
  <2>4. step[m] \in [A -> A]
    BY <1>2
  <2> QED BY <2>3, <2>4
<1>5. Recursion(Dom, A, n, rank, stop, last, step, next)
  <2>1. \A m \in Dom : rank[m] \in 0..n
    OBVIOUS
  <2> HIDE DEF Dom, rank, stop, last, step, next
  <2> QED BY <1>3, <1>4, <2>1 DEF Recursion
<1>6. PICK f \in [Dom -> A] : Solves(f, Dom, stop, last, step, next)
  <2> HIDE DEF Dom, rank, stop, last, step, next
  <2> QED BY <1>5, RecursionExists
<1>7. ASSUME NEW m \in 0..n
      PROVE  f[m] = IF m < base THEN <<dig[m]>> ELSE f[m \div base] \o <<dig[m % base]>>
  <2>1. f[m] = IF m \in stop THEN last[m] ELSE step[m][f[next[m]]]
    <3> HIDE DEF stop, last, step, next
    <3> QED BY <1>6 DEF Solves
  <2>2. CASE m < base
    BY <2>1, <2>2
  <2>3. CASE ~(m < base)
    <3>1. m \in Dom \ stop /\ next[m] = m \div base
      BY <2>3
    <3>2. f[next[m]] \in A
      <4> HIDE DEF next, Dom
      <4> QED BY <1>4, <1>6, <3>1
    <3> DEFINE b == f[next[m]]
    <3> HIDE DEF b
    <3>3. step[m][b] = b \o <<dig[m % base]>>
      BY <3>2 DEF b
    <3> QED BY <2>1, <2>3, <3>1, <3>3 DEF b
  <2> QED BY <2>2, <2>3
<1> QED BY <1>6, <1>7 DEF Writes, A

\* What a numeral of m is.
NumeralOf(s, m, base) ==
    /\ s \in Seq(Chars) /\ Len(s) >= 1 /\ Number(s, base) = m
    /\ \A i \in 1..Len(s) : Value(s[i]) < base

(* It writes numerals.                                                     *)
LEMMA WritesNumerals ==
    ASSUME NEW n \in Nat, NEW base \in {10, 16}, NEW dig, DigitsOf(dig, base),
           NEW f, Writes(f, n, base, dig)
    PROVE  \A m \in 0..n : NumeralOf(f[m], m, base)
<1> DEFINE T == {m \in 0..n : ~NumeralOf(f[m], m, base)}
<1>1. SUFFICES ASSUME T # {} PROVE FALSE
  OBVIOUS
<1>2. PICK m \in T : \A k \in T : m <= k
  <2>1. T \subseteq Nat
    OBVIOUS
  <2> HIDE DEF T
  <2> QED BY <1>1, <2>1, LeastNumber
<1>3. m \in 0..n /\ ~NumeralOf(f[m], m, base)
  OBVIOUS
<1>4. ASSUME NEW d \in 0..(base - 1)
      PROVE  /\ dig[d] \in Chars /\ Value(dig[d]) = d /\ <<dig[d]>> \in Seq(Chars)
             /\ Len(<<dig[d]>>) = 1 /\ <<dig[d]>>[1] = dig[d]
  <2>1. dig[d] \in Chars /\ Value(dig[d]) = d
    BY Zenon DEF DigitsOf
  <2> DEFINE c == dig[d]
  <2> HIDE DEF c
  <2>2. <<c>> \in Seq(Chars)
    <3> HIDE DEF Chars
    <3> QED BY <2>1 DEF c
  <2>3. Len(<<c>>) = 1 /\ <<c>>[1] = c
    OBVIOUS
  <2> QED BY <2>1, <2>2, <2>3 DEF c
<1>5. CASE m < base
  <2>1. m \in 0..(base - 1) /\ f[m] = <<dig[m]>>
    <3>1. m \in 0..(base - 1)
      BY <1>3, <1>5
    <3> QED BY <1>3, <1>5, <3>1, Zenon DEF Writes
  <2> DEFINE s == <<dig[m]>>
  <2>2. /\ dig[m] \in Chars /\ Value(dig[m]) = m /\ s \in Seq(Chars) /\ Len(s) = 1
        /\ s[1] = dig[m]
    BY <1>4, <2>1
  <2>3. Number(s, base) = m
    BY <2>2, NumberOne
  <2> HIDE DEF s
  <2>4. \A i \in 1..Len(s) : Value(s[i]) < base
    <3>1. \A i \in 1..Len(s) : i = 1
      BY <2>2
    <3> QED BY <1>5, <2>2, <3>1
  <2>5. NumeralOf(s, m, base)
    BY <2>2, <2>3, <2>4 DEF NumeralOf
  <2> QED BY <1>3, <2>1, <2>5 DEF s
<1>6. CASE ~(m < base)
  <2> DEFINE k == m \div base
             d == m % base
  <2>1. /\ k \in 0..n /\ k < m /\ d \in 0..(base - 1) /\ base * k + d = m
        /\ f[m] = f[k] \o <<dig[d]>>
    <3>1. m \in Nat /\ m >= base
      BY <1>3, <1>6
    <3>2. k \in Nat /\ d \in 0..(base - 1) /\ base * k + d = m /\ k < m
      BY <3>1, Divided
    <3>3. f[m] = f[k] \o <<dig[d]>>
      BY <1>3, <1>6 DEF Writes
    <3> HIDE DEF k, d
    <3> QED BY <1>3, <3>2, <3>3
  <2> HIDE DEF k, d
  <2>2. NumeralOf(f[k], k, base)
    <3>1. k \notin T
      <4> HIDE DEF T
      <4>1. m \in Nat /\ k \in Nat
        BY <1>3, <2>1
      <4> QED BY <1>2, <2>1, <4>1
    <3> QED BY <2>1, <3>1
  <2> DEFINE pre == f[k]
             c == dig[d]
             num == pre \o <<c>>
  <2>3. /\ pre \in Seq(Chars) /\ Len(pre) >= 1 /\ Number(pre, base) = k
        /\ \A i \in 1..Len(pre) : Value(pre[i]) < base
        /\ c \in Chars /\ Value(c) = d /\ <<c>> \in Seq(Chars) /\ Len(<<c>>) = 1 /\ <<c>>[1] = c
    BY <1>4, <2>1, <2>2 DEF NumeralOf
  <2> HIDE DEF pre, c
  <2>4. Number(num, base) = m
    <3>1. Number(num, base) = base * k + d
      BY <2>3, NumberMore
    <3> QED BY <2>1, <3>1
  <2>5. /\ num \in Seq(Chars) /\ Len(num) = Len(pre) + 1 /\ Len(pre) \in Nat
        /\ \A i \in 1..Len(pre) : num[i] = pre[i]
        /\ num[Len(pre) + 1] = c
    <3> DEFINE u == <<c>>
    <3>1. /\ u \in Seq(Chars) /\ Len(u) = 1 /\ u[1] = c
      BY <2>3
    <3> HIDE DEF u
    <3>2. /\ pre \o u \in Seq(Chars) /\ Len(pre \o u) = Len(pre) + Len(u) /\ Len(pre) \in Nat
          /\ \A i \in 1..Len(pre) : (pre \o u)[i] = pre[i]
          /\ \A j \in 1..Len(u) : (pre \o u)[Len(pre) + j] = u[j]
      <4>1. pre \in Seq(Chars) /\ u \in Seq(Chars)
        BY <2>3, <3>1
      <4> QED BY <4>1, ConcatIs
    <3>3. 1 \in 1..Len(u)
      BY <3>1
    <3> QED BY <3>1, <3>2, <3>3 DEF u
  <2> HIDE DEF num
  <2>6. ASSUME NEW i \in 1..Len(num) PROVE Value(num[i]) < base
    <3>1. i \in 1..Len(pre) \/ i = Len(pre) + 1
      BY <2>5
    <3>2. d < base
      BY <2>1
    <3> QED BY <2>3, <2>5, <3>1, <3>2
  <2>7. Len(num) >= 1
    BY <2>3, <2>5
  <2>8. NumeralOf(num, m, base)
    BY <2>4, <2>5, <2>6, <2>7 DEF NumeralOf
  <2> QED BY <1>3, <2>1, <2>8 DEF pre, c, num
<1> QED BY <1>5, <1>6

(* Decimal writes the decimal numeral.                                     *)
LEMMA DecimalIs ==
    ASSUME NEW n \in Nat
    PROVE  NumeralOf(Decimal(n), n, 10)
<1> DEFINE Is(f) == f = [m \in 0..n |->
               IF m < 10 THEN <<m + 48>> ELSE f[m \div 10] \o <<(m % 10) + 48>>]
           digits == CHOOSE f : Is(f)
           dig == [d \in 0..9 |-> d + 48]
<1>1. Decimal(n) = digits[n]
  BY Zenon DEF Decimal
<1>2. DigitsOf(dig, 10)
  <2>1. 10 - 1 = 9 /\ dig \in [0..9 -> Chars]
    BY DEF Chars
  <2>2. \A d \in 0..9 : Value(dig[d]) = d
    BY ValueIs
  <2> QED BY <2>1, <2>2 DEF DigitsOf
<1>3. ASSUME NEW m \in 0..n PROVE /\ m < 10 => dig[m] = m + 48
                                  /\ dig[m % 10] = (m % 10) + 48
  <2>1. m % 10 \in 0..9
    OBVIOUS
  <2>2. m < 10 => m \in 0..9
    OBVIOUS
  <2> QED BY <2>1, <2>2
<1> HIDE DEF dig
<1>4. ASSUME NEW f, Is(f) PROVE Writes(f, n, 10, dig)
  <2>1. ASSUME NEW m \in 0..n
        PROVE  f[m] = IF m < 10 THEN <<dig[m]>> ELSE f[m \div 10] \o <<dig[m % 10]>>
    <3>1. f[m] = IF m < 10 THEN <<m + 48>> ELSE f[m \div 10] \o <<(m % 10) + 48>>
      BY <1>4, Zenon
    <3> QED BY <1>3, <3>1, Zenon
  <2> QED BY <2>1 DEF Writes
<1>5. PICK g \in [0..n -> Seq(Chars)] : Writes(g, n, 10, dig)
  BY <1>2, WritesExists
<1>6. Is(g)
  <2>1. ASSUME NEW m \in 0..n
        PROVE  g[m] = IF m < 10 THEN <<m + 48>> ELSE g[m \div 10] \o <<(m % 10) + 48>>
    <3>1. g[m] = IF m < 10 THEN <<dig[m]>> ELSE g[m \div 10] \o <<dig[m % 10]>>
      BY <1>5, Zenon DEF Writes
    <3> QED BY <1>3, <3>1, Zenon
  <2> QED BY <1>5, <2>1, Zenon
<1>7. Is(digits)
  BY <1>6, Zenon
<1> HIDE DEF Is, digits
<1>8. n \in 0..n
  OBVIOUS
<1> QED BY <1>1, <1>2, <1>4, <1>7, <1>8, WritesNumerals

(* Hexadecimal writes the hexadecimal one.                                 *)
LEMMA HexadecimalIs ==
    ASSUME NEW n \in Nat
    PROVE  NumeralOf(Hexadecimal(n), n, 16)
<1> DEFINE Is(f) == f = [m \in 0..n |->
               IF m < 16 THEN <<HexDigit(m)>> ELSE f[m \div 16] \o <<HexDigit(m % 16)>>]
           digits == CHOOSE f : Is(f)
           dig == [d \in 0..15 |-> HexDigit(d)]
<1>1. Hexadecimal(n) = digits[n]
  BY Zenon DEF Hexadecimal
<1>2. DigitsOf(dig, 16)
  <2>1. 16 - 1 = 15 /\ dig \in [0..15 -> Chars]
    BY ValueIs
  <2>2. \A d \in 0..15 : Value(dig[d]) = d
    BY ValueIs
  <2> QED BY <2>1, <2>2 DEF DigitsOf
<1>3. ASSUME NEW m \in 0..n PROVE /\ m < 16 => dig[m] = HexDigit(m)
                                  /\ dig[m % 16] = HexDigit(m % 16)
  <2>1. m % 16 \in 0..15
    OBVIOUS
  <2>2. m < 16 => m \in 0..15
    OBVIOUS
  <2> QED BY <2>1, <2>2
<1> HIDE DEF dig
<1>4. ASSUME NEW f, Is(f) PROVE Writes(f, n, 16, dig)
  <2>1. ASSUME NEW m \in 0..n
        PROVE  f[m] = IF m < 16 THEN <<dig[m]>> ELSE f[m \div 16] \o <<dig[m % 16]>>
    <3>1. f[m] = IF m < 16 THEN <<HexDigit(m)>> ELSE f[m \div 16] \o <<HexDigit(m % 16)>>
      BY <1>4, Zenon
    <3> QED BY <1>3, <3>1, Zenon
  <2> QED BY <2>1 DEF Writes
<1>5. PICK g \in [0..n -> Seq(Chars)] : Writes(g, n, 16, dig)
  BY <1>2, WritesExists
<1>6. Is(g)
  <2>1. ASSUME NEW m \in 0..n
        PROVE  g[m] = IF m < 16 THEN <<HexDigit(m)>> ELSE g[m \div 16] \o <<HexDigit(m % 16)>>
    <3>1. g[m] = IF m < 16 THEN <<dig[m]>> ELSE g[m \div 16] \o <<dig[m % 16]>>
      BY <1>5, Zenon DEF Writes
    <3> QED BY <1>3, <3>1, Zenon
  <2> QED BY <1>5, <2>1, Zenon
<1>7. Is(digits)
  BY <1>6, Zenon
<1> HIDE DEF Is, digits
<1>8. n \in 0..n
  OBVIOUS
<1> QED BY <1>1, <1>2, <1>4, <1>7, <1>8, WritesNumerals

---------------------------------------------------------------------------
(***************************************************************************)
(* Finding a character: the first place of it from a place on, if there is *)
(* one.                                                                    *)
(***************************************************************************)

(* A piece of a text.                                                      *)
LEMMA PieceIs ==
    ASSUME NEW S, NEW str \in Seq(S), NEW i \in Nat \ {0}, NEW j \in Nat, j <= Len(str), i <= j + 1
    PROVE  /\ SubSeq(str, i, j) \in Seq(S) /\ Len(SubSeq(str, i, j)) = j + 1 - i
           /\ \A k \in 1..(j + 1 - i) :
                  SubSeq(str, i, j)[k] = str[i + k - 1] /\ i + k - 1 \in i..j
<1>1. Len(str) \in Nat /\ \A k \in 1..Len(str) : str[k] \in S
  BY ElementsOf
<1>2. /\ i \in Int /\ j \in Int /\ (IF i <= j THEN j - i + 1 ELSE 0) = j + 1 - i
      /\ j - i + 1 = j + 1 - i /\ \A k \in 1..(j + 1 - i) : i + k - 1 \in i..j
      /\ \A k \in i..j : k \in 1..Len(str)
  BY <1>1
<1>3. \A k \in i..j : str[k] \in S
  BY <1>1, <1>2
<1>4. /\ SubSeq(str, i, j) \in Seq(S)
      /\ Len(SubSeq(str, i, j)) = IF i <= j THEN j - i + 1 ELSE 0
      /\ \A k \in 1..(j - i + 1) : SubSeq(str, i, j)[k] = str[i + k - 1]
  BY <1>2, <1>3, SubSeqProperties
<1> QED BY <1>2, <1>4

(* Of one character.                                                       *)
LEMMA PieceOne ==
    ASSUME NEW S, NEW str \in Seq(S), NEW i \in 1..Len(str)
    PROVE  SubSeq(str, i, i) = <<str[i]>>
<1>1. Len(str) \in Nat /\ str[i] \in S
  BY ElementsOf
<1>2. i \in Nat \ {0} /\ i \in Nat /\ i <= Len(str) /\ i <= i + 1 /\ i + 1 - i = 1 /\ i + 1 - 1 = i
  BY <1>1
<1> DEFINE a == SubSeq(str, i, i)
           x == str[i]
           b == <<x>>
<1>3. a \in Seq(S) /\ Len(a) = 1 /\ a[1] = x
  <2>1. /\ a \in Seq(S) /\ Len(a) = i + 1 - i
        /\ \A k \in 1..(i + 1 - i) : a[k] = str[i + k - 1] /\ i + k - 1 \in i..i
    BY <1>2, PieceIs
  <2> HIDE DEF a
  <2>2. 1 \in 1..1
    OBVIOUS
  <2> QED BY <1>2, <2>1, <2>2
<1> HIDE DEF a, x
<1>4. b \in Seq(S) /\ Len(b) = 1 /\ b[1] = x
  <2>1. b \in Seq(S)
    BY <1>1 DEF x
  <2>2. Len(b) = 1 /\ b[1] = x
    OBVIOUS
  <2> QED BY <2>1, <2>2
<1> HIDE DEF b
<1>5. \A k \in 1..1 : a[k] = b[k]
  <2>1. \A k \in 1..1 : k = 1
    OBVIOUS
  <2> QED BY <1>3, <1>4, <2>1
<1>6. a = b
  BY <1>3, <1>4, <1>5, SeqEqual
<1> QED BY <1>6 DEF a, b, x

\* e is where c is found in str from i on, 0 where it is not.
FoundAt(e, str, c, i) ==
    \/ e = 0 /\ \A j \in i..Len(str) : str[j] # c
    \/ e \in i..Len(str) /\ str[e] = c /\ \A j \in i..(e - 1) : str[j] # c

(* FindFrom finds the first.                                               *)
LEMMA FindIs ==
    ASSUME NEW S, NEW str \in Seq(S), NEW c \in S, NEW i \in Nat \ {0}
    PROVE  FoundAt(FindFrom(str, <<c>>, i), str, c, i)
<1> DEFINE T == {j \in i..Len(str) : str[j] = c}
           e == FindFrom(str, <<c>>, i)
<1>1. Len(str) \in Nat
  BY ElementsOf
<1>2. e = IF T = {} THEN 0 ELSE Min(T)
  <2> DEFINE at == {j \in i..(Len(str) - Len(<<c>>) + 1) :
                       SubSeq(str, j, j + Len(<<c>>) - 1) = <<c>>}
  <2>1. e = IF at = {} THEN 0 ELSE Min(at)
    BY Zenon DEF FindFrom
  <2>2. Len(<<c>>) = 1 /\ <<c>>[1] = c
    OBVIOUS
  <2>3. /\ Len(str) - Len(<<c>>) + 1 = Len(str)
        /\ \A j \in i..Len(str) : j + Len(<<c>>) - 1 = j /\ j \in 1..Len(str)
    BY <1>1, <2>2
  <2>4. ASSUME NEW j \in i..Len(str)
        PROVE  (SubSeq(str, j, j + Len(<<c>>) - 1) = <<c>>) <=> (str[j] = c)
    <3>1. SubSeq(str, j, j) = <<str[j]>>
      BY <2>3, PieceOne
    <3> DEFINE x == str[j]
    <3> HIDE DEF x
    <3>2. <<x>>[1] = x
      OBVIOUS
    <3>3. (<<x>> = <<c>>) <=> (x = c)
      BY <2>2, <3>2, Zenon
    <3> QED BY <2>3, <3>1, <3>3, Zenon DEF x
  <2>5. at = T
    <3> HIDE DEF e
    <3> QED BY <2>3, <2>4
  <2> QED BY <2>1, <2>5, Zenon
<1> HIDE DEF e
<1>3. ASSUME T = {} PROVE FoundAt(e, str, c, i)
  BY <1>2, <1>3 DEF FoundAt
<1>4. ASSUME T # {} PROVE FoundAt(e, str, c, i)
  <2>1. T \subseteq Nat
    OBVIOUS
  <2>2. e \in T /\ \A j \in T : e <= j
    <3> HIDE DEF T
    <3> QED BY <1>2, <1>4, <2>1, LeastOf
  <2>3. e \in i..Len(str) /\ str[e] = c
    BY <2>2
  <2>4. ASSUME NEW j \in i..(e - 1), str[j] = c PROVE FALSE
    <3>1. j \in i..Len(str) /\ ~(e <= j)
      BY <1>1, <2>3
    <3>2. j \in T
      BY <2>4, <3>1
    <3> QED BY <2>2, <3>1, <3>2
  <2> QED BY <2>3, <2>4 DEF FoundAt
<1> QED BY <1>3, <1>4 DEF e

(* There is only one such place.                                           *)
LEMMA FoundOnce ==
    ASSUME NEW str, Len(str) \in Nat, NEW c, NEW i \in Nat \ {0}, NEW e, NEW f,
           FoundAt(e, str, c, i), FoundAt(f, str, c, i)
    PROVE  e = f
<1>1. CASE e = 0 /\ \A j \in i..Len(str) : str[j] # c
  BY <1>1 DEF FoundAt
<1>2. CASE e \in i..Len(str) /\ str[e] = c /\ \A j \in i..(e - 1) : str[j] # c
  <2>1. f \in i..Len(str) /\ str[f] = c /\ \A j \in i..(f - 1) : str[j] # c
    BY <1>2 DEF FoundAt
  <2>2. ~(f < e) /\ ~(e < f)
    BY <1>2, <2>1
  <2> QED BY <1>2, <2>1, <2>2
<1> QED BY <1>1, <1>2 DEF FoundAt

---------------------------------------------------------------------------
(***************************************************************************)
(* html_decode. The argument: at an ampersand that begins an entity,       *)
(* decoding takes the replacement and goes on behind the semicolon, and    *)
(* everywhere else it copies a character. The numeral of a code has no     *)
(* semicolon, so that the whole of it is read.                             *)
(***************************************************************************)

(* Short texts and their characters.                                       *)
LEMMA ShortTexts ==
    ASSUME NEW S, NEW a \in S, NEW b \in S, NEW c \in S, NEW d \in S
    PROVE  /\ <<a>> \in Seq(S) /\ Len(<<a>>) = 1 /\ <<a>>[1] = a
           /\ <<a, b>> \in Seq(S) /\ Len(<<a, b>>) = 2 /\ <<a, b>>[1] = a /\ <<a, b>>[2] = b
           /\ <<a, b, c>> \in Seq(S) /\ Len(<<a, b, c>>) = 3 /\ <<a, b, c>>[1] = a
           /\ <<a, b, c>>[2] = b /\ <<a, b, c>>[3] = c
           /\ <<a, b, c, d>> \in Seq(S) /\ Len(<<a, b, c, d>>) = 4 /\ <<a, b, c, d>>[1] = a
           /\ <<a, b, c, d>>[2] = b /\ <<a, b, c, d>>[3] = c /\ <<a, b, c, d>>[4] = d
<1>1. <<a>> \in Seq(S) /\ Len(<<a>>) = 1 /\ <<a>>[1] = a
  OBVIOUS
<1>2. <<a, b>> \in Seq(S) /\ Len(<<a, b>>) = 2 /\ <<a, b>>[1] = a /\ <<a, b>>[2] = b
  OBVIOUS
<1>3. /\ <<a, b, c>> \in Seq(S) /\ Len(<<a, b, c>>) = 3 /\ <<a, b, c>>[1] = a
      /\ <<a, b, c>>[2] = b /\ <<a, b, c>>[3] = c
  OBVIOUS
<1>4. /\ <<a, b, c, d>> \in Seq(S) /\ Len(<<a, b, c, d>>) = 4 /\ <<a, b, c, d>>[1] = a
      /\ <<a, b, c, d>>[2] = b /\ <<a, b, c, d>>[3] = c /\ <<a, b, c, d>>[4] = d
  OBVIOUS
<1> QED BY <1>1, <1>2, <1>3, <1>4

(* A leading byte and the bytes it asks for are well-formed.               *)
LEMMA CharacterComplete ==
    ASSUME NEW data \in Seq(0..255), NEW k \in Nat, Len(data) = k + 1,
           ~Continuation(data[1]), ExpectedAfter(data[1]) = k,
           \A i \in 2..(k + 1) : Continuation(data[i])
    PROVE  Complete(data)
<1>1. DOMAIN data = 1..(k + 1)
  BY ElementsOf
<1>2. LeadBytes(data) = {1}
  <2>1. \A i \in 1..(k + 1) : i = 1 \/ i \in 2..(k + 1)
    OBVIOUS
  <2>2. 1 \in 1..(k + 1)
    OBVIOUS
  <2> QED BY <1>1, <2>1, <2>2 DEF LeadBytes
<1>3. NextAfter(data, 1) = k + 2
  <2>1. NextAfter(data, 1) \in 2..(k + 2)
        /\ (NextAfter(data, 1) \in LeadBytes(data) \/ NextAfter(data, 1) = k + 2)
    <3>1. /\ NextAfter(data, 1) \in (1 + 1)..(Len(data) + 1)
          /\ NextAfter(data, 1) \in LeadBytes(data) \/ NextAfter(data, 1) = Len(data) + 1
      BY <1>2, NextLeadIs
    <3>2. 1 + 1 = 2 /\ Len(data) + 1 = k + 2
      OBVIOUS
    <3> QED BY <3>1, <3>2
  <2>2. 1 \notin 2..(k + 2)
    OBVIOUS
  <2> QED BY <1>2, <2>1, <2>2
<1>4. (k + 2) - 1 - 1 = k
  OBVIOUS
<1> QED BY <1>2, <1>3, <1>4 DEF Complete

(* What a leading byte asks for.                                           *)
LEMMA AskedFor ==
    ASSUME NEW byte \in 0..255
    PROVE  /\ byte \in 0..127 => ~Continuation(byte) /\ ExpectedAfter(byte) = 0
           /\ byte \in 192..223 => ~Continuation(byte) /\ ExpectedAfter(byte) = 1
           /\ byte \in 224..239 => ~Continuation(byte) /\ ExpectedAfter(byte) = 2
           /\ byte \in 240..247 => ~Continuation(byte) /\ ExpectedAfter(byte) = 3
<1> DEFINE low == byte < 128
           two == byte \in 192..223
           three == byte \in 224..239
           four == byte \in 240..247
<1>1. /\ byte \in 0..127 <=> low
      /\ low => ~two /\ ~three /\ ~four
      /\ two => ~low /\ ~three /\ ~four
      /\ three => ~low /\ ~two /\ ~four
      /\ four => ~low /\ ~two /\ ~three
      /\ low \/ two \/ three \/ four => byte \notin 128..191
  OBVIOUS
<1>2. /\ low /\ ~two /\ ~three /\ ~four => ExpectedAfter(byte) = 0
      /\ two /\ ~low /\ ~three /\ ~four => ExpectedAfter(byte) = 1
      /\ three /\ ~low /\ ~two /\ ~four => ExpectedAfter(byte) = 2
      /\ four /\ ~low /\ ~two /\ ~three => ExpectedAfter(byte) = 3
  <2>1. ExpectedAfter(byte) = CASE low -> 0 [] two -> 1 [] three -> 2 [] four -> 3
                                  [] OTHER -> -1
    BY DEF ExpectedAfter
  <2> HIDE DEF low, two, three, four
  <2>2. low /\ ~two /\ ~three /\ ~four => ExpectedAfter(byte) = 0
    BY <2>1, Zenon
  <2>3. two /\ ~low /\ ~three /\ ~four => ExpectedAfter(byte) = 1
    BY <2>1, Zenon
  <2>4. three /\ ~low /\ ~two /\ ~four => ExpectedAfter(byte) = 2
    BY <2>1, Zenon
  <2>5. four /\ ~low /\ ~two /\ ~three => ExpectedAfter(byte) = 3
    BY <2>1, Zenon
  <2> QED BY <2>2, <2>3, <2>4, <2>5
<1>3. /\ low => ExpectedAfter(byte) = 0
      /\ two => ExpectedAfter(byte) = 1
      /\ three => ExpectedAfter(byte) = 2
      /\ four => ExpectedAfter(byte) = 3
  <2> HIDE DEF low, two, three, four
  <2> QED BY <1>1, <1>2
<1>4. low \/ two \/ three \/ four => ~Continuation(byte)
  BY <1>1 DEF Continuation
<1> QED BY <1>1, <1>3, <1>4

(* What html_decode writes for a code.                                     *)
LEMMA Utf8Cases ==
    ASSUME NEW code \in Nat
    PROVE  \/ code \in 0..127 /\ Utf8(code) = <<code>>
           \/ /\ code \in 128..2047
              /\ Utf8(code) = <<192 + (code \div 64), SixBits(code)>>
           \/ /\ code > 2047 /\ HighBits(code) \in 0..15
              /\ Utf8(code) = <<224 + HighBits(code), SixBits(code \div 64), SixBits(code)>>
           \/ /\ HighBits(code) \in 16..271
              /\ Utf8(code) = <<240 + (HighBits(code) \div 64), SixBits(HighBits(code)),
                                  SixBits(code \div 64), SixBits(code)>>
           \/ Utf8(code) = <<>>
<1> DEFINE one == code \in 0..127
           two == code \in 128..2047
           three == code > 2047 /\ HighBits(code) \in 0..15
           four == HighBits(code) \in 16..271
           a == <<code>>
           b == <<192 + (code \div 64), SixBits(code)>>
           c == <<224 + HighBits(code), SixBits(code \div 64), SixBits(code)>>
           d == <<240 + (HighBits(code) \div 64), SixBits(HighBits(code)),
                  SixBits(code \div 64), SixBits(code)>>
<1>1. Utf8(code) = CASE one -> a [] two -> b [] three -> c [] four -> d [] OTHER -> <<>>
  BY Zenon DEF Utf8
<1>2. /\ one => ~two /\ ~three /\ ~four
      /\ two => ~one /\ ~three /\ ~four
      /\ three => ~one /\ ~two /\ ~four
      /\ four => ~one /\ ~two /\ ~three
  BY SMTT(30) DEF HighBits
<1> DEFINE u == Utf8(code)
<1> HIDE DEF one, two, three, four, a, b, c, d, u
<1>3. one => u = a
  BY <1>1, <1>2, Zenon DEF u
<1>4. two => u = b
  BY <1>1, <1>2, Zenon DEF u
<1>5. three => u = c
  BY <1>1, <1>2, Zenon DEF u
<1>6. four => u = d
  BY <1>1, <1>2, Zenon DEF u
<1>7. ~one /\ ~two /\ ~three /\ ~four => u = <<>>
  BY <1>1, <1>2, Zenon DEF u
<1>8. (one /\ u = a) \/ (two /\ u = b) \/ (three /\ u = c) \/ (four /\ u = d) \/ u = <<>>
  BY <1>3, <1>4, <1>5, <1>6, <1>7, Zenon
<1> QED BY <1>8, Zenon DEF one, two, three, four, a, b, c, d, u

(* What html_decode writes for a code is well-formed, or nothing.          *)
LEMMA Utf8Right ==
    ASSUME NEW code \in Nat
    PROVE  Utf8(code) \in Seq(0..255) /\ Complete(Utf8(code))
<1> DEFINE s == Utf8(code)
           six(n) == SixBits(n)
           high == HighBits(code)
<1>0. \A n \in Nat : six(n) \in 128..191
  BY DEF SixBits
<1>1. \A n \in Nat : six(n) \in 0..255 /\ Continuation(six(n))
  <2> HIDE DEF six
  <2> QED BY <1>0 DEF Continuation
<1> HIDE DEF six
<1>2. CASE code \in 0..127 /\ s = <<code>>
  <2>1. s = <<code>>
    BY <1>2
  <2>2. code \in 0..255
    BY <1>2
  <2>3. s \in Seq(0..255) /\ Len(s) = 0 + 1 /\ s[1] = code
    BY <2>1, <2>2, ShortTexts
  <2> HIDE DEF s
  <2>4. ~Continuation(s[1]) /\ ExpectedAfter(s[1]) = 0
    <3>1. code \in 0..127
      BY <1>2
    <3> QED BY <2>2, <2>3, <3>1, AskedFor
  <2>5. \A i \in 2..(0 + 1) : Continuation(s[i])
    OBVIOUS
  <2>6. Complete(s)
    BY <2>3, <2>4, <2>5, CharacterComplete
  <2> QED BY <2>3, <2>6 DEF s
<1>3. CASE code \in 128..2047 /\ s = <<192 + (code \div 64), six(code)>>
  <2> DEFINE lead == 192 + (code \div 64)
             b == six(code)
  <2>1. s = <<lead, b>>
    BY <1>3
  <2>2. lead \in 192..223 /\ lead \in 0..255 /\ b \in 0..255 /\ Continuation(b)
    BY <1>1, <1>3
  <2> HIDE DEF lead, b
  <2>3. s \in Seq(0..255) /\ Len(s) = 1 + 1 /\ s[1] = lead /\ s[2] = b
    BY <2>1, <2>2, ShortTexts
  <2> HIDE DEF s
  <2>4. ~Continuation(s[1]) /\ ExpectedAfter(s[1]) = 1
    BY <2>2, <2>3, AskedFor
  <2>5. \A i \in 2..(1 + 1) : Continuation(s[i])
    <3>1. \A i \in 2..(1 + 1) : i = 2
      OBVIOUS
    <3> QED BY <2>2, <2>3, <3>1
  <2>6. Complete(s)
    BY <2>3, <2>4, <2>5, CharacterComplete
  <2> QED BY <2>3, <2>6 DEF s
<1>4. CASE /\ high \in 0..15 /\ code > 2047
           /\ s = <<224 + high, six(code \div 64), six(code)>>
  <2> DEFINE lead == 224 + high
             b == six(code \div 64)
             c == six(code)
  <2>1. s = <<lead, b, c>>
    BY <1>4
  <2>2. /\ lead \in 224..239 /\ lead \in 0..255 /\ b \in 0..255 /\ c \in 0..255
        /\ Continuation(b) /\ Continuation(c)
    <3>1. code \div 64 \in Nat
      OBVIOUS
    <3> QED BY <1>1, <1>4, <3>1
  <2> HIDE DEF lead, b, c
  <2>3. s \in Seq(0..255) /\ Len(s) = 2 + 1 /\ s[1] = lead /\ s[2] = b /\ s[3] = c
    BY <2>1, <2>2, ShortTexts
  <2> HIDE DEF s
  <2>4. ~Continuation(s[1]) /\ ExpectedAfter(s[1]) = 2
    BY <2>2, <2>3, AskedFor
  <2>5. \A i \in 2..(2 + 1) : Continuation(s[i])
    <3>1. \A i \in 2..(2 + 1) : i = 2 \/ i = 3
      OBVIOUS
    <3> QED BY <2>2, <2>3, <3>1
  <2>6. Complete(s)
    BY <2>3, <2>4, <2>5, CharacterComplete
  <2> QED BY <2>3, <2>6 DEF s
<1>5. CASE /\ high \in 16..271
           /\ s = <<240 + (high \div 64), six(high), six(code \div 64), six(code)>>
  <2> DEFINE lead == 240 + (high \div 64)
             b == six(high)
             c == six(code \div 64)
             d == six(code)
  <2>1. s = <<lead, b, c, d>>
    BY <1>5
  <2>2. /\ lead \in 240..247 /\ lead \in 0..255 /\ b \in 0..255 /\ c \in 0..255 /\ d \in 0..255
        /\ Continuation(b) /\ Continuation(c) /\ Continuation(d)
    <3>1. code \div 64 \in Nat /\ high \in Nat
      BY DEF HighBits
    <3> HIDE DEF high
    <3> QED BY <1>1, <1>5, <3>1
  <2> HIDE DEF lead, b, c, d
  <2>3. /\ s \in Seq(0..255) /\ Len(s) = 3 + 1 /\ s[1] = lead /\ s[2] = b /\ s[3] = c
        /\ s[4] = d
    BY <2>1, <2>2, ShortTexts
  <2> HIDE DEF s
  <2>4. ~Continuation(s[1]) /\ ExpectedAfter(s[1]) = 3
    BY <2>2, <2>3, AskedFor
  <2>5. \A i \in 2..(3 + 1) : Continuation(s[i])
    <3>1. \A i \in 2..(3 + 1) : i = 2 \/ i = 3 \/ i = 4
      OBVIOUS
    <3> QED BY <2>2, <2>3, <3>1
  <2>6. Complete(s)
    BY <2>3, <2>4, <2>5, CharacterComplete
  <2> QED BY <2>3, <2>6 DEF s
<1>6. CASE s = <<>>
  <2>1. <<>> \in Seq(0..255) /\ LeadBytes(<<>>) = {}
    BY DEF LeadBytes
  <2>2. Complete(<<>>)
    BY <2>1 DEF Complete
  <2> QED BY <1>6, <2>1, <2>2
<1>7. \/ code \in 0..127 /\ s = <<code>>
      \/ code \in 128..2047 /\ s = <<192 + (code \div 64), six(code)>>
      \/ /\ high \in 0..15 /\ code > 2047
         /\ s = <<224 + high, six(code \div 64), six(code)>>
      \/ /\ high \in 16..271
         /\ s = <<240 + (high \div 64), six(high), six(code \div 64), six(code)>>
      \/ s = <<>>
  BY Utf8Cases DEF six
<1> HIDE DEF s, high
<1> QED BY <1>2, <1>3, <1>4, <1>5, <1>6, <1>7 DEF s

(* A piece of a text, from what stands there.                              *)
LEMMA PieceEqual ==
    ASSUME NEW S, NEW str \in Seq(S), NEW b \in Seq(S), NEW at \in Nat,
           at + Len(b) <= Len(str), \A k \in 1..Len(b) : str[at + k] = b[k]
    PROVE  SubSeq(str, at + 1, at + Len(b)) = b
<1> DEFINE p == SubSeq(str, at + 1, at + Len(b))
           m == Len(b)
<1>1. m \in Nat /\ Len(str) \in Nat
  OBVIOUS
<1>2. /\ at + 1 \in Nat \ {0} /\ at + m \in Nat /\ at + 1 <= at + m + 1
      /\ at + m + 1 - (at + 1) = m /\ at + m <= Len(str)
  BY <1>1
<1>3. p \in Seq(S) /\ Len(p) = m /\ \A k \in 1..m : p[k] = str[at + 1 + k - 1]
  <2> HIDE DEF m
  <2> QED BY <1>2, PieceIs DEF m
<1>4. ASSUME NEW k \in 1..m PROVE p[k] = b[k]
  <2>1. at + 1 + k - 1 = at + k
    BY <1>1
  <2> HIDE DEF p
  <2> QED BY <1>3, <2>1
<1> HIDE DEF p
<1>5. p = b
  BY <1>3, <1>4, SeqEqual
<1> QED BY <1>5 DEF p

(* What is behind the beginning of a text.                                 *)
LEMMA FromBehind ==
    ASSUME NEW S, NEW a \in Seq(S), NEW b \in Seq(S)
    PROVE  From(a \o b, Len(a) + 1) = b
<1> DEFINE w == a \o b
<1>1. /\ w \in Seq(S) /\ Len(w) = Len(a) + Len(b) /\ Len(a) \in Nat /\ Len(b) \in Nat
      /\ \A k \in 1..Len(b) : w[Len(a) + k] = b[k]
  BY ConcatIs
<1> HIDE DEF w
<1>2. Len(a) + Len(b) <= Len(w)
  BY <1>1
<1>3. SubSeq(w, Len(a) + 1, Len(a) + Len(b)) = b
  BY <1>1, <1>2, PieceEqual
<1> QED BY <1>1, <1>3 DEF From, w

(* The digits a text begins with are a piece of it.                        *)
LEMMA DigitsTyped ==
    ASSUME NEW str \in Seq(Chars), NEW base \in {10, 16}
    PROVE  Digits(str, base) \in Seq(Chars)
<1> DEFINE T == {i \in DOMAIN str : Value(str[i]) >= base} \cup {Len(str) + 1}
           m == Min(T)
<1>1. Len(str) \in Nat /\ DOMAIN str = 1..Len(str)
  BY ElementsOf
<1>2. m \in 1..(Len(str) + 1)
  <2>1. T \subseteq Nat /\ T # {} /\ \A i \in T : i \in 1..(Len(str) + 1)
    BY <1>1
  <2> HIDE DEF T
  <2> QED BY <2>1, LeastOf
<1>3. Digits(str, base) = SubSeq(str, 1, m - 1)
  BY DEF Digits
<1> HIDE DEF m
<1>4. m - 1 \in Nat /\ m - 1 <= Len(str) /\ 1 <= m - 1 + 1 /\ 1 \in Nat \ {0}
  BY <1>1, <1>2
<1> QED BY <1>3, <1>4, PieceIs

(* A replacement is a text.                                                *)
LEMMA ReplacementTyped ==
    ASSUME NEW entity \in Seq(Chars), Len(entity) >= 2, NEW table, EntitiesOK(table),
           NEW r \in Replacement(entity, table)
    PROVE  r \in Seq(Chars)
<1> DEFINE numeric == NumericEntity(entity)
<1>1. ASSUME NEW i \in {2, 3} PROVE From(entity, i) \in Seq(Chars)
  <2> DEFINE n == Len(entity)
  <2>1. n \in Nat /\ i \in Nat \ {0} /\ i <= n + 1 /\ n <= n
    OBVIOUS
  <2> HIDE DEF n
  <2>2. SubSeq(entity, i, n) \in Seq(Chars)
    BY <2>1, PieceIs DEF n
  <2> QED BY <2>2 DEF From, n
<1>2. numeric.digits \in Seq(Chars) /\ numeric.base \in {10, 16}
  <2>1. CASE Len(entity) > 2 /\ entity[2] \in {LowerX, 88}
    <3>1. numeric = [digits |-> Digits(From(entity, 3), 16), base |-> 16]
      BY <2>1, Zenon DEF NumericEntity
    <3>2. numeric.digits = Digits(From(entity, 3), 16) /\ numeric.base = 16
      BY <3>1
    <3>3. Digits(From(entity, 3), 16) \in Seq(Chars)
      BY <1>1, DigitsTyped
    <3> QED BY <3>2, <3>3
  <2>2. CASE ~(Len(entity) > 2 /\ entity[2] \in {LowerX, 88})
    <3>1. numeric = [digits |-> Digits(From(entity, 2), 10), base |-> 10]
      BY <2>2, Zenon DEF NumericEntity
    <3>2. numeric.digits = Digits(From(entity, 2), 10) /\ numeric.base = 10
      BY <3>1
    <3>3. Digits(From(entity, 2), 10) \in Seq(Chars)
      BY <1>1, DigitsTyped
    <3> QED BY <3>2, <3>3
  <2> QED BY <2>1, <2>2
<1> DEFINE code == Number(numeric.digits, numeric.base)
<1>3. code \in Nat
  <2> DEFINE digits == numeric.digits
             base == numeric.base
  <2> HIDE DEF digits, base
  <2>1. digits \in Seq(Chars) /\ base \in {10, 16}
    BY <1>2 DEF digits, base
  <2>2. PICK acc : Numbers(acc, digits, base) /\ Number(digits, base) = acc[Len(digits)]
    BY <2>1, NumberIs
  <2>3. Len(digits) \in 0..Len(digits)
    <3>1. Len(digits) \in Nat
      BY <2>1, ElementsOf
    <3> QED BY <3>1
  <2>4. Number(digits, base) \in Nat
    BY <2>2, <2>3 DEF Numbers
  <2> QED BY <2>4 DEF digits, base
<1>4. r = Utf8(code) \/ (entity \in DOMAIN table /\ r = table[entity])
  BY Zenon DEF Replacement
<1> HIDE DEF code
<1>5. CASE r = Utf8(code)
  BY <1>3, <1>5, Utf8Right DEF Chars
<1>6. CASE entity \in DOMAIN table /\ r = table[entity]
  BY <1>6, Zenon DEF EntitiesOK, Chars
<1> QED BY <1>4, <1>5, <1>6

\* What is found at i, and what is read.
HtmlFound(str, i, table) ==
    IF str[i] = 38 /\ FindFrom(str, <<59>>, i) # 0 /\ FindFrom(str, <<59>>, i) - i > 2
       THEN Replacement(SubSeq(str, i + 1, FindFrom(str, <<59>>, i) - 1), table) ELSE {}
HtmlTaken(str, i, table) ==
    IF HtmlFound(str, i, table) # {} THEN CHOOSE r \in HtmlFound(str, i, table) : TRUE
                                     ELSE <<str[i]>>
HtmlNext(str, i, table) ==
    IF HtmlFound(str, i, table) # {} THEN FindFrom(str, <<59>>, i) + 1 ELSE i + 1
DecodesHtml(d, str, table) ==
    /\ d[Len(str) + 1] = <<>>
    /\ \A i \in 1..Len(str) : d[i] = HtmlTaken(str, i, table) \o d[HtmlNext(str, i, table)]

(* html_decode is what its recursion says.                                 *)
LEMMA HtmlRecursion ==
    ASSUME NEW str \in Seq(Chars), NEW table, EntitiesOK(table)
    PROVE  \E d : DecodesHtml(d, str, table) /\ html_decode(str, table) = d[1]
<1> DEFINE n == Len(str)
           end(i) == FindFrom(str, <<59>>, i)
           found(i) == HtmlFound(str, i, table)
           Is(d) == d = [i \in 1..(n + 1) |->
                            IF i > n THEN <<>>
                            ELSE IF found(i) # {}
                                 THEN (CHOOSE r \in found(i) : TRUE) \o d[end(i) + 1]
                                                  ELSE <<str[i]>> \o d[i + 1]]
           decode == CHOOSE d : Is(d)
           A == Seq(Chars)
           Dom == 1..(n + 1)
           rank == [i \in Dom |-> n + 1 - i]
           stop == {n + 1}
           last == [i \in Dom |-> <<>>]
           reads == [i \in 1..n |-> HtmlTaken(str, i, table)]
           step == [i \in 1..n |-> [a \in A |-> reads[i] \o a]]
           next == [i \in 1..n |-> HtmlNext(str, i, table)]
<1>1. html_decode(str, table) = decode[1]
  BY Zenon DEF html_decode, HtmlFound, Semicolon, Ampersand
<1>2. n \in Nat /\ \A i \in 1..n : str[i] \in Chars
  BY ElementsOf
<1>3. ASSUME NEW i \in 1..n PROVE end(i) = 0 \/ end(i) \in i..n
  <2>1. i \in Nat \ {0} /\ 59 \in Chars
    BY <1>2 DEF Chars
  <2>2. FoundAt(end(i), str, 59, i)
    BY <2>1, FindIs
  <2> QED BY <2>2 DEF FoundAt
<1>4. ASSUME NEW i \in 1..n, found(i) # {}
      PROVE  /\ end(i) \in i..n /\ end(i) - i > 2
             /\ found(i) = Replacement(SubSeq(str, i + 1, end(i) - 1), table)
  <2>1. /\ end(i) # 0 /\ end(i) - i > 2
        /\ found(i) = Replacement(SubSeq(str, i + 1, end(i) - 1), table)
    BY <1>4, Zenon DEF HtmlFound
  <2> QED BY <1>3, <2>1
<1> HIDE DEF n, end, found
<1>5. ASSUME NEW i \in 1..n PROVE next[i] \in Dom /\ next[i] > i
  <2>1. HtmlNext(str, i, table) = IF found(i) # {} THEN end(i) + 1 ELSE i + 1
    BY Zenon DEF HtmlNext, found, end
  <2> QED BY <1>2, <1>4, <2>1
<1>6. ASSUME NEW i \in 1..n PROVE reads[i] \in A
  <2>1. HtmlTaken(str, i, table) =
            IF found(i) # {} THEN CHOOSE r \in found(i) : TRUE ELSE <<str[i]>>
    BY Zenon DEF HtmlTaken, found
  <2>2. CASE found(i) # {}
    <3> DEFINE e == end(i)
               entity == SubSeq(str, i + 1, e - 1)
    <3> HIDE DEF e
    <3>1. e \in i..n /\ e - i > 2
      BY <1>4, <2>2 DEF e
    <3>2. /\ i + 1 \in Nat \ {0} /\ e - 1 \in Nat /\ e - 1 <= Len(str) /\ i + 1 <= e - 1 + 1
          /\ e - 1 + 1 - (i + 1) >= 2
      BY <1>2, <3>1 DEF n
    <3>3. entity \in Seq(Chars) /\ Len(entity) = e - 1 + 1 - (i + 1)
      BY <3>2, PieceIs
    <3> HIDE DEF entity
    <3>4. Len(entity) >= 2
      BY <3>2, <3>3
    <3>5. found(i) = Replacement(entity, table)
      BY <1>4, <2>2 DEF e, entity
    <3>6. PICK r \in found(i) : r = CHOOSE q \in found(i) : TRUE
      BY <2>2, Zenon
    <3>7. r \in Seq(Chars)
      BY <3>3, <3>4, <3>5, ReplacementTyped
    <3> QED BY <2>1, <2>2, <3>6, <3>7
  <2>3. CASE found(i) = {}
    <3>1. <<str[i]>> \in Seq(Chars)
      BY <1>2, ShortTexts
    <3> QED BY <2>1, <2>3, <3>1
  <2> QED BY <2>2, <2>3
<1> HIDE DEF A, reads, decode
<1>7. ASSUME NEW i \in 1..n, NEW a \in A PROVE reads[i] \o a \in A
  BY <1>6, ConcatIs DEF A
<1>8. ASSUME NEW i \in Dom PROVE i = n + 1 \/ i \in 1..n
  BY <1>2
<1>9. \A i \in Dom : rank[i] \in 0..n
  BY <1>2
<1>10. \A i \in Dom \cap stop : last[i] \in A
  BY DEF A
<1>11. ASSUME NEW i \in Dom \ stop
       PROVE  next[i] \in Dom /\ rank[next[i]] < rank[i] /\ step[i] \in [A -> A]
  <2>1. i \in 1..n
    BY <1>8
  <2>2. next[i] \in Dom /\ next[i] > i
    BY <1>5, <2>1
  <2>3. step[i] \in [A -> A]
    BY <1>7, <2>1
  <2> HIDE DEF next, step
  <2>4. rank[next[i]] < rank[i]
    BY <1>2, <2>1, <2>2
  <2> QED BY <2>2, <2>3, <2>4
<1>12. PICK f \in [Dom -> A] : Solves(f, Dom, stop, last, step, next)
  <2>1. Recursion(Dom, A, n, rank, stop, last, step, next)
    <3> HIDE DEF Dom, rank, stop, last, step, next
    <3> QED BY <1>9, <1>10, <1>11 DEF Recursion
  <2> HIDE DEF Dom, rank, stop, last, step, next
  <2> QED BY <1>2, <2>1, RecursionExists
<1>13. f[n + 1] = <<>>
  <2>1. n + 1 \in Dom /\ n + 1 \in stop
    BY <1>2
  <2>2. last[n + 1] = <<>>
    BY <2>1
  <2> HIDE DEF Dom, stop, last, step, next
  <2> QED BY <1>12, <2>1, <2>2 DEF Solves
<1>14. ASSUME NEW i \in 1..n
       PROVE  f[i] = HtmlTaken(str, i, table) \o f[HtmlNext(str, i, table)]
  <2>1. i \in Dom /\ i \notin stop /\ next[i] \in Dom
    BY <1>2, <1>5
  <2>2. f[i] = step[i][f[next[i]]] /\ f[next[i]] \in A
    <3> HIDE DEF Dom, stop, last, step, next
    <3> QED BY <1>12, <2>1 DEF Solves
  <2>3. next[i] = HtmlNext(str, i, table)
    OBVIOUS
  <2> HIDE DEF next
  <2>4. step[i][f[next[i]]] = reads[i] \o f[next[i]]
    BY <2>2
  <2>5. reads[i] = HtmlTaken(str, i, table)
    BY DEF reads
  <2> QED BY <2>2, <2>3, <2>4, <2>5
<1>15. ASSUME NEW d, Is(d) PROVE DecodesHtml(d, str, table)
  <2>1. d[n + 1] = <<>>
    <3>1. n + 1 \in 1..(n + 1) /\ n + 1 > n
      BY <1>2
    <3> QED BY <1>15, <3>1, Zenon
  <2>2. ASSUME NEW i \in 1..n
        PROVE  d[i] = HtmlTaken(str, i, table) \o d[HtmlNext(str, i, table)]
    <3>1. i \in 1..(n + 1) /\ ~(i > n)
      BY <1>2
    <3>2. d[i] = IF found(i) # {} THEN (CHOOSE r \in found(i) : TRUE) \o d[end(i) + 1]
                                  ELSE <<str[i]>> \o d[i + 1]
      BY <1>15, <3>1, Zenon
    <3> QED BY <3>2, Zenon DEF HtmlTaken, HtmlNext, found, end
  <2> QED BY <2>1, <2>2 DEF DecodesHtml, n
<1>16. Is(f)
  <2>1. ASSUME NEW i \in Dom
        PROVE  f[i] = IF i > n THEN <<>>
                      ELSE IF found(i) # {} THEN (CHOOSE r \in found(i) : TRUE) \o f[end(i) + 1]
                                            ELSE <<str[i]>> \o f[i + 1]
    <3>1. CASE i = n + 1
      <4>1. i > n
        BY <1>2, <3>1
      <4> QED BY <1>13, <3>1, <4>1, Zenon
    <3>2. CASE i \in 1..n
      <4>1. ~(i > n)
        BY <1>2, <3>2
      <4>2. f[i] = HtmlTaken(str, i, table) \o f[HtmlNext(str, i, table)]
        BY <1>14, <3>2
      <4> QED BY <4>1, <4>2, Zenon DEF HtmlTaken, HtmlNext, found, end
    <3> QED BY <1>8, <3>1, <3>2
  <2> QED BY <1>12, <2>1, Zenon
<1>17. Is(decode)
  BY <1>16, Zenon DEF decode
<1> HIDE DEF Is
<1> QED BY <1>1, <1>15, <1>17

\* Three texts in a row.
Reassociates(x, y, z) == x \o (y \o z) = (x \o y) \o z

(* Concatenation is associative.                                           *)
LEMMA Associates ==
    ASSUME NEW S, NEW p1 \in Seq(S), NEW p2 \in Seq(S), NEW p3 \in Seq(S)
    PROVE  Reassociates(p1, p2, p3)
<1>1. p1 \o (p2 \o p3) = (p1 \o p2) \o p3
  OBVIOUS
<1> QED BY <1>1 DEF Reassociates

(* Where nothing is found, a character is copied.                          *)
LEMMA HtmlCopies ==
    ASSUME NEW str, NEW table, NEW d, DecodesHtml(d, str, table), NEW i \in 1..Len(str),
           str[i] # 38 \/ HtmlFound(str, i, table) = {}
    PROVE  d[i] = <<str[i]>> \o d[i + 1]
<1>1. HtmlFound(str, i, table) = {}
  BY Zenon DEF HtmlFound
<1>2. HtmlTaken(str, i, table) = <<str[i]>> /\ HtmlNext(str, i, table) = i + 1
  BY <1>1, Zenon DEF HtmlTaken, HtmlNext
<1> QED BY <1>2 DEF DecodesHtml

(* Where an entity ends, what it stands for is found.                      *)
LEMMA HtmlFinds ==
    ASSUME NEW str, NEW table, NEW i, str[i] = 38,
           FindFrom(str, << 59 >>, i) # 0, FindFrom(str, << 59 >>, i) - i > 2
    PROVE  HtmlFound(str, i, table) =
               Replacement(SubSeq(str, i + 1, FindFrom(str, << 59 >>, i) - 1), table)
BY Zenon DEF HtmlFound

(* An entity between two others characters is replaced, and nothing else,  *)
(* also when an ampersand is before it.                                    *)
LEMMA HtmlReads ==
    ASSUME NEW table, EntitiesOK(table), NEW e \in Seq(Chars), Len(e) >= 2,
           \A k \in 1..Len(e) : e[k] # 59,
           NEW v \in Seq(Chars), Replacement(e, table) = {v}
    PROVE  html_decode(<<38, 32, 38>> \o e \o <<59, 59>>, table) = <<38, 32>> \o v \o << 59 >>
<1> DEFINE before == <<38, 32, 38>>
           behind == <<59, 59>>
           str == before \o e \o behind
           n == Len(e)
<1>1. /\ before \in Seq(Chars) /\ Len(before) = 3 /\ before[1] = 38 /\ before[2] = 32
      /\ before[3] = 38
      /\ behind \in Seq(Chars) /\ Len(behind) = 2 /\ behind[1] = 59 /\ behind[2] = 59
  <2>1. 38 \in Chars /\ 32 \in Chars /\ 59 \in Chars
    BY DEF Chars
  <2> QED BY <2>1, ShortTexts
<1> HIDE DEF before, behind
<1>12. before \in Seq(Chars) /\ behind \in Seq(Chars)
  BY <1>1
<1>2. /\ str \in Seq(Chars) /\ Len(str) = n + 5 /\ n \in Nat
      /\ str[1] = 38 /\ str[2] = 32 /\ str[3] = 38
      /\ \A k \in 1..n : str[3 + k] = e[k]
      /\ str[n + 4] = 59 /\ str[n + 5] = 59
  <2> DEFINE front == before \o e
  <2>1. /\ front \in Seq(Chars) /\ Len(front) = Len(before) + Len(e) /\ Len(e) \in Nat
        /\ \A i \in 1..Len(before) : front[i] = before[i]
        /\ \A j \in 1..Len(e) : front[Len(before) + j] = e[j]
    BY <1>12, ConcatIs
  <2>10. front \in Seq(Chars)
    BY <2>1
  <2> HIDE DEF front
  <2>2. /\ front \o behind \in Seq(Chars) /\ Len(front \o behind) = Len(front) + Len(behind)
        /\ \A i \in 1..Len(front) : (front \o behind)[i] = front[i]
        /\ \A j \in 1..Len(behind) : (front \o behind)[Len(front) + j] = behind[j]
    BY <1>12, <2>10, ConcatIs
  <2>3. str = front \o behind
    BY DEF front
  <2> HIDE DEF str
  <2>4. Len(front) = n + 3 /\ n \in Nat /\ n + 3 + 1 = n + 4 /\ n + 3 + 2 = n + 5
    BY <1>1, <2>1
  <2> HIDE DEF n
  <2>5. front[1] = 38 /\ front[2] = 32 /\ front[3] = 38
    BY <1>1, <2>1
  <2>6. str[1] = 38 /\ str[2] = 32 /\ str[3] = 38
    BY <2>2, <2>3, <2>4, <2>5
  <2>7. ASSUME NEW k \in 1..n PROVE str[3 + k] = e[k]
    <3>1. 3 + k \in 1..Len(front)
      BY <2>4
    <3>2. front[3 + k] = e[k]
      BY <1>1, <2>1 DEF n
    <3> QED BY <2>2, <2>3, <3>1, <3>2
  <2>8. str[n + 4] = 59 /\ str[n + 5] = 59
    <3>1. 1 \in 1..Len(behind) /\ 2 \in 1..Len(behind)
      BY <1>1
    <3> QED BY <1>1, <2>2, <2>3, <2>4, <3>1
  <2> QED BY <1>1, <2>2, <2>3, <2>4, <2>6, <2>7, <2>8
<1> DEFINE written == <<38, 32, 38>> \o e \o <<59, 59>>
<1>3. str = written
  BY DEF before, behind
<1> HIDE DEF str, written
<1>4. PICK d : DecodesHtml(d, str, table) /\ html_decode(str, table) = d[1]
  BY <1>2, HtmlRecursion
<1>11. \A k \in 1..n : str[3 + k] # 59
  BY <1>2
<1> HIDE DEF n
<1>5. ASSUME NEW i \in {1, 3} PROVE FindFrom(str, <<59>>, i) = n + 4
  <2>1. FoundAt(n + 4, str, 59, i)
    <3>1. n + 4 \in i..Len(str)
      BY <1>2
    <3>2. ASSUME NEW j \in i..(n + 4 - 1) PROVE str[j] # 59
      <4>1. j = 1 \/ j = 2 \/ j = 3 \/ (j - 3 \in 1..n /\ j = 3 + (j - 3))
        <5>1. n \in Nat
          BY <1>2
        <5> QED BY <5>1
      <4>2. str[1] # 59 /\ str[2] # 59 /\ str[3] # 59
        BY <1>2
      <4> QED BY <1>11, <4>1, <4>2
    <3> QED BY <1>2, <3>1, <3>2 DEF FoundAt
  <2>2. FoundAt(FindFrom(str, <<59>>, i), str, 59, i)
    <3>1. 59 \in Chars /\ i \in Nat \ {0}
      BY DEF Chars
    <3> QED BY <1>2, <3>1, FindIs
  <2>3. Len(str) \in Nat /\ i \in Nat \ {0}
    BY <1>2
  <2> QED BY <2>1, <2>2, <2>3, FoundOnce
<1>6. d[1] = <<38>> \o d[2]
  <2> DEFINE found == HtmlFound(str, 1, table)
             entity == SubSeq(str, 2, n + 3)
  <2>1. n + 4 # 0 /\ n + 4 - 1 > 2 /\ 1 + 1 = 2 /\ n + 4 - 1 = n + 3
    BY <1>2
  <2>2. found = Replacement(entity, table)
    <3> DEFINE m == FindFrom(str, <<59>>, 1)
    <3>1. m = n + 4 /\ str[1] = 38 /\ m # 0 /\ m - 1 > 2
      BY <1>2, <1>5, <2>1
    <3>2. HtmlFound(str, 1, table) = Replacement(SubSeq(str, 1 + 1, m - 1), table)
      BY <3>1, HtmlFinds
    <3> HIDE DEF m
    <3>3. m - 1 = n + 3 /\ 1 + 1 = 2
      BY <1>2, <3>1
    <3> QED BY <3>2, <3>3
  <2>3. entity \in Seq(Chars) /\ Len(entity) >= 2 /\ entity[1] = 32
    <3>1. /\ 2 \in Nat \ {0} /\ n + 3 \in Nat /\ n + 3 <= Len(str) /\ 2 <= n + 3 + 1
          /\ n + 3 + 1 - 2 = n + 2 /\ 1 \in 1..(n + 2) /\ 2 + 1 - 1 = 2
      BY <1>2
    <3>2. /\ SubSeq(str, 2, n + 3) \in Seq(Chars) /\ Len(SubSeq(str, 2, n + 3)) = n + 2
          /\ \A k \in 1..(n + 2) : SubSeq(str, 2, n + 3)[k] = str[2 + k - 1]
      BY <1>2, <3>1, PieceIs
    <3>3. SubSeq(str, 2, n + 3)[1] = 32
      BY <1>2, <3>1, <3>2
    <3> HIDE DEF entity
    <3> QED BY <1>2, <3>2, <3>3 DEF entity
  <2> HIDE DEF entity
  <2>4. entity \notin DOMAIN table
    <3>1. ASSUME entity \in DOMAIN table PROVE FALSE
      <4>1. \A i \in 1..Len(entity) : entity[i] \in 48..57 \cup 65..90 \cup 97..122
        BY <3>1, Zenon DEF EntitiesOK, Digit
      <4>2. 1 \in 1..Len(entity)
        BY <2>3
      <4>3. entity[1] = 32
        BY <2>3
      <4>4. entity[1] \in 48..57 \cup 65..90 \cup 97..122
        BY <4>1, <4>2, Zenon
      <4> QED BY <4>3, <4>4
    <3> QED BY <3>1
  <2>5. entity[1] # Hash
    BY <2>3 DEF Hash
  <2>6. found = {}
    BY <2>2, <2>4, <2>5, Zenon DEF Replacement
  <2>7. 1 \in 1..Len(str) /\ 1 + 1 = 2
    BY <1>2
  <2>8. d[1] = <<str[1]>> \o d[1 + 1]
    BY <1>4, <2>6, <2>7, HtmlCopies
  <2> QED BY <1>2, <2>7, <2>8
<1>7. d[2] = <<32>> \o d[3]
  <2>1. 2 \in 1..Len(str) /\ 2 + 1 = 3 /\ 32 # 38
    BY <1>2
  <2>2. d[2] = <<str[2]>> \o d[2 + 1]
    <3>1. str[2] # 38
      BY <1>2
    <3> QED BY <1>4, <2>1, <3>1, HtmlCopies
  <2> QED BY <1>2, <2>1, <2>2
<1>8. d[3] = v \o d[n + 5]
  <2>1. /\ n + 4 # 0 /\ n + 4 - 3 > 2 /\ 3 + 1 = 4 /\ n + 4 - 1 = 3 + n /\ n + 4 + 1 = n + 5
        /\ 3 \in 1..Len(str) /\ 3 \in Nat /\ 3 + n <= Len(str)
    BY <1>2 DEF n
  <2>2. SubSeq(str, 3 + 1, n + 4 - 1) = e
    <3>1. SubSeq(str, 3 + 1, 3 + n) = e
      BY <1>2, <2>1, PieceEqual DEF n
    <3> QED BY <2>1, <3>1
  <2>3. HtmlFound(str, 3, table) = {v}
    <3> DEFINE m == FindFrom(str, <<59>>, 3)
    <3>1. m = n + 4 /\ str[3] = 38 /\ m # 0 /\ m - 3 > 2
      BY <1>2, <1>5, <2>1
    <3>2. HtmlFound(str, 3, table) = Replacement(SubSeq(str, 3 + 1, m - 1), table)
      BY <3>1, HtmlFinds
    <3> HIDE DEF m
    <3>3. m = n + 4
      BY <3>1
    <3>4. SubSeq(str, 3 + 1, m - 1) = e
      <4> DEFINE x == m - 1
                 y == n + 4 - 1
                 z == 3 + 1
      <4>1. x = y
        BY <1>2, <3>3
      <4>2. SubSeq(str, z, y) = e
        BY <2>2
      <4> HIDE DEF x, y, z
      <4>3. SubSeq(str, z, x) = e
        BY <4>1, <4>2, Zenon
      <4> QED BY <4>3 DEF x, z
    <3> QED BY <3>2, <3>4, Zenon
  <2>4. HtmlTaken(str, 3, table) = v /\ HtmlNext(str, 3, table) = n + 5
    <3>1. {v} # {} /\ (CHOOSE r \in {v} : TRUE) = v
      OBVIOUS
    <3>2. FindFrom(str, <<59>>, 3) = n + 4
      BY <1>5
    <3> QED BY <2>1, <2>3, <3>1, <3>2, Zenon DEF HtmlTaken, HtmlNext
  <2> QED BY <1>4, <2>1, <2>4 DEF DecodesHtml
<1>9. d[n + 5] = <<59>>
  <2>1. n + 5 \in 1..Len(str) /\ n + 5 + 1 = Len(str) + 1 /\ 59 # 38
    BY <1>2
  <2>2. d[n + 5] = <<str[n + 5]>> \o d[n + 5 + 1]
    <3> DEFINE m == n + 5
    <3>1. m \in 1..Len(str) /\ str[m] # 38
      BY <1>2, <2>1
    <3> HIDE DEF m
    <3>2. d[m] = <<str[m]>> \o d[m + 1]
      BY <1>4, <3>1, HtmlCopies
    <3> QED BY <3>2 DEF m
  <2>3. d[n + 5 + 1] = <<>>
    BY <1>4, <2>1 DEF DecodesHtml
  <2>4. <<59>> \in Seq(Chars)
    <3>1. 59 \in Chars
      BY DEF Chars
    <3> QED BY <3>1, ShortTexts
  <2>5. <<59>> \o <<>> = <<59>>
    BY <2>4, ConcatEmptySeq
  <2> QED BY <1>2, <2>2, <2>3, <2>5
<1>10. d[1] = <<38, 32>> \o v \o <<59>>
  <2> DEFINE a == <<38>>
             b == <<32>>
             c == <<59>>
             ab == <<38, 32>>
  <2>1. /\ a \in Seq(Chars) /\ b \in Seq(Chars) /\ c \in Seq(Chars) /\ ab \in Seq(Chars)
        /\ Len(a) = 1 /\ a[1] = 38 /\ Len(b) = 1 /\ b[1] = 32
        /\ Len(ab) = 2 /\ ab[1] = 38 /\ ab[2] = 32
    <3>1. 38 \in Chars /\ 32 \in Chars /\ 59 \in Chars
      BY DEF Chars
    <3> QED BY <3>1, ShortTexts
  <2>2. d[1] = a \o (b \o (v \o c))
    BY <1>6, <1>7, <1>8, <1>9
  <2>3. ab \o v \o c = <<38, 32>> \o v \o <<59>>
    OBVIOUS
  <2> HIDE DEF a, b, c, ab
  <2>8. a \in Seq(Chars) /\ b \in Seq(Chars) /\ c \in Seq(Chars) /\ ab \in Seq(Chars)
    BY <2>1
  <2>4. a \o b = ab
    <3>1. /\ a \o b \in Seq(Chars) /\ Len(a \o b) = Len(a) + Len(b)
          /\ \A i \in 1..Len(a) : (a \o b)[i] = a[i]
          /\ \A j \in 1..Len(b) : (a \o b)[Len(a) + j] = b[j]
      BY <2>8, ConcatIs
    <3>2. (a \o b)[1] = 38 /\ (a \o b)[2] = 32 /\ Len(a \o b) = 2
      <4>1. (a \o b)[1] = a[1] /\ (a \o b)[1 + 1] = b[1]
        BY <2>1, <3>1
      <4> QED BY <2>1, <3>1, <4>1
    <3>3. \A i \in 1..2 : (a \o b)[i] = ab[i]
      <4>1. \A i \in 1..2 : i = 1 \/ i = 2
        OBVIOUS
      <4> QED BY <2>1, <3>2, <4>1
    <3> QED BY <2>1, <3>1, <3>2, <3>3, SeqEqual
  <2>5. v \o c \in Seq(Chars)
    <3>1. c \in Seq(Chars) /\ v \in Seq(Chars)
      BY <2>8
    <3> QED BY <3>1
  <2>6. a \o (b \o (v \o c)) = (a \o b) \o (v \o c)
    <3> DEFINE w == v \o c
    <3> HIDE DEF w
    <3>1. w \in Seq(Chars)
      BY <2>5 DEF w
    <3>2. a \in Seq(Chars) /\ b \in Seq(Chars)
      BY <2>8
    <3>3. Reassociates(a, b, w)
      BY ONLY <3>1, <3>2, Associates, Zenon
    <3> QED BY <3>3 DEF w, Reassociates
  <2>7. ab \o (v \o c) = ab \o v \o c
    <3>1. ab \in Seq(Chars) /\ v \in Seq(Chars) /\ c \in Seq(Chars)
      BY <2>8
    <3>2. Reassociates(ab, v, c)
      BY ONLY <3>1, Associates, Zenon
    <3> QED BY <3>2 DEF Reassociates
  <2> QED BY <2>2, <2>3, <2>4, <2>6, <2>7
<1> QED BY <1>3, <1>4, <1>10 DEF written

(* A numeral has no character that ends an entity, and none of a prefix.   *)
LEMMA NumeralPlain ==
    ASSUME NEW s, NEW n, NEW base \in {10, 16}, NumeralOf(s, n, base)
    PROVE  /\ \A i \in 1..Len(s) : s[i] # 59
           /\ base = 10 => s[1] \notin {120, 88}
<1>1. /\ s \in Seq(Chars) /\ Len(s) >= 1 /\ \A i \in 1..Len(s) : Value(s[i]) < base
  BY DEF NumeralOf
<1>2. Len(s) \in Nat
  BY <1>1, ElementsOf
<1>3. Value(59) = 99 /\ Value(120) = 99 /\ Value(88) = 99
  BY DEF Value, Digit
<1>4. ASSUME NEW i \in 1..Len(s), s[i] = 59 PROVE FALSE
  <2>1. Value(s[i]) = 99 /\ Value(s[i]) < base
    BY <1>1, <1>3, <1>4
  <2> QED BY <2>1
<1>5. ASSUME s[1] \in {120, 88} PROVE FALSE
  <2>1. 1 \in 1..Len(s)
    BY <1>1, <1>2
  <2>2. Value(s[1]) = 99
    BY <1>3, <1>5
  <2>3. Value(s[1]) < base
    BY <1>1, <2>1
  <2> QED BY <2>2, <2>3
<1> QED BY <1>4, <1>5

\* The entity is a numeral of n behind the prefix of its base.
NumericOf(entity, s, n, base) ==
    /\ n \in Nat /\ base \in {10, 16} /\ NumeralOf(s, n, base) /\ entity[1] = 35
    /\ NumericEntity(entity) = [digits |-> Digits(s, base), base |-> base]

(* It is read as n.                                                        *)
LEMMA NumericRead ==
    ASSUME NEW entity, NEW table, NEW s, NEW n, NEW base, NumericOf(entity, s, n, base),
           FitsIn32Bits(n)
    PROVE  Replacement(entity, table) = {Utf8(n)}
<1> DEFINE numeric == NumericEntity(entity)
<1>0. /\ n \in Nat /\ base \in {10, 16} /\ NumeralOf(s, n, base) /\ entity[1] = 35
      /\ numeric = [digits |-> Digits(s, base), base |-> base]
  BY Zenon DEF NumericOf
<1>1. /\ s \in Seq(Chars) /\ Len(s) >= 1 /\ Number(s, base) = n
      /\ \A i \in 1..Len(s) : Value(s[i]) < base
  BY <1>0 DEF NumeralOf
<1>2. Digits(s, base) = s
  <2>1. s \in Seq(Chars) /\ base \in Nat /\ \A i \in 1..Len(s) : Value(s[i]) < base
    BY <1>0, <1>1
  <2> QED BY <2>1, DigitsAll
<1>3. numeric.digits = s /\ numeric.base = base
  BY <1>0, <1>2
<1>4. s # <<>>
  BY <1>1
<1> HIDE DEF numeric
<1>5. entity[1] = Hash
  BY <1>0 DEF Hash
<1>6. Replacement(entity, table) =
          IF entity[1] = Hash
          THEN IF numeric.digits # <<>> /\ FitsIn32Bits(Number(numeric.digits, numeric.base))
               THEN {Utf8(Number(numeric.digits, numeric.base))} ELSE {}
          ELSE IF entity \in DOMAIN table THEN {table[entity]} ELSE {}
  BY Zenon DEF Replacement, numeric
<1>7. Number(numeric.digits, numeric.base) = n
  BY <1>1, <1>3
<1>8. numeric.digits # <<>>
  BY <1>3, <1>4
<1> QED BY <1>5, <1>6, <1>7, <1>8

\* The entity, which has no semicolon, stands for the value.
IsEntity(entity, value, table) ==
    /\ Replacement(entity, table) = {value}
    /\ entity \in Seq(Chars) /\ Len(entity) >= 2 /\ \A k \in 1..Len(entity) : entity[k] # 59

(* A decimal entity stands for its code.                                   *)
LEMMA DecimalEntity ==
    ASSUME NEW code \in Nat, FitsIn32Bits(code), NEW table, NEW entity,
           entity = << 35 >> \o Decimal(code)
    PROVE  IsEntity(entity, Utf8(code), table)
<1> DEFINE num == Decimal(code)
           mark == <<35>>
<1>1. NumeralOf(num, code, 10)
  BY DecimalIs
<1> HIDE DEF num
<1>2. num \in Seq(Chars) /\ Len(num) >= 1
  BY <1>1 DEF NumeralOf
<1>3. /\ \A i \in 1..Len(num) : num[i] # 59
      /\ num[1] \notin {120, 88}
  BY <1>1, NumeralPlain
<1>4. mark \in Seq(Chars) /\ Len(mark) = 1 /\ mark[1] = 35
  <2>1. 35 \in Chars
    BY DEF Chars
  <2> QED BY <2>1, ShortTexts
<1>5. entity = mark \o num
  BY DEF num
<1> HIDE DEF mark
<1>6. mark \in Seq(Chars) /\ num \in Seq(Chars)
  BY <1>2, <1>4
<1>7. /\ mark \o num \in Seq(Chars) /\ Len(mark \o num) = Len(mark) + Len(num) /\ Len(num) \in Nat
      /\ \A i \in 1..Len(mark) : (mark \o num)[i] = mark[i]
      /\ \A j \in 1..Len(num) : (mark \o num)[Len(mark) + j] = num[j]
  BY <1>6, ConcatIs
<1>8. /\ entity \in Seq(Chars) /\ Len(entity) = 1 + Len(num) /\ Len(num) \in Nat
      /\ entity[1] = 35 /\ \A j \in 1..Len(num) : entity[1 + j] = num[j]
  <2>1. 1 \in 1..Len(mark)
    BY <1>4
  <2>2. /\ entity \in Seq(Chars) /\ Len(entity) = Len(mark) + Len(num) /\ Len(num) \in Nat
        /\ \A i \in 1..Len(mark) : entity[i] = mark[i]
        /\ \A j \in 1..Len(num) : entity[Len(mark) + j] = num[j]
    BY <1>5, <1>7, Zenon
  <2> QED BY <1>4, <2>1, <2>2
<1>9. entity[2] \notin {LowerX, 88}
  <2>1. 1 \in 1..Len(num) /\ 1 + 1 = 2
    BY <1>2, <1>8
  <2>2. entity[2] = num[1]
    BY <1>8, <2>1
  <2> QED BY <1>3, <2>2 DEF LowerX
<1>10. From(entity, 2) = num
  <2>1. From(mark \o num, Len(mark) + 1) = num
    BY <1>6, FromBehind
  <2>2. Len(mark) + 1 = 2
    BY <1>4
  <2> QED BY <1>5, <2>1, <2>2
<1>11. NumericEntity(entity) = [digits |-> Digits(num, 10), base |-> 10]
  <2>1. NumericEntity(entity) = [digits |-> Digits(From(entity, 2), 10), base |-> 10]
    BY <1>9, Zenon DEF NumericEntity
  <2> QED BY <1>10, <2>1
<1>12. Replacement(entity, table) = {Utf8(code)}
  <2>1. 10 \in {10, 16} /\ entity[1] = 35
    BY <1>8
  <2>2. NumericOf(entity, num, code, 10)
    BY <1>1, <1>11, <2>1, Zenon DEF NumericOf
  <2> QED BY <2>2, NumericRead
<1>13. ASSUME NEW k \in 1..Len(entity) PROVE entity[k] # 59
  <2>1. k = 1 \/ (k - 1 \in 1..Len(num) /\ k = 1 + (k - 1))
    BY <1>8
  <2>2. \A j \in 1..Len(num) : entity[1 + j] # 59
    BY <1>3, <1>8
  <2>3. entity[1] # 59
    BY <1>8
  <2> QED BY <2>1, <2>2, <2>3
<1>14. Len(entity) >= 2
  BY <1>2, <1>8
<1> QED BY <1>8, <1>12, <1>13, <1>14 DEF IsEntity

(* A hexadecimal one does.                                                 *)
LEMMA HexadecimalEntity ==
    ASSUME NEW code \in Nat, FitsIn32Bits(code), NEW table, NEW entity,
           entity = <<35, 120>> \o Hexadecimal(code)
    PROVE  IsEntity(entity, Utf8(code), table)
<1> DEFINE num == Hexadecimal(code)
           mark == <<35, 120>>
<1>1. NumeralOf(num, code, 16)
  BY HexadecimalIs
<1> HIDE DEF num
<1>2. num \in Seq(Chars) /\ Len(num) >= 1
  BY <1>1 DEF NumeralOf
<1>3. \A i \in 1..Len(num) : num[i] # 59
  BY <1>1, NumeralPlain
<1>4. mark \in Seq(Chars) /\ Len(mark) = 2 /\ mark[1] = 35 /\ mark[2] = 120
  <2>1. 35 \in Chars /\ 120 \in Chars
    BY DEF Chars
  <2> QED BY <2>1, ShortTexts
<1>5. entity = mark \o num
  BY DEF num
<1> HIDE DEF mark
<1>6. mark \in Seq(Chars) /\ num \in Seq(Chars)
  BY <1>2, <1>4
<1>7. /\ mark \o num \in Seq(Chars) /\ Len(mark \o num) = Len(mark) + Len(num) /\ Len(num) \in Nat
      /\ \A i \in 1..Len(mark) : (mark \o num)[i] = mark[i]
      /\ \A j \in 1..Len(num) : (mark \o num)[Len(mark) + j] = num[j]
  BY <1>6, ConcatIs
<1>8. /\ entity \in Seq(Chars) /\ Len(entity) = 2 + Len(num) /\ Len(num) \in Nat
      /\ entity[1] = 35 /\ entity[2] = 120 /\ \A j \in 1..Len(num) : entity[2 + j] = num[j]
  <2>1. 1 \in 1..Len(mark) /\ 2 \in 1..Len(mark)
    BY <1>4
  <2>2. /\ entity \in Seq(Chars) /\ Len(entity) = Len(mark) + Len(num) /\ Len(num) \in Nat
        /\ \A i \in 1..Len(mark) : entity[i] = mark[i]
        /\ \A j \in 1..Len(num) : entity[Len(mark) + j] = num[j]
    BY <1>5, <1>7, Zenon
  <2> QED BY <1>4, <2>1, <2>2
<1>9. Len(entity) > 2 /\ entity[2] \in {LowerX, 88}
  BY <1>2, <1>8 DEF LowerX
<1>10. From(entity, 3) = num
  <2>1. From(mark \o num, Len(mark) + 1) = num
    BY <1>6, FromBehind
  <2>2. Len(mark) + 1 = 3
    BY <1>4
  <2> QED BY <1>5, <2>1, <2>2
<1>11. NumericEntity(entity) = [digits |-> Digits(num, 16), base |-> 16]
  <2>1. NumericEntity(entity) = [digits |-> Digits(From(entity, 3), 16), base |-> 16]
    BY <1>9, Zenon DEF NumericEntity
  <2> QED BY <1>10, <2>1
<1>12. Replacement(entity, table) = {Utf8(code)}
  <2>1. 16 \in {10, 16} /\ entity[1] = 35
    BY <1>8
  <2>2. NumericOf(entity, num, code, 16)
    BY <1>1, <1>11, <2>1, Zenon DEF NumericOf
  <2> QED BY <2>2, NumericRead
<1>13. ASSUME NEW k \in 1..Len(entity) PROVE entity[k] # 59
  <2>1. k = 1 \/ k = 2 \/ (k - 2 \in 1..Len(num) /\ k = 2 + (k - 2))
    BY <1>8
  <2>2. \A j \in 1..Len(num) : entity[2 + j] # 59
    BY <1>3, <1>8
  <2>3. entity[1] # 59 /\ entity[2] # 59
    BY <1>8
  <2> QED BY <2>1, <2>2, <2>3
<1>14. Len(entity) >= 2
  BY <1>2, <1>8
<1> QED BY <1>8, <1>12, <1>13, <1>14 DEF IsEntity

(* A named one stands for its value.                                       *)
LEMMA NamedEntity ==
    ASSUME NEW table, EntitiesOK(table), NEW name \in DOMAIN table
    PROVE  /\ Replacement(name, table) = {table[name]} /\ table[name] \in Seq(Chars)
           /\ name \in Seq(Chars) /\ Len(name) >= 2 /\ \A k \in 1..Len(name) : name[k] # 59
<1>1. /\ name \in Seq(Chars) /\ table[name] \in Seq(Chars) /\ Len(name) >= 2
      /\ \A i \in 1..Len(name) : name[i] \in 48..57 \cup 65..90 \cup 97..122
  BY Zenon DEF EntitiesOK, Digit
<1>2. Len(name) \in Nat
  BY <1>1, ElementsOf
<1>3. ASSUME NEW k \in 1..Len(name) PROVE name[k] # 59 /\ name[k] # 35
  <2> DEFINE c == name[k]
  <2>1. c \in 48..57 \cup 65..90 \cup 97..122
    BY <1>1
  <2> HIDE DEF c
  <2>2. c # 59 /\ c # 35
    BY <2>1
  <2> QED BY <2>2 DEF c
<1>4. name[1] # Hash
  <2>1. 1 \in 1..Len(name)
    BY <1>1, <1>2
  <2> QED BY <1>3, <2>1 DEF Hash
<1>5. Replacement(name, table) = {table[name]}
  BY <1>4, Zenon DEF Replacement
<1> QED BY <1>1, <1>3, <1>5 DEF Chars

\* What html_decode makes of an entity.
HtmlReadAs(entity, value, table) ==
    html_decode(<<38, 32, 38>> \o entity \o <<59, 59>>, table) = <<38, 32>> \o value \o <<59>>

(* html_decode reads every numeric entity as the UTF-8 of its code, which  *)
(* is_valid_utf8 accepts, and every named one as its value.                *)
THEOREM HtmlDecodes ==
    ASSUME NEW table, EntitiesOK(table), NEW code \in Nat, FitsIn32Bits(code)
    PROVE  /\ HtmlReadAs(<< 35 >> \o Decimal(code), Utf8(code), table)
           /\ HtmlReadAs(<<35, 120>> \o Hexadecimal(code), Utf8(code), table)
           /\ Utf8Shaped(Utf8(code)) /\ IsValidUtf8(Utf8(code))
           /\ \A name \in DOMAIN table : HtmlReadAs(name, table[name], table)
<1> DEFINE v == Utf8(code)
<1>1. v \in Seq(0..255) /\ Complete(v)
  BY Utf8Right
<1>2. v \in Seq(Chars)
  BY <1>1 DEF Chars
<1>3. HtmlReadAs(<<35>> \o Decimal(code), v, table)
  <2> DEFINE entity == <<35>> \o Decimal(code)
  <2>1. IsEntity(entity, v, table)
    <3>1. entity = <<35>> \o Decimal(code)
      OBVIOUS
    <3> HIDE DEF entity
    <3> QED BY <3>1, DecimalEntity
  <2> HIDE DEF entity, v
  <2>2. HtmlReadAs(entity, v, table)
    BY <1>2, <2>1, HtmlReads DEF HtmlReadAs, IsEntity
  <2> QED BY <2>2 DEF entity
<1>4. HtmlReadAs(<<35, 120>> \o Hexadecimal(code), v, table)
  <2> DEFINE entity == <<35, 120>> \o Hexadecimal(code)
  <2>1. IsEntity(entity, v, table)
    <3>1. entity = <<35, 120>> \o Hexadecimal(code)
      OBVIOUS
    <3> HIDE DEF entity
    <3> QED BY <3>1, HexadecimalEntity
  <2> HIDE DEF entity, v
  <2>2. HtmlReadAs(entity, v, table)
    BY <1>2, <2>1, HtmlReads DEF HtmlReadAs, IsEntity
  <2> QED BY <2>2 DEF entity
<1>5. Utf8Shaped(v) /\ IsValidUtf8(v)
  BY <1>1, CompleteIs, Utf8Accepted
<1>6. ASSUME NEW name \in DOMAIN table PROVE HtmlReadAs(name, table[name], table)
  <2> DEFINE value == table[name]
  <2>1. /\ Replacement(name, table) = {value} /\ value \in Seq(Chars)
        /\ name \in Seq(Chars) /\ Len(name) >= 2 /\ \A k \in 1..Len(name) : name[k] # 59
    BY NamedEntity
  <2> HIDE DEF value
  <2>2. HtmlReadAs(name, value, table)
    BY <2>1, HtmlReads DEF HtmlReadAs
  <2> QED BY <2>2 DEF value
<1> QED BY <1>3, <1>4, <1>5, <1>6

---------------------------------------------------------------------------
(***************************************************************************)
(* Pasting: the parts with a text between them, one part more or less.     *)
(***************************************************************************)

\* acc[k] is the first k parts with t between them.
Pastes(acc, parts, t) ==
    /\ acc \in [1..Len(parts) -> Seq(Chars)] /\ acc[1] = parts[1]
    /\ \A k \in 2..Len(parts) : acc[k] = acc[k - 1] \o t \o parts[k]

(* JoinedWith is the last of them.                                         *)
LEMMA JoinedIs ==
    ASSUME NEW parts \in Seq(Seq(Chars)), Len(parts) >= 1, NEW t \in Seq(Chars)
    PROVE  \E acc : Pastes(acc, parts, t) /\ JoinedWith(parts, t) = acc[Len(parts)]
<1> DEFINE tail == Tail(parts)
           n == Len(tail)
           A == Seq(Chars)
           first == Head(parts)
           Is(it) == it = [s \in SUBSET (DOMAIN tail) |->
                              IF s = {} THEN first
                              ELSE it[s \ {Max(s)}] \o t \o tail[Max(s)]]
           fold == CHOOSE it : Is(it)
           acc == [k \in 1..Len(parts) |-> fold[1..(k - 1)]]
           step == [k \in 1..n |-> [a \in A |-> a \o t \o tail[k]]]
<1>1. /\ Len(parts) \in Nat /\ \A k \in 1..Len(parts) : parts[k] \in A
  BY ElementsOf
<1>2. /\ n \in Nat /\ n + 1 = Len(parts) /\ DOMAIN tail = 1..n
      /\ \A k \in 1..n : tail[k] = parts[k + 1] /\ tail[k] \in A
      /\ first = parts[1] /\ first \in A
  <2>1. parts # <<>>
    OBVIOUS
  <2>2. tail \in Seq(A) /\ n = Len(parts) - 1 /\ \A k \in 1..n : tail[k] = parts[k + 1]
    <3>1. parts \in Seq(A)
      OBVIOUS
    <3> HIDE DEF A
    <3> QED BY <2>1, <3>1
  <2>3. first = parts[1]
    OBVIOUS
  <2>4. n \in Nat /\ DOMAIN tail = 1..n /\ \A k \in 1..n : tail[k] \in A
    <3> HIDE DEF A, tail
    <3> QED BY <2>2, ElementsOf
  <2>5. 1 \in 1..Len(parts)
    BY <1>1
  <2>6. parts[1] \in A
    BY <1>1, <2>5
  <2> HIDE DEF tail, A, n, first
  <2> QED BY <1>1, <2>2, <2>3, <2>4, <2>6
<1>3. JoinedWith(parts, t) = fold[DOMAIN tail]
  BY Zenon DEF JoinedWith, FoldLeft, MapThenFoldSet
<1> HIDE DEF A
<1>4. ASSUME NEW k \in 1..n, NEW a \in A PROVE a \o t \o tail[k] \in A
  <2> DEFINE x == tail[k]
  <2>1. x \in A
    BY <1>2
  <2> HIDE DEF x
  <2>2. a \o t \in A
    BY DEF A
  <2>3. (a \o t) \o x \in A
    <3> DEFINE y == a \o t
    <3>1. y \in A
      BY <2>2
    <3> HIDE DEF y
    <3>2. y \o x \in A
      BY <2>1, <3>1 DEF A
    <3> QED BY <3>2 DEF y
  <2> QED BY <2>3 DEF x
<1> HIDE DEF tail, n, first
<1>5. \A k \in 1..n : step[k] \in [A -> A]
  BY <1>4
<1>6. PICK it \in [SUBSET (1..n) -> A] : Folds(it, n, first, step)
  <2> HIDE DEF step
  <2> QED BY <1>2, <1>5, FoldExists
<1>7. ASSUME NEW s \in SUBSET (1..n), s # {}
      PROVE  Max(s) \in 1..n /\ s \ {Max(s)} \in SUBSET (1..n)
  <2>1. s \in SUBSET (0..n)
    BY <1>2
  <2>2. Max(s) \in s
    BY <1>2, <1>7, <2>1, GreatestOf
  <2> QED BY <2>2
<1>8. ASSUME NEW s \in SUBSET (1..n)
      PROVE  it[s] = IF s = {} THEN first ELSE it[s \ {Max(s)}] \o t \o tail[Max(s)]
  <2>1. it[s] = IF s = {} THEN first ELSE step[Max(s)][it[s \ {Max(s)}]]
    <3> HIDE DEF step
    <3> QED BY <1>6 DEF Folds
  <2>2. ASSUME s # {}
        PROVE  step[Max(s)][it[s \ {Max(s)}]] = it[s \ {Max(s)}] \o t \o tail[Max(s)]
    <3> DEFINE m == Max(s)
               a == it[s \ {Max(s)}]
    <3>1. m \in 1..n /\ a \in A
      BY <1>6, <1>7, <2>2
    <3> HIDE DEF m, a
    <3>2. step[m][a] = a \o t \o tail[m]
      BY <3>1
    <3> QED BY <3>2 DEF m, a
  <2> HIDE DEF step
  <2> QED BY <2>1, <2>2
<1>9. Is(it)
  <2>1. it = [s \in SUBSET (1..n) |-> it[s]]
    BY <1>6
  <2> QED BY <1>2, <1>8, <2>1, Zenon
<1>10. Is(fold)
  <2> HIDE DEF Is
  <2> QED BY <1>9, Zenon
<1> HIDE DEF fold
<1>11. \A s \in SUBSET (1..n) :
           fold[s] = IF s = {} THEN first ELSE fold[s \ {Max(s)}] \o t \o tail[Max(s)]
  BY <1>2, <1>10, Zenon
<1> HIDE DEF Is
<1>12. acc[1] = first /\ acc[Len(parts)] = fold[1..n]
  <2>1. 1..0 = {} /\ 1 - 1 = 0 /\ 1 \in 1..Len(parts) /\ Len(parts) - 1 = n
    BY <1>1, <1>2
  <2>2. acc[1] = fold[1..(1 - 1)] /\ acc[Len(parts)] = fold[1..(Len(parts) - 1)]
    BY <1>1, <2>1
  <2>3. fold[{}] = first
    BY <1>11
  <2> HIDE DEF acc
  <2> QED BY <2>1, <2>2, <2>3
<1>13. ASSUME NEW k \in 2..Len(parts) PROVE acc[k] = acc[k - 1] \o t \o parts[k]
  <2> DEFINE l == k - 1
  <2>0. /\ l \in 1..n /\ l \in Nat /\ k \in 1..Len(parts) /\ k - 1 \in 1..Len(parts)
        /\ l + 1 = k
    BY <1>1, <1>2
  <2>1. /\ 1..l \in SUBSET (1..n) /\ l \in 1..l /\ (1..l) \ {l} = 1..(l - 1)
    <3> HIDE DEF l
    <3>1. n \in Nat /\ l \in 1..n
      BY <1>2, <2>0
    <3>2. 1..l \in SUBSET (1..n) /\ l \in 1..l
      BY <3>1
    <3>3. (1..l) \ {l} = 1..(l - 1)
      BY <3>1
    <3> QED BY <3>2, <3>3
  <2>2. acc[k] = fold[1..l] /\ acc[k - 1] = fold[1..(l - 1)]
    BY <2>0
  <2> HIDE DEF l
  <2>3. Max(1..l) = l
    BY <2>0, <2>1, Greatest
  <2>4. fold[1..l] = fold[(1..l) \ {l}] \o t \o tail[l]
    <3>1. 1..l # {}
      BY <2>1
    <3> QED BY <1>11, <2>1, <2>3, <3>1, Zenon
  <2>5. tail[l] = parts[k]
    BY <1>2, <2>0
  <2> HIDE DEF acc
  <2> QED BY <2>1, <2>2, <2>4, <2>5
<1> DEFINE T == {k \in 1..Len(parts) : acc[k] \notin A}
<1>14. T = {}
  <2> SUFFICES ASSUME T # {} PROVE FALSE
    OBVIOUS
  <2>1. PICK m \in T : \A l \in T : m <= l
    <3>1. T \subseteq Nat
      OBVIOUS
    <3> HIDE DEF T
    <3> QED BY <3>1, LeastNumber
  <2>2. m # 1
    BY <1>2, <1>12
  <2>3. m \in 2..Len(parts) /\ m - 1 \in 1..Len(parts) /\ m - 1 \notin T /\ m - 1 \in 1..n
    BY <1>1, <1>2, <2>1, <2>2
  <2>4. acc[m - 1] \in A
    BY <2>3
  <2>5. tail[m - 1] = parts[m]
    BY <1>2, <2>3
  <2> HIDE DEF acc
  <2>6. acc[m] \in A
    BY <1>4, <1>13, <2>3, <2>4, <2>5
  <2> QED BY <2>1, <2>6
<1>15. acc \in [1..Len(parts) -> A]
  BY <1>14
<1> HIDE DEF acc
<1>16. Pastes(acc, parts, t)
  BY <1>2, <1>12, <1>13, <1>15 DEF Pastes, A
<1> QED BY <1>2, <1>3, <1>12, <1>16

\* Two ways to write four texts with the second one between them.
Regroups(w, x, y, z) == (w \o (x \o y)) \o x \o z = w \o (x \o (y \o x \o z))

(* Where the brackets are does not matter.                                 *)
LEMMA Regrouped ==
    ASSUME NEW T, NEW q1 \in Seq(T), NEW q2 \in Seq(T), NEW q3 \in Seq(T), NEW q4 \in Seq(T)
    PROVE  Regroups(q1, q2, q3, q4)
<1> DEFINE xy == q2 \o q3
           yx == q3 \o q2
           xz == q2 \o q4
           wxy == q1 \o xy
<1>1. xy \in Seq(T) /\ yx \in Seq(T) /\ xz \in Seq(T)
  OBVIOUS
<1>2. yx \o q4 = q3 \o xz
  <2>1. Reassociates(q3, q2, q4)
    BY Associates, Zenon
  <2> QED BY <2>1 DEF Reassociates
<1>3. q2 \o (q3 \o xz) = xy \o xz
  <2>1. Reassociates(q2, q3, xz)
    <3> HIDE DEF xz
    <3> QED BY <1>1, Associates, Zenon
  <2> HIDE DEF xz
  <2> QED BY <2>1 DEF Reassociates
<1>4. wxy \in Seq(T)
  <2> HIDE DEF xy
  <2> QED BY <1>1
<1>5. q1 \o (xy \o xz) = wxy \o xz
  <2> HIDE DEF xz, xy
  <2>1. Reassociates(q1, xy, xz)
    BY <1>1, Associates, Zenon
  <2> QED BY <2>1 DEF Reassociates
<1>6. wxy \o xz = (wxy \o q2) \o q4
  <2> HIDE DEF wxy
  <2>1. Reassociates(wxy, q2, q4)
    BY <1>4, Associates, Zenon
  <2> QED BY <2>1 DEF Reassociates
<1> HIDE DEF xy, yx, xz, wxy
<1>7. (wxy \o q2) \o q4 = q1 \o (q2 \o (yx \o q4))
  BY <1>2, <1>3, <1>5, <1>6
<1> QED BY <1>7 DEF Regroups, xy, yx, wxy

(* A part in front.                                                        *)
LEMMA JoinedMore ==
    ASSUME NEW x \in Seq(Chars), NEW more \in Seq(Seq(Chars)), Len(more) >= 1, NEW t \in Seq(Chars)
    PROVE  /\ JoinedWith(more, t) \in Seq(Chars)
           /\ JoinedWith(<<x>> \o more, t) = x \o (t \o JoinedWith(more, t))
<1> DEFINE A == Seq(Chars)
           one == <<x>>
           p == one \o more
           n == Len(more)
<1>1. n \in Nat /\ \A k \in 1..n : more[k] \in A
  BY ElementsOf
<1>2. p \in Seq(A) /\ Len(p) = n + 1 /\ p[1] = x /\ \A k \in 1..n : p[1 + k] = more[k]
  <2>1. one \in Seq(A) /\ Len(one) = 1 /\ one[1] = x
    <3> HIDE DEF A
    <3>1. x \in A
      BY DEF A
    <3> QED BY <3>1
  <2> HIDE DEF A, one
  <2>2. one \in Seq(A) /\ more \in Seq(A)
    BY <2>1 DEF A
  <2>3. /\ one \o more \in Seq(A) /\ Len(one \o more) = Len(one) + Len(more)
        /\ Len(one) \in Nat /\ Len(more) \in Nat
        /\ \A i \in 1..Len(one) : (one \o more)[i] = one[i]
        /\ \A j \in 1..Len(more) : (one \o more)[Len(one) + j] = more[j]
    BY <2>2, ConcatIs
  <2>4. 1 \in 1..Len(one)
    BY <2>1
  <2> QED BY <2>1, <2>3, <2>4
<1>3. PICK accMore : Pastes(accMore, more, t) /\ JoinedWith(more, t) = accMore[n]
  BY JoinedIs
<1> HIDE DEF p, A
<1>4. PICK accAll : Pastes(accAll, p, t) /\ JoinedWith(p, t) = accAll[n + 1]
  <2>1. p \in Seq(Seq(Chars)) /\ Len(p) >= 1
    BY <1>1, <1>2 DEF A
  <2> QED BY <1>2, <2>1, JoinedIs
<1> HIDE DEF n
<1>5. n >= 1 /\ accMore \in [1..n -> A]
  BY <1>3 DEF n, Pastes, A
<1> DEFINE T == {k \in 1..n : accAll[k + 1] # x \o (t \o accMore[k])}
<1>6. T = {}
  <2> SUFFICES ASSUME T # {} PROVE FALSE
    OBVIOUS
  <2>1. PICK m \in T : \A l \in T : m <= l
    <3>1. T \subseteq Nat
      OBVIOUS
    <3> HIDE DEF T
    <3> QED BY <3>1, LeastNumber
  <2>2. m \in 1..n /\ accAll[m + 1] # x \o (t \o accMore[m])
    OBVIOUS
  <2>3. /\ m + 1 \in 2..Len(p) /\ (m + 1) - 1 = m /\ p[m + 1] = more[m]
    BY <1>1, <1>2, <2>2
  <2>4. accAll[m + 1] = accAll[m] \o t \o more[m]
    <3>1. accAll[m + 1] = accAll[(m + 1) - 1] \o t \o p[m + 1]
      BY <1>4, <2>3, Zenon DEF Pastes
    <3> QED BY <2>3, <3>1
  <2>5. m = 1 \/ (m \in 2..n /\ m - 1 \in 1..n /\ ~(m <= m - 1) /\ (m - 1) + 1 = m)
    BY <1>1, <2>2
  <2>6. CASE m = 1
    <3>1. accAll[1] = x /\ accMore[1] = more[1]
      BY <1>2, <1>3, <1>4 DEF Pastes
    <3> DEFINE y == more[1]
    <3>2. y \in Seq(Chars)
      BY <1>1, <2>2, <2>6 DEF A
    <3> HIDE DEF y
    <3>3. x \o (t \o y) = (x \o t) \o y
      <4>1. x \in Seq(Chars) /\ t \in Seq(Chars) /\ y \in Seq(Chars)
        BY <3>2
      <4> HIDE DEF T
      <4>2. Reassociates(x, t, y)
        BY <4>1, Associates, Zenon
      <4> QED BY <4>2 DEF Reassociates
    <3> QED BY <2>2, <2>4, <2>6, <3>1, <3>3, Zenon DEF y
  <2>7. CASE m # 1
    <3> DEFINE l == m - 1
               u == accMore[l]
               y == more[m]
    <3>1. l \in 1..n /\ l + 1 = m /\ l \notin T
      BY <2>1, <2>5, <2>7
    <3>2. accAll[m] = x \o (t \o u)
      BY <3>1
    <3>3. accMore[m] = u \o t \o y
      <4>1. m \in 2..Len(more)
        BY <2>5, <2>7 DEF n
      <4> QED BY <1>3, <4>1, Zenon DEF Pastes
    <3>4. u \in Seq(Chars) /\ y \in Seq(Chars)
      BY <1>1, <1>5, <2>2, <3>1 DEF A
    <3> HIDE DEF l, u, y
    <3>5. (x \o (t \o u)) \o t \o y = x \o (t \o (u \o t \o y))
      <4>1. x \in Seq(Chars) /\ t \in Seq(Chars) /\ u \in Seq(Chars) /\ y \in Seq(Chars)
        BY <3>4
      <4> HIDE DEF T
      <4>2. Regroups(x, t, u, y)
        BY <4>1, Regrouped
      <4> QED BY <4>2 DEF Regroups
    <3> QED BY <2>2, <2>4, <3>2, <3>3, <3>5 DEF l, u, y
  <2> QED BY <2>6, <2>7
<1>7. n \in 1..n
  BY <1>1, <1>5
<1>8. accAll[n + 1] = x \o (t \o accMore[n])
  BY <1>6, <1>7
<1>9. accMore[n] \in A
  BY <1>5, <1>7
<1> QED BY <1>3, <1>4, <1>8, <1>9 DEF p, A

(* Of one part.                                                            *)
LEMMA JoinedOne ==
    ASSUME NEW x \in Seq(Chars), NEW t \in Seq(Chars)
    PROVE  JoinedWith(<<x>>, t) = x
<1> DEFINE p == <<x>>
<1>1. p \in Seq(Seq(Chars)) /\ Len(p) = 1 /\ p[1] = x
  <2> DEFINE A == Seq(Chars)
  <2>1. x \in A
    OBVIOUS
  <2> HIDE DEF A
  <2>2. p \in Seq(A) /\ Len(p) = 1 /\ p[1] = x
    BY <2>1
  <2> QED BY <2>2 DEF A
<1> HIDE DEF p
<1>2. PICK acc : Pastes(acc, p, t) /\ JoinedWith(p, t) = acc[Len(p)]
  <2>1. Len(p) >= 1
    BY <1>1
  <2> QED BY <1>1, <2>1, JoinedIs
<1> QED BY <1>1, <1>2 DEF Pastes, p

---------------------------------------------------------------------------
(***************************************************************************)
(* Cutting, and replacing. The argument: split and replace both go from    *)
(* one separator to the next, so that, from the last part to the first,    *)
(* what is cut off and pasted together is the rest of the text, with the   *)
(* separator or with what replaces it between the parts.                   *)
(***************************************************************************)

(* The rest of a text is a text.                                           *)
LEMMA RestIs ==
    ASSUME NEW S, NEW str \in Seq(S), NEW i \in 1..(Len(str) + 1)
    PROVE  From(str, i) \in Seq(S) /\ Len(From(str, i)) = Len(str) + 1 - i
<1>1. Len(str) \in Nat
  BY ElementsOf
<1> DEFINE j == Len(str)
<1>2. i \in Nat \ {0} /\ j \in Nat /\ j <= Len(str) /\ i <= j + 1
  BY <1>1
<1> HIDE DEF j
<1>3. SubSeq(str, i, j) \in Seq(S) /\ Len(SubSeq(str, i, j)) = j + 1 - i
  BY <1>2, PieceIs
<1> QED BY <1>3 DEF From, j

\* Where the part that begins at start ends, 0 for the last one.
CutEnd(str, sep, max, start, count) ==
    IF FindFrom(str, <<sep>>, start) = 0 \/ (max > 0 /\ count > 0 /\ count >= max - 1)
       THEN 0 ELSE FindFrom(str, <<sep>>, start)

\* What is behind the first p[1] characters, when p[2] parts have been cut off.
CutPlaces(n) == {p \in (0..n) \X (0..n) : p[2] <= p[1]}
Cuts(d, str, sep, max) ==
    \A p \in CutPlaces(Len(str)) :
        d[p] = IF CutEnd(str, sep, max, p[1] + 1, p[2]) = 0 THEN <<From(str, p[1] + 1)>>
               ELSE <<SubSeq(str, p[1] + 1, CutEnd(str, sep, max, p[1] + 1, p[2]) - 1)>>
                        \o d[<<CutEnd(str, sep, max, p[1] + 1, p[2]), p[2] + 1>>]

(* The end of a part is behind its beginning.                              *)
LEMMA CutEndIs ==
    ASSUME NEW str \in Seq(Chars), NEW sep \in Chars, NEW max \in Nat,
           NEW start \in 1..(Len(str) + 1), NEW count \in Nat,
           CutEnd(str, sep, max, start, count) # 0
    PROVE  CutEnd(str, sep, max, start, count) \in start..Len(str)
<1> DEFINE e == FindFrom(str, <<sep>>, start)
<1>1. CutEnd(str, sep, max, start, count) = e /\ e # 0
  BY Zenon DEF CutEnd
<1>2. start \in Nat \ {0}
  OBVIOUS
<1>3. FoundAt(e, str, sep, start)
  BY <1>2, FindIs
<1> HIDE DEF e
<1> QED BY <1>1, <1>3 DEF FoundAt

(* split is what its recursion says.                                       *)
LEMMA SplitRecursion ==
    ASSUME NEW str \in Seq(Chars), NEW sep \in Chars, NEW max \in Nat
    PROVE  \E d : Cuts(d, str, sep, max) /\ split(str, sep, max) = d[<<0, 0>>]
<1> DEFINE n == Len(str)
           Dom == CutPlaces(n)
           Is(d) == d = [at \in {p \in (0..Len(str)) \X (0..Len(str)) : p[2] <= p[1]} |->
                            IF FindFrom(str, <<sep>>, at[1] + 1) = 0
                                  \/ (max > 0 /\ at[2] > 0 /\ at[2] >= max - 1)
                            THEN <<From(str, at[1] + 1)>>
                            ELSE <<SubSeq(str, at[1] + 1, FindFrom(str, <<sep>>, at[1] + 1) - 1)>>
                                     \o d[<<FindFrom(str, <<sep>>, at[1] + 1), at[2] + 1>>]]
           cut == CHOOSE d : Is(d)
           end(p) == CutEnd(str, sep, max, p[1] + 1, p[2])
           head == [p \in Dom |-> SubSeq(str, p[1] + 1, end(p) - 1)]
           A == Seq(Seq(Chars))
           rank == [p \in Dom |-> n - p[1]]
           stop == {p \in Dom : end(p) = 0}
           last == [p \in Dom |-> <<From(str, p[1] + 1)>>]
           step == [p \in Dom |-> [a \in A |-> <<head[p]>> \o a]]
           next == [p \in Dom |-> <<end(p), p[2] + 1>>]
<1>1. split(str, sep, max) = cut[<<0, 0>>]
  BY Zenon DEF split
<1>2. n \in Nat
  OBVIOUS
<1>3. ASSUME NEW p \in Dom
      PROVE  /\ p[1] \in 0..n /\ p[2] \in 0..n /\ p[2] <= p[1]
             /\ p[1] + 1 \in 1..(Len(str) + 1) /\ p[2] \in Nat
  BY DEF CutPlaces
<1>4. ASSUME NEW p \in Dom, end(p) # 0 PROVE end(p) \in (p[1] + 1)..n
  BY <1>3, <1>4, CutEndIs
<1>5. ASSUME NEW p \in Dom PROVE last[p] \in A
  <2> DEFINE x == From(str, p[1] + 1)
             B == Seq(Chars)
  <2>1. x \in B
    <3> DEFINE i == p[1] + 1
    <3>1. i \in 1..(Len(str) + 1)
      BY <1>3
    <3> HIDE DEF i
    <3>2. From(str, i) \in Seq(Chars)
      BY <3>1, RestIs
    <3> QED BY <3>2 DEF i
  <2>2. last[p] = <<x>>
    OBVIOUS
  <2> HIDE DEF x, B, last
  <2>3. <<x>> \in Seq(B)
    BY <2>1
  <2> QED BY <2>2, <2>3 DEF B
<1>6. ASSUME NEW p \in Dom, end(p) # 0 PROVE head[p] \in Seq(Chars)
  <2> DEFINE i == p[1] + 1
             j == end(p) - 1
  <2>1. i \in Nat \ {0} /\ j \in Nat /\ j <= Len(str) /\ i <= j + 1
    <3> DEFINE e == end(p)
    <3>1. e \in (p[1] + 1)..n
      BY <1>4, <1>6
    <3> HIDE DEF e
    <3> QED BY <1>2, <1>3, <3>1 DEF e
  <2>2. head[p] = SubSeq(str, i, j)
    OBVIOUS
  <2> HIDE DEF i, j
  <2>3. SubSeq(str, i, j) \in Seq(Chars)
    BY <2>1, PieceIs, SMTT(30)
  <2> QED BY <2>2, <2>3, Zenon
<1>7. ASSUME NEW p \in Dom, end(p) # 0
      PROVE  next[p] \in Dom /\ rank[next[p]] < rank[p] /\ rank[p] \in 0..n
  <2> DEFINE e == end(p)
             q == <<e, p[2] + 1>>
  <2>1. e \in (p[1] + 1)..n
    BY <1>4, <1>7
  <2>2. next[p] = q
    OBVIOUS
  <2> HIDE DEF e, n
  <2>3. e \in 0..n /\ p[2] + 1 \in 0..n /\ p[2] + 1 <= e /\ n - e < n - p[1]
    BY <1>2, <1>3, <2>1
  <2>4. q \in Dom /\ q[1] = e
    BY <2>3 DEF CutPlaces
  <2> HIDE DEF next, q
  <2>5. rank[q] = n - e /\ rank[p] = n - p[1]
    BY <2>4
  <2>6. n - p[1] \in 0..n
    BY <1>2, <1>3
  <2> HIDE DEF rank
  <2> QED BY <2>2, <2>3, <2>4, <2>5, <2>6
<1>8. ASSUME NEW p \in Dom PROVE rank[p] \in 0..n
  BY <1>2, <1>3
<1>9. ASSUME NEW p \in Dom, end(p) # 0 PROVE step[p] \in [A -> A]
  <2> DEFINE x == head[p]
             B == Seq(Chars)
  <2>1. x \in B
    BY <1>6, <1>9
  <2> HIDE DEF x, B, head
  <2>2. <<x>> \in Seq(B)
    BY <2>1
  <2>3. ASSUME NEW a \in Seq(B) PROVE <<x>> \o a \in Seq(B)
    BY <2>2
  <2>4. step[p] = [a \in A |-> <<x>> \o a]
    BY DEF x
  <2> HIDE DEF step
  <2> QED BY <2>3, <2>4 DEF B
<1> HIDE DEF n, A, head, cut
<1>10. PICK f \in [Dom -> A] : Solves(f, Dom, stop, last, step, next)
  <2>1. /\ \A p \in Dom : rank[p] \in 0..n
        /\ \A p \in Dom \cap stop : last[p] \in A
    BY <1>5, <1>8
  <2>2. \A p \in Dom \ stop : next[p] \in Dom /\ rank[next[p]] < rank[p] /\ step[p] \in [A -> A]
    <3> SUFFICES ASSUME NEW p \in Dom, end(p) # 0
                 PROVE  next[p] \in Dom /\ rank[next[p]] < rank[p] /\ step[p] \in [A -> A]
      BY DEF stop
    <3> HIDE DEF Dom, rank, last, step, next
    <3> QED BY <1>7, <1>9
  <2> HIDE DEF Dom, rank, stop, last, step, next
  <2>3. Recursion(Dom, A, n, rank, stop, last, step, next)
    BY <2>1, <2>2 DEF Recursion
  <2> QED BY <1>2, <2>3, RecursionExists
<1>11. ASSUME NEW p \in Dom
       PROVE  f[p] = IF end(p) = 0 THEN <<From(str, p[1] + 1)>>
                     ELSE <<SubSeq(str, p[1] + 1, end(p) - 1)>> \o f[<<end(p), p[2] + 1>>]
  <2>1. f[p] = IF p \in stop THEN last[p] ELSE step[p][f[next[p]]]
    <3> HIDE DEF Dom, stop, last, step, next
    <3> QED BY <1>10 DEF Solves
  <2>2. CASE end(p) = 0
    <3>1. p \in stop /\ last[p] = <<From(str, p[1] + 1)>>
      BY <2>2
    <3> HIDE DEF stop, last
    <3> QED BY <2>1, <2>2, <3>1, Zenon
  <2>3. CASE end(p) # 0
    <3>1. p \notin stop /\ next[p] = <<end(p), p[2] + 1>>
      BY <2>3
    <3>2. next[p] \in Dom
      BY <1>7, <2>3
    <3>3. f[next[p]] \in A
      <4> HIDE DEF Dom, next
      <4> QED BY <1>10, <3>2
    <3> DEFINE b == f[next[p]]
    <3> HIDE DEF b, stop, next
    <3>4. step[p][b] = <<head[p]>> \o b
      BY <3>3 DEF b
    <3>5. head[p] = SubSeq(str, p[1] + 1, end(p) - 1)
      BY DEF head
    <3> HIDE DEF step
    <3> QED BY <2>1, <2>3, <3>1, <3>4, <3>5, Zenon DEF b
  <2> QED BY <2>2, <2>3
<1>12. ASSUME NEW d, Is(d) PROVE Cuts(d, str, sep, max)
  <2>1. ASSUME NEW p \in CutPlaces(Len(str))
        PROVE  d[p] = IF CutEnd(str, sep, max, p[1] + 1, p[2]) = 0 THEN <<From(str, p[1] + 1)>>
               ELSE <<SubSeq(str, p[1] + 1, CutEnd(str, sep, max, p[1] + 1, p[2]) - 1)>>
                        \o d[<<CutEnd(str, sep, max, p[1] + 1, p[2]), p[2] + 1>>]
    <3>1. d[p] = IF FindFrom(str, <<sep>>, p[1] + 1) = 0
                       \/ (max > 0 /\ p[2] > 0 /\ p[2] >= max - 1)
                 THEN <<From(str, p[1] + 1)>>
                 ELSE <<SubSeq(str, p[1] + 1, FindFrom(str, <<sep>>, p[1] + 1) - 1)>>
                          \o d[<<FindFrom(str, <<sep>>, p[1] + 1), p[2] + 1>>]
      BY <1>12, Zenon DEF CutPlaces
    <3> QED BY <3>1, Zenon DEF CutEnd
  <2> QED BY <2>1 DEF Cuts
<1>13. Is(f)
  <2>1. ASSUME NEW p \in Dom
        PROVE  f[p] = IF FindFrom(str, <<sep>>, p[1] + 1) = 0
                            \/ (max > 0 /\ p[2] > 0 /\ p[2] >= max - 1)
                      THEN <<From(str, p[1] + 1)>>
                      ELSE <<SubSeq(str, p[1] + 1, FindFrom(str, <<sep>>, p[1] + 1) - 1)>>
                               \o f[<<FindFrom(str, <<sep>>, p[1] + 1), p[2] + 1>>]
    BY <1>11, Zenon DEF CutEnd
  <2>2. Dom = {p \in (0..Len(str)) \X (0..Len(str)) : p[2] <= p[1]}
    BY DEF CutPlaces, n
  <2> HIDE DEF Dom
  <2> QED BY <1>10, <2>1, <2>2, Zenon
<1>14. Is(cut)
  BY <1>13, Zenon DEF cut
<1> HIDE DEF Is
<1> QED BY <1>1, <1>12, <1>14

\* The text from each place on, with something else in the place of sep.
Replaces(r, str, sep, between) ==
    \A i \in 1..(Len(str) + 1) :
        r[i] = IF FindFrom(str, <<sep>>, i) = 0 THEN From(str, i)
               ELSE SubSeq(str, i, FindFrom(str, <<sep>>, i) - 1) \o between
                        \o r[FindFrom(str, <<sep>>, i) + 1]

(* replace is what its recursion says.                                     *)
LEMMA ReplaceRecursion ==
    ASSUME NEW str \in Seq(Chars), NEW sep \in Chars, NEW between \in Seq(Chars)
    PROVE  \E r : Replaces(r, str, sep, between) /\ replace(str, <<sep>>, between) = r[1]
<1> DEFINE n == Len(str)
           Dom == 1..(n + 1)
           end(i) == FindFrom(str, <<sep>>, i)
           Is(d) == d = [i \in 1..(Len(str) + 1) |->
                            IF end(i) = 0 THEN From(str, i)
                            ELSE SubSeq(str, i, end(i) - 1) \o between \o d[end(i) + Len(<<sep>>)]]
           paste == CHOOSE d : Is(d)
           A == Seq(Chars)
           head == [i \in Dom |-> SubSeq(str, i, end(i) - 1) \o between]
           rank == [i \in Dom |-> n + 1 - i]
           stop == {i \in Dom : end(i) = 0}
           last == [i \in Dom |-> From(str, i)]
           step == [i \in Dom |-> [a \in A |-> head[i] \o a]]
           next == [i \in Dom |-> end(i) + 1]
<1>1. replace(str, <<sep>>, between) = paste[1]
  BY Zenon DEF replace
<1>2. n \in Nat
  OBVIOUS
<1>3. ASSUME NEW i \in Dom, end(i) # 0 PROVE end(i) \in i..n
  <2> DEFINE e == end(i)
  <2>1. i \in Nat \ {0}
    OBVIOUS
  <2>2. FoundAt(e, str, sep, i)
    BY <2>1, FindIs
  <2>3. e # 0
    BY <1>3
  <2> HIDE DEF e
  <2>4. e \in i..n
    BY <2>2, <2>3 DEF FoundAt
  <2> QED BY <2>4 DEF e
<1>4. ASSUME NEW i \in Dom PROVE last[i] \in A
  BY RestIs
<1>5. ASSUME NEW i \in Dom, end(i) # 0 PROVE head[i] \in A
  <2> DEFINE j == end(i) - 1
             x == SubSeq(str, i, j)
  <2>1. i \in Nat \ {0} /\ j \in Nat /\ j <= Len(str) /\ i <= j + 1
    <3> DEFINE e == end(i)
    <3>1. e \in i..n
      BY <1>3, <1>5
    <3> HIDE DEF e
    <3> QED BY <1>2, <3>1 DEF e
  <2>2. head[i] = x \o between
    OBVIOUS
  <2>3. x \in A
    <3> HIDE DEF j
    <3> QED BY <2>1, PieceIs
  <2> HIDE DEF x, head
  <2> QED BY <2>2, <2>3
<1>6. ASSUME NEW i \in Dom, end(i) # 0 PROVE next[i] \in Dom /\ rank[next[i]] < rank[i]
  <2> DEFINE e == end(i)
  <2>1. e \in i..n
    BY <1>3, <1>6
  <2>2. next[i] = e + 1
    OBVIOUS
  <2> HIDE DEF e, n, next
  <2>3. next[i] \in Dom /\ n + 1 - next[i] < n + 1 - i
    BY <1>2, <2>1, <2>2
  <2> QED BY <2>3
<1>7. ASSUME NEW i \in Dom PROVE rank[i] \in 0..n
  BY <1>2
<1>8. ASSUME NEW i \in Dom, end(i) # 0 PROVE step[i] \in [A -> A]
  <2> DEFINE x == head[i]
  <2>1. x \in A
    BY <1>5, <1>8
  <2>2. step[i] = [a \in A |-> x \o a]
    OBVIOUS
  <2> HIDE DEF x, head, step
  <2>3. \A a \in A : x \o a \in A
    BY <2>1
  <2> HIDE DEF A
  <2> QED BY <2>2, <2>3
<1> HIDE DEF n, A, head, paste
<1>9. PICK f \in [Dom -> A] : Solves(f, Dom, stop, last, step, next)
  <2>1. /\ \A i \in Dom : rank[i] \in 0..n
        /\ \A i \in Dom \cap stop : last[i] \in A
    BY <1>4, <1>7
  <2>2. \A i \in Dom \ stop : next[i] \in Dom /\ rank[next[i]] < rank[i] /\ step[i] \in [A -> A]
    <3> SUFFICES ASSUME NEW i \in Dom, end(i) # 0
                 PROVE  next[i] \in Dom /\ rank[next[i]] < rank[i] /\ step[i] \in [A -> A]
      BY DEF stop
    <3> HIDE DEF Dom, rank, last, step, next
    <3> QED BY <1>6, <1>8
  <2> HIDE DEF Dom, rank, stop, last, step, next
  <2>3. Recursion(Dom, A, n, rank, stop, last, step, next)
    BY <2>1, <2>2 DEF Recursion
  <2> QED BY <1>2, <2>3, RecursionExists
<1>10. ASSUME NEW i \in Dom
       PROVE  f[i] = IF end(i) = 0 THEN From(str, i)
                     ELSE SubSeq(str, i, end(i) - 1) \o between \o f[end(i) + 1]
  <2>1. f[i] = IF i \in stop THEN last[i] ELSE step[i][f[next[i]]]
    <3> HIDE DEF Dom, stop, last, step, next
    <3> QED BY <1>9 DEF Solves
  <2>2. CASE end(i) = 0
    <3>1. i \in stop /\ last[i] = From(str, i)
      BY <2>2
    <3> HIDE DEF stop, last
    <3> QED BY <2>1, <2>2, <3>1, Zenon
  <2>3. CASE end(i) # 0
    <3>1. i \notin stop /\ next[i] = end(i) + 1
      BY <2>3
    <3>2. next[i] \in Dom
      BY <1>6, <2>3
    <3>3. f[next[i]] \in A
      <4> HIDE DEF Dom, next
      <4> QED BY <1>9, <3>2
    <3> DEFINE b == f[next[i]]
    <3> HIDE DEF b, stop, next
    <3>4. step[i][b] = head[i] \o b
      BY <3>3 DEF b
    <3>5. head[i] = SubSeq(str, i, end(i) - 1) \o between
      BY DEF head
    <3> HIDE DEF step
    <3> QED BY <2>1, <2>3, <3>1, <3>4, <3>5, Zenon DEF b
  <2> QED BY <2>2, <2>3
<1>11. Len(<<sep>>) = 1
  OBVIOUS
<1>12. Dom = 1..(Len(str) + 1)
  BY DEF n
<1> HIDE DEF Dom
<1>13. Is(f)
  BY <1>9, <1>10, <1>11, <1>12, Zenon
<1>14. Is(paste)
  BY <1>13, Zenon DEF paste
<1>15. ASSUME NEW i \in 1..(Len(str) + 1)
       PROVE  paste[i] = IF end(i) = 0 THEN From(str, i)
                         ELSE SubSeq(str, i, end(i) - 1) \o between \o paste[end(i) + 1]
  BY <1>11, <1>14, Zenon
<1>16. Replaces(paste, str, sep, between)
  BY <1>15 DEF Replaces
<1> QED BY <1>1, <1>16

(* Two pieces that meet make one.                                          *)
LEMMA PiecesMeet ==
    ASSUME NEW S, NEW str \in Seq(S), NEW i \in Nat \ {0}, NEW j \in Nat, NEW k \in Nat,
           i <= j + 1, j <= k, k <= Len(str)
    PROVE  SubSeq(str, i, j) \o SubSeq(str, j + 1, k) = SubSeq(str, i, k)
<1> DEFINE left == SubSeq(str, i, j)
           right == SubSeq(str, j + 1, k)
           both == SubSeq(str, i, k)
           sum == left \o right
<1>1. Len(str) \in Nat
  BY ElementsOf
<1>2. /\ left \in Seq(S) /\ Len(left) = j + 1 - i
      /\ \A l \in 1..(j + 1 - i) : left[l] = str[i + l - 1]
  <2>1. j <= Len(str)
    BY <1>1
  <2> QED BY <2>1, PieceIs
<1>3. /\ right \in Seq(S) /\ Len(right) = k - j
      /\ \A l \in 1..(k - j) : right[l] = str[j + l]
  <2> DEFINE f == j + 1
  <2>1. /\ f \in Nat \ {0} /\ f <= k + 1 /\ k + 1 - f = k - j
        /\ \A l \in 1..(k - j) : f + l - 1 = j + l
    OBVIOUS
  <2>2. right = SubSeq(str, f, k)
    OBVIOUS
  <2> HIDE DEF f, right
  <2>3. /\ SubSeq(str, f, k) \in Seq(S) /\ Len(SubSeq(str, f, k)) = k + 1 - f
        /\ \A l \in 1..(k + 1 - f) : SubSeq(str, f, k)[l] = str[f + l - 1]
    BY <2>1, PieceIs
  <2> QED BY <2>1, <2>2, <2>3
<1>4. /\ both \in Seq(S) /\ Len(both) = k + 1 - i
      /\ \A l \in 1..(k + 1 - i) : both[l] = str[i + l - 1]
  <2>1. i <= k + 1
    OBVIOUS
  <2> QED BY <2>1, PieceIs, SMTT(30)
<1> HIDE DEF left, right, both
<1>5. /\ sum \in Seq(S) /\ Len(sum) = Len(left) + Len(right)
      /\ \A l \in 1..Len(left) : sum[l] = left[l]
      /\ \A l \in 1..Len(right) : sum[Len(left) + l] = right[l]
  <2>1. left \in Seq(S) /\ right \in Seq(S)
    BY <1>2, <1>3
  <2> QED BY <2>1, ConcatIs
<1> HIDE DEF sum
<1>6. Len(sum) = Len(both)
  BY <1>2, <1>3, <1>4, <1>5, SMTT(30)
<1>7. ASSUME NEW l \in 1..Len(both) PROVE sum[l] = both[l]
  <2>1. l \in 1..(k + 1 - i) /\ both[l] = str[i + l - 1]
    BY <1>4
  <2>2. CASE l <= j + 1 - i
    <3>1. l \in 1..(j + 1 - i)
      BY <2>1, <2>2
    <3>2. l \in 1..Len(left)
      BY <1>2, <3>1
    <3> QED BY <1>2, <1>5, <2>1, <3>1, <3>2
  <2>3. CASE l > j + 1 - i
    <3> DEFINE h == l - (j + 1 - i)
    <3>1. h \in 1..(k - j) /\ (j + 1 - i) + h = l /\ j + h = i + l - 1
      BY <2>1, <2>3
    <3> HIDE DEF h
    <3>2. h \in 1..Len(right) /\ Len(left) + h = l
      BY <1>2, <1>3, <3>1
    <3>3. sum[l] = right[h]
      BY <1>5, <3>2
    <3>4. right[h] = str[i + l - 1]
      BY <1>3, <3>1
    <3> QED BY <2>1, <3>3, <3>4
  <2> QED BY <2>1, <2>2, <2>3
<1>8. sum = both
  <2>1. sum \in Seq(S) /\ both \in Seq(S) /\ Len(sum) = Len(both)
    BY <1>4, <1>5, <1>6
  <2>2. \A l \in 1..Len(sum) : sum[l] = both[l]
    BY <1>6, <1>7
  <2> QED BY <2>1, <2>2, SeqEqual
<1> QED BY <1>8 DEF sum, left, right, both

(* A character in a text is between two pieces of it.                      *)
LEMMA CutAt ==
    ASSUME NEW S, NEW str \in Seq(S), NEW i \in Nat \ {0}, NEW e \in i..Len(str)
    PROVE  /\ SubSeq(str, i, e - 1) \in Seq(S) /\ From(str, e + 1) \in Seq(S)
           /\ SubSeq(str, i, e - 1) \o (<<str[e]>> \o From(str, e + 1)) = From(str, i)
<1> DEFINE n == Len(str)
           before == e - 1
<1>1. n \in Nat
  BY ElementsOf
<1>2. /\ e \in Nat \ {0} /\ e \in Nat /\ e <= e + 1 /\ e <= n /\ n <= Len(str) /\ e \in 1..Len(str)
      /\ before \in Nat /\ before + 1 = e /\ before <= n /\ i <= before + 1
      /\ e + 1 \in 1..(Len(str) + 1) /\ before <= Len(str)
  BY <1>1
<1>3. SubSeq(str, i, before) \in Seq(S)
  <2> HIDE DEF before
  <2> QED BY <1>2, PieceIs
<1>4. From(str, e + 1) \in Seq(S)
  BY <1>2, RestIs
<1>5. SubSeq(str, e, e) \o SubSeq(str, e + 1, n) = SubSeq(str, e, n)
  <2> HIDE DEF n
  <2> QED BY <1>1, <1>2, PiecesMeet
<1>6. SubSeq(str, i, before) \o SubSeq(str, before + 1, n) = SubSeq(str, i, n)
  <2> HIDE DEF n, before
  <2> QED BY <1>1, <1>2, PiecesMeet
<1>7. SubSeq(str, e, e) = <<str[e]>>
  BY <1>2, PieceOne
<1>8. SubSeq(str, i, before) \o SubSeq(str, e, n) = SubSeq(str, i, n)
  <2> HIDE DEF n, before
  <2> QED BY <1>2, <1>6
<1> QED BY <1>3, <1>4, <1>5, <1>7, <1>8 DEF From

\* What the cuts behind start are like, when count have been made before.
GoodCut(c, str, sep, max, start, count, between, r) ==
    /\ c \in Seq(Seq(Chars)) /\ Len(c) >= 1
    /\ JoinedWith(c, <<sep>>) = From(str, start)
    /\ max > 1 /\ count <= max - 1 => Len(c) + count <= max
    /\ max = 0 =>
           /\ \A i \in 1..Len(c) : \A k \in 1..Len(c[i]) : c[i][k] # sep
           /\ JoinedWith(c, between) = r[start]
    /\ \E b \in start..(Len(str) + 1) : c[Len(c)] = From(str, b)

(* So is the last part.                                                    *)
LEMMA LastCut ==
    ASSUME NEW str \in Seq(Chars), NEW sep \in Chars, NEW max \in Nat,
           NEW start \in 1..(Len(str) + 1), NEW count \in Nat, NEW between \in Seq(Chars),
           NEW r, Replaces(r, str, sep, between),
           CutEnd(str, sep, max, start, count) = 0
    PROVE  GoodCut(<<From(str, start)>>, str, sep, max, start, count, between, r)
<1> DEFINE x == From(str, start)
           parts == <<x>>
           t == <<sep>>
           e == FindFrom(str, <<sep>>, start)
<1>1. x \in Seq(Chars) /\ Len(x) = Len(str) + 1 - start
  BY RestIs
<1>2. Len(str) \in Nat /\ start \in Nat \ {0}
  BY ElementsOf
<1>3. t \in Seq(Chars)
  <2> DEFINE A == Chars
  <2>1. sep \in A
    OBVIOUS
  <2> HIDE DEF A
  <2>2. <<sep>> \in Seq(A)
    BY <2>1
  <2> QED BY <2>2 DEF A
<1>4. FoundAt(e, str, sep, start)
  BY <1>2, FindIs
<1>5. r[start] = IF e = 0 THEN x ELSE SubSeq(str, start, e - 1) \o between \o r[e + 1]
  BY Zenon DEF Replaces
<1>6. e = 0 \/ (max > 0 /\ count > 0 /\ count >= max - 1)
  BY Zenon DEF CutEnd
<1> HIDE DEF x, t, e
<1>7. JoinedWith(parts, t) = x /\ JoinedWith(parts, between) = x
  BY <1>1, <1>3, JoinedOne
<1>8. parts \in Seq(Seq(Chars)) /\ Len(parts) = 1 /\ parts[1] = x
  <2> DEFINE A == Seq(Chars)
  <2>1. x \in A
    BY <1>1
  <2> HIDE DEF A
  <2>2. parts \in Seq(A) /\ Len(parts) = 1 /\ parts[1] = x
    BY <2>1
  <2> QED BY <2>2 DEF A
<1> HIDE DEF parts
<1>9. ASSUME max = 0 PROVE /\ \A i \in 1..Len(parts) : \A k \in 1..Len(parts[i]) : parts[i][k] # sep
                           /\ JoinedWith(parts, between) = r[start]
  <2>1. e = 0
    BY <1>6, <1>9
  <2>2. \A j \in start..Len(str) : str[j] # sep
    BY <1>2, <1>4, <2>1 DEF FoundAt
  <2>3. ASSUME NEW k \in 1..Len(x) PROVE x[k] # sep
    <3> DEFINE n == Len(str)
    <3>0. n \in Nat /\ n <= Len(str) /\ start \in Nat \ {0} /\ start <= n + 1
      BY <1>2
    <3>1. \A l \in 1..(n + 1 - start) :
              SubSeq(str, start, n)[l] = str[start + l - 1] /\ start + l - 1 \in start..n
      <4> HIDE DEF n
      <4> QED BY <3>0, PieceIs
    <3>2. k \in 1..(n + 1 - start)
      BY <1>1
    <3>3. x[k] = str[start + k - 1] /\ start + k - 1 \in start..n
      BY <3>1, <3>2 DEF x, From
    <3> QED BY <2>2, <3>3
  <2>4. \A i \in 1..Len(parts) : i = 1
    BY <1>8
  <2> QED BY <1>5, <1>7, <1>8, <2>1, <2>3, <2>4
<1>10. max > 1 /\ count <= max - 1 => Len(parts) + count <= max
  BY <1>8
<1>11. \E b \in start..(Len(str) + 1) : parts[Len(parts)] = From(str, b)
  <2>1. start \in start..(Len(str) + 1)
    BY <1>2
  <2> QED BY <1>8, <2>1 DEF x
<1>12. JoinedWith(parts, <<sep>>) = From(str, start)
  BY <1>7 DEF t, x
<1>13. GoodCut(parts, str, sep, max, start, count, between, r)
  <2>1. Len(parts) >= 1
    BY <1>8
  <2> QED BY <1>8, <1>9, <1>10, <1>11, <1>12, <2>1 DEF GoodCut
<1> QED BY <1>13 DEF parts, x

(* And one more before them.                                               *)
LEMMA NextCut ==
    ASSUME NEW str \in Seq(Chars), NEW sep \in Chars, NEW max \in Nat,
           NEW start \in 1..(Len(str) + 1), NEW count \in Nat, NEW between \in Seq(Chars),
           NEW r, Replaces(r, str, sep, between), NEW e,
           e = CutEnd(str, sep, max, start, count), e # 0,
           NEW c, GoodCut(c, str, sep, max, e + 1, count + 1, between, r)
    PROVE  GoodCut(<<SubSeq(str, start, e - 1)>> \o c, str, sep, max, start, count, between, r)
<1> DEFINE x == SubSeq(str, start, e - 1)
           one == <<x>>
           p == one \o c
           t == <<sep>>
<1>1. Len(str) \in Nat /\ start \in Nat \ {0}
  BY ElementsOf
<1>2. e = FindFrom(str, <<sep>>, start) /\ (max > 0 /\ count > 0 => count < max - 1)
  <2>1. e = FindFrom(str, <<sep>>, start) /\ ~(max > 0 /\ count > 0 /\ count >= max - 1)
    BY Zenon DEF CutEnd
  <2> QED BY <2>1
<1>3. e \in start..Len(str) /\ str[e] = sep /\ \A j \in start..(e - 1) : str[j] # sep
  <2>1. FoundAt(e, str, sep, start)
    BY <1>1, <1>2, FindIs
  <2> QED BY <2>1 DEF FoundAt
<1>4. /\ x \in Seq(Chars) /\ From(str, e + 1) \in Seq(Chars)
      /\ x \o (t \o From(str, e + 1)) = From(str, start)
  BY <1>1, <1>3, CutAt
<1>5. r[start] = x \o between \o r[e + 1]
  BY <1>2, Zenon DEF Replaces
<1>6. \A k \in 1..Len(x) : x[k] # sep
  <2> DEFINE j == e - 1
  <2>1. j \in Nat /\ j <= Len(str) /\ start <= j + 1 /\ start \in Nat \ {0}
    BY <1>1, <1>3
  <2> HIDE DEF j
  <2>2. /\ Len(SubSeq(str, start, j)) = j + 1 - start
        /\ \A k \in 1..(j + 1 - start) :
               SubSeq(str, start, j)[k] = str[start + k - 1] /\ start + k - 1 \in start..j
    BY <2>1, PieceIs
  <2>3. \A l \in start..j : str[l] # sep
    BY <1>3 DEF j
  <2>4. \A k \in 1..Len(SubSeq(str, start, j)) : SubSeq(str, start, j)[k] # sep
    BY <2>2, <2>3
  <2> QED BY <2>4 DEF j
<1>7. t \in Seq(Chars)
  <2> DEFINE A == Chars
  <2>1. sep \in A
    OBVIOUS
  <2> HIDE DEF A
  <2>2. <<sep>> \in Seq(A)
    BY <2>1
  <2> QED BY <2>2 DEF A
<1>8. /\ c \in Seq(Seq(Chars)) /\ Len(c) >= 1 /\ JoinedWith(c, t) = From(str, e + 1)
      /\ max > 1 /\ count + 1 <= max - 1 => Len(c) + (count + 1) <= max
      /\ max = 0 => /\ \A i \in 1..Len(c) : \A k \in 1..Len(c[i]) : c[i][k] # sep
                    /\ JoinedWith(c, between) = r[e + 1]
      /\ \E b \in (e + 1)..(Len(str) + 1) : c[Len(c)] = From(str, b)
  BY Zenon DEF GoodCut
<1> HIDE DEF x, t
<1>9. /\ JoinedWith(c, between) \in Seq(Chars)
      /\ JoinedWith(p, t) = x \o (t \o JoinedWith(c, t))
      /\ JoinedWith(p, between) = x \o (between \o JoinedWith(c, between))
  <2>1. x \in Seq(Chars) /\ c \in Seq(Seq(Chars)) /\ Len(c) >= 1 /\ t \in Seq(Chars)
    BY <1>4, <1>7, <1>8
  <2>2. JoinedWith(p, t) = x \o (t \o JoinedWith(c, t))
    BY <2>1, JoinedMore
  <2>3. /\ JoinedWith(c, between) \in Seq(Chars)
        /\ JoinedWith(p, between) = x \o (between \o JoinedWith(c, between))
    BY <2>1, JoinedMore
  <2> QED BY <2>2, <2>3
<1>10. /\ p \in Seq(Seq(Chars)) /\ Len(p) = Len(c) + 1 /\ Len(c) \in Nat
       /\ p[1] = x /\ \A i \in 1..Len(c) : p[1 + i] = c[i]
  <2> DEFINE A == Seq(Chars)
  <2>1. one \in Seq(A) /\ Len(one) = 1 /\ one[1] = x /\ c \in Seq(A)
    <3>1. x \in A /\ c \in Seq(A)
      BY <1>4, <1>8
    <3> HIDE DEF A
    <3> QED BY <3>1
  <2> HIDE DEF A, one
  <2>2. one \in Seq(A) /\ c \in Seq(A)
    BY <2>1
  <2>3. /\ one \o c \in Seq(A) /\ Len(one \o c) = Len(one) + Len(c) /\ Len(c) \in Nat
        /\ \A i \in 1..Len(one) : (one \o c)[i] = one[i]
        /\ \A j \in 1..Len(c) : (one \o c)[Len(one) + j] = c[j]
    BY <2>2, ConcatIs
  <2>4. 1 \in 1..Len(one)
    BY <2>1
  <2> QED BY <2>1, <2>3, <2>4, SMTT(30) DEF A
<1> HIDE DEF p
<1>11. JoinedWith(p, t) = From(str, start)
  BY <1>4, <1>8, <1>9
<1>12. ASSUME max > 1, count <= max - 1 PROVE Len(p) + count <= max
  <2>1. count + 1 <= max - 1
    BY <1>2, <1>12
  <2> QED BY <1>8, <1>10, <1>12, <2>1
<1>13. ASSUME max = 0 PROVE /\ \A i \in 1..Len(p) : \A k \in 1..Len(p[i]) : p[i][k] # sep
                            /\ JoinedWith(p, between) = r[start]
  <2>1. ASSUME NEW i \in 1..Len(p) PROVE \A k \in 1..Len(p[i]) : p[i][k] # sep
    <3>1. CASE i = 1
      BY <1>6, <1>10, <3>1
    <3>2. CASE i # 1
      <4> DEFINE h == i - 1
      <4>1. h \in 1..Len(c) /\ 1 + h = i
        BY <1>10, <3>2
      <4> HIDE DEF h
      <4>2. p[i] = c[h]
        BY <1>10, <4>1
      <4>3. \A k \in 1..Len(c[h]) : c[h][k] # sep
        BY <1>8, <1>13, <4>1
      <4> QED BY <4>2, <4>3
    <3> QED BY <3>1, <3>2
  <2>2. JoinedWith(p, between) = r[start]
    <3> DEFINE jc == JoinedWith(c, between)
    <3>1. x \in Seq(Chars) /\ between \in Seq(Chars) /\ jc \in Seq(Chars)
      BY <1>4, <1>9
    <3>2. jc = r[e + 1]
      BY <1>8, <1>13
    <3>3. JoinedWith(p, between) = x \o (between \o jc)
      BY <1>9
    <3> HIDE DEF jc
    <3>4. Reassociates(x, between, jc)
      BY <3>1, Associates, Zenon
    <3> QED BY <1>5, <3>2, <3>3, <3>4 DEF Reassociates
  <2> QED BY <2>1, <2>2
<1>14. \E b \in start..(Len(str) + 1) : p[Len(p)] = From(str, b)
  <2>1. PICK b \in (e + 1)..(Len(str) + 1) : c[Len(c)] = From(str, b)
    BY <1>8
  <2>2. b \in start..(Len(str) + 1)
    BY <1>1, <1>3
  <2>3. p[Len(p)] = c[Len(c)]
    <3> DEFINE m == Len(c)
    <3>1. m \in 1..Len(c) /\ Len(p) = 1 + m
      BY <1>8, <1>10
    <3> HIDE DEF m
    <3>2. p[1 + m] = c[m]
      BY <1>10, <3>1
    <3> QED BY <3>1, <3>2 DEF m
  <2> QED BY <2>1, <2>2, <2>3
<1>15. GoodCut(p, str, sep, max, start, count, between, r)
  <2>1. Len(p) >= 1 /\ JoinedWith(p, <<sep>>) = From(str, start)
    BY <1>10, <1>11 DEF t
  <2> QED BY <1>10, <1>12, <1>13, <1>14, <2>1 DEF GoodCut
<1> QED BY <1>15 DEF p, x

(* So all cuts are, from the last to the first.                            *)
LEMMA CutsGood ==
    ASSUME NEW str \in Seq(Chars), NEW sep \in Chars, NEW max \in Nat, NEW between \in Seq(Chars),
           NEW r, Replaces(r, str, sep, between), NEW d, Cuts(d, str, sep, max)
    PROVE  \A p \in CutPlaces(Len(str)) : GoodCut(d[p], str, sep, max, p[1] + 1, p[2], between, r)
<1> DEFINE n == Len(str)
           Good(p) == GoodCut(d[p], str, sep, max, p[1] + 1, p[2], between, r)
           T == {k \in Nat : \E p \in CutPlaces(n) : n - p[1] = k /\ ~Good(p)}
<1>1. n \in Nat
  BY ElementsOf
<1>2. ASSUME NEW p \in CutPlaces(n)
      PROVE  /\ p[1] \in 0..n /\ p[2] \in 0..n /\ p[2] <= p[1] /\ p[2] \in Nat
             /\ p[1] + 1 \in 1..(Len(str) + 1)
  BY DEF CutPlaces
<1>3. T = {}
  <2> SUFFICES ASSUME T # {} PROVE FALSE
    OBVIOUS
  <2>1. PICK m \in T : \A l \in T : m <= l
    <3>1. T \subseteq Nat
      OBVIOUS
    <3> HIDE DEF T
    <3> QED BY <3>1, LeastNumber
  <2>2. PICK p \in CutPlaces(n) : n - p[1] = m /\ ~Good(p)
    OBVIOUS
  <2> DEFINE start == p[1] + 1
             count == p[2]
             e == CutEnd(str, sep, max, start, count)
             q == <<e, count + 1>>
  <2>3. /\ start \in 1..(Len(str) + 1) /\ count \in Nat
        /\ p[1] \in 0..n /\ count \in 0..n /\ count <= p[1]
    BY <1>2
  <2>4. d[p] = IF e = 0 THEN <<From(str, start)>>
               ELSE <<SubSeq(str, start, e - 1)>> \o d[q]
    <3>1. p \in CutPlaces(Len(str))
      OBVIOUS
    <3> QED BY <3>1, Zenon DEF Cuts
  <2>5. Good(p) = GoodCut(d[p], str, sep, max, start, count, between, r)
    OBVIOUS
  <2> HIDE DEF start, count, e, Good, T, n
  <2>6. CASE e = 0
    <3>1. GoodCut(<<From(str, start)>>, str, sep, max, start, count, between, r)
      BY <2>3, <2>6, LastCut DEF e
    <3> HIDE DEF q
    <3> QED BY <2>2, <2>4, <2>5, <2>6, <3>1
  <2>7. CASE e # 0
    <3>1. e \in start..Len(str)
      BY <2>3, <2>7, CutEndIs DEF e
    <3>2. /\ e \in 0..n /\ count + 1 \in 0..n /\ count + 1 <= e
          /\ n - e \in Nat /\ ~(m <= n - e) /\ count + 1 \in Nat
      <4>1. start = p[1] + 1 /\ n - p[1] = m /\ e \in start..n
        BY <2>2, <3>1 DEF start, n
      <4> QED BY <1>1, <2>3, <4>1
    <3>3. q \in CutPlaces(n) /\ q[1] = e /\ q[2] = count + 1
      BY <3>2 DEF CutPlaces
    <3> HIDE DEF q
    <3>4. Good(q)
      <4> SUFFICES ASSUME ~Good(q) PROVE FALSE
        OBVIOUS
      <4>1. n - q[1] \in T
        BY <3>2, <3>3 DEF T
      <4> QED BY <2>1, <3>2, <3>3, <4>1
    <3>5. GoodCut(d[q], str, sep, max, e + 1, count + 1, between, r)
      BY <3>3, <3>4 DEF Good
    <3> DEFINE c == d[q]
    <3> HIDE DEF c
    <3>6. GoodCut(<<SubSeq(str, start, e - 1)>> \o c, str, sep, max, start, count, between, r)
      <4>1. GoodCut(c, str, sep, max, e + 1, count + 1, between, r)
        BY <3>5 DEF c
      <4>2. e = CutEnd(str, sep, max, start, count)
        BY DEF e
      <4> QED BY <2>3, <2>7, <4>1, <4>2, NextCut
    <3> QED BY <2>2, <2>4, <2>5, <2>7, <3>6 DEF c
  <2> QED BY <2>6, <2>7
<1>4. ASSUME NEW p \in CutPlaces(n) PROVE Good(p)
  <2>1. n - p[1] \in Nat
    BY <1>1, <1>2
  <2> HIDE DEF Good
  <2> QED BY <1>3, <2>1
<1> QED BY <1>4

(* The whole of a text is a piece of it.                                   *)
LEMMA WholePiece ==
    ASSUME NEW S, NEW str \in Seq(S)
    PROVE  SubSeq(str, 1, Len(str)) = str
<1> DEFINE n == Len(str)
           x == SubSeq(str, 1, n)
<1>1. n \in Nat /\ 1 \in Nat \ {0} /\ n <= Len(str) /\ 1 <= n + 1 /\ n + 1 - 1 = n
  BY ElementsOf
<1>2. x \in Seq(S) /\ Len(x) = n /\ \A k \in 1..n : x[k] = str[k]
  <2> HIDE DEF n
  <2>1. /\ x \in Seq(S) /\ Len(x) = n + 1 - 1
        /\ \A k \in 1..(n + 1 - 1) : x[k] = str[1 + k - 1]
    BY <1>1, PieceIs
  <2>2. \A k \in 1..n : 1 + k - 1 = k
    BY <1>1
  <2> HIDE DEF x
  <2> QED BY <1>1, <2>1, <2>2
<1> HIDE DEF x
<1>3. x \in Seq(S) /\ str \in Seq(S) /\ Len(x) = Len(str)
  BY <1>2
<1>4. x = str
  BY <1>2, <1>3, SeqEqual
<1> QED BY <1>4 DEF x

(* A text starts with what it begins with.                                 *)
LEMMA StartsWith ==
    ASSUME NEW S, NEW str \in Seq(S), NEW j \in 0..Len(str)
    PROVE  starts_with(str, SubSeq(str, 1, j))
<1> DEFINE x == SubSeq(str, 1, j)
<1>1. Len(str) \in Nat
  BY ElementsOf
<1>2. 1 \in Nat \ {0} /\ j \in Nat /\ j <= Len(str) /\ 1 <= j + 1 /\ j + 1 - 1 = j
  BY <1>1
<1>3. x \in Seq(S) /\ Len(x) = j
  <2>1. x \in Seq(S) /\ Len(x) = j + 1 - 1
    BY <1>2, PieceIs
  <2> HIDE DEF x
  <2> QED BY <1>2, <2>1
<1>4. SubSeq(str, 1, Len(x)) = x
  <2> HIDE DEF x
  <2>1. SubSeq(str, 1, Len(x)) = SubSeq(str, 1, j)
    BY <1>3
  <2> QED BY <2>1 DEF x
<1> HIDE DEF x
<1>5. SubSeq(x, 1, Len(x)) = x
  BY <1>3, WholePiece
<1>6. starts_with(str, x)
  <2>1. Len(x) <= Len(str)
    BY <1>2, <1>3
  <2> QED BY <1>4, <1>5, <2>1 DEF starts_with, IsPrefix
<1> QED BY <1>6 DEF x

(* And ends with what is left of it.                                       *)
LEMMA EndsWith ==
    ASSUME NEW S, NEW str \in Seq(S), NEW b \in 1..(Len(str) + 1)
    PROVE  ends_with(str, From(str, b))
<1> DEFINE n == Len(str)
           x == From(str, b)
           m == Len(x)
           rs == Reverse(str)
           rx == Reverse(x)
<1>1. n \in Nat /\ \A k \in 1..n : str[k] \in S
  BY ElementsOf
<1>2. b \in Nat \ {0} /\ n \in Nat /\ n <= Len(str) /\ b <= n + 1
  BY <1>1
<1>3. /\ x \in Seq(S) /\ m = n + 1 - b /\ m \in 0..n
      /\ \A k \in 1..m : x[k] = str[b + k - 1]
  <2>1. /\ SubSeq(str, b, n) \in Seq(S) /\ Len(SubSeq(str, b, n)) = n + 1 - b
        /\ \A k \in 1..(n + 1 - b) : SubSeq(str, b, n)[k] = str[b + k - 1]
    <3> HIDE DEF n
    <3> QED BY <1>2, PieceIs
  <2>2. x = SubSeq(str, b, n)
    BY DEF From
  <2>3. n + 1 - b \in 0..n
    BY <1>2
  <2> HIDE DEF n, x
  <2> QED BY <2>1, <2>2, <2>3
<1> HIDE DEF n, x, m
<1>4. \A k \in 1..m : x[k] \in S
  BY <1>3, ElementsOf DEF m
<1>5. rs \in Seq(S) /\ Len(rs) = n /\ \A i \in 1..n : rs[i] = str[n - i + 1]
  <2> DEFINE g == [i \in 1..n |-> str[n - i + 1]]
  <2>1. rs = g
    BY DEF Reverse, n
  <2>2. \A i \in 1..n : n - i + 1 \in 1..n
    BY <1>1
  <2>3. g \in Seq(S) /\ Len(g) = n
    BY <1>1, <2>2
  <2> HIDE DEF rs
  <2> QED BY <2>1, <2>3
<1>6. rx \in Seq(S) /\ Len(rx) = m /\ \A i \in 1..m : rx[i] = x[m - i + 1]
  <2> DEFINE g == [i \in 1..m |-> x[m - i + 1]]
  <2>1. rx = g
    BY DEF Reverse, m
  <2>2. m \in Nat /\ \A i \in 1..m : m - i + 1 \in 1..m
    BY <1>1, <1>3
  <2>3. \A i \in 1..m : x[m - i + 1] \in S
    BY <1>4, <2>2
  <2>4. g \in Seq(S) /\ Len(g) = m
    BY <2>2, <2>3
  <2> HIDE DEF rx
  <2> QED BY <2>1, <2>4
<1> HIDE DEF rs, rx
<1> DEFINE px == SubSeq(rs, 1, m)
<1>7. px \in Seq(S) /\ Len(px) = m /\ \A i \in 1..m : px[i] = rs[i]
  <2>1. 1 \in Nat \ {0} /\ m \in Nat /\ m <= Len(rs) /\ 1 <= m + 1 /\ m + 1 - 1 = m
    BY <1>3, <1>5
  <2>2. /\ px \in Seq(S) /\ Len(px) = m + 1 - 1
        /\ \A k \in 1..(m + 1 - 1) : px[k] = rs[1 + k - 1]
    BY <1>5, <2>1, PieceIs
  <2>3. \A k \in 1..m : 1 + k - 1 = k
    BY <2>1
  <2> HIDE DEF px
  <2> QED BY <2>1, <2>2, <2>3
<1> HIDE DEF px
<1>8. ASSUME NEW i \in 1..m PROVE px[i] = rx[i]
  <2> DEFINE h == m - i + 1
  <2>1. h \in 1..m /\ b + h - 1 = n - i + 1 /\ i \in 1..n
    BY <1>2, <1>3
  <2>2. rx[i] = x[h]
    BY <1>6
  <2> HIDE DEF h
  <2>3. x[h] = str[b + h - 1]
    BY <1>3, <2>1
  <2> QED BY <1>5, <1>7, <2>1, <2>2, <2>3
<1>9. px = rx
  <2>1. px \in Seq(S) /\ rx \in Seq(S) /\ Len(px) = Len(rx)
    BY <1>6, <1>7
  <2>2. \A i \in 1..Len(px) : px[i] = rx[i]
    BY <1>7, <1>8
  <2> QED BY <2>1, <2>2, SeqEqual
<1>10. SubSeq(rx, 1, Len(rx)) = rx
  BY <1>6, WholePiece
<1>11. Len(rx) <= Len(rs) /\ SubSeq(rx, 1, Len(rx)) = SubSeq(rs, 1, Len(rx))
  <2>1. SubSeq(rs, 1, Len(rx)) = rx
    BY <1>6, <1>9 DEF px
  <2> QED BY <1>3, <1>5, <1>6, <1>10, <2>1
<1>12. IsPrefix(rx, rs)
  BY <1>11, Zenon DEF IsPrefix
<1>13. IsSuffix(x, str)
  BY <1>12, Zenon DEF IsSuffix, rx, rs
<1> QED BY <1>13 DEF ends_with, x

(* Upper case compares equal, when the case is ignored.                    *)
LEMMA CaseIgnored ==
    ASSUME NEW str \in Seq(Chars)
    PROVE  compare(str, to_upper(str), TRUE)
<1> DEFINE upper == to_upper(str)
           n == Len(str)
<1>1. n \in Nat /\ DOMAIN str = 1..n /\ \A k \in 1..n : str[k] \in Chars
  BY ElementsOf
<1>2. /\ DOMAIN upper = 1..n
      /\ \A i \in 1..n : upper[i] = IF str[i] \in 97..122 THEN str[i] - 32 ELSE str[i]
  <2> HIDE DEF n
  <2> QED BY <1>1 DEF to_upper
<1> HIDE DEF upper, n
<1>3. ASSUME NEW i \in 1..n PROVE ToLower(str[i]) = ToLower(upper[i])
  <2> DEFINE c == str[i]
             u == upper[i]
  <2>1. c \in Chars /\ u = IF c \in 97..122 THEN c - 32 ELSE c
    BY <1>1, <1>2
  <2> HIDE DEF c, u
  <2>2. ToLower(c) = ToLower(u)
    BY <2>1 DEF ToLower, Chars
  <2> QED BY <2>2 DEF c, u
<1>4. to_lower(str) = to_lower(upper)
  BY <1>1, <1>2, <1>3, Zenon DEF to_lower
<1>5. compare(str, upper, TRUE)
  BY <1>4, Zenon DEF compare
<1> QED BY <1>5 DEF upper

(* What has not the character does not contain it.                         *)
LEMMA NotContained ==
    ASSUME NEW str \in Seq(Chars), NEW c \in Chars, \A i \in 1..Len(str) : str[i] # c
    PROVE  ~contains(str, <<c>>)
<1> DEFINE e == FindFrom(str, <<c>>, 1)
<1>1. 1 \in Nat \ {0}
  OBVIOUS
<1>2. FoundAt(e, str, c, 1)
  BY <1>1, FindIs
<1> HIDE DEF e
<1>3. e = 0
  BY <1>2 DEF FoundAt
<1>4. ~(e # 0)
  BY <1>3
<1> QED BY <1>4, Zenon DEF contains, e

---------------------------------------------------------------------------
(***************************************************************************)
(* URIs. The argument: none of the parts has a delimiter of a part behind  *)
(* it, so that each function finds the first delimiter where its part      *)
(* ends.                                                                   *)
(***************************************************************************)

(* A run ends where the first character to stop at is.                     *)
LEMMA RunIs ==
    ASSUME NEW str \in Seq(Chars), NEW i \in Nat \ {0}, NEW j \in i..(Len(str) + 1), NEW stop,
           \A k \in i..(j - 1) : str[k] \notin stop, j = Len(str) + 1 \/ str[j] \in stop
    PROVE  RunFrom(str, i, stop) = SubSeq(str, i, j - 1)
<1> DEFINE n == Len(str)
           T == {k \in i..n : str[k] \in stop} \cup {n + 1}
<1>1. n \in Nat
  BY ElementsOf
<1>2. RunFrom(str, i, stop) = SubSeq(str, i, Min(T) - 1)
  BY Zenon DEF RunFrom
<1> HIDE DEF n
<1>3. T \subseteq Nat /\ T # {}
  BY <1>1
<1>4. j \in T
  <2>1. j \in i..(n + 1) /\ (j = n + 1 \/ str[j] \in stop)
    BY DEF n
  <2> QED BY <1>1, <2>1
<1>5. \A k \in T : k \in i..(n + 1) /\ (k = n + 1 \/ str[k] \in stop)
  <2>1. n + 1 \in i..(n + 1)
    BY <1>1 DEF n
  <2> QED BY <1>1, <2>1
<1>6. Min(T) \in T /\ \A k \in T : Min(T) <= k
  <2> HIDE DEF T
  <2> QED BY <1>3, LeastOf
<1> DEFINE m == Min(T)
<1>7. m \in i..(n + 1) /\ (m = n + 1 \/ str[m] \in stop) /\ m <= j
  BY <1>4, <1>5, <1>6
<1> HIDE DEF m, T
<1>8. m = j
  <2> SUFFICES ASSUME m # j PROVE FALSE
    OBVIOUS
  <2>1. j \in i..(n + 1)
    BY DEF n
  <2>2. m \in i..(j - 1) /\ m # n + 1
    BY <1>1, <1>7, <2>1
  <2> QED BY <1>7, <2>2
<1> QED BY <1>2, <1>8 DEF m

(* Where the characters of :// are is a piece of it.                       *)
LEMMA DelimitersAre ==
    ASSUME NEW str \in Seq(Chars), NEW i \in Nat \ {0}, i + 2 <= Len(str)
    PROVE  /\ SubSeq(str, i, i + 2) = Delimiters => str[i] = 58
           /\ str[i] = 58 /\ str[i + 1] = 47 /\ str[i + 2] = 47 => SubSeq(str, i, i + 2) = Delimiters
<1> DEFINE x == Delimiters
           at == i - 1
           j == i + 2
<1>1. 58 \in Chars /\ 47 \in Chars
  BY DEF Chars
<1>2. x \in Seq(Chars) /\ Len(x) = 3 /\ x[1] = 58 /\ x[2] = 47 /\ x[3] = 47
  BY <1>1, ShortTexts DEF Delimiters, Colon, Slash
<1> HIDE DEF x
<1>3. at \in Nat /\ at + 1 = i /\ at + 2 = i + 1 /\ at + 3 = i + 2 /\ at + Len(x) <= Len(str)
      /\ j \in Nat /\ j <= Len(str) /\ i <= j + 1 /\ j + 1 - i = 3 /\ 1 \in 1..3 /\ i + 1 - 1 = i
  BY <1>2
<1>4. ASSUME SubSeq(str, i, i + 2) = x PROVE str[i] = 58
  <2> DEFINE y == SubSeq(str, i, j)
  <2>1. \A k \in 1..(j + 1 - i) : y[k] = str[i + k - 1]
    <3> HIDE DEF j
    <3> QED BY <1>3, PieceIs
  <2>2. y = x
    BY <1>4
  <2> HIDE DEF y
  <2>3. y[1] = str[i + 1 - 1]
    BY <1>3, <2>1
  <2> QED BY <1>2, <1>3, <2>2, <2>3
<1>5. ASSUME str[i] = 58, str[i + 1] = 47, str[i + 2] = 47 PROVE SubSeq(str, i, i + 2) = x
  <2>1. \A k \in 1..Len(x) : k = 1 \/ k = 2 \/ k = 3
    BY <1>2
  <2>2. \A k \in 1..Len(x) : str[at + k] = x[k]
    <3> HIDE DEF at
    <3> QED BY <1>2, <1>3, <1>5, <2>1
  <2>3. SubSeq(str, at + 1, at + Len(x)) = x
    <3> HIDE DEF at
    <3> QED BY <1>2, <1>3, <2>2, PieceEqual
  <2>4. at + Len(x) = i + 2
    BY <1>2, <1>3
  <2> HIDE DEF at
  <2> QED BY <1>3, <2>3, <2>4
<1> QED BY <1>4, <1>5 DEF x

\* The parts a URI is made of: the host with its port, and what is allowed in each.
UriParts(uri, scheme, host, path, query) ==
    /\ uri \in Seq(Chars) /\ scheme \in Seq(Chars) /\ host \in Seq(Chars)
    /\ path \in Seq(Chars) /\ query \in Seq(Chars)
    /\ Len(scheme) >= 1 /\ Len(host) >= 1 /\ Len(path) >= 1
    /\ Len(uri) = Len(scheme) + 3 + Len(host) + Len(path) + Len(query)
    /\ \A k \in 1..Len(scheme) : uri[k] = scheme[k] /\ scheme[k] \notin {58, 47, 63, 35}
    /\ uri[Len(scheme) + 1] = 58 /\ uri[Len(scheme) + 2] = 47 /\ uri[Len(scheme) + 3] = 47
    /\ \A k \in 1..Len(host) :
           uri[Len(scheme) + 3 + k] = host[k] /\ host[k] \notin {47, 63, 35}
    /\ \A k \in 1..Len(path) :
           uri[Len(scheme) + 3 + Len(host) + k] = path[k] /\ path[k] \notin {63, 35}
    /\ path[1] = 47
    /\ Len(query) >= 1 => uri[Len(scheme) + 3 + Len(host) + Len(path) + 1] \in {63, 35}

(* The scheme is what is before the first ://.                             *)
LEMMA UriScheme ==
    ASSUME NEW uri, NEW scheme, NEW host, NEW path, NEW query,
           UriParts(uri, scheme, host, path, query)
    PROVE  /\ uri_get_scheme(uri) = {scheme}
           /\ \A i \in 1..(Len(uri) - 2) :
                  SubSeq(uri, i, i + 2) = Delimiters => i >= Len(scheme) + 1
           /\ SubSeq(uri, Len(scheme) + 1, Len(scheme) + 3) = Delimiters
<1> DEFINE n == Len(uri)
           l == Len(scheme)
           stops == {58, 47, 63, 35}
           T == {i \in 2..(n - 2) : SubSeq(uri, i, i + 2) = Delimiters /\ uri[i - 1] \notin stops}
           B == {j \in 1..(Min(T) - 1) : uri[j] \in stops} \cup {0}
<1>1. /\ uri \in Seq(Chars) /\ scheme \in Seq(Chars)
      /\ l \in Nat /\ n \in Nat /\ l >= 1 /\ n >= l + 5
      /\ \A k \in 1..l : uri[k] = scheme[k] /\ scheme[k] \notin stops
      /\ uri[l + 1] = 58 /\ uri[l + 2] = 47 /\ uri[l + 3] = 47
  <2>1. /\ uri \in Seq(Chars) /\ scheme \in Seq(Chars) /\ host \in Seq(Chars)
        /\ path \in Seq(Chars) /\ query \in Seq(Chars)
        /\ l >= 1 /\ Len(host) >= 1 /\ Len(path) >= 1
        /\ n = l + 3 + Len(host) + Len(path) + Len(query)
        /\ \A k \in 1..l : uri[k] = scheme[k] /\ scheme[k] \notin stops
        /\ uri[l + 1] = 58 /\ uri[l + 2] = 47 /\ uri[l + 3] = 47
    BY Zenon DEF UriParts
  <2> HIDE DEF l, n, stops
  <2>2. l \in Nat /\ n \in Nat /\ Len(host) \in Nat /\ Len(path) \in Nat /\ Len(query) \in Nat
    BY <2>1, ElementsOf DEF l, n
  <2>3. n >= l + 5
    BY <2>1, <2>2
  <2> QED BY <2>1, <2>2, <2>3
<1>2. uri_get_scheme(uri) = IF T = {} THEN {} ELSE {SubSeq(uri, Max(B) + 1, Min(T) - 1)}
  BY Zenon DEF uri_get_scheme, Colon, Slash, Question, Hash
<1>3. ASSUME NEW i \in 1..(n - 2), SubSeq(uri, i, i + 2) = Delimiters PROVE i >= l + 1
  <2>1. i \in Nat \ {0} /\ i + 2 <= Len(uri)
    BY <1>1
  <2>2. uri[i] = 58
    BY <1>1, <1>3, <2>1, DelimitersAre
  <2>3. i \notin 1..l
    <3> SUFFICES ASSUME i \in 1..l PROVE FALSE
      OBVIOUS
    <3>1. uri[i] \notin stops
      BY <1>1
    <3> QED BY <2>2, <3>1
  <2> HIDE DEF n, l
  <2> QED BY <1>1, <2>1, <2>3
<1>4. SubSeq(uri, l + 1, l + 3) = Delimiters
  <2> DEFINE i == l + 1
  <2>1. i \in Nat \ {0} /\ i + 2 <= Len(uri) /\ i + 1 = l + 2 /\ i + 2 = l + 3
    BY <1>1
  <2> HIDE DEF i, l
  <2>2. uri[i] = 58 /\ uri[i + 1] = 47 /\ uri[i + 2] = 47
    BY <1>1, <2>1 DEF i
  <2>3. SubSeq(uri, i, i + 2) = Delimiters
    BY <1>1, <2>1, <2>2, DelimitersAre
  <2> QED BY <2>1, <2>3 DEF i
<1>5. l + 1 \in T
  <2>1. l + 1 \in 2..(n - 2) /\ (l + 1) + 2 = l + 3 /\ (l + 1) - 1 = l /\ l \in 1..l
    BY <1>1
  <2>2. uri[l] \notin stops
    BY <1>1, <2>1
  <2> HIDE DEF n, l, stops
  <2> QED BY <1>4, <2>1, <2>2
<1>6. Min(T) = l + 1
  <2>1. T \subseteq Nat /\ T # {}
    <3>1. \A i \in 2..(n - 2) : i \in Nat
      BY <1>1
    <3>2. T \subseteq 2..(n - 2)
      OBVIOUS
    <3> HIDE DEF T, n
    <3> QED BY <1>5, <3>1, <3>2
  <2>2. \A i \in T : i \in Nat /\ i >= l + 1
    <3>1. \A i \in T : i \in 1..(n - 2) /\ i \in Nat /\ SubSeq(uri, i, i + 2) = Delimiters
      BY <1>1
    <3> HIDE DEF T
    <3> QED BY <1>3, <3>1
  <2> HIDE DEF T, l
  <2>3. Min(T) \in T /\ \A i \in T : Min(T) <= i
    BY <2>1, LeastOf
  <2> QED BY <1>1, <1>5, <2>2, <2>3
<1>7. Max(B) = 0
  <2>1. Min(T) - 1 = l
    <3> HIDE DEF T, l
    <3> QED BY <1>1, <1>6
  <2>2. B = {0}
    <3> HIDE DEF T, stops, l
    <3>1. \A j \in 1..l : uri[j] \notin stops
      BY <1>1
    <3> QED BY <2>1, <3>1
  <2> HIDE DEF B
  <2>3. 0 \in Nat /\ B \in SUBSET (0..0) /\ B # {}
    BY <2>2
  <2>4. Max(B) \in B
    BY <2>3, GreatestOf
  <2> QED BY <2>2, <2>4
<1>8. SubSeq(uri, 1, l) = scheme
  <2> DEFINE at == 0
  <2>1. at \in Nat /\ at + Len(scheme) <= Len(uri) /\ at + Len(scheme) = l /\ at + 1 = 1
    BY <1>1
  <2>2. \A k \in 1..Len(scheme) : at + k = k
    BY <1>1
  <2>3. \A k \in 1..Len(scheme) : uri[at + k] = scheme[k]
    <3> HIDE DEF at
    <3> QED BY <1>1, <2>2
  <2> HIDE DEF at
  <2>4. SubSeq(uri, at + 1, at + Len(scheme)) = scheme
    BY <1>1, <2>1, <2>3, PieceEqual
  <2> QED BY <2>1, <2>4
<1>9. uri_get_scheme(uri) = {scheme}
  <2>1. Min(T) - 1 = l /\ Max(B) + 1 = 1
    <3> HIDE DEF T, l, B
    <3> QED BY <1>1, <1>6, <1>7
  <2>2. T # {}
    BY <1>5
  <2> HIDE DEF T, l, B
  <2> QED BY <1>2, <1>8, <2>1, <2>2
<1> QED BY <1>3, <1>4, <1>9

(* The host is what is behind it, and the path what is behind that.        *)
LEMMA UriHostAndPath ==
    ASSUME NEW uri, NEW scheme, NEW host, NEW path, NEW query,
           UriParts(uri, scheme, host, path, query)
    PROVE  uri_get_host(uri) = {host} /\ uri_get_path(uri) = {path}
<1> DEFINE n == Len(uri)
           l == Len(scheme)
           h == Len(host)
           c == Len(path)
           q == Len(query)
           b == l + 4
           f == b + h
           stop == {47, 63, 35}
           run(i) == RunFrom(uri, i, stop)
           J == {j \in 1..(n - 3) : SubSeq(uri, j, j + 2) = Delimiters /\ run(j + 3) # <<>>}
           T == {i + 3 : i \in J}
<1>1. /\ uri \in Seq(Chars) /\ host \in Seq(Chars) /\ path \in Seq(Chars)
      /\ l \in Nat /\ n \in Nat /\ h \in Nat /\ c \in Nat /\ q \in Nat
      /\ l >= 1 /\ h >= 1 /\ c >= 1 /\ n = l + 3 + h + c + q
  <2>1. /\ uri \in Seq(Chars) /\ scheme \in Seq(Chars) /\ host \in Seq(Chars)
        /\ path \in Seq(Chars) /\ query \in Seq(Chars)
        /\ l >= 1 /\ h >= 1 /\ c >= 1 /\ n = l + 3 + h + c + q
    BY Zenon DEF UriParts
  <2>2. l \in Nat /\ n \in Nat /\ h \in Nat /\ c \in Nat /\ q \in Nat
    BY <2>1, ElementsOf
  <2> QED BY <2>1, <2>2
<1>2. /\ \A k \in 1..h : uri[l + 3 + k] = host[k] /\ host[k] \notin stop
      /\ \A k \in 1..c : uri[l + 3 + h + k] = path[k] /\ path[k] \notin {63, 35}
      /\ path[1] = 47
      /\ q >= 1 => uri[l + 3 + h + c + 1] \in {63, 35}
  BY Zenon DEF UriParts
<1>3. /\ \A i \in 1..(n - 2) : SubSeq(uri, i, i + 2) = Delimiters => i >= l + 1
      /\ SubSeq(uri, l + 1, l + 3) = Delimiters
  BY UriScheme
<1>4. HostAt(uri) = T
  BY Zenon DEF HostAt, Slash, Question, Hash
<1> HIDE DEF n, l, h, c, q
<1>5. /\ b \in Nat \ {0} /\ f \in b..(Len(uri) + 1) /\ f \in Nat \ {0}
      /\ f - 1 = (l + 3) + h /\ b = (l + 3) + 1
      /\ l + 3 \in Nat /\ f \in 1..Len(uri)
  BY <1>1 DEF n
<1>6. run(b) = host
  <2> DEFINE at == l + 3
  <2>1. \A k \in b..(f - 1) : uri[k] \notin stop
    <3> SUFFICES ASSUME NEW k \in b..(f - 1) PROVE uri[k] \notin stop
      OBVIOUS
    <3> DEFINE g == k - (l + 3)
    <3>1. g \in 1..h /\ l + 3 + g = k
      BY <1>1
    <3> HIDE DEF g, stop, b, f
    <3> QED BY <1>2, <3>1
  <2>2. uri[f] \in stop
    <3>1. 1 \in 1..c /\ l + 3 + h + 1 = f
      BY <1>1
    <3>2. uri[l + 3 + h + 1] = path[1]
      BY <1>2, <3>1
    <3> HIDE DEF f
    <3> QED BY <1>2, <3>1, <3>2
  <2>3. run(b) = SubSeq(uri, b, f - 1)
    <3> HIDE DEF stop, b, f
    <3> QED BY <1>1, <1>5, <2>1, <2>2, RunIs
  <2>4. at \in Nat /\ at + Len(host) <= Len(uri) /\ at + 1 = b /\ at + Len(host) = f - 1
    BY <1>1, <1>5 DEF h, n
  <2>5. \A k \in 1..Len(host) : uri[at + k] = host[k]
    BY <1>2 DEF h
  <2> HIDE DEF at, b, f
  <2>6. SubSeq(uri, at + 1, at + Len(host)) = host
    BY <1>1, <2>4, <2>5, PieceEqual
  <2> QED BY <2>3, <2>4, <2>6
<1>7. Min(T) = b /\ T # {}
  <2>1. l + 1 \in J
    <3>1. l + 1 \in 1..(n - 3) /\ (l + 1) + 2 = l + 3 /\ (l + 1) + 3 = b
      BY <1>1
    <3>2. host # <<>>
      BY <1>1 DEF h
    <3>3. run((l + 1) + 3) # <<>>
      BY <1>6, <3>1, <3>2
    <3> HIDE DEF b, stop
    <3> QED BY <1>3, <3>1, <3>3
  <2>2. \A j \in J : j \in Nat /\ j >= l + 1
    <3>1. \A j \in J : j \in 1..(n - 3) /\ SubSeq(uri, j, j + 2) = Delimiters
      OBVIOUS
    <3>2. \A j \in 1..(n - 3) : j \in 1..(n - 2) /\ j \in Nat
      BY <1>1
    <3> HIDE DEF J
    <3> QED BY <1>3, <3>1, <3>2
  <2> HIDE DEF J
  <2>3. b \in T /\ \A k \in T : k \in Nat /\ k >= b
    <3>1. (l + 1) + 3 = b
      BY <1>1
    <3>2. \A j \in J : j + 3 \in Nat /\ j + 3 >= b
      BY <1>1, <2>2
    <3> HIDE DEF b
    <3> QED BY <2>1, <3>1, <3>2
  <2> HIDE DEF T
  <2>4. Min(T) \in T /\ \A k \in T : Min(T) <= k
    <3>1. T \subseteq Nat /\ T # {}
      BY <2>3
    <3> QED BY <3>1, LeastOf
  <2> DEFINE m == Min(T)
  <2>5. m \in T /\ m <= b
    BY <2>3, <2>4
  <2> HIDE DEF b, m
  <2>6. m \in Nat /\ m >= b /\ b \in Nat
    BY <1>5, <2>3, <2>5
  <2>7. m = b
    BY <2>5, <2>6
  <2> QED BY <2>3, <2>7 DEF m
<1> HIDE DEF T
<1>8. uri_get_host(uri) = {host}
  <2>1. uri_get_host(uri) = IF T = {} THEN {} ELSE {run(Min(T))}
    BY <1>4, Zenon DEF uri_get_host, Slash, Question, Hash
  <2> HIDE DEF run, b
  <2> QED BY <1>6, <1>7, <2>1
<1> DEFINE ends == {63, 35}
           g == f + c
<1>9. RunFrom(uri, f, ends) = path
  <2> DEFINE at == l + 3 + h
  <2>1. /\ g \in f..(Len(uri) + 1) /\ at \in Nat /\ at + Len(path) <= Len(uri) /\ at + 1 = f
        /\ at + Len(path) = g - 1
    BY <1>1 DEF n, c
  <2>2. \A k \in f..(g - 1) : uri[k] \notin ends
    <3> SUFFICES ASSUME NEW k \in f..(g - 1) PROVE uri[k] \notin ends
      OBVIOUS
    <3> DEFINE m == k - at
    <3>1. m \in 1..c /\ l + 3 + h + m = k
      BY <1>1
    <3> HIDE DEF m, f, at, g
    <3> QED BY <1>2, <3>1
  <2>3. g = Len(uri) + 1 \/ uri[g] \in ends
    <3>1. q = 0 \/ q >= 1
      BY <1>1
    <3>2. q = 0 => g = Len(uri) + 1
      BY <1>1 DEF n
    <3>3. l + 3 + h + c + 1 = g
      BY <1>1
    <3> HIDE DEF g, f
    <3> QED BY <1>2, <3>1, <3>2, <3>3
  <2>4. RunFrom(uri, f, ends) = SubSeq(uri, f, g - 1)
    <3> HIDE DEF ends, g, f
    <3> QED BY <1>1, <1>5, <2>1, <2>2, <2>3, RunIs
  <2>5. \A k \in 1..Len(path) : uri[at + k] = path[k]
    BY <1>2 DEF c
  <2> HIDE DEF at, f, g
  <2>6. SubSeq(uri, at + 1, at + Len(path)) = path
    BY <1>1, <2>1, <2>5, PieceEqual
  <2> QED BY <2>1, <2>4, <2>6
<1>10. uri_get_path(uri) = {path}
  <2>1. uri_get_path(uri) =
            IF T = {} THEN {} ELSE {RunFrom(uri, Min(T) + Len(run(Min(T))), ends)}
    BY <1>4, Zenon DEF uri_get_path, Slash, Question, Hash
  <2>2. b + Len(host) = f
    BY DEF h
  <2> HIDE DEF run, b, f, ends
  <2> QED BY <1>6, <1>7, <1>9, <2>1, <2>2
<1> QED BY <1>8, <1>10

\* A host, and the numeral of a port behind a colon.
HostPort(str, host, num) ==
    /\ str \in Seq(Chars) /\ host \in Seq(Chars) /\ num \in Seq(Chars)
    /\ Len(str) = Len(host) + 1 + Len(num)
    /\ \A k \in 1..Len(host) : str[k] = host[k] /\ host[k] # 58
    /\ str[Len(host) + 1] = 58
    /\ \A k \in 1..Len(num) : str[Len(host) + 1 + k] = num[k] /\ num[k] # 58

(* They come apart at the colon.                                           *)
LEMMA PortCut ==
    ASSUME NEW str, NEW host, NEW num, HostPort(str, host, num)
    PROVE  split(str, 58, 0) = <<host, num>> /\ contains(str, << 58 >>)
<1> DEFINE h == Len(host)
           n == Len(str)
           m == Len(num)
           e == h + 1
           f == h + 2
           sep == 58
           q == <<0, 0>>
           p == <<e, 1>>
<1>1. /\ str \in Seq(Chars) /\ host \in Seq(Chars) /\ num \in Seq(Chars)
      /\ n = h + 1 + m /\ h \in Nat /\ m \in Nat /\ n \in Nat
  <2>1. str \in Seq(Chars) /\ host \in Seq(Chars) /\ num \in Seq(Chars) /\ n = h + 1 + m
    BY Zenon DEF HostPort
  <2> QED BY <2>1, ElementsOf
<1>2. /\ \A k \in 1..h : str[k] = host[k] /\ host[k] # sep
      /\ str[h + 1] = sep
      /\ \A k \in 1..m : str[h + 1 + k] = num[k] /\ num[k] # sep
  BY Zenon DEF HostPort
<1>3. sep \in Chars /\ 0 \in Nat
  BY DEF Chars
<1> HIDE DEF h, m, n
<1>4. FindFrom(str, <<sep>>, 1) = e
  <2> DEFINE found == FindFrom(str, <<sep>>, 1)
  <2>1. FoundAt(found, str, sep, 1)
    <3>1. 1 \in Nat \ {0}
      OBVIOUS
    <3> HIDE DEF sep
    <3> QED BY <1>1, <1>3, <3>1, FindIs
  <2>2. FoundAt(e, str, sep, 1)
    <3>1. e \in 1..Len(str)
      BY <1>1 DEF n
    <3>2. \A j \in 1..(e - 1) : j \in 1..h
      BY <1>1
    <3> HIDE DEF sep
    <3>3. \A j \in 1..(e - 1) : str[j] # sep
      <4> HIDE DEF e
      <4> QED BY <1>2, <3>2
    <3> QED BY <1>2, <3>1, <3>3 DEF FoundAt
  <2>3. Len(str) \in Nat /\ 1 \in Nat \ {0}
    BY <1>1, ElementsOf
  <2> HIDE DEF found, e, sep
  <2>4. found = e
    BY <2>1, <2>2, <2>3, FoundOnce
  <2> QED BY <2>4 DEF found
<1>5. FindFrom(str, <<sep>>, e + 1) = 0
  <2> DEFINE found == FindFrom(str, <<sep>>, e + 1)
             zero == 0
  <2>1. Len(str) \in Nat /\ e + 1 \in Nat \ {0}
    BY <1>1 DEF n
  <2>2. FoundAt(found, str, sep, e + 1)
    <3> HIDE DEF sep, e
    <3> QED BY <1>1, <1>3, <2>1, FindIs
  <2>3. FoundAt(zero, str, sep, e + 1)
    <3>1. ASSUME NEW j \in (e + 1)..Len(str) PROVE str[j] # sep
      <4> DEFINE k == j - (h + 1)
      <4>1. k \in 1..m /\ h + 1 + k = j
        BY <1>1 DEF n
      <4> HIDE DEF k, e, sep
      <4> QED BY <1>2, <4>1
    <3> HIDE DEF e, sep
    <3> QED BY <3>1 DEF FoundAt
  <2> HIDE DEF found, e, sep, zero
  <2>4. found = zero
    BY <2>1, <2>2, <2>3, FoundOnce
  <2> QED BY <2>4 DEF found, zero
<1>6. PICK d : Cuts(d, str, sep, 0) /\ split(str, sep, 0) = d[<<0, 0>>]
  <2> HIDE DEF sep
  <2> QED BY <1>1, <1>3, SplitRecursion
<1>7. /\ q \in CutPlaces(Len(str)) /\ q[1] = 0 /\ q[2] = 0
      /\ p \in CutPlaces(Len(str)) /\ p[1] = e /\ p[2] = 1
  <2>1. e \in 0..Len(str) /\ 1 \in 0..Len(str) /\ 1 <= e /\ 0 \in 0..Len(str)
    BY <1>1 DEF n
  <2> HIDE DEF e
  <2> QED BY <2>1 DEF CutPlaces
<1>8. e # 0 /\ ~(0 > 0) /\ 0 + 1 = 1 /\ e - 1 = h /\ e + 1 = f
  BY <1>1
<1> HIDE DEF e, sep, p, q, f
<1>9. CutEnd(str, sep, 0, 1, 0) = e /\ CutEnd(str, sep, 0, f, 1) = 0
  <2>1. CutEnd(str, sep, 0, 1, 0) = e
    BY <1>4, <1>8, Zenon DEF CutEnd
  <2>2. FindFrom(str, <<sep>>, f) = 0
    BY <1>5, <1>8
  <2>3. CutEnd(str, sep, 0, f, 1) = 0
    BY <2>2, Zenon DEF CutEnd
  <2> QED BY <2>1, <2>3
<1>10. d[q] = <<SubSeq(str, 1, h)>> \o d[p]
  <2>1. d[q] = IF CutEnd(str, sep, 0, q[1] + 1, q[2]) = 0 THEN <<From(str, q[1] + 1)>>
               ELSE <<SubSeq(str, q[1] + 1, CutEnd(str, sep, 0, q[1] + 1, q[2]) - 1)>>
                        \o d[<<CutEnd(str, sep, 0, q[1] + 1, q[2]), q[2] + 1>>]
    BY <1>6, <1>7, Zenon DEF Cuts
  <2>2. CutEnd(str, sep, 0, q[1] + 1, q[2]) = e /\ q[1] + 1 = 1 /\ q[2] + 1 = 1
    BY <1>7, <1>8, <1>9
  <2>3. d[q] = <<SubSeq(str, 1, e - 1)>> \o d[<<e, 1>>]
    BY <1>8, <2>1, <2>2
  <2> QED BY <1>8, <2>3 DEF p
<1>11. d[p] = <<From(str, f)>>
  <2>1. d[p] = IF CutEnd(str, sep, 0, p[1] + 1, p[2]) = 0 THEN <<From(str, p[1] + 1)>>
               ELSE <<SubSeq(str, p[1] + 1, CutEnd(str, sep, 0, p[1] + 1, p[2]) - 1)>>
                        \o d[<<CutEnd(str, sep, 0, p[1] + 1, p[2]), p[2] + 1>>]
    BY <1>6, <1>7, Zenon DEF Cuts
  <2>2. p[1] + 1 = f /\ p[2] = 1
    BY <1>7, <1>8
  <2> QED BY <1>9, <2>1, <2>2, Zenon
<1>12. SubSeq(str, 1, h) = host
  <2> DEFINE at == 0
  <2>1. at \in Nat /\ at + Len(host) <= Len(str) /\ at + Len(host) = h /\ at + 1 = 1
    BY <1>1 DEF h, n
  <2>2. \A k \in 1..Len(host) : at + k = k
    BY <1>1
  <2>3. \A k \in 1..Len(host) : str[at + k] = host[k]
    <3> HIDE DEF at
    <3> QED BY <1>2, <2>2 DEF h
  <2> HIDE DEF at
  <2>4. SubSeq(str, at + 1, at + Len(host)) = host
    BY <1>1, <2>1, <2>3, PieceEqual
  <2> QED BY <2>1, <2>4
<1>13. From(str, f) = num
  <2> DEFINE at == h + 1
  <2>1. at \in Nat /\ at + Len(num) <= Len(str) /\ at + Len(num) = Len(str) /\ at + 1 = f
    BY <1>1 DEF m, n, f
  <2>2. \A k \in 1..Len(num) : str[at + k] = num[k]
    BY <1>2 DEF m
  <2> HIDE DEF at
  <2>3. SubSeq(str, at + 1, at + Len(num)) = num
    BY <1>1, <2>1, <2>2, PieceEqual
  <2> QED BY <2>1, <2>3 DEF From
<1>14. <<host>> \o <<num>> = <<host, num>>
  <2> DEFINE A == Seq(Chars)
             left == <<host>>
             right == <<num>>
             both == <<host, num>>
             sum == left \o right
  <2>1. host \in A /\ num \in A
    BY <1>1
  <2> HIDE DEF A
  <2>2. left \in Seq(A) /\ right \in Seq(A) /\ both \in Seq(A)
    BY <2>1
  <2>3. /\ Len(left) = 1 /\ left[1] = host /\ Len(right) = 1 /\ right[1] = num
        /\ Len(both) = 2 /\ both[1] = host /\ both[2] = num
    OBVIOUS
  <2> HIDE DEF left, right, both
  <2>4. /\ sum \in Seq(A) /\ Len(sum) = Len(left) + Len(right)
        /\ \A i \in 1..Len(left) : sum[i] = left[i]
        /\ \A j \in 1..Len(right) : sum[Len(left) + j] = right[j]
    BY <2>2, ConcatIs
  <2> HIDE DEF sum
  <2>5. sum[1] = host /\ sum[1 + 1] = num /\ Len(sum) = 2
    <3>1. 1 \in 1..Len(left) /\ 1 \in 1..Len(right)
      BY <2>3
    <3> QED BY <2>3, <2>4, <3>1
  <2>6. sum = both
    <3>1. sum \in Seq(A) /\ both \in Seq(A) /\ Len(sum) = Len(both)
      BY <2>2, <2>3, <2>4, <2>5
    <3>2. \A k \in 1..Len(sum) : k = 1 \/ k = 1 + 1
      BY <2>5
    <3>3. \A k \in 1..Len(sum) : sum[k] = both[k]
      BY <2>3, <2>5, <3>2
    <3> QED BY <3>1, <3>3, SeqEqual
  <2> QED BY <2>6 DEF sum, left, right, both
<1>15. contains(str, <<58>>)
  <2>1. FindFrom(str, <<58>>, 1) # 0
    BY <1>4, <1>8 DEF sep
  <2> QED BY <2>1, Zenon DEF contains
<1>16. split(str, sep, 0) = d[q]
  BY <1>6 DEF q
<1> QED BY <1>10, <1>11, <1>12, <1>13, <1>14, <1>15, <1>16 DEF sep

(* Nothing behind a text leaves it as it is.                               *)
LEMMA AppendNothing ==
    ASSUME NEW str \in Seq(Chars)
    PROVE  str \o <<>> = str
<1> DEFINE none == <<>>
           x == str \o none
<1>1. none \in Seq(Chars) /\ str \in Seq(Chars)
  OBVIOUS
<1>2. Len(none) = 0
  OBVIOUS
<1> HIDE DEF none
<1>3. /\ x \in Seq(Chars) /\ Len(x) = Len(str) + Len(none) /\ Len(str) \in Nat
      /\ \A i \in 1..Len(str) : x[i] = str[i]
  BY <1>1, ConcatIs
<1> HIDE DEF x
<1>4. x \in Seq(Chars) /\ str \in Seq(Chars) /\ Len(x) = Len(str)
  BY <1>2, <1>3
<1>5. \A i \in 1..Len(x) : x[i] = str[i]
  BY <1>3, <1>4
<1>6. x = str
  BY <1>4, <1>5, SeqEqual
<1> QED BY <1>6 DEF x, none

(* What the digits are that a text begins with.                            *)
LEMMA DigitsBefore ==
    ASSUME NEW a \in Seq(Chars), NEW b \in Seq(Chars), NEW base \in Nat,
           \A i \in 1..Len(a) : Value(a[i]) < base,
           Len(b) >= 1 => Value(b[1]) >= base
    PROVE  Digits(a \o b, base) = a
<1> DEFINE w == a \o b
           T == {i \in DOMAIN w : Value(w[i]) >= base} \cup {Len(w) + 1}
           m == Len(a)
<1>1. /\ w \in Seq(Chars) /\ Len(w) = m + Len(b) /\ m \in Nat /\ Len(b) \in Nat
      /\ \A i \in 1..m : w[i] = a[i]
      /\ \A j \in 1..Len(b) : w[m + j] = b[j]
  <2> HIDE DEF Chars
  <2> QED BY ConcatIs
<1> HIDE DEF w
<1>2. DOMAIN w = 1..Len(w) /\ \A i \in 1..m : a[i] \in Chars
  <2> HIDE DEF Chars
  <2> QED BY <1>1, ElementsOf
<1>3. T \subseteq Nat /\ m + 1 \in T
  <2>1. T \subseteq Nat
    BY <1>1, <1>2
  <2>2. CASE Len(b) = 0
    BY <1>1, <2>2
  <2>3. CASE Len(b) # 0
    <3>1. 1 \in 1..Len(b) /\ m + 1 \in 1..Len(w) /\ Len(b) >= 1
      BY <1>1, <2>3
    <3>2. w[m + 1] = b[1]
      BY <1>1, <3>1
    <3> QED BY <1>2, <3>1, <3>2
  <2> QED BY <2>1, <2>2, <2>3
<1>4. \A y \in T : m + 1 <= y
  <2> SUFFICES ASSUME NEW y \in T, y <= m PROVE FALSE
    BY <1>1, <1>3
  <2>1. y \in 1..m /\ Value(w[y]) >= base
    BY <1>1, <1>2
  <2>2. w[y] = a[y] /\ Value(a[y]) < base /\ Value(a[y]) \in Nat
    BY <1>1, <1>2, <2>1, ValueIs
  <2> QED BY <2>1, <2>2
<1>5. Min(T) = m + 1
  <2>1. Min(T) \in T /\ \A y \in T : Min(T) <= y
    <3> HIDE DEF T
    <3> QED BY <1>3, LeastOf
  <2>2. Min(T) <= m + 1 /\ m + 1 <= Min(T) /\ Min(T) \in Nat
    <3> HIDE DEF T
    <3> QED BY <1>3, <1>4, <2>1
  <2> HIDE DEF T
  <2> QED BY <1>1, <2>2
<1>6. Digits(w, base) = SubSeq(w, 1, Min(T) - 1)
  BY DEF Digits
<1>7. SubSeq(w, 1, m) = a
  <2> DEFINE at == 0
  <2>1. at \in Nat /\ at + m <= Len(w) /\ at + m = m /\ at + 1 = 1
    BY <1>1
  <2>2. \A k \in 1..m : at + k = k
    OBVIOUS
  <2>3. \A k \in 1..m : w[at + k] = a[k]
    <3> HIDE DEF at
    <3> QED BY <1>1, <2>2
  <2> HIDE DEF at, Chars
  <2>4. SubSeq(w, at + 1, at + Len(a)) = a
    BY <1>1, <2>1, <2>3, PieceEqual
  <2> QED BY <2>1, <2>4
<1> HIDE DEF T
<1>8. Min(T) - 1 = m
  BY <1>1, <1>5
<1> QED BY <1>6, <1>7, <1>8 DEF w

(* The blanks before a text are taken off.                                 *)
LEMMA TrimmedFront ==
    ASSUME NEW a \in Seq(Chars), \A i \in 1..Len(a) : a[i] \in Blank,
           NEW b \in Seq(Chars), Len(b) >= 1, b[1] \notin Blank
    PROVE  trim_start(a \o b) = b
<1> DEFINE w == a \o b
           T == {i \in DOMAIN w : w[i] \notin Blank} \cup {Len(w) + 1}
           m == Len(a)
<1>1. /\ w \in Seq(Chars) /\ Len(w) = m + Len(b) /\ m \in Nat /\ Len(b) \in Nat
      /\ \A i \in 1..m : w[i] = a[i]
      /\ \A j \in 1..Len(b) : w[m + j] = b[j]
  <2> HIDE DEF Chars
  <2> QED BY ConcatIs
<1>2. From(w, m + 1) = b
  <2> HIDE DEF Chars
  <2> QED BY FromBehind
<1> HIDE DEF w
<1>3. DOMAIN w = 1..Len(w)
  <2> HIDE DEF Chars
  <2> QED BY <1>1
<1>4. T \subseteq Nat /\ m + 1 \in T
  <2>1. T \subseteq Nat
    BY <1>1, <1>3
  <2>2. 1 \in 1..Len(b) /\ m + 1 \in 1..Len(w)
    BY <1>1
  <2>3. w[m + 1] = b[1]
    BY <1>1, <2>2
  <2> QED BY <1>3, <2>1, <2>2, <2>3
<1>5. \A y \in T : m + 1 <= y
  <2> SUFFICES ASSUME NEW y \in T, y <= m PROVE FALSE
    BY <1>1, <1>4
  <2>1. y \in 1..m /\ w[y] \notin Blank
    BY <1>1, <1>3
  <2> QED BY <1>1, <2>1
<1>6. Min(T) = m + 1
  <2>1. Min(T) \in T /\ \A y \in T : Min(T) <= y
    <3> HIDE DEF T
    <3> QED BY <1>4, LeastOf
  <2>2. Min(T) <= m + 1 /\ m + 1 <= Min(T) /\ Min(T) \in Nat
    <3> HIDE DEF T
    <3> QED BY <1>4, <1>5, <2>1
  <2> HIDE DEF T
  <2> QED BY <1>1, <2>2
<1>7. trim_start(w) = From(w, Min(T))
  BY DEF trim_start
<1> HIDE DEF T
<1> QED BY <1>2, <1>6, <1>7 DEF w

(* Nothing before a text.                                                  *)
LEMMA NothingBefore ==
    ASSUME NEW s \in Seq(Chars)
    PROVE  <<>> \o s = s
<1> DEFINE none == <<>>
           x == none \o s
<1>1. none \in Seq(Chars) /\ Len(none) = 0 /\ s \in Seq(Chars)
  OBVIOUS
<1> HIDE DEF none, Chars
<1>2. /\ x \in Seq(Chars) /\ Len(x) = Len(none) + Len(s) /\ Len(s) \in Nat
      /\ \A j \in 1..Len(s) : x[Len(none) + j] = s[j]
  BY <1>1, ConcatIs
<1> HIDE DEF x
<1>3. Len(x) = Len(s) /\ \A j \in 1..Len(s) : x[j] = s[j]
  <2>1. \A j \in 1..Len(s) : Len(none) + j = j
    BY <1>1
  <2> QED BY <1>1, <1>2, <2>1
<1> QED BY <1>1, <1>2, <1>3, SeqEqual DEF x, none

(* A character before a text.                                              *)
LEMMA OneBefore ==
    ASSUME NEW a \in Seq(Chars), Len(a) = 1, NEW b \in Seq(Chars)
    PROVE  /\ a \o b \in Seq(Chars) /\ Len(a \o b) >= 1 /\ (a \o b)[1] = a[1]
           /\ From(a \o b, 2) = b
<1> HIDE DEF Chars
<1>1. /\ a \o b \in Seq(Chars) /\ Len(a \o b) = Len(a) + Len(b) /\ Len(b) \in Nat
      /\ \A i \in 1..Len(a) : (a \o b)[i] = a[i]
  BY ConcatIs
<1>2. From(a \o b, Len(a) + 1) = b
  BY FromBehind
<1>3. 1 \in 1..Len(a) /\ Len(a) + 1 = 2
  OBVIOUS
<1> QED BY <1>1, <1>2, <1>3

(* What a digit is not.                                                    *)
LEMMA DigitIsNo ==
    ASSUME NEW c \in Chars, Value(c) < 10
    PROVE  c \notin Blank /\ c # 43 /\ c # 45
BY DEF Chars, Value, Digit, Blank, Space

\* What is made of the digits of a number, with a sign before them.
StoredAs(sign, num, bits) ==
    IF num = <<>> THEN 0
    ELSE IF ~FitsIn(Number(num, 10), bits) THEN Largest(bits)
    ELSE IF sign = <<45>> THEN Negated(Number(num, 10), bits) ELSE Number(num, 10)

ReadAs(str, sign, num, tail, bits) ==
    /\ UnsignedRead(str, bits).ok = (num # <<>> /\ tail = <<>> /\ FitsIn(Number(num, 10), bits))
    /\ UnsignedRead(str, bits).stored = {StoredAs(sign, num, bits)}

(* A number is read up to where its digits end, whatever blanks and which  *)
(* sign are before them, and accepted if nothing is behind them.           *)
LEMMA NumberReads ==
    ASSUME NEW blanks \in Seq(Chars), \A i \in 1..Len(blanks) : blanks[i] \in Blank,
           NEW sign \in {<<>>, << 43 >>, << 45 >>},
           NEW num \in Seq(Chars), \A i \in 1..Len(num) : Value(num[i]) < 10,
           NEW tail \in Seq(Chars), Len(tail) >= 1 => Value(tail[1]) >= 10,
           sign = <<>> /\ num = <<>> =>
               Len(tail) >= 1 /\ tail[1] \notin Blank \cup {43, 45},
           NEW bits
    PROVE  ReadAs(blanks \o (sign \o (num \o tail)), sign, num, tail, bits)
<1> DEFINE body == num \o tail
           signed == sign \o body
           str == blanks \o signed
<1>1. /\ body \in Seq(Chars) /\ Len(body) = Len(num) + Len(tail)
      /\ Len(num) \in Nat /\ Len(tail) \in Nat
      /\ \A i \in 1..Len(num) : body[i] = num[i]
      /\ \A j \in 1..Len(tail) : body[Len(num) + j] = tail[j]
  <2> HIDE DEF Chars
  <2> QED BY ConcatIs
<1>2. Digits(body, 10) = num
  <2>1. 10 \in Nat
    OBVIOUS
  <2> HIDE DEF body
  <2> QED BY <2>1, DigitsBefore DEF body
<1> HIDE DEF body
<1>3. num = <<>> <=> Len(num) = 0
  OBVIOUS
<1>4. ASSUME sign = <<>>
      PROVE  Len(body) >= 1 /\ body[1] \notin Blank \cup {43, 45}
  <2>1. CASE num = <<>>
    <3>1. 1 \in 1..Len(tail) /\ Len(num) + 1 = 1
      BY <1>1, <1>3, <1>4, <2>1
    <3>2. body[1] = tail[1]
      BY <1>1, <3>1
    <3>3. Len(body) >= 1
      BY <1>1, <3>1
    <3> QED BY <1>4, <2>1, <3>2, <3>3
  <2>2. CASE num # <<>>
    <3>1. 1 \in 1..Len(num) /\ Len(body) >= 1
      BY <1>1, <1>3, <2>2
    <3>2. body[1] = num[1] /\ Value(num[1]) < 10 /\ num[1] \in Chars
      <4> HIDE DEF Chars
      <4> QED BY <1>1, <3>1
    <3> QED BY <3>1, <3>2, DigitIsNo
  <2> QED BY <2>1, <2>2
<1>5. sign # <<>> => Len(sign) = 1 /\ sign[1] \in {43, 45} /\ sign \in Seq(Chars)
  <2>1. 43 \in Chars /\ 45 \in Chars
    BY DEF Chars
  <2>2. Len(<<43>>) = 1 /\ <<43>>[1] = 43 /\ Len(<<45>>) = 1 /\ <<45>>[1] = 45
    OBVIOUS
  <2>3. <<43>> \in Seq(Chars) /\ <<45>> \in Seq(Chars)
    <3> HIDE DEF Chars
    <3> QED BY <2>1
  <2> QED BY <2>2, <2>3
<1>6. /\ signed \in Seq(Chars) /\ Len(signed) >= 1 /\ signed[1] \notin Blank
      /\ sign = <<>> => signed = body /\ signed[1] \notin {43, 45}
      /\ sign # <<>> => From(signed, 2) = body /\ signed[1] = sign[1]
  <2>1. CASE sign = <<>>
    <3>1. signed = body
      BY <1>1, <2>1, NothingBefore
    <3> HIDE DEF signed
    <3> QED BY <1>1, <1>4, <2>1, <3>1
  <2>2. CASE sign # <<>>
    <3>6. Len(sign) = 1 /\ sign[1] \in {43, 45} /\ sign \in Seq(Chars) /\ body \in Seq(Chars)
      BY <1>1, <1>5, <2>2
    <3> HIDE DEF Chars
    <3>1. /\ signed \in Seq(Chars) /\ Len(signed) >= 1 /\ signed[1] = sign[1]
          /\ From(signed, 2) = body
      BY <3>6, OneBefore
    <3> HIDE DEF signed
    <3>5. sign[1] \notin Blank
      BY <3>6 DEF Blank, Space
    <3> QED BY <2>2, <3>1, <3>5, <3>6
  <2> QED BY <2>1, <2>2
<1> HIDE DEF signed
<1>7. trim_start(str) = signed
  BY <1>6, TrimmedFront
<1>8. signed # <<>>
  <2>1. Len(<<>>) = 0
    OBVIOUS
  <2> QED BY <1>6, <2>1
<1>9. num = body <=> tail = <<>>
  <2>1. tail = <<>> <=> Len(tail) = 0
    OBVIOUS
  <2>2. num = body => Len(tail) = 0
    BY <1>1
  <2>3. Len(tail) = 0 => num = body
    <3> SUFFICES ASSUME Len(tail) = 0 PROVE num = body
      OBVIOUS
    <3>1. Len(num) = Len(body) /\ num \in Seq(Chars) /\ body \in Seq(Chars)
          /\ \A k \in 1..Len(num) : num[k] = body[k]
      BY <1>1
    <3> HIDE DEF Chars
    <3> QED BY <3>1, SeqEqual
  <2> QED BY <2>1, <2>2, <2>3
<1> HIDE DEF str
<1> DEFINE n == Number(num, 10)
           is == trim_start(str) # <<>> /\ trim_start(str)[1] \in {Plus, Minus}
           rest0 == IF is THEN From(trim_start(str), 2) ELSE trim_start(str)
           digits == Digits(rest0, 10)
           stored == CASE trim_start(str) = <<>> -> {}
                       [] trim_start(str) # <<>> /\ digits = <<>> -> {0}
                       [] digits # <<>> /\ ~FitsIn(Number(digits, 10), bits) -> {Largest(bits)}
                       [] OTHER -> {IF is /\ trim_start(str)[1] = Minus
                                       THEN Negated(Number(digits, 10), bits)
                                       ELSE Number(digits, 10)}
<1>10. UnsignedRead(str, bits) =
           [ok |-> digits # <<>> /\ digits = rest0 /\ FitsIn(Number(digits, 10), bits),
            stored |-> stored]
  BY Zenon DEF UnsignedRead
<1>11. (is <=> sign # <<>>) /\ rest0 = body
  BY <1>5, <1>6, <1>7, <1>8 DEF Plus, Minus
<1>12. digits = num
  BY <1>2, <1>11
<1>13. is => (trim_start(str)[1] = Minus <=> sign = <<45>>)
  <2>1. <<43>>[1] = 43 /\ <<45>>[1] = 45
    OBVIOUS
  <2> QED BY <1>6, <1>7, <1>11, <2>1 DEF Minus
<1>14. sign = <<45>> => is
  <2>1. <<45>> # <<>>
    OBVIOUS
  <2> QED BY <1>11, <2>1
<1> HIDE DEF is, rest0, digits
<1>15. stored = {StoredAs(sign, num, bits)}
  <2>1. trim_start(str) # <<>>
    BY <1>7, <1>8
  <2> QED BY <1>12, <1>13, <1>14, <2>1 DEF StoredAs
<1>16. UnsignedRead(str, bits).ok =
           (digits # <<>> /\ digits = rest0 /\ FitsIn(Number(digits, 10), bits))
       /\ UnsignedRead(str, bits).stored = stored
  <2> HIDE DEF stored
  <2> QED BY <1>10
<1>17. (digits # <<>> /\ digits = rest0 /\ FitsIn(Number(digits, 10), bits))
       = (num # <<>> /\ tail = <<>> /\ FitsIn(Number(num, 10), bits))
  BY <1>9, <1>11, <1>12
<1> HIDE DEF stored
<1> QED BY <1>15, <1>16, <1>17 DEF ReadAs, str, signed, body

(* An empty field is refused, and nothing is stored.                       *)
LEMMA NothingReads ==
    ASSUME NEW bits
    PROVE  UnsignedRead(<<>>, bits).ok = FALSE /\ UnsignedRead(<<>>, bits).stored = {}
<1> DEFINE none == <<>>
           T == {i \in DOMAIN none : none[i] \notin Blank} \cup {Len(none) + 1}
<1>1. none \in Seq(Chars) /\ Len(none) = 0 /\ DOMAIN none = {}
  OBVIOUS
<1>2. T = {1}
  <2> HIDE DEF none
  <2> QED BY <1>1
<1>3. Min({1}) = 1
  BY DEF Min
<1>4. trim_start(none) = none
  <2>1. trim_start(none) = SubSeq(none, Min(T), Len(none))
    BY DEF trim_start, From
  <2> HIDE DEF T
  <2>2. SubSeq(none, 1, 0) = <<>>
    BY SubSeqEmpty, <1>1
  <2> QED BY <1>1, <1>2, <1>3, <2>1, <2>2
<1>5. Digits(none, 10) = none
  <2>1. 10 \in Nat /\ \A i \in 1..Len(none) : Value(none[i]) < 10
    BY <1>1
  <2> HIDE DEF none
  <2> QED BY <1>1, <2>1, DigitsAll
<1> DEFINE is == trim_start(none) # <<>> /\ trim_start(none)[1] \in {Plus, Minus}
           rest0 == IF is THEN From(trim_start(none), 2) ELSE trim_start(none)
           digits == Digits(rest0, 10)
           stored == CASE trim_start(none) = <<>> -> {}
                       [] trim_start(none) # <<>> /\ digits = <<>> -> {0}
                       [] digits # <<>> /\ ~FitsIn(Number(digits, 10), bits) -> {Largest(bits)}
                       [] OTHER -> {IF is /\ trim_start(none)[1] = Minus
                                       THEN Negated(Number(digits, 10), bits)
                                       ELSE Number(digits, 10)}
<1>6. UnsignedRead(none, bits) =
           [ok |-> digits # <<>> /\ digits = rest0 /\ FitsIn(Number(digits, 10), bits),
            stored |-> stored]
  BY Zenon DEF UnsignedRead
<1>7. digits = <<>> /\ stored = {}
  <2>1. ~is
    BY <1>4
  <2> HIDE DEF is
  <2>2. rest0 = none
    BY <1>4, <2>1
  <2>3. digits = <<>>
    BY <1>5, <2>2
  <2> HIDE DEF digits
  <2> QED BY <1>4, <2>3
<1> HIDE DEF digits, stored, rest0
<1>8. UnsignedRead(none, bits).ok =
          (digits # <<>> /\ digits = rest0 /\ FitsIn(Number(digits, 10), bits))
      /\ UnsignedRead(none, bits).stored = stored
  BY <1>6
<1>9. (digits # <<>> /\ digits = rest0 /\ FitsIn(Number(digits, 10), bits)) = FALSE
  BY <1>7
<1> QED BY <1>7, <1>8, <1>9 DEF none

(* A port is read as it was written.                                       *)
LEMMA PortRead ==
    ASSUME NEW port \in Nat, FitsIn16Bits(port)
    PROVE  TryParseUint16(Decimal(port)) = {port}
<1> DEFINE num == Decimal(port)
           none == <<>>
           read == UnsignedRead(none \o (none \o (num \o none)), 16)
<1>1. NumeralOf(num, port, 10)
  BY DecimalIs
<1> HIDE DEF num
<1>2. num \in Seq(Chars) /\ Len(num) >= 1 /\ Number(num, 10) = port
      /\ \A i \in 1..Len(num) : Value(num[i]) < 10
  BY <1>1 DEF NumeralOf
<1>3. none \in Seq(Chars) /\ Len(none) = 0 /\ num # <<>> /\ none # <<45>>
  BY <1>2
<1>4. /\ read.ok = (num # <<>> /\ none = <<>> /\ FitsIn(Number(num, 10), 16))
      /\ read.stored = {StoredAs(none, num, 16)}
  <2>1. \A i \in 1..Len(none) : none[i] \in Blank
    BY <1>3
  <2>2. none \in {<<>>, <<43>>, <<45>>}
    OBVIOUS
  <2>3. ~(Len(none) >= 1)
    BY <1>3
  <2> HIDE DEF none, Chars
  <2>4. ReadAs(none \o (none \o (num \o none)), none, num, none, 16)
    BY <1>2, <1>3, <2>1, <2>2, <2>3, NumberReads, Zenon
  <2> QED BY <2>4 DEF ReadAs
<1>5. none \o (none \o (num \o none)) = num
  <2>1. num \o <<>> = num
    BY <1>2, AppendNothing
  <2>2. <<>> \o num = num
    BY <1>2, NothingBefore
  <2> QED BY <2>1, <2>2
<1>6. FitsIn(port, 16)
  BY DEF FitsIn
<1>7. StoredAs(none, num, 16) = port
  BY <1>2, <1>3, <1>6 DEF StoredAs
<1> HIDE DEF read
<1>8. UnsignedRead(num, 16).ok = TRUE /\ UnsignedRead(num, 16).stored = {port}
  <2>1. read = UnsignedRead(num, 16)
    BY <1>5 DEF read
  <2>2. none = <<>>
    OBVIOUS
  <2> HIDE DEF none
  <2> QED BY <1>2, <1>3, <1>4, <1>6, <1>7, <2>1, <2>2
<1> QED BY <1>8 DEF TryParseUint16, num

(* A numeral has no delimiter of a URI.                                    *)
LEMMA NumeralInUri ==
    ASSUME NEW s, NEW n, NumeralOf(s, n, 10)
    PROVE  \A i \in 1..Len(s) : s[i] \notin {58, 47, 63, 35}
<1>1. \A i \in 1..Len(s) : Value(s[i]) < 10
  BY DEF NumeralOf
<1>2. Value(58) = 99 /\ Value(47) = 99 /\ Value(63) = 99 /\ Value(35) = 99
  BY DEF Value, Digit
<1>3. ASSUME NEW i \in 1..Len(s), s[i] \in {58, 47, 63, 35} PROVE FALSE
  <2>1. Value(s[i]) = 99
    BY <1>2, <1>3
  <2> QED BY <1>1, <2>1
<1> QED BY <1>3

\* What a URI is written from.
UriWritten(scheme, host, path, query) == scheme \o <<58, 47, 47>> \o host \o path \o query

\* Where its parts are in it.
UriLaid(uri, scheme, host, path, query) ==
    /\ uri \in Seq(Chars)
    /\ Len(uri) = Len(scheme) + 3 + Len(host) + Len(path) + Len(query)
    /\ \A k \in 1..Len(scheme) : uri[k] = scheme[k]
    /\ uri[Len(scheme) + 1] = 58 /\ uri[Len(scheme) + 2] = 47 /\ uri[Len(scheme) + 3] = 47
    /\ \A k \in 1..Len(host) : uri[Len(scheme) + 3 + k] = host[k]
    /\ \A k \in 1..Len(path) : uri[Len(scheme) + 3 + Len(host) + k] = path[k]
    /\ \A k \in 1..Len(query) :
           uri[Len(scheme) + 3 + Len(host) + Len(path) + k] = query[k]

(* They are there.                                                         *)
LEMMA UriLayout ==
    ASSUME NEW scheme \in Seq(Chars), NEW host \in Seq(Chars), NEW path \in Seq(Chars),
           NEW query \in Seq(Chars), NEW uri, uri = UriWritten(scheme, host, path, query)
    PROVE  UriLaid(uri, scheme, host, path, query)
<1> DEFINE mark == <<58, 47, 47>>
           u1 == scheme \o mark
           u2 == u1 \o host
           u3 == u2 \o path
           u4 == u3 \o query
           l == Len(scheme)
           h == Len(host)
           c == Len(path)
           q == Len(query)
<1>1. mark \in Seq(Chars) /\ Len(mark) = 3 /\ mark[1] = 58 /\ mark[2] = 47 /\ mark[3] = 47
  <2>1. 58 \in Chars /\ 47 \in Chars
    BY DEF Chars
  <2> QED BY <2>1, ShortTexts
<1>2. uri = u4
  BY Zenon DEF UriWritten
<1> HIDE DEF mark
<1>3. /\ u1 \in Seq(Chars) /\ Len(u1) = l + 3 /\ l \in Nat
      /\ \A k \in 1..l : u1[k] = scheme[k]
      /\ u1[l + 1] = 58 /\ u1[l + 2] = 47 /\ u1[l + 3] = 47
  <2>1. /\ scheme \o mark \in Seq(Chars) /\ Len(scheme \o mark) = Len(scheme) + Len(mark)
        /\ Len(scheme) \in Nat
        /\ \A i \in 1..Len(scheme) : (scheme \o mark)[i] = scheme[i]
        /\ \A j \in 1..Len(mark) : (scheme \o mark)[Len(scheme) + j] = mark[j]
    <3>1. scheme \in Seq(Chars) /\ mark \in Seq(Chars)
      BY <1>1
    <3> QED BY <3>1, ConcatIs
  <2>2. 1 \in 1..Len(mark) /\ 2 \in 1..Len(mark) /\ 3 \in 1..Len(mark)
    BY <1>1
  <2> HIDE DEF u1, l
  <2> QED BY <1>1, <2>1, <2>2 DEF u1, l
<1> HIDE DEF u1, l
<1>4. /\ u2 \in Seq(Chars) /\ Len(u2) = l + 3 + h /\ h \in Nat
      /\ \A k \in 1..(l + 3) : u2[k] = u1[k]
      /\ \A k \in 1..h : u2[l + 3 + k] = host[k]
  <2>1. u1 \in Seq(Chars) /\ host \in Seq(Chars)
    BY <1>3
  <2>2. /\ u2 \in Seq(Chars) /\ Len(u2) = Len(u1) + Len(host) /\ Len(host) \in Nat
        /\ \A i \in 1..Len(u1) : u2[i] = u1[i]
        /\ \A j \in 1..Len(host) : u2[Len(u1) + j] = host[j]
    BY <2>1, ConcatIs
  <2> HIDE DEF u2
  <2> QED BY <1>3, <2>2
<1> HIDE DEF u2, h
<1>5. /\ u3 \in Seq(Chars) /\ Len(u3) = l + 3 + h + c /\ c \in Nat
      /\ \A k \in 1..(l + 3 + h) : u3[k] = u2[k]
      /\ \A k \in 1..c : u3[l + 3 + h + k] = path[k]
  <2>1. u2 \in Seq(Chars) /\ path \in Seq(Chars)
    BY <1>4
  <2>2. /\ u3 \in Seq(Chars) /\ Len(u3) = Len(u2) + Len(path) /\ Len(path) \in Nat
        /\ \A i \in 1..Len(u2) : u3[i] = u2[i]
        /\ \A j \in 1..Len(path) : u3[Len(u2) + j] = path[j]
    BY <2>1, ConcatIs
  <2> HIDE DEF u3
  <2> QED BY <1>4, <2>2
<1> HIDE DEF u3, c
<1>6. /\ u4 \in Seq(Chars) /\ Len(u4) = l + 3 + h + c + q /\ q \in Nat
      /\ \A k \in 1..(l + 3 + h + c) : u4[k] = u3[k]
      /\ \A k \in 1..q : u4[l + 3 + h + c + k] = query[k]
  <2>1. u3 \in Seq(Chars) /\ query \in Seq(Chars)
    BY <1>5
  <2>2. /\ u4 \in Seq(Chars) /\ Len(u4) = Len(u3) + Len(query) /\ Len(query) \in Nat
        /\ \A i \in 1..Len(u3) : u4[i] = u3[i]
        /\ \A j \in 1..Len(query) : u4[Len(u3) + j] = query[j]
    BY <2>1, ConcatIs
  <2> HIDE DEF u4
  <2> QED BY <1>5, <2>2
<1> HIDE DEF u4, q
<1>7. \A k \in 1..(l + 3) : uri[k] = u1[k]
  <2>1. \A k \in 1..(l + 3) : k \in 1..(l + 3 + h) /\ k \in 1..(l + 3 + h + c)
    BY <1>3, <1>4, <1>5
  <2> QED BY <1>2, <1>4, <1>5, <1>6, <2>1
<1>8. \A k \in 1..l : uri[k] = scheme[k]
  <2>1. \A k \in 1..l : k \in 1..(l + 3)
    BY <1>3
  <2> QED BY <1>3, <1>7, <2>1
<1>9. uri[l + 1] = 58 /\ uri[l + 2] = 47 /\ uri[l + 3] = 47
  <2>1. l + 1 \in 1..(l + 3) /\ l + 2 \in 1..(l + 3) /\ l + 3 \in 1..(l + 3)
    BY <1>3
  <2> QED BY <1>3, <1>7, <2>1
<1>10. ASSUME NEW k \in 1..h PROVE uri[l + 3 + k] = host[k]
  <2>1. l + 3 + k \in 1..(l + 3 + h) /\ l + 3 + k \in 1..(l + 3 + h + c)
    BY <1>3, <1>4, <1>5
  <2> QED BY <1>2, <1>4, <1>5, <1>6, <2>1
<1>11. ASSUME NEW k \in 1..c PROVE uri[l + 3 + h + k] = path[k]
  <2>1. l + 3 + h + k \in 1..(l + 3 + h + c)
    BY <1>3, <1>4, <1>5
  <2> QED BY <1>2, <1>5, <1>6, <2>1
<1> QED BY <1>2, <1>6, <1>8, <1>9, <1>10, <1>11 DEF UriLaid, l, h, c, q

\* What may be written: no part has a delimiter of those that follow it.
UriPlain(scheme, host, path, query) ==
    /\ scheme \in Seq(Chars) /\ host \in Seq(Chars) /\ path \in Seq(Chars) /\ query \in Seq(Chars)
    /\ Len(scheme) >= 1 /\ Len(host) >= 1 /\ Len(path) >= 1 /\ path[1] = 47
    /\ \A k \in 1..Len(scheme) : scheme[k] \notin {58, 47, 63, 35}
    /\ \A k \in 1..Len(host) : host[k] \notin {47, 63, 35}
    /\ \A k \in 1..Len(path) : path[k] \notin {63, 35}
    /\ Len(query) >= 1 => query[1] \in {63, 35}

(* It comes apart again.                                                   *)
LEMMA UriApart ==
    ASSUME NEW scheme, NEW host, NEW path, NEW query, UriPlain(scheme, host, path, query),
           NEW uri, uri = UriWritten(scheme, host, path, query)
    PROVE  /\ uri_get_scheme(uri) = {scheme} /\ uri_get_host(uri) = {host}
           /\ uri_get_path(uri) = {path}
<1>1. /\ scheme \in Seq(Chars) /\ host \in Seq(Chars) /\ path \in Seq(Chars) /\ query \in Seq(Chars)
      /\ Len(scheme) >= 1 /\ Len(host) >= 1 /\ Len(path) >= 1 /\ path[1] = 47
      /\ \A k \in 1..Len(scheme) : scheme[k] \notin {58, 47, 63, 35}
      /\ \A k \in 1..Len(host) : host[k] \notin {47, 63, 35}
      /\ \A k \in 1..Len(path) : path[k] \notin {63, 35}
      /\ Len(query) >= 1 => query[1] \in {63, 35}
  BY Zenon DEF UriPlain
<1>2. /\ uri \in Seq(Chars)
      /\ Len(uri) = Len(scheme) + 3 + Len(host) + Len(path) + Len(query)
      /\ \A k \in 1..Len(scheme) : uri[k] = scheme[k]
      /\ uri[Len(scheme) + 1] = 58 /\ uri[Len(scheme) + 2] = 47 /\ uri[Len(scheme) + 3] = 47
      /\ \A k \in 1..Len(host) : uri[Len(scheme) + 3 + k] = host[k]
      /\ \A k \in 1..Len(path) : uri[Len(scheme) + 3 + Len(host) + k] = path[k]
      /\ \A k \in 1..Len(query) :
             uri[Len(scheme) + 3 + Len(host) + Len(path) + k] = query[k]
  <2>1. scheme \in Seq(Chars) /\ host \in Seq(Chars) /\ path \in Seq(Chars) /\ query \in Seq(Chars)
    BY <1>1
  <2>2. UriLaid(uri, scheme, host, path, query)
    BY <2>1, UriLayout
  <2> QED BY <2>2, Zenon DEF UriLaid
<1>3. Len(query) >= 1 => uri[Len(scheme) + 3 + Len(host) + Len(path) + 1] \in {63, 35}
  <2> SUFFICES ASSUME Len(query) >= 1
               PROVE  uri[Len(scheme) + 3 + Len(host) + Len(path) + 1] \in {63, 35}
    OBVIOUS
  <2>1. 1 \in 1..Len(query)
    BY <1>1, ElementsOf
  <2>2. uri[Len(scheme) + 3 + Len(host) + Len(path) + 1] = query[1]
    BY <1>2, <2>1
  <2> QED BY <1>1, <2>2
<1>4. UriParts(uri, scheme, host, path, query)
  BY <1>1, <1>2, <1>3, ZenonT(30) DEF UriParts
<1> QED BY <1>4, UriScheme, UriHostAndPath

(* The URI comes apart into these.                                         *)
ComesApart(uri, scheme, host, path) ==
    /\ uri_get_scheme(uri) = {scheme} /\ uri_get_host(uri) = {host}
    /\ uri_get_path(uri) = {path}

(* resolve finds this host and port.                                       *)
Resolves(uri, table, host, port) == Resolved(uri, table) = {<<host, port>>}

(* What resolve finds when the URI comes apart: a host without a port ...  *)
LEMMA ResolvedPlain ==
    ASSUME NEW u, NEW tb, NEW sc, NEW ho, NEW pa,
           ComesApart(u, sc, ho, pa), sc \in DOMAIN tb, ~contains(ho, << 58 >>)
    PROVE  Resolves(u, tb, ho, tb[sc])
<1> DEFINE x == CHOOSE h \in uri_get_host(u) : TRUE
           y == CHOOSE s \in uri_get_scheme(u) : TRUE
           parts == split(x, Colon, 0)
           named == IF Len(parts) = 2 THEN TryParseUint16(parts[2]) ELSE {}
           pairs == {<<parts[1], p>> : p \in named}
<1>1. x = ho /\ y = sc
  BY Zenon DEF ComesApart
<1>2. Resolved(u, tb) =
          IF uri_get_scheme(u) = {} \/ uri_get_host(u) = {} \/ uri_get_path(u) = {} THEN {}
          ELSE IF contains(x, <<Colon>>) THEN pairs
          ELSE IF y \in DOMAIN tb THEN {<<x, tb[y]>>} ELSE {}
  BY Zenon DEF Resolved
<1>3. uri_get_scheme(u) # {} /\ uri_get_host(u) # {} /\ uri_get_path(u) # {}
  BY Zenon DEF ComesApart
<1>4. ~contains(ho, <<Colon>>)
  BY Zenon DEF Colon
<1> HIDE DEF x, y, named, parts, pairs
<1> QED BY <1>1, <1>2, <1>3, <1>4, Zenon DEF Resolves

(* ... or one with its port.                                               *)
LEMMA ResolvedPort ==
    ASSUME NEW u, NEW tb, NEW sc, NEW ho, NEW pa, NEW na, NEW nu, NEW pn,
           ComesApart(u, sc, ho, pa), sc \in DOMAIN tb,
           contains(ho, << 58 >>), split(ho, 58, 0) = <<na, nu>>,
           TryParseUint16(nu) = {pn}
    PROVE  Resolves(u, tb, na, pn)
<1> DEFINE x == CHOOSE h \in uri_get_host(u) : TRUE
           y == CHOOSE s \in uri_get_scheme(u) : TRUE
           parts == split(x, Colon, 0)
           named == IF Len(parts) = 2 THEN TryParseUint16(parts[2]) ELSE {}
           pairs == {<<parts[1], p>> : p \in named}
<1>1. x = ho /\ y = sc
  BY Zenon DEF ComesApart
<1>2. Resolved(u, tb) =
          IF uri_get_scheme(u) = {} \/ uri_get_host(u) = {} \/ uri_get_path(u) = {} THEN {}
          ELSE IF contains(x, <<Colon>>) THEN pairs
          ELSE IF y \in DOMAIN tb THEN {<<x, tb[y]>>} ELSE {}
  BY Zenon DEF Resolved
<1>3. uri_get_scheme(u) # {} /\ uri_get_host(u) # {} /\ uri_get_path(u) # {}
  BY Zenon DEF ComesApart
<1>4. contains(ho, <<Colon>>)
  BY Zenon DEF Colon
<1>5. parts = <<na, nu>>
  BY <1>1, Zenon DEF Colon
<1> HIDE DEF x, y, parts
<1>6. Len(parts) = 2 /\ parts[1] = na /\ parts[2] = nu
  BY <1>5
<1>7. named = {pn}
  BY <1>6
<1> HIDE DEF named
<1>8. {<<na, q>> : q \in {pn}} = {<<na, pn>>}
  BY Zenon
<1>9. pairs = {<<na, pn>>}
  BY <1>6, <1>7, <1>8
<1> HIDE DEF pairs
<1> QED BY <1>1, <1>2, <1>3, <1>4, <1>9, Zenon DEF Resolves

---------------------------------------------------------------------------
(***************************************************************************)
(* Trimming, and cutting in two: what a line of a configuration file says. *)
(***************************************************************************)

(* A text without the blanks at its ends: str from i to j.                 *)
LEMMA TrimIs ==
    ASSUME NEW str \in Seq(Chars), NEW i \in Nat \ {0}, NEW j \in Nat,
           j <= Len(str), i <= j + 1,
           \A k \in 1..(i - 1) : str[k] \in Blank,
           \A k \in (j + 1)..Len(str) : str[k] \in Blank,
           i <= j => str[i] \notin Blank /\ str[j] \notin Blank
    PROVE  trim(str) = SubSeq(str, i, j)
<1> DEFINE n == Len(str)
           T == {k \in DOMAIN str : str[k] \notin Blank} \cup {Len(str) + 1}
           b == Min(T)
           behind == SubSeq(str, b, n)
           m == j + 1 - i
           U == {k \in DOMAIN behind : behind[k] \notin Blank} \cup {0}
           top == Max(U)
<1>1. n \in Nat /\ DOMAIN str = 1..n /\ m \in Nat
  BY ElementsOf
<1>2. T \subseteq Nat /\ T # {} /\ n + 1 \in T
  BY <1>1
<1>3. b \in T /\ \A y \in T : b <= y
  <2> HIDE DEF T
  <2> QED BY <1>2, LeastOf
<1> HIDE DEF b
<1>4. IF i <= j THEN b = i ELSE b = n + 1
  <2>1. CASE i <= j
    <3>1. i \in T
      BY <1>1, <2>1
    <3>2. b <= i /\ b \in Nat
      BY <1>2, <1>3, <3>1
    <3>3. b \in 1..n /\ str[b] \notin Blank
      BY <1>1, <1>3, <2>1, <3>2
    <3>4. ~(b \in 1..(i - 1))
      BY <3>3
    <3> QED BY <2>1, <3>2, <3>3, <3>4
  <2>2. CASE ~(i <= j)
    <3>1. \A k \in 1..n : k \in 1..(i - 1) \/ k \in (j + 1)..Len(str)
      BY <1>1, <2>2
    <3>2. \A k \in 1..n : str[k] \in Blank
      BY <3>1
    <3> QED BY <1>1, <1>3, <2>2, <3>2
  <2> QED BY <2>1, <2>2
<1>5. b \in Nat \ {0} /\ n <= Len(str) /\ b <= n + 1
  BY <1>1, <1>4
<1>6. /\ behind \in Seq(Chars) /\ Len(behind) = n + 1 - b
      /\ \A k \in 1..(n + 1 - b) : behind[k] = str[b + k - 1] /\ b + k - 1 \in b..n
  <2> HIDE DEF n
  <2> QED BY <1>1, <1>5, PieceIs
<1> HIDE DEF T, behind
<1>7. DOMAIN behind = 1..(n + 1 - b) /\ n + 1 - b \in Nat
  BY <1>1, <1>5, <1>6
<1>8. U \in SUBSET (0..(n + 1 - b)) /\ 0 \in U
  BY <1>7
<1>9. top \in U /\ \A y \in U : y <= top
  <2> HIDE DEF U
  <2> QED BY <1>7, <1>8, GreatestOf
<1> HIDE DEF top
<1>10. m \in U
  <2>1. CASE i <= j
    <3>1. m \in 1..(n + 1 - b) /\ b + m - 1 = j
      BY <1>1, <1>4, <2>1
    <3>2. behind[m] = str[j]
      BY <1>6, <3>1
    <3> QED BY <1>7, <2>1, <3>1, <3>2
  <2>2. CASE ~(i <= j)
    BY <2>2
  <2> QED BY <2>1, <2>2
<1>11. ASSUME NEW y \in U PROVE y <= m
  <2>1. CASE y = 0
    BY <1>1, <2>1
  <2>2. CASE y # 0
    <3>1. y \in 1..(n + 1 - b) /\ behind[y] \notin Blank
      BY <1>7, <2>2
    <3>2. behind[y] = str[b + y - 1] /\ b + y - 1 \in b..n
      BY <1>6, <3>1
    <3>3. b = i /\ ~(b + y - 1 \in (j + 1)..Len(str))
      BY <1>1, <1>4, <3>1, <3>2
    <3> QED BY <1>1, <3>1, <3>2, <3>3
  <2> QED BY <2>1, <2>2
<1>12. top = m
  <2>1. top \in Nat
    BY <1>8, <1>9, <1>7
  <2>2. top <= m /\ m <= top
    BY <1>9, <1>10, <1>11
  <2> HIDE DEF m
  <2> QED BY <1>1, <2>1, <2>2
<1>13. trim(str) = SubSeq(behind, 1, top)
  <2>1. trim_start(str) = behind
    BY DEF trim_start, From, behind, b, T
  <2>2. trim_end(behind) = SubSeq(behind, 1, top)
    BY DEF trim_end, top
  <2> QED BY <2>1, <2>2 DEF trim
<1> DEFINE one == SubSeq(behind, 1, m)
           two == SubSeq(str, i, j)
<1>14. /\ one \in Seq(Chars) /\ Len(one) = m
       /\ \A k \in 1..m : one[k] = behind[k]
  <2>1. 1 \in Nat \ {0} /\ m \in Nat /\ m <= Len(behind) /\ 1 <= m + 1 /\ m + 1 - 1 = m
        /\ \A k \in 1..m : 1 + k - 1 = k
    BY <1>1, <1>4, <1>6
  <2> HIDE DEF m
  <2>2. /\ SubSeq(behind, 1, m) \in Seq(Chars) /\ Len(SubSeq(behind, 1, m)) = m + 1 - 1
        /\ \A k \in 1..(m + 1 - 1) :
               SubSeq(behind, 1, m)[k] = behind[1 + k - 1] /\ 1 + k - 1 \in 1..m
    BY <1>6, <2>1, PieceIs
  <2> HIDE DEF one
  <2> QED BY <2>1, <2>2 DEF one
<1>15. /\ two \in Seq(Chars) /\ Len(two) = m
       /\ \A k \in 1..m : two[k] = str[i + k - 1]
  BY PieceIs
<1>16. \A k \in 1..m : one[k] = two[k]
  <2>1. ASSUME NEW k \in 1..m PROVE one[k] = two[k]
    <3>1. b = i /\ k \in 1..(n + 1 - b)
      BY <1>1, <1>4
    <3>2. behind[k] = str[b + k - 1]
      BY <1>6, <3>1
    <3> HIDE DEF one, two, m
    <3> QED BY <1>14, <1>15, <3>1, <3>2
  <2> QED BY <2>1
<1> HIDE DEF one, two, m
<1>17. one = two
  BY <1>14, <1>15, <1>16, SeqEqual
<1> QED BY <1>12, <1>13, <1>17 DEF one, two

\* A text cut at the place e, or left whole.
CutInTwo(parts, str, e) ==
    /\ e = 0 => Len(parts) = 1
    /\ e # 0 => Len(parts) = 2 /\ parts[1] = SubSeq(str, 1, e - 1) /\ parts[2] = From(str, e + 1)

(* At most two parts: a text is cut at the first separator.                *)
LEMMA SplitInTwo ==
    ASSUME NEW str \in Seq(Chars), NEW sep \in Chars
    PROVE  CutInTwo(split(str, sep, 2), str, FindFrom(str, <<sep>>, 1))
<1> DEFINE e == FindFrom(str, <<sep>>, 1)
           q == <<0, 0>>
           p == <<e, 1>>
           n == Len(str)
           two == 2
<1>1. n \in Nat /\ two \in Nat /\ 1 \in Nat \ {0}
  BY ElementsOf
<1>2. FoundAt(e, str, sep, 1)
  BY <1>1, FindIs
<1>9. e = FindFrom(str, <<sep>>, 1)
  OBVIOUS
<1> HIDE DEF n, e
<1>3. PICK d : Cuts(d, str, sep, two) /\ split(str, sep, two) = d[<<0, 0>>]
  <2> HIDE DEF two
  <2> QED BY <1>1, SplitRecursion
<1>4. q \in CutPlaces(Len(str)) /\ q[1] = 0 /\ q[2] = 0 /\ 0 + 1 = 1
  <2>1. 0 \in 0..Len(str) /\ 0 <= 0
    BY <1>1 DEF n
  <2> QED BY <2>1 DEF CutPlaces
<1>5. CutEnd(str, sep, two, 1, 0) = e
  <2>1. ~(0 > 0)
    OBVIOUS
  <2> QED BY <1>9, <2>1, Zenon DEF CutEnd
<1>6. d[q] = IF e = 0 THEN <<From(str, 1)>> ELSE <<SubSeq(str, 1, e - 1)>> \o d[p]
  <2>1. d[q] = IF CutEnd(str, sep, two, q[1] + 1, q[2]) = 0 THEN <<From(str, q[1] + 1)>>
               ELSE <<SubSeq(str, q[1] + 1, CutEnd(str, sep, two, q[1] + 1, q[2]) - 1)>>
                        \o d[<<CutEnd(str, sep, two, q[1] + 1, q[2]), q[2] + 1>>]
    BY <1>3, <1>4, Zenon DEF Cuts
  <2> HIDE DEF two, q
  <2> QED BY <1>4, <1>5, <2>1
<1> DEFINE parts == split(str, sep, two)
<1>7. ASSUME e = 0 PROVE CutInTwo(parts, str, e)
  <2> DEFINE x == From(str, 1)
  <2>1. split(str, sep, two) = <<x>>
    BY <1>3, <1>6, <1>7 DEF q
  <2> HIDE DEF x
  <2>2. Len(<<x>>) = 1
    OBVIOUS
  <2>3. Len(parts) = 1
    BY <2>1, <2>2
  <2> HIDE DEF parts
  <2> QED BY <1>7, <2>3 DEF CutInTwo
<1>8. ASSUME e # 0 PROVE CutInTwo(parts, str, e)
  <2> DEFINE x == SubSeq(str, 1, e - 1)
             y == From(str, e + 1)
             one == <<x>>
             c == <<y>>
  <2>1. e \in 1..Len(str)
    BY <1>2, <1>8 DEF FoundAt
  <2>2. p \in CutPlaces(Len(str)) /\ p[1] = e /\ p[2] = 1
    <3>1. e \in 0..Len(str) /\ 1 \in 0..Len(str) /\ 1 <= e
      BY <1>1, <2>1 DEF n
    <3> QED BY <3>1 DEF CutPlaces
  <2>3. CutEnd(str, sep, two, e + 1, 1) = 0
    <3>1. two > 0 /\ 1 > 0 /\ 1 >= two - 1
      OBVIOUS
    <3> HIDE DEF two
    <3> QED BY <3>1, Zenon DEF CutEnd
  <2>4. d[p] = c
    <3>1. d[p] = IF CutEnd(str, sep, two, p[1] + 1, p[2]) = 0 THEN <<From(str, p[1] + 1)>>
                 ELSE <<SubSeq(str, p[1] + 1, CutEnd(str, sep, two, p[1] + 1, p[2]) - 1)>>
                          \o d[<<CutEnd(str, sep, two, p[1] + 1, p[2]), p[2] + 1>>]
      BY <1>3, <2>2, Zenon DEF Cuts
    <3> HIDE DEF two, p
    <3> QED BY <2>2, <2>3, <3>1
  <2>5. split(str, sep, two) = one \o c
    BY <1>3, <1>6, <1>8, <2>4 DEF q
  <2> HIDE DEF x, y
  <2>6. Len(one \o c) = 2 /\ (one \o c)[1] = x /\ (one \o c)[2] = y
    OBVIOUS
  <2>7. Len(parts) = 2 /\ parts[1] = x /\ parts[2] = y
    BY <2>5, <2>6
  <2> HIDE DEF parts
  <2> QED BY <1>8, <2>7 DEF x, y, CutInTwo
<1>10. CutInTwo(parts, str, e)
  BY <1>7, <1>8
<1> QED BY <1>9, <1>10

---------------------------------------------------------------------------
(***************************************************************************)
(* FlattenSeq, one sequence after the other, of two sequences one behind   *)
(* the other, and of what a function makes of the elements of a sequence.  *)
(***************************************************************************)

\* path[k] is the first k sequences, one behind the other.
Leading(path, seqs, S) ==
    /\ path \in [0..Len(seqs) -> Seq(S)] /\ path[0] = <<>>
    /\ \A k \in 1..Len(seqs) : path[k] = path[k - 1] \o seqs[k]

(* There is such a path, and it ends in the whole.                         *)
LEMMA FlattenPath ==
    ASSUME NEW S, NEW seqs \in Seq(Seq(S))
    PROVE  \E path : Leading(path, seqs, S) /\ path[Len(seqs)] = FlattenSeq(seqs)
<1> DEFINE n == Len(seqs)
           A == Seq(S)
           F == CHOOSE f : FlattensTo(f, seqs)
           path == [k \in 0..n |-> IF k = 0 THEN <<>> ELSE F[k]]
           T == {k \in 1..n : F[k] \notin A}
<1>1. n \in Nat /\ \A k \in 1..n : seqs[k] \in A
  OBVIOUS
<1>2. FlattensTo(F, seqs)
  BY FlattensToExists
<1>3. FlattenSeq(seqs) = IF n = 0 THEN seqs ELSE F[n]
  BY Zenon DEF FlattenSeq, FlattensTo
<1>4. <<>> \in A /\ \A s \in A : \A t \in A : s \o t \in A /\ <<>> \o t = t
  OBVIOUS
<1>5. n = 0 => seqs = <<>>
  OBVIOUS
<1> HIDE DEF F
<1>6. \A k \in 1..n : F[k] = IF k = 1 THEN seqs[k] ELSE F[k - 1] \o seqs[k]
  BY <1>2 DEF FlattensTo, n
<1> HIDE DEF A, n
<1>7. T = {}
  <2> SUFFICES ASSUME T # {} PROVE FALSE
    OBVIOUS
  <2>1. T \subseteq Nat
    BY <1>1
  <2>2. PICK k \in T : \A l \in T : k <= l
    <3> HIDE DEF T
    <3> QED BY <2>1, LeastNumber
  <2>3. k \in 1..n /\ F[k] \notin A
    BY <2>2
  <2>4. k # 1
    BY <1>1, <1>6, <2>3
  <2>5. k - 1 \in 1..n /\ ~(k <= k - 1)
    BY <1>1, <2>3, <2>4
  <2>6. F[k - 1] \in A
    BY <2>2, <2>5
  <2>7. F[k] = F[k - 1] \o seqs[k]
    BY <1>6, <2>3, <2>4
  <2> QED BY <1>1, <1>4, <2>3, <2>6, <2>7
<1>8. path \in [0..n -> A] /\ path[0] = <<>>
  <2>1. ASSUME NEW k \in 0..n PROVE path[k] \in A
    BY <1>1, <1>4, <1>7
  <2> QED BY <1>1, <2>1
<1>9. ASSUME NEW k \in 1..n PROVE path[k] = path[k - 1] \o seqs[k]
  <2>1. k \in 0..n /\ k - 1 \in 0..n /\ k # 0 /\ (k - 1 = 0 <=> k = 1)
    BY <1>1
  <2> QED BY <1>1, <1>4, <1>6, <2>1
<1>10. path[n] = FlattenSeq(seqs)
  <2>1. n \in 0..n
    BY <1>1
  <2> QED BY <1>3, <1>5, <2>1
<1> HIDE DEF path
<1>11. Leading(path, seqs, S)
  BY <1>8, <1>9 DEF Leading, n, A
<1> QED BY <1>10, <1>11 DEF n

(* Two sequences of sequences are flattened one behind the other.          *)
LEMMA FlattenConcat ==
    ASSUME NEW S, NEW a \in Seq(Seq(S)), NEW b \in Seq(Seq(S))
    PROVE  FlattenSeq(a \o b) = FlattenSeq(a) \o FlattenSeq(b)
<1> DEFINE A == Seq(S)
           n == Len(a)
           m == Len(b)
           ab == a \o b
<1>1. /\ ab \in Seq(A) /\ Len(ab) = n + m /\ n \in Nat /\ m \in Nat
      /\ \A i \in 1..n : ab[i] = a[i]
      /\ \A j \in 1..m : ab[n + j] = b[j]
  <2>1. a \in Seq(A) /\ b \in Seq(A)
    OBVIOUS
  <2> HIDE DEF A
  <2> QED BY <2>1, ConcatIs
<1>2. PICK f : Leading(f, a, S) /\ f[n] = FlattenSeq(a)
  BY FlattenPath
<1>3. PICK g : Leading(g, b, S) /\ g[m] = FlattenSeq(b)
  BY FlattenPath
<1> HIDE DEF ab
<1>4. PICK h : Leading(h, ab, S) /\ h[Len(ab)] = FlattenSeq(ab)
  BY <1>1, FlattenPath
<1>5. /\ f \in [0..n -> A] /\ f[0] = <<>> /\ \A k \in 1..n : f[k] = f[k - 1] \o a[k]
      /\ g \in [0..m -> A] /\ g[0] = <<>> /\ \A k \in 1..m : g[k] = g[k - 1] \o b[k]
      /\ h[0] = <<>> /\ \A k \in 1..(n + m) : h[k] = h[k - 1] \o ab[k]
  BY <1>1, <1>2, <1>3, <1>4 DEF Leading
<1>6. /\ \A s \in A : s \o <<>> = s
      /\ \A s \in A : \A t \in A : \A u \in A : (s \o t) \o u = s \o (t \o u)
  OBVIOUS
<1>7. \A k \in 1..m : b[k] \in A
  OBVIOUS
<1> HIDE DEF n, m, A
<1>8. \A k \in 0..n : h[k] = f[k]
  <2> DEFINE T == {k \in 0..n : h[k] # f[k]}
  <2> SUFFICES ASSUME T # {} PROVE FALSE
    OBVIOUS
  <2>1. T \subseteq Nat
    BY <1>1
  <2>2. PICK k \in T : \A l \in T : k <= l
    <3> HIDE DEF T
    <3> QED BY <2>1, LeastNumber
  <2>3. k \in 0..n /\ h[k] # f[k] /\ k # 0
    BY <1>5, <2>2
  <2>4. k - 1 \in 0..n /\ ~(k <= k - 1) /\ k \in 1..n /\ k \in 1..(n + m)
    BY <1>1, <2>3
  <2>5. h[k - 1] = f[k - 1]
    BY <2>2, <2>4
  <2> QED BY <1>1, <1>5, <2>3, <2>4, <2>5
<1>9. \A k \in 0..m : h[n + k] = f[n] \o g[k]
  <2> DEFINE Same(k) == h[n + k] = f[n] \o g[k]
             T == {k \in 0..m : ~Same(k)}
  <2>0. n \in 0..n /\ n + 0 = n /\ 0 \in 0..m /\ f[n] \in A
    BY <1>1, <1>5
  <2>1. Same(0)
    BY <1>5, <1>6, <1>8, <2>0
  <2>2. ASSUME NEW k \in 1..m, Same(k - 1) PROVE Same(k)
    <3>1. k - 1 \in 0..m /\ n + k \in 1..(n + m) /\ (n + k) - 1 = n + (k - 1)
      BY <1>1
    <3> DEFINE s == f[n]
               t == g[k - 1]
               u == b[k]
    <3>2. s \in A /\ t \in A /\ u \in A
      BY <1>5, <1>7, <2>0, <3>1
    <3>3. h[n + k] = (s \o t) \o u
      <4>1. ab[n + k] = u
        BY <1>1
      <4>2. h[n + k] = h[(n + k) - 1] \o ab[n + k]
        <5> DEFINE i == n + k
        <5>1. i \in 1..(n + m)
          BY <3>1
        <5> HIDE DEF i
        <5>2. h[i] = h[i - 1] \o ab[i]
          BY <1>1, <1>5, <5>1
        <5> QED BY <5>2 DEF i
      <4> QED BY <2>2, <3>1, <4>1, <4>2, Zenon
    <3>4. g[k] = t \o u
      BY <1>5
    <3> HIDE DEF s, t, u
    <3>5. (s \o t) \o u = s \o (t \o u)
      BY <1>6, <3>2
    <3> QED BY <3>3, <3>4, <3>5, Zenon DEF s
  <2> HIDE DEF Same
  <2> SUFFICES ASSUME T # {} PROVE FALSE
    BY DEF Same
  <2>3. PICK k \in T : \A l \in T : k <= l
    <3>1. T \subseteq Nat
      BY <1>1
    <3> HIDE DEF T
    <3> QED BY <3>1, LeastNumber
  <2>4. k \in 0..m /\ ~Same(k) /\ k # 0
    BY <2>1, <2>3
  <2>5. k - 1 \in 0..m /\ ~(k <= k - 1) /\ k \in 1..m
    BY <1>1, <2>4
  <2>6. Same(k - 1)
    BY <2>3, <2>5
  <2> QED BY <2>2, <2>4, <2>5, <2>6
<1>10. h[n + m] = f[n] \o g[m]
  <2>1. m \in 0..m
    BY <1>1
  <2> QED BY <1>9, <2>1
<1> QED BY <1>1, <1>2, <1>3, <1>4, <1>10 DEF ab, n, m

(* No sequences are flattened to none, and one to itself.                  *)
LEMMA FlattenNone ==
    /\ FlattenSeq(<<>>) = <<>>
    /\ \A S : \A s \in Seq(S) : FlattenSeq(<<s>>) = s
<1>1. FlattenSeq(<<>>) = <<>>
  BY DEF FlattenSeq
<1>2. ASSUME NEW S, NEW s \in Seq(S) PROVE FlattenSeq(<<s>>) = s
  <2>1. <<s>> \in Seq(Seq(S)) /\ Len(<<s>>) = 1 /\ <<s>>[1] = s /\ <<>> \o s = s
    OBVIOUS
  <2> DEFINE one == <<s>>
  <2>2. one \in Seq(Seq(S)) /\ Len(one) = 1 /\ one[1] = s
    BY <2>1
  <2> HIDE DEF one
  <2>3. PICK path : Leading(path, one, S) /\ path[Len(one)] = FlattenSeq(one)
    BY <2>2, FlattenPath
  <2>4. path[0] = <<>> /\ path[1] = path[0] \o one[1]
    <3>1. 1 \in 1..Len(one) /\ 1 - 1 = 0
      BY <2>2
    <3>2. path[1] = path[1 - 1] \o one[1] /\ path[0] = <<>>
      BY <2>3, <3>1, Zenon DEF Leading
    <3> QED BY <3>1, <3>2
  <2>5. path[1] = FlattenSeq(one)
    BY <2>2, <2>3
  <2> QED BY <2>1, <2>2, <2>4, <2>5 DEF one
<1> QED BY <1>1, <1>2

\* What g makes of each element of seq, one behind the other.
Each(g, seq) == [i \in DOMAIN seq |-> g[seq[i]]]
Flat(g, seq) == FlattenSeq(Each(g, seq))

EachOf(e, g, seq, S) == /\ e \in Seq(Seq(S)) /\ Len(e) = Len(seq)
                        /\ \A i \in 1..Len(seq) : e[i] = g[seq[i]]
                        /\ FlattenSeq(e) \in Seq(S)

(* It is a sequence of sequences.                                          *)
LEMMA EachIs ==
    ASSUME NEW T, NEW S, NEW g \in [T -> Seq(S)], NEW seq \in Seq(T)
    PROVE  EachOf(Each(g, seq), g, seq, S) /\ Flat(g, seq) \in Seq(S)
<1> DEFINE A == Seq(S)
           n == Len(seq)
           e == [i \in 1..n |-> g[seq[i]]]
<1>1. n \in Nat /\ DOMAIN seq = 1..n /\ \A i \in 1..n : g[seq[i]] \in A
  OBVIOUS
<1>2. Each(g, seq) = e
  BY <1>1 DEF Each
<1> HIDE DEF n, A
<1>3. e \in Seq(A) /\ Len(e) = n
  BY <1>1
<1>4. e \in Seq(Seq(S))
  BY <1>3 DEF A
<1>5. FlattenSeq(e) \in Seq(S)
  <2> HIDE DEF e
  <2> QED BY <1>4, FlattenSequence
<1>6. EachOf(e, g, seq, S)
  BY <1>1, <1>3, <1>4, <1>5 DEF n, EachOf
<1> QED BY <1>2, <1>5, <1>6 DEF Flat

(* Of two sequences one behind the other it is one behind the other.       *)
LEMMA FlatConcat ==
    ASSUME NEW T, NEW S, NEW g \in [T -> Seq(S)], NEW a \in Seq(T), NEW b \in Seq(T)
    PROVE  Flat(g, a \o b) = Flat(g, a) \o Flat(g, b)
<1> DEFINE n == Len(a)
           m == Len(b)
           A == Seq(S)
           ab == a \o b
           u == Each(g, a)
           v == Each(g, b)
           w == Each(g, ab)
<1>1. /\ ab \in Seq(T) /\ Len(ab) = n + m /\ n \in Nat /\ m \in Nat
      /\ \A i \in 1..n : ab[i] = a[i]
      /\ \A j \in 1..m : ab[n + j] = b[j]
  BY ConcatIs
<1> HIDE DEF ab, n, m
<1>2. /\ u \in Seq(A) /\ Len(u) = n /\ v \in Seq(A) /\ Len(v) = m /\ w \in Seq(A) /\ Len(w) = n + m
      /\ \A i \in 1..n : u[i] = g[a[i]]
      /\ \A i \in 1..m : v[i] = g[b[i]]
      /\ \A i \in 1..(n + m) : w[i] = g[ab[i]]
  <2>1. EachOf(u, g, a, S) /\ EachOf(v, g, b, S) /\ EachOf(w, g, ab, S)
    BY <1>1, EachIs, Zenon
  <2> HIDE DEF u, v, w
  <2> QED BY <1>1, <2>1 DEF EachOf, n, m
<1> HIDE DEF u, v, w, A
<1>3. /\ u \o v \in Seq(A) /\ Len(u \o v) = n + m
      /\ \A i \in 1..n : (u \o v)[i] = u[i]
      /\ \A j \in 1..m : (u \o v)[n + j] = v[j]
  <2>1. u \in Seq(A) /\ v \in Seq(A)
    BY <1>2
  <2>2. /\ u \o v \in Seq(A) /\ Len(u \o v) = Len(u) + Len(v)
        /\ \A i \in 1..Len(u) : (u \o v)[i] = u[i]
        /\ \A j \in 1..Len(v) : (u \o v)[Len(u) + j] = v[j]
    BY <2>1, ConcatIs
  <2> QED BY <1>2, <2>2
<1> DEFINE x == u \o v
<1> HIDE DEF x
<1>4. ASSUME NEW i \in 1..(n + m) PROVE w[i] = x[i]
  <2>1. CASE i \in 1..n
    <3>1. w[i] = g[ab[i]] /\ ab[i] = a[i]
      BY <1>1, <1>2, <2>1
    <3>2. x[i] = u[i] /\ u[i] = g[a[i]]
      BY <1>2, <1>3, <2>1, Zenon DEF x
    <3> QED BY <3>1, <3>2
  <2>2. CASE i \notin 1..n
    <3> DEFINE j == i - n
    <3>1. j \in 1..m /\ n + j = i
      BY <1>1, <2>2
    <3> HIDE DEF j
    <3>2. ab[n + j] = b[j] /\ x[n + j] = v[j] /\ v[j] = g[b[j]]
      BY <1>1, <1>2, <1>3, <3>1 DEF x
    <3> QED BY <1>2, <3>1, <3>2
  <2> QED BY <2>1, <2>2
<1>5. w = x
  <2>1. w \in Seq(A) /\ x \in Seq(A) /\ Len(w) = n + m /\ Len(x) = n + m
    BY <1>2, <1>3 DEF x
  <2> QED BY <1>4, <2>1, SeqEqual
<1>6. FlattenSeq(u \o v) = FlattenSeq(u) \o FlattenSeq(v)
  BY <1>2, FlattenConcat DEF A
<1> QED BY <1>5, <1>6 DEF x, w, u, v, ab, Flat

(* Of no elements it is nothing, of one element what g makes of it.        *)
LEMMA FlatNone ==
    ASSUME NEW T, NEW S, NEW g \in [T -> Seq(S)]
    PROVE  /\ Flat(g, <<>>) = <<>>
           /\ \A x \in T : Flat(g, <<x>>) = g[x]
<1>1. Each(g, <<>>) = <<>>
  BY DEF Each
<1>2. ASSUME NEW x \in T PROVE Flat(g, <<x>>) = g[x]
  <2>1. <<x>> \in Seq(T) /\ Len(<<x>>) = 1 /\ <<x>>[1] = x /\ g[x] \in Seq(S)
    OBVIOUS
  <2> DEFINE s == g[x]
             one == <<x>>
             e == Each(g, one)
  <2>2. one \in Seq(T) /\ Len(one) = 1 /\ one[1] = x /\ s \in Seq(S)
    BY <2>1
  <2> HIDE DEF one
  <2>3. EachOf(e, g, one, S)
    BY <2>2, EachIs, Zenon
  <2> HIDE DEF e
  <2>4. e[1] = s /\ e \in Seq(Seq(S)) /\ Len(e) = 1
    BY <2>2, <2>3 DEF EachOf
  <2> HIDE DEF s
  <2>5. e = <<s>>
    BY <2>4
  <2>6. FlattenSeq(<<s>>) = s
    BY <2>2, FlattenNone
  <2> QED BY <2>5, <2>6 DEF Flat, e, s, one
<1> QED BY <1>1, <1>2, FlattenNone DEF Flat

(* Induction on a number up to n: T is a set of numbers.                   *)
LEMMA UpTo ==
    ASSUME NEW n \in Nat, NEW T, 0 \in T, \A k \in 1..n : k - 1 \in T => k \in T
    PROVE  \A k \in 0..n : k \in T
<1> DEFINE F == {k \in 0..n : k \notin T}
<1> SUFFICES ASSUME F # {} PROVE FALSE
  OBVIOUS
<1>1. F \subseteq Nat
  OBVIOUS
<1>2. PICK k \in F : \A l \in F : k <= l
  <2> HIDE DEF F
  <2> QED BY <1>1, LeastNumber
<1>3. k \in 0..n /\ k \notin T /\ k # 0
  BY <1>2
<1>4. k \in 1..n /\ k - 1 \in 0..n /\ ~(k <= k - 1)
  BY <1>3
<1>5. k - 1 \in T
  BY <1>2, <1>4
<1> QED BY <1>3, <1>4, <1>5

\* It is made of one element after the other.
OneByOne(g, T) ==
    \A a \in Seq(T) : \A b \in Seq(T) : Flat(g, a \o b) = Flat(g, a) \o Flat(g, b)

(* Whatever g makes of an element.                                         *)
LEMMA FlatOfTwo == ASSUME NEW T, NEW S, NEW g \in [T -> Seq(S)] PROVE OneByOne(g, T)
BY FlatConcat DEF OneByOne

\* k makes of an element what h makes of what g makes of it; so of a sequence.
Makes(k, h, g, T) == \A x \in T : k[x] = Flat(h, g[x])
MadeOf(k, h, g, seq) == Flat(h, Flat(g, seq)) = Flat(k, seq)

(* It does.                                                                *)
LEMMA FlatFlat ==
    ASSUME NEW T, NEW S, NEW R, NEW g \in [T -> Seq(S)], NEW h \in [S -> Seq(R)],
           NEW k \in [T -> Seq(R)], Makes(k, h, g, T), NEW seq \in Seq(T)
    PROVE  MadeOf(k, h, g, seq)
<1> USE DEF Makes
<1>0. OneByOne(h, S)
  BY FlatOfTwo, Zenon
<1> DEFINE n == Len(seq)
           u == Each(g, seq)
           v == Each(k, seq)
<1>1. n \in Nat /\ \A i \in 1..n : seq[i] \in T
  OBVIOUS
<1>2. EachOf(u, g, seq, S) /\ EachOf(v, k, seq, R)
  BY EachIs, Zenon
<1>3. /\ u \in Seq(Seq(S)) /\ Len(u) = n /\ \A i \in 1..n : u[i] = g[seq[i]]
      /\ v \in Seq(Seq(R)) /\ Len(v) = n /\ \A i \in 1..n : v[i] = k[seq[i]]
  BY <1>2, Zenon DEF EachOf
<1> HIDE DEF u, v
<1>4. PICK f : Leading(f, u, S) /\ f[Len(u)] = FlattenSeq(u)
  BY <1>3, FlattenPath
<1>5. PICK p : Leading(p, v, R) /\ p[Len(v)] = FlattenSeq(v)
  BY <1>3, FlattenPath
<1> HIDE DEF n
<1>6. /\ f \in [0..n -> Seq(S)] /\ f[0] = <<>> /\ \A i \in 1..n : f[i] = f[i - 1] \o u[i]
      /\ p \in [0..n -> Seq(R)] /\ p[0] = <<>> /\ \A i \in 1..n : p[i] = p[i - 1] \o v[i]
  BY <1>3, <1>4, <1>5, Zenon DEF Leading
<1> DEFINE Same == {i \in 0..n : Flat(h, f[i]) = p[i]}
<1>7. 0 \in Same
  BY <1>1, <1>6, FlatNone
<1>8. ASSUME NEW i \in 1..n, i - 1 \in Same PROVE i \in Same
  <2> DEFINE a == f[i - 1]
             x == seq[i]
             b == g[x]
  <2>1. i \in 0..n /\ i - 1 \in 0..n
    BY <1>1
  <2>2. a \in Seq(S) /\ b \in Seq(S) /\ x \in T
    BY <1>1, <1>6, <2>1
  <2>3. f[i] = a \o b /\ p[i] = p[i - 1] \o k[x]
    <3>1. u[i] = b /\ v[i] = k[x]
      BY <1>3
    <3>2. f[i] = a \o u[i] /\ p[i] = p[i - 1] \o v[i]
      BY <1>6
    <3> QED BY <3>1, <3>2, Zenon
  <2>4. Flat(h, a) = p[i - 1]
    BY <1>8
  <2>5. k[x] = Flat(h, b)
    BY <2>2
  <2> HIDE DEF a, b, x
  <2>6. Flat(h, a \o b) = Flat(h, a) \o Flat(h, b)
    BY <1>0, <2>2, Zenon DEF OneByOne
  <2> QED BY <2>1, <2>3, <2>4, <2>5, <2>6
<1>9. n \in Same
  <2>1. n \in 0..n
    BY <1>1
  <2> HIDE DEF Same
  <2> QED BY <1>1, <1>7, <1>8, <2>1, UpTo
<1> QED BY <1>3, <1>4, <1>5, <1>9, Zenon DEF Flat, u, v, MadeOf

\* The elements of a sequence are renamed, one by one.
Renames(g, r, T) == \A x \in T : g[x] = <<r[x]>>
Renamed(g, r, seq) == Flat(g, seq) = [j \in DOMAIN seq |-> r[seq[j]]]

(* They are.                                                               *)
LEMMA FlatRenames ==
    ASSUME NEW T, NEW S, NEW r \in [T -> S], NEW g \in [T -> Seq(S)],
           Renames(g, r, T), NEW seq \in Seq(T)
    PROVE  Renamed(g, r, seq)
<1> DEFINE n == Len(seq)
           u == Each(g, seq)
           to(i) == [j \in 1..i |-> r[seq[j]]]
<1>1. n \in Nat /\ DOMAIN seq = 1..n /\ \A i \in 1..n : seq[i] \in T /\ r[seq[i]] \in S
  OBVIOUS
<1> USE DEF Renames
<1>2. EachOf(u, g, seq, S)
  BY EachIs, Zenon
<1>3. u \in Seq(Seq(S)) /\ Len(u) = n /\ \A i \in 1..n : u[i] = <<r[seq[i]]>>
  BY <1>1, <1>2 DEF EachOf
<1> HIDE DEF u
<1>4. PICK f : Leading(f, u, S) /\ f[Len(u)] = FlattenSeq(u)
  BY <1>3, FlattenPath
<1> HIDE DEF n
<1>5. f \in [0..n -> Seq(S)] /\ f[0] = <<>> /\ \A i \in 1..n : f[i] = f[i - 1] \o u[i]
  BY <1>3, <1>4, Zenon DEF Leading
<1> DEFINE Same == {i \in 0..n : f[i] = to(i)}
<1>6. 0 \in Same
  BY <1>1, <1>5
<1>7. ASSUME NEW i \in 1..n, i - 1 \in Same PROVE i \in Same
  <2> DEFINE y == r[seq[i]]
             m == i - 1
             b == <<y>>
             a == to(m)
  <2>1. i \in 0..n /\ m \in 0..n /\ m \in Nat /\ m + 1 = i
    BY <1>1
  <2>2. f[i] = a \o b
    <3>1. f[m] = a /\ u[i] = b
      BY <1>3, <1>7
    <3> HIDE DEF a, b
    <3> QED BY <1>5, <3>1
  <2>3. \A j \in 1..m : r[seq[j]] \in S
    BY <1>1, <2>1
  <2>4. a \in Seq(S) /\ Len(a) = m /\ \A j \in 1..m : a[j] = r[seq[j]]
    <3> HIDE DEF m
    <3> QED BY <2>1, <2>3
  <2>5. b \in Seq(S) /\ Len(b) = 1 /\ b[1] = y
    BY <1>1
  <2>6. to(i) \in Seq(S) /\ Len(to(i)) = i /\ \A j \in 1..i : to(i)[j] = r[seq[j]]
    <3>1. \A j \in 1..i : r[seq[j]] \in S
      BY <1>1
    <3> QED BY <2>1, <3>1
  <2> DEFINE c == to(i)
             d == a \o b
  <2>7. c \in Seq(S) /\ Len(c) = i /\ \A j \in 1..i : c[j] = r[seq[j]]
    BY <2>6
  <2> HIDE DEF a, b, c
  <2>8. d \in Seq(S) /\ Len(d) = m + 1 /\ (\A j \in 1..m : d[j] = a[j]) /\ d[m + 1] = b[1]
    <3>1. /\ a \o b \in Seq(S) /\ Len(a \o b) = Len(a) + Len(b)
          /\ \A j \in 1..Len(a) : (a \o b)[j] = a[j]
          /\ \A j \in 1..Len(b) : (a \o b)[Len(a) + j] = b[j]
      BY <2>4, <2>5, ConcatIs
    <3>2. 1 \in 1..Len(b)
      BY <2>5
    <3> QED BY <2>4, <2>5, <3>1, <3>2
  <2> HIDE DEF d, m
  <2>9. \A j \in 1..i : d[j] = c[j]
    <3>1. ASSUME NEW j \in 1..i PROVE d[j] = c[j]
      <4>1. CASE j = m + 1
        BY <2>1, <2>5, <2>7, <2>8, <4>1
      <4>2. CASE j # m + 1
        <5>1. j \in 1..m
          BY <2>1, <4>2
        <5> QED BY <2>4, <2>7, <2>8, <5>1
      <4> QED BY <4>1, <4>2
    <3> QED BY <3>1
  <2>10. d = c
    BY <2>1, <2>7, <2>8, <2>9, SeqEqual
  <2> QED BY <2>1, <2>2, <2>10 DEF c, d
<1>8. n \in Same
  <2>1. n \in 0..n
    BY <1>1
  <2> HIDE DEF Same
  <2> QED BY <1>1, <1>6, <1>7, <2>1, UpTo
<1>9. f[n] = to(n)
  BY <1>8
<1> QED BY <1>1, <1>3, <1>4, <1>9 DEF Flat, u, Renamed

\* y is an element of s.
Has(s, y) == \E i \in DOMAIN s : s[i] = y

(* It has what the sequences have that it is made of.                      *)
LEMMA FlatHas ==
    ASSUME NEW T, NEW S, NEW g \in [T -> Seq(S)], NEW seq \in Seq(T), NEW y
    PROVE  Has(Flat(g, seq), y) <=> \E i \in DOMAIN seq : Has(g[seq[i]], y)
<1> DEFINE n == Len(seq)
           u == Each(g, seq)
<1>1. n \in Nat /\ DOMAIN seq = 1..n /\ \A i \in 1..n : seq[i] \in T /\ g[seq[i]] \in Seq(S)
  OBVIOUS
<1>2. EachOf(u, g, seq, S)
  BY EachIs, Zenon
<1>3. u \in Seq(Seq(S)) /\ Len(u) = n /\ \A i \in 1..n : u[i] = g[seq[i]]
  BY <1>1, <1>2, Zenon DEF EachOf
<1> HIDE DEF u
<1>4. PICK f : Leading(f, u, S) /\ f[Len(u)] = FlattenSeq(u)
  BY <1>3, FlattenPath
<1> HIDE DEF n
<1>5. f \in [0..n -> Seq(S)] /\ f[0] = <<>> /\ \A i \in 1..n : f[i] = f[i - 1] \o u[i]
  BY <1>3, <1>4, Zenon DEF Leading
<1>6. ASSUME NEW a \in Seq(S), NEW b \in Seq(S)
      PROVE  Has(a \o b, y) <=> Has(a, y) \/ Has(b, y)
  <2>1. /\ a \o b \in Seq(S) /\ Len(a \o b) = Len(a) + Len(b)
        /\ Len(a) \in Nat /\ Len(b) \in Nat
        /\ \A i \in 1..Len(a) : (a \o b)[i] = a[i]
        /\ \A j \in 1..Len(b) : (a \o b)[Len(a) + j] = b[j]
    BY ConcatIs
  <2>2. DOMAIN a = 1..Len(a) /\ DOMAIN b = 1..Len(b) /\ DOMAIN (a \o b) = 1..(Len(a) + Len(b))
    BY <2>1
  <2> DEFINE c == a \o b
             l == Len(a)
             m == Len(b)
  <2> HIDE DEF c, l, m
  <2>3. ASSUME NEW i \in 1..(l + m) PROVE i \in 1..l \/ (i - l \in 1..m /\ l + (i - l) = i)
    BY <2>1 DEF l, m
  <2>4. ASSUME NEW j \in 1..m PROVE l + j \in 1..(l + m)
    BY <2>1 DEF l, m
  <2>5. \A i \in 1..l : i \in 1..(l + m)
    BY <2>1 DEF l, m
  <2>6. /\ DOMAIN a = 1..l /\ DOMAIN b = 1..m /\ DOMAIN c = 1..(l + m)
        /\ \A i \in 1..l : c[i] = a[i]
        /\ \A j \in 1..m : c[l + j] = b[j]
    BY <2>1, <2>2 DEF c, l, m
  <2>7. ASSUME Has(c, y) PROVE Has(a, y) \/ Has(b, y)
    <3>1. PICK i \in 1..(l + m) : c[i] = y
      BY <2>6, <2>7 DEF Has
    <3>2. i \in 1..l \/ (i - l \in 1..m /\ c[i] = b[i - l])
      BY <2>3, <2>6
    <3> QED BY <2>6, <3>1, <3>2, Zenon DEF Has
  <2>8. ASSUME Has(a, y) \/ Has(b, y) PROVE Has(c, y)
    BY <2>4, <2>5, <2>6, <2>8, Zenon DEF Has
  <2> QED BY <2>7, <2>8 DEF c
<1> DEFINE Same == {i \in 0..n : Has(f[i], y) <=> \E j \in 1..i : Has(u[j], y)}
<1>7. 0 \in Same
  BY <1>1, <1>5 DEF Has
<1>8. ASSUME NEW i \in 1..n, i - 1 \in Same PROVE i \in Same
  <2> DEFINE a == f[i - 1]
             b == u[i]
  <2>1. i \in 0..n /\ i - 1 \in 0..n /\ \A j : j \in 1..i <=> j \in 1..(i - 1) \/ j = i
    BY <1>1
  <2>2. a \in Seq(S) /\ b \in Seq(S) /\ f[i] = a \o b
    BY <1>1, <1>3, <1>5, <2>1
  <2>3. Has(a, y) <=> \E j \in 1..(i - 1) : Has(u[j], y)
    BY <1>8
  <2> HIDE DEF a
  <2>4. Has(a \o b, y) <=> Has(a, y) \/ Has(b, y)
    BY <1>6, <2>2
  <2>5. Has(f[i], y) <=> \E j \in 1..i : Has(u[j], y)
    BY <2>1, <2>2, <2>3, <2>4, Zenon
  <2> QED BY <2>1, <2>5
<1>9. n \in Same
  <2>1. n \in 0..n
    BY <1>1
  <2> HIDE DEF Same
  <2> QED BY <1>1, <1>7, <1>8, <2>1, UpTo
<1>10. Has(f[n], y) <=> \E j \in 1..n : Has(u[j], y)
  BY <1>9
<1>11. f[n] = Flat(g, seq)
  BY <1>3, <1>4 DEF Flat, u
<1>12. (\E j \in 1..n : Has(u[j], y)) <=> \E j \in 1..n : Has(g[seq[j]], y)
  BY <1>3, Zenon
<1> QED BY <1>1, <1>10, <1>11, <1>12, Zenon
=============================================================================
