----------------------------- MODULE WebSocket -----------------------------
(***************************************************************************)
(* The message layer of stw::web_socket (net/web_socket.cpp): send() cuts  *)
(* a message into frames, receive() collects frames into a message and     *)
(* answers control frames, close() shuts the connection down and drains    *)
(* it.  One thread of the application calls the class; the other end is an *)
(* RFC 6455 endpoint outside the repository, which may misbehave, die      *)
(* at any time, and reset the connection when it does.                     *)
(*                                                                         *)
(* A connection starts here as a handshake that succeeded leaves it.  The  *)
(* handshake itself is in Sockets.                                         *)
(***************************************************************************)
EXTENDS Integers, Sequences, SequencesExt, Strings

CONSTANTS
    PeerMessages,       \* what the peer may send: [op, frags], frags a sequence of byte sequences
    AppMessages,        \* what the application may send: [op, data]; no data is a null pointer
    CloseCodes,         \* payloads of the peer's close frame
    ChunkSize,          \* send()'s chunkSize
    MaxControl,         \* the longest payload of a control frame
    MaxExtras,          \* bound: pings and malformed frames the peer sends
    MaxInFlight,        \* bound: frames of the peer that wait to be read
    MaxMessages,        \* bound: messages the two ends send, in all
    MaxUnread           \* bound: frames that wait for the peer when send() begins

VARIABLES
    isClient,           \* which end of the connection this web_socket is
    connectionState,    \* "connected", "disconnecting", "disconnected"
    sock,               \* the descriptor: "open", "shut" (SHUT_WR, draining), "closed"
    isBlocking,         \* what set_blocking last asked
    call,               \* the call under way: "none", "receive", "send", "close"
    message,            \* receive()'s message: [op, data]
    rest,               \* send()'s message, as far as it is not written: [op, data]
    toUs, toPeer,       \* frames on their way
    eof,                \* nothing follows toUs
    peer,               \* the other end
    posted, given,      \* data messages the peer sent, and those handed to onReceived
    asked, taken,       \* messages passed to send(), unless it failed, and those the peer assembled
    broken              \* a write has ended inside a frame, and the connection is open

wsVars == <<isClient, connectionState, sock, isBlocking, call, message, rest,
            toUs, toPeer, eof, peer, posted, given, asked, taken, broken>>
app == <<isClient, isBlocking>>
peerSide == <<eof, peer, posted, taken>>

Data == {"text", "binary"}
Control == {"close", "ping", "pong"}
NoMessage == [op |-> "continuation", data |-> <<>>]

\* What the peer makes of the bytes behind a frame that is not all there.
Garbled == [op |-> "reserved", data |-> <<>>]
Misread == taken # <<>> /\ Last(taken) = Garbled

(* A frame.  A masked frame carries its mask, and applying the mask twice  *)
(* restores the payload: veiled says whether the payload is masked now.    *)
(* whole is FALSE while a part of the frame has not arrived.               *)
Frame(op, fin, data, masked) ==
    [op |-> op, fin |-> fin, data |-> data, masked |-> masked,
     veiled |-> masked, whole |-> TRUE]

ApplyMask(f) == [f EXCEPT !.veiled = ~@]
Payload(f) == IF f.veiled THEN [i \in DOMAIN f.data |-> 255] ELSE f.data

Settled == toUs # <<>> => toUs[Len(toUs)].whole
Room == Settled /\ Len(toUs) < MaxInFlight

WsInit ==
    /\ isClient \in BOOLEAN
    /\ connectionState = "connected" /\ sock = "open"
    /\ isBlocking = TRUE
    /\ call = "none" /\ message = NoMessage /\ rest = NoMessage
    /\ toUs = <<>> /\ toPeer = <<>> /\ eof = FALSE
    /\ peer = [there |-> TRUE, due |-> <<>>, part |-> NoMessage, extras |-> 0,
               code |-> {}, echo |-> {}]
    /\ posted = <<>> /\ given = <<>> /\ asked = <<>> /\ taken = <<>> /\ broken = FALSE

---------------------------------------------------------------------------
(* Writing.  write_frame masks the caller's buffer in place and writes the *)
(* header and the payload.  A write to a peer that has gone fails sooner   *)
(* or later, and one to a socket that does not block when its buffer is    *)
(* full (EAGAIN): write_all_bytes gives up wherever it is, and what it has *)
(* written of the frame stays written.                                     *)

\* What follows a frame that is not all there is no frame any more.
Sent(f) ==
    /\ toPeer' = IF peer.there /\ ~broken THEN Append(toPeer, f) ELSE toPeer
    /\ UNCHANGED broken

\* Nothing of the frame is written, or a part of it.
NotSent ==
    /\ ~peer.there \/ ~isBlocking
    /\ broken' \in {broken, broken \/ peer.there}
    /\ UNCHANGED toPeer

StartSend ==
    /\ call = "none" /\ sock = "open" /\ Len(asked) + Len(posted) < MaxMessages /\ Len(toPeer) <= MaxUnread
    /\ \E m \in AppMessages : asked' = Append(asked, m) /\ rest' = m
    /\ call' = "send"
    /\ UNCHANGED <<app, connectionState, sock, message, toUs, toPeer, peerSide, given, broken>>

\* Mutant: every frame is marked as the last of its message.
SendFrameAllFinal ==
    /\ call = "send"
    /\ LET size == IF Len(rest.data) < ChunkSize THEN Len(rest.data) ELSE ChunkSize
           more == SubSeq(rest.data, size + 1, Len(rest.data))
       IN /\ Sent(Frame(rest.op, TRUE, SubSeq(rest.data, 1, size), isClient))
          /\ rest' = [op |-> "continuation", data |-> more]
          /\ call' = IF more = <<>> THEN "none" ELSE "send"
    /\ UNCHANGED <<app, connectionState, sock, message, toUs, peerSide, given, asked>>

\* One pass of send()'s loop, or its write of a frame without payload.
SendFrame ==
    /\ call = "send"
    /\ LET size == IF Len(rest.data) < ChunkSize THEN Len(rest.data) ELSE ChunkSize
           more == SubSeq(rest.data, size + 1, Len(rest.data))
       IN /\ Sent(Frame(rest.op, more = <<>>, SubSeq(rest.data, 1, size), isClient))
          /\ rest' = [op |-> "continuation", data |-> more]
          /\ call' = IF more = <<>> THEN "none" ELSE "send"
    /\ UNCHANGED <<app, connectionState, sock, message, toUs, peerSide, given, asked>>

\* write_frame fails, in the first frame or a later one, and send() returns its error.
SendFails ==
    /\ call = "send" /\ NotSent
    /\ call' = "none" /\ rest' = NoMessage /\ asked' = Front(asked)
    /\ UNCHANGED <<app, connectionState, sock, message, toUs, peerSide, given>>

---------------------------------------------------------------------------
(* close(): shut the sending side down, read until nothing comes, close.   *)

\* drop_connection, and the first step of close().
BeginClose == call' = "close" /\ sock' = "shut" /\ message' = NoMessage

StartClose ==
    /\ call = "none" /\ sock = "open"
    /\ BeginClose
    /\ UNCHANGED <<app, connectionState, rest, toUs, toPeer, peerSide, given, asked, broken>>

\* emptyBuffers has met the end of the stream, or EAGAIN.
FinishClose ==
    /\ call = "close" /\ (eof \/ ~isBlocking)
    /\ toUs' = <<>>
    /\ sock' = "closed" /\ connectionState' = "disconnected"
    /\ call' = "none"
    /\ UNCHANGED <<app, message, rest, toPeer, peerSide, given, asked, broken>>

SetBlocking ==
    /\ call = "none" /\ sock = "open"
    /\ isBlocking' = ~isBlocking
    /\ UNCHANGED <<isClient, connectionState, sock, call, message, rest, toUs, toPeer,
                   peerSide, given, asked, broken>>

---------------------------------------------------------------------------
(* receive(): one action per pass of its loop.                             *)

StartReceive ==
    /\ call = "none" /\ sock = "open"
    /\ call' = "receive" /\ message' = NoMessage
    /\ UNCHANGED <<app, connectionState, sock, rest, toUs, toPeer, peerSide, given, asked, broken>>

\* peek returns 0 or -1: receive() returns, and forgets the fragments it has.
ReceiveNothing ==
    /\ call = "receive" /\ toUs = <<>> /\ (eof \/ ~isBlocking)
    /\ call' = "none" /\ message' = NoMessage
    /\ UNCHANGED <<app, connectionState, sock, rest, toUs, toPeer, peerSide, given, asked, broken>>

\* read_frame meets EAGAIN, or the end of the stream, in the middle of a frame.
ReceiveBroken ==
    /\ call = "receive" /\ toUs # <<>> /\ ~Head(toUs).whole /\ (eof \/ ~isBlocking)
    /\ BeginClose
    /\ UNCHANGED <<app, connectionState, rest, toUs, toPeer, peerSide, given, asked, broken>>

\* What read_frame makes of the first frame.
Incoming == IF Head(toUs).masked THEN ApplyMask(Head(toUs)) ELSE Head(toUs)

TooBig(f) == f.op \in Control /\ (~f.fin \/ Len(f.data) > MaxControl)

\* Mutant: a continuation may begin a message.
OutOfPlaceStart(f) == f.data = <<>> \/ (f.op \in Data /\ message.data # <<>>)

\* A data frame that neither starts a message nor goes on with one, or is empty.
OutOfPlace(f) ==
    \/ f.data = <<>>
    \/ f.op \in Data /\ message.data # <<>>
    \/ f.op = "continuation" /\ message.data = <<>>

Collected(f) ==
    [op |-> IF f.op \in Data THEN f.op ELSE message.op, data |-> message.data \o Payload(f)]

\* receive() drops the connection over this data frame.
Refused(f) ==
    \/ OutOfPlace(f)
    \/ f.fin /\ Collected(f).op = "text" /\ ~IsValidUtf8(Collected(f).data)

ReadFrame ==
    /\ call = "receive" /\ toUs # <<>> /\ Head(toUs).whole
    /\ toUs' = Tail(toUs)

ReceiveError ==
    /\ ReadFrame
    /\ \/ TooBig(Incoming)
       \/ Incoming.op \in Data \cup {"continuation"} /\ Refused(Incoming)
    /\ BeginClose
    /\ UNCHANGED <<app, connectionState, rest, toPeer, peerSide, given, asked, broken>>

ReceiveData ==
    /\ ReadFrame
    /\ Incoming.op \in Data \cup {"continuation"} /\ ~Refused(Incoming)
    /\ IF Incoming.fin
          THEN given' = Append(given, Collected(Incoming)) /\ call' = "none" /\ message' = NoMessage
          ELSE message' = Collected(Incoming) /\ UNCHANGED <<given, call>>
    /\ UNCHANGED <<app, connectionState, sock, rest, toPeer, peerSide, asked, broken>>

\* The loop goes on after a control frame in the middle of a message.
Resume == call' = IF message.data = <<>> THEN "none" ELSE "receive"

\* receive() does not look at what came of its answer.
Answered(f) == Sent(f) \/ NotSent

\* Mutant: the whole payload is sent back.
ReceiveCloseWhole ==
    /\ ReadFrame /\ Incoming.op = "close" /\ ~TooBig(Incoming)
    /\ connectionState' = "disconnecting"
    /\ IF connectionState # "disconnecting"
          THEN Answered(Frame("close", TRUE, Incoming.data, ~Incoming.masked))
          ELSE UNCHANGED <<toPeer, broken>>
    /\ Resume
    /\ UNCHANGED <<app, sock, message, rest, peerSide, given, asked>>

\* The status code is the first two bytes of the payload: it is echoed.  (What
\* onReceived is handed of a control frame is left out: of a close frame that a
\* client has answered, the payload with its first two bytes masked.)
ReceiveClose ==
    /\ ReadFrame /\ Incoming.op = "close" /\ ~TooBig(Incoming)
    /\ connectionState' = "disconnecting"
    /\ IF connectionState # "disconnecting"
          THEN Answered(Frame("close", TRUE,
                              IF Len(Incoming.data) >= 2 THEN SubSeq(Incoming.data, 1, 2) ELSE <<>>,
                              ~Incoming.masked))
          ELSE UNCHANGED <<toPeer, broken>>
    /\ Resume
    /\ UNCHANGED <<app, sock, message, rest, peerSide, given, asked>>

ReceivePing ==
    /\ ReadFrame /\ Incoming.op = "ping" /\ ~TooBig(Incoming)
    /\ IF Incoming.masked THEN UNCHANGED <<toPeer, broken>>
                          ELSE Answered(Frame("pong", TRUE, <<>>, TRUE))
    /\ Resume
    /\ UNCHANGED <<app, connectionState, sock, message, rest, peerSide, given, asked>>

ReceivePong ==
    /\ ReadFrame /\ Incoming.op = "pong" /\ ~TooBig(Incoming)
    /\ Resume
    /\ UNCHANGED <<app, connectionState, sock, message, rest, toPeer, peerSide, given, asked, broken>>

\* Mutant: the frame is left where it is.
ReceiveReservedUnread ==
    /\ call = "receive" /\ toUs # <<>> /\ Head(toUs).whole /\ Incoming.op = "reserved"
    /\ call' = "none" /\ message' = NoMessage
    /\ UNCHANGED <<app, connectionState, sock, rest, toUs, toPeer, peerSide, given, asked, broken>>

\* A reserved opcode: receive() returns without dropping the connection.
ReceiveReserved ==
    /\ ReadFrame /\ Incoming.op = "reserved"
    /\ call' = "none" /\ message' = NoMessage
    /\ UNCHANGED <<app, connectionState, sock, rest, toPeer, peerSide, given, asked, broken>>

Receive ==
    \/ ReceiveNothing \/ ReceiveBroken \/ ReceiveError \/ ReceiveData
    \/ ReceiveClose \/ ReceivePing \/ ReceivePong \/ ReceiveReserved

---------------------------------------------------------------------------
(* The other end.  A server does not mask its frames, a client does.       *)

ours == <<app, connectionState, sock, call, message, rest, given, asked, broken>>

PeerFrame(op, fin, data) == Frame(op, fin, data, ~isClient)
Delivers(f, whole) == toUs' = IF sock = "closed" THEN toUs
                              ELSE Append(toUs, [f EXCEPT !.whole = whole])

FragmentsOf(m) ==
    [i \in DOMAIN m.frags |->
        PeerFrame(IF i = 1 THEN m.op ELSE "continuation", i = Len(m.frags), m.frags[i])]

PeerPosts ==
    /\ peer.there /\ peer.due = <<>> /\ peer.code = {} /\ Len(asked) + Len(posted) < MaxMessages
    /\ \E m \in PeerMessages :
          /\ posted' = Append(posted, [op |-> m.op, data |-> FlattenSeq(m.frags)])
          /\ peer' = [peer EXCEPT !.due = FragmentsOf(m)]
    /\ UNCHANGED <<ours, toUs, toPeer, eof, taken>>

\* The next fragment, or a part of it.
PeerSends ==
    /\ peer.there /\ peer.due # <<>> /\ peer.code = {} /\ Room
    /\ \E whole \in BOOLEAN : Delivers(Head(peer.due), whole)
    /\ peer' = [peer EXCEPT !.due = Tail(@)]
    /\ UNCHANGED <<ours, toPeer, eof, posted, taken>>

PeerCompletes ==
    /\ peer.there /\ ~Settled
    /\ toUs' = [toUs EXCEPT ![Len(toUs)].whole = TRUE]
    /\ UNCHANGED <<ours, toPeer, peerSide>>

PeerPings ==
    /\ peer.there /\ Room /\ peer.code = {} /\ peer.extras < MaxExtras
    /\ Delivers(PeerFrame("ping", TRUE, <<>>), TRUE)
    /\ peer' = [peer EXCEPT !.extras = @ + 1]
    /\ UNCHANGED <<ours, toPeer, eof, posted, taken>>

\* A reserved opcode, or a control frame without fin or with too long a payload.
PeerMisbehaves ==
    /\ peer.there /\ Room /\ peer.code = {} /\ peer.extras < MaxExtras
    /\ \E f \in {PeerFrame("reserved", TRUE, <<65>>), PeerFrame("ping", FALSE, <<>>),
                 PeerFrame("ping", TRUE, [i \in 1..(MaxControl + 1) |-> 65])} :
          Delivers(f, TRUE)
    /\ peer' = [peer EXCEPT !.extras = @ + 1]
    /\ UNCHANGED <<ours, toPeer, eof, posted, taken>>

PeerCloses ==
    /\ peer.there /\ Room /\ peer.code = {}
    /\ \E code \in CloseCodes :
          /\ Delivers(PeerFrame("close", TRUE, code), TRUE)
          /\ peer' = [peer EXCEPT !.code = {code}]
    /\ UNCHANGED <<ours, toPeer, eof, posted, taken>>

\* A message begins inside another, or a continuation outside of one: the peer
\* fails the connection.
PeerRefuses(f) == IF f.op \in Data THEN peer.part.data # <<>>
                                   ELSE f.op = "continuation" /\ peer.part.data = <<>>

PeerTakesRefused(f) ==
    /\ PeerRefuses(f)
    /\ peer' = [peer EXCEPT !.there = FALSE]
    /\ eof' = TRUE
    /\ UNCHANGED <<toUs, taken>>

\* A whole message when f ends one.
PeerTakesData(f) ==
    LET got == [op |-> IF f.op \in Data THEN f.op ELSE peer.part.op,
                data |-> peer.part.data \o Payload(f)]
    IN /\ f.op \in Data \cup {"continuation"} /\ ~PeerRefuses(f)
       /\ taken' = IF f.fin THEN Append(taken, got) ELSE taken
       /\ peer' = [peer EXCEPT !.part = IF f.fin THEN NoMessage ELSE got]
       /\ UNCHANGED <<toUs, eof>>

\* A close frame is answered unless it is the answer, and the connection closed.
PeerTakesClose(f) ==
    /\ f.op = "close"
    /\ peer' = [peer EXCEPT !.echo = {Payload(f)}, !.there = FALSE]
    /\ eof' = TRUE
    /\ IF peer.code = {} THEN Delivers(PeerFrame("close", TRUE, Payload(f)), TRUE)
                         ELSE UNCHANGED toUs
    /\ UNCHANGED taken

PeerTakesOther(f) ==
    /\ f.op \in {"ping", "pong"}
    /\ taken' = IF f.op = "ping" THEN Append(taken, [op |-> "ping", data |-> Payload(f)]) ELSE taken
    /\ IF f.op = "ping" /\ peer.code = {} THEN Delivers(PeerFrame("pong", TRUE, Payload(f)), TRUE)
                                          ELSE UNCHANGED toUs
    /\ UNCHANGED <<peer, eof>>

PeerTakes ==
    /\ peer.there /\ toPeer # <<>> /\ Settled
    /\ LET f == IF Head(toPeer).masked THEN ApplyMask(Head(toPeer)) ELSE Head(toPeer)
       IN PeerTakesRefused(f) \/ PeerTakesData(f) \/ PeerTakesClose(f) \/ PeerTakesOther(f)
    /\ toPeer' = Tail(toPeer)
    /\ UNCHANGED <<ours, posted>>

\* The peer takes what send() writes next for the rest of the frame it has a
\* part of, or for frames of any kind.  What it goes on to read is left out.
PeerMisreads ==
    /\ peer.there /\ toPeer = <<>> /\ broken /\ ~Misread
    /\ taken' = Append(taken, Garbled)
    /\ UNCHANGED <<ours, toUs, toPeer, eof, peer, posted>>

\* After the end of our stream the peer closes its own.
PeerLeaves ==
    /\ peer.there /\ toPeer = <<>> /\ sock # "open"
    /\ peer' = [peer EXCEPT !.there = FALSE]
    /\ eof' = TRUE
    /\ UNCHANGED <<ours, toUs, toPeer, posted, taken>>

\* The peer dies: what it sent arrives, or is lost with a reset.
PeerDies ==
    /\ peer.there
    /\ peer' = [peer EXCEPT !.there = FALSE]
    /\ eof' = TRUE
    /\ toUs' \in {toUs, <<>>}
    /\ toPeer' = <<>>
    /\ UNCHANGED <<ours, posted, taken>>

Peer ==
    \/ PeerPosts \/ PeerSends \/ PeerCompletes \/ PeerPings \/ PeerMisbehaves
    \/ PeerCloses \/ PeerTakes \/ PeerMisreads \/ PeerLeaves \/ PeerDies

WsNext ==
    \/ StartSend \/ SendFrame \/ SendFails \/ StartClose \/ FinishClose \/ SetBlocking
    \/ StartReceive \/ Receive
    \/ Peer

WsSpec == WsInit /\ [][WsNext]_wsVars

(* What the two ends may say: a message has a fragment at least, and a     *)
(* control message that the application sends fits in one frame (RFC 6455, *)
(* 5.5: at most 125 bytes, and send()'s chunkSize is 1024).  Pongs are     *)
(* receive()'s.                                                            *)
MessagesOK ==
    /\ PeerMessages \subseteq [op : Data, frags : Seq(Seq(Nat)) \ {<<>>}]
    /\ AppMessages \subseteq [op : Data \cup {"close", "ping"}, data : Seq(Nat)]
    /\ CloseCodes \subseteq Seq(Nat)
    /\ ChunkSize \in Nat \ {0}
    /\ \A m \in AppMessages : m.op \in Control => Len(m.data) <= ChunkSize
    /\ MaxControl \in Nat

---------------------------------------------------------------------------
(* onReceived is handed the messages the peer sent, whole, in order and    *)
(* without a gap, whatever the peer puts between two fragments, however a  *)
(* message is cut, and wherever receive() gives up a message half-way:     *)
(* receive()'s rules for fragments make up for the message it forgets.     *)
MessagesInOrder == IsPrefix(given, posted)

(* The peer assembles the messages passed to send(), whole, in order and   *)
(* without a gap, with the masks removed, whatever receive() writes in     *)
(* between, and nothing of a message whose send() has failed, at whatever  *)
(* frame it did: unless it failed inside a frame, which takes a socket     *)
(* that does not block.  What the peer reads behind that frame is none of  *)
(* the messages, and comes after a beginning of them.                      *)
SentInOrder ==
    \/ IsPrefix(taken, asked)
    \/ broken /\ Misread /\ IsPrefix(Front(taken), asked)

(* "In case of receiving a status code, we must echo it with the           *)
(* response": the code the peer reads in our close frame is the one it     *)
(* sent, whatever else was in its frame (ReceiveClose; write_frame masks   *)
(* the code in place), unless the application sent a close frame itself.   *)
(* (Behind a frame that is not all there the peer reads no frame of ours.) *)
CloseEchoed ==
    (peer.code # {} /\ \A i \in DOMAIN asked : asked[i].op # "close") =>
        \A e \in peer.echo : \E c \in peer.code :
            e = IF Len(c) < 2 THEN <<>> ELSE SubSeq(c, 1, 2)

(* A message the peer has begun to send is handed over, or the connection  *)
(* is closed, or the peer is gone, or has closed inside that message.      *)
MessagesArrive ==
    \A i \in 1..MaxMessages :
        Len(posted) >= i
            ~> \/ Len(given) >= i \/ sock # "open" \/ (~peer.there /\ toUs = <<>>)
               \/ Len(posted) = i /\ peer.code # {} /\ peer.due # <<>>
=============================================================================
