------------------------- MODULE HttpConversation --------------------------
(***************************************************************************)
(* One connection of stw::http_server (http_server.cpp), seen by its       *)
(* client: how requests are cut out of the bytes that arrive, how long the *)
(* connection persists, and what the client receives when the socket takes *)
(* a response piece by piece.                                              *)
(*                                                                         *)
(* Bytes are counted in units.  A unit of a request is <<k, part, i>>: the *)
(* i-th unit of the head or the body of the client's k-th request.  The    *)
(* connection stays up; what the server does when it breaks, and how a     *)
(* connection shares its worker with others, is HttpServer's subject.      *)
(***************************************************************************)
EXTENDS Naturals, Sequences, SequencesExt, FiniteSetsExt

CONSTANTS MaxRequests,    \* http_worker_context::maxRequests
          MaxHeaderSize,  \* http_config::maxHeaderSize, in units
          BufferSize,     \* the size of tempBuffer, in units
          HeadSize,       \* bound: units of a head, of requests and responses
          BodySizes,      \* bound: units of a request's body
          ContentSizes,   \* bound: units of a response's content
          NumRequests     \* bound: requests the client sends

ASSUME ConversationAssumption ==
    /\ MaxRequests \in Nat \ {0} /\ MaxHeaderSize \in Nat
    /\ BufferSize \in Nat \ {0} /\ HeadSize \in Nat \ {0}
    /\ BodySizes \subseteq Nat /\ ContentSizes \subseteq Nat /\ NumRequests \in Nat

\* What matters of the head of a request: its Connection header or, if there
\* is none, the version of HTTP; and Content-Length.
Requests == [wants : {"close", "keep-alive", "1.0", "1.1"}, length : BodySizes]

\* What matters of an http_response: its Connection header ("none": it has no
\* header at all, "other": it has others only), the length of its content and
\* the stream that content is read from.
Responses == [headers : {"none", "other", "close", "keep-alive"},
              length : ContentSizes, stream : {"memory", "file"}]

VARIABLES
    asked,      \* the client: the requests it has begun to send
    toSend,     \* the client: what is left of the last one
    wire,       \* bytes on their way to the server
    phase,      \* "read", "handle", "write", "closed" or "terminated"
    requestBuffer, requestCount, closeConnection, headerBytesSent,
    content,    \* response.content: its length, its read position, its stream
    initial,    \* http_stream's initialContent, not consumed yet
    bodyLeft,   \* Content-Length, less what the handler has read
    got,        \* bytes the client has received
    seen,       \* history: the requests parsed, with the body bytes read
    replies,    \* history: the responses made
    aligned     \* history: no byte of a request was left behind or skipped

clientVars == <<asked, toSend>>
inVars     == <<wire, requestBuffer, initial, bodyLeft, seen>>
outVars    == <<closeConnection, headerBytesSent, content, replies>>
vars == <<clientVars, inVars, outVars, phase, requestCount, got, aligned>>

NoContent == [length |-> 0, offset |-> 0, stream |-> "memory"]

HeadOf(k) == [i \in 1..HeadSize |-> <<k, "head", i>>]
BodyOf(k) == [i \in 1..asked[k].length |-> <<k, "body", i>>]

Init ==
    /\ asked = <<>> /\ toSend = <<>> /\ wire = <<>>
    /\ phase = "read" /\ requestBuffer = <<>> /\ requestCount = 0
    /\ closeConnection = FALSE /\ headerBytesSent = 0
    /\ content = NoContent
    /\ initial = <<>> /\ bodyLeft = 0
    /\ got = <<>> /\ seen = <<>> /\ replies = <<>> /\ aligned = TRUE
-----------------------------------------------------------------------------
(* The client *)

Connected == phase \notin {"closed", "terminated"}

\* It may begin the next request before the last one was answered.
Ask(r) ==
    /\ Connected /\ toSend = <<>> /\ Len(asked) < NumRequests
    /\ asked' = Append(asked, r)
    /\ toSend' = HeadOf(Len(asked'))
                    \o [i \in 1..r.length |-> <<Len(asked'), "body", i>>]
    /\ UNCHANGED <<inVars, outVars, phase, requestCount, got, aligned>>

\* Its bytes arrive in segments of any size.
Deliver(n) ==
    /\ Connected /\ n \in 1..Len(toSend)
    /\ wire' = wire \o SubSeq(toSend, 1, n)
    /\ toSend' = SubSeq(toSend, n + 1, Len(toSend))
    /\ UNCHANGED <<asked, requestBuffer, initial, bodyLeft, seen,
                   outVars, phase, requestCount, got, aligned>>
-----------------------------------------------------------------------------
(* send_response: 400, 431, 500 and 503 *)

SendResponse ==
    /\ content' = NoContent
    /\ closeConnection' = TRUE
    /\ replies' = Append(replies, [announces |-> "close", length |-> 0,
                                   headers |-> "error"])
    /\ phase' = "write"
    /\ UNCHANGED headerBytesSent
-----------------------------------------------------------------------------
(* on_read *)

Received == SubSeq(wire, 1, Min({BufferSize, Len(wire)}))
NextBuffer == requestBuffer \o Received

\* The positions where the blank line after a head ends.
HeadEnds == {i \in DOMAIN NextBuffer :
                NextBuffer[i][2] = "head" /\ NextBuffer[i][3] = HeadSize}

Read == /\ phase = "read" /\ wire # <<>>
        /\ wire' = SubSeq(wire, Len(Received) + 1, Len(wire))

\* Mutant: the request is dropped, and no response made.
ReadTooMuchIgnored ==
    /\ Read /\ Len(NextBuffer) > MaxHeaderSize
    /\ UNCHANGED <<clientVars, requestBuffer, initial, bodyLeft, seen, outVars,
                   phase, requestCount, got, aligned>>

\* The buffer would exceed maxHeaderSize: 431, and the bytes are not kept.
ReadTooMuch ==
    /\ Read /\ Len(NextBuffer) > MaxHeaderSize
    /\ SendResponse
    /\ UNCHANGED <<clientVars, requestBuffer, initial, bodyLeft, seen,
                   requestCount, got, aligned>>

ReadPart ==
    /\ Read /\ Len(NextBuffer) <= MaxHeaderSize /\ HeadEnds = {}
    /\ requestBuffer' = NextBuffer
    /\ UNCHANGED <<clientVars, initial, bodyLeft, seen, outVars, phase,
                   requestCount, got, aligned>>

\* The head is what the buffer holds up to the first blank line.  If that is
\* not exactly the head of a request, it may or may not parse.
Exact == \E k \in DOMAIN asked : SubSeq(NextBuffer, 1, Min(HeadEnds)) = HeadOf(k)

ReadHead ==
    /\ Read /\ Len(NextBuffer) <= MaxHeaderSize /\ HeadEnds # {}
    /\ requestBuffer' = NextBuffer
    /\ \/ LET k == NextBuffer[Min(HeadEnds)][1] IN
             /\ seen' = Append(seen, [msg |-> k, exact |-> Exact, body |-> <<>>])
             /\ bodyLeft' = asked[k].length
             /\ initial' = SubSeq(NextBuffer, Min(HeadEnds) + 1, Len(NextBuffer))
             /\ phase' = "handle"
             /\ UNCHANGED outVars
       \/ /\ ~Exact
          /\ SendResponse
          /\ UNCHANGED <<seen, bodyLeft, initial>>
    /\ UNCHANGED <<clientVars, requestCount, got, aligned>>
-----------------------------------------------------------------------------
(* The handler, which reads the body through its http_stream *)

\* http_stream::read: what came with the head first, then the socket.
HandlerRead(n) ==
    /\ phase = "handle"
    /\ LET source == IF initial # <<>> THEN initial ELSE wire
           rest == SubSeq(source, n + 1, Len(source))
       IN
          /\ n \in 1..Min({bodyLeft, Len(source)})
          /\ seen' = [seen EXCEPT ![Len(seen)].body = @ \o SubSeq(source, 1, n)]
          /\ \/ initial # <<>> /\ initial' = rest /\ UNCHANGED wire
             \/ initial = <<>> /\ wire' = rest /\ UNCHANGED initial
    /\ bodyLeft' = bodyLeft - n
    /\ UNCHANGED <<clientVars, requestBuffer, outVars, phase, requestCount,
                   got, aligned>>

\* It returns, perhaps without having read all of the body; the http_stream
\* is destroyed with whatever initialContent is left.
HandlerReturns ==
    /\ phase = "handle"
    /\ initial' = <<>> /\ bodyLeft' = 0
    /\ aligned' = (aligned /\ bodyLeft = 0 /\ initial = <<>>)
    /\ UNCHANGED <<clientVars, wire, requestBuffer, seen, requestCount, got>>

\* The handler throws (500), or there is no thread for it (503).
HandlerFails == HandlerReturns /\ SendResponse

\* The Connection header the head of the response will have.
HasConnection(response) == response.headers \in {"close", "keep-alive"}

\* `mustClose` in process_request.
MustClose(wants) == wants = "1.0"

\* Mutant: the exception for HTTP/1.0 is missing.
KeepAliveForAll(wants, response) ==
    /\ HasConnection(response) \/ wants \notin {"close", "1.0"}
    /\ requestCount # MaxRequests

KeepAlive(wants, response) ==
    /\ IF HasConnection(response) THEN ~MustClose(wants)
                                  ELSE wants \notin {"close", "1.0"}
    /\ requestCount # MaxRequests

Announces(wants, response) ==
    CASE response.headers = "none" ->
            IF KeepAlive(wants, response) THEN "keep-alive" ELSE "close"
      [] response.headers = "other" -> "nothing"
      [] HasConnection(response) ->
            IF MustClose(wants) THEN "close" ELSE "keep-alive"

\* process_request, from the handler's return to the end.
Respond(response) ==
    /\ HandlerReturns
    /\ LET wants == asked[Last(seen).msg].wants IN
          /\ closeConnection' = ~KeepAlive(wants, response)
          /\ replies' = Append(replies, [announces |-> Announces(wants, response),
                                         length |-> response.length,
                                         headers |-> response.headers])
    /\ content' = [length |-> response.length, offset |-> 0,
                   stream |-> response.stream]
    /\ phase' = "write"
    /\ UNCHANGED headerBytesSent
-----------------------------------------------------------------------------
(* on_write *)

Units(part, first, last) ==
    [i \in 1..(last + 1 - first) |-> <<Len(replies), part, first + i - 1>>]

\* The socket takes some of what is left of the head; EAGAIN changes nothing.
WriteHeader(n) ==
    /\ phase = "write" /\ n \in 1..(HeadSize - headerBytesSent)
    /\ got' = got \o Units("head", headerBytesSent + 1, headerBytesSent + n)
    /\ headerBytesSent' = headerBytesSent + n
    /\ UNCHANGED <<clientVars, inVars, closeConnection, content, replies, phase,
                   requestCount, aligned>>

Chunk == Min({BufferSize, content.length - content.offset})

\* file_stream::seek throws when the last read met the end of the file (it has
\* set failbit, which seekg does not clear); memory_stream::seek never does.
SeekThrows == content.stream = "file" /\ Chunk < BufferSize

\* Mutant: after a partial write the content is not rewound.
WriteContentNoSeek(n) ==
    /\ phase = "write" /\ headerBytesSent = HeadSize
    /\ Chunk > 0 /\ n \in 0..Chunk
    /\ content' = [content EXCEPT !.offset = @ + Chunk]
    /\ got' = got \o Units("content", content.offset + 1, content.offset + n)
    /\ UNCHANGED <<clientVars, inVars, closeConnection, headerBytesSent, replies,
                   phase, requestCount, aligned>>

\* A chunk is read from the content and the socket takes n units of it; if
\* that is not all, the content is rewound to where the socket stopped.  When
\* the stream refuses that, nobody catches what it throws, and the program
\* ends: what the position is then is read by nobody.
WriteContent(n) ==
    /\ phase = "write" /\ headerBytesSent = HeadSize
    /\ Chunk > 0 /\ n \in 0..Chunk
    /\ content' = [content EXCEPT !.offset = @ + n]
    /\ phase' = IF n < Chunk /\ SeekThrows THEN "terminated" ELSE "write"
    /\ got' = got \o Units("content", content.offset + 1, content.offset + n)
    /\ UNCHANGED <<clientVars, inVars, closeConnection, headerBytesSent, replies,
                   requestCount, aligned>>

\* Mutant: the head of the request stays in the buffer.
FinishKeepsHead ==
    /\ phase = "write" /\ headerBytesSent = HeadSize
    /\ content.offset = content.length
    /\ requestCount' = requestCount + 1
    /\ \/ /\ closeConnection \/ requestCount' >= MaxRequests
          /\ phase' = "closed" /\ closeConnection' = TRUE
          /\ UNCHANGED <<headerBytesSent, content>>
       \/ /\ ~closeConnection /\ requestCount' < MaxRequests
          /\ phase' = "read" /\ headerBytesSent' = 0
          /\ content' = NoContent
          /\ UNCHANGED closeConnection
    /\ UNCHANGED <<clientVars, inVars, replies, got, aligned>>

\* request_finished.
Finish ==
    /\ phase = "write" /\ headerBytesSent = HeadSize
    /\ content.offset = content.length
    /\ requestCount' = requestCount + 1
    /\ \/ /\ closeConnection \/ requestCount' >= MaxRequests
          /\ phase' = "closed" /\ closeConnection' = TRUE
          /\ UNCHANGED <<requestBuffer, headerBytesSent, content>>
       \/ /\ ~closeConnection /\ requestCount' < MaxRequests
          /\ phase' = "read"
          /\ requestBuffer' = <<>> /\ headerBytesSent' = 0
          /\ content' = NoContent
          /\ UNCHANGED closeConnection
    /\ UNCHANGED <<clientVars, wire, initial, bodyLeft, seen, replies, got, aligned>>
-----------------------------------------------------------------------------
Client == (\E r \in Requests : Ask(r)) \/ (\E n \in 1..Len(toSend) : Deliver(n))

OnRead == ReadTooMuch \/ ReadPart \/ ReadHead

Handler == \/ \E n \in 1..bodyLeft : HandlerRead(n)
           \/ HandlerFails
           \/ \E response \in Responses : Respond(response)

OnWrite == \/ \E n \in 1..HeadSize : WriteHeader(n)
           \/ \E n \in 0..BufferSize : WriteContent(n)
           \/ Finish

Next == Client \/ OnRead \/ Handler \/ OnWrite

Spec == Init /\ [][Next]_vars

\* A client that has begun a request goes on with it, and reads what it is
\* sent; events are dispatched; a handler returns.
FairSpec == /\ Spec
            /\ WF_vars(\E n \in 1..Len(toSend) : Deliver(n))
            /\ WF_vars(OnRead) /\ WF_vars(Handler) /\ WF_vars(OnWrite)
-----------------------------------------------------------------------------
(* Properties *)

\* The bytes of all the responses made so far.
Promised ==
    FlattenSeq([j \in DOMAIN replies |->
                  [i \in 1..HeadSize |-> <<j, "head", i>>]
                     \o [i \in 1..replies[j].length |-> <<j, "content", i>>]])

\* Whatever the socket takes at a time, the client receives the responses
\* whole and in order: no byte is lost, repeated or swapped, and a response
\* begins only when the one before it is complete.  What remains undone when
\* the program ends is less than a buffer of the end of a file.
ResponsesIntact ==
    /\ IsPrefix(got, Promised)
    /\ phase \in {"read", "handle", "closed"} => got = Promised
    /\ phase = "terminated" =>
          /\ content.stream = "file"
          /\ Len(Promised) - Len(got) \in 1..(BufferSize - 1)

\* What a partial write leaves over is sent when the socket takes more: the
\* content is rewound to the byte where the socket stopped.
ResumesWhereStopped ==
    phase \notin {"read", "handle", "write"} => got = Promised

\* As long as handlers read their bodies to the end and nothing arrives behind
\* a body, every request the handler sees is the client's next one, whole and
\* with its own body, however the bytes were cut into segments.
Framed ==
    aligned => \A j \in DOMAIN seen :
                  /\ seen[j].msg = j /\ seen[j].exact
                  /\ IsPrefix(seen[j].body, BodyOf(j))

\* The connection persists as long as the client was told it would: it is
\* closed after a response only if that response said so, if the client asked
\* for it (or speaks HTTP/1.0), or after maxRequests of them; and no response
\* follows one that announced the end, or the last one allowed.
PersistenceHonoured ==
    /\ phase = "closed" =>
          \/ Last(replies).announces = "close"
          \/ asked[Last(seen).msg].wants \in {"close", "1.0"}
          \/ Len(replies) = MaxRequests
    /\ \A j \in 1..(Len(replies) - 1) : replies[j].announces # "close"
    /\ phase # "closed" => requestCount < MaxRequests

\* Every request is answered or the connection is closed -- unless bytes of
\* a request were left behind, or the program has ended.
EveryRequestAnswered ==
    \A k \in 1..NumRequests :
       (Len(asked) >= k /\ Connected)
          ~> (~Connected \/ ~aligned \/ requestCount >= k)
=============================================================================
