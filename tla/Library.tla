------------------------------ MODULE Library ------------------------------
(***************************************************************************)
(* The parts of the library that the server does not drive, side by side:  *)
(* a behaviour is one of web sockets' message layer (WebSocket), of a      *)
(* poller (Poller), of the file cache (FileCache) or of the owners of      *)
(* descriptors (Sockets), or a single state with one input of the pure     *)
(* functions (Strings, Documents).  The parts share no state, so that one  *)
(* run checks them all; part says which one moves.                         *)
(***************************************************************************)
EXTENDS Integers, Sequences, Poller, FileCache, Sockets

CONSTANTS
    PeerMessages, AppMessages, CloseCodes, ChunkSize,
    MaxControl, MaxMessages, MaxExtras, MaxInFlight, MaxUnread,         \* WebSocket
    IncludePaths, CppInclude, RequiredIncludes,             \* Documents
    Entities, Ports, Defaults, NumberFields,                \* what the functions are given
    TemplateTokens, Files, MaxPasses,                       \* templates, and how files nest
    Texts                                                   \* their inputs: [of, ...]

VARIABLES
    part, text,
    isClient, connectionState, sock, isBlocking, call, message, rest,
    toUs, toPeer, eof, peer, posted, given, asked, taken, broken

\* The web socket and the functions of Strings it is built on, with their
\* theorems, and the functions of Documents.
W == INSTANCE WebSocketProofs
D == INSTANCE Documents

ASSUME HandlesAssumption == Handles \subseteq Nat
ASSUME MessagesAssumption == W!MessagesOK
\* The inputs the pure functions are for: characters are bytes, a decoded
\* address has no null character, a numeric entity stands for a 32-bit number,
\* and no part of a URI has the delimiters of those that follow it.
UrlInput(t) ==
    /\ t.chars \in Seq(1..255) /\ t.forms \in Seq(Seq(W!Chars)) /\ Len(t.forms) = Len(t.chars)
    /\ \A k \in 1..Len(t.chars) : t.forms[k] \in W!UrlForms(t.chars[k])
HtmlInput(t) == t.code \in Nat /\ W!FitsIn32Bits(t.code)
SplitInput(t) == t.str \in Seq(W!Chars) /\ t.maxParts \in Nat
UriInput(t) ==
    /\ t.scheme \in DOMAIN Ports
    /\ t.scheme \in Seq(W!Chars) /\ t.host \in Seq(W!Chars)
    /\ t.path \in Seq(W!Chars) /\ t.query \in Seq(W!Chars)
    /\ Len(t.scheme) >= 1 /\ Len(t.host) >= 1 /\ Len(t.path) >= 1
    /\ \A k \in 1..Len(t.scheme) : t.scheme[k] \notin {58, 47, 63, 35}
    /\ \A k \in 1..Len(t.host) : t.host[k] \notin {58, 47, 63, 35}
    /\ \A p \in t.port : p \in Nat /\ W!FitsIn16Bits(p) /\ t.port = {p}
    /\ t.path[1] = 47 /\ \A k \in 1..Len(t.path) : t.path[k] \notin {63, 35}
    /\ Len(t.query) >= 1 => t.query[1] \in {63, 35}

\* A number as it may be written: blanks, a sign, digits, and something behind
\* them; without digits, something that does not begin as a number does.
NumberText(num) ==
    num.blanks \o (num.sign \o ((IF num.value = {} THEN <<>>
                                ELSE W!Decimal(CHOOSE n \in num.value : TRUE)) \o num.tail))
NumberInput(num) ==
    /\ num.blanks \in Seq(W!Chars) /\ \A k \in 1..Len(num.blanks) : num.blanks[k] \in W!Blank
    /\ num.sign \in {<<>>, <<43>>, <<45>>}
    /\ \A n \in num.value : n \in Nat /\ num.value = {n}
    /\ num.tail \in Seq(W!Chars) /\ (Len(num.tail) >= 1 => num.tail[1] \notin 48..57)
    /\ num.value = {} /\ num.sign = <<>> =>
           Len(num.tail) >= 1 /\ num.tail[1] \notin W!Blank \cup {43, 45}

\* A configuration has values for some of the fields; the file has a line for
\* each, and others that say nothing of any field.
ConfigInput(t) ==
    /\ DOMAIN t.config \subseteq DOMAIN Defaults /\ DOMAIN t.config # {}
    /\ t.config \in [DOMAIN t.config -> Seq(W!Chars)]
    /\ \A i \in DOMAIN NumberFields : NumberFields[i].key \in DOMAIN t.config =>
          LET num == t.numbers[NumberFields[i].key]
          IN NumberInput(num) /\ t.config[NumberFields[i].key] = NumberText(num)
    /\ t.lines \in Seq(Seq(W!Chars)) /\ t.says \in Seq(Seq(W!Chars)) /\ Len(t.says) = Len(t.lines)
    /\ \A i \in 1..Len(t.lines) : D!Says(t.lines[i], t.says[i])
    /\ \A k \in DOMAIN t.config : \E i \in 1..Len(t.lines) :
          /\ t.says[i] = k \o <<32>> \o t.config[k]
          /\ \A j \in 1..Len(t.lines) : j # i => ~D!starts_with(t.says[j], k \o <<32>>)
    /\ \A k \in DOMAIN Defaults \ DOMAIN t.config : \A j \in 1..Len(t.lines) :
          ~D!starts_with(t.says[j], k \o <<32>>)

TemplateInput(t) == t.doc \in Seq(TemplateTokens)

ASSUME EntitiesAssumption == W!EntitiesOK(Entities)
\* A number is one field of 16 or of 32 bits, and no name of a field has a
\* space in it.
ASSUME ConfigAssumption ==
    /\ NumberFields \in Seq([key : DOMAIN Defaults, bits : {16, 32}])
    /\ \A i, j \in 1..Len(NumberFields) : NumberFields[i].key = NumberFields[j].key => i = j
    /\ \A k \in DOMAIN Defaults : k \in Seq(W!Chars) /\ \A i \in 1..Len(k) : k[i] # 32
\* Each file that is included is there, and none includes itself, directly or
\* through others: so many passes replace the tag of each, and all tags in it.
ASSUME FilesAssumption ==
    /\ MaxPasses \in Nat
    /\ Files \in [DOMAIN Files -> Seq(TemplateTokens)] /\ IncludePaths \subseteq DOMAIN Files
    /\ \E passes \in [IncludePaths -> 1..MaxPasses] :
          \A f \in IncludePaths : \A i \in 1..Len(Files[f]) :
              Files[f][i] \in IncludePaths =>
                  1 + Len(Files[f]) * passes[Files[f][i]] <= passes[f]
ASSUME TextsAssumption ==
    \A t \in Texts :
        /\ t.of = "routes" => t.routes \in Seq({t.routes[i] : i \in DOMAIN t.routes})
        /\ t.of = "utf8" => t.bytes \in Seq(W!Chars)
        /\ t.of = "url" => UrlInput(t)
        /\ t.of = "html" => HtmlInput(t)
        /\ t.of = "split" => SplitInput(t)
        /\ t.of = "uri" => UriInput(t)
        /\ t.of = "config" => ConfigInput(t)
        /\ t.of = "template" => TemplateInput(t)

wsVars == <<isClient, connectionState, sock, isBlocking, call, message, rest,
            toUs, toPeer, eof, peer, posted, given, asked, taken, broken>>
vars == <<part, text, wsVars, pollVars, cacheVars, sockVars>>

NoText == [of |-> "none"]

\* The parts that do not move start in one state.
Init ==
    /\ part \in {"websocket", "poller", "filecache", "sockets", "text"}
    /\ IF part = "text" THEN text \in Texts ELSE text = NoText
    /\ W!WsInit /\ (part # "websocket" => isClient = TRUE)
    /\ PollInit /\ (part # "poller" => kind = "epoll")
    /\ CacheInit
    /\ SockInit

WebSocketStep(A) == part = "websocket" /\ A /\ UNCHANGED <<part, text, pollVars, cacheVars, sockVars>>
PollerStep(A) == part = "poller" /\ A /\ UNCHANGED <<part, text, wsVars, cacheVars, sockVars>>

Next ==
    \/ WebSocketStep(W!WsNext)
    \/ PollerStep(PollNext)
    \/ part = "filecache" /\ CacheNext /\ UNCHANGED <<part, text, wsVars, pollVars, sockVars>>
    \/ part = "sockets" /\ SockNext /\ UNCHANGED <<part, text, wsVars, pollVars, cacheVars>>

\* The application goes on calling receive(), and every call runs; the peer
\* sends what it has begun, reads, and closes after the end of our stream.
\* A worker waits again and again, and whoever changes a registration goes
\* on to notify().
Fairness ==
    /\ SF_vars(WebSocketStep(W!StartReceive))
    /\ WF_vars(WebSocketStep(W!Receive))
    /\ WF_vars(WebSocketStep(W!SendFrame))
    /\ WF_vars(WebSocketStep(W!FinishClose))
    /\ WF_vars(WebSocketStep(W!PeerSends))
    /\ WF_vars(WebSocketStep(W!PeerCompletes))
    /\ WF_vars(WebSocketStep(W!PeerTakes))
    /\ WF_vars(PollerStep(StartWait))
    /\ WF_vars(PollerStep(Wake))
    /\ WF_vars(PollerStep(Drain))
    /\ WF_vars(PollerStep(notify))

Spec == Init /\ [][Next]_vars /\ Fairness

---------------------------------------------------------------------------
(* WebSocket: received messages arrive whole and in order.                 *)
MessagesInOrder == W!MessagesInOrder

(* WebSocket: sent messages arrive whole, in order and unmasked, and none  *)
(* whose send has failed, unless it failed inside a frame.                 *)
SentInOrder == W!SentInOrder

(* WebSocket: a status code is echoed as it was received.                  *)
CloseEchoed == W!CloseEchoed

(* WebSocket: what the peer has sent is handed over, or the connection     *)
(* is over.                                                                *)
MessagesArrive == W!MessagesArrive

---------------------------------------------------------------------------
(* The pure functions.                                                     *)

Input(of) == part = "text" /\ text.of = of

\* Decoding undoes encoding, whichever way a client has encoded each character.
UrlDecoded == W!url_decode(W!FlattenSeq(text.forms)) = text.chars

\* A numeric entity stands for the UTF-8 of its code, a named one for its
\* value, also after an ampersand that begins none.
HtmlDecoded ==
    LET written(entity) == <<38, 32, 38>> \o entity \o <<59, 59>>
        read(value) == <<38, 32>> \o value \o <<59>>
        decodes(entity, value) == W!html_decode(written(entity), Entities) = read(value)
    IN /\ decodes(<<35>> \o W!Decimal(text.code), W!Utf8(text.code))
       /\ decodes(<<35, 120>> \o W!Hexadecimal(text.code), W!Utf8(text.code))
       /\ W!Utf8Shaped(W!Utf8(text.code)) /\ W!IsValidUtf8(W!Utf8(text.code))
       /\ \A name \in DOMAIN Entities : decodes(name, Entities[name])

\* split() loses nothing, respects its limit, and agrees with replace() and
\* with the functions that look for a text in another.
Splits ==
    LET parts == W!split(text.str, 44, text.maxParts)
    IN /\ W!JoinedWith(parts, <<44>>) = text.str
       /\ text.maxParts > 1 => Len(parts) <= text.maxParts
       /\ text.maxParts = 0 =>
              /\ \A i \in DOMAIN parts : ~W!contains(parts[i], <<44>>)
              /\ W!JoinedWith(parts, <<44, 44>>) = W!replace(text.str, <<44>>, <<44, 44>>)
       /\ W!compare(text.str, W!to_upper(text.str), TRUE)
       /\ W!starts_with(text.str, Head(parts)) /\ W!ends_with(text.str, W!Last(parts))
       /\ W!index_of(text.str, <<44>>) = IF Len(parts) = 1 THEN -1 ELSE Len(Head(parts))

\* A URI comes apart into the scheme, host, port and path it was made of,
\* without its query; a port that is not written is the scheme's.
UriTakenApart ==
    LET port == IF text.port = {} THEN <<>>
                ELSE <<58>> \o W!Decimal(CHOOSE p \in text.port : TRUE)
        uri == text.scheme \o <<58, 47, 47>> \o text.host \o port \o text.path \o text.query
    IN /\ W!uri_get_scheme(uri) = {text.scheme}
       /\ W!uri_get_host(uri) = {text.host \o port}
       /\ W!uri_get_path(uri) = {text.path}
       /\ W!Resolved(uri, Ports) =
              {<<text.host, p>> : p \in IF text.port = {} THEN {Ports[text.scheme]} ELSE text.port}

(* The string functions invert, bound or agree with one another            *)
(* (system/string.cpp, and the URI functions uri_get_* and resolve of      *)
(* net/web_socket.cpp and net/socket.cpp): the decoders undo every         *)
(* encoding, split cuts as it says, a URI comes apart as it was made.      *)
StringsAgree ==
    /\ Input("url") => UrlDecoded
    /\ Input("html") => HtmlDecoded
    /\ Input("split") => Splits
    /\ Input("uri") => UriTakenApart

(* is_valid_utf8 refuses nothing that is UTF-8 as RFC 3629 defines it; what *)
(* it accepts is the data in which every character is as long as its       *)
(* leading byte says (system/string.cpp): overlong forms, surrogates and   *)
(* code points above 0x10FFFF are among it.                                *)
Utf8Validated ==
    Input("utf8") =>
        /\ W!Utf8WellFormed(text.bytes) => W!IsValidUtf8(text.bytes)
        /\ W!IsValidUtf8(text.bytes) <=> W!Utf8Shaped(text.bytes)

(* Each token of a template reaches the generated file in the language it  *)
(* is written in, once, in order, with the included files in place, and    *)
(* the C++ directives move to the top (create_template and what it calls), *)
(* when every block of C++ is closed.                                      *)
TemplatesAgree ==
    Input("template") =>
        LET doc == D!Inlined(text.doc, Files, MaxPasses)
            language == D!Languages(doc)
            directive == <<"cpp", CppInclude>>
            passes == Len(text.doc) * MaxPasses
            view == CHOOSE v \in D!create_template(text.doc, Files, passes) : TRUE
        IN language.kind = "html" =>
              /\ D!Emitted(view.body) = D!Without(language.out, directive)
              /\ view.includes = RequiredIncludes \cup
                     {CppInclude : i \in {j \in DOMAIN language.out : language.out[j] = directive}}

\* Whether a number is one, and what a field of so many bits is to hold then
\* and otherwise: a negative number counts from the end, and the nearest there
\* is stands for one that is too large or is none.
IsNumber(num, bits) == num.tail = <<>> /\ \E n \in num.value : W!FitsIn(n, bits)
Meant(num, bits) ==
    LET n == CHOOSE m \in num.value : TRUE
    IN CASE num.value = {} -> 0
         [] num.value # {} /\ ~W!FitsIn(n, bits) -> W!Largest(bits)
         [] num.value # {} /\ W!FitsIn(n, bits) /\ num.sign = <<45>> /\ n > 0 ->
                (W!Largest(bits) - n) + 1
         [] OTHER -> n

(* A configuration that is written one field to a line, in any order and   *)
(* with comments, blanks and other lines between, is read back as it was   *)
(* (http_config::load_from_file): the strings in any case, and the numbers *)
(* up to and with the first that is none or is missing, which is reported; *)
(* those behind it keep what they had.                                     *)
ConfigLoads ==
    Input("config") =>
        LET loaded == D!load_from_file(text.lines, Defaults, NumberFields)
            key(i) == NumberFields[i].key
            written(k) == k \in DOMAIN text.config
            good(i) == written(key(i)) /\ IsNumber(text.numbers[key(i)], NumberFields[i].bits)
            reached(i) == \A j \in 1..(i - 1) : good(j)
        IN /\ loaded.ok = \A i \in DOMAIN NumberFields : good(i)
           /\ \A k \in DOMAIN Defaults :
                 (\A i \in DOMAIN NumberFields : key(i) # k) =>
                     loaded.config[k] = IF written(k) THEN text.config[k] ELSE <<>>
           /\ \A i \in DOMAIN NumberFields :
                 loaded.config[key(i)] =
                     IF reached(i) /\ written(key(i))
                        THEN Meant(text.numbers[key(i)], NumberFields[i].bits)
                        ELSE Defaults[key(i)]

(* The routes are asked in the order in which they were added, and the     *)
(* first that matches the path answers for all the others, also when its   *)
(* method is not the request's (http_router::process_request): a route     *)
(* that is added later changes no answer but "not routed".                 *)
FirstRouteDecides ==
    Input("routes") =>
        \A n \in 0..Len(text.routes) :
            LET answer(routes) == D!process_request(routes, text.path, text.method)
                first == answer(SubSeq(text.routes, 1, n))
                others == answer(SubSeq(text.routes, n + 1, Len(text.routes)))
            IN answer(text.routes) = IF first # "not routed" THEN first ELSE others
=============================================================================
