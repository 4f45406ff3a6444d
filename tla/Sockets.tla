------------------------------ MODULE Sockets ------------------------------
(***************************************************************************)
(* Who owns which descriptor: stw::socket (net/socket.cpp) and the         *)
(* operations of stw::web_socket (net/web_socket.cpp) that open and close  *)
(* its socket, connect() and accept() with their handshakes among them.    *)
(* A web_socket has a socket for a member, and is never moved.  Each call  *)
(* is one step: an object is used by one thread.                           *)
(***************************************************************************)
EXTENDS Integers, Sequences, SequencesExt, FiniteSetsExt

CONSTANTS
    PlainSockets, WebSockets,   \* objects of the two classes
    Handles,                    \* the descriptors of the process
    MaxClients                  \* bound: connections of others a listener is offered

VARIABLES
    alive,              \* the objects that are constructed
    fd,                 \* the descriptor each object holds, or INVALID_SOCKET_HANDLE
    kernel,             \* each descriptor: "free", "new", "listening", "stream"
    webState,           \* of web sockets: "disconnected", "connected"
    clients,            \* connections of others a listener has been offered
    overwritten,        \* descriptors whose object was assigned another
    handshake           \* the last one: what the other end offered, and the result

sockVars == <<alive, fd, kernel, webState, clients, overwritten, handshake>>

Objects == PlainSockets \cup WebSockets
INVALID_SOCKET_HANDLE == -1

SockInit ==
    /\ alive = {}
    /\ fd = [o \in Objects |-> INVALID_SOCKET_HANDLE]
    /\ kernel = [h \in Handles |-> "free"]
    /\ webState = [o \in WebSockets |-> "disconnected"]
    /\ clients = 0
    /\ overwritten = {}
    /\ handshake = [offered |-> FALSE, result |-> FALSE]

Free == {h \in Handles : kernel[h] = "free"}
Open(o) == fd[o] # INVALID_SOCKET_HANDLE

\* ::socket and ::accept: a free descriptor, or none.
Opens(o, kind) ==
    IF Free = {} THEN UNCHANGED <<fd, kernel>>
    ELSE \E h \in Free : fd' = [fd EXCEPT ![o] = h] /\ kernel' = [kernel EXCEPT ![h] = kind]

\* socket::close: the descriptor is drained, closed, and forgotten.
Closes(o) ==
    /\ kernel' = IF Open(o) THEN [kernel EXCEPT ![fd[o]] = "free"] ELSE kernel
    /\ fd' = [fd EXCEPT ![o] = INVALID_SOCKET_HANDLE]
    /\ webState' = [w \in WebSockets |-> IF w = o THEN "disconnected" ELSE webState[w]]

---------------------------------------------------------------------------
(* stw::socket.                                                            *)

\* socket(), and socket(protocolType, ip, port), which opens a descriptor.
Construct(o) ==
    /\ o \notin alive
    /\ alive' = alive \cup {o}
    /\ \/ UNCHANGED <<fd, kernel>>
       \/ o \in PlainSockets /\ Free # {} /\ Opens(o, "new")
    /\ UNCHANGED <<webState, clients, overwritten, handshake>>

\* Mutant: both objects hold the descriptor.
TakenByBoth(o, from) == fd' = [fd EXCEPT ![o] = fd[from]]

Taken(o, from) == fd' = [fd EXCEPT ![o] = fd[from], ![from] = INVALID_SOCKET_HANDLE]

MoveConstruct(o, from) ==
    /\ o \notin alive /\ from \in alive
    /\ alive' = alive \cup {o}
    /\ Taken(o, from)
    /\ UNCHANGED <<kernel, webState, clients, overwritten, handshake>>

\* The descriptor that was there is not closed.
MoveAssign(o, from) ==
    /\ {o, from} \subseteq alive /\ o # from
    /\ Taken(o, from)
    /\ overwritten' = overwritten \cup ({fd[o]} \cap Handles)
    /\ UNCHANGED <<alive, kernel, webState, clients, handshake>>

Destroy(o) ==
    /\ o \in alive
    /\ alive' = alive \ {o}
    /\ Closes(o)
    /\ UNCHANGED <<clients, overwritten, handshake>>

close(o) ==
    /\ o \in alive /\ Open(o)
    /\ Closes(o)
    /\ UNCHANGED <<alive, clients, overwritten, handshake>>

\* connect() opens a descriptor unless its first line returns: a descriptor
\* is never less than INVALID_SOCKET_HANDLE.  A connection that is refused is closed.
SocketConnects(o, reachable) ==
    fd[o] < INVALID_SOCKET_HANDLE /\ Free # {} /\ reachable

connect(o) ==
    /\ o \in alive
    /\ \E reachable \in BOOLEAN :
          IF SocketConnects(o, reachable) THEN Opens(o, "stream") ELSE UNCHANGED <<fd, kernel>>
    /\ UNCHANGED <<alive, webState, clients, overwritten, handshake>>

\* A descriptor stays with the object whether or not it can be bound.
bind(o) ==
    /\ o \in alive /\ ~Open(o)
    /\ Opens(o, "new")
    /\ UNCHANGED <<alive, webState, clients, overwritten, handshake>>

\* web_socket::listen marks the listener connected.
listen(o) ==
    /\ o \in alive /\ Open(o) /\ kernel[fd[o]] = "new"
    /\ kernel' = [kernel EXCEPT ![fd[o]] = "listening"]
    /\ webState' = [w \in WebSockets |-> IF w = o THEN "connected" ELSE webState[w]]
    /\ UNCHANGED <<alive, fd, clients, overwritten, handshake>>

Accepts(o, target) ==
    /\ {o, target} \subseteq alive
    /\ Open(o) /\ ~Open(target) /\ kernel[fd[o]] = "listening"
    /\ clients < MaxClients /\ Free # {}
    /\ clients' = clients + 1

accept(o, target) ==
    /\ Accepts(o, target)
    /\ Opens(target, "stream")
    /\ UNCHANGED <<alive, webState, overwritten, handshake>>

---------------------------------------------------------------------------
(* The handshake.  A header is a sequence of fields; the names are in      *)
(* lower case as parse_*_header turns them, and the last field of a name   *)
(* counts.  accept stands for the encoded hash of the key and the GUID.    *)

Field(name, value) == [name |-> name, value |-> value]
Parsed(fields) ==
    LET names == {fields[i].name : i \in DOMAIN fields}
    IN [n \in names |-> fields[Max({i \in DOMAIN fields : fields[i].name = n})].value]

generate_accept_key(key) == <<"accept", key>>

UpgradeRequest(key) ==
    << Field("host", "host"), Field("upgrade", "websocket"), Field("connection", "Upgrade"),
       Field("sec-websocket-key", key), Field("sec-websocket-version", "13") >>

Required == {"upgrade", "connection", "sec-websocket-version", "sec-websocket-key"}

\* The values of Connection that contain "Upgrade" as it is spelt.
Upgrading == {"Upgrade", "keep-alive, Upgrade"}

Upgradable(method, fields) ==
    LET headers == Parsed(fields)
    IN /\ method = "get"
       /\ Required \subseteq DOMAIN headers
       /\ headers["upgrade"] = "websocket"
       /\ headers["connection"] \in Upgrading
       /\ headers["sec-websocket-version"] = "13"

UpgradeResponse(fields) ==
    << Field("upgrade", "websocket"), Field("connection", "Upgrade"), Field("server", "Testing"),
       Field("sec-websocket-accept", generate_accept_key(Parsed(fields)["sec-websocket-key"])) >>

verify_key(fields, key) ==
    /\ "sec-websocket-accept" \in DOMAIN Parsed(fields)
    /\ Parsed(fields)["sec-websocket-accept"] = generate_accept_key(key)

\* What other programs ask and answer: what this one would, or something else.
Requests == {UpgradeRequest("key"), <<Field("host", "host")>>}
Responses == {UpgradeResponse(UpgradeRequest("key")), <<Field("server", "other")>>}

\* read_header finds a header only in a stream: recv on a listener fails.
Readable(o) == Open(o) /\ kernel[fd[o]] = "stream"

\* The server answers 400 and closes unless everything is in order.  The
\* header is read from the listener, not from the connection.
web_accept(o, target) ==
    /\ Accepts(o, target)
    /\ \E request \in Requests :
          LET upgraded == Readable(o) /\ Upgradable("get", request)
          IN /\ IF upgraded THEN Opens(target, "stream") ELSE UNCHANGED <<fd, kernel>>
             /\ webState' = [webState EXCEPT ![target] =
                                IF upgraded THEN "connected" ELSE "disconnected"]
             /\ handshake' = [offered |-> Upgradable("get", request), result |-> upgraded]
    /\ UNCHANGED <<alive, overwritten>>

\* A handshake that fails after sock.connect closes the descriptor again.
web_connect(o) ==
    /\ o \in alive /\ fd[o] < 0
    /\ \E reachable \in BOOLEAN, response \in Responses :
          LET verified == verify_key(response, "key")
              upgraded == SocketConnects(o, reachable) /\ verified
          IN /\ IF upgraded THEN Opens(o, "stream") ELSE UNCHANGED <<fd, kernel>>
             /\ webState' = [webState EXCEPT ![o] =
                                IF upgraded THEN "connected" ELSE "disconnected"]
             /\ handshake' = [offered |-> reachable /\ verified /\ Free # {}, result |-> upgraded]
    /\ UNCHANGED <<alive, clients, overwritten>>

---------------------------------------------------------------------------

SockNext ==
    \/ \E o \in Objects :
          Construct(o) \/ Destroy(o) \/ close(o) \/ bind(o) \/ listen(o)
    \/ \E o \in PlainSockets : connect(o)
    \/ \E o, p \in PlainSockets : MoveConstruct(o, p) \/ MoveAssign(o, p) \/ accept(o, p)
    \/ \E o, p \in WebSockets : web_accept(o, p)
    \/ \E o \in WebSockets : web_connect(o)

SockSpec == SockInit /\ [][SockNext]_sockVars

---------------------------------------------------------------------------
SockTypeOK ==
    /\ alive \subseteq Objects
    /\ fd \in [Objects -> Handles \cup {INVALID_SOCKET_HANDLE}]
    /\ kernel \in [Handles -> {"free", "new", "listening", "stream"}]
    /\ webState \in [WebSockets -> {"disconnected", "connected"}]
    /\ clients \in Nat
    /\ overwritten \subseteq Handles
    /\ handshake \in [offered : BOOLEAN, result : BOOLEAN]

(* No descriptor is held by two objects, which would close it twice, and   *)
(* so perhaps close somebody else's; none is held after it was closed; and *)
(* none is open without an object that will close it, but for the ones     *)
(* that operator= overwrites (move construction and assignment, accept,    *)
(* the destructor, a handshake that fails).                                *)
HandlesOwned ==
    /\ \A o, p \in Objects : Open(o) /\ fd[o] = fd[p] => o = p
    /\ \A o \in Objects : Open(o) => o \in alive /\ kernel[fd[o]] # "free"
    /\ \A h \in Handles : kernel[h] # "free" => h \in overwritten \/ \E o \in alive : fd[o] = h
=============================================================================
