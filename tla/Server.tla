------------------------------- MODULE Server -------------------------------
(***************************************************************************)
(* The running server (server/server_app.h over net/): one thread that     *)
(* watches the listening socket and all connections with select, accepts,  *)
(* reads, handles every complete frame of a connection, and writes.        *)
(*                                                                         *)
(* Around it are the kernel and the clients.  A client connects, the bytes *)
(* it sends arrive one by one, it takes the replies, and it may close its  *)
(* end at any time.  All sockets are blocking.  The first write to a       *)
(* client that has closed succeeds and provokes a reset; a write after it  *)
(* fails, or raises SIGPIPE, whose default action ends the process.        *)
(***************************************************************************)
EXTENDS Protocol

CONSTANTS
    Clients,    \* each connects at most once
    Scripts,    \* client -> the streams it may send
    MaxFds,     \* descriptors the process may hold for connections
    Chunk,      \* sizeof(temp) in ReadFromSocket
    SendRoom,   \* replies a socket holds before a write blocks
    MaxTime     \* bound of the wall clock, which may be set at any time

\* Everything the clients may send.
Symbols == UNION {UNION {ToSet(s) : s \in Scripts[c]} : c \in Clients}

ASSUME ServerAssumption ==
    /\ \A c \in Clients : Scripts[c] \subseteq Seq(Symbols)
    /\ MaxFds \in Nat \ {0} /\ Chunk \in Nat \ {0} /\ SendRoom \in Nat \ {0}
    /\ MaxTime \in Nat \ {0} /\ MaxTime < TimeMod

VARIABLES
    client,     \* client -> "new", "waiting" in the listen queue, "open",
                \* "closed" by the client, "reset" by a write after that,
                \* "dropped" by the server
    flight,     \* client -> symbols sent, not yet at the server's socket
    arrived,    \* client -> symbols the server can read
    unread,     \* client -> replies written, not yet taken
    got,        \* client -> replies taken
    backlog,    \* the listen queue
    sockets,    \* the process's open connection sockets: fd -> client
    conns,      \* connections_: fd -> input and output buffer
    loop,       \* where the server's thread is
    shard,      \* the store
    stream,     \* history: client -> symbols read from it
    frames      \* history: client -> frames taken from its input buffer

network == <<client, flight, arrived, unread, got, backlog>>
history == <<stream, frames>>
vars == <<network, sockets, conns, loop, shard, history>>

Fds == 1..MaxFds

Init ==
    /\ client = [c \in Clients |-> "new"]
    /\ flight \in [Clients -> UNION {Scripts[c] : c \in Clients}]
    /\ \A c \in Clients : flight[c] \in Scripts[c]
    /\ arrived = [c \in Clients |-> <<>>]
    /\ unread = [c \in Clients |-> <<>>]
    /\ got = [c \in Clients |-> <<>>]
    /\ backlog = <<>>
    /\ sockets = [fd \in {} |-> 0]
    /\ conns = [fd \in {} |-> 0]
    /\ loop = [at |-> "start", ready |-> {}, fd |-> 0]
    /\ shard = EmptyShard
    /\ stream = [c \in Clients |-> <<>>]
    /\ frames = [c \in Clients |-> <<>>]

-----------------------------------------------------------------------------
(* The clients and the network *)

Connect(c) ==
    /\ client[c] = "new" /\ loop.at \notin {"start", "exited"}
    /\ client' = [client EXCEPT ![c] = "waiting"]
    /\ backlog' = Append(backlog, c)
    /\ UNCHANGED <<flight, arrived, unread, got, sockets, conns, loop, shard, history>>

Deliver(c) ==
    /\ client[c] \in {"waiting", "open", "closed"}
    /\ flight[c] # <<>>
    /\ arrived' = [arrived EXCEPT ![c] = Append(@, Head(flight[c]))]
    /\ flight' = [flight EXCEPT ![c] = Tail(@)]
    /\ UNCHANGED <<client, unread, got, backlog, sockets, conns, loop, shard, history>>

Receive(c) ==
    /\ client[c] \in {"open", "dropped"}
    /\ unread[c] # <<>>
    /\ got' = [got EXCEPT ![c] = Append(@, Head(unread[c]))]
    /\ unread' = [unread EXCEPT ![c] = Tail(@)]
    /\ UNCHANGED <<client, flight, arrived, backlog, sockets, conns, loop, shard, history>>

\* The client closes: a part of what it sent may still arrive, nothing after.
Hangup(c) ==
    /\ client[c] \in {"waiting", "open"}
    /\ \E n \in 0..Len(flight[c]) : flight' = [flight EXCEPT ![c] = SubSeq(@, 1, n)]
    /\ client' = [client EXCEPT ![c] = "closed"]
    /\ unread' = [unread EXCEPT ![c] = <<>>]
    /\ UNCHANGED <<arrived, got, backlog, sockets, conns, loop, shard, history>>

-----------------------------------------------------------------------------
(* The server's thread *)

\* The process ends: the kernel closes its sockets.
ProcessExits ==
    /\ loop' = [at |-> "exited", ready |-> {}, fd |-> 0]
    /\ sockets' = [fd \in {} |-> 0]
    /\ conns' = [fd \in {} |-> 0]
    /\ client' = [c \in Clients |->
                    IF client[c] \in {"waiting", "open"} THEN "dropped" ELSE client[c]]
    /\ backlog' = <<>>

\* Start: the listening socket is created, bound and opened, or one of the three
\* throws out of Run and main returns.
Start ==
    /\ loop.at = "start"
    /\ \/ /\ loop' = [loop EXCEPT !.at = "select"]
          /\ UNCHANGED <<client, backlog, sockets, conns>>
       \/ ProcessExits
    /\ UNCHANGED <<flight, arrived, unread, got, shard, history>>

Gone(c) == client[c] \in {"closed", "reset"}

\* A read on the socket would not block: bytes, or the end of the stream.
Readable(fd) ==
    \/ arrived[sockets[fd]] # <<>>
    \/ Gone(sockets[fd]) /\ flight[sockets[fd]] = <<>>

\* ProcessConnections up to select: it watches the listening socket and every
\* connection it manages.  With nothing to do it times out and starts again.
Select ==
    LET ready == {fd \in DOMAIN conns : Readable(fd)}
    IN  /\ loop.at = "select"
        /\ backlog # <<>> \/ ready # {}
        /\ loop' = [loop EXCEPT !.at = IF backlog # <<>> THEN "accept" ELSE "next",
                                !.ready = ready]
        /\ UNCHANGED <<network, sockets, conns, shard, history>>

FreeFds == Fds \ DOMAIN sockets

\* ConnectionManager::Add: emplace keeps an entry that is already there.
AddConnection(connections, fd) ==
    IF fd \in DOMAIN connections THEN connections
    ELSE With(connections, fd, [input |-> <<>>, output |-> <<>>])

\* TcpServer::Accept: the kernel gives the lowest free descriptor.  accept
\* without a free descriptor throws out of Run, and main returns.
Accept ==
    /\ loop.at = "accept"
    /\ IF FreeFds = {}
       THEN ProcessExits
       ELSE LET fd == Min(FreeFds)
                c  == Head(backlog)
            IN  /\ sockets' = With(sockets, fd, c)
                /\ conns' = AddConnection(conns, fd)
                /\ backlog' = Tail(backlog)
                /\ client' = [client EXCEPT ![c] = IF @ = "waiting" THEN "open" ELSE @]
                /\ loop' = [loop EXCEPT !.at = "next"]
    /\ UNCHANGED <<flight, arrived, unread, got, shard, history>>

\* Seeded fault: the socket is closed and its entry stays.
RemoveConnectionKeepsEntry(connections, fd) == connections

\* ConnectionManager::Remove: the entry goes, and Connection's destructor
\* closes the socket.
RemoveConnection(connections, fd) == Without(connections, fd)

Drop(fd) ==
    /\ conns' = RemoveConnection(conns, fd)
    /\ sockets' = Without(sockets, fd)
    /\ client' = [client EXCEPT ![sockets[fd]] = IF @ = "open" THEN "dropped" ELSE @]

\* The next descriptor of the loop over active_fds_ (in the order of a hash
\* map), and ReadFromSocket.  The end of the stream, or an error, which Append
\* turns into an exception, ends in Remove.
ReadFromSocket ==
    /\ loop.at = "next" /\ loop.ready # {}
    /\ \E fd \in loop.ready :
         LET c == sockets[fd]
             n == IF Len(arrived[c]) < Chunk THEN Len(arrived[c]) ELSE Chunk
         IN  IF n = 0
             THEN /\ Drop(fd)
                  /\ loop' = [loop EXCEPT !.ready = @ \ {fd}]
                  /\ UNCHANGED <<arrived, stream>>
             ELSE /\ conns' = [conns EXCEPT ![fd].input = @ \o SubSeq(arrived[c], 1, n)]
                  /\ arrived' = [arrived EXCEPT ![c] = SubSeq(@, n + 1, Len(@))]
                  /\ stream' = [stream EXCEPT ![c] = @ \o SubSeq(arrived[c], 1, n)]
                  /\ loop' = [at |-> "frames", ready |-> loop.ready \ {fd}, fd |-> fd]
                  /\ UNCHANGED <<client, sockets>>
    /\ UNCHANGED <<flight, unread, got, backlog, shard, frames>>

\* The loop over active_fds_ is done.
EndRound ==
    /\ loop.at = "next" /\ loop.ready = {}
    /\ loop' = [loop EXCEPT !.at = "select"]
    /\ UNCHANGED <<network, sockets, conns, shard, history>>

\* NextFrame finds no delimiter.
NoFrame ==
    /\ loop.at = "frames"
    /\ ~HasFrame(conns[loop.fd].input)
    /\ loop' = [loop EXCEPT !.at = "next"]
    /\ UNCHANGED <<network, sockets, conns, shard, history>>

\* One frame: parse, dispatch, serialize and append to the output buffer.  A
\* frame without a word makes Parse throw, which ends the connection.  A reply
\* carries the request it answers, for the properties.
HandleFrame ==
    /\ loop.at = "frames"
    /\ HasFrame(conns[loop.fd].input)
    /\ \E now \in 1..MaxTime, at \in [DOMAIN shard.store -> 1..MaxTime] :
       LET fd    == loop.fd
           c     == sockets[fd]
           frame == FrameOf(conns[fd].input)
           req   == Parse(frame)
           done  == Dispatch(shard, req, now, at)
           wire  == Serialize(done.response)
           reply == [to |-> req, kind |-> wire.kind, data |-> wire.data]
       IN  /\ frames' = [frames EXCEPT ![c] = Append(@, frame)]
           /\ IF Unparsable(frame)
              THEN /\ Drop(fd)
                   /\ loop' = [loop EXCEPT !.at = "next"]
                   /\ UNCHANGED shard
              ELSE /\ shard' = done.shard
                   /\ conns' = [conns EXCEPT ![fd].input = AfterFrame(@),
                                             ![fd].output = Append(@, reply)]
                   /\ loop' = [loop EXCEPT !.at = "write"]
                   /\ UNCHANGED <<client, sockets>>
    /\ UNCHANGED <<flight, arrived, unread, got, backlog, stream>>

\* Seeded faults: the bytes written are not consumed; one frame per read.
WriteKeepsOutput ==
    LET c == sockets[loop.fd]
    IN  /\ loop.at = "write"
        /\ client[c] = "open" /\ Len(unread[c]) < SendRoom
        /\ unread' = [unread EXCEPT ![c] = @ \o conns[loop.fd].output]
        /\ loop' = [loop EXCEPT !.at = "frames"]
        /\ UNCHANGED <<client, flight, arrived, got, backlog, sockets, conns, shard, history>>
WriteAndLeave ==
    LET c == sockets[loop.fd]
    IN  /\ loop.at = "write"
        /\ client[c] = "open" /\ Len(unread[c]) < SendRoom
        /\ unread' = [unread EXCEPT ![c] = @ \o conns[loop.fd].output]
        /\ conns' = [conns EXCEPT ![loop.fd].output = <<>>]
        /\ loop' = [loop EXCEPT !.at = "next"]
        /\ UNCHANGED <<client, flight, arrived, got, backlog, sockets, shard, history>>

\* WriteToSocket while the client is there: blocks until there is room.
WriteToSocket ==
    LET c == sockets[loop.fd]
    IN  /\ loop.at = "write"
        /\ client[c] = "open" /\ Len(unread[c]) < SendRoom
        /\ unread' = [unread EXCEPT ![c] = @ \o conns[loop.fd].output]
        /\ conns' = [conns EXCEPT ![loop.fd].output = <<>>]
        /\ loop' = [loop EXCEPT !.at = "frames"]
        /\ UNCHANGED <<client, flight, arrived, got, backlog, sockets, shard, history>>

\* The first write after the client has closed: the reply is lost, the client's
\* kernel answers with a reset, and nothing more arrives.
WriteToClosed ==
    LET c == sockets[loop.fd]
    IN  /\ loop.at = "write"
        /\ client[c] = "closed"
        /\ client' = [client EXCEPT ![c] = "reset"]
        /\ flight' = [flight EXCEPT ![c] = <<>>]
        /\ conns' = [conns EXCEPT ![loop.fd].output = <<>>]
        /\ loop' = [loop EXCEPT !.at = "frames"]
        /\ UNCHANGED <<arrived, unread, got, backlog, sockets, shard, history>>

\* Every write after the reset: write fails, which the loop ignores, and the
\* reply stays in the output buffer; or SIGPIPE ends the process.
WriteToReset ==
    /\ loop.at = "write"
    /\ client[sockets[loop.fd]] = "reset"
    /\ \/ /\ loop' = [loop EXCEPT !.at = "frames"]
          /\ UNCHANGED <<client, backlog, sockets, conns>>
       \/ ProcessExits
    /\ UNCHANGED <<flight, arrived, unread, got, shard, history>>

-----------------------------------------------------------------------------
ServerStep ==
    \/ Start \/ Select \/ Accept \/ ReadFromSocket \/ EndRound
    \/ NoFrame \/ HandleFrame \/ WriteToSocket \/ WriteToClosed \/ WriteToReset

Next ==
    \/ ServerStep
    \/ \E c \in Clients : Connect(c) \/ Deliver(c) \/ Receive(c) \/ Hangup(c)

Spec == Init /\ [][Next]_vars

(***************************************************************************)
(* The server's thread runs whenever it can, the network delivers, and a   *)
(* client takes what is sent to it.  Nobody has to connect or to close.    *)
(***************************************************************************)
FairSpec ==
    /\ Spec
    /\ WF_vars(ServerStep)
    /\ \A c \in Clients : WF_vars(Deliver(c)) /\ WF_vars(Receive(c))

-----------------------------------------------------------------------------
(* Properties *)

\* The frames taken from a client's stream, each closed by a delimiter.
Framed(c) == FlattenSeq([i \in DOMAIN frames[c] |-> frames[c][i] \o Delimiter])

\* "Complete frames only processed" (docs/PROTOCOL.md:930): however the bytes
\* of a connection are cut into reads (connection.h:75-87), the frames handled
\* and the rest of the input buffer are its stream, cut at every delimiter and
\* nowhere else (framing.h:49-75), and no complete frame waits for more bytes.
FramesAreTheStream ==
    \A fd \in DOMAIN conns \cap DOMAIN sockets :
        LET c == sockets[fd]
        IN  /\ stream[c] = Framed(c) \o conns[fd].input
            /\ \A i \in DOMAIN frames[c] :
                  DelimitersIn(frames[c][i] \o Delimiter) = {Len(frames[c][i]) + 1}
            /\ loop.at = "select" => ~HasFrame(conns[fd].input)

\* The frames of a client that are to be answered: all but a last one without a
\* word, which ends the connection.
Requests(c) ==
    IF frames[c] # <<>> /\ Unparsable(Last(frames[c])) THEN Front(frames[c]) ELSE frames[c]

\* Replies written to a client or about to be.
RepliesTo(c) ==
    LET queued == {fd \in DOMAIN sockets \cap DOMAIN conns : sockets[fd] = c}
    IN  got[c] \o unread[c]
          \o (IF queued = {} THEN <<>> ELSE conns[CHOOSE fd \in queued : TRUE].output)

\* "Responses arrive in the same order as requests" (docs/PROTOCOL.md:611):
\* each request of a client is answered once, in order, on its own connection,
\* with descriptors reused and other clients served in between.
RepliesInOrder ==
    \A c \in Clients : ~Gone(c) =>
        /\ Len(RepliesTo(c)) = Len(Requests(c))
        /\ \A i \in DOMAIN Requests(c) :
              ~Unparsable(Requests(c)[i]) /\ RepliesTo(c)[i].to = Parse(Requests(c)[i])

\* Every open socket has its entry in connections_ and every entry its socket,
\* so that emplace never meets an old entry (connection_manager.h:49-66), and
\* a descriptor the loop still has to visit is managed (server_app.h:97-111).
EverySocketIsManaged ==
    /\ DOMAIN conns = DOMAIN sockets
    /\ loop.ready \subseteq DOMAIN conns

\* Nothing the client sent is left to handle, and it has all its replies.
Served(c) ==
    /\ flight[c] = <<>> /\ arrived[c] = <<>>
    /\ Len(got[c]) = Cardinality(DelimitersIn(stream[c]))

\* A client that stays is served, whatever the others send, wherever their
\* bytes are cut, and although the loop blocks in writes: one that sends a
\* frame without a command is dropped, all others get every reply, unless the
\* process ends (server_app.h:52-55, 97-103, 126-137).
EveryClientIsServed ==
    \A c \in Clients :
        client[c] = "waiting" ~> \/ Served(c)
                                 \/ Gone(c)
                                 \/ \E i \in DOMAIN frames[c] : Unparsable(frames[c][i])
                                 \/ loop.at = "exited"

\* "(empty) | empty frame | -ERREmpty Command" (docs/LLD.md:1113): an empty
\* frame is answered, its client is not dropped.
EmptyFrameIsAnswered ==
    \A c \in Clients : client[c] = "dropped" => \A i \in DOMAIN frames[c] : frames[c][i] # <<>>

\* "Exceeding this will result in connection rejection" (common/config.h:85):
\* when the server cannot take one more connection, those it has go on.
LimitOnlyRejects ==
    [][loop.at = "accept" => loop'.at # "exited"]_vars

\* "Client-initiated close | Graceful" (docs/PROTOCOL.md:130): a client that
\* closes costs no other client its connection, and a client is dropped only for
\* a frame of its own without a command.
CloseIsLocal ==
    \A c \in Clients :
        client[c] = "dropped" => \E i \in DOMAIN frames[c] : Unparsable(frames[c][i])
=============================================================================
