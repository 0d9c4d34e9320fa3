------------------------------- MODULE Client -------------------------------
(***************************************************************************)
(* The command line client (client/kv_cli.cpp over client/kv_client.h) and *)
(* the connection between it and a server, whose side is the request path  *)
(* of Protocol.                                                            *)
(*                                                                         *)
(* SendCommand sends a line and takes what one recv returns for the reply. *)
(* TCP may deliver a reply in parts, and a reply may be larger than the    *)
(* buffer of recv.  What matters of a reply's bytes is whose they are, and *)
(* where a NUL byte is: part j of the reply to the n-th command is         *)
(* <<n, j, b>>, with b saying that a NUL is its first byte.                *)
(***************************************************************************)
EXTENDS Protocol

CONSTANTS
    Lines,          \* what the user may type, as words; <<>> is only blanks
    Nul,            \* the words that have a NUL byte in them
    RecvSize,       \* parts that one recv can take: sizeof(buffer) - 1
    MaxCommands,    \* bound on the lines typed
    MaxTime         \* bound of the wall clock

\* What the lines are made of.
Symbols == UNION {ToSet(line) : line \in Lines}

\* A line is what std::getline returns (kv_cli.cpp:52): it has no line feed.
ASSUME ClientAssumption ==
    /\ Lines \subseteq Seq(Symbols) /\ LF \notin Symbols
    /\ RecvSize \in Nat \ {0} /\ MaxCommands \in Nat
    /\ MaxTime \in Nat \ {0} /\ MaxTime < TimeMod

VARIABLES
    app,            \* the client: "start", "prompt", in "recv", "quit", "failed"
                    \* to connect, "killed" by SIGPIPE
    link,           \* the connection: "none", "open", "closed" by the server,
                    \* "reset": closed with bytes unread, or by a send after that
    input,          \* sent, not yet handled by the server
    flight,         \* parts of replies on their way
    inbox,          \* parts at the client's socket
    shard,          \* the server's store
    now,            \* the wall clock
    sent,           \* history: the lines sent
    replies,        \* history: what the server answered to each
    taken,          \* history: what recv took for each; <<>> when it failed
    answers         \* history: what SendCommand returned for each; <<>> when
                    \* it threw

wire == <<input, flight, inbox>>
server == <<shard, replies>>
results == <<taken, answers>>
vars == <<app, link, wire, server, now, sent, results>>

Init ==
    /\ app = "start" /\ link = "none"
    /\ input = <<>> /\ flight = <<>> /\ inbox = <<>>
    /\ shard = EmptyShard /\ now = 1
    /\ sent = <<>> /\ replies = <<>> /\ taken = <<>> /\ answers = <<>>

-----------------------------------------------------------------------------
(* The client *)

\* Connect, or an exception that ends main.
Connect ==
    /\ app = "start"
    /\ \/ app' = "prompt" /\ link' = "open"
       \/ app' = "failed" /\ link' = "none"
    /\ UNCHANGED <<wire, server, now, sent, results>>

\* Seeded fault: the line goes out without its delimiter.
WireOfBare(line) == line

\* command + "\r\n"
WireOf(line) == line \o Delimiter

\* A reset overtakes what is lost on the way and would have been sent again.
FlightIsCut == \E n \in 0..Len(flight) : flight' = SubSeq(flight, 1, n)

\* SendCommand up to recv.  The result of send is not looked at: on a connection
\* that the server has closed it provokes a reset, and after that it fails, or
\* raises SIGPIPE.
Send(line) ==
    /\ app = "prompt" /\ Len(sent) < MaxCommands
    /\ sent' = Append(sent, line)
    /\ \/ link = "open" /\ app' = "recv"
          /\ input' = input \o WireOf(line)
          /\ UNCHANGED <<link, flight>>
       \/ link = "closed" /\ app' = "recv" /\ link' = "reset"
          /\ FlightIsCut
          /\ UNCHANGED input
       \/ link = "reset" /\ app' \in {"recv", "killed"}
          /\ UNCHANGED <<link, input, flight>>
    /\ UNCHANGED <<inbox, server, now, results>>

Taken == SubSeq(inbox, 1, IF Len(inbox) < RecvSize THEN Len(inbox) ELSE RecvSize)

\* std::string(buffer): what stands before the first NUL.
UpToNul(parts) ==
    LET nuls == {i \in DOMAIN parts : parts[i][3]}
    IN  IF nuls = {} THEN parts ELSE SubSeq(parts, 1, Min(nuls) - 1)

\* SendCommand returns what recv has taken, as a C string.
Take ==
    /\ app = "recv" /\ inbox # <<>>
    /\ taken' = Append(taken, Taken)
    /\ answers' = Append(answers, UpToNul(Taken))
    /\ app' = "prompt"

\* Seeded faults: recv leaves the bytes in the socket; it drops what does not
\* fit into its buffer.
RecvPeeks ==
    /\ Take
    /\ UNCHANGED <<link, wire, server, now, sent>>
RecvDropsRest ==
    /\ Take
    /\ inbox' = <<>>
    /\ UNCHANGED <<link, input, flight, server, now, sent>>

\* One recv: whatever has arrived, as much as fits.  The answer may be empty,
\* and then main reads a character before it (response.back()), which decides
\* about a line feed on the screen and nothing else.
Recv ==
    /\ Take
    /\ inbox' = SubSeq(inbox, Len(Taken) + 1, Len(inbox))
    /\ UNCHANGED <<link, input, flight, server, now, sent>>

\* recv returns 0 or -1: SendCommand throws, main reports it and goes on.
RecvFails ==
    /\ app = "recv" /\ inbox = <<>> /\ flight = <<>> /\ link # "open"
    /\ taken' = Append(taken, <<>>) /\ answers' = Append(answers, <<>>)
    /\ app' = "prompt"
    /\ UNCHANGED <<link, wire, server, now, sent>>

\* "exit", "quit" or the end of the input.
Quit ==
    /\ app = "prompt"
    /\ app' = "quit"
    /\ UNCHANGED <<link, wire, server, now, sent, results>>

\* KVClient::Get takes what follows a "+" for the value, all else for no value.
GetResult(n) ==
    IF answers[n] # <<>> /\ Head(answers[n])[2] = 1 /\ replies[Head(answers[n])[1]].kind = "+OK"
    THEN {<<"OK">>} ELSE Empty

-----------------------------------------------------------------------------
(* The server and the network *)

\* How many parts the text of a reply has: a line and its end; and for a bulk
\* string the same again.
Parts(reply) == CASE reply.kind = "$" -> 4 [] reply.kind = "none" -> 0 [] OTHER -> 2

\* A NUL in a value or in a key comes with the second line.
HasNul(reply) == \E line \in reply.data : \E i \in DOMAIN line : line[i] \in Nul

PartsOf(n, reply) == [j \in 1..Parts(reply) |-> <<n, j, j = 3 /\ HasNul(reply)>>]

Whole(n) == IF n \in DOMAIN replies THEN PartsOf(n, replies[n]) ELSE <<>>

\* The server's end of the connection is closed, with some bytes unread.
ServerCloses(rest) ==
    /\ input' = <<>>
    /\ \/ link' = "closed" /\ UNCHANGED flight
       \/ rest # <<>> /\ link' = "reset" /\ FlightIsCut

\* The server handles one frame, and the clock may move on while it answers.  A
\* frame without a word ends the connection.
Serve ==
    /\ link = "open" /\ HasFrame(input)
    /\ now' \in now..MaxTime
    /\ \E at \in [DOMAIN shard.store -> now..now'] :
       LET req   == Parse(FrameOf(input))
           done  == Dispatch(shard, req, now, at)
           reply == Serialize(done.response)
       IN  IF Unparsable(FrameOf(input))
           THEN /\ ServerCloses(AfterFrame(input))
                /\ replies' = Append(replies, [kind |-> "none", data |-> Empty])
                /\ UNCHANGED shard
           ELSE /\ shard' = done.shard
                /\ replies' = Append(replies, reply)
                /\ flight' = flight \o PartsOf(Len(replies) + 1, reply)
                /\ input' = AfterFrame(input)
                /\ UNCHANGED link
    /\ UNCHANGED <<app, inbox, sent, results>>

Deliver ==
    /\ flight # <<>>
    /\ inbox' = Append(inbox, Head(flight))
    /\ flight' = Tail(flight)
    /\ UNCHANGED <<app, link, input, server, now, sent, results>>

\* The server's process ends.
ServerStops ==
    /\ link = "open"
    /\ ServerCloses(input)
    /\ UNCHANGED <<app, inbox, server, now, sent, results>>

ClockMoves ==
    /\ now < MaxTime
    /\ now' = now + 1
    /\ UNCHANGED <<app, link, wire, server, sent, results>>

-----------------------------------------------------------------------------
Next ==
    \/ Connect \/ (\E line \in Lines : Send(line)) \/ Recv \/ RecvFails \/ Quit
    \/ Serve \/ Deliver \/ ServerStops \/ ClockMoves

Spec == Init /\ [][Next]_vars

\* The client's and the server's thread run, and the network delivers.  Nobody
\* has to type a line, and the server need not stop.
FairSpec == Spec /\ WF_vars(Recv) /\ WF_vars(RecvFails) /\ WF_vars(Serve) /\ WF_vars(Deliver)

-----------------------------------------------------------------------------
(* Properties *)

\* Nothing of the replies is repeated or reordered between the server and the
\* user, and little is lost: what the calls of recv have taken (kv_client.h:90),
\* what waits in the socket and what is on its way are the server's replies, in
\* order, of which a reset may cost the end; and the answers are what was taken,
\* but for what came behind a NUL in the same recv (kv_client.h:96-98).
AnswersAreTheReplies ==
    LET received == FlattenSeq(taken) \o inbox \o flight
        replied  == FlattenSeq([n \in DOMAIN replies |-> Whole(n)])
    IN  /\ IsPrefix(received, replied)
        /\ link # "reset" => received = replied
        /\ \A n \in DOMAIN answers :
              /\ IsPrefix(answers[n], taken[n])
              /\ answers[n] # taken[n] => taken[n][Len(answers[n]) + 1][3]

\* As long as every answer is a whole reply, each command gets its own: the first
\* answer that is wrong is the beginning of the right one, torn by the network,
\* the size of the buffer or a NUL (kv_client.h:86-98), also when commands fail,
\* lines are blank or the server goes away.  A reply is reported as missing only
\* when the connection was reset.
FirstWrongAnswerIsTorn ==
    \A n \in DOMAIN answers :
        /\ answers[n] # Whole(n)
        /\ \A m \in 1..(n - 1) : answers[m] = Whole(m)
        => IsStrictPrefix(answers[n], Whole(n)) /\ (answers[n] = <<>> => link = "reset")

\* What clients can read from the time t on, and until when.
Visible(sh, t) == {<<k, sh.store[k]>> : k \in {x \in DOMAIN sh.store : ~IsExpired(sh.store[x], t)}}

\* "Invalid arguments: Server returns -ERR without executing"
\* (docs/PROTOCOL.md:672): a request answered with an error leaves what the
\* clients can read, and how long they can, as it was (dispatcher.h:92-212).
ErrorsChangeNothing ==
    [][replies' # replies /\ Last(replies').kind = "-ERR"
         => Visible(shard', now) = Visible(shard, now)]_vars

\* SendCommand returns or throws (kv_client.h:82-99): the user is not left
\* waiting, whatever line is sent, and whenever the server goes away.
CommandReturns == app = "recv" ~> app # "recv"

\* "Synchronous: Client sends request, server replies with response"
\* (docs/PROTOCOL.md:37), "sends cmd, reads response" (docs/LLD.md:972): the
\* answer to a command has nothing of the reply to another.
AnswerIsOwn ==
    \A n \in DOMAIN answers : \A i \in DOMAIN answers[n] : answers[n][i][1] = n

\* "Provide simple KV API for users" (kv_client.h:10): when the server has
\* answered a GET with a value, and the reply has come whole, KVClient::Get does
\* not return "no value".
GetReturnsTheValue ==
    \A n \in DOMAIN answers \cap DOMAIN replies :
        /\ sent[n] # <<>> /\ Head(sent[n]) = "GET" /\ replies[n].kind = "$"
        /\ answers[n] = Whole(n)
        => GetResult(n) # Empty

\* "Binary-safe value handling" (docs/PROTOCOL.md:951): what has come of a reply
\* is what the user gets of it.
AnswersAreBinarySafe == \A n \in DOMAIN answers : answers[n] = taken[n]

\* main catches what SendCommand throws and prompts again (kv_cli.cpp:71-75):
\* a connection that the server has closed does not end the client.
ErrorsAreReported == app # "killed"
=============================================================================
