------------------------------ MODULE MCServer ------------------------------
(***************************************************************************)
(* Instances of Server for TLC: what the clients send.  A client picks one *)
(* of its scripts.                                                         *)
(***************************************************************************)
EXTENDS Server

CONSTANT c1

\* stoull of the words used as a time to live: no script has one.
Numbers == [w \in {} |-> 0]

Line(words) == words \o Delimiter

\* One client sends two requests in one stream, or a stray CR before a delimiter.
\* Beside it one that never completes its delimiter, sends an empty frame with a
\* request after it, or one request.
Neighbours == [c \in Clients |->
    IF c = c1
    THEN {Line(<<"PING">>) \o Line(<<"KEYS">>), <<"PING", CR>> \o Delimiter}
    ELSE {<<"PING", CR>>, Delimiter \o Line(<<"PING">>), Line(<<"PING">>)}]

OneRequest == [c \in Clients |-> {Line(<<"PING">>)}]

\* One client sends two requests, the others none that is complete.
TwoRequests == [c \in Clients |->
    {IF c = c1 THEN Line(<<"PING">>) \o Line(<<"PING">>) ELSE <<"PING">>}]

EmptyFrame == [c \in Clients |-> {Delimiter}]
=============================================================================
