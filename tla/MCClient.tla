------------------------------ MODULE MCClient ------------------------------
(***************************************************************************)
(* Instances of Client for TLC: what the user types.                       *)
(***************************************************************************)
EXTENDS Client

CONSTANTS k1, v1, v2, nv

\* stoull of the words used as a time to live.
Numbers == [w \in {"0", "1"} |-> IF w = "0" THEN 0 ELSE 1]

\* Every command, well formed and not, and a line of blanks.  The value nv has a
\* NUL byte in it where the configuration says so.
Commands == {
    <<"SET", k1, v1>>, <<"SET", k1, nv>>, <<"SET", k1>>, <<"GET", k1>>, <<"GET">>, <<"DEL", k1>>, <<"DEL">>,
    <<"SETEX", k1, "1", v2>>, <<"SETEX", k1, "0", v2>>, <<"SETEX", k1, "-1", v2>>,
    <<"SETEX", k1, "x", v2>>, <<"SETEX", k1, "1">>,
    <<"KEYS">>, <<"KEYS", k1>>, <<"PING">>, <<"PING", k1>>, <<"FLUSH">>, <<>>}

SetAndGet == {<<"SET", k1, v1>>, <<"GET", k1>>}

SetNulAndGet == {<<"SET", k1, nv>>, <<"GET", k1>>}
=============================================================================
