------------------------------ MODULE Protocol ------------------------------
(***************************************************************************)
(* From bytes to a reply: protocol/buffer.h, framing.h, parser.h,          *)
(* request.h, server/dispatcher.h, protocol/response.h and serializer.h,   *)
(* as operators.                                                           *)
(*                                                                         *)
(* A stream is a sequence of symbols: the two bytes of the delimiter, and  *)
(* words.  A word stands for a run of bytes without white space, together  *)
(* with the blanks around it.  A buffer is its readable part: storage_     *)
(* from read_pos_ on.                                                      *)
(*                                                                         *)
(* The engine behind the dispatcher is one shard here: on the server's one *)
(* thread, with no maintenance thread, every reply is that of the shard    *)
(* that holds the key (KVEngine).                                          *)
(***************************************************************************)
EXTENDS ShardOps

CONSTANTS
    Number,     \* what std::stoull returns: word -> Nat; it throws for others
    Negative    \* the words that begin with '-'

CR == "CR"
LF == "LF"
Delimiter == <<CR, LF>>

-----------------------------------------------------------------------------
(* Framing::NextFrame *)

\* Where the delimiter begins in a buffer.
DelimitersIn(buffer) == {i \in 1..(Len(buffer) - 1) : buffer[i] = CR /\ buffer[i + 1] = LF}

HasFrame(buffer) == DelimitersIn(buffer) # {}

FrameOf(buffer) == SubSeq(buffer, 1, Min(DelimitersIn(buffer)) - 1)

\* Seeded fault: Consume leaves the last byte of the delimiter.
AfterFrameShort(buffer) == SubSeq(buffer, Min(DelimitersIn(buffer)) + 1, Len(buffer))

\* The buffer after Consume(frame_len + 2).
AfterFrame(buffer) == SubSeq(buffer, Min(DelimitersIn(buffer)) + 2, Len(buffer))

-----------------------------------------------------------------------------
(* Parser::Parse and Request.  A stray CR or LF is white space. *)

IsWord(symbol) == symbol \notin {CR, LF}

Parse(frame) == SelectSeq(frame, IsWord)

\* Parse throws: the frame holds no word.
Unparsable(frame) == Parse(frame) = <<>>

Command(req)  == Head(req)
ArgCount(req) == Len(req) - 1
Arg(req, i)   == req[i + 2]

-----------------------------------------------------------------------------
(* Dispatcher: what each handler answers, and the store it leaves. *)

\* A message is the set of its lines, a line the tuple of its words: a value is
\* one line of one word.
Empty == {}

Ok(message) == [status |-> "Ok", message |-> message]
Error       == [status |-> "Error", message |-> Empty]

Answer(response, store) == [response |-> response, shard |-> store]

HandleSet(sh, req) ==
    IF ArgCount(req) < 2 THEN Answer(Error, sh)
    ELSE Answer(Ok(Empty), ShardSet(sh, Arg(req, 0), Arg(req, 1)))

HandleGet(sh, req, now) ==
    IF ArgCount(req) < 1 THEN Answer(Error, sh)
    ELSE Answer(IF ShardHit(sh, Arg(req, 0), now) THEN Ok({<<sh.store[Arg(req, 0)].value>>}) ELSE Error,
                ShardGet(sh, Arg(req, 0), now))

HandleDelete(sh, req) ==
    IF ArgCount(req) < 1 THEN Answer(Error, sh)
    ELSE Answer(Ok(Empty), ShardDelete(sh, Arg(req, 0)))

\* The time to live is a positive number.
IsTtl(word) == word \notin Negative /\ word \in DOMAIN Number /\ Number[word] # 0

\* Seeded fault: a bad time to live is reported after the key has been stored.
HandleSetExLate(sh, req, now) ==
    IF ArgCount(req) < 3 THEN Answer(Error, sh)
    ELSE IF ~IsTtl(Arg(req, 1)) THEN Answer(Error, ShardSet(sh, Arg(req, 0), Arg(req, 2)))
    ELSE Answer(Ok(Empty), ShardSetWithTTL(sh, Arg(req, 0), Arg(req, 2), Number[Arg(req, 1)], now))

HandleSetEx(sh, req, now) ==
    IF ArgCount(req) < 3 \/ ~IsTtl(Arg(req, 1)) THEN Answer(Error, sh)
    ELSE Answer(Ok(Empty), ShardSetWithTTL(sh, Arg(req, 0), Arg(req, 2), Number[Arg(req, 1)], now))

\* All pairs, one to a line; at is the clock as each entry is asked.
HandleKeys(sh, req, at) ==
    IF ArgCount(req) > 0 THEN Answer(Error, sh)
    ELSE Answer(Ok(ShardGetAllKeys(sh, at)), sh)

HandlePing(sh, req) == Answer(IF ArgCount(req) > 0 THEN Error ELSE Ok({<<"PONG">>}), sh)

\* Its check for an empty command is never met: a parsed request has a word.
Dispatch(sh, req, now, at) ==
    CASE Command(req) = "SET"   -> HandleSet(sh, req)
      [] Command(req) = "GET"   -> HandleGet(sh, req, now)
      [] Command(req) = "DEL"   -> HandleDelete(sh, req)
      [] Command(req) = "SETEX" -> HandleSetEx(sh, req, now)
      [] Command(req) = "KEYS"  -> HandleKeys(sh, req, at)
      [] Command(req) = "PING"  -> HandlePing(sh, req)
      [] OTHER                  -> Answer(Error, sh)

-----------------------------------------------------------------------------
(* Serializer::Serialize: the kind of line, and what it carries. *)

Serialize(response) ==
    IF response.status = "Error" THEN [kind |-> "-ERR", data |-> Empty]
    ELSE IF response.message = Empty THEN [kind |-> "+OK", data |-> Empty]
    ELSE [kind |-> "$", data |-> response.message]
=============================================================================
