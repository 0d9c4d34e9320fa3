----------------------------- MODULE ServerProofs -----------------------------
(***************************************************************************)
(* Frames, replies and descriptors of the running server, for any number   *)
(* of clients and descriptors, any streams and any sizes of the buffers    *)
(* (server/server_app.h over net/ and protocol/framing.h).                 *)
(***************************************************************************)
EXTENDS Server, ShardLemmas

-----------------------------------------------------------------------------
(* Framing *)

\* Where NextFrame cuts (framing.h:49-75): at the first delimiter.
LEMMA FirstDelimiter ==
  ASSUME NEW S, NEW b \in Seq(S), HasFrame(b), NEW m, m = Min(DelimitersIn(b))
  PROVE  /\ m \in 1..(Len(b) - 1) /\ b[m] = CR /\ b[m + 1] = LF
         /\ \A i \in 1..(m - 1) : ~(b[i] = CR /\ b[i + 1] = LF)
  <1>1. DelimitersIn(b) \subseteq Nat /\ DelimitersIn(b) # {}
    BY DEF DelimitersIn, HasFrame
  <1>2. m \in DelimitersIn(b) /\ \A y \in DelimitersIn(b) : m <= y
    BY <1>1, MinFacts
  <1>3. m \in 1..(Len(b) - 1) /\ b[m] = CR /\ b[m + 1] = LF
    BY <1>2 DEF DelimitersIn
  <1>4. \A i \in 1..(m - 1) : i \in 1..(Len(b) - 1) /\ ~(m <= i)
    BY <1>3
  <1>5. \A i \in 1..(m - 1) : i \notin DelimitersIn(b)
    BY <1>2, <1>4
  <1> QED BY <1>3, <1>4, <1>5 DEF DelimitersIn

\* A frame, its delimiter and the rest are the buffer, and the frame has no
\* delimiter of its own.
LEMMA CutFrame ==
  ASSUME NEW S, NEW b \in Seq(S), HasFrame(b)
  PROVE  /\ FrameOf(b) \in Seq(S) /\ AfterFrame(b) \in Seq(S) /\ CR \in S /\ LF \in S
         /\ b = (FrameOf(b) \o Delimiter) \o AfterFrame(b)
         /\ DelimitersIn(FrameOf(b) \o Delimiter) = {Len(FrameOf(b)) + 1}
  <1>1. PICK m : m = Min(DelimitersIn(b))
    OBVIOUS
  <1>2. /\ m \in 1..(Len(b) - 1) /\ b[m] = CR /\ b[m + 1] = LF
        /\ \A i \in 1..(m - 1) : ~(b[i] = CR /\ b[i + 1] = LF)
    BY <1>1, FirstDelimiter
  <1>3. CR \in S /\ LF \in S /\ Len(b) \in Nat
    BY <1>2
  <1>4. PICK f, r : f = SubSeq(b, 1, m - 1) /\ r = SubSeq(b, m + 2, Len(b))
    OBVIOUS
  <1>5. /\ f \in Seq(S) /\ Len(f) = m - 1 /\ \A i \in 1..(m - 1) : f[i] = b[i]
        /\ r \in Seq(S) /\ Len(r) = Len(b) - m - 1
        /\ \A i \in 1..(Len(b) - m - 1) : r[i] = b[m + 1 + i]
    BY <1>2, <1>3, <1>4
  <1>6. PICK d : d = Delimiter
    OBVIOUS
  <1>7. d \in Seq(S) /\ Len(d) = 2 /\ d[1] = CR /\ d[2] = LF
    BY <1>3, <1>6 DEF Delimiter
  <1>8. PICK g : g = f \o d
    OBVIOUS
  <1>9. /\ g \in Seq(S) /\ Len(g) = m + 1 /\ \A i \in 1..(m - 1) : g[i] = b[i]
        /\ g[m] = CR /\ g[m + 1] = LF
    <2>1. /\ g \in Seq(S) /\ Len(g) = Len(f) + Len(d)
          /\ \A i \in 1..(Len(f) + Len(d)) : g[i] = IF i <= Len(f) THEN f[i] ELSE d[i - Len(f)]
      BY <1>5, <1>7, <1>8, ConcatProperties
    <2>2. /\ Len(g) = m + 1
          /\ \A i \in 1..(m + 1) : g[i] = IF i <= m - 1 THEN f[i] ELSE d[i - (m - 1)]
      BY <2>1, <1>2, <1>5, <1>7
    <2>3. \A i \in 1..(m - 1) : g[i] = b[i]
      <3> SUFFICES ASSUME NEW i \in 1..(m - 1) PROVE g[i] = b[i]
        OBVIOUS
      <3>1. i \in 1..(m + 1) /\ i <= m - 1
        BY <1>2
      <3>2. g[i] = f[i]
        BY <3>1, <2>2
      <3> QED BY <3>2, <1>5
    <2>4. m \in 1..(m + 1) /\ m + 1 \in 1..(m + 1) /\ m - (m - 1) = 1 /\ m + 1 - (m - 1) = 2
      BY <1>2
    <2>5. g[m] = d[1] /\ g[m + 1] = d[2]
      <3>1. ~(m <= m - 1) /\ ~(m + 1 <= m - 1)
        BY <1>2
      <3>2. \A i \in 1..(m + 1) : ~(i <= m - 1) => g[i] = d[i - (m - 1)]
        BY <2>2
      <3>3. g[m] = d[m - (m - 1)]
        BY <3>1, <3>2, <2>4
      <3>4. g[m + 1] = d[m + 1 - (m - 1)]
        BY <3>1, <3>2, <2>4
      <3> QED BY <3>3, <3>4, <2>4
    <2> QED BY <2>1, <2>2, <2>3, <2>5, <1>7
  <1>10. b = g \o r
    <2>0. /\ g \o r \in Seq(S) /\ Len(g \o r) = Len(g) + Len(r)
          /\ \A i \in 1..(Len(g) + Len(r)) :
                (g \o r)[i] = IF i <= Len(g) THEN g[i] ELSE r[i - Len(g)]
      BY <1>5, <1>9, ConcatProperties
    <2>1. g \o r \in Seq(S) /\ Len(g \o r) = Len(b) /\ Len(g) + Len(r) = Len(b)
      BY <2>0, <1>2, <1>3, <1>5, <1>9
    <2>2. ASSUME NEW i \in 1..Len(b) PROVE (g \o r)[i] = b[i]
      <3>1. CASE i \in 1..(m + 1)
        <4>1. (g \o r)[i] = g[i]
          BY <3>1, <2>0, <2>1, <1>2, <1>9
        <4>2. i \in 1..(m - 1) \/ i = m \/ i = m + 1
          BY <3>1, <1>2
        <4> QED BY <4>1, <4>2, <1>2, <1>9
      <3>2. CASE i > m + 1
        <4>1. (g \o r)[i] = r[i - (m + 1)]
          BY <3>2, <2>0, <2>1, <1>2, <1>9
        <4>2. i - (m + 1) \in 1..(Len(b) - m - 1) /\ m + 1 + (i - (m + 1)) = i
          BY <3>2, <1>2, <1>3
        <4> QED BY <4>1, <4>2, <1>5
      <3>3. i \in 1..(m + 1) \/ i > m + 1
        BY <1>2, <1>3
      <3> QED BY <3>1, <3>2, <3>3
    <2>3. \A i \in 1..Len(g \o r) : (g \o r)[i] = b[i]
      BY <2>1, <2>2
    <2> QED BY <2>1, <2>3, SeqEqual
  <1>11. DelimitersIn(g) = {Len(f) + 1}
    <2>1. ASSUME NEW i \in 1..m PROVE (g[i] = CR /\ g[i + 1] = LF) <=> i = m
      <3>1. CASE i = m
        BY <3>1, <1>9
      <3>2. CASE i = m - 1
        <4>1. g[i + 1] = CR
          BY <3>2, <1>2, <1>9
        <4>2. CR # LF /\ i # m
          BY <3>2, <1>2 DEF CR, LF
        <4> QED BY <4>1, <4>2
      <3>3. CASE i < m - 1
        <4>1. i \in 1..(m - 1) /\ i + 1 \in 1..(m - 1) /\ i # m
          BY <3>3, <1>2
        <4> QED BY <4>1, <1>2, <1>9
      <3> QED BY <3>1, <3>2, <3>3, <1>2
    <2>2. Len(g) - 1 = m /\ Len(f) + 1 = m /\ m \in 1..m
      BY <1>2, <1>5, <1>9
    <2>3. DelimitersIn(g) = {i \in 1..m : g[i] = CR /\ g[i + 1] = LF}
      BY <2>2 DEF DelimitersIn
    <2> QED BY <2>1, <2>2, <2>3
  <1>12. FrameOf(b) = f /\ AfterFrame(b) = r
    BY <1>1, <1>4 DEF FrameOf, AfterFrame
  <1> QED BY <1>3, <1>5, <1>6, <1>8, <1>10, <1>11, <1>12

\* The frames, each closed by a delimiter.
Closed(fs) == FlattenSeq([i \in DOMAIN fs |-> fs[i] \o Delimiter])

\* Taking one more frame adds it and its delimiter.
LEMMA ClosedAppend ==
  ASSUME NEW S, CR \in S, LF \in S, NEW fs \in Seq(Seq(S)), NEW f \in Seq(S)
  PROVE  /\ Closed(Append(fs, f)) = Closed(fs) \o (f \o Delimiter)
         /\ Closed(fs) \in Seq(S)
  <1>1. PICK d : d = Delimiter
    OBVIOUS
  <1>2. d \in Seq(S)
    BY <1>1 DEF Delimiter
  <1>3. PICK a, b : a = [i \in DOMAIN fs |-> fs[i] \o d]
                 /\ b = [i \in DOMAIN Append(fs, f) |-> Append(fs, f)[i] \o d]
    OBVIOUS
  <1>4. a \in Seq(Seq(S)) /\ Len(a) = Len(fs) /\ Len(fs) \in Nat
        /\ \A i \in 1..Len(fs) : a[i] = fs[i] \o d
    <2>1. Len(fs) \in Nat /\ DOMAIN fs = 1..Len(fs) /\ \A i \in 1..Len(fs) : fs[i] \in Seq(S)
      OBVIOUS
    <2>2. \A i \in 1..Len(fs) : fs[i] \o d \in Seq(S)
      BY <2>1, <1>2, ConcatProperties
    <2>3. a = [i \in 1..Len(fs) |-> fs[i] \o d]
      BY <2>1, <1>3
    <2>4. a \in [1..Len(fs) -> Seq(S)]
      BY <2>2, <2>3
    <2>5. PICK T : T = Seq(S)
      OBVIOUS
    <2>6. a \in Seq(T) /\ Len(a) = Len(fs)
      <3>1. a \in [1..Len(fs) -> T]
        BY <2>4, <2>5
      <3>2. a \in Seq(T)
        <4>1. [1..Len(fs) -> T] \in {[1..n -> T] : n \in Nat}
          BY <2>1
        <4>2. a \in UNION {[1..n -> T] : n \in Nat}
          BY <4>1, <3>1, Zenon
        <4> QED BY <4>2, SeqDef, Zenon
      <3>3. DOMAIN a = 1..Len(fs) /\ DOMAIN a = 1..Len(a) /\ Len(a) \in Nat
        BY <3>1, <3>2, LenProperties
      <3> QED BY <3>2, <3>3, <2>1
    <2> QED BY <2>1, <2>3, <2>5, <2>6
  <1>5. PICK gs : gs = Append(fs, f)
    OBVIOUS
  <1>6. /\ gs \in Seq(Seq(S)) /\ Len(gs) = Len(fs) + 1 /\ DOMAIN gs = 1..(Len(fs) + 1)
        /\ \A i \in 1..Len(fs) : gs[i] = fs[i]
        /\ gs[Len(fs) + 1] = f
    BY <1>4, <1>5
  <1>7. b = [i \in 1..(Len(fs) + 1) |-> gs[i] \o d]
    BY <1>3, <1>5, <1>6
  <1>8. f \o d \in Seq(S)
    BY <1>2
  <1>9. PICK e : e = Append(a, f \o d)
    OBVIOUS
  <1>10. /\ e \in Seq(Seq(S)) /\ DOMAIN e = 1..(Len(fs) + 1)
         /\ \A i \in 1..Len(fs) : e[i] = fs[i] \o d
         /\ e[Len(fs) + 1] = f \o d
    <2>1. PICK x : x = f \o d
      OBVIOUS
    <2>2. /\ e \in Seq(Seq(S)) /\ Len(e) = Len(a) + 1 /\ DOMAIN e = 1..Len(e)
          /\ \A i \in 1..Len(a) : e[i] = a[i]
          /\ e[Len(a) + 1] = x
      BY <2>1, <1>4, <1>8, <1>9
    <2> QED BY <2>1, <2>2, <1>4
  <1>11. \A i \in 1..(Len(fs) + 1) : e[i] = gs[i] \o d
    <2>1. \A i \in 1..(Len(fs) + 1) : i \in 1..Len(fs) \/ i = Len(fs) + 1
      BY <1>4
    <2> QED BY <2>1, <1>6, <1>10
  <1>12. e = [i \in DOMAIN e |-> e[i]]
    BY <1>10
  <1>13. b = e
    BY <1>7, <1>10, <1>11, <1>12
  <1>14. FlattenSeq(e) = FlattenSeq(a) \o (f \o d)
    BY <1>4, <1>8, <1>9, FlattenAppend
  <1>15. FlattenSeq(a) \in Seq(S)
    BY <1>4, FlattenIsSeq
  <1> QED BY <1>1, <1>3, <1>13, <1>14, <1>15 DEF Closed

-----------------------------------------------------------------------------
(* The inductive invariant *)

States == {"new", "waiting", "open", "closed", "reset", "dropped"}

Stations == {"start", "select", "accept", "next", "frames", "write", "exited"}

\* The clients, the network and the histories.
NetworkOK ==
    /\ client \in [Clients -> States]
    /\ flight \in [Clients -> Seq(Symbols)] /\ arrived \in [Clients -> Seq(Symbols)]
    /\ stream \in [Clients -> Seq(Symbols)] /\ frames \in [Clients -> Seq(Seq(Symbols))]
    /\ backlog \in Seq(Clients)
    /\ DOMAIN got = Clients /\ DOMAIN unread = Clients
    /\ \A c \in Clients : IsSeq(got[c]) /\ IsSeq(unread[c])

\* The process: its sockets, connections_, and the thread.  While it handles a
\* connection, that connection is managed and not visited again.
ConnOK(k) ==
    /\ k = [input |-> k.input, output |-> k.output]
    /\ k.input \in Seq(Symbols) /\ IsSeq(k.output)

ProcessOK ==
    /\ sockets \in [DOMAIN sockets -> Clients] /\ DOMAIN sockets \subseteq Fds
    /\ DOMAIN conns = DOMAIN sockets /\ conns = [fd \in DOMAIN conns |-> conns[fd]]
    /\ \A fd \in DOMAIN conns : ConnOK(conns[fd])
    /\ loop = [at |-> loop.at, ready |-> loop.ready, fd |-> loop.fd]
    /\ loop.at \in Stations /\ loop.ready \subseteq DOMAIN conns
    /\ loop.at \in {"frames", "write"} => loop.fd \in DOMAIN conns \ loop.ready
    /\ loop.at = "accept" => backlog # <<>>

Queued(c) == \E i \in 1..Len(backlog) : backlog[i] = c
Owned(c)  == \E fd \in DOMAIN sockets : sockets[fd] = c

\* A client is in the listen queue at most once, or has one descriptor, or
\* neither; nothing is known of it before it has a descriptor.
OwnershipOK ==
    /\ \A fd, gd \in DOMAIN sockets : sockets[fd] = sockets[gd] => fd = gd
    /\ \A i, j \in 1..Len(backlog) : backlog[i] = backlog[j] => i = j
    /\ \A c \in Clients :
          /\ Queued(c) => client[c] \in {"waiting", "closed"} /\ ~Owned(c)
          /\ Owned(c) => client[c] \in {"open", "closed", "reset"}
          /\ client[c] = "waiting" => Queued(c)
          /\ client[c] = "open" => Owned(c)
          /\ client[c] = "new" \/ Queued(c)
               => stream[c] = <<>> /\ frames[c] = <<>> /\ got[c] = <<>> /\ unread[c] = <<>>

\* fd is the connection the thread is working on.
InHand(fd) == loop.at \in {"frames", "write"} /\ loop.fd = fd

\* The frames taken and the rest of the input are the stream.
CutAtDelimiters(symbols, fs, rest) ==
    /\ symbols = Closed(fs) \o rest
    /\ \A i \in 1..Len(fs) : DelimitersIn(fs[i] \o Delimiter) = {Len(fs[i]) + 1}

FramingOK ==
    \A fd \in DOMAIN conns :
        /\ CutAtDelimiters(stream[sockets[fd]], frames[sockets[fd]], conns[fd].input)
        /\ InHand(fd) \/ ~HasFrame(conns[fd].input)

\* A client's frames are answered by these replies, one by one.
Answered(fs, replies) ==
    /\ Len(replies) = Len(fs)
    /\ \A i \in 1..Len(fs) : ~Unparsable(fs[i]) /\ replies[i].to = Parse(fs[i])

\* The same, but for a last frame without a word.
AnsweredToTheEnd(fs, replies) ==
    \/ Answered(fs, replies)
    \/ fs # <<>> /\ Unparsable(Last(fs)) /\ Answered(Front(fs), replies)

\* Only the connection in hand has a reply that is not written, unless its
\* client is gone.
RepliesOK ==
    /\ \A fd \in DOMAIN conns : client[sockets[fd]] = "open" =>
          /\ Answered(frames[sockets[fd]],
                      (got[sockets[fd]] \o unread[sockets[fd]]) \o conns[fd].output)
          /\ (loop.at = "write" /\ loop.fd = fd) \/ conns[fd].output = <<>>
    /\ \A c \in Clients : client[c] \in {"new", "waiting", "dropped"} =>
          AnsweredToTheEnd(frames[c], got[c] \o unread[c])

ServerInv == NetworkOK /\ ProcessOK /\ OwnershipOK /\ FramingOK /\ RepliesOK

-----------------------------------------------------------------------------
(* The clients and the network *)

\* No frames need no replies.
LEMMA NothingAnswered == Answered(<<>>, <<>> \o <<>>) /\ Answered(<<>>, (<<>> \o <<>>) \o <<>>)
  <1>1. <<>> \o <<>> = <<>>
    OBVIOUS
  <1> QED BY <1>1 DEF Answered

\* The server starts with nothing.
LEMMA InitServerInv == Init => ServerInv
  <1> SUFFICES ASSUME Init PROVE ServerInv
    OBVIOUS
  <1> USE DEF Init
  <1>0. IsSeq(<<>>)
    <2>1. <<>> \in Seq({})
      OBVIOUS
    <2> QED BY <2>1 DEF IsSeq
  <1>1. NetworkOK
    <2>1. flight \in [Clients -> Seq(Symbols)]
      BY ServerAssumption
    <2> QED BY <1>0, <2>1 DEF NetworkOK, States
  <1>2. ProcessOK
    <2>1. DOMAIN conns = {} /\ DOMAIN sockets = {}
      OBVIOUS
    <2>2. loop.at = "start" /\ loop.ready = {} /\ loop.fd = 0
      OBVIOUS
    <2>3. "start" \in Stations /\ "start" \notin {"frames", "write", "accept"}
      BY DEF Stations
    <2> QED BY <2>1, <2>2, <2>3 DEF ProcessOK
  <1>3. OwnershipOK
    BY DEF OwnershipOK, Queued, Owned
  <1>4. FramingOK
    BY DEF FramingOK
  <1>5. RepliesOK
    BY NothingAnswered DEF RepliesOK, AnsweredToTheEnd
  <1> QED BY <1>1, <1>2, <1>3, <1>4, <1>5 DEF ServerInv

\* A client connects: nothing is known of it.
LEMMA ConnectInv ==
  ASSUME ServerInv, NEW c \in Clients, Connect(c)
  PROVE  ServerInv'
  <1>1. /\ client[c] = "new" /\ client' = [client EXCEPT ![c] = "waiting"]
        /\ backlog' = Append(backlog, c) /\ loop.at # "start"
        /\ UNCHANGED <<flight, arrived, unread, got, sockets, conns, loop, stream, frames>>
    BY DEF Connect, history
  <1>2. /\ client \in [Clients -> States] /\ backlog \in Seq(Clients)
        /\ backlog' \in Seq(Clients) /\ Len(backlog') = Len(backlog) + 1 /\ Len(backlog) \in Nat
        /\ \A i \in 1..Len(backlog) : backlog'[i] = backlog[i]
        /\ backlog'[Len(backlog) + 1] = c /\ backlog' # <<>>
    <2>1. client \in [Clients -> States] /\ backlog \in Seq(Clients)
      BY DEF ServerInv, NetworkOK
    <2>2. /\ backlog' \in Seq(Clients) /\ Len(backlog') = Len(backlog) + 1 /\ Len(backlog) \in Nat
          /\ \A i \in 1..Len(backlog) : backlog'[i] = backlog[i]
          /\ backlog'[Len(backlog) + 1] = c
      BY <1>1, <2>1
    <2>3. backlog' # <<>>
      BY <2>2
    <2> QED BY <2>1, <2>2, <2>3
  <1>3. \A d \in Clients : client'[d] = IF d = c THEN "waiting" ELSE client[d]
    BY <1>1, <1>2
  <1>4. \A d \in Clients : Queued(d)' <=> Queued(d) \/ d = c
    <2>1. \A i \in 1..Len(backlog') : i \in 1..Len(backlog) \/ i = Len(backlog) + 1
      BY <1>2
    <2>2. \A i \in 1..Len(backlog) : i \in 1..Len(backlog')
      BY <1>2
    <2>3. Len(backlog) + 1 \in 1..Len(backlog')
      BY <1>2
    <2> QED BY <2>1, <2>2, <2>3, <1>2 DEF Queued
  <1>5. \A d \in Clients : Owned(d)' <=> Owned(d)
    BY <1>1 DEF Owned
  <1>6. ~Queued(c) /\ ~Owned(c)
    BY <1>1 DEF ServerInv, OwnershipOK
  <1>7. NetworkOK'
    BY <1>1, <1>2 DEF ServerInv, NetworkOK, States
  <1>8. ProcessOK'
    BY <1>1, <1>2 DEF ServerInv, ProcessOK
  <1>9. OwnershipOK'
    <2>1. \A i, j \in 1..Len(backlog') : backlog'[i] = backlog'[j] => i = j
      <3>1. \A i \in 1..Len(backlog') : i \in 1..Len(backlog) \/ i = Len(backlog) + 1
        BY <1>2
      <3>2. \A i \in 1..Len(backlog) : backlog'[i] # c
        BY <1>2, <1>6 DEF Queued
      <3>3. \A i, j \in 1..Len(backlog) : backlog'[i] = backlog'[j] => i = j
        BY <1>2 DEF ServerInv, OwnershipOK
      <3> QED BY <3>1, <3>2, <3>3, <1>2, Zenon
    <2>2. \A fd, gd \in DOMAIN sockets' : sockets'[fd] = sockets'[gd] => fd = gd
      BY <1>1 DEF ServerInv, OwnershipOK
    <2>3. ASSUME NEW d \in Clients
          PROVE  /\ Queued(d)' => client'[d] \in {"waiting", "closed"} /\ ~Owned(d)'
                 /\ Owned(d)' => client'[d] \in {"open", "closed", "reset"}
                 /\ client'[d] = "waiting" => Queued(d)'
                 /\ client'[d] = "open" => Owned(d)'
                 /\ client'[d] = "new" \/ Queued(d)'
                      => stream'[d] = <<>> /\ frames'[d] = <<>> /\ got'[d] = <<>> /\ unread'[d] = <<>>
      BY <1>1, <1>3, <1>4, <1>5, <1>6 DEF ServerInv, OwnershipOK
    <2> QED BY <2>1, <2>2, <2>3 DEF OwnershipOK
  <1>10. FramingOK'
    BY <1>1 DEF ServerInv, FramingOK, InHand
  <1>11. RepliesOK'
    <2>1. \A fd \in DOMAIN conns : sockets[fd] # c /\ sockets[fd] \in Clients
      BY <1>6 DEF ServerInv, ProcessOK, Owned
    <2>2. \A fd \in DOMAIN conns' : client'[sockets'[fd]] = client[sockets[fd]]
      BY <1>1, <1>3, <2>1
    <2>3. \A d \in Clients : client'[d] \in {"new", "waiting", "dropped"}
                               => client[d] \in {"new", "waiting", "dropped"}
      BY <1>1, <1>3
    <2> QED BY <1>1, <2>2, <2>3 DEF ServerInv, RepliesOK
  <1> QED BY <1>7, <1>8, <1>9, <1>10, <1>11 DEF ServerInv

\* Bytes arrive.
LEMMA DeliverInv ==
  ASSUME ServerInv, NEW c \in Clients, Deliver(c)
  PROVE  ServerInv'
  <1>1. /\ UNCHANGED <<client, unread, got, backlog, sockets, conns, loop, stream, frames>>
        /\ arrived' = [arrived EXCEPT ![c] = Append(arrived[c], Head(flight[c]))]
        /\ flight' = [flight EXCEPT ![c] = Tail(flight[c])] /\ flight[c] # <<>>
    BY DEF Deliver, history
  <1>2. arrived' \in [Clients -> Seq(Symbols)] /\ flight' \in [Clients -> Seq(Symbols)]
    BY <1>1 DEF ServerInv, NetworkOK
  <1>3. NetworkOK'
    BY <1>1, <1>2 DEF ServerInv, NetworkOK
  <1>4. ProcessOK'
    BY <1>1 DEF ServerInv, ProcessOK
  <1>5. OwnershipOK'
    BY <1>1 DEF ServerInv, OwnershipOK, Queued, Owned
  <1>6. FramingOK' /\ RepliesOK'
    BY <1>1 DEF ServerInv, FramingOK, RepliesOK, InHand
  <1> QED BY <1>3, <1>4, <1>5, <1>6 DEF ServerInv

\* A client takes a reply.
LEMMA ReceiveInv ==
  ASSUME ServerInv, NEW c \in Clients, Receive(c)
  PROVE  ServerInv'
  <1>1. /\ UNCHANGED <<client, flight, arrived, backlog, sockets, conns, loop, stream, frames>>
        /\ got' = [got EXCEPT ![c] = Append(got[c], Head(unread[c]))]
        /\ unread' = [unread EXCEPT ![c] = Tail(unread[c])]
        /\ unread[c] # <<>> /\ client[c] \in {"open", "dropped"}
    BY DEF Receive, history
  <1>2. /\ IsSeq(got'[c]) /\ IsSeq(unread'[c]) /\ got'[c] \o unread'[c] = got[c] \o unread[c]
        /\ \A d \in Clients \ {c} : got'[d] = got[d] /\ unread'[d] = unread[d]
        /\ DOMAIN got' = Clients /\ DOMAIN unread' = Clients
    BY <1>1, MoveHead DEF ServerInv, NetworkOK
  <1>3. \A d \in Clients : got'[d] \o unread'[d] = got[d] \o unread[d]
    BY <1>2
  <1>4. NetworkOK'
    BY <1>1, <1>2 DEF ServerInv, NetworkOK
  <1>5. ProcessOK'
    BY <1>1 DEF ServerInv, ProcessOK
  <1>6. OwnershipOK'
    <2>1. ~Queued(c) /\ client[c] # "new"
      BY <1>1 DEF ServerInv, OwnershipOK
    <2>2. \A d \in Clients : (Queued(d)' <=> Queued(d)) /\ (Owned(d)' <=> Owned(d))
      BY <1>1 DEF Queued, Owned
    <2>3. ASSUME NEW d \in Clients, client'[d] = "new" \/ Queued(d)'
          PROVE  stream'[d] = <<>> /\ frames'[d] = <<>> /\ got'[d] = <<>> /\ unread'[d] = <<>>
      BY <1>1, <1>2, <2>1, <2>2, <2>3 DEF ServerInv, OwnershipOK
    <2> QED BY <1>1, <2>2, <2>3 DEF ServerInv, OwnershipOK
  <1>7. FramingOK'
    BY <1>1 DEF ServerInv, FramingOK, InHand
  <1>8. RepliesOK'
    <2>1. \A fd \in DOMAIN conns : sockets[fd] \in Clients
      BY DEF ServerInv, ProcessOK
    <2>2. \A fd \in DOMAIN conns :
             got'[sockets[fd]] \o unread'[sockets[fd]] = got[sockets[fd]] \o unread[sockets[fd]]
      BY <2>1, <1>3
    <2> QED BY <1>1, <1>3, <2>2 DEF ServerInv, RepliesOK
  <1> QED BY <1>4, <1>5, <1>6, <1>7, <1>8 DEF ServerInv

\* A client closes its end.
LEMMA HangupInv ==
  ASSUME ServerInv, NEW c \in Clients, Hangup(c)
  PROVE  ServerInv'
  <1>1. /\ UNCHANGED <<arrived, got, backlog, sockets, conns, loop, stream, frames>>
        /\ client[c] \in {"waiting", "open"} /\ client' = [client EXCEPT ![c] = "closed"]
        /\ unread' = [unread EXCEPT ![c] = <<>>]
    BY DEF Hangup, history
  <1>2. PICK n \in 0..Len(flight[c]) : flight' = [flight EXCEPT ![c] = SubSeq(flight[c], 1, n)]
    BY DEF Hangup
  <1>3. flight' \in [Clients -> Seq(Symbols)]
    <2>1. SubSeq(flight[c], 1, n) \in Seq(Symbols)
      BY <1>2 DEF ServerInv, NetworkOK
    <2> QED BY <1>2, <2>1 DEF ServerInv, NetworkOK
  <1>4. /\ client' \in [Clients -> States]
        /\ \A d \in Clients : client'[d] = IF d = c THEN "closed" ELSE client[d]
    BY <1>1 DEF ServerInv, NetworkOK, States
  <1>5. /\ DOMAIN unread' = Clients /\ IsSeq(unread'[c]) /\ unread'[c] = <<>>
        /\ \A d \in Clients \ {c} : unread'[d] = unread[d]
    <2>1. <<>> \in Seq({})
      OBVIOUS
    <2> QED BY <1>1, <2>1 DEF ServerInv, NetworkOK, IsSeq
  <1>6. NetworkOK'
    BY <1>1, <1>3, <1>4, <1>5 DEF ServerInv, NetworkOK
  <1>7. ProcessOK'
    BY <1>1 DEF ServerInv, ProcessOK
  <1>8. OwnershipOK'
    <2>1. \A d \in Clients : (Queued(d)' <=> Queued(d)) /\ (Owned(d)' <=> Owned(d))
      BY <1>1 DEF Queued, Owned
    <2>2. ASSUME NEW d \in Clients
          PROVE  /\ Queued(d)' => client'[d] \in {"waiting", "closed"} /\ ~Owned(d)'
                 /\ Owned(d)' => client'[d] \in {"open", "closed", "reset"}
                 /\ client'[d] = "waiting" => Queued(d)'
                 /\ client'[d] = "open" => Owned(d)'
                 /\ client'[d] = "new" \/ Queued(d)'
                      => stream'[d] = <<>> /\ frames'[d] = <<>> /\ got'[d] = <<>> /\ unread'[d] = <<>>
      BY <1>1, <1>4, <1>5, <2>1 DEF ServerInv, OwnershipOK
    <2> QED BY <1>1, <2>2 DEF ServerInv, OwnershipOK
  <1>9. FramingOK'
    BY <1>1 DEF ServerInv, FramingOK, InHand
  <1>10. RepliesOK'
    <2>1. \A d \in Clients : client'[d] # "closed"
             => client'[d] = client[d] /\ unread'[d] = unread[d]
      BY <1>4, <1>5
    <2>2. \A fd \in DOMAIN conns' : sockets'[fd] \in Clients
      BY <1>1 DEF ServerInv, ProcessOK
    <2> QED BY <1>1, <2>1, <2>2 DEF ServerInv, RepliesOK
  <1> QED BY <1>6, <1>7, <1>8, <1>9, <1>10 DEF ServerInv

-----------------------------------------------------------------------------
(* The server's thread *)

\* The thread goes on to another station: it leaves a connection only without a
\* frame in it and, while the client is there, without a reply for it.
LEMMA LoopMoves ==
  ASSUME ServerInv, UNCHANGED <<network, sockets, conns, history>>,
         NEW at, NEW ready, loop' = [at |-> at, ready |-> ready, fd |-> loop.fd],
         at \in Stations, ready \subseteq DOMAIN conns, at = "accept" => backlog # <<>>,
         at \in {"frames", "write"} => loop.fd \in DOMAIN conns \ ready,
         \A fd \in DOMAIN conns : InHand(fd) => InHand(fd)' \/ ~HasFrame(conns[fd].input),
         \A fd \in DOMAIN conns : client[sockets[fd]] = "open"
            => conns[fd].output = <<>> \/ (at = "write" /\ loop.fd = fd)
  PROVE  ServerInv'
  <1>1. UNCHANGED <<client, flight, arrived, unread, got, backlog, sockets, conns, stream, frames>>
    BY DEF network, history
  <1>2. loop'.at = at /\ loop'.ready = ready /\ loop'.fd = loop.fd
    OBVIOUS
  <1>3. NetworkOK'
    BY <1>1 DEF ServerInv, NetworkOK
  <1>4. ProcessOK'
    BY <1>1, <1>2 DEF ServerInv, ProcessOK
  <1>5. OwnershipOK'
    BY <1>1 DEF ServerInv, OwnershipOK, Queued, Owned
  <1>6. FramingOK'
    BY <1>1 DEF ServerInv, FramingOK
  <1>7. RepliesOK'
    BY <1>1, <1>2 DEF ServerInv, RepliesOK
  <1> QED BY <1>3, <1>4, <1>5, <1>6, <1>7 DEF ServerInv

\* Nobody is in hand between the rounds.
LEMMA Between ==
  ASSUME ServerInv, loop.at \notin {"frames", "write"}
  PROVE  \A fd \in DOMAIN conns :
            /\ ~InHand(fd) /\ ~HasFrame(conns[fd].input)
            /\ client[sockets[fd]] = "open" => conns[fd].output = <<>>
  BY DEF ServerInv, FramingOK, RepliesOK, InHand

\* The process ends: no client that is there loses a reply that was not written.
LEMMA ExitInv ==
  ASSUME ServerInv, ProcessExits, UNCHANGED <<flight, arrived, unread, got, history>>,
         \A fd \in DOMAIN conns : client[sockets[fd]] = "open" => conns[fd].output = <<>>
  PROVE  ServerInv'
  <1>1. UNCHANGED <<flight, arrived, unread, got, stream, frames>>
    BY DEF history
  <1>2. /\ loop' = [at |-> "exited", ready |-> {}, fd |-> 0] /\ backlog' = <<>>
        /\ DOMAIN sockets' = {} /\ DOMAIN conns' = {} /\ sockets' \in [{} -> Clients]
        /\ conns' = [fd \in DOMAIN conns' |-> conns'[fd]]
    BY DEF ProcessExits
  <1>3. /\ client' \in [Clients -> States]
        /\ \A c \in Clients : client'[c] = IF client[c] \in {"waiting", "open"} THEN "dropped" ELSE client[c]
    BY DEF ProcessExits, ServerInv, NetworkOK, States
  <1>4. NetworkOK'
    BY <1>1, <1>2, <1>3 DEF ServerInv, NetworkOK
  <1>5. ProcessOK'
    <2>1. loop'.at = "exited" /\ loop'.ready = {} /\ loop'.fd = 0
      BY <1>2
    <2>2. "exited" \in Stations /\ "exited" \notin {"frames", "write", "accept"}
      BY DEF Stations
    <2> QED BY <1>2, <2>1, <2>2 DEF ProcessOK
  <1>6. OwnershipOK'
    <2>1. Len(backlog') = 0 /\ \A c \in Clients : ~Queued(c)' /\ ~Owned(c)'
      BY <1>2 DEF Queued, Owned
    <2>2. \A c \in Clients : client'[c] = "new" => client[c] = "new"
      BY <1>3
    <2>3. \A c \in Clients : client'[c] # "waiting" /\ client'[c] # "open"
      BY <1>3
    <2>4. \A i, j \in 1..Len(backlog') : backlog'[i] = backlog'[j] => i = j
      BY <2>1
    <2>5. \A fd, gd \in DOMAIN sockets' : sockets'[fd] = sockets'[gd] => fd = gd
      BY <1>2
    <2> QED BY <1>1, <2>1, <2>2, <2>3, <2>4, <2>5 DEF ServerInv, OwnershipOK
  <1>7. FramingOK'
    BY <1>2 DEF FramingOK
  <1>8. RepliesOK'
    <2>1. ASSUME NEW c \in Clients, client'[c] \in {"new", "waiting", "dropped"}
          PROVE  AnsweredToTheEnd(frames[c], got[c] \o unread[c])
      <3>1. CASE client[c] = "open"
        <4>1. PICK fd \in DOMAIN conns : sockets[fd] = c
          BY <3>1 DEF ServerInv, OwnershipOK, Owned, ProcessOK
        <4>2. Answered(frames[c], (got[c] \o unread[c]) \o <<>>)
          BY <3>1, <4>1 DEF ServerInv, RepliesOK
        <4>3. IsSeq(got[c] \o unread[c]) /\ (got[c] \o unread[c]) \o <<>> = got[c] \o unread[c]
          <5>1. IsSeq(got[c] \o unread[c]) /\ IsSeq(<<>>)
            BY SeqsOf DEF ServerInv, NetworkOK
          <5> QED BY <5>1, SeqsOf
        <4> QED BY <4>2, <4>3 DEF AnsweredToTheEnd
      <3>2. CASE client[c] # "open"
        <4>1. client[c] \in {"new", "waiting", "dropped"}
          BY <1>3, <2>1, <3>2
        <4> QED BY <4>1 DEF ServerInv, RepliesOK
      <3> QED BY <3>1, <3>2
    <2> QED BY <1>1, <1>2, <2>1 DEF RepliesOK
  <1> QED BY <1>4, <1>5, <1>6, <1>7, <1>8 DEF ServerInv

\* Start, select and the ends of the loops.
LEMMA StationsInv ==
  ASSUME ServerInv, Start \/ Select \/ EndRound \/ NoFrame
  PROVE  ServerInv'
  <1>0. loop = [at |-> loop.at, ready |-> loop.ready, fd |-> loop.fd] /\ loop.ready \subseteq DOMAIN conns
    BY DEF ServerInv, ProcessOK
  <1>1. CASE Start /\ ProcessExits
    <2>1. loop.at = "start" /\ UNCHANGED <<flight, arrived, unread, got, history>>
      BY <1>1 DEF Start
    <2> QED BY <1>1, <2>1, Between, ExitInv
  <1>2. CASE Start /\ ~ProcessExits
    <2>1. loop.at = "start" /\ UNCHANGED <<network, sockets, conns, history>>
          /\ loop' = [at |-> "select", ready |-> loop.ready, fd |-> loop.fd]
      BY <1>0, <1>2 DEF Start, network
    <2>2. "select" \in Stations /\ "select" \notin {"frames", "write", "accept"}
      BY DEF Stations
    <2> QED BY <1>0, <2>1, <2>2, Between, LoopMoves
  <1>3. CASE Select
    <2>1. PICK at, ready :
             /\ at \in {"accept", "next"} /\ (at = "accept" => backlog # <<>>)
             /\ ready \subseteq DOMAIN conns
             /\ loop' = [at |-> at, ready |-> ready, fd |-> loop.fd]
      <3>1. /\ (IF backlog # <<>> THEN "accept" ELSE "next") \in {"accept", "next"}
            /\ {fd \in DOMAIN conns : Readable(fd)} \subseteq DOMAIN conns
        OBVIOUS
      <3> QED BY <1>0, <1>3, <3>1 DEF Select
    <2>2. loop.at = "select" /\ UNCHANGED <<network, sockets, conns, history>>
      BY <1>3 DEF Select
    <2>3. at \in Stations /\ at \notin {"frames", "write"}
      BY <2>1 DEF Stations
    <2> QED BY <2>1, <2>2, <2>3, Between, LoopMoves
  <1>4. CASE EndRound
    <2>1. loop.at = "next" /\ UNCHANGED <<network, sockets, conns, history>>
          /\ loop' = [at |-> "select", ready |-> loop.ready, fd |-> loop.fd]
      BY <1>0, <1>4 DEF EndRound
    <2>2. "select" \in Stations /\ "select" \notin {"frames", "write", "accept"}
      BY DEF Stations
    <2> QED BY <1>0, <2>1, <2>2, Between, LoopMoves
  <1>5. CASE NoFrame
    <2>1. /\ loop.at = "frames" /\ UNCHANGED <<network, sockets, conns, history>>
          /\ loop' = [at |-> "next", ready |-> loop.ready, fd |-> loop.fd]
          /\ ~HasFrame(conns[loop.fd].input)
      BY <1>0, <1>5 DEF NoFrame
    <2>2. "next" \in Stations /\ "next" \notin {"frames", "write", "accept"}
      BY DEF Stations
    <2>3. \A fd \in DOMAIN conns : InHand(fd) => ~HasFrame(conns[fd].input)
      BY <2>1 DEF InHand
    <2>4. \A fd \in DOMAIN conns : client[sockets[fd]] = "open" => conns[fd].output = <<>>
      BY <2>1 DEF ServerInv, RepliesOK
    <2> QED BY <1>0, <2>1, <2>2, <2>3, <2>4, LoopMoves
  <1> QED BY <1>1, <1>2, <1>3, <1>4, <1>5

\* accept gives the first client of the queue a descriptor that nobody has, so
\* that emplace makes a new entry.
LEMMA AcceptInv ==
  ASSUME ServerInv, Accept
  PROVE  ServerInv'
  <1>1. /\ loop.at = "accept" /\ backlog # <<>> /\ backlog \in Seq(Clients)
        /\ UNCHANGED <<flight, arrived, unread, got, stream, frames>>
    BY DEF ServerInv, NetworkOK, ProcessOK, Accept, history
  <1>2. CASE FreeFds = {}
    BY <1>1, <1>2, Between, ExitInv DEF Accept
  <1>3. CASE FreeFds # {}
    <2>1. PICK fd : fd = Min(FreeFds)
      OBVIOUS
    <2>2. PICK c : c = Head(backlog)
      OBVIOUS
    <2>3. /\ sockets' = With(sockets, fd, c) /\ conns' = AddConnection(conns, fd)
          /\ backlog' = Tail(backlog)
          /\ client' = [client EXCEPT ![c] = IF client[c] = "waiting" THEN "open" ELSE client[c]]
          /\ loop' = [loop EXCEPT !.at = "next"]
      BY <1>3, <2>1, <2>2 DEF Accept
    <2>4. fd \in Fds /\ fd \notin DOMAIN sockets /\ DOMAIN conns = DOMAIN sockets
      <3>1. FreeFds \subseteq Nat
        BY DEF FreeFds, Fds
      <3>2. fd \in FreeFds
        BY <1>3, <2>1, <3>1, MinFacts
      <3> QED BY <3>2 DEF FreeFds, ServerInv, ProcessOK
    <2>5. PICK e : e = [input |-> <<>>, output |-> <<>>]
      OBVIOUS
    <2>6. /\ DOMAIN sockets' = DOMAIN sockets \cup {fd} /\ DOMAIN conns' = DOMAIN sockets'
          /\ sockets'[fd] = c /\ conns'[fd] = e
          /\ \A gd \in DOMAIN sockets : sockets'[gd] = sockets[gd] /\ conns'[gd] = conns[gd]
          /\ conns' = [gd \in DOMAIN conns' |-> conns'[gd]]
          /\ sockets' = [gd \in DOMAIN sockets' |-> sockets'[gd]]
      BY <2>3, <2>4, <2>5 DEF With, AddConnection
    <2>7. /\ c \in Clients /\ Queued(c) /\ ~Owned(c) /\ c = backlog[1]
          /\ backlog' \in Seq(Clients) /\ Len(backlog') = Len(backlog) - 1 /\ Len(backlog) \in Nat \ {0}
          /\ \A i \in 1..Len(backlog') : backlog'[i] = backlog[i + 1]
      <3>1. /\ c \in Clients /\ c = backlog[1] /\ Len(backlog) \in Nat \ {0}
            /\ backlog' \in Seq(Clients) /\ Len(backlog') = Len(backlog) - 1
            /\ \A i \in 1..Len(backlog') : backlog'[i] = backlog[i + 1]
        BY <1>1, <2>2, <2>3
      <3>2. Queued(c)
        BY <3>1 DEF Queued
      <3> QED BY <3>1, <3>2 DEF ServerInv, OwnershipOK
    <2>8. /\ client' \in [Clients -> States] /\ client[c] \in {"waiting", "closed"}
          /\ client'[c] \in {"open", "closed"} /\ (client[c] = "closed" => client'[c] = "closed")
          /\ \A d \in Clients \ {c} : client'[d] = client[d]
      <3>1. client \in [Clients -> States] /\ client[c] \in {"waiting", "closed"}
        BY <2>7 DEF ServerInv, NetworkOK, OwnershipOK
      <3> QED BY <3>1, <2>3, <2>7 DEF States
    <2>9. \A d \in Clients : Queued(d)' <=> Queued(d) /\ d # c
      <3> SUFFICES ASSUME NEW d \in Clients PROVE Queued(d)' <=> Queued(d) /\ d # c
        OBVIOUS
      <3>1. \A i, j \in 1..Len(backlog) : backlog[i] = backlog[j] => i = j
        BY DEF ServerInv, OwnershipOK
      <3>2. ASSUME NEW i \in 1..Len(backlog'), backlog'[i] = d PROVE Queued(d) /\ d # c
        <4>1. i + 1 \in 1..Len(backlog) /\ 1 \in 1..Len(backlog) /\ i + 1 # 1
          BY <2>7
        <4>2. backlog[i + 1] = d
          BY <2>7, <3>2
        <4> QED BY <4>1, <4>2, <3>1, <2>7 DEF Queued
      <3>3. ASSUME NEW i \in 1..Len(backlog), backlog[i] = d, d # c PROVE Queued(d)'
        <4>1. i # 1 /\ i - 1 \in 1..Len(backlog')
          BY <2>7, <3>3
        <4>2. backlog'[i - 1] = d
          BY <4>1, <2>7, <3>3
        <4> QED BY <4>1, <4>2 DEF Queued
      <3> QED BY <3>2, <3>3 DEF Queued
    <2>10. \A d \in Clients : Owned(d)' <=> Owned(d) \/ d = c
      BY <2>6 DEF Owned
    <2>11. stream[c] = <<>> /\ frames[c] = <<>> /\ got[c] = <<>> /\ unread[c] = <<>>
      BY <2>7 DEF ServerInv, OwnershipOK
    <2>12. loop' = [at |-> "next", ready |-> loop.ready, fd |-> loop.fd]
      BY <2>3 DEF ServerInv, ProcessOK
    <2>13. NetworkOK'
      BY <1>1, <2>7, <2>8 DEF ServerInv, NetworkOK
    <2>14. ProcessOK'
      <3>1. ConnOK(e)
        <4>1. <<>> \in Seq(Symbols)
          OBVIOUS
        <4> QED BY <2>5, <4>1 DEF ConnOK, IsSeq
      <3>2. \A gd \in DOMAIN conns' : ConnOK(conns'[gd])
        BY <2>4, <2>6, <3>1 DEF ServerInv, ProcessOK
      <3>3. sockets' \in [DOMAIN sockets' -> Clients]
        BY <2>4, <2>6, <2>7 DEF ServerInv, ProcessOK
      <3>4. DOMAIN sockets' \subseteq Fds
        BY <2>4, <2>6 DEF ServerInv, ProcessOK
      <3>5. loop'.at = "next" /\ loop'.ready = loop.ready /\ loop'.fd = loop.fd
        BY <2>12
      <3>6. loop.ready \subseteq DOMAIN conns'
        BY <2>4, <2>6 DEF ServerInv, ProcessOK
      <3>7. "next" \in Stations /\ "next" \notin {"frames", "write", "accept"}
        BY DEF Stations
      <3> QED BY <2>6, <2>12, <3>2, <3>3, <3>4, <3>5, <3>6, <3>7 DEF ProcessOK
    <2>15. OwnershipOK'
      <3>1. \A gd, hd \in DOMAIN sockets' : sockets'[gd] = sockets'[hd] => gd = hd
        <4>1. \A gd \in DOMAIN sockets : sockets[gd] # c
          BY <2>7 DEF Owned
        <4>2. \A gd, hd \in DOMAIN sockets : sockets[gd] = sockets[hd] => gd = hd
          BY DEF ServerInv, OwnershipOK
        <4> QED BY <4>1, <4>2, <2>6
      <3>2. \A i, j \in 1..Len(backlog') : backlog'[i] = backlog'[j] => i = j
        <4> SUFFICES ASSUME NEW i \in 1..Len(backlog'), NEW j \in 1..Len(backlog'), backlog'[i] = backlog'[j]
                     PROVE  i = j
          OBVIOUS
        <4>1. i + 1 \in 1..Len(backlog) /\ j + 1 \in 1..Len(backlog) /\ backlog[i + 1] = backlog[j + 1]
          BY <2>7
        <4>2. i + 1 = j + 1
          BY <4>1 DEF ServerInv, OwnershipOK
        <4> QED BY <4>2
      <3>3. ASSUME NEW d \in Clients
            PROVE  /\ Queued(d)' => client'[d] \in {"waiting", "closed"} /\ ~Owned(d)'
                   /\ Owned(d)' => client'[d] \in {"open", "closed", "reset"}
                   /\ client'[d] = "waiting" => Queued(d)'
                   /\ client'[d] = "open" => Owned(d)'
                   /\ client'[d] = "new" \/ Queued(d)'
                        => stream'[d] = <<>> /\ frames'[d] = <<>> /\ got'[d] = <<>> /\ unread'[d] = <<>>
        <4>1. CASE d = c
          BY <4>1, <2>8, <2>9, <2>10
        <4>2. CASE d # c
          BY <4>2, <1>1, <2>8, <2>9, <2>10 DEF ServerInv, OwnershipOK
        <4> QED BY <4>1, <4>2
      <3> QED BY <3>1, <3>2, <3>3 DEF OwnershipOK
    <2>16. FramingOK'
      <3>1. CutAtDelimiters(<<>>, <<>>, <<>>) /\ ~HasFrame(<<>>)
        <4>1. Closed(<<>>) = <<>>
          <5>1. [i \in DOMAIN <<>> |-> <<>>[i] \o Delimiter] = <<>>
            OBVIOUS
          <5> QED BY <5>1 DEF Closed, FlattenSeq
        <4> QED BY <4>1 DEF CutAtDelimiters, HasFrame, DelimitersIn
      <3>2. e.input = <<>>
        BY <2>5
      <3>3. \A gd \in DOMAIN conns :
               /\ CutAtDelimiters(stream[sockets[gd]], frames[sockets[gd]], conns[gd].input)
               /\ ~HasFrame(conns[gd].input)
        BY <1>1, Between DEF ServerInv, FramingOK
      <3> QED BY <1>1, <2>4, <2>6, <2>11, <3>1, <3>2, <3>3 DEF FramingOK
    <2>17. RepliesOK'
      <3>1. e.output = <<>>
        BY <2>5
      <3>2. \A gd \in DOMAIN conns : sockets[gd] # c /\ sockets[gd] \in Clients
        BY <2>4, <2>7 DEF Owned, ServerInv, ProcessOK
      <3>3. \A gd \in DOMAIN conns : client[sockets[gd]] = "open" =>
               /\ Answered(frames[sockets[gd]],
                           (got[sockets[gd]] \o unread[sockets[gd]]) \o conns[gd].output)
               /\ conns[gd].output = <<>>
        BY <1>1, Between DEF ServerInv, RepliesOK
      <3>4. ASSUME NEW gd \in DOMAIN conns', client'[sockets'[gd]] = "open"
            PROVE  /\ Answered(frames'[sockets'[gd]],
                               (got'[sockets'[gd]] \o unread'[sockets'[gd]]) \o conns'[gd].output)
                   /\ conns'[gd].output = <<>>
        <4>1. CASE gd = fd
          BY <4>1, <1>1, <2>6, <2>11, <3>1, NothingAnswered
        <4>2. CASE gd # fd
          <5>1. gd \in DOMAIN conns /\ sockets'[gd] = sockets[gd] /\ conns'[gd] = conns[gd]
            BY <4>2, <2>4, <2>6
          <5>2. client[sockets[gd]] = "open"
            BY <5>1, <3>2, <3>4, <2>8
          <5> QED BY <5>1, <5>2, <3>3, <1>1
        <4> QED BY <4>1, <4>2
      <3>5. \A d \in Clients : client'[d] \in {"new", "waiting", "dropped"}
                                 => client[d] \in {"new", "waiting", "dropped"}
        BY <2>8
      <3> QED BY <1>1, <3>4, <3>5 DEF ServerInv, RepliesOK
    <2> QED BY <2>13, <2>14, <2>15, <2>16, <2>17 DEF ServerInv
  <1> QED BY <1>2, <1>3

\* Remove: the entry and the socket go together, and nobody else is touched.  The
\* client's frames may end with one that was not answered.
LEMMA DropInv ==
  ASSUME ServerInv, NEW fd \in DOMAIN conns, Drop(fd), NEW c, c = sockets[fd],
         UNCHANGED <<flight, arrived, unread, got, backlog, stream>>,
         NEW ready, ready \subseteq DOMAIN conns \ {fd},
         loop' = [at |-> "next", ready |-> ready, fd |-> loop.fd],
         NEW fs \in Seq(Seq(Symbols)), frames' = [frames EXCEPT ![c] = fs],
         client[c] = "open" => AnsweredToTheEnd(fs, got[c] \o unread[c]),
         \A gd \in DOMAIN conns \ {fd} : ~InHand(gd)
  PROVE  ServerInv'
  <1>1. /\ conns' = Without(conns, fd) /\ sockets' = Without(sockets, fd)
        /\ client' = [client EXCEPT ![c] = IF client[c] = "open" THEN "dropped" ELSE client[c]]
    BY DEF Drop, RemoveConnection
  <1>2. /\ DOMAIN conns = DOMAIN sockets /\ c \in Clients /\ Owned(c)
        /\ \A gd \in DOMAIN conns : sockets[gd] \in Clients
        /\ \A gd \in DOMAIN conns \ {fd} : sockets[gd] # c
    BY DEF ServerInv, ProcessOK, OwnershipOK, Owned
  <1>3. /\ DOMAIN conns' = DOMAIN conns \ {fd} /\ DOMAIN sockets' = DOMAIN conns'
        /\ \A gd \in DOMAIN conns' : sockets'[gd] = sockets[gd] /\ conns'[gd] = conns[gd]
        /\ conns' = [gd \in DOMAIN conns' |-> conns'[gd]]
        /\ sockets' = [gd \in DOMAIN sockets' |-> sockets'[gd]]
    BY <1>1, <1>2 DEF Without
  <1>4. /\ client' \in [Clients -> States] /\ client[c] \in {"open", "closed", "reset"}
        /\ client'[c] \in {"dropped", "closed", "reset"} /\ (client'[c] = "dropped" => client[c] = "open")
        /\ \A d \in Clients \ {c} : client'[d] = client[d]
    <2>1. client \in [Clients -> States] /\ client[c] \in {"open", "closed", "reset"}
      BY <1>2 DEF ServerInv, NetworkOK, OwnershipOK
    <2> QED BY <2>1, <1>1, <1>2 DEF States
  <1>5. frames' \in [Clients -> Seq(Seq(Symbols))] /\ frames'[c] = fs
        /\ \A d \in Clients \ {c} : frames'[d] = frames[d]
    BY <1>2 DEF ServerInv, NetworkOK
  <1>6. \A d \in Clients : (Queued(d)' <=> Queued(d)) /\ (Owned(d)' <=> Owned(d) /\ d # c)
    <2>1. \A d \in Clients : Queued(d)' <=> Queued(d)
      BY DEF Queued
    <2>2. \A d \in Clients : Owned(d)' <=> Owned(d) /\ d # c
      BY <1>2, <1>3 DEF Owned
    <2> QED BY <2>1, <2>2
  <1>7. loop'.at = "next" /\ loop'.ready = ready /\ loop'.fd = loop.fd
    OBVIOUS
  <1>8. NetworkOK'
    BY <1>4, <1>5 DEF ServerInv, NetworkOK
  <1>9. ProcessOK'
    <2>1. \A gd \in DOMAIN conns' : ConnOK(conns'[gd])
      BY <1>3 DEF ServerInv, ProcessOK
    <2>2. sockets' \in [DOMAIN sockets' -> Clients]
      BY <1>2, <1>3
    <2>3. DOMAIN sockets' \subseteq Fds
      BY <1>2, <1>3 DEF ServerInv, ProcessOK
    <2>4. "next" \in Stations /\ "next" \notin {"frames", "write", "accept"}
      BY DEF Stations
    <2> QED BY <1>3, <1>7, <2>1, <2>2, <2>3, <2>4 DEF ProcessOK
  <1>10. OwnershipOK'
    <2>1. \A gd, hd \in DOMAIN sockets' : sockets'[gd] = sockets'[hd] => gd = hd
      BY <1>2, <1>3 DEF ServerInv, OwnershipOK
    <2>2. \A i, j \in 1..Len(backlog') : backlog'[i] = backlog'[j] => i = j
      BY DEF ServerInv, OwnershipOK
    <2>3. ~Queued(c)
      BY <1>2 DEF ServerInv, OwnershipOK
    <2>4. ASSUME NEW d \in Clients
          PROVE  /\ Queued(d)' => client'[d] \in {"waiting", "closed"} /\ ~Owned(d)'
                 /\ Owned(d)' => client'[d] \in {"open", "closed", "reset"}
                 /\ client'[d] = "waiting" => Queued(d)'
                 /\ client'[d] = "open" => Owned(d)'
                 /\ client'[d] = "new" \/ Queued(d)'
                      => stream'[d] = <<>> /\ frames'[d] = <<>> /\ got'[d] = <<>> /\ unread'[d] = <<>>
      <3>1. CASE d = c
        BY <3>1, <1>4, <1>6, <2>3
      <3>2. CASE d # c
        BY <3>2, <1>4, <1>5, <1>6 DEF ServerInv, OwnershipOK
      <3> QED BY <3>1, <3>2
    <2> QED BY <2>1, <2>2, <2>4 DEF OwnershipOK
  <1>11. FramingOK'
    <2>1. ASSUME NEW gd \in DOMAIN conns'
          PROVE  /\ CutAtDelimiters(stream'[sockets'[gd]], frames'[sockets'[gd]], conns'[gd].input)
                 /\ ~HasFrame(conns'[gd].input)
      <3>1. gd \in DOMAIN conns \ {fd} /\ sockets'[gd] = sockets[gd] /\ conns'[gd] = conns[gd]
        BY <1>3
      <3>2. frames'[sockets[gd]] = frames[sockets[gd]]
        BY <3>1, <1>2, <1>5
      <3> QED BY <3>1, <3>2 DEF ServerInv, FramingOK
    <2> QED BY <2>1 DEF FramingOK
  <1>12. RepliesOK'
    <2>1. ASSUME NEW gd \in DOMAIN conns', client'[sockets'[gd]] = "open"
          PROVE  /\ Answered(frames'[sockets'[gd]],
                             (got'[sockets'[gd]] \o unread'[sockets'[gd]]) \o conns'[gd].output)
                 /\ conns'[gd].output = <<>>
      <3>1. gd \in DOMAIN conns \ {fd} /\ sockets'[gd] = sockets[gd] /\ conns'[gd] = conns[gd]
        BY <1>3
      <3>2. frames'[sockets[gd]] = frames[sockets[gd]] /\ client[sockets[gd]] = "open"
        BY <2>1, <3>1, <1>2, <1>4, <1>5
      <3>3. ~(loop.at = "write" /\ loop.fd = gd)
        BY <3>1 DEF InHand
      <3> QED BY <3>1, <3>2, <3>3 DEF ServerInv, RepliesOK
    <2>2. ASSUME NEW d \in Clients, client'[d] \in {"new", "waiting", "dropped"}
          PROVE  AnsweredToTheEnd(frames'[d], got'[d] \o unread'[d])
      <3>1. CASE d = c
        BY <2>2, <3>1, <1>4, <1>5
      <3>2. CASE d # c
        BY <2>2, <3>2, <1>4, <1>5 DEF ServerInv, RepliesOK
      <3> QED BY <3>1, <3>2
    <2> QED BY <2>1, <2>2 DEF RepliesOK
  <1> QED BY <1>8, <1>9, <1>10, <1>11, <1>12 DEF ServerInv

\* A client that is there and not in hand has all its replies written.
LEMMA NothingQueued ==
  ASSUME ServerInv, NEW fd \in DOMAIN conns, client[sockets[fd]] = "open", loop.at # "write"
  PROVE  Answered(frames[sockets[fd]], got[sockets[fd]] \o unread[sockets[fd]])
  <1>1. PICK c : c = sockets[fd]
    OBVIOUS
  <1>2. c \in Clients /\ IsSeq(got[c]) /\ IsSeq(unread[c])
    BY <1>1 DEF ServerInv, ProcessOK, NetworkOK
  <1>3. Answered(frames[c], (got[c] \o unread[c]) \o <<>>)
    BY <1>1 DEF ServerInv, RepliesOK
  <1>4. IsSeq(got[c] \o unread[c]) /\ IsSeq(<<>>)
    BY <1>2, SeqsOf
  <1>5. (got[c] \o unread[c]) \o <<>> = got[c] \o unread[c]
    BY <1>4, SeqsOf
  <1> QED BY <1>1, <1>3, <1>5

\* The two buffers of a connection are written separately.
LEMMA InputSet ==
  ASSUME NEW k, ConnOK(k), NEW y
  PROVE  /\ [k EXCEPT !.input = y] = [input |-> y, output |-> k.output]
         /\ [k EXCEPT !.output = y] = [input |-> k.input, output |-> y]
  <1>1. PICK a, b : k = [input |-> a, output |-> b]
    BY DEF ConnOK
  <1> QED BY <1>1

\* A read moves bytes from the socket to the end of the input buffer, or ends
\* the connection.
LEMMA ReadInv ==
  ASSUME ServerInv, ReadFromSocket
  PROVE  ServerInv'
  <1>1. /\ loop.at = "next" /\ loop.ready \subseteq DOMAIN conns
        /\ UNCHANGED <<flight, unread, got, backlog, frames>>
    BY DEF ServerInv, ProcessOK, ReadFromSocket
  <1>2. PICK fd \in loop.ready :
          LET c == sockets[fd]
              n == IF Len(arrived[c]) < Chunk THEN Len(arrived[c]) ELSE Chunk
          IN  IF n = 0
              THEN /\ Drop(fd)
                   /\ loop' = [loop EXCEPT !.ready = @ \ {fd}]
                   /\ UNCHANGED <<arrived, stream>>
              ELSE /\ conns' = [conns EXCEPT ![fd].input = @ \o SubSeq(arrived[c], 1, n)]
                   /\ arrived' = [arrived EXCEPT ![c] = SubSeq(@, n + 1, Len(@))]
                   /\ stream' = [stream EXCEPT ![c] = @ \o SubSeq(arrived[c], 1, n)]
                   /\ loop' = [at |-> "frames", ready |-> loop.ready \ {fd}, fd |-> fd]
                   /\ UNCHANGED <<client, sockets>>
    BY DEF ReadFromSocket
  <1>3. PICK c : c = sockets[fd]
    OBVIOUS
  <1>4. PICK n : n = IF Len(arrived[c]) < Chunk THEN Len(arrived[c]) ELSE Chunk
    OBVIOUS
  <1>5. /\ fd \in DOMAIN conns /\ c \in Clients /\ DOMAIN conns = DOMAIN sockets
        /\ \A gd \in DOMAIN conns : sockets[gd] \in Clients
        /\ \A gd \in DOMAIN conns \ {fd} : sockets[gd] # c
        /\ arrived[c] \in Seq(Symbols) /\ n \in 0..Len(arrived[c])
    BY <1>1, <1>3, <1>4, ServerAssumption DEF ServerInv, ProcessOK, OwnershipOK, NetworkOK
  <1>6. CASE n = 0
    <2>1. Drop(fd) /\ UNCHANGED <<arrived, stream>>
          /\ loop' = [loop EXCEPT !.ready = loop.ready \ {fd}]
      BY <1>2, <1>3, <1>4, <1>6
    <2>2. loop' = [at |-> "next", ready |-> loop.ready \ {fd}, fd |-> loop.fd]
      BY <1>1, <2>1 DEF ServerInv, ProcessOK
    <2>3. frames' = [frames EXCEPT ![c] = frames[c]] /\ frames[c] \in Seq(Seq(Symbols))
      BY <1>1, <1>5 DEF ServerInv, NetworkOK
    <2>4. client[c] = "open" => AnsweredToTheEnd(frames[c], got[c] \o unread[c])
      BY <1>1, <1>3, <1>5, NothingQueued DEF AnsweredToTheEnd
    <2>5. \A gd \in DOMAIN conns \ {fd} : ~InHand(gd)
      BY <1>1 DEF InHand
    <2>6. loop.ready \ {fd} \subseteq DOMAIN conns \ {fd}
      BY <1>1
    <2> QED BY <1>1, <1>3, <1>5, <2>1, <2>2, <2>3, <2>4, <2>5, <2>6, DropInv
  <1>7. CASE n # 0
    <2>1. PICK x : x = SubSeq(arrived[c], 1, n)
      OBVIOUS
    <2>2. /\ conns' = [conns EXCEPT ![fd].input = conns[fd].input \o x]
          /\ arrived' = [arrived EXCEPT ![c] = SubSeq(arrived[c], n + 1, Len(arrived[c]))]
          /\ stream' = [stream EXCEPT ![c] = stream[c] \o x]
          /\ loop' = [at |-> "frames", ready |-> loop.ready \ {fd}, fd |-> fd]
          /\ UNCHANGED <<client, sockets>>
      BY <1>2, <1>3, <1>4, <1>7, <2>1
    <2>3. x \in Seq(Symbols) /\ SubSeq(arrived[c], n + 1, Len(arrived[c])) \in Seq(Symbols)
      BY <1>5, <2>1
    <2>4. PICK k : k = [input |-> conns[fd].input \o x, output |-> conns[fd].output]
      OBVIOUS
    <2>5. ConnOK(conns[fd]) /\ conns = [gd \in DOMAIN conns |-> conns[gd]]
      BY <1>5 DEF ServerInv, ProcessOK
    <2>6. k.input = conns[fd].input \o x /\ k.output = conns[fd].output /\ ConnOK(k)
      <3>1. k.input = conns[fd].input \o x /\ k.output = conns[fd].output
        BY <2>4
      <3>2. conns[fd].input \o x \in Seq(Symbols)
        BY <2>3, <2>5 DEF ConnOK
      <3> QED BY <2>4, <2>5, <3>1, <3>2 DEF ConnOK
    <2>7. conns' = [conns EXCEPT ![fd] = k]
      <3>1. PICK y : y = conns[fd].input \o x
        OBVIOUS
      <3>2. [conns[fd] EXCEPT !.input = y] = k
        BY <2>4, <2>5, <3>1, InputSet
      <3>3. conns' = [conns EXCEPT ![fd] = [conns[fd] EXCEPT !.input = y]]
        BY <1>5, <2>2, <3>1
      <3> QED BY <3>2, <3>3
    <2>8. /\ DOMAIN conns' = DOMAIN conns /\ conns'[fd] = k
          /\ \A gd \in DOMAIN conns \ {fd} : conns'[gd] = conns[gd]
          /\ conns' = [gd \in DOMAIN conns' |-> conns'[gd]]
      BY <1>5, <2>5, <2>7
    <2>9. loop'.at = "frames" /\ loop'.ready = loop.ready \ {fd} /\ loop'.fd = fd
      BY <2>2
    <2>10. /\ stream' \in [Clients -> Seq(Symbols)] /\ stream'[c] = stream[c] \o x
           /\ \A d \in Clients \ {c} : stream'[d] = stream[d]
      BY <1>5, <2>2, <2>3 DEF ServerInv, NetworkOK
    <2>11. NetworkOK'
      <3>1. arrived' \in [Clients -> Seq(Symbols)]
        BY <1>5, <2>2, <2>3 DEF ServerInv, NetworkOK
      <3> QED BY <1>1, <2>2, <2>10, <3>1 DEF ServerInv, NetworkOK
    <2>12. ProcessOK'
      <3>1. \A gd \in DOMAIN conns' : ConnOK(conns'[gd])
        BY <2>6, <2>8 DEF ServerInv, ProcessOK
      <3>2. loop' = [at |-> loop'.at, ready |-> loop'.ready, fd |-> loop'.fd]
        BY <2>2
      <3>3. "frames" \in Stations /\ "frames" # "accept"
        BY DEF Stations
      <3>4. loop'.ready \subseteq DOMAIN conns' /\ loop'.fd \in DOMAIN conns' \ loop'.ready
        BY <1>1, <1>5, <2>8, <2>9
      <3>5. sockets' \in [DOMAIN sockets' -> Clients] /\ DOMAIN sockets' \subseteq Fds
            /\ DOMAIN conns' = DOMAIN sockets'
        BY <2>2, <2>8 DEF ServerInv, ProcessOK
      <3> QED BY <2>8, <2>9, <3>1, <3>2, <3>3, <3>4, <3>5 DEF ProcessOK
    <2>13. OwnershipOK'
      <3>1. ~Queued(c) /\ client[c] # "new"
        BY <1>3, <1>5 DEF ServerInv, OwnershipOK, Owned
      <3>2. \A d \in Clients : (Queued(d)' <=> Queued(d)) /\ (Owned(d)' <=> Owned(d))
        BY <1>1, <2>2 DEF Queued, Owned
      <3>3. ASSUME NEW d \in Clients, client'[d] = "new" \/ Queued(d)'
            PROVE  stream'[d] = <<>> /\ frames'[d] = <<>> /\ got'[d] = <<>> /\ unread'[d] = <<>>
        BY <1>1, <2>2, <2>10, <3>1, <3>2, <3>3 DEF ServerInv, OwnershipOK
      <3> QED BY <1>1, <2>2, <3>2, <3>3 DEF ServerInv, OwnershipOK
    <2>14. FramingOK'
      <3>1. CutAtDelimiters(stream'[c], frames[c], k.input)
        <4>1. /\ stream[c] = Closed(frames[c]) \o conns[fd].input
              /\ \A i \in 1..Len(frames[c]) :
                    DelimitersIn(frames[c][i] \o Delimiter) = {Len(frames[c][i]) + 1}
          BY <1>3, <1>5 DEF ServerInv, FramingOK, CutAtDelimiters
        <4>2. IsSeq(Closed(frames[c])) /\ IsSeq(conns[fd].input) /\ IsSeq(x)
          <5>1. PICK S : S = Symbols \cup {CR, LF}
            OBVIOUS
          <5>2. frames[c] \in Seq(Seq(Symbols))
            BY <1>5 DEF ServerInv, NetworkOK
          <5>3. \A s \in Seq(Symbols) : s \in Seq(S)
            BY <5>1
          <5>4. frames[c] \in Seq(Seq(S))
            BY <5>2, <5>3, SeqMonotonic
          <5>5. Closed(frames[c]) \in Seq(S)
            BY <5>1, <5>4, ClosedAppend, EmptySeq
          <5> QED BY <5>5, <2>3, <2>5 DEF IsSeq, ConnOK
        <4>3. stream'[c] = Closed(frames[c]) \o (conns[fd].input \o x)
          <5>1. PICK a, b : a = Closed(frames[c]) /\ b = conns[fd].input
            OBVIOUS
          <5>2. IsSeq(a) /\ IsSeq(b) /\ IsSeq(x)
            BY <4>2, <5>1
          <5>3. a \o (b \o x) = (a \o b) \o x
            BY <5>2, Associative
          <5> QED BY <2>10, <4>1, <5>1, <5>3
        <4> QED BY <2>6, <4>1, <4>3 DEF CutAtDelimiters
      <3>2. ASSUME NEW gd \in DOMAIN conns \ {fd}
            PROVE  /\ CutAtDelimiters(stream'[sockets[gd]], frames[sockets[gd]], conns[gd].input)
                   /\ ~HasFrame(conns[gd].input)
        <4>1. stream'[sockets[gd]] = stream[sockets[gd]]
          BY <1>5, <2>10
        <4> QED BY <1>1, <4>1, Between DEF ServerInv, FramingOK
      <3>3. InHand(fd)'
        BY <2>9 DEF InHand
      <3> QED BY <1>1, <1>3, <2>2, <2>8, <3>1, <3>2, <3>3 DEF FramingOK
    <2>15. RepliesOK'
      <3>1. \A gd \in DOMAIN conns : conns'[gd].output = conns[gd].output
        BY <2>6, <2>8
      <3>2. \A gd \in DOMAIN conns : client[sockets[gd]] = "open" => conns[gd].output = <<>>
        BY <1>1, Between
      <3> QED BY <1>1, <2>2, <2>8, <3>1, <3>2 DEF ServerInv, RepliesOK
    <2> QED BY <2>11, <2>12, <2>13, <2>14, <2>15 DEF ServerInv
  <1> QED BY <1>6, <1>7

\* One more frame and its reply.
LEMMA AnswerOne ==
  ASSUME NEW fs, NEW rs, IsSeq(fs), IsSeq(rs), Answered(fs, rs), NEW f, NEW r,
         ~Unparsable(f), r.to = Parse(f)
  PROVE  Answered(Append(fs, f), Append(rs, r))
  <1>1. PICK S : fs \in Seq(S) /\ rs \in Seq(S)
    BY CommonSet
  <1>2. PICK T : T = S \cup {f, r}
    OBVIOUS
  <1>3. fs \in Seq(T) /\ rs \in Seq(T) /\ f \in T /\ r \in T
    BY <1>1, <1>2
  <1>4. PICK gs, qs : gs = Append(fs, f) /\ qs = Append(rs, r)
    OBVIOUS
  <1>5. Len(fs) \in Nat /\ Len(rs) = Len(fs)
    BY <1>1 DEF Answered
  <1>6. /\ Len(gs) = Len(fs) + 1 /\ gs[Len(fs) + 1] = f /\ \A i \in 1..Len(fs) : gs[i] = fs[i]
        /\ Len(qs) = Len(fs) + 1 /\ qs[Len(fs) + 1] = r /\ \A i \in 1..Len(fs) : qs[i] = rs[i]
    BY <1>3, <1>4, <1>5
  <1>7. ASSUME NEW i \in 1..Len(gs) PROVE ~Unparsable(gs[i]) /\ qs[i].to = Parse(gs[i])
    <2>1. i \in 1..Len(fs) \/ i = Len(fs) + 1
      BY <1>5, <1>6
    <2> QED BY <2>1, <1>6 DEF Answered
  <1> QED BY <1>4, <1>6, <1>7 DEF Answered

\* One more frame that has no word, after which nothing is answered.
LEMMA AnswerLast ==
  ASSUME NEW fs, NEW rs, IsSeq(fs), Answered(fs, rs), NEW f, Unparsable(f)
  PROVE  AnsweredToTheEnd(Append(fs, f), rs)
  <1>1. PICK S : fs \in Seq(S)
    BY DEF IsSeq
  <1>2. PICK T : T = S \cup {f}
    OBVIOUS
  <1>3. fs \in Seq(T) /\ f \in T
    BY <1>1, <1>2
  <1>4. PICK gs : gs = Append(fs, f)
    OBVIOUS
  <1>5. /\ gs \in Seq(T) /\ Len(fs) \in Nat /\ Len(gs) = Len(fs) + 1 /\ gs[Len(gs)] = f
        /\ \A i \in 1..Len(fs) : gs[i] = fs[i]
    BY <1>3, <1>4
  <1>6. gs # <<>> /\ Last(gs) = f
    BY <1>5 DEF Last
  <1>7. SubSeq(gs, 1, Len(fs)) = fs
    <2>1. /\ SubSeq(gs, 1, Len(fs)) \in Seq(T) /\ Len(SubSeq(gs, 1, Len(fs))) = Len(fs)
          /\ \A i \in 1..Len(fs) : SubSeq(gs, 1, Len(fs))[i] = fs[i]
      BY <1>5
    <2> QED BY <2>1, <1>3, SeqEqual
  <1>8. Front(gs) = fs
    BY <1>5, <1>7 DEF Front
  <1> QED BY <1>4, <1>6, <1>8 DEF AnsweredToTheEnd

\* One frame: it is cut from the input, and its reply is the last of the output.
LEMMA HandleInv ==
  ASSUME ServerInv, HandleFrame
  PROVE  ServerInv'
  <1>1. PICK fd, c : fd = loop.fd /\ c = sockets[fd]
    OBVIOUS
  <1>2. /\ loop.at = "frames" /\ HasFrame(conns[fd].input) /\ fd \in DOMAIN conns \ loop.ready
        /\ loop.ready \subseteq DOMAIN conns
        /\ UNCHANGED <<flight, arrived, unread, got, backlog, stream>>
    BY <1>1 DEF ServerInv, ProcessOK, HandleFrame
  <1>3. /\ c \in Clients /\ DOMAIN conns = DOMAIN sockets /\ ConnOK(conns[fd])
        /\ \A gd \in DOMAIN conns : sockets[gd] \in Clients
        /\ \A gd \in DOMAIN conns \ {fd} : sockets[gd] # c
        /\ conns = [gd \in DOMAIN conns |-> conns[gd]]
    BY <1>1, <1>2 DEF ServerInv, ProcessOK, OwnershipOK
  <1>4. PICK b, o : b = conns[fd].input /\ o = conns[fd].output
    OBVIOUS
  <1>5. b \in Seq(Symbols) /\ IsSeq(o) /\ HasFrame(b)
    BY <1>2, <1>3, <1>4 DEF ConnOK
  <1>6. PICK f, r : f = FrameOf(b) /\ r = AfterFrame(b)
    OBVIOUS
  <1>7. /\ f \in Seq(Symbols) /\ r \in Seq(Symbols) /\ CR \in Symbols /\ LF \in Symbols
        /\ b = (f \o Delimiter) \o r /\ DelimitersIn(f \o Delimiter) = {Len(f) + 1}
    BY <1>5, <1>6, CutFrame
  <1>8. PICK fs : fs = Append(frames[c], f)
    OBVIOUS
  <1>9. frames[c] \in Seq(Seq(Symbols)) /\ fs \in Seq(Seq(Symbols))
    BY <1>3, <1>7, <1>8 DEF ServerInv, NetworkOK
  <1>10. PICK now \in 1..MaxTime, at \in [DOMAIN shard.store -> 1..MaxTime] :
           LET done  == Dispatch(shard, Parse(f), now, at)
               wire  == Serialize(done.response)
               reply == [to |-> Parse(f), kind |-> wire.kind, data |-> wire.data]
           IN  /\ frames' = [frames EXCEPT ![c] = fs]
               /\ IF Unparsable(f)
                  THEN /\ Drop(fd)
                       /\ loop' = [loop EXCEPT !.at = "next"]
                       /\ UNCHANGED shard
                  ELSE /\ shard' = done.shard
                       /\ conns' = [conns EXCEPT ![fd].input = AfterFrame(@),
                                                 ![fd].output = Append(@, reply)]
                       /\ loop' = [loop EXCEPT !.at = "write"]
                       /\ UNCHANGED <<client, sockets>>
    BY <1>1, <1>4, <1>6, <1>8 DEF HandleFrame
  <1>11. PICK reply : reply = [to |-> Parse(f), kind |-> Serialize(Dispatch(shard, Parse(f), now, at).response).kind,
                               data |-> Serialize(Dispatch(shard, Parse(f), now, at).response).data]
    OBVIOUS
  <1>12. reply.to = Parse(f)
    BY <1>11
  <1>13. \A gd \in DOMAIN conns \ {fd} : ~InHand(gd)
    BY <1>1 DEF InHand
  <1>14. frames' = [frames EXCEPT ![c] = fs]
    BY <1>10
  <1>15. CASE Unparsable(f)
    <2>1. Drop(fd) /\ loop' = [loop EXCEPT !.at = "next"]
      BY <1>10, <1>15
    <2>2. loop' = [at |-> "next", ready |-> loop.ready, fd |-> loop.fd]
      BY <2>1 DEF ServerInv, ProcessOK
    <2>3. client[c] = "open" => AnsweredToTheEnd(fs, got[c] \o unread[c])
      <3> SUFFICES ASSUME client[c] = "open" PROVE AnsweredToTheEnd(fs, got[c] \o unread[c])
        OBVIOUS
      <3>1. Answered(frames[c], got[c] \o unread[c])
        BY <1>1, <1>2, NothingQueued
      <3>2. IsSeq(frames[c])
        BY <1>9 DEF IsSeq
      <3> QED BY <3>1, <3>2, <1>8, <1>15, AnswerLast
    <2>4. loop.ready \subseteq DOMAIN conns \ {fd}
      BY <1>2
    <2> QED BY <1>1, <1>2, <1>9, <1>13, <1>14, <2>1, <2>2, <2>3, <2>4, DropInv
  <1>16. CASE ~Unparsable(f)
    <2>1. PICK k : k = [input |-> r, output |-> Append(o, reply)]
      OBVIOUS
    <2>2. /\ conns' = [conns EXCEPT ![fd].input = AfterFrame(@), ![fd].output = Append(@, reply)]
          /\ loop' = [loop EXCEPT !.at = "write"] /\ UNCHANGED <<client, sockets>>
      BY <1>10, <1>11, <1>16
    <2>3. k.input = r /\ k.output = Append(o, reply) /\ ConnOK(k)
      <3>1. k.input = r /\ k.output = Append(o, reply)
        BY <2>1
      <3>2. IsSeq(Append(o, reply))
        BY <1>5, SeqsOf
      <3> QED BY <1>7, <2>1, <3>1, <3>2 DEF ConnOK
    <2>4. conns' = [conns EXCEPT ![fd] = k]
      <3>1. PICK q : q = conns[fd]
        OBVIOUS
      <3>2. conns' = [conns EXCEPT ![fd] = [q EXCEPT !.input = AfterFrame(q.input),
                                                     !.output = Append(q.output, reply)]]
        BY <1>2, <1>3, <2>2, <3>1
      <3>3. PICK a, z : q = [input |-> a, output |-> z] /\ a = b /\ z = o
        BY <1>3, <1>4, <3>1 DEF ConnOK
      <3>4. [q EXCEPT !.input = AfterFrame(q.input), !.output = Append(q.output, reply)] = k
        <4>1. q.input = b /\ q.output = o
          BY <3>3
        <4>2. PICK w : w = Append(o, reply)
          OBVIOUS
        <4>3. PICK p : p = [q EXCEPT !.input = r]
          OBVIOUS
        <4>4. p = [input |-> r, output |-> z]
          BY <3>3, <4>3
        <4>5. [p EXCEPT !.output = w] = [input |-> r, output |-> w]
          BY <4>4
        <4>6. [q EXCEPT !.input = r, !.output = w] = [p EXCEPT !.output = w]
          BY <4>3, Zenon
        <4> QED BY <1>6, <2>1, <4>1, <4>2, <4>5, <4>6
      <3> QED BY <3>2, <3>4
    <2>5. /\ DOMAIN conns' = DOMAIN conns /\ conns'[fd] = k
          /\ \A gd \in DOMAIN conns \ {fd} : conns'[gd] = conns[gd]
          /\ conns' = [gd \in DOMAIN conns' |-> conns'[gd]]
      BY <1>2, <1>3, <2>4
    <2>6. /\ loop' = [at |-> "write", ready |-> loop.ready, fd |-> fd]
          /\ loop'.at = "write" /\ loop'.ready = loop.ready /\ loop'.fd = fd
      BY <1>1, <2>2 DEF ServerInv, ProcessOK
    <2>7. /\ frames' \in [Clients -> Seq(Seq(Symbols))] /\ frames'[c] = fs
          /\ \A d \in Clients \ {c} : frames'[d] = frames[d]
      BY <1>3, <1>9, <1>14 DEF ServerInv, NetworkOK
    <2>8. NetworkOK'
      BY <1>2, <2>2, <2>7 DEF ServerInv, NetworkOK
    <2>9. ProcessOK'
      <3>1. \A gd \in DOMAIN conns' : ConnOK(conns'[gd])
        BY <2>3, <2>5 DEF ServerInv, ProcessOK
      <3>2. "write" \in Stations /\ "write" # "accept"
        BY DEF Stations
      <3>3. loop'.ready \subseteq DOMAIN conns' /\ loop'.fd \in DOMAIN conns' \ loop'.ready
        BY <1>2, <2>5, <2>6
      <3>4. /\ sockets' \in [DOMAIN sockets' -> Clients] /\ DOMAIN sockets' \subseteq Fds
            /\ DOMAIN conns' = DOMAIN sockets'
        BY <2>2, <2>5 DEF ServerInv, ProcessOK
      <3> QED BY <2>5, <2>6, <3>1, <3>2, <3>3, <3>4 DEF ProcessOK
    <2>10. OwnershipOK'
      <3>1. ~Queued(c) /\ client[c] # "new"
        BY <1>1, <1>2, <1>3 DEF ServerInv, OwnershipOK, Owned
      <3>2. \A d \in Clients : (Queued(d)' <=> Queued(d)) /\ (Owned(d)' <=> Owned(d))
        BY <1>2, <2>2 DEF Queued, Owned
      <3>3. ASSUME NEW d \in Clients, client'[d] = "new" \/ Queued(d)'
            PROVE  stream'[d] = <<>> /\ frames'[d] = <<>> /\ got'[d] = <<>> /\ unread'[d] = <<>>
        BY <1>2, <2>2, <2>7, <3>1, <3>2, <3>3 DEF ServerInv, OwnershipOK
      <3> QED BY <1>2, <2>2, <3>2, <3>3 DEF ServerInv, OwnershipOK
    <2>11. FramingOK'
      <3>1. CutAtDelimiters(stream[c], fs, r)
        <4>1. /\ stream[c] = Closed(frames[c]) \o b
              /\ \A i \in 1..Len(frames[c]) :
                    DelimitersIn(frames[c][i] \o Delimiter) = {Len(frames[c][i]) + 1}
          BY <1>1, <1>2, <1>4 DEF ServerInv, FramingOK, CutAtDelimiters
        <4>2. PICK a, e : a = Closed(frames[c]) /\ e = f \o Delimiter
          OBVIOUS
        <4>3. a \in Seq(Symbols) /\ Closed(fs) = a \o e
          BY <1>7, <1>8, <1>9, <4>2, ClosedAppend
        <4>4. IsSeq(a) /\ IsSeq(e) /\ IsSeq(r)
          <5>1. PICK d : d = Delimiter
            OBVIOUS
          <5>2. d \in Seq(Symbols)
            BY <1>7, <5>1 DEF Delimiter
          <5>3. e \in Seq(Symbols)
            BY <1>7, <4>2, <5>1, <5>2, ConcatProperties
          <5> QED BY <1>7, <4>3, <5>3 DEF IsSeq
        <4>5. a \o (e \o r) = (a \o e) \o r
          BY <4>4, Associative
        <4>6. stream[c] = Closed(fs) \o r
          BY <1>7, <4>1, <4>2, <4>3, <4>5
        <4>7. \A i \in 1..Len(fs) : DelimitersIn(fs[i] \o Delimiter) = {Len(fs[i]) + 1}
          <5>1. /\ Len(frames[c]) \in Nat /\ Len(fs) = Len(frames[c]) + 1
                /\ fs[Len(frames[c]) + 1] = f /\ \A i \in 1..Len(frames[c]) : fs[i] = frames[c][i]
            BY <1>7, <1>8, <1>9
          <5>2. \A i \in 1..Len(fs) : i \in 1..Len(frames[c]) \/ i = Len(frames[c]) + 1
            BY <5>1
          <5> QED BY <1>7, <4>1, <5>1, <5>2
        <4> QED BY <4>6, <4>7 DEF CutAtDelimiters
      <3>2. ASSUME NEW gd \in DOMAIN conns \ {fd}
            PROVE  /\ CutAtDelimiters(stream[sockets[gd]], frames'[sockets[gd]], conns[gd].input)
                   /\ ~HasFrame(conns[gd].input)
        <4>1. frames'[sockets[gd]] = frames[sockets[gd]]
          BY <1>3, <2>7
        <4> QED BY <1>13, <4>1 DEF ServerInv, FramingOK
      <3>3. InHand(fd)'
        BY <2>6 DEF InHand
      <3> QED BY <1>1, <1>2, <2>2, <2>3, <2>5, <2>7, <3>1, <3>2, <3>3 DEF FramingOK
    <2>12. RepliesOK'
      <3>1. ASSUME client[c] = "open"
            PROVE  Answered(fs, (got[c] \o unread[c]) \o k.output)
        <4>1. PICK s : s = got[c] \o unread[c]
          OBVIOUS
        <4>2. IsSeq(s) /\ IsSeq(o)
          BY <1>3, <1>5, <4>1, SeqsOf DEF ServerInv, NetworkOK
        <4>3. IsSeq(s \o o) /\ s \o Append(o, reply) = Append(s \o o, reply)
          <5>1. IsSeq(s \o o)
            BY <4>2, SeqsOf
          <5>2. s \o Append(o, reply) = Append(s \o o, reply)
            BY <4>2, SeqsOf
          <5> QED BY <5>1, <5>2
        <4>4. Answered(frames[c], s \o o)
          BY <1>1, <1>2, <1>4, <3>1, <4>1 DEF ServerInv, RepliesOK
        <4>5. Answered(fs, Append(s \o o, reply))
          <5>1. IsSeq(frames[c])
            BY <1>9 DEF IsSeq
          <5> QED BY <1>8, <1>12, <1>16, <4>3, <4>4, <5>1, AnswerOne
        <4> QED BY <2>3, <4>1, <4>3, <4>5
      <3>2. ASSUME NEW gd \in DOMAIN conns \ {fd}, client[sockets[gd]] = "open"
            PROVE  /\ Answered(frames'[sockets[gd]],
                               (got[sockets[gd]] \o unread[sockets[gd]]) \o conns[gd].output)
                   /\ conns[gd].output = <<>>
        <4>1. frames'[sockets[gd]] = frames[sockets[gd]]
          BY <1>3, <2>7
        <4>2. ~(loop.at = "write" /\ loop.fd = gd)
          BY <1>2
        <4> QED BY <3>2, <4>1, <4>2 DEF ServerInv, RepliesOK
      <3>3. client[c] \notin {"new", "waiting", "dropped"}
        BY <1>1, <1>2, <1>3 DEF ServerInv, OwnershipOK, Owned
      <3>4. ASSUME NEW d \in Clients, client[d] \in {"new", "waiting", "dropped"}
            PROVE  AnsweredToTheEnd(frames'[d], got[d] \o unread[d])
        BY <2>7, <3>3, <3>4 DEF ServerInv, RepliesOK
      <3>5. ASSUME NEW gd \in DOMAIN conns', client'[sockets'[gd]] = "open"
            PROVE  /\ Answered(frames'[sockets'[gd]],
                               (got'[sockets'[gd]] \o unread'[sockets'[gd]]) \o conns'[gd].output)
                   /\ (loop'.at = "write" /\ loop'.fd = gd) \/ conns'[gd].output = <<>>
        <4>1. CASE gd = fd
          BY <1>1, <1>2, <2>2, <2>5, <2>6, <2>7, <3>1, <3>5, <4>1
        <4>2. CASE gd # fd
          BY <1>2, <2>2, <2>5, <3>2, <3>5, <4>2
        <4> QED BY <4>1, <4>2
      <3> QED BY <1>2, <2>2, <3>4, <3>5 DEF RepliesOK
    <2> QED BY <2>8, <2>9, <2>10, <2>11, <2>12 DEF ServerInv
  <1> QED BY <1>15, <1>16

\* A write empties the output buffer: what it held the client has, or the client
\* is gone.
LEMMA WrittenInv ==
  ASSUME ServerInv, loop.at = "write", NEW fd, fd = loop.fd, NEW c, c = sockets[fd],
         conns' = [conns EXCEPT ![fd].output = <<>>], loop' = [loop EXCEPT !.at = "frames"],
         UNCHANGED <<arrived, got, backlog, sockets, history>>,
         flight' \in [Clients -> Seq(Symbols)],
         DOMAIN unread' = Clients, IsSeq(unread'[c]),
         \A d \in Clients \ {c} : unread'[d] = unread[d],
         client' \in [Clients -> States], \A d \in Clients \ {c} : client'[d] = client[d],
         client'[c] \in {"open", "closed", "reset"},
         client'[c] = "open" =>
            /\ client[c] = "open"
            /\ (got[c] \o unread'[c]) \o <<>> = (got[c] \o unread[c]) \o conns[fd].output
  PROVE  ServerInv'
  <1>1. /\ fd \in DOMAIN conns \ loop.ready /\ loop.ready \subseteq DOMAIN conns
        /\ c \in Clients /\ DOMAIN conns = DOMAIN sockets /\ ConnOK(conns[fd])
        /\ \A gd \in DOMAIN conns : sockets[gd] \in Clients
        /\ \A gd \in DOMAIN conns \ {fd} : sockets[gd] # c
        /\ conns = [gd \in DOMAIN conns |-> conns[gd]]
    BY DEF ServerInv, ProcessOK, OwnershipOK
  <1>2. UNCHANGED <<arrived, got, backlog, sockets, stream, frames>>
    BY DEF history
  <1>3. PICK k : k = [input |-> conns[fd].input, output |-> <<>>]
    OBVIOUS
  <1>4. k.input = conns[fd].input /\ k.output = <<>> /\ ConnOK(k)
    <2>1. k.input = conns[fd].input /\ k.output = <<>>
      BY <1>3
    <2>2. IsSeq(<<>>)
      <3>1. <<>> \in Seq({})
        OBVIOUS
      <3> QED BY <3>1 DEF IsSeq
    <2> QED BY <1>1, <1>3, <2>1, <2>2 DEF ConnOK
  <1>5. conns' = [conns EXCEPT ![fd] = k]
    <2>1. PICK q : q = conns[fd]
      OBVIOUS
    <2>2. conns' = [conns EXCEPT ![fd] = [q EXCEPT !.output = <<>>]]
      BY <1>1, <2>1
    <2>3. [q EXCEPT !.output = <<>>] = [input |-> q.input, output |-> <<>>]
      <3>1. PICK y : y = <<>>
        OBVIOUS
      <3>2. ConnOK(q)
        BY <1>1, <2>1
      <3>3. [q EXCEPT !.output = y] = [input |-> q.input, output |-> y]
        BY <3>2, InputSet
      <3> QED BY <3>1, <3>3
    <2> QED BY <1>3, <2>1, <2>2, <2>3
  <1>6. /\ DOMAIN conns' = DOMAIN conns /\ conns'[fd] = k
        /\ \A gd \in DOMAIN conns \ {fd} : conns'[gd] = conns[gd]
        /\ conns' = [gd \in DOMAIN conns' |-> conns'[gd]]
    <2>1. fd \in DOMAIN conns /\ conns = [gd \in DOMAIN conns |-> conns[gd]]
      BY <1>1
    <2> QED BY <2>1, <1>5
  <1>7. /\ loop' = [at |-> "frames", ready |-> loop.ready, fd |-> fd]
        /\ loop'.at = "frames" /\ loop'.ready = loop.ready /\ loop'.fd = fd
    BY DEF ServerInv, ProcessOK
  <1>8. NetworkOK'
    <2>1. \A d \in Clients : IsSeq(got'[d]) /\ IsSeq(unread'[d])
      BY <1>2 DEF ServerInv, NetworkOK
    <2> QED BY <1>2, <2>1 DEF ServerInv, NetworkOK
  <1>9. ProcessOK'
    <2>1. \A gd \in DOMAIN conns' : ConnOK(conns'[gd])
      BY <1>4, <1>6 DEF ServerInv, ProcessOK
    <2>2. "frames" \in Stations /\ "frames" # "accept"
      BY DEF Stations
    <2>3. loop'.ready \subseteq DOMAIN conns' /\ loop'.fd \in DOMAIN conns' \ loop'.ready
      BY <1>1, <1>6, <1>7
    <2>4. /\ sockets' \in [DOMAIN sockets' -> Clients] /\ DOMAIN sockets' \subseteq Fds
          /\ DOMAIN conns' = DOMAIN sockets'
      BY <1>2, <1>6 DEF ServerInv, ProcessOK
    <2> QED BY <1>6, <1>7, <2>1, <2>2, <2>3, <2>4 DEF ProcessOK
  <1>10. OwnershipOK'
    <2>1. ~Queued(c) /\ Owned(c)
      BY <1>1 DEF ServerInv, OwnershipOK, Owned
    <2>2. \A d \in Clients : (Queued(d)' <=> Queued(d)) /\ (Owned(d)' <=> Owned(d))
      BY <1>2 DEF Queued, Owned
    <2>3. ASSUME NEW d \in Clients
          PROVE  /\ Queued(d)' => client'[d] \in {"waiting", "closed"} /\ ~Owned(d)'
                 /\ Owned(d)' => client'[d] \in {"open", "closed", "reset"}
                 /\ client'[d] = "waiting" => Queued(d)'
                 /\ client'[d] = "open" => Owned(d)'
                 /\ client'[d] = "new" \/ Queued(d)'
                      => stream'[d] = <<>> /\ frames'[d] = <<>> /\ got'[d] = <<>> /\ unread'[d] = <<>>
      <3>1. CASE d = c
        BY <2>1, <2>2, <3>1
      <3>2. CASE d # c
        <4>1. client'[d] = client[d] /\ unread'[d] = unread[d]
          BY <3>2
        <4> QED BY <1>2, <2>2, <4>1 DEF ServerInv, OwnershipOK
      <3> QED BY <3>1, <3>2
    <2> QED BY <1>2, <2>3 DEF ServerInv, OwnershipOK
  <1>11. FramingOK'
    <2>1. \A gd \in DOMAIN conns : conns'[gd].input = conns[gd].input
      BY <1>4, <1>6
    <2>2. \A gd \in DOMAIN conns : InHand(gd) => InHand(gd)'
      BY <1>7 DEF InHand
    <2> QED BY <1>2, <1>6, <2>1, <2>2 DEF ServerInv, FramingOK
  <1>12. RepliesOK'
    <2>1. ASSUME NEW gd \in DOMAIN conns, client'[sockets[gd]] = "open"
          PROVE  /\ Answered(frames[sockets[gd]],
                             (got[sockets[gd]] \o unread'[sockets[gd]]) \o conns'[gd].output)
                 /\ conns'[gd].output = <<>>
      <3>1. CASE gd = fd
        <4>1. Answered(frames[c], (got[c] \o unread[c]) \o conns[fd].output)
          BY <1>1, <2>1, <3>1 DEF ServerInv, RepliesOK
        <4> QED BY <1>4, <1>6, <2>1, <3>1, <4>1
      <3>2. CASE gd # fd
        <4>1. PICK d : d = sockets[gd]
          OBVIOUS
        <4>2. d \in Clients \ {c}
          BY <1>1, <3>2, <4>1
        <4>3. client[d] = "open" /\ unread'[d] = unread[d] /\ conns'[gd] = conns[gd]
          BY <1>6, <2>1, <3>2, <4>1, <4>2
        <4>4. Answered(frames[d], (got[d] \o unread[d]) \o conns[gd].output)
              /\ conns[gd].output = <<>>
          BY <3>2, <4>1, <4>3 DEF ServerInv, RepliesOK
        <4> QED BY <4>1, <4>3, <4>4
      <3> QED BY <3>1, <3>2
    <2>2. ASSUME NEW d \in Clients, client'[d] \in {"new", "waiting", "dropped"}
          PROVE  AnsweredToTheEnd(frames[d], got[d] \o unread'[d])
      <3>1. d # c
        BY <2>2
      <3>2. client[d] = client'[d] /\ unread'[d] = unread[d]
        BY <3>1
      <3> QED BY <2>2, <3>2 DEF ServerInv, RepliesOK
    <2> QED BY <1>2, <1>6, <2>1, <2>2 DEF RepliesOK
  <1> QED BY <1>8, <1>9, <1>10, <1>11, <1>12 DEF ServerInv

\* WriteToSocket, whoever is at the other end.
LEMMA WriteInv ==
  ASSUME ServerInv, WriteToSocket \/ WriteToClosed \/ WriteToReset
  PROVE  ServerInv'
  <1>1. PICK fd, c : fd = loop.fd /\ c = sockets[fd]
    OBVIOUS
  <1>2. loop.at = "write"
    BY DEF WriteToSocket, WriteToClosed, WriteToReset
  <1>3. /\ fd \in DOMAIN conns \ loop.ready /\ loop.ready \subseteq DOMAIN conns
        /\ c \in Clients /\ ConnOK(conns[fd])
        /\ IsSeq(got[c]) /\ IsSeq(unread[c]) /\ DOMAIN unread = Clients
        /\ client \in [Clients -> States] /\ flight \in [Clients -> Seq(Symbols)]
    BY <1>1, <1>2 DEF ServerInv, ProcessOK, NetworkOK
  <1>4. CASE WriteToSocket
    <2>1. PICK g, u, o : g = got[c] /\ u = unread[c] /\ o = conns[fd].output
      OBVIOUS
    <2>2. /\ client[c] = "open" /\ unread' = [unread EXCEPT ![c] = u \o o]
          /\ conns' = [conns EXCEPT ![fd].output = <<>>] /\ loop' = [loop EXCEPT !.at = "frames"]
          /\ UNCHANGED <<client, flight, arrived, got, backlog, sockets, history>>
      BY <1>1, <1>4, <2>1 DEF WriteToSocket
    <2>3. IsSeq(g) /\ IsSeq(u) /\ IsSeq(o)
      BY <1>3, <2>1 DEF ConnOK
    <2>4. IsSeq(u \o o)
      BY <2>3, SeqsOf
    <2>5. (g \o (u \o o)) \o <<>> = (g \o u) \o o
      <3>1. IsSeq(g \o (u \o o))
        BY <2>3, <2>4, SeqsOf
      <3>2. (g \o (u \o o)) \o <<>> = g \o (u \o o)
        BY <3>1, SeqsOf
      <3>3. g \o (u \o o) = (g \o u) \o o
        BY <2>3, Associative
      <3> QED BY <3>2, <3>3
    <2>6. /\ DOMAIN unread' = Clients /\ unread'[c] = u \o o
          /\ \A d \in Clients \ {c} : unread'[d] = unread[d]
      BY <1>3, <2>2
    <2>7. /\ client' \in [Clients -> States] /\ \A d \in Clients \ {c} : client'[d] = client[d]
          /\ client'[c] = "open" /\ flight' \in [Clients -> Seq(Symbols)]
      BY <1>3, <2>2
    <2>8. (got[c] \o unread'[c]) \o <<>> = (got[c] \o unread[c]) \o conns[fd].output
      BY <2>1, <2>5, <2>6
    <2>9. IsSeq(unread'[c])
      BY <2>4, <2>6
    <2>10. /\ client[c] = "open" /\ client'[c] \in {"open", "closed", "reset"}
           /\ conns' = [conns EXCEPT ![fd].output = <<>>] /\ loop' = [loop EXCEPT !.at = "frames"]
           /\ UNCHANGED <<arrived, got, backlog, sockets, history>>
      BY <2>2, <2>7
    <2> QED BY <1>1, <1>2, <2>6, <2>7, <2>8, <2>9, <2>10, WrittenInv
  <1>5. CASE WriteToClosed
    <2>1. /\ client' = [client EXCEPT ![c] = "reset"] /\ flight' = [flight EXCEPT ![c] = <<>>]
          /\ conns' = [conns EXCEPT ![fd].output = <<>>] /\ loop' = [loop EXCEPT !.at = "frames"]
          /\ UNCHANGED <<arrived, unread, got, backlog, sockets, history>>
      BY <1>1, <1>5 DEF WriteToClosed
    <2>2. /\ client' \in [Clients -> States] /\ \A d \in Clients \ {c} : client'[d] = client[d]
          /\ client'[c] = "reset" /\ flight' \in [Clients -> Seq(Symbols)]
      BY <1>3, <2>1 DEF States
    <2>3. /\ DOMAIN unread' = Clients /\ IsSeq(unread'[c])
          /\ \A d \in Clients \ {c} : unread'[d] = unread[d]
      BY <1>3, <2>1
    <2> QED BY <1>1, <1>2, <2>1, <2>2, <2>3, WrittenInv
  <1>6. CASE WriteToReset
    <2>1. \A gd \in DOMAIN conns : client[sockets[gd]] = "open" => conns[gd].output = <<>>
      BY <1>2, <1>6 DEF ServerInv, RepliesOK, WriteToReset
    <2>2. CASE ProcessExits
      <3>1. UNCHANGED <<flight, arrived, unread, got, history>>
        BY <1>6 DEF WriteToReset
      <3> QED BY <2>1, <2>2, <3>1, ExitInv
    <2>3. CASE ~ProcessExits
      <3>1. /\ loop' = [at |-> "frames", ready |-> loop.ready, fd |-> loop.fd]
            /\ UNCHANGED <<network, sockets, conns, history>>
        BY <1>6, <2>3 DEF WriteToReset, network, ServerInv, ProcessOK
      <3>2. \A gd \in DOMAIN conns : InHand(gd) => InHand(gd)'
        BY <3>1 DEF InHand
      <3>3. "frames" \in Stations /\ "frames" # "accept"
        BY DEF Stations
      <3> QED BY <1>1, <1>3, <2>1, <3>1, <3>2, <3>3, LoopMoves
    <2> QED BY <2>2, <2>3
  <1> QED BY <1>4, <1>5, <1>6

-----------------------------------------------------------------------------
(* The theorems *)

\* The invariant holds in every state of the server.
THEOREM ServerInductive == Spec => []ServerInv
  <1>1. ASSUME ServerInv, [Next]_vars PROVE ServerInv'
    <2>1. CASE ServerStep
      <3>1. CASE Start \/ Select \/ EndRound \/ NoFrame
        BY <1>1, <3>1, StationsInv
      <3>2. CASE Accept
        BY <1>1, <3>2, AcceptInv
      <3>3. CASE ReadFromSocket
        BY <1>1, <3>3, ReadInv
      <3>4. CASE HandleFrame
        BY <1>1, <3>4, HandleInv
      <3>5. CASE WriteToSocket \/ WriteToClosed \/ WriteToReset
        BY <1>1, <3>5, WriteInv
      <3> QED BY <2>1, <3>1, <3>2, <3>3, <3>4, <3>5 DEF ServerStep
    <2>2. ASSUME NEW c \in Clients, Connect(c) \/ Deliver(c) \/ Receive(c) \/ Hangup(c)
          PROVE  ServerInv'
      BY <1>1, <2>2, ConnectInv, DeliverInv, ReceiveInv, HangupInv
    <2>3. CASE UNCHANGED vars
      <3>1. UNCHANGED <<client, flight, arrived, unread, got, backlog, sockets, conns, loop,
                        stream, frames>>
        BY <2>3 DEF vars, network, history
      <3>2. NetworkOK' /\ ProcessOK'
        BY <1>1, <3>1 DEF ServerInv, NetworkOK, ProcessOK
      <3>3. OwnershipOK'
        BY <1>1, <3>1 DEF ServerInv, OwnershipOK, Queued, Owned
      <3>4. FramingOK' /\ RepliesOK'
        BY <1>1, <3>1 DEF ServerInv, FramingOK, RepliesOK, InHand
      <3> QED BY <3>2, <3>3, <3>4 DEF ServerInv
    <2> QED BY <1>1, <2>1, <2>2, <2>3 DEF Next
  <1> QED BY <1>1, InitServerInv, PTL DEF Spec

\* The sockets the process holds are the connections it manages, so that no new
\* connection meets an old entry (connection_manager.h:49-66), and the loop
\* visits no descriptor that is closed (server_app.h:97-111).
THEOREM SocketsAreManaged == Spec => []EverySocketIsManaged
  <1>1. ServerInv => EverySocketIsManaged
    BY DEF ServerInv, ProcessOK, EverySocketIsManaged
  <1> QED BY <1>1, ServerInductive, PTL

\* However a stream is cut into reads, it is cut into frames at every delimiter
\* and nowhere else, and no complete frame waits (framing.h:49-75).
THEOREM FramesAreCut == Spec => []FramesAreTheStream
  <1>1. ASSUME ServerInv PROVE FramesAreTheStream
    <2> SUFFICES ASSUME NEW fd \in DOMAIN conns, NEW c, c = sockets[fd]
                 PROVE  /\ stream[c] = Framed(c) \o conns[fd].input
                        /\ \A i \in DOMAIN frames[c] :
                              DelimitersIn(frames[c][i] \o Delimiter) = {Len(frames[c][i]) + 1}
                        /\ loop.at = "select" => ~HasFrame(conns[fd].input)
      BY DEF FramesAreTheStream
    <2>1. CutAtDelimiters(stream[c], frames[c], conns[fd].input)
      BY <1>1 DEF ServerInv, FramingOK
    <2>2. Framed(c) = Closed(frames[c])
      BY DEF Framed, Closed
    <2>3. DOMAIN frames[c] = 1..Len(frames[c])
      BY <1>1 DEF ServerInv, NetworkOK, ProcessOK
    <2>4. loop.at = "select" => ~HasFrame(conns[fd].input)
      BY <1>1, Between
    <2> QED BY <2>1, <2>2, <2>3, <2>4 DEF CutAtDelimiters
  <1> QED BY <1>1, ServerInductive, PTL

\* What a client has been or is about to be sent answers all its frames but a
\* last one without a word.
LEMMA AnswersTheRequests ==
  ASSUME NEW c, IsSeq(frames[c]), NEW rs, AnsweredToTheEnd(frames[c], rs)
  PROVE  Answered(Requests(c), rs) /\ IsSeq(Requests(c))
  <1>1. PICK S : frames[c] \in Seq(S)
    BY DEF IsSeq
  <1>2. CASE Answered(frames[c], rs)
    <2>1. frames[c] # <<>> => Len(frames[c]) \in 1..Len(frames[c])
      BY <1>1
    <2>2. frames[c] # <<>> => ~Unparsable(Last(frames[c]))
      BY <1>2, <2>1 DEF Answered, Last
    <2> QED BY <1>1, <1>2, <2>2 DEF Requests, IsSeq
  <1>3. CASE frames[c] # <<>> /\ Unparsable(Last(frames[c])) /\ Answered(Front(frames[c]), rs)
    <2>1. Front(frames[c]) \in Seq(S)
      BY <1>1, <1>3 DEF Front
    <2> QED BY <1>3, <2>1 DEF Requests, IsSeq
  <1> QED BY <1>2, <1>3 DEF AnsweredToTheEnd

\* Every request of a client that is there is answered once, in order and on its
\* own connection (docs/PROTOCOL.md:611; server_app.h:126-152), although
\* descriptors are reused and other clients are served in between.
THEOREM RepliesKeepOrder == Spec => []RepliesInOrder
  <1>1. ASSUME ServerInv PROVE RepliesInOrder
    <2> SUFFICES ASSUME NEW c \in Clients, ~Gone(c)
                 PROVE  /\ Len(RepliesTo(c)) = Len(Requests(c))
                        /\ \A i \in DOMAIN Requests(c) :
                              /\ ~Unparsable(Requests(c)[i])
                              /\ RepliesTo(c)[i].to = Parse(Requests(c)[i])
      BY DEF RepliesInOrder
    <2>1. IsSeq(frames[c]) /\ IsSeq(got[c]) /\ IsSeq(unread[c]) /\ DOMAIN conns = DOMAIN sockets
      BY <1>1 DEF ServerInv, NetworkOK, ProcessOK, IsSeq
    <2>2. PICK queued : queued = {fd \in DOMAIN sockets \cap DOMAIN conns : sockets[fd] = c}
      OBVIOUS
    <2>3. RepliesTo(c) = (got[c] \o unread[c])
             \o (IF queued = {} THEN <<>> ELSE conns[CHOOSE fd \in queued : TRUE].output)
      BY <2>2 DEF RepliesTo
    <2>4. AnsweredToTheEnd(frames[c], RepliesTo(c))
      <3>1. CASE Owned(c)
        <4>1. PICK fd \in DOMAIN sockets : sockets[fd] = c
          BY <3>1 DEF Owned
        <4>2. \A gd \in DOMAIN sockets : sockets[gd] = c => gd = fd
          BY <1>1, <4>1 DEF ServerInv, OwnershipOK
        <4>3. queued = {fd}
          BY <2>1, <2>2, <4>1, <4>2
        <4>4. queued # {} /\ (CHOOSE gd \in queued : TRUE) = fd
          BY <4>3
        <4>5. RepliesTo(c) = (got[c] \o unread[c]) \o conns[fd].output
          BY <2>3, <4>4
        <4>6. client[c] = "open"
          BY <1>1, <3>1 DEF ServerInv, OwnershipOK, Gone
        <4> QED BY <1>1, <2>1, <4>1, <4>5, <4>6 DEF ServerInv, RepliesOK, AnsweredToTheEnd
      <3>2. CASE ~Owned(c)
        <4>1. queued = {}
          BY <2>2, <3>2 DEF Owned
        <4>2. RepliesTo(c) = got[c] \o unread[c]
          <5>1. PICK s : s = got[c] \o unread[c]
            OBVIOUS
          <5>2. IsSeq(s)
            BY <2>1, <5>1, SeqsOf
          <5>3. s \o <<>> = s
            BY <5>2, SeqsOf
          <5> QED BY <2>3, <4>1, <5>1, <5>3
        <4>3. client[c] \in {"new", "waiting", "dropped"}
          BY <1>1, <3>2 DEF ServerInv, NetworkOK, OwnershipOK, States, Gone
        <4> QED BY <1>1, <4>2, <4>3 DEF ServerInv, RepliesOK
      <3> QED BY <3>1, <3>2
    <2>5. Answered(Requests(c), RepliesTo(c)) /\ IsSeq(Requests(c))
      BY <2>1, <2>4, AnswersTheRequests
    <2>6. DOMAIN Requests(c) = 1..Len(Requests(c))
      BY <2>5 DEF IsSeq
    <2> QED BY <2>5, <2>6 DEF Answered
  <1> QED BY <1>1, ServerInductive, PTL
=============================================================================
