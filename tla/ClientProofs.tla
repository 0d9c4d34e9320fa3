----------------------------- MODULE ClientProofs -----------------------------
(***************************************************************************)
(* The command line client and its connection, for any lines, any size of  *)
(* the buffer of recv, and any behaviour of the server and the network     *)
(* (client/kv_client.h, client/kv_cli.cpp; server/dispatcher.h).           *)
(***************************************************************************)
EXTENDS Client, ShardLemmas

-----------------------------------------------------------------------------
(* The inductive invariant *)

\* The parts of the first k replies.
PartsUpTo(k) == (1..k) \X Nat \X BOOLEAN

\* Whole, for any sequence of replies, and the replies one after the other.
WholeOf(rs, n) == IF n \in DOMAIN rs THEN PartsOf(n, rs[n]) ELSE <<>>
Replied(rs)    == FlattenSeq([n \in DOMAIN rs |-> WholeOf(rs, n)])

\* What came is what was due, but for an end that was lost; and nothing was lost
\* unless the connection was reset.
ArrivesAs(came, due, state) ==
    \E lost : IsSeq(lost) /\ due = came \o lost /\ (state # "reset" => lost = <<>>)

\* The answer a is what was taken, t, but for what came behind a NUL.
CutFrom(a, t) == \E d : IsSeq(d) /\ t = a \o d /\ (d # <<>> => d[1][3])

\* The connection, the buffers and the histories.
WiresOK ==
    /\ app \in {"start", "prompt", "recv", "quit", "failed", "killed"}
    /\ link \in {"none", "open", "closed", "reset"}
    /\ input \in Seq(Symbols \cup {CR, LF}) /\ (link # "open" => input = <<>>)
    /\ IsSeq(replies) /\ IsSeq(sent)
    /\ inbox \in Seq(PartsUpTo(Len(replies))) /\ flight \in Seq(PartsUpTo(Len(replies)))
    /\ answers \in Seq(Seq(PartsUpTo(Len(replies)))) /\ taken \in Seq(Seq(PartsUpTo(Len(replies))))
    /\ Len(taken) = Len(answers) /\ \A n \in 1..Len(answers) : CutFrom(answers[n], taken[n])
    /\ Len(sent) = IF app \in {"recv", "killed"} THEN Len(answers) + 1 ELSE Len(answers)
    /\ app = "start" => link = "none" /\ sent = <<>> /\ replies = <<>>
    /\ app = "killed" => link = "reset"

\* No reply is lost on its way to recv, but by a reset.
LedgerOK == ArrivesAs((FlattenSeq(taken) \o inbox) \o flight, Replied(replies), link)

\* Every command so far has got the whole of its reply.
AllWhole == \A m \in 1..Len(answers) : answers[m] = WholeOf(replies, m)

\* Then the next answer is a part of the next reply, and the server is not ahead
\* of the client: it has answered all lines, or all but the one it has received.
InStep ==
    /\ ArrivesAs(inbox \o flight, WholeOf(replies, Len(answers) + 1), link)
    /\ Len(replies) <= Len(sent)
    /\ link = "open" =>
          \/ Len(replies) = Len(sent) /\ input = <<>>
          \/ /\ app = "recv" /\ Len(replies) = Len(answers)
             /\ \E line \in Lines : input = WireOf(line)

\* The first answer that is not whole: nothing is reported as missing while the
\* connection is there.
FirstTorn(answer, due, state) ==
    /\ \E lost : IsSeq(lost) /\ lost # <<>> /\ due = answer \o lost
    /\ answer = <<>> => state = "reset"

\* Up to the n-th command, each has got the whole of its reply.
WholeBefore(rs, n) == \A m \in 1..(n - 1) : answers[m] = WholeOf(rs, m)

TornOK ==
    \A n \in 1..Len(answers) : WholeBefore(replies, n) =>
        /\ link = "open" => answers[n] # <<>>
        /\ answers[n] # WholeOf(replies, n) => FirstTorn(answers[n], WholeOf(replies, n), link)

ClientInv == WiresOK /\ LedgerOK /\ (AllWhole => InStep) /\ TornOK

-----------------------------------------------------------------------------
(* Sequences and parts *)

\* A sequence is what stands before a position and what stands after it.
LEMMA SplitAt ==
  ASSUME NEW S, NEW s \in Seq(S), NEW n \in 0..Len(s)
  PROVE  /\ SubSeq(s, 1, n) \in Seq(S) /\ SubSeq(s, n + 1, Len(s)) \in Seq(S)
         /\ Len(SubSeq(s, 1, n)) = n
         /\ s = SubSeq(s, 1, n) \o SubSeq(s, n + 1, Len(s))
  <1>1. PICK a, b : a = SubSeq(s, 1, n) /\ b = SubSeq(s, n + 1, Len(s))
    OBVIOUS
  <1>2. /\ a \in Seq(S) /\ Len(a) = n /\ \A i \in 1..n : a[i] = s[i]
        /\ b \in Seq(S) /\ Len(b) = Len(s) - n /\ \A i \in 1..(Len(s) - n) : b[i] = s[n + i]
        /\ Len(s) \in Nat
    BY <1>1
  <1>3. /\ a \o b \in Seq(S) /\ Len(a \o b) = Len(a) + Len(b)
        /\ \A i \in 1..(Len(a) + Len(b)) :
              (a \o b)[i] = IF i <= Len(a) THEN a[i] ELSE b[i - Len(a)]
    BY <1>2, ConcatProperties
  <1>4. Len(a \o b) = Len(s) /\ Len(a) + Len(b) = Len(s)
    BY <1>2, <1>3
  <1>5. ASSUME NEW i \in 1..Len(s) PROVE (a \o b)[i] = s[i]
    <2>1. CASE i <= n
      BY <2>1, <1>2, <1>3, <1>4
    <2>2. CASE ~(i <= n)
      <3>1. i - n \in 1..(Len(s) - n) /\ n + (i - n) = i
        BY <2>2, <1>2
      <3>2. (a \o b)[i] = b[i - n]
        BY <2>2, <1>2, <1>3, <1>4
      <3> QED BY <3>1, <3>2, <1>2
    <2> QED BY <2>1, <2>2
  <1>6. a \o b = s
    BY <1>3, <1>4, <1>5, SeqEqual
  <1> QED BY <1>1, <1>2, <1>6

\* A sequence is a prefix of itself with something after it.
LEMMA PrefixOf ==
  ASSUME NEW s, NEW t, IsSeq(s), IsSeq(t)
  PROVE  IsPrefix(s, s \o t) /\ (t # <<>> => IsStrictPrefix(s, s \o t))
  <1>1. PICK S : s \in Seq(S) /\ t \in Seq(S)
    BY CommonSet
  <1>2. PICK u : u = s \o t
    OBVIOUS
  <1>3. /\ u \in Seq(S) /\ Len(u) = Len(s) + Len(t) /\ Len(s) \in Nat /\ Len(t) \in Nat
        /\ \A i \in 1..Len(s) : u[i] = s[i]
    BY <1>1, <1>2
  <1>4. SubSeq(s, 1, Len(s)) = SubSeq(u, 1, Len(s))
    <2>1. PICK a, b : a = SubSeq(s, 1, Len(s)) /\ b = SubSeq(u, 1, Len(s))
      OBVIOUS
    <2>2. /\ a \in Seq(S) /\ Len(a) = Len(s) /\ \A i \in 1..Len(s) : a[i] = s[i]
          /\ b \in Seq(S) /\ Len(b) = Len(s) /\ \A i \in 1..Len(s) : b[i] = u[i]
      BY <1>1, <1>3, <2>1
    <2>3. \A i \in 1..Len(a) : a[i] = b[i]
      BY <1>3, <2>2
    <2> QED BY <2>1, <2>2, <2>3, SeqEqual
  <1>5. t # <<>> => s # u
    BY <1>1, <1>3
  <1> QED BY <1>2, <1>3, <1>4, <1>5 DEF IsPrefix, IsStrictPrefix

\* A function on the first p numbers is a sequence of length p.
LEMMA FunctionIsSeq ==
  ASSUME NEW S, NEW p \in Nat, NEW f \in [1..p -> S]
  PROVE  f \in Seq(S) /\ Len(f) = p
  <1>1. f \in UNION {[1..i -> S] : i \in Nat}
    BY Zenon
  <1>2. f \in Seq(S)
    BY <1>1, SeqDef, Zenon
  <1>3. DOMAIN f = 1..p /\ DOMAIN f = 1..Len(f) /\ Len(f) \in Nat
    BY <1>2, LenProperties
  <1> QED BY <1>2, <1>3

\* The parts of one reply are a sequence that begins with part 1, or is empty.
LEMMA NewParts ==
  ASSUME NEW n \in Nat \ {0}, NEW r, NEW w, w = PartsOf(n, r)
  PROVE  /\ w \in Seq(PartsUpTo(n)) /\ Parts(r) \in Nat
         /\ w = <<>> \/ w[1] = <<n, 1, FALSE>>
         /\ Parts(r) = 0 => w = <<>>
  <1>1. PICK p : p = Parts(r) /\ p \in {0, 2, 4}
    <2>1. CASE r.kind = "$"
      BY <2>1 DEF Parts
    <2>2. CASE r.kind = "none"
      BY <2>2 DEF Parts
    <2>3. CASE r.kind # "$" /\ r.kind # "none"
      BY <2>3 DEF Parts
    <2> QED BY <2>1, <2>2, <2>3
  <1>2. PICK h : h = HasNul(r)
    OBVIOUS
  <1>3. w = [j \in 1..p |-> <<n, j, j = 3 /\ h>>] /\ p \in Nat
    BY <1>1, <1>2 DEF PartsOf
  <1>8. ASSUME NEW j \in 1..p PROVE <<n, j, j = 3 /\ h>> \in PartsUpTo(n)
    <2>1. PICK b \in BOOLEAN : b = (j = 3 /\ h)
      OBVIOUS
    <2>2. <<n, j, b>> \in PartsUpTo(n)
      <3>1. j \in Nat /\ n \in 1..n
        BY <1>3
      <3> QED BY <2>1, <3>1 DEF PartsUpTo
    <2> QED BY <2>1, <2>2, Zenon
  <1>4. w \in Seq(PartsUpTo(n)) /\ Len(w) = p
    <2>1. PICK T : T = PartsUpTo(n)
      OBVIOUS
    <2>2. w \in [1..p -> T]
      BY <1>3, <1>8, <2>1
    <2>3. p \in Nat
      BY <1>3
    <2> QED BY <2>1, <2>2, <2>3, FunctionIsSeq
  <1>5. p = 0 \/ 1 \in 1..p
    BY <1>3
  <1>6. p = 0 => w = <<>>
    <2>1. PICK T : T = PartsUpTo(n)
      OBVIOUS
    <2>2. w \in Seq(T) /\ Len(w) = p
      BY <1>4, <2>1
    <2> QED BY <2>2, EmptySeq
  <1>7. p # 0 => w[1] = <<n, 1, FALSE>>
    <2>1. 1 # 3
      OBVIOUS
    <2>2. (1 = 3 /\ h) = FALSE
      BY <2>1, Zenon
    <2>3. p # 0 => w[1] = <<n, 1, 1 = 3 /\ h>>
      BY <1>3, <1>5, Zenon
    <2> QED BY <2>2, <2>3, Zenon
  <1>9. p = Parts(r) /\ p \in Nat
    BY <1>1, <1>3
  <1> QED BY <1>4, <1>6, <1>7, <1>9, Zenon

\* More replies, more parts.
LEMMA MoreParts ==
  ASSUME NEW m \in Nat, NEW n \in Nat, m <= n
  PROVE  /\ PartsUpTo(m) \subseteq PartsUpTo(n)
         /\ Seq(PartsUpTo(m)) \subseteq Seq(PartsUpTo(n))
         /\ Seq(Seq(PartsUpTo(m))) \subseteq Seq(Seq(PartsUpTo(n)))
  <1>1. PartsUpTo(m) \subseteq PartsUpTo(n)
    BY DEF PartsUpTo
  <1>2. Seq(PartsUpTo(m)) \subseteq Seq(PartsUpTo(n))
    BY <1>1, SeqMonotonic
  <1> QED BY <1>1, <1>2, SeqMonotonic

\* What Serve makes of the replies.
WithReply(rs, r) == Append(rs, r)

\* One more reply: what it is whole, and what all replies are.
LEMMA OneMoreReply ==
  ASSUME NEW rs, IsSeq(rs), NEW r, NEW rs2, rs2 = WithReply(rs, r), NEW k, k = Len(rs) + 1,
         NEW w, w = PartsOf(k, r)
  PROVE  /\ Len(rs) \in Nat /\ Len(rs2) = k /\ IsSeq(rs2)
         /\ \A n : n # k => WholeOf(rs2, n) = WholeOf(rs, n)
         /\ WholeOf(rs2, k) = w /\ WholeOf(rs, k) = <<>>
         /\ Replied(rs2) = Replied(rs) \o w /\ IsSeq(Replied(rs))
  <1>1. PICK S : rs \in Seq(S)
    BY DEF IsSeq
  <1>2. PICK T : T = S \cup {r}
    OBVIOUS
  <1>3. rs \in Seq(T) /\ r \in T
    BY <1>1, <1>2
  <1>4. /\ rs2 \in Seq(T) /\ Len(rs) \in Nat /\ Len(rs2) = k /\ k \in Nat \ {0}
        /\ DOMAIN rs = 1..Len(rs) /\ DOMAIN rs2 = 1..k
        /\ rs2[k] = r /\ \A n \in 1..Len(rs) : rs2[n] = rs[n]
    BY <1>3 DEF WithReply
  <1>5. \A n : n # k => (n \in 1..k <=> n \in 1..Len(rs))
    BY <1>4
  <1>6. \A n : n # k => WholeOf(rs2, n) = WholeOf(rs, n)
    BY <1>4, <1>5 DEF WholeOf
  <1>7. WholeOf(rs2, k) = w /\ WholeOf(rs, k) = <<>>
    BY <1>4 DEF WholeOf
  <1>8. w \in Seq(PartsUpTo(k))
    BY <1>4, NewParts
  <1>9. PICK a, b : a = [n \in 1..Len(rs) |-> WholeOf(rs, n)] /\ b = [n \in 1..k |-> WholeOf(rs2, n)]
    OBVIOUS
  <1>10. \A n \in 1..Len(rs) : WholeOf(rs, n) \in Seq(PartsUpTo(k))
    <2> SUFFICES ASSUME NEW n \in 1..Len(rs) PROVE WholeOf(rs, n) \in Seq(PartsUpTo(k))
      OBVIOUS
    <2>1. n \in Nat \ {0} /\ n <= k
      BY <1>4
    <2>2. WholeOf(rs, n) = PartsOf(n, rs[n])
      BY <1>4 DEF WholeOf
    <2>3. WholeOf(rs, n) \in Seq(PartsUpTo(n))
      BY <2>1, <2>2, NewParts
    <2> QED BY <1>4, <2>1, <2>3, MoreParts
  <1>11. PICK P : P = Seq(PartsUpTo(k))
    OBVIOUS
  <1>12. a \in Seq(P) /\ Len(a) = Len(rs) /\ \A n \in 1..Len(rs) : a[n] = WholeOf(rs, n)
    BY <1>4, <1>9, <1>10, <1>11
  <1>13. b = Append(a, w)
    <2>1. PICK e : e = Append(a, w)
      OBVIOUS
    <2>2. w \in P
      BY <1>8, <1>11
    <2>3. /\ e \in Seq(P) /\ DOMAIN e = 1..k /\ e[k] = w /\ \A n \in 1..Len(rs) : e[n] = a[n]
      BY <1>4, <1>12, <2>1, <2>2
    <2>4. \A n \in 1..k : e[n] = WholeOf(rs2, n)
      <3>1. \A n \in 1..k : n \in 1..Len(rs) \/ n = k
        BY <1>4
      <3>2. \A n \in 1..Len(rs) : n # k
        BY <1>4
      <3> QED BY <1>6, <1>7, <1>12, <2>3, <3>1, <3>2
    <2>5. e = [n \in DOMAIN e |-> e[n]]
      BY <2>3
    <2> QED BY <1>9, <2>1, <2>3, <2>4, <2>5
  <1>14. FlattenSeq(b) = FlattenSeq(a) \o w /\ FlattenSeq(a) \in Seq(PartsUpTo(k))
    BY <1>8, <1>11, <1>12, <1>13, FlattenAppend, FlattenIsSeq
  <1>15. Replied(rs) = FlattenSeq(a) /\ Replied(rs2) = FlattenSeq(b)
    BY <1>4, <1>9 DEF Replied
  <1> QED BY <1>4, <1>6, <1>7, <1>14, <1>15 DEF IsSeq

-----------------------------------------------------------------------------
(* Arrivals *)

\* The connection may only get worse: a reset stays.
LEMMA StateArrives ==
  ASSUME NEW came, NEW due, NEW st, NEW st2, ArrivesAs(came, due, st), st = "reset" => st2 = "reset"
  PROVE  ArrivesAs(came, due, st2)
  BY DEF ArrivesAs

\* A reset cuts what is on its way.
LEMMA CutArrives ==
  ASSUME NEW p, IsSeq(p), NEW S, NEW f \in Seq(S), NEW n \in 0..Len(f), NEW due, NEW st,
         ArrivesAs(p \o f, due, st)
  PROVE  ArrivesAs(p \o SubSeq(f, 1, n), due, "reset")
  <1>1. PICK a, b : a = SubSeq(f, 1, n) /\ b = SubSeq(f, n + 1, Len(f))
    OBVIOUS
  <1>2. IsSeq(a) /\ IsSeq(b) /\ f = a \o b
    BY <1>1, SplitAt DEF IsSeq
  <1>3. PICK lost : IsSeq(lost) /\ due = (p \o f) \o lost
    BY DEF ArrivesAs
  <1>4. IsSeq(p \o a) /\ IsSeq(b \o lost)
    BY <1>2, <1>3, SeqsOf
  <1>5. p \o (a \o b) = (p \o a) \o b
    BY <1>2, Associative
  <1>6. (p \o a) \o (b \o lost) = ((p \o a) \o b) \o lost
    <2>1. PICK q : q = p \o a
      OBVIOUS
    <2>2. IsSeq(q) /\ IsSeq(b) /\ IsSeq(lost)
      BY <1>2, <1>3, <1>4, <2>1
    <2>3. q \o (b \o lost) = (q \o b) \o lost
      BY <2>2, Associative
    <2> QED BY <2>1, <2>3
  <1>7. due = (p \o a) \o (b \o lost)
    BY <1>2, <1>3, <1>5, <1>6
  <1> QED BY <1>1, <1>4, <1>7 DEF ArrivesAs

\* A reply that is sent is due.
LEMMA MoreArrives ==
  ASSUME NEW p, NEW f, NEW w, IsSeq(p), IsSeq(f), IsSeq(w), NEW due, NEW st, st # "reset",
         ArrivesAs(p \o f, due, st), NEW st2
  PROVE  ArrivesAs(p \o (f \o w), due \o w, st2)
  <1>1. due = (p \o f) \o <<>>
    BY DEF ArrivesAs
  <1>2. IsSeq(p \o f) /\ IsSeq(f \o w) /\ IsSeq(<<>>)
    BY SeqsOf
  <1>3. (p \o f) \o <<>> = p \o f
    BY <1>2, SeqsOf
  <1>4. p \o (f \o w) = (p \o f) \o w
    BY Associative
  <1>5. PICK came : came = p \o (f \o w)
    OBVIOUS
  <1>6. IsSeq(came)
    BY <1>2, <1>5, SeqsOf
  <1>7. came \o <<>> = came
    BY <1>6, SeqsOf
  <1> QED BY <1>1, <1>2, <1>3, <1>4, <1>5, <1>7 DEF ArrivesAs

\* Nothing is due, so nothing came.
LEMMA NothingArrives ==
  ASSUME NEW a, NEW b, IsSeq(a), IsSeq(b), NEW st, ArrivesAs(a \o b, <<>>, st)
  PROVE  a = <<>> /\ b = <<>>
  <1>1. PICK lost : IsSeq(lost) /\ <<>> = (a \o b) \o lost
    BY DEF ArrivesAs
  <1>2. IsSeq(a \o b) /\ Len(a) \in Nat /\ Len(b) \in Nat /\ Len(lost) \in Nat
        /\ Len(a \o b) = Len(a) + Len(b)
    BY <1>1, SeqsOf
  <1>3. Len((a \o b) \o lost) = Len(a \o b) + Len(lost)
    BY <1>1, <1>2, SeqsOf
  <1>4. Len(a) = 0 /\ Len(b) = 0
    BY <1>1, <1>2, <1>3
  <1> QED BY <1>4, EmptySeq DEF IsSeq

\* A line and its delimiter are one frame, and nothing is left of them.
LEMMA OneFrame ==
  ASSUME NEW line \in Lines
  PROVE  WireOf(line) \in Seq(Symbols \cup {CR, LF}) /\ AfterFrame(WireOf(line)) = <<>>
  <1>1. line \in Seq(Symbols) /\ LF \notin Symbols
    BY ClientAssumption
  <1>2. PICK T : T = Symbols \cup {CR, LF}
    OBVIOUS
  <1>3. PICK d : d = Delimiter
    OBVIOUS
  <1>4. line \in Seq(T) /\ d \in Seq(T) /\ Len(d) = 2 /\ d[1] = CR /\ d[2] = LF
    BY <1>1, <1>2, <1>3 DEF Delimiter
  <1>5. PICK w : w = line \o d
    OBVIOUS
  <1>6. Len(line) \in Nat /\ \A i \in 1..Len(line) : line[i] # LF
    BY <1>1
  <1>7. /\ w \in Seq(T) /\ Len(w) = Len(line) + Len(d)
        /\ \A i \in 1..(Len(line) + Len(d)) : w[i] = IF i <= Len(line) THEN line[i] ELSE d[i - Len(line)]
    BY <1>4, <1>5, ConcatProperties
  <1>8. Len(w) = Len(line) + 2
    BY <1>4, <1>7
  <1>9. DelimitersIn(w) \subseteq Nat
    BY DEF DelimitersIn
  <1>10. w[Len(line) + 1] = CR /\ w[Len(line) + 2] = LF
    <2>1. /\ Len(line) + 1 \in 1..(Len(line) + Len(d)) /\ Len(line) + 2 \in 1..(Len(line) + Len(d))
          /\ ~(Len(line) + 1 <= Len(line)) /\ ~(Len(line) + 2 <= Len(line))
          /\ Len(line) + 1 - Len(line) = 1 /\ Len(line) + 2 - Len(line) = 2
      BY <1>4, <1>6
    <2>2. w[Len(line) + 1] = d[1] /\ w[Len(line) + 2] = d[2]
      BY <1>7, <2>1
    <2> QED BY <1>4, <2>2
  <1>11. ASSUME NEW i \in DelimitersIn(w) PROVE i = Len(line) + 1
    <2>1. i \in 1..(Len(line) + 1) /\ w[i] = CR /\ w[i + 1] = LF
      BY <1>8, <1>6 DEF DelimitersIn
    <2>2. CASE i + 1 \in 1..Len(line)
      <3>1. w[i + 1] = line[i + 1]
        BY <1>4, <1>6, <1>7, <2>2
      <3> QED BY <1>6, <2>1, <2>2, <3>1
    <2>3. CASE i = Len(line)
      BY <1>10, <2>1, <2>3 DEF CR, LF
    <2> QED BY <1>6, <2>1, <2>2, <2>3
  <1>12. DelimitersIn(w) = {Len(line) + 1}
    <2>1. Len(line) + 1 \in 1..(Len(w) - 1) /\ Len(line) + 1 + 1 = Len(line) + 2
      BY <1>6, <1>8
    <2>2. Len(line) + 1 \in DelimitersIn(w)
      BY <1>10, <2>1 DEF DelimitersIn
    <2> QED BY <1>11, <2>2
  <1>13. Min(DelimitersIn(w)) = Len(line) + 1
    BY <1>9, <1>12, MinFacts
  <1>14. AfterFrame(w) = SubSeq(w, Len(line) + 3, Len(line) + 2)
    BY <1>6, <1>8, <1>13 DEF AfterFrame
  <1>15. SubSeq(w, Len(line) + 3, Len(line) + 2) = <<>>
    BY <1>6, <1>7
  <1> QED BY <1>2, <1>3, <1>5, <1>7, <1>14, <1>15 DEF WireOf

-----------------------------------------------------------------------------
(* The client's steps *)

\* A reply that is not there has no parts.
LEMMA NoReply ==
  ASSUME NEW rs, IsSeq(rs), NEW n, n \notin 1..Len(rs)
  PROVE  WholeOf(rs, n) = <<>>
  <1>1. DOMAIN rs = 1..Len(rs)
    BY DEF IsSeq
  <1> QED BY <1>1 DEF WholeOf

\* The client starts with nothing.
LEMMA InitClientInv == Init => ClientInv
  <1> SUFFICES ASSUME Init PROVE ClientInv
    OBVIOUS
  <1> USE DEF Init
  <1>1. <<>> \in Seq({}) /\ Len(<<>>) = 0
    OBVIOUS
  <1>2. IsSeq(<<>>)
    BY <1>1 DEF IsSeq
  <1>3. \A S : <<>> \in Seq(S)
    BY EmptySeq
  <1>4. WiresOK
    BY <1>1, <1>2, <1>3 DEF WiresOK
  <1>5. <<>> \o <<>> = <<>> /\ (<<>> \o <<>>) \o <<>> = <<>>
    OBVIOUS
  <1>6. FlattenSeq(taken) = <<>>
    BY <1>1 DEF FlattenSeq
  <1>7. Replied(replies) = <<>>
    <2>1. PICK e : e = [n \in DOMAIN replies |-> WholeOf(replies, n)]
      OBVIOUS
    <2>2. e = <<>>
      BY <2>1
    <2> QED BY <1>1, <2>1, <2>2 DEF Replied, FlattenSeq
  <1>8. LedgerOK
    BY <1>2, <1>5, <1>6, <1>7 DEF LedgerOK, ArrivesAs
  <1>9. InStep
    <2>1. WholeOf(replies, Len(answers) + 1) = <<>>
      <3>1. Len(answers) + 1 \notin 1..Len(replies)
        BY <1>1
      <3> QED BY <1>2, <3>1, NoReply
    <2> QED BY <1>1, <1>2, <1>5, <2>1 DEF InStep, ArrivesAs
  <1>10. TornOK
    BY <1>1 DEF TornOK
  <1> QED BY <1>4, <1>8, <1>9, <1>10 DEF ClientInv

\* What the client has been told stands, while the replies stand and a reset
\* stays.
LEMMA TornStays ==
  ASSUME TornOK, UNCHANGED <<answers, replies>>, link = "reset" => link' = "reset",
         link' = "open" => link = "open" \/ Len(answers) = 0
  PROVE  TornOK'
  <1>1. ASSUME NEW n \in 1..Len(answers), WholeBefore(replies, n)
        PROVE  /\ link' = "open" => answers[n] # <<>>
               /\ answers[n] # WholeOf(replies, n) => FirstTorn(answers[n], WholeOf(replies, n), link')
    <2>1. Len(answers) # 0
      BY DEF TornOK
    <2>2. link' = "open" => link = "open"
      BY <2>1
    <2> QED BY <1>1, <2>2 DEF TornOK, FirstTorn
  <1> QED BY <1>1 DEF TornOK, WholeBefore, FirstTorn

\* The client connects, and has nothing yet.
LEMMA ConnectInv ==
  ASSUME ClientInv, Connect
  PROVE  ClientInv'
  <1>1. /\ app = "start" /\ link = "none" /\ sent = <<>> /\ replies = <<>> /\ input = <<>>
        /\ Len(answers) = 0
        /\ \/ app' = "prompt" /\ link' = "open"
           \/ app' = "failed" /\ link' = "none"
        /\ UNCHANGED <<input, flight, inbox, replies, sent, taken, answers>>
    BY DEF ClientInv, WiresOK, Connect, wire, server, results
  <1>2. WiresOK'
    BY <1>1 DEF ClientInv, WiresOK
  <1>3. LedgerOK'
    BY <1>1 DEF ClientInv, LedgerOK, ArrivesAs
  <1>4. (AllWhole => InStep)'
    BY <1>1 DEF ClientInv, AllWhole, InStep, ArrivesAs
  <1>5. TornOK'
    BY <1>1, TornStays DEF ClientInv
  <1> QED BY <1>2, <1>3, <1>4, <1>5 DEF ClientInv

\* The clock, the end of the input, and nothing at all.
LEMMA IdleInv ==
  ASSUME ClientInv, UNCHANGED <<link, wire, replies, sent, results>>,
         app' = app \/ (app = "prompt" /\ app' = "quit")
  PROVE  ClientInv'
  <1>1. UNCHANGED <<link, input, flight, inbox, replies, sent, taken, answers>>
    BY DEF wire, results
  <1>2. WiresOK'
    BY <1>1 DEF ClientInv, WiresOK
  <1>3. LedgerOK'
    BY <1>1 DEF ClientInv, LedgerOK
  <1>4. (AllWhole => InStep)'
    BY <1>1 DEF ClientInv, AllWhole, InStep
  <1>5. TornOK'
    BY <1>1, TornStays DEF ClientInv
  <1> QED BY <1>2, <1>3, <1>4, <1>5 DEF ClientInv

\* While every command has got its reply and the server owes nothing, nothing is
\* on its way.
LEMMA NothingOwed ==
  ASSUME ClientInv, AllWhole, Len(replies) <= Len(answers)
  PROVE  inbox = <<>> /\ flight = <<>> /\ WholeOf(replies, Len(answers) + 1) = <<>>
  <1>1. Len(answers) \in Nat /\ Len(replies) \in Nat /\ IsSeq(replies)
    BY DEF ClientInv, WiresOK, IsSeq
  <1>2. Len(answers) + 1 \notin 1..Len(replies)
    BY <1>1
  <1>3. WholeOf(replies, Len(answers) + 1) = <<>>
    BY <1>1, <1>2, NoReply
  <1>4. ArrivesAs(inbox \o flight, <<>>, link)
    BY <1>3 DEF ClientInv, InStep
  <1>5. IsSeq(inbox) /\ IsSeq(flight)
    BY DEF ClientInv, WiresOK, IsSeq
  <1> QED BY <1>3, <1>4, <1>5, NothingArrives

\* A line is sent, or lost on a connection that is closed.
LEMMA SendInv ==
  ASSUME ClientInv, NEW line \in Lines, Send(line)
  PROVE  ClientInv'
  <1>1. /\ app = "prompt" /\ sent' = Append(sent, line) /\ UNCHANGED <<inbox, replies, taken, answers>>
    BY DEF Send, server, results
  <1>2. /\ IsSeq(sent) /\ Len(sent) = Len(answers) /\ Len(answers) \in Nat
        /\ IsSeq(inbox) /\ IsSeq(FlattenSeq(taken))
        /\ flight \in Seq(PartsUpTo(Len(replies)))
    <2>1. taken \in Seq(Seq(PartsUpTo(Len(replies))))
      BY DEF ClientInv, WiresOK
    <2>2. IsSeq(FlattenSeq(taken))
      BY <2>1, FlattenIsSeq DEF IsSeq
    <2> QED BY <1>1, <2>1, <2>2 DEF ClientInv, WiresOK, IsSeq
  <1>3. IsSeq(sent') /\ Len(sent') = Len(answers) + 1
    BY <1>1, <1>2, SeqsOf
  <1>4. CASE link = "open"
    <2>1. /\ app' = "recv" /\ input' = input \o WireOf(line) /\ UNCHANGED <<link, flight>>
      BY <1>4 DEF Send
    <2>2. WireOf(line) \in Seq(Symbols \cup {CR, LF})
      BY OneFrame
    <2>3. WiresOK'
      <3>1. input' \in Seq(Symbols \cup {CR, LF})
        <4>1. PICK T, w : T = Symbols \cup {CR, LF} /\ w = WireOf(line)
          OBVIOUS
        <4>2. input \in Seq(T) /\ w \in Seq(T)
          BY <2>2, <4>1 DEF ClientInv, WiresOK
        <4> QED BY <2>1, <4>1, <4>2
      <3> QED BY <1>1, <1>3, <1>4, <2>1, <3>1 DEF ClientInv, WiresOK
    <2>4. LedgerOK'
      BY <1>1, <2>1 DEF ClientInv, LedgerOK
    <2>5. (AllWhole => InStep)'
      <3> SUFFICES ASSUME AllWhole PROVE InStep'
        BY <1>1 DEF AllWhole
      <3>1. Len(replies) = Len(sent) /\ input = <<>> /\ ArrivesAs(inbox \o flight, WholeOf(replies, Len(answers) + 1), link)
        BY <1>1, <1>4 DEF ClientInv, InStep
      <3>2. input' = WireOf(line)
        <4>1. PICK w : w = WireOf(line)
          OBVIOUS
        <4>2. w \in Seq(Symbols \cup {CR, LF})
          BY <2>2, <4>1
        <4>3. <<>> \o w = w
          BY <4>2
        <4> QED BY <2>1, <3>1, <4>1, <4>3
      <3>3. Len(replies) = Len(answers) /\ Len(replies) <= Len(sent')
        BY <1>2, <1>3, <3>1
      <3> QED BY <1>1, <2>1, <3>1, <3>2, <3>3 DEF InStep
    <2>6. TornOK'
      BY <1>1, <2>1, TornStays DEF ClientInv
    <2> QED BY <2>3, <2>4, <2>5, <2>6 DEF ClientInv
  <1>5. CASE link # "open"
    <2>1. PICK n \in 0..Len(flight) :
            /\ app' \in {"recv", "killed"} /\ link' = "reset" /\ input' = input
            /\ flight' = SubSeq(flight, 1, n) \/ (flight' = flight /\ link = "reset")
      <3>1. CASE link = "closed"
        BY <1>5, <3>1 DEF Send, FlightIsCut
      <3>2. CASE link = "reset"
        <4>1. 0 \in 0..Len(flight)
          BY <1>2
        <4> QED BY <1>5, <3>2, <4>1 DEF Send
      <3> QED BY <1>5, <3>1, <3>2 DEF Send
    <2>2. flight' \in Seq(PartsUpTo(Len(replies)))
      BY <1>2, <2>1, SplitAt
    <2>3. WiresOK'
      BY <1>1, <1>3, <1>5, <2>1, <2>2 DEF ClientInv, WiresOK
    <2>4. ASSUME NEW p, IsSeq(p), NEW due, ArrivesAs(p \o flight, due, link)
          PROVE  ArrivesAs(p \o flight', due, "reset")
      <3>1. CASE flight' = SubSeq(flight, 1, n)
        BY <1>2, <2>4, <3>1, CutArrives
      <3>2. CASE flight' = flight /\ link = "reset"
        BY <2>4, <3>2
      <3> QED BY <2>1, <3>1, <3>2
    <2>5. LedgerOK'
      <3>1. PICK p : p = FlattenSeq(taken) \o inbox
        OBVIOUS
      <3>2. IsSeq(p)
        BY <1>2, <3>1, SeqsOf
      <3>3. ArrivesAs(p \o flight', Replied(replies), "reset")
        BY <2>4, <3>1, <3>2 DEF ClientInv, LedgerOK
      <3> QED BY <1>1, <2>1, <3>1, <3>3 DEF LedgerOK
    <2>6. (AllWhole => InStep)'
      <3> SUFFICES ASSUME AllWhole PROVE InStep'
        BY <1>1 DEF AllWhole
      <3>1. Len(replies) <= Len(sent) /\ ArrivesAs(inbox \o flight, WholeOf(replies, Len(answers) + 1), link)
        BY DEF ClientInv, InStep
      <3>2. ArrivesAs(inbox \o flight', WholeOf(replies, Len(answers) + 1), "reset")
        BY <1>2, <2>4, <3>1
      <3>3. Len(replies) \in Nat /\ Len(replies) <= Len(sent')
        BY <1>2, <1>3, <3>1 DEF ClientInv, WiresOK, IsSeq
      <3> QED BY <1>1, <2>1, <3>2, <3>3 DEF InStep
    <2>7. TornOK'
      BY <1>1, <2>1, TornStays DEF ClientInv
    <2> QED BY <2>3, <2>5, <2>6, <2>7 DEF ClientInv
  <1> QED BY <1>4, <1>5

\* Four sequences, put together from the right and from the left.
LEMMA AssociativeFour ==
  ASSUME NEW s, NEW t, NEW u, NEW v, IsSeq(s), IsSeq(t), IsSeq(u), IsSeq(v)
  PROVE  /\ IsSeq(t \o (u \o v))
         /\ s \o (t \o (u \o v)) = ((s \o t) \o u) \o v
  <1>1. PICK a, b : a = s \o t /\ b = u \o v
    OBVIOUS
  <1>2. IsSeq(a) /\ IsSeq(b) /\ IsSeq(t \o b)
    <2>1. IsSeq(a) /\ IsSeq(b)
      BY <1>1, SeqsOf
    <2> QED BY <2>1, SeqsOf
  <1>3. s \o (t \o b) = (s \o t) \o b
    <2> HIDE <1>1
    <2> QED BY <1>2, Associative
  <1>4. a \o (u \o v) = (a \o u) \o v
    <2> HIDE <1>1
    <2> QED BY <1>2, Associative
  <1> QED BY <1>1, <1>2, <1>3, <1>4, Zenon

\* What comes behind the beginning x of y comes behind x.
LEMMA BehindTheCut ==
  ASSUME NEW x, NEW y, IsSeq(x), CutFrom(x, y), NEW r, IsSeq(r), NEW came, came = y \o r,
         NEW due, NEW st, ArrivesAs(came, due, st)
  PROVE  ArrivesAs(x, due, "reset")
  <1>1. PICK cut : IsSeq(cut) /\ y = x \o cut
    BY DEF CutFrom
  <1>2. PICK lost : IsSeq(lost) /\ due = came \o lost
    BY DEF ArrivesAs
  <1>3. PICK l : l = cut \o (r \o lost)
    OBVIOUS
  <1>4. /\ IsSeq(cut \o (r \o lost))
        /\ x \o (cut \o (r \o lost)) = ((x \o cut) \o r) \o lost
    <2> HIDE <1>3
    <2>1. IsSeq(cut) /\ IsSeq(lost)
      BY <1>1, <1>2
    <2> QED BY <2>1, AssociativeFour
  <1>5. IsSeq(l) /\ due = x \o l
    BY <1>1, <1>2, <1>3, <1>4
  <1> QED BY <1>5 DEF ArrivesAs

\* Of a first reply that is torn, a beginning comes.
LEMMA FirstPart ==
  ASSUME ClientInv, AllWhole, inbox # <<>>
  PROVE  inbox[1][3] = FALSE
  <1>1. PICK P, n, i, f : P = PartsUpTo(Len(replies)) /\ n = Len(answers) + 1 /\ i = inbox /\ f = flight
    OBVIOUS
  <1>2. i \in Seq(P) /\ f \in Seq(P) /\ n \in Nat \ {0} /\ IsSeq(replies) /\ i # <<>>
    BY <1>1 DEF ClientInv, WiresOK
  <1>3. PICK w, lost : w = WholeOf(replies, n) /\ IsSeq(lost) /\ w = (i \o f) \o lost
    BY <1>1 DEF ClientInv, InStep, ArrivesAs
  <1>4. PICK T : i \in Seq(T) /\ f \in Seq(T)
    BY <1>2
  <1>5. PICK c : c = i \o f
    OBVIOUS
  <1>6. c \in Seq(T) /\ Len(c) = Len(i) + Len(f) /\ Len(i) \in Nat \ {0} /\ Len(f) \in Nat /\ c[1] = i[1]
    BY <1>2, <1>4, <1>5
  <1>7. IsSeq(c)
    BY <1>6 DEF IsSeq
  <1>8. PICK U : c \in Seq(U) /\ lost \in Seq(U)
    BY <1>3, <1>7, CommonSet
  <1>9. w[1] = c[1] /\ w # <<>>
    BY <1>3, <1>5, <1>6, <1>8
  <1>10. n \in DOMAIN replies /\ w = PartsOf(n, replies[n])
    BY <1>3, <1>9 DEF WholeOf
  <1>11. w[1] = <<n, 1, FALSE>>
    BY <1>2, <1>9, <1>10, NewParts
  <1> QED BY <1>1, <1>6, <1>9, <1>11

\* SendCommand returns what one recv took, up to a NUL, or throws.
LEMMA AnswerInv ==
  ASSUME ClientInv, app = "recv", app' = "prompt", UNCHANGED <<link, input, flight, replies, sent>>,
         NEW x \in Seq(PartsUpTo(Len(replies))), answers' = Append(answers, x),
         NEW y \in Seq(PartsUpTo(Len(replies))), taken' = Append(taken, y), CutFrom(x, y),
         inbox' \in Seq(PartsUpTo(Len(replies))), y \o inbox' = inbox,
         y = <<>> => inbox = <<>> /\ flight = <<>> /\ link # "open"
  PROVE  ClientInv'
  <1>1. PICK P, Q, n : P = PartsUpTo(Len(replies)) /\ Q = Seq(P) /\ n = Len(answers) + 1
    OBVIOUS
  <1>2. answers \in Seq(Q) /\ taken \in Seq(Q) /\ x \in Q /\ y \in Q /\ IsSeq(replies)
    BY <1>1 DEF ClientInv, WiresOK
  <1>3. /\ answers' \in Seq(Q) /\ Len(answers) \in Nat /\ Len(answers') = n /\ n \in Nat
        /\ answers'[n] = x /\ \A m \in 1..Len(answers) : answers'[m] = answers[m]
        /\ Len(sent) = n /\ Len(replies) \in Nat
    BY <1>1, <1>2 DEF ClientInv, WiresOK, IsSeq
  <1>b. /\ taken' \in Seq(Q) /\ Len(taken') = n
        /\ taken'[n] = y /\ \A m \in 1..Len(answers) : taken'[m] = taken[m]
    BY <1>1, <1>2 DEF ClientInv, WiresOK
  <1>4. IsSeq(x) /\ IsSeq(y) /\ IsSeq(inbox') /\ IsSeq(flight) /\ IsSeq(inbox)
    BY DEF ClientInv, WiresOK, IsSeq
  <1>c. PICK cut : IsSeq(cut) /\ y = x \o cut /\ (cut # <<>> => cut[1][3])
    BY DEF CutFrom
  <1>5. WiresOK'
    <2>1. \A m \in 1..n : m \in 1..Len(answers) \/ m = n
      BY <1>1, <1>3
    <2>2. \A m \in 1..n : CutFrom(answers'[m], taken'[m])
      BY <1>3, <1>b, <2>1 DEF ClientInv, WiresOK
    <2> QED BY <1>1, <1>3, <1>b, <2>2 DEF ClientInv, WiresOK
  <1>6. LedgerOK'
    <2>1. PICK f : f = FlattenSeq(taken)
      OBVIOUS
    <2>2. IsSeq(f) /\ FlattenSeq(taken') = f \o y
      <3>1. taken \in Seq(Seq(P)) /\ y \in Seq(P)
        BY <1>1, <1>2
      <3> QED BY <2>1, <3>1, FlattenAppend, FlattenIsSeq DEF IsSeq
    <2>3. (f \o y) \o inbox' = f \o (y \o inbox')
      <3>1. PICK i : i = inbox'
        OBVIOUS
      <3>2. IsSeq(f) /\ IsSeq(y) /\ IsSeq(i)
        BY <1>4, <2>2, <3>1
      <3>3. f \o (y \o i) = (f \o y) \o i
        BY <3>2, Associative
      <3> QED BY <3>1, <3>3
    <2>4. (FlattenSeq(taken') \o inbox') \o flight' = (FlattenSeq(taken) \o inbox) \o flight
      BY <2>1, <2>2, <2>3
    <2> QED BY <2>4 DEF ClientInv, LedgerOK
  <1>d. ASSUME AllWhole, x = <<>> PROVE y = <<>>
    <2> SUFFICES ASSUME y # <<>> PROVE FALSE
      OBVIOUS
    <2>1. <<>> \o cut = cut
      <3>1. PICK T : cut \in Seq(T)
        BY <1>c DEF IsSeq
      <3> QED BY <3>1
    <2>2. y = cut /\ y[1][3]
      BY <1>c, <1>d, <2>1
    <2>3. inbox # <<>> /\ inbox[1] = y[1]
      <3>1. PICK j : j = inbox'
        OBVIOUS
      <3>2. y \in Seq(P) /\ j \in Seq(P) /\ y \o j = inbox
        BY <1>1, <3>1
      <3> QED BY <3>2
    <2> QED BY <1>d, <2>2, <2>3, FirstPart
  <1>7. AllWhole => y \o (inbox' \o flight) = inbox \o flight /\ Len(replies) <= n
    <2>1. PICK i, f : i = inbox' /\ f = flight
      OBVIOUS
    <2>2. IsSeq(y) /\ IsSeq(i) /\ IsSeq(f)
      BY <1>4, <2>1
    <2>3. y \o (i \o f) = (y \o i) \o f
      BY <2>2, Associative
    <2>4. AllWhole => Len(replies) <= n
      BY <1>3 DEF ClientInv, InStep
    <2> QED BY <2>1, <2>3, <2>4
  <1>8. AllWhole' => AllWhole /\ x = WholeOf(replies, n)
    <2> SUFFICES ASSUME AllWhole' PROVE AllWhole /\ x = WholeOf(replies, n)
      OBVIOUS
    <2>1. \A m \in 1..n : answers'[m] = WholeOf(replies, m)
      BY <1>3 DEF AllWhole
    <2>2. n \in 1..n /\ \A m \in 1..Len(answers) : m \in 1..n
      BY <1>1, <1>3
    <2> QED BY <1>3, <2>1, <2>2 DEF AllWhole
  <1>9. (AllWhole => InStep)'
    <2> SUFFICES ASSUME AllWhole' PROVE InStep'
      OBVIOUS
    <2>1. AllWhole /\ x = WholeOf(replies, n) /\ Len(replies) <= n
      BY <1>7, <1>8
    <2>2. PICK lost : IsSeq(lost) /\ x = (inbox \o flight) \o lost
      BY <1>1, <2>1 DEF ClientInv, InStep, ArrivesAs
    <2>3. inbox' = <<>> /\ flight = <<>>
      <3>1. /\ Len(inbox') \in Nat /\ Len(flight) \in Nat /\ Len(x) \in Nat /\ Len(lost) \in Nat
            /\ IsSeq(inbox \o flight) /\ Len(inbox \o flight) = Len(inbox) + Len(flight)
            /\ Len(y \o inbox') = Len(y) + Len(inbox') /\ Len(y) \in Nat /\ Len(cut) \in Nat
            /\ Len(y) = Len(x) + Len(cut)
        BY <1>4, <1>c, <2>2, SeqsOf
      <3>2. Len((inbox \o flight) \o lost) = Len(inbox \o flight) + Len(lost)
        BY <2>2, <3>1, SeqsOf
      <3>3. Len(inbox') = 0 /\ Len(flight) = 0
        BY <2>2, <3>1, <3>2
      <3> QED BY <1>4, <3>3, EmptySeq DEF IsSeq
    <2>4. WholeOf(replies, n + 1) = <<>>
      <3>1. n + 1 \notin 1..Len(replies)
        BY <1>3, <2>1
      <3> QED BY <1>2, <3>1, NoReply
    <2>5. ArrivesAs(inbox' \o flight, WholeOf(replies, n + 1), link)
      <3>1. <<>> \in Seq({}) /\ <<>> \o <<>> = <<>> /\ (<<>> \o <<>>) \o <<>> = <<>>
        OBVIOUS
      <3> QED BY <2>3, <2>4, <3>1 DEF ArrivesAs, IsSeq
    <2>6. link = "open" => Len(replies) = Len(sent) /\ input = <<>>
      <3> SUFFICES ASSUME link = "open" PROVE Len(replies) = Len(sent) /\ input = <<>>
        OBVIOUS
      <3>1. n \in 1..Len(replies)
        <4>1. x # <<>>
          BY <1>d, <2>1
        <4> QED BY <1>2, <2>1, <4>1, NoReply
      <3>2. Len(replies) # Len(answers)
        BY <1>1, <1>3, <3>1
      <3> QED BY <2>1, <3>2 DEF ClientInv, InStep
    <2> QED BY <1>3, <2>1, <2>5, <2>6 DEF InStep
  <1>10. TornOK'
    <2>1. \A m \in 1..n : m \in 1..Len(answers) \/ m = n
      BY <1>1, <1>3
    <2>2. ASSUME NEW m \in 1..n, WholeBefore(replies, m)'
          PROVE  /\ link = "open" => answers'[m] # <<>>
                 /\ answers'[m] # WholeOf(replies, m) => FirstTorn(answers'[m], WholeOf(replies, m), link)
      <3>0. \A i \in 1..(m - 1) : answers'[i] = WholeOf(replies, i)
        BY <2>2 DEF WholeBefore
      <3>a. \A i \in 1..(m - 1) : i \in 1..Len(answers)
        BY <1>1, <1>3
      <3>1. CASE m \in 1..Len(answers)
        <4>1. answers'[m] = answers[m] /\ WholeBefore(replies, m)
          BY <1>3, <3>0, <3>1, <3>a DEF WholeBefore
        <4> QED BY <3>1, <4>1 DEF ClientInv, TornOK, FirstTorn
      <3>2. CASE m = n
        <4>1. AllWhole
          <5>1. \A i \in 1..Len(answers) : i \in 1..(m - 1)
            BY <1>1, <1>3, <3>2
          <5> QED BY <1>3, <3>0, <5>1 DEF AllWhole
        <4>2. PICK lost : /\ IsSeq(lost) /\ WholeOf(replies, n) = (inbox \o flight) \o lost
                          /\ link # "reset" => lost = <<>>
          BY <1>1, <4>1 DEF ClientInv, InStep, ArrivesAs
        <4>3. PICK r, came, due : /\ r = inbox' \o flight /\ came = inbox \o flight
                                  /\ due = WholeOf(replies, n)
          OBVIOUS
        <4>4. IsSeq(r) /\ came = y \o r
          BY <1>4, <1>7, <4>1, <4>3, SeqsOf
        <4>5. ArrivesAs(came, due, link)
          BY <1>1, <4>1, <4>3 DEF ClientInv, InStep
        <4>6. ArrivesAs(x, due, "reset")
          BY <1>4, <4>4, <4>5, BehindTheCut
        <4>7. PICK l : IsSeq(l) /\ WholeOf(replies, n) = x \o l
          BY <4>3, <4>6 DEF ArrivesAs
        <4>8. x # WholeOf(replies, n) => l # <<>>
          <5>1. x \o <<>> = x
            BY <1>4, SeqsOf
          <5> QED BY <4>7, <5>1
        <4>9. x = <<>> => y = <<>>
          BY <1>d, <4>1
        <4>10. x = <<>> /\ x # WholeOf(replies, n) => link = "reset"
          <5> SUFFICES ASSUME x = <<>>, x # WholeOf(replies, n), link # "reset" PROVE FALSE
            OBVIOUS
          <5>1. <<>> \o <<>> = <<>> /\ (<<>> \o <<>>) \o <<>> = <<>>
            OBVIOUS
          <5>2. inbox = <<>> /\ flight = <<>> /\ lost = <<>>
            BY <4>2, <4>9
          <5>3. WholeOf(replies, n) = <<>>
            BY <4>2, <5>1, <5>2
          <5> QED BY <5>3
        <4>11. link = "open" => x # <<>>
          BY <4>9
        <4> QED BY <1>3, <3>2, <4>7, <4>8, <4>10, <4>11 DEF FirstTorn
      <3> QED BY <2>1, <3>1, <3>2
    <2> QED BY <1>3, <2>2 DEF TornOK
  <1> QED BY <1>5, <1>6, <1>9, <1>10 DEF ClientInv

\* A C string ends at the first NUL (kv_client.h:96-98).
LEMMA NulCuts ==
  ASSUME NEW P, NEW y \in Seq(P), NEW x, x = UpToNul(y)
  PROVE  x \in Seq(P) /\ CutFrom(x, y)
  <1>1. PICK N, m : N = {i \in DOMAIN y : y[i][3]} /\ m = Min(N)
    OBVIOUS
  <1>2. x = IF N = {} THEN y ELSE SubSeq(y, 1, m - 1)
    BY <1>1 DEF UpToNul
  <1>3. Len(y) \in Nat /\ DOMAIN y = 1..Len(y)
    OBVIOUS
  <1>4. CASE N = {}
    <2>1. y \o <<>> = y /\ <<>> \in Seq({}) /\ IsSeq(y)
      BY DEF IsSeq
    <2> QED BY <1>2, <1>4, <2>1 DEF CutFrom, IsSeq
  <1>5. CASE N # {}
    <2>1. m \in N /\ m \in 1..Len(y) /\ y[m][3]
      <3>1. N \subseteq Nat
        BY <1>1, <1>3
      <3>2. m \in N
        BY <1>1, <1>5, <3>1, MinFacts
      <3> QED BY <1>1, <1>3, <3>2
    <2>2. PICK d : d = SubSeq(y, m, Len(y))
      OBVIOUS
    <2>3. x \in Seq(P) /\ d \in Seq(P) /\ y = x \o d
      <3>1. PICK j : j = m - 1 /\ j \in 0..Len(y) /\ j + 1 = m
        BY <1>3, <2>1
      <3>2. x = SubSeq(y, 1, j) /\ d = SubSeq(y, j + 1, Len(y))
        BY <1>2, <1>5, <2>2, <3>1
      <3>3. /\ SubSeq(y, 1, j) \in Seq(P) /\ SubSeq(y, j + 1, Len(y)) \in Seq(P)
            /\ y = SubSeq(y, 1, j) \o SubSeq(y, j + 1, Len(y))
        <4>1. j \in 0..Len(y)
          BY <3>1
        <4> QED BY <4>1, SplitAt, Zenon
      <3> QED BY <3>2, <3>3, Zenon
    <2>4. d[1] = y[m]
      BY <1>3, <2>1, <2>2
    <2> QED BY <2>1, <2>3, <2>4 DEF CutFrom, IsSeq
  <1> QED BY <1>4, <1>5

\* One recv takes the first parts that have come, as many as its buffer holds.
LEMMA RecvInv ==
  ASSUME ClientInv, Recv \/ RecvFails
  PROVE  ClientInv'
  <1>1. PICK P : P = PartsUpTo(Len(replies))
    OBVIOUS
  <1>2. inbox \in Seq(P) /\ Len(inbox) \in Nat
    BY <1>1 DEF ClientInv, WiresOK
  <1>3. CASE Recv
    <2>1. PICK n, y, x : /\ n = IF Len(inbox) < RecvSize THEN Len(inbox) ELSE RecvSize
                         /\ y = SubSeq(inbox, 1, n) /\ x = UpToNul(y)
      OBVIOUS
    <2>2. Taken = y
      BY <2>1 DEF Taken
    <2>3. /\ app = "recv" /\ inbox # <<>> /\ app' = "prompt"
          /\ answers' = Append(answers, x) /\ taken' = Append(taken, y)
          /\ inbox' = SubSeq(inbox, Len(y) + 1, Len(inbox))
          /\ UNCHANGED <<link, input, flight, replies, sent>>
      BY <1>3, <2>1, <2>2 DEF Recv, Take, server
    <2>4. n \in 0..Len(inbox) /\ n # 0
      <3>1. Len(inbox) # 0
        BY <1>2, <2>3, EmptySeq
      <3> QED BY <1>2, <2>1, <3>1, ClientAssumption
    <2>5. y \in Seq(P) /\ Len(y) = n /\ inbox' \in Seq(P) /\ inbox = y \o inbox'
      <3>1. PICK z : z = SubSeq(inbox, n + 1, Len(inbox))
        OBVIOUS
      <3>2. y \in Seq(P) /\ z \in Seq(P) /\ Len(y) = n /\ inbox = y \o z
        BY <1>2, <2>1, <2>4, <3>1, SplitAt, Zenon
      <3> QED BY <2>3, <3>1, <3>2
    <2>6. y # <<>>
      <3>1. Len(<<>>) = 0
        OBVIOUS
      <3> QED BY <2>4, <2>5, <3>1
    <2>7. x \in Seq(P) /\ CutFrom(x, y)
      BY <2>1, <2>5, NulCuts
    <2> QED BY <1>1, <2>3, <2>5, <2>6, <2>7, AnswerInv
  <1>4. CASE RecvFails
    <2>1. PICK x : x = <<>>
      OBVIOUS
    <2>2. /\ app = "recv" /\ inbox = <<>> /\ flight = <<>> /\ link # "open" /\ app' = "prompt"
          /\ answers' = Append(answers, x) /\ taken' = Append(taken, x)
          /\ UNCHANGED <<link, input, flight, inbox, replies, sent>>
      BY <1>4, <2>1 DEF RecvFails, server, wire
    <2>3. x \in Seq(P) /\ x \o inbox' = inbox /\ CutFrom(x, x)
      <3>1. <<>> \o <<>> = <<>> /\ <<>> \in Seq(P) /\ <<>> \in Seq({})
        OBVIOUS
      <3> QED BY <2>1, <2>2, <3>1 DEF CutFrom, IsSeq
    <2> QED BY <1>1, <1>2, <2>2, <2>3, AnswerInv
  <1> QED BY <1>3, <1>4

-----------------------------------------------------------------------------
(* The server's and the network's steps *)

\* A part arrives.
LEMMA DeliverInv ==
  ASSUME ClientInv, Deliver
  PROVE  ClientInv'
  <1>1. /\ flight # <<>> /\ inbox' = Append(inbox, Head(flight)) /\ flight' = Tail(flight)
        /\ UNCHANGED <<app, link, input, replies, sent, taken, answers>>
    BY DEF Deliver, server, results
  <1>2. PICK P, f, i, j, t : /\ P = PartsUpTo(Len(replies)) /\ f = FlattenSeq(taken) /\ i = inbox
                             /\ t = flight /\ j = Append(i, Head(t))
    OBVIOUS
  <1>3. i \in Seq(P) /\ t \in Seq(P) /\ taken \in Seq(Seq(P)) /\ t # <<>>
    BY <1>1, <1>2 DEF ClientInv, WiresOK
  <1>4. j \in Seq(P) /\ Tail(t) \in Seq(P) /\ f \in Seq(P)
    <2>1. Head(t) \in P /\ Tail(t) \in Seq(P)
      BY <1>3
    <2>2. j \in Seq(P)
      BY <1>2, <1>3, <2>1
    <2> QED BY <1>2, <1>3, <2>1, <2>2, FlattenIsSeq
  <1>5. IsSeq(f) /\ IsSeq(i) /\ IsSeq(j) /\ IsSeq(t) /\ IsSeq(Tail(t))
    BY <1>3, <1>4 DEF IsSeq
  <1>6. j \o Tail(t) = i \o t
    BY <1>2, <1>3, <1>5, MoveHead
  <1>7. (f \o j) \o Tail(t) = (f \o i) \o t
    <2>1. PICK u : u = Tail(t)
      OBVIOUS
    <2>2. IsSeq(u)
      BY <1>5, <2>1
    <2>3. f \o (j \o u) = (f \o j) \o u
      BY <1>5, <2>2, Associative
    <2>4. f \o (i \o t) = (f \o i) \o t
      BY <1>5, Associative
    <2> QED BY <1>6, <2>1, <2>3, <2>4
  <1>8. WiresOK'
    BY <1>1, <1>2, <1>4 DEF ClientInv, WiresOK
  <1>9. LedgerOK'
    BY <1>1, <1>2, <1>7 DEF ClientInv, LedgerOK
  <1>10. (AllWhole => InStep)'
    BY <1>1, <1>2, <1>6 DEF ClientInv, AllWhole, InStep
  <1>11. TornOK'
    BY <1>1, TornStays DEF ClientInv
  <1> QED BY <1>8, <1>9, <1>10, <1>11 DEF ClientInv

\* What was due still arrives, or a reset cuts its end, when the server closes
\* the connection.
LEMMA ClosingArrives ==
  ASSUME ClientInv, link = "open", NEW rest, ServerCloses(rest)
  PROVE  /\ link' \in {"closed", "reset"} /\ input' = <<>>
         /\ flight' \in Seq(PartsUpTo(Len(replies)))
         /\ \A p, due : IsSeq(p) /\ ArrivesAs(p \o flight, due, "open")
                           => ArrivesAs(p \o flight', due, link')
  <1>1. flight \in Seq(PartsUpTo(Len(replies)))
    BY DEF ClientInv, WiresOK
  <1>2. CASE link' = "closed" /\ UNCHANGED flight
    <2>1. \A p, due : ArrivesAs(p \o flight, due, "open") => ArrivesAs(p \o flight, due, "closed")
      BY StateArrives
    <2> QED BY <1>1, <1>2, <2>1 DEF ServerCloses
  <1>3. CASE link' = "reset" /\ FlightIsCut
    <2>1. PICK n \in 0..Len(flight) : flight' = SubSeq(flight, 1, n)
      BY <1>3 DEF FlightIsCut
    <2>2. \A p, due : IsSeq(p) /\ ArrivesAs(p \o flight, due, "open")
                        => ArrivesAs(p \o SubSeq(flight, 1, n), due, "reset")
      BY <1>1, CutArrives
    <2>3. SubSeq(flight, 1, n) \in Seq(PartsUpTo(Len(replies)))
      BY <1>1, SplitAt
    <2> QED BY <1>3, <2>1, <2>2, <2>3 DEF ServerCloses
  <1> QED BY <1>2, <1>3 DEF ServerCloses

\* The server's process ends.
LEMMA ServerStopsInv ==
  ASSUME ClientInv, ServerStops
  PROVE  ClientInv'
  <1>1. /\ link = "open" /\ ServerCloses(input)
        /\ UNCHANGED <<app, inbox, replies, sent, taken, answers>>
    BY DEF ServerStops, server, results
  <1>2. /\ link' \in {"closed", "reset"} /\ input' = <<>>
        /\ flight' \in Seq(PartsUpTo(Len(replies)))
        /\ \A p, due : IsSeq(p) /\ ArrivesAs(p \o flight, due, "open")
                          => ArrivesAs(p \o flight', due, link')
    BY <1>1, ClosingArrives
  <1>3. WiresOK'
    <2>1. <<>> \in Seq(Symbols \cup {CR, LF})
      OBVIOUS
    <2> QED BY <1>1, <1>2, <2>1 DEF ClientInv, WiresOK
  <1>4. LedgerOK'
    <2>1. PICK p : p = FlattenSeq(taken) \o inbox
      OBVIOUS
    <2>2. IsSeq(FlattenSeq(taken)) /\ IsSeq(inbox)
      BY FlattenIsSeq DEF ClientInv, WiresOK, IsSeq
    <2>3. IsSeq(p)
      BY <2>1, <2>2, SeqsOf
    <2>4. ArrivesAs(p \o flight', Replied(replies), link')
      BY <1>1, <1>2, <2>1, <2>3 DEF ClientInv, LedgerOK
    <2> QED BY <1>1, <2>1, <2>4 DEF LedgerOK
  <1>5. (AllWhole => InStep)'
    <2> SUFFICES ASSUME AllWhole PROVE InStep'
      BY <1>1 DEF AllWhole
    <2>1. IsSeq(inbox)
      BY DEF ClientInv, WiresOK, IsSeq
    <2>2. ArrivesAs(inbox \o flight, WholeOf(replies, Len(answers) + 1), "open")
      BY <1>1 DEF ClientInv, InStep
    <2>3. ArrivesAs(inbox \o flight', WholeOf(replies, Len(answers) + 1), link')
      BY <1>2, <2>1, <2>2
    <2> QED BY <1>1, <1>2, <2>3 DEF ClientInv, InStep
  <1>6. TornOK'
    BY <1>1, <1>2, TornStays DEF ClientInv
  <1> QED BY <1>3, <1>4, <1>5, <1>6 DEF ClientInv

\* One frame is handled: its reply is one more, and what it holds is sent; or it
\* has no word, and the connection is closed.
LEMMA ServeFacts ==
  ASSUME ClientInv, Serve
  PROVE  \E r, w :
           /\ replies' = Append(replies, r)
           /\ w = PartsOf(Len(replies) + 1, r)
           /\ link' \in {"open", "closed", "reset"}
           /\ input' = IF link' = "open" THEN AfterFrame(input) ELSE <<>>
           /\ flight' \in Seq(PartsUpTo(Len(replies) + 1))
           /\ \A p, due : IsSeq(p) /\ IsSeq(due) /\ ArrivesAs(p \o flight, due, "open")
                             => ArrivesAs(p \o flight', due \o w, link')
  <1>1. PICK f, k : f = FrameOf(input) /\ k = Len(replies) + 1
    OBVIOUS
  <1>2. Len(replies) \in Nat /\ k \in Nat \ {0} /\ Len(replies) <= k
        /\ flight \in Seq(PartsUpTo(Len(replies))) /\ link = "open"
    BY <1>1 DEF ClientInv, WiresOK, IsSeq, Serve
  <1>3. CASE Unparsable(f)
    <2>1. PICK r : r = [kind |-> "none", data |-> Empty]
      OBVIOUS
    <2>2. ServerCloses(AfterFrame(input)) /\ replies' = Append(replies, r)
      BY <1>1, <1>3, <2>1 DEF Serve
    <2>3. /\ link' \in {"closed", "reset"} /\ input' = <<>>
          /\ flight' \in Seq(PartsUpTo(Len(replies)))
          /\ \A p, due : IsSeq(p) /\ ArrivesAs(p \o flight, due, "open")
                            => ArrivesAs(p \o flight', due, link')
      BY <1>2, <2>2, ClosingArrives
    <2>4. PICK w : w = PartsOf(k, r)
      OBVIOUS
    <2>5. w = <<>>
      <3>1. Parts(r) = 0
        BY <2>1 DEF Parts
      <3> QED BY <1>2, <2>4, <3>1, NewParts
    <2>6. \A due : IsSeq(due) => due \o w = due
      <3>1. \A due : IsSeq(due) => due \o <<>> = due
        BY SeqsOf
      <3> QED BY <2>5, <3>1
    <2>7. flight' \in Seq(PartsUpTo(k))
      BY <1>2, <2>3, MoreParts
    <2>8. \A p, due : IsSeq(p) /\ IsSeq(due) /\ ArrivesAs(p \o flight, due, "open")
                         => ArrivesAs(p \o flight', due \o w, link')
      BY <2>3, <2>6
    <2> QED BY <1>1, <2>2, <2>3, <2>4, <2>7, <2>8
  <1>4. CASE ~Unparsable(f)
    <2>1. PICK r : /\ replies' = Append(replies, r) /\ flight' = flight \o PartsOf(k, r)
                   /\ input' = AfterFrame(input) /\ link' = link
      BY <1>1, <1>4 DEF Serve
    <2>2. PICK w : w = PartsOf(k, r)
      OBVIOUS
    <2>3. /\ replies' = Append(replies, r) /\ flight' = flight \o w
          /\ input' = AfterFrame(input) /\ link' = link
      BY <2>1, <2>2
    <2>4. w \in Seq(PartsUpTo(k)) /\ flight \in Seq(PartsUpTo(k))
      BY <1>2, <2>2, NewParts, MoreParts
    <2>5. flight' \in Seq(PartsUpTo(k))
      BY <2>3, <2>4, ConcatProperties
    <2>6. \A p, due : IsSeq(p) /\ IsSeq(due) /\ ArrivesAs(p \o flight, due, "open")
                         => ArrivesAs(p \o (flight \o w), due \o w, "open")
      <3> SUFFICES ASSUME NEW p, NEW due, IsSeq(p), ArrivesAs(p \o flight, due, "open")
                   PROVE  ArrivesAs(p \o (flight \o w), due \o w, "open")
        OBVIOUS
      <3>1. PICK g : g = flight
        OBVIOUS
      <3>2. IsSeq(g) /\ IsSeq(w) /\ ArrivesAs(p \o g, due, "open")
        BY <2>4, <3>1 DEF IsSeq
      <3>3. ArrivesAs(p \o (g \o w), due \o w, "open")
        BY <3>2, MoreArrives
      <3> QED BY <3>1, <3>3
    <2> QED BY <1>1, <1>2, <2>2, <2>3, <2>5, <2>6
  <1> QED BY <1>3, <1>4

\* A client that has got only whole replies has none that the server has not
\* sent.
LEMMA NotYet ==
  ASSUME ClientInv, link = "open", NEW r, NEW k, k = Len(replies) + 1,
         NEW w, w = PartsOf(k, r), NEW m \in 1..Len(answers), WholeBefore(replies, m)
  PROVE  answers[m] # w /\ answers[m] # <<>>
  <1>1. PICK P, a : P = PartsUpTo(Len(replies)) /\ a = answers[m]
    OBVIOUS
  <1>2. Len(replies) \in Nat /\ k \in Nat \ {0} /\ a \in Seq(P) /\ a # <<>>
    BY <1>1 DEF ClientInv, WiresOK, TornOK, IsSeq
  <1>3. a[1] \in P
    BY <1>2
  <1>4. \A y \in P : y # <<k, 1, FALSE>>
    <2>1. \A i \in 1..Len(replies) : i # k
      BY <1>2
    <2>2. \A y \in P : y[1] \in 1..Len(replies)
      BY <1>1 DEF PartsUpTo
    <2>3. <<k, 1, FALSE>>[1] = k
      OBVIOUS
    <2> QED BY <2>1, <2>2, <2>3
  <1>5. w = <<>> \/ w[1] = <<k, 1, FALSE>>
    BY <1>2, NewParts
  <1> QED BY <1>1, <1>2, <1>3, <1>4, <1>5

\* The server handles a frame.
LEMMA ServeInv ==
  ASSUME ClientInv, Serve
  PROVE  ClientInv'
  <1>1. link = "open" /\ HasFrame(input) /\ UNCHANGED <<app, inbox, sent, taken, answers>>
    BY DEF Serve, results
  <1>2. PICK r, w :
           /\ replies' = Append(replies, r)
           /\ w = PartsOf(Len(replies) + 1, r)
           /\ link' \in {"open", "closed", "reset"}
           /\ input' = IF link' = "open" THEN AfterFrame(input) ELSE <<>>
           /\ flight' \in Seq(PartsUpTo(Len(replies) + 1))
           /\ \A p, due : IsSeq(p) /\ IsSeq(due) /\ ArrivesAs(p \o flight, due, "open")
                             => ArrivesAs(p \o flight', due \o w, link')
    BY ServeFacts
  <1>3. PICK rs, rs2, k : rs = replies /\ rs2 = replies' /\ k = Len(rs) + 1
    OBVIOUS
  <1>4. /\ IsSeq(rs) /\ IsSeq(sent) /\ IsSeq(inbox) /\ Len(answers) \in Nat
        /\ IsSeq(FlattenSeq(taken))
    BY <1>3, FlattenIsSeq DEF ClientInv, WiresOK, IsSeq
  <1>5. /\ Len(rs) \in Nat /\ Len(rs2) = k /\ IsSeq(rs2)
        /\ \A n : n # k => WholeOf(rs2, n) = WholeOf(rs, n)
        /\ WholeOf(rs2, k) = w /\ WholeOf(rs, k) = <<>>
        /\ Replied(rs2) = Replied(rs) \o w /\ IsSeq(Replied(rs))
    <2>1. rs2 = WithReply(rs, r)
      BY <1>2, <1>3 DEF WithReply
    <2>2. w = PartsOf(k, r)
      BY <1>2, <1>3
    <2> QED BY <1>3, <1>4, <2>1, <2>2, OneMoreReply
  <1>6. \A m \in 1..Len(answers) : WholeBefore(rs, m) => answers[m] # w /\ answers[m] # <<>>
    BY <1>1, <1>2, <1>3, NotYet
  <1>7. WiresOK'
    <2>1. input' \in Seq(Symbols \cup {CR, LF})
      <3>1. PICK b, m, T : b = input /\ m = Min(DelimitersIn(b)) /\ T = Symbols \cup {CR, LF}
        OBVIOUS
      <3>2. b \in Seq(T)
        BY <3>1 DEF ClientInv, WiresOK
      <3>3. m \in Nat
        <4>1. DelimitersIn(b) \subseteq Nat /\ DelimitersIn(b) # {}
          BY <1>1, <3>1 DEF DelimitersIn, HasFrame
        <4> QED BY <3>1, <4>1, MinFacts
      <3>4. SubSeq(b, m + 2, Len(b)) \in Seq(T) /\ <<>> \in Seq(T)
        BY <3>2, <3>3
      <3> QED BY <1>2, <3>1, <3>4 DEF AfterFrame
    <2>2. /\ inbox' \in Seq(PartsUpTo(k)) /\ answers' \in Seq(Seq(PartsUpTo(k)))
          /\ taken' \in Seq(Seq(PartsUpTo(k)))
      <3>1. /\ inbox \in Seq(PartsUpTo(Len(rs))) /\ answers \in Seq(Seq(PartsUpTo(Len(rs))))
            /\ taken \in Seq(Seq(PartsUpTo(Len(rs))))
        BY <1>3 DEF ClientInv, WiresOK
      <3>2. Len(rs) \in Nat /\ k \in Nat /\ Len(rs) <= k
        BY <1>3, <1>5
      <3> QED BY <1>1, <3>1, <3>2, MoreParts
    <2>3. app # "start" /\ app # "killed"
      BY <1>1 DEF ClientInv, WiresOK
    <2> QED BY <1>1, <1>2, <1>3, <1>4, <1>5, <2>1, <2>2, <2>3 DEF ClientInv, WiresOK
  <1>8. LedgerOK'
    <2>1. PICK p : p = FlattenSeq(taken) \o inbox
      OBVIOUS
    <2>2. IsSeq(p)
      BY <1>4, <2>1, SeqsOf
    <2>3. ArrivesAs(p \o flight, Replied(rs), "open")
      BY <1>1, <1>3, <2>1 DEF ClientInv, LedgerOK
    <2>4. ArrivesAs(p \o flight', Replied(rs) \o w, link')
      BY <1>2, <1>5, <2>2, <2>3
    <2> QED BY <1>1, <1>3, <1>5, <2>1, <2>4 DEF LedgerOK
  <1>9. (AllWhole => InStep)'
    <2> SUFFICES ASSUME AllWhole' PROVE InStep'
      OBVIOUS
    <2>1. \A m \in 1..Len(answers) : answers[m] = WholeOf(rs2, m)
      BY <1>1, <1>3 DEF AllWhole
    <2>2. \A m \in 1..Len(answers) : m # k
      <3> SUFFICES ASSUME k \in 1..Len(answers) PROVE FALSE
        OBVIOUS
      <3>1. \A m \in 1..(k - 1) : m \in 1..Len(answers) /\ m # k
        BY <1>4, <1>3
      <3>2. WholeBefore(rs, k)
        BY <1>5, <2>1, <3>1 DEF WholeBefore
      <3> QED BY <1>5, <1>6, <2>1, <3>2
    <2>3. AllWhole
      BY <1>3, <1>5, <2>1, <2>2 DEF AllWhole
    <2>4. input # <<>>
      <3>1. DelimitersIn(<<>>) = {}
        <4>1. Len(<<>>) = 0 /\ 1..(0 - 1) = {}
          OBVIOUS
        <4> QED BY <4>1 DEF DelimitersIn
      <3> QED BY <1>1, <3>1 DEF HasFrame
    <2>5. /\ app = "recv" /\ Len(rs) = Len(answers) /\ \E line \in Lines : input = WireOf(line)
      BY <1>1, <1>3, <2>3, <2>4 DEF ClientInv, InStep
    <2>6. AfterFrame(input) = <<>>
      BY <2>5, OneFrame
    <2>7. k = Len(answers) + 1 /\ Len(sent) = k
      BY <1>3, <2>5 DEF ClientInv, WiresOK
    <2>8. ArrivesAs(inbox \o flight', w, link')
      <3>1. ArrivesAs(inbox \o flight, <<>>, "open") /\ IsSeq(<<>>)
        <4>1. <<>> \in Seq({})
          OBVIOUS
        <4> QED BY <1>1, <1>3, <1>5, <2>3, <2>7, <4>1 DEF ClientInv, InStep, IsSeq
      <3>2. ArrivesAs(inbox \o flight', <<>> \o w, link')
        BY <1>2, <1>4, <3>1
      <3>3. <<>> \o w = w
        <4>1. k \in Nat \ {0}
          BY <1>3, <1>5
        <4>2. w = PartsOf(k, r)
          BY <1>2, <1>3, Zenon
        <4>3. w \in Seq(PartsUpTo(k))
          BY <4>1, <4>2, NewParts
        <4>4. PICK S : S = PartsUpTo(k)
          OBVIOUS
        <4> QED BY <4>3, <4>4
      <3> QED BY <3>2, <3>3
    <2> QED BY <1>1, <1>2, <1>3, <1>5, <2>6, <2>7, <2>8 DEF InStep
  <1>10. TornOK'
    <2>1. ASSUME NEW n \in 1..Len(answers), WholeBefore(rs2, n)
          PROVE  /\ answers[n] # <<>>
                 /\ answers[n] # WholeOf(rs2, n) => FirstTorn(answers[n], WholeOf(rs2, n), link')
      <3>1. \A m \in 1..(n - 1) : m \in 1..Len(answers)
        BY <1>4
      <3>2. \A m \in 1..(n - 1) : m # k
        <4> SUFFICES ASSUME k \in 1..(n - 1) PROVE FALSE
          OBVIOUS
        <4>1. \A m \in 1..(k - 1) : m \in 1..(n - 1) /\ m # k
          BY <1>3, <1>4
        <4>2. WholeBefore(rs, k)
          BY <1>5, <2>1, <4>1 DEF WholeBefore
        <4> QED BY <1>5, <1>6, <2>1, <3>1, <4>2 DEF WholeBefore
      <3>3. WholeBefore(rs, n)
        BY <1>5, <2>1, <3>2 DEF WholeBefore
      <3>4. answers[n] # <<>> /\ answers[n] # w
        BY <1>6, <3>3
      <3>5. ASSUME answers[n] # WholeOf(rs2, n) PROVE FirstTorn(answers[n], WholeOf(rs2, n), link')
        <4>1. answers[n] # WholeOf(rs, n)
          <5>1. CASE n = k
            BY <1>5, <3>4, <5>1
          <5>2. CASE n # k
            BY <1>5, <3>5, <5>2
          <5> QED BY <5>1, <5>2
        <4>2. FirstTorn(answers[n], WholeOf(rs, n), link)
          BY <1>3, <3>3, <4>1 DEF ClientInv, TornOK
        <4>3. PICK lost : IsSeq(lost) /\ lost # <<>> /\ WholeOf(rs, n) = answers[n] \o lost
          BY <4>2 DEF FirstTorn
        <4>4. n # k
          <5> SUFFICES ASSUME n = k PROVE FALSE
            OBVIOUS
          <5>1. PICK a : a = answers[n]
            OBVIOUS
          <5>2. IsSeq(a) /\ a \o lost = <<>>
            <6>1. answers[n] \in Seq(PartsUpTo(Len(replies)))
              BY DEF ClientInv, WiresOK
            <6>2. IsSeq(a)
              BY <5>1, <6>1 DEF IsSeq
            <6> QED BY <1>5, <4>3, <5>1, <6>2
          <5>3. Len(a) \in Nat /\ Len(lost) \in Nat /\ Len(a \o lost) = Len(a) + Len(lost)
            BY <4>3, <5>2, SeqsOf
          <5>4. Len(lost) = 0
            BY <5>2, <5>3
          <5> QED BY <4>3, <5>4, EmptySeq DEF IsSeq
        <4>5. WholeOf(rs2, n) = WholeOf(rs, n)
          BY <1>5, <4>4
        <4> QED BY <3>4, <4>3, <4>5 DEF FirstTorn
      <3> QED BY <3>4, <3>5
    <2> QED BY <1>1, <1>3, <2>1 DEF TornOK, FirstTorn, WholeBefore
  <1> QED BY <1>7, <1>8, <1>9, <1>10 DEF ClientInv

-----------------------------------------------------------------------------
(* The theorems *)

\* The invariant holds in every state of the client and its connection.
THEOREM ClientInductive == Spec => []ClientInv
  <1>1. ASSUME ClientInv, [Next]_vars PROVE ClientInv'
    <2>1. CASE Connect
      BY <1>1, <2>1, ConnectInv
    <2>2. ASSUME NEW line \in Lines, Send(line) PROVE ClientInv'
      BY <1>1, <2>2, SendInv
    <2>3. CASE Recv \/ RecvFails
      BY <1>1, <2>3, RecvInv
    <2>4. CASE Quit \/ ClockMoves \/ UNCHANGED vars
      <3>1. /\ UNCHANGED <<link, wire, replies, sent, results>>
            /\ app' = app \/ (app = "prompt" /\ app' = "quit")
        BY <2>4 DEF Quit, ClockMoves, vars, server
      <3> QED BY <1>1, <3>1, IdleInv
    <2>5. CASE Serve
      BY <1>1, <2>5, ServeInv
    <2>6. CASE Deliver
      BY <1>1, <2>6, DeliverInv
    <2>7. CASE ServerStops
      BY <1>1, <2>7, ServerStopsInv
    <2> QED BY <1>1, <2>1, <2>2, <2>3, <2>4, <2>5, <2>6, <2>7 DEF Next
  <1> QED BY <1>1, InitClientInv, PTL DEF Spec

\* What recv has taken, what waits in the socket and what is on its way are the
\* server's replies, in order; only a reset costs the end of them; and an answer
\* is what was taken, but for what stands behind a NUL (kv_client.h:82-99).
THEOREM NothingIsLost == Spec => []AnswersAreTheReplies
  <1>1. ASSUME ClientInv PROVE AnswersAreTheReplies
    <2>1. PICK came, due : /\ came = (FlattenSeq(taken) \o inbox) \o flight
                           /\ due = Replied(replies)
      OBVIOUS
    <2>2. PICK lost : IsSeq(lost) /\ due = came \o lost /\ (link # "reset" => lost = <<>>)
      BY <1>1, <2>1 DEF ClientInv, LedgerOK, ArrivesAs
    <2>3. IsSeq(came)
      <3>1. IsSeq(FlattenSeq(taken)) /\ IsSeq(inbox) /\ IsSeq(flight)
        BY <1>1, FlattenIsSeq DEF ClientInv, WiresOK, IsSeq
      <3>2. PICK p : p = FlattenSeq(taken) \o inbox
        OBVIOUS
      <3>3. IsSeq(p)
        BY <3>1, <3>2, SeqsOf
      <3> QED BY <2>1, <3>1, <3>2, <3>3, SeqsOf
    <2>4. IsPrefix(came, due) /\ (link # "reset" => came = due)
      <3>1. came \o <<>> = came
        BY <2>3, SeqsOf
      <3> QED BY <2>2, <2>3, <3>1, PrefixOf
    <2>5. due = FlattenSeq([n \in DOMAIN replies |-> Whole(n)])
      <3>1. \A n \in DOMAIN replies : Whole(n) = WholeOf(replies, n)
        BY DEF Whole, WholeOf
      <3>2. [n \in DOMAIN replies |-> Whole(n)] = [n \in DOMAIN replies |-> WholeOf(replies, n)]
        BY <3>1
      <3> QED BY <2>1, <3>2 DEF Replied
    <2>6. ASSUME NEW n \in DOMAIN answers
          PROVE  /\ IsPrefix(answers[n], taken[n])
                 /\ answers[n] # taken[n] => taken[n][Len(answers[n]) + 1][3]
      <3>1. PICK P : P = PartsUpTo(Len(replies))
        OBVIOUS
      <3>2. answers \in Seq(Seq(P)) /\ n \in 1..Len(answers)
        BY <1>1, <2>6, <3>1 DEF ClientInv, WiresOK
      <3>3. PICK a, t : a = answers[n] /\ t = taken[n]
        OBVIOUS
      <3>4. a \in Seq(P) /\ CutFrom(a, t)
        BY <1>1, <3>2, <3>3 DEF ClientInv, WiresOK
      <3>5. PICK d : IsSeq(d) /\ t = a \o d /\ (d # <<>> => d[1][3])
        BY <3>4 DEF CutFrom
      <3>6. IsSeq(a)
        BY <3>4 DEF IsSeq
      <3>7. IsPrefix(a, t)
        BY <3>5, <3>6, PrefixOf
      <3>8. ASSUME a # t PROVE t[Len(a) + 1][3]
        <4>1. d # <<>>
          <5>1. a \o <<>> = a
            BY <3>6, SeqsOf
          <5> QED BY <3>5, <3>8, <5>1
        <4>2. PICK S : a \in Seq(S) /\ d \in Seq(S)
          BY <3>5, <3>6, CommonSet
        <4>3. t[Len(a) + 1] = d[1]
          BY <3>5, <4>1, <4>2
        <4> QED BY <3>5, <4>1, <4>3
      <3> QED BY <3>3, <3>7, <3>8
    <2> QED BY <2>1, <2>4, <2>5, <2>6 DEF AnswersAreTheReplies
  <1> QED BY <1>1, ClientInductive, PTL

\* Each command gets its own reply until one comes torn (kv_client.h:86-98), and
\* a reply is reported as missing only after a reset.
THEOREM TornFirst == Spec => []FirstWrongAnswerIsTorn
  <1>1. ASSUME ClientInv PROVE FirstWrongAnswerIsTorn
    <2>1. \A n : Whole(n) = WholeOf(replies, n)
      BY DEF Whole, WholeOf
    <2>2. DOMAIN answers = 1..Len(answers)
      BY <1>1 DEF ClientInv, WiresOK
    <2>3. ASSUME NEW n \in 1..Len(answers), answers[n] # WholeOf(replies, n),
                 \A m \in 1..(n - 1) : answers[m] = WholeOf(replies, m)
          PROVE  /\ IsStrictPrefix(answers[n], WholeOf(replies, n))
                 /\ answers[n] = <<>> => link = "reset"
      <3>1. FirstTorn(answers[n], WholeOf(replies, n), link)
        BY <1>1, <2>3 DEF ClientInv, TornOK, WholeBefore
      <3>2. PICK lost : IsSeq(lost) /\ lost # <<>> /\ WholeOf(replies, n) = answers[n] \o lost
        BY <3>1 DEF FirstTorn
      <3>3. PICK a : a = answers[n]
        OBVIOUS
      <3>4. IsSeq(a)
        <4>1. answers[n] \in Seq(PartsUpTo(Len(replies)))
          BY <1>1 DEF ClientInv, WiresOK
        <4> QED BY <3>3, <4>1 DEF IsSeq
      <3>5. IsStrictPrefix(a, a \o lost)
        BY <3>2, <3>4, PrefixOf
      <3> QED BY <3>1, <3>2, <3>3, <3>5 DEF FirstTorn
    <2> QED BY <2>1, <2>2, <2>3 DEF FirstWrongAnswerIsTorn
  <1> QED BY <1>1, ClientInductive, PTL

\* A handler that answers with an error leaves what can be read
\* (dispatcher.h:92-212): Get may only remove a key that has expired.
LEMMA ErrorKeepsPairs ==
  ASSUME NEW sh, NEW req, NEW t, NEW at, NEW done, done = Dispatch(sh, req, t, at),
         done.response.status = "Error"
  PROVE  Visible(done.shard, t) = Visible(sh, t)
  <1>1. \A message, s : Answer(Ok(message), s).response.status # "Error"
    BY DEF Answer, Ok
  <1>2. \A s : Answer(Error, s).shard = s
    BY DEF Answer
  <1>3. CASE done = HandleSet(sh, req)
    BY <1>1, <1>2, <1>3 DEF HandleSet
  <1>4. CASE done = HandleGet(sh, req, t)
    <2>1. PICK key : key = Arg(req, 0)
      OBVIOUS
    <2>2. CASE ArgCount(req) < 1
      BY <1>2, <1>4, <2>2 DEF HandleGet
    <2>3. CASE ~(ArgCount(req) < 1)
      <3>1. ~ShardHit(sh, key, t) /\ done = Answer(Error, ShardGet(sh, key, t))
        BY <1>1, <1>4, <2>1, <2>3 DEF HandleGet
      <3>2. done.shard = IF key \in DOMAIN sh.store THEN RemoveInternal(sh, key) ELSE sh
        BY <1>2, <3>1 DEF ShardGet
      <3>3. CASE key \in DOMAIN sh.store
        <4>1. PICK st : st = sh.store
          OBVIOUS
        <4>2. IsExpired(st[key], t)
          BY <3>1, <3>3, <4>1 DEF ShardHit
        <4>3. done.shard.store = Without(st, key)
          BY <3>2, <3>3, <4>1 DEF RemoveInternal
        <4>4. PICK u : u = Without(st, key)
          OBVIOUS
        <4>5. DOMAIN u = DOMAIN st \ {key} /\ \A k \in DOMAIN u : u[k] = st[k]
          BY <4>4 DEF Without, Restrict
        <4>6. {k \in DOMAIN u : ~IsExpired(u[k], t)} = {k \in DOMAIN st : ~IsExpired(st[k], t)}
          BY <4>2, <4>5
        <4>7. {<<k, u[k]>> : k \in {x \in DOMAIN u : ~IsExpired(u[x], t)}}
                = {<<k, st[k]>> : k \in {x \in DOMAIN st : ~IsExpired(st[x], t)}}
          BY <4>5, <4>6
        <4> QED BY <4>1, <4>3, <4>4, <4>7 DEF Visible
      <3> QED BY <3>2, <3>3
    <2> QED BY <2>2, <2>3
  <1>5. CASE done = HandleDelete(sh, req)
    BY <1>1, <1>2, <1>5 DEF HandleDelete
  <1>6. CASE done = HandleSetEx(sh, req, t)
    BY <1>1, <1>2, <1>6 DEF HandleSetEx
  <1>7. CASE done = HandleKeys(sh, req, at)
    BY <1>1, <1>2, <1>7 DEF HandleKeys
  <1>8. CASE done = HandlePing(sh, req)
    BY <1>8 DEF HandlePing, Answer
  <1>9. CASE done = Answer(Error, sh)
    BY <1>2, <1>9
  <1>10. \/ done = HandleSet(sh, req) \/ done = HandleGet(sh, req, t) \/ done = HandleDelete(sh, req)
         \/ done = HandleSetEx(sh, req, t) \/ done = HandleKeys(sh, req, at)
         \/ done = HandlePing(sh, req) \/ done = Answer(Error, sh)
    BY DEF Dispatch
  <1> QED BY <1>3, <1>4, <1>5, <1>6, <1>7, <1>8, <1>9, <1>10

\* A request that is answered with an error changes nothing that a client
\* can read (dispatcher.h:92-212), whatever the shard holds.
THEOREM ErrorsAreHarmless == Spec => ErrorsChangeNothing
  <1> DEFINE A == replies' # replies /\ Last(replies').kind = "-ERR"
                    => Visible(shard', now) = Visible(shard, now)
  <1>1. ASSUME ClientInv, [Next]_vars PROVE [A]_vars
    <2>1. CASE Serve
      <3> SUFFICES ASSUME Last(replies').kind = "-ERR"
                   PROVE  Visible(shard', now) = Visible(shard, now)
        OBVIOUS
      <3>1. \A r : replies' = Append(replies, r) => Last(replies') = r
        <4> SUFFICES ASSUME NEW r, replies' = Append(replies, r) PROVE Last(replies') = r
          OBVIOUS
        <4>1. PICK S : replies \in Seq(S)
          BY <1>1 DEF ClientInv, WiresOK, IsSeq
        <4>2. PICK T : T = S \cup {r}
          OBVIOUS
        <4>3. replies \in Seq(T) /\ r \in T
          BY <4>1, <4>2
        <4>4. Len(replies') = Len(replies) + 1 /\ replies'[Len(replies) + 1] = r
          BY <4>3
        <4> QED BY <4>4 DEF Last
      <3>2. PICK at \in [DOMAIN shard.store -> now..now'] :
               LET req   == Parse(FrameOf(input))
                   done  == Dispatch(shard, req, now, at)
                   reply == Serialize(done.response)
               IN  IF Unparsable(FrameOf(input))
                   THEN replies' = Append(replies, [kind |-> "none", data |-> Empty])
                   ELSE shard' = done.shard /\ replies' = Append(replies, reply)
        BY <2>1 DEF Serve
      <3>3. PICK f, done : f = FrameOf(input) /\ done = Dispatch(shard, Parse(f), now, at)
        OBVIOUS
      <3>4. CASE Unparsable(f)
        <4>1. PICK r : r = [kind |-> "none", data |-> Empty]
          OBVIOUS
        <4>2. replies' = Append(replies, r)
          BY <3>2, <3>4, <3>3, <4>1
        <4>3. r.kind = "none"
          BY <4>1
        <4> QED BY <3>1, <4>2, <4>3
      <3>5. CASE ~Unparsable(f)
        <4>1. replies' = Append(replies, Serialize(done.response)) /\ shard' = done.shard
          BY <3>2, <3>5, <3>3
        <4>2. Serialize(done.response).kind = "-ERR"
          BY <3>1, <4>1
        <4>3. done.response.status = "Error"
          BY <4>2 DEF Serialize
        <4> QED BY <3>3, <4>1, <4>3, ErrorKeepsPairs
      <3> QED BY <3>4, <3>5
    <2>2. CASE ~Serve
      <3>1. UNCHANGED replies
        BY <1>1, <2>2 DEF Next, vars, Connect, Send, Recv, RecvFails, Quit, Deliver, ServerStops,
           ClockMoves, server, Take, results
      <3> QED BY <3>1
    <2> QED BY <2>1, <2>2
  <1> HIDE DEF A
  <1>2. Spec => [][A]_vars
    BY <1>1, ClientInductive, PTL DEF Spec
  <1> QED BY <1>2, PTL DEF ErrorsChangeNothing, A
=============================================================================
