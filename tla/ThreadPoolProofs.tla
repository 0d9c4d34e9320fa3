-------------------------- MODULE ThreadPoolProofs --------------------------
(***************************************************************************)
(* Proofs about ThreadPool, for any non-empty set of workers, any          *)
(* producers and any number of tasks.                                      *)
(*                                                                         *)
(* NoLostWakeup is not inductive: the step that sends the last             *)
(* notification of a queued task must find a worker to wake or one that    *)
(* runs, so the invariant adds that a worker leaves only after the stop    *)
(* with the queue empty, and that nothing is pushed after the stop.        *)
(***************************************************************************)
EXTENDS ThreadPool, SequenceTheorems, TLAPS

\* Moving the head of q to the end of p leaves p \o q as it is.
LEMMA MoveHead ==
  ASSUME NEW S, NEW p \in Seq(S), NEW q \in Seq(S), q # <<>>
  PROVE  Append(p, Head(q)) \o Tail(q) = p \o q
  <1>1. PICK e, b, u : e = Head(q) /\ b = Tail(q) /\ u = <<e>>
    OBVIOUS
  <1>2. e \in S /\ b \in Seq(S)
    BY <1>1, HeadTailProperties
  <1>3. u \in Seq(S)
    BY <1>1, <1>2
  <1>4. Append(p, e) = p \o u
    BY <1>1, <1>2, AppendIsConcat
  <1>5. q = u \o b
    BY <1>1, <1>2
  <1>6. (p \o u) \o b = p \o (u \o b)
    BY <1>2, <1>3, ConcatAssociative
  <1> QED BY <1>1, <1>4, <1>5, <1>6, Zenon

-----------------------------------------------------------------------------
\* A worker leaves only after the stop with the queue empty; no Submit is in
\* progress after the stop.
StopIsFinal ==
    /\ \A w \in Workers : worker[w] = "exited" => stop /\ tasks = <<>>
    /\ stop => owner # "alive" /\ \A p \in Producers : producer[p] = "idle"
    /\ owner # "alive" => stop
    /\ owner = "destroyed" => \A w \in Workers : worker[w] = "exited"

\* The inductive invariant.
IInv == TypeOK /\ TakenInOrder /\ NoLostWakeup /\ StopIsFinal

\* A pool under construction satisfies the invariant.
LEMMA InitIInv == Init => IInv
  <1> SUFFICES ASSUME Init PROVE IInv
    OBVIOUS
  <1>1. TypeOK
    <2>1. <<>> \in Seq(Tasks)
      OBVIOUS
    <2> QED BY <2>1 DEF Init, TypeOK
  <1>2. TakenInOrder
    BY DEF Init, TakenInOrder
  <1>3. NoLostWakeup /\ StopIsFinal
    BY DEF Init, NoLostWakeup, StopIsFinal
  <1> QED BY <1>1, <1>2, <1>3 DEF IInv

\* Every step of a worker, of Submit and of the destructor preserves it.
LEMMA NextIInv == IInv /\ [Next]_vars => IInv'
  <1> SUFFICES ASSUME IInv, [Next]_vars PROVE IInv'
    OBVIOUS
  <1>0. TypeOK /\ TakenInOrder /\ NoLostWakeup /\ StopIsFinal
    BY DEF IInv
  <1>1. ASSUME NEW w \in Workers, WaitForWork(w) PROVE IInv'
    <2>1. TypeOK' /\ TakenInOrder'
      BY <1>0, <1>1 DEF WaitForWork, TypeOK, TakenInOrder
    <2>2. NoLostWakeup'
      BY <1>0, <1>1 DEF WaitForWork, TypeOK, NoLostWakeup, MayProceed
    <2>3. StopIsFinal'
      BY <1>0, <1>1 DEF WaitForWork, TypeOK, StopIsFinal, MayProceed
    <2> QED BY <2>1, <2>2, <2>3 DEF IInv
  <1>2. ASSUME NEW w \in Workers, TakeTask(w) PROVE IInv'
    <2>0. /\ tasks \in Seq(Tasks) /\ taken \in Seq(Tasks) /\ tasks # <<>>
          /\ tasks' = Tail(tasks) /\ taken' = Append(taken, Head(tasks))
          /\ UNCHANGED <<stop, worker, producer, owner, submitted, executed>>
      BY <1>0, <1>2 DEF TypeOK, TakeTask
    <2>1. tasks' \in Seq(Tasks) /\ taken' \in Seq(Tasks)
      BY <2>0
    <2>2. TypeOK'
      BY <1>0, <2>0, <2>1 DEF TypeOK
    <2>3. TakenInOrder'
      BY <1>0, <2>0, MoveHead DEF TakenInOrder
    <2>4. NoLostWakeup'
      BY <1>0, <1>2 DEF TakeTask, NoLostWakeup
    <2>5. StopIsFinal'
      BY <1>0, <1>2 DEF TakeTask, StopIsFinal
    <2> QED BY <2>2, <2>3, <2>4, <2>5 DEF IInv
  <1>3. ASSUME NEW w \in Workers, Exit(w) PROVE IInv'
    <2>1. TypeOK' /\ TakenInOrder'
      BY <1>0, <1>3 DEF Exit, TypeOK, TakenInOrder
    <2>2. NoLostWakeup'
      BY <1>0, <1>3 DEF Exit, TypeOK, NoLostWakeup
    <2>3. StopIsFinal'
      BY <1>0, <1>3 DEF Exit, TypeOK, StopIsFinal
    <2> QED BY <2>1, <2>2, <2>3 DEF IInv
  <1>4. ASSUME NEW w \in Workers, WakeSpuriously(w) PROVE IInv'
    <2>1. TypeOK' /\ TakenInOrder'
      BY <1>0, <1>4 DEF WakeSpuriously, TypeOK, TakenInOrder
    <2>2. NoLostWakeup'
      BY <1>0, <1>4 DEF WakeSpuriously, TypeOK, NoLostWakeup
    <2>3. StopIsFinal'
      BY <1>0, <1>4 DEF WakeSpuriously, TypeOK, StopIsFinal
    <2> QED BY <2>1, <2>2, <2>3 DEF IInv
  <1>5. ASSUME NEW p \in Producers, NEW task \in Tasks, Push(p, task) PROVE IInv'
    <2>0. /\ tasks \in Seq(Tasks) /\ taken \in Seq(Tasks) /\ submitted \in Seq(Tasks)
          /\ tasks' = Append(tasks, task) /\ submitted' = Append(submitted, task)
          /\ UNCHANGED <<stop, worker, owner, taken, executed>>
      BY <1>0, <1>5 DEF TypeOK, Push
    <2>1. TypeOK'
      <3>1. tasks' \in Seq(Tasks) /\ submitted' \in Seq(Tasks)
        BY <2>0
      <3> QED BY <1>0, <1>5, <2>0, <3>1 DEF TypeOK, Push
    <2>2. TakenInOrder'
      <3>1. PICK u : u = <<task>>
        OBVIOUS
      <3>2. u \in Seq(Tasks)
        BY <3>1
      <3>3. tasks' = tasks \o u /\ submitted' = submitted \o u
        BY <2>0, <3>1, AppendIsConcat
      <3>4. (taken \o tasks) \o u = taken \o (tasks \o u)
        BY <2>0, <3>2, ConcatAssociative
      <3> QED BY <1>0, <2>0, <3>3, <3>4, Zenon DEF TakenInOrder
    <2>3. NoLostWakeup'
      BY <1>0, <1>5 DEF Push, TypeOK, NoLostWakeup
    <2>4. StopIsFinal'
      BY <1>0, <1>5 DEF Push, TypeOK, StopIsFinal
    <2> QED BY <2>1, <2>2, <2>3, <2>4 DEF IInv
  <1>6. ASSUME NEW p \in Producers, NotifyOne(p) PROVE IInv'
    <2>1. TypeOK' /\ TakenInOrder'
      BY <1>0, <1>6 DEF NotifyOne, TypeOK, TakenInOrder
    <2>2. \A w \in Workers : worker[w] # "sleep" => worker'[w] = worker[w]
      BY <1>0, <1>6 DEF NotifyOne, TypeOK
    <2>3. NoLostWakeup'
      <3>1. CASE \E w \in Workers : worker[w] = "sleep"
        <4>1. PICK w \in Workers : worker[w] = "sleep" /\ worker' = [worker EXCEPT ![w] = "run"]
          BY <1>6, <3>1 DEF NotifyOne
        <4>2. worker'[w] = "run" /\ ~stop
          BY <1>0, <1>6, <4>1 DEF TypeOK, StopIsFinal, NotifyOne
        <4> QED BY <1>6, <4>2 DEF NotifyOne, NoLostWakeup
      <3>2. CASE ~\E w \in Workers : worker[w] = "sleep"
        <4>1. worker' = worker /\ tasks' = tasks /\ stop' = stop
          BY <1>6, <3>2 DEF NotifyOne
        <4>2. PICK w \in Workers : TRUE
          BY PoolAssumption
        <4>3. worker[w] = "run" \/ tasks = <<>>
          BY <1>0, <3>2, <4>2 DEF TypeOK, StopIsFinal
        <4> QED BY <3>2, <4>1, <4>2, <4>3 DEF NoLostWakeup
      <3> QED BY <3>1, <3>2
    <2>4. StopIsFinal'
      BY <1>0, <1>6, <2>2 DEF NotifyOne, TypeOK, StopIsFinal
    <2> QED BY <2>1, <2>3, <2>4 DEF IInv
  <1>7. CASE RequestStop
    <2>1. TypeOK' /\ TakenInOrder'
      BY <1>0, <1>7 DEF RequestStop, TypeOK, TakenInOrder
    <2>2. NoLostWakeup' /\ StopIsFinal'
      BY <1>0, <1>7 DEF RequestStop, TypeOK, NoLostWakeup, StopIsFinal
    <2> QED BY <2>1, <2>2 DEF IInv
  <1>8. CASE NotifyAll
    <2>1. TypeOK' /\ TakenInOrder'
      BY <1>0, <1>8 DEF NotifyAll, TypeOK, TakenInOrder
    <2>2. \A w \in Workers : worker'[w] # "sleep" /\ (worker'[w] = "exited" <=> worker[w] = "exited")
      BY <1>0, <1>8 DEF NotifyAll, TypeOK
    <2>3. StopIsFinal'
      BY <1>0, <1>8, <2>2 DEF NotifyAll, StopIsFinal
    <2>4. NoLostWakeup'
      <3>1. PICK w \in Workers : TRUE
        BY PoolAssumption
      <3>2. tasks' # <<>> => worker'[w] = "run"
        BY <2>1, <2>2, <2>3 DEF TypeOK, StopIsFinal
      <3> QED BY <2>2, <3>1, <3>2 DEF NoLostWakeup
    <2> QED BY <2>1, <2>3, <2>4 DEF IInv
  <1>9. CASE Join
    <2>1. TypeOK' /\ TakenInOrder'
      BY <1>0, <1>9 DEF Join, TypeOK, TakenInOrder
    <2>2. NoLostWakeup' /\ StopIsFinal'
      BY <1>0, <1>9 DEF Join, TypeOK, NoLostWakeup, StopIsFinal
    <2> QED BY <2>1, <2>2 DEF IInv
  <1>10. CASE UNCHANGED vars
    BY <1>0, <1>10 DEF vars, IInv, TypeOK, TakenInOrder, NoLostWakeup, StopIsFinal
  <1> QED
    BY <1>1, <1>2, <1>3, <1>4, <1>5, <1>6, <1>7, <1>8, <1>9, <1>10
    DEF Next, WorkerStep, Destructor

\* The invariant holds in every state of every behaviour of the pool.
THEOREM Inductive == Spec => []IInv
  BY InitIInv, NextIInv, PTL DEF Spec

\* The queue of thread_pool.h is first in, first out across all its workers.
THEOREM FirstInFirstOut == Spec => []TakenInOrder
  <1>1. IInv => TakenInOrder
    BY DEF IInv
  <1> QED BY <1>1, Inductive, PTL

\* Notifying after the mutex is released loses no wake-up, for any number of
\* workers and producers (thread_pool.h:62-67, 83-88).
THEOREM WakeupsArrive == Spec => []NoLostWakeup
  <1>1. IInv => NoLostWakeup
    BY DEF IInv
  <1> QED BY <1>1, Inductive, PTL

\* A worker leaves, and the pool is destroyed, only when every submitted task
\* has been taken (thread_pool.h:105-108, 69-75).
THEOREM ShutdownDrains == Spec => []DrainedBeforeExit
  <1>1. IInv => DrainedBeforeExit
    <2> SUFFICES ASSUME IInv, owner = "destroyed" \/ \E w \in Workers : worker[w] = "exited"
                 PROVE  tasks = <<>> /\ taken = submitted
      BY DEF DrainedBeforeExit
    <2>1. PICK w \in Workers : worker[w] = "exited"
      BY PoolAssumption DEF IInv, StopIsFinal
    <2>2. tasks = <<>>
      BY <2>1 DEF IInv, StopIsFinal
    <2>3. submitted = taken \o <<>> /\ taken \in Seq(Tasks)
      BY <2>2 DEF IInv, TakenInOrder, TypeOK
    <2>4. taken \o <<>> = taken
      BY <2>3, ConcatEmptySeq
    <2> QED BY <2>2, <2>3, <2>4
  <1> QED BY <1>1, Inductive, PTL
=============================================================================
