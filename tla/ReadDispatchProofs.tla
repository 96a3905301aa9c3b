------------------------- MODULE ReadDispatchProofs --------------------------
(***************************************************************************)
(* Proofs of the safety properties of ReadDispatch, for any connections,   *)
(* any number of reader threads and any bound on isReadable.               *)
(***************************************************************************)
EXTENDS ReadDispatch, SequenceTheorems, TLAPS

\* What InQueue does to the connections of a queue.
LEMMA AppendRange ==
    ASSUME NEW S, NEW q \in Seq(S), NEW c \in S
    PROVE  /\ Append(q, c) \in Seq(S)
           /\ Append(q, c) # <<>>
           /\ Range(Append(q, c)) = Range(q) \cup {c}
           /\ IsInjective(q) /\ c \notin Range(q) => IsInjective(Append(q, c))
<1> DEFINE r == Append(q, c)
<1>1. /\ r \in Seq(S)
      /\ Len(r) = Len(q) + 1
      /\ \A i \in 1..Len(q) : r[i] = q[i]
      /\ r[Len(q) + 1] = c
  BY AppendProperties
<1>2. Len(q) \in Nat /\ DOMAIN q = 1..Len(q) /\ DOMAIN r = 1..(Len(q) + 1)
  BY <1>1, LenProperties
<1> HIDE DEF r
<1>3. r # <<>>
  BY <1>1, <1>2
<1>4. Range(r) = Range(q) \cup {c}
  BY <1>1, <1>2 DEF Range
<1>5. IsInjective(q) /\ c \notin Range(q) => IsInjective(r)
  BY <1>1, <1>2 DEF Range, IsInjective
<1> QED
  BY <1>1, <1>3, <1>4, <1>5 DEF r

\* What DeQueue does to the connections of a queue.
LEMMA TailRange ==
    ASSUME NEW S, NEW q \in Seq(S), q # <<>>
    PROVE  /\ Head(q) \in S
           /\ Tail(q) \in Seq(S)
           /\ Range(q) = Range(Tail(q)) \cup {Head(q)}
           /\ IsInjective(q) => IsInjective(Tail(q)) /\ Head(q) \notin Range(Tail(q))
<1> DEFINE r == Tail(q)
<1>1. /\ Head(q) \in S
      /\ r \in Seq(S)
      /\ Len(r) = Len(q) - 1
      /\ \A i \in 1..Len(r) : r[i] = q[i + 1]
  BY HeadTailProperties
<1>2. /\ Len(q) \in Nat \ {0}
      /\ DOMAIN q = 1..Len(q)
      /\ DOMAIN r = 1..(Len(q) - 1)
      /\ Head(q) = q[1]
  BY <1>1, LenProperties, EmptySeq
<1> HIDE DEF r
<1>3. Range(q) = Range(r) \cup {Head(q)}
  <2>1. ASSUME NEW x \in Range(q) PROVE x \in Range(r) \cup {Head(q)}
    <3>1. PICK i \in 1..Len(q) : q[i] = x
      BY <1>2, <2>1 DEF Range
    <3>2. CASE i # 1
      <4>1. i - 1 \in 1..Len(r) /\ r[i - 1] = q[i]
        BY <1>1, <1>2, <3>1, <3>2
      <4> QED
        BY <1>1, <1>2, <3>1, <4>1 DEF Range
    <3> QED
      BY <1>2, <3>1, <3>2
  <2>2. Range(r) \cup {Head(q)} \subseteq Range(q)
    BY <1>1, <1>2 DEF Range
  <2> QED
    BY <2>1, <2>2
<1>4. ASSUME IsInjective(q) PROVE IsInjective(r) /\ Head(q) \notin Range(r)
  <2>1. \A i \in 1..Len(r) : i + 1 \in 1..Len(q) /\ i + 1 # 1 /\ r[i] = q[i + 1]
    BY <1>1, <1>2
  <2>2. \A i, j \in 1..Len(q) : q[i] = q[j] => i = j
    BY <1>2, <1>4 DEF IsInjective
  <2>3. \A i, j \in 1..Len(r) : r[i] = r[j] => i = j
    BY <1>1, <1>2, <2>1, <2>2
  <2>4. \A i \in 1..Len(r) : r[i] # q[1]
    BY <1>2, <2>1, <2>2
  <2> QED
    BY <1>1, <1>2, <2>3, <2>4 DEF Range, IsInjective
<1> QED
  BY <1>1, <1>3, <1>4 DEF r

\* The empty queue.
LEMMA EmptyRange == Range(<<>>) = {} /\ IsInjective(<<>>)
BY DEF Range, IsInjective

LEMMA InitIInv == Init => IInv
<1> SUFFICES ASSUME Init PROVE IInv
  OBVIOUS
<1> USE DispatchAssumption DEF DispatchAssumption, Init, NotifierInit
<1>1. TypeOK
  <2>1. isReadable \in [Conns -> 0..MaxReadable] /\ readQueue \in Seq(Conns)
    BY SMT
  <2> QED
    BY <2>1 DEF TypeOK, ServerPc, WorkerPc
<1>2. LocalsOK /\ ReaderExclusion /\ PushedAlone /\ NotAllAsleep
  BY DEF LocalsOK, ReaderExclusion, PushedAlone, NotAllAsleep, Busy
<1>3. QueuedOnce /\ ReadingIsOwned /\ NoStrandedEvent /\ QueueWatched
  BY EmptyRange DEF QueuedOnce, ReadingIsOwned, NoStrandedEvent, QueueWatched, ReadEventHappend, Busy
<1> QED
  BY <1>1, <1>2, <1>3 DEF IInv

LEMMA TypeStep == TypeOK /\ LocalsOK /\ [Next]_vars => TypeOK'
<1> SUFFICES ASSUME TypeOK, LocalsOK, [Next]_vars PROVE TypeOK'
  OBVIOUS
<1> USE DispatchAssumption DEF DispatchAssumption, TypeOK, ServerPc, WorkerPc, Goto, connVars, serverVars, workerVars, notifierVars
<1>1. ASSUME NEW c \in Conns, CanRead(c) PROVE TypeOK'
  BY <1>1 DEF CanRead
<1>2. ASSUME NEW c \in Conns, ErrorOccurred(c) PROVE TypeOK'
  BY <1>2 DEF ErrorOccurred
<1>3. CASE NeedInQueueRead
  BY <1>3 DEF NeedInQueueRead
<1>4. CASE InQueue
  BY <1>4 DEF InQueue, LocalsOK
<1>5. CASE ServerSet
  BY <1>5 DEF ServerSet, SetSignaled
<1>6. CASE ServerNotify
  BY <1>6 DEF ServerNotify, NotifyOne
<1>7. CASE Close
  BY <1>7 DEF Close
<1>8. ASSUME NEW w \in Workers, WorkerStep(w) PROVE TypeOK'
  <2>1. CASE TestOuter(w)
    BY <2>1 DEF TestOuter
  <2>2. CASE WaitReturns(w)
    BY <2>2 DEF WaitReturns, TakeSignal
  <2>3. CASE WaitBlocks(w)
    BY <2>3 DEF WaitBlocks, FallAsleep
  <2>4. CASE TestInner(w)
    BY <2>4 DEF TestInner
  <2>5. CASE DeQueue(w)
    <3>1. CASE readQueue = <<>>
      BY <2>5, <3>1 DEF DeQueue
    <3>2. CASE readQueue # <<>>
      <4>1. Head(readQueue) \in Conns /\ Tail(readQueue) \in Seq(Conns)
        BY <3>2, TailRange
      <4>2. /\ pc' = [pc EXCEPT ![w] = "read"]
            /\ cur' = [cur EXCEPT ![w] = Head(readQueue)]
            /\ readQueue' = Tail(readQueue)
            /\ UNCHANGED <<connVars, closed, serverVars, notifierVars>>
        BY <2>5, <3>2 DEF DeQueue
      <4> QED
        BY <4>1, <4>2
    <3> QED
      BY <3>1, <3>2
  <2>6. CASE Read(w)
    <3>1. cur[w] \in Conns
      BY <2>6 DEF Read, LocalsOK, Busy
    <3> QED
      BY <2>6, <3>1 DEF Read
  <2>7. CASE NeedReInQueueRead(w)
    <3>1. cur[w] \in Conns
      BY <2>7 DEF NeedReInQueueRead, LocalsOK, Busy
    <3>2. CASE ReadEventHappend(cur[w])
      BY <2>7, <3>2 DEF NeedReInQueueRead
    <3>3. CASE ~ReadEventHappend(cur[w])
      <4>1. /\ pc' = [pc EXCEPT ![w] = "drain"]
            /\ isReading' = [isReading EXCEPT ![cur[w]] = FALSE]
            /\ cur' = [cur EXCEPT ![w] = NoConn]
            /\ UNCHANGED <<isReadable, hasError, readQueue, closed, serverVars, notifierVars>>
        BY <2>7, <3>3 DEF NeedReInQueueRead
      <4>2. isReading' \in [Conns -> BOOLEAN]
        BY <4>1, <3>1
      <4> QED
        BY <4>1, <4>2
    <3> QED
      BY <3>2, <3>3
  <2>8. CASE ReInQueue(w)
    BY <2>8 DEF ReInQueue, LocalsOK, Busy
  <2>9. CASE ExitSet(w)
    BY <2>9 DEF ExitSet, SetSignaled
  <2>10. CASE ExitNotify(w)
    BY <2>10 DEF ExitNotify, NotifyOne
  <2> QED
    BY <1>8, <2>1, <2>2, <2>3, <2>4, <2>5, <2>6, <2>7, <2>8, <2>9, <2>10 DEF WorkerStep
<1>9. ASSUME NEW w \in Workers, WakeSpuriously(w) PROVE TypeOK'
  BY <1>9 DEF WakeSpuriously, SpuriousWakeup
<1>10. CASE UNCHANGED vars
  BY <1>10 DEF vars
<1> QED
  BY <1>1, <1>2, <1>3, <1>4, <1>5, <1>6, <1>7, <1>8, <1>9, <1>10 DEF Next, ServerStep, Finished

\* A thread that moves between two places where it has no connection changes
\* nothing for those who share out the connections.
LEMMA IdleMove ==
    ASSUME TypeOK, ReaderExclusion, QueuedOnce, PushedAlone, ReadingIsOwned, NoStrandedEvent,
           NEW w \in Workers, NEW to \in WorkerPc \ Busy,
           pc[w] \notin Busy, pc' = [pc EXCEPT ![w] = to],
           UNCHANGED <<connVars, readQueue, serverVars, cur>>
    PROVE  ReaderExclusion' /\ QueuedOnce' /\ PushedAlone' /\ ReadingIsOwned' /\ NoStrandedEvent'
<1>1. \A v \in Workers : (pc'[v] \in Busy <=> pc[v] \in Busy) /\ cur'[v] = cur[v]
  BY DEF TypeOK
<1>2. UNCHANGED <<isReadable, hasError, isReading, readQueue, srvPc, srvConn>>
  BY DEF connVars, serverVars
<1>3. ReaderExclusion'
  BY <1>1 DEF ReaderExclusion
<1>4. QueuedOnce'
  BY <1>1, <1>2 DEF QueuedOnce
<1>5. PushedAlone'
  BY <1>1, <1>2 DEF PushedAlone
<1>6. ReadingIsOwned'
  BY <1>1, <1>2 DEF ReadingIsOwned
<1>7. NoStrandedEvent'
  BY <1>2 DEF NoStrandedEvent, ReadEventHappend
<1> QED
  BY <1>3, <1>4, <1>5, <1>6, <1>7

LEMMA IInvStep == IInv /\ [Next]_vars => IInv'
<1> SUFFICES ASSUME IInv, [Next]_vars PROVE IInv'
  OBVIOUS
<1> USE DEF IInv
<1>0. TypeOK'
  BY TypeStep
<1> USE DispatchAssumption DEF DispatchAssumption, TypeOK, ServerPc, WorkerPc, Goto, connVars, serverVars, workerVars, notifierVars
<1>1. ASSUME NEW c \in Conns, CanRead(c) PROVE IInv'
  <2>1. NoStrandedEvent'
    BY <1>1 DEF CanRead, NoStrandedEvent, ReadEventHappend
  <2>2. LocalsOK' /\ ReaderExclusion' /\ QueuedOnce' /\ PushedAlone' /\ ReadingIsOwned' /\ QueueWatched' /\ NotAllAsleep'
    BY <1>1 DEF CanRead, LocalsOK, ReaderExclusion, QueuedOnce, PushedAlone, ReadingIsOwned,
        QueueWatched, NotAllAsleep, Busy, Draining
  <2> QED
    BY <1>0, <2>1, <2>2
<1>2. ASSUME NEW c \in Conns, ErrorOccurred(c) PROVE IInv'
  <2>1. NoStrandedEvent'
    BY <1>2 DEF ErrorOccurred, NoStrandedEvent, ReadEventHappend
  <2>2. LocalsOK' /\ ReaderExclusion' /\ QueuedOnce' /\ PushedAlone' /\ ReadingIsOwned' /\ QueueWatched' /\ NotAllAsleep'
    BY <1>2 DEF ErrorOccurred, LocalsOK, ReaderExclusion, QueuedOnce, PushedAlone, ReadingIsOwned,
        QueueWatched, NotAllAsleep, Busy, Draining
  <2> QED
    BY <1>0, <2>1, <2>2
<1>3. CASE NeedInQueueRead
  <2>1. PushedAlone'
    BY <1>3 DEF NeedInQueueRead, PushedAlone, ReadingIsOwned, LocalsOK, Busy
  <2>2. ReadingIsOwned'
    BY <1>3 DEF NeedInQueueRead, ReadingIsOwned, Busy
  <2>3. NoStrandedEvent'
    BY <1>3 DEF NeedInQueueRead, NoStrandedEvent, ReadEventHappend
  <2>4. LocalsOK' /\ ReaderExclusion' /\ QueuedOnce' /\ QueueWatched' /\ NotAllAsleep'
    BY <1>3 DEF NeedInQueueRead, LocalsOK, ReaderExclusion, QueuedOnce, QueueWatched, NotAllAsleep,
        Busy, Draining
  <2> QED
    BY <1>0, <2>1, <2>2, <2>3, <2>4
<1>4. CASE InQueue
  <2>0. /\ readQueue' # <<>>
        /\ Range(readQueue') = Range(readQueue) \cup {srvConn}
        /\ IsInjective(readQueue) /\ srvConn \notin Range(readQueue) => IsInjective(readQueue')
    BY <1>4, AppendRange DEF InQueue, LocalsOK
  <2>1. QueuedOnce'
    BY <1>4, <2>0 DEF InQueue, QueuedOnce, PushedAlone, Busy
  <2>2. ReadingIsOwned'
    BY <1>4, <2>0 DEF InQueue, ReadingIsOwned, LocalsOK, Busy
  <2>3. LocalsOK' /\ ReaderExclusion' /\ PushedAlone' /\ NoStrandedEvent' /\ QueueWatched' /\ NotAllAsleep'
    BY <1>4, <2>0 DEF InQueue, LocalsOK, ReaderExclusion, PushedAlone, NoStrandedEvent,
        QueueWatched, NotAllAsleep, Busy, ReadEventHappend, Draining
  <2> QED
    BY <1>0, <2>1, <2>2, <2>3
<1>5. CASE ServerSet
  <2>1. LocalsOK' /\ ReaderExclusion' /\ QueuedOnce' /\ PushedAlone' /\ ReadingIsOwned' /\ NoStrandedEvent' /\ QueueWatched' /\ NotAllAsleep'
    BY <1>5 DEF ServerSet, SetSignaled, LocalsOK, ReaderExclusion, QueuedOnce, PushedAlone,
        ReadingIsOwned, NoStrandedEvent, QueueWatched, NotAllAsleep, Busy, ReadEventHappend,
        Draining
  <2> QED
    BY <1>0, <2>1
<1>6. CASE ServerNotify
  <2>1. NotAllAsleep'
    BY <1>6 DEF ServerNotify, NotifyOne, NotAllAsleep, LocalsOK
  <2>2. LocalsOK' /\ ReaderExclusion' /\ QueuedOnce' /\ PushedAlone' /\ ReadingIsOwned' /\ NoStrandedEvent' /\ QueueWatched'
    BY <1>6 DEF ServerNotify, NotifyOne, LocalsOK, ReaderExclusion, QueuedOnce, PushedAlone,
        ReadingIsOwned, NoStrandedEvent, QueueWatched, Busy, ReadEventHappend, Draining
  <2> QED
    BY <1>0, <2>1, <2>2
<1>7. CASE Close
  <2>1. LocalsOK' /\ ReaderExclusion' /\ QueuedOnce' /\ PushedAlone' /\ ReadingIsOwned' /\ NoStrandedEvent' /\ QueueWatched' /\ NotAllAsleep'
    BY <1>7 DEF Close, LocalsOK, ReaderExclusion, QueuedOnce, PushedAlone, ReadingIsOwned,
        NoStrandedEvent, QueueWatched, NotAllAsleep, Busy, ReadEventHappend, Draining
  <2> QED
    BY <1>0, <2>1
<1>8. ASSUME NEW w \in Workers, WorkerStep(w) PROVE IInv'
  <2>1. CASE TestOuter(w)
    <3>1. LocalsOK'
      BY <2>1 DEF TestOuter, LocalsOK, Busy
    <3>2. NotAllAsleep'
      BY <2>1 DEF TestOuter, NotAllAsleep, LocalsOK
    <3>3. QueueWatched'
      BY <2>1 DEF TestOuter, QueueWatched, Busy, Draining
    <3>4. ReaderExclusion' /\ QueuedOnce' /\ PushedAlone' /\ ReadingIsOwned' /\ NoStrandedEvent'
      <4>1. PICK to \in WorkerPc \ Busy : pc[w] \notin Busy /\ pc' = [pc EXCEPT ![w] = to]
        BY <2>1 DEF TestOuter, Busy
      <4> QED
        BY <2>1, <4>1, IdleMove DEF TestOuter
    <3> QED
      BY <1>0, <3>1, <3>2, <3>3, <3>4
  <2>2. CASE WaitReturns(w)
    <3>1. LocalsOK'
      BY <2>2 DEF WaitReturns, TakeSignal, LocalsOK, Busy
    <3>2. QueueWatched'
      BY <2>2 DEF WaitReturns, TakeSignal, QueueWatched, Draining, Busy
    <3>3. NotAllAsleep'
      BY <2>2 DEF WaitReturns, TakeSignal, NotAllAsleep
    <3>4. ReaderExclusion' /\ QueuedOnce' /\ PushedAlone' /\ ReadingIsOwned' /\ NoStrandedEvent'
      <4>1. PICK to \in WorkerPc \ Busy : pc[w] \notin Busy /\ pc' = [pc EXCEPT ![w] = to]
        BY <2>2 DEF WaitReturns, Busy
      <4> QED
        BY <2>2, <4>1, IdleMove DEF WaitReturns
    <3> QED
      BY <1>0, <3>1, <3>2, <3>3, <3>4
  <2>3. CASE WaitBlocks(w)
    <3>1. LocalsOK' /\ ReaderExclusion' /\ QueuedOnce' /\ PushedAlone' /\ ReadingIsOwned' /\ NoStrandedEvent' /\ QueueWatched' /\ NotAllAsleep'
      BY <2>3 DEF WaitBlocks, FallAsleep, LocalsOK, ReaderExclusion, QueuedOnce, PushedAlone,
          ReadingIsOwned, NoStrandedEvent, QueueWatched, NotAllAsleep, Busy, ReadEventHappend,
          Draining
    <3> QED
      BY <1>0, <3>1
  <2>4. CASE TestInner(w)
    <3>1. LocalsOK'
      BY <2>4 DEF TestInner, LocalsOK, Busy
    <3>2. QueueWatched'
      BY <2>4 DEF TestInner, QueueWatched, Draining, Busy
    <3>3. NotAllAsleep'
      BY <2>4 DEF TestInner, NotAllAsleep
    <3>4. ReaderExclusion' /\ QueuedOnce' /\ PushedAlone' /\ ReadingIsOwned' /\ NoStrandedEvent'
      <4>1. PICK to \in WorkerPc \ Busy : pc[w] \notin Busy /\ pc' = [pc EXCEPT ![w] = to]
        BY <2>4 DEF TestInner, Busy
      <4> QED
        BY <2>4, <4>1, IdleMove DEF TestInner
    <3> QED
      BY <1>0, <3>1, <3>2, <3>3, <3>4
  <2>5. CASE DeQueue(w)
    <3>0. ASSUME readQueue # <<>>
          PROVE  /\ cur'[w] = Head(readQueue) /\ cur'[w] \in Conns
                 /\ Range(readQueue) = Range(readQueue') \cup {cur'[w]}
                 /\ IsInjective(readQueue) =>
                        IsInjective(readQueue') /\ cur'[w] \notin Range(readQueue')
      <4>1. cur'[w] = Head(readQueue) /\ readQueue' = Tail(readQueue)
        BY <2>5, <3>0 DEF DeQueue
      <4> QED
        BY <3>0, <4>1, TailRange
    <3>1. LocalsOK'
      <4>1. CASE readQueue = <<>>
        BY <2>5, <4>1 DEF DeQueue, LocalsOK, Busy
      <4>2. CASE readQueue # <<>>
        <5>1. /\ pc' = [pc EXCEPT ![w] = "read"] /\ pc[w] = "dequeue"
              /\ cur' = [cur EXCEPT ![w] = Head(readQueue)]
              /\ UNCHANGED <<closed, sleeping, srvPc, srvConn>>
          BY <2>5, <4>2 DEF DeQueue
        <5> QED
          BY <3>0, <4>2, <5>1 DEF LocalsOK, Busy
      <4> QED
        BY <4>1, <4>2
    <3>2. ReaderExclusion'
      BY <2>5, <3>0 DEF DeQueue, ReaderExclusion, ReadingIsOwned, QueuedOnce, LocalsOK, Busy
    <3>3. QueuedOnce' /\ PushedAlone'
      <4>1. CASE readQueue = <<>>
        <5>1. \A v \in Workers : (pc'[v] \in Busy <=> pc[v] \in Busy) /\ cur'[v] = cur[v]
          BY <2>5, <4>1 DEF DeQueue, Busy
        <5>2. UNCHANGED <<readQueue, srvPc, srvConn>>
          BY <2>5, <4>1 DEF DeQueue
        <5> QED
          BY <5>1, <5>2 DEF QueuedOnce, PushedAlone
      <4>2. CASE readQueue # <<>>
        <5>1. \A v \in Workers \ {w} : pc'[v] = pc[v] /\ cur'[v] = cur[v]
          BY <2>5, <4>2 DEF DeQueue
        <5>2. UNCHANGED <<srvPc, srvConn>>
          BY <2>5 DEF DeQueue
        <5>3. QueuedOnce'
          BY <3>0, <4>2, <5>1 DEF QueuedOnce
        <5>4. PushedAlone'
          BY <3>0, <4>2, <5>1, <5>2 DEF PushedAlone
        <5> QED
          BY <5>3, <5>4
      <4> QED
        BY <4>1, <4>2
    <3>5. ReadingIsOwned'
      <4>1. CASE readQueue = <<>>
        BY <2>5, <4>1 DEF DeQueue, ReadingIsOwned, Busy
      <4>2. CASE readQueue # <<>>
        <5>1. /\ pc' = [pc EXCEPT ![w] = "read"] /\ pc[w] \notin Busy
              /\ cur' = [cur EXCEPT ![w] = Head(readQueue)]
              /\ UNCHANGED <<isReading, srvPc, srvConn>>
          BY <2>5, <4>2 DEF DeQueue, Busy
        <5> QED
          BY <3>0, <4>2, <5>1 DEF ReadingIsOwned, Busy
      <4> QED
        BY <4>1, <4>2
    <3>6. QueueWatched'
      BY <2>5 DEF DeQueue, QueueWatched, Draining, Busy
    <3>7. NoStrandedEvent' /\ NotAllAsleep'
      BY <2>5, <3>0 DEF DeQueue, NoStrandedEvent, NotAllAsleep, ReadEventHappend
    <3> QED
      BY <1>0, <3>1, <3>2, <3>3, <3>5, <3>6, <3>7
  <2>6. CASE Read(w)
    <3>1. NoStrandedEvent'
      BY <2>6 DEF Read, NoStrandedEvent, ReadingIsOwned, LocalsOK, ReadEventHappend
    <3>2. LocalsOK' /\ ReaderExclusion' /\ QueuedOnce' /\ PushedAlone' /\ ReadingIsOwned' /\ QueueWatched' /\ NotAllAsleep'
      BY <2>6 DEF Read, LocalsOK, ReaderExclusion, QueuedOnce, PushedAlone, ReadingIsOwned,
          QueueWatched, NotAllAsleep, Busy, Draining
    <3> QED
      BY <1>0, <3>1, <3>2
  <2>7. CASE NeedReInQueueRead(w)
    <3>1. LocalsOK'
      <4>1. pc[w] = "recheck" /\ cur[w] # NoConn
        BY <2>7 DEF NeedReInQueueRead, LocalsOK, Busy
      <4>2. CASE ReadEventHappend(cur[w])
        <5>1. /\ pc' = [pc EXCEPT ![w] = "requeue"]
              /\ UNCHANGED <<cur, closed, sleeping, srvPc, srvConn>>
          BY <2>7, <4>2 DEF NeedReInQueueRead
        <5> QED
          BY <4>1, <5>1 DEF LocalsOK, Busy
      <4>3. CASE ~ReadEventHappend(cur[w])
        <5>1. /\ pc' = [pc EXCEPT ![w] = "drain"]
              /\ cur' = [cur EXCEPT ![w] = NoConn]
              /\ UNCHANGED <<closed, sleeping, srvPc, srvConn>>
          BY <2>7, <4>3 DEF NeedReInQueueRead
        <5> QED
          BY <4>1, <5>1 DEF LocalsOK, Busy
      <4> QED
        BY <4>2, <4>3
    <3>2. ReaderExclusion'
      BY <2>7 DEF NeedReInQueueRead, ReaderExclusion, LocalsOK, Busy
    <3>3. ReadingIsOwned'
      <4>1. CASE ReadEventHappend(cur[w])
        BY <2>7, <4>1 DEF NeedReInQueueRead, ReadingIsOwned, Busy
      <4>2. CASE ~ReadEventHappend(cur[w])
        <5>1. /\ pc[w] \in Busy /\ cur[w] \in Conns
              /\ pc' = [pc EXCEPT ![w] = "drain"]
              /\ cur' = [cur EXCEPT ![w] = NoConn]
              /\ isReading' = [isReading EXCEPT ![cur[w]] = FALSE]
              /\ UNCHANGED <<readQueue, srvPc, srvConn>>
          BY <2>7, <4>2 DEF NeedReInQueueRead, LocalsOK, Busy
        <5>2. ASSUME NEW c \in Conns, c # cur[w]
              PROVE  isReading'[c] <=> \/ c \in Range(readQueue')
                                       \/ \E v \in Workers : pc'[v] \in Busy /\ cur'[v] = c
                                       \/ srvPc' = "push" /\ srvConn' = c
          BY <5>1, <5>2 DEF ReadingIsOwned, Busy
        <5>3. /\ ~isReading'[cur[w]]
              /\ cur[w] \notin Range(readQueue')
              /\ \A v \in Workers : pc'[v] \in Busy => cur'[v] # cur[w]
              /\ ~(srvPc' = "push" /\ srvConn' = cur[w])
          BY <5>1 DEF ReaderExclusion, QueuedOnce, PushedAlone, Busy
        <5> QED
          BY <5>1, <5>2, <5>3 DEF ReadingIsOwned
      <4> QED
        BY <4>1, <4>2
    <3>4. NoStrandedEvent'
      BY <2>7 DEF NeedReInQueueRead, NoStrandedEvent, ReadEventHappend
    <3>5. QueueWatched'
      BY <2>7 DEF NeedReInQueueRead, QueueWatched, Draining, Busy
    <3>6. QueuedOnce' /\ PushedAlone'
      <4>1. /\ \A v \in Workers : pc'[v] \in Busy => pc[v] \in Busy /\ cur'[v] = cur[v]
            /\ UNCHANGED <<readQueue, srvPc, srvConn>>
        BY <2>7 DEF NeedReInQueueRead, Busy
      <4> QED
        BY <4>1 DEF QueuedOnce, PushedAlone
    <3>7. NotAllAsleep'
      BY <2>7 DEF NeedReInQueueRead, NotAllAsleep
    <3> QED
      BY <1>0, <3>1, <3>2, <3>3, <3>4, <3>5, <3>6, <3>7
  <2>8. CASE ReInQueue(w)
    <3>0. /\ readQueue' # <<>>
          /\ Range(readQueue') = Range(readQueue) \cup {cur[w]}
          /\ IsInjective(readQueue) /\ cur[w] \notin Range(readQueue) => IsInjective(readQueue')
      BY <2>8, AppendRange DEF ReInQueue, LocalsOK, Busy
    <3>1. ReaderExclusion'
      BY <2>8 DEF ReInQueue, ReaderExclusion, LocalsOK, Busy
    <3>2. QueuedOnce'
      BY <2>8, <3>0 DEF ReInQueue, QueuedOnce, ReaderExclusion, LocalsOK, Busy
    <3>3. PushedAlone'
      BY <2>8, <3>0 DEF ReInQueue, PushedAlone, LocalsOK, Busy
    <3>4. ReadingIsOwned'
      BY <2>8, <3>0 DEF ReInQueue, ReadingIsOwned, LocalsOK, Busy
    <3>5. LocalsOK' /\ NoStrandedEvent' /\ QueueWatched' /\ NotAllAsleep'
      BY <2>8, <3>0 DEF ReInQueue, LocalsOK, NoStrandedEvent, QueueWatched, NotAllAsleep, Busy,
          ReadEventHappend, Draining
    <3> QED
      BY <1>0, <3>1, <3>2, <3>3, <3>4, <3>5
  <2>9. CASE ExitSet(w)
    <3>1. LocalsOK'
      BY <2>9 DEF ExitSet, SetSignaled, LocalsOK, Busy
    <3>2. NotAllAsleep'
      BY <2>9 DEF ExitSet, SetSignaled, NotAllAsleep, LocalsOK
    <3>3. QueueWatched'
      BY <2>9 DEF ExitSet, SetSignaled, QueueWatched
    <3>4. ReaderExclusion' /\ QueuedOnce' /\ PushedAlone' /\ ReadingIsOwned' /\ NoStrandedEvent'
      <4>1. PICK to \in WorkerPc \ Busy : pc[w] \notin Busy /\ pc' = [pc EXCEPT ![w] = to]
        BY <2>9 DEF ExitSet, Busy
      <4> QED
        BY <2>9, <4>1, IdleMove DEF ExitSet
    <3> QED
      BY <1>0, <3>1, <3>2, <3>3, <3>4
  <2>10. CASE ExitNotify(w)
    <3>1. NotAllAsleep'
      BY <2>10 DEF ExitNotify, NotifyOne, NotAllAsleep, LocalsOK
    <3>2. LocalsOK' /\ QueueWatched'
      BY <2>10 DEF ExitNotify, NotifyOne, LocalsOK, QueueWatched, Busy, Draining
    <3>3. ReaderExclusion' /\ QueuedOnce' /\ PushedAlone' /\ ReadingIsOwned' /\ NoStrandedEvent'
      <4>1. PICK to \in WorkerPc \ Busy : pc[w] \notin Busy /\ pc' = [pc EXCEPT ![w] = to]
        BY <2>10 DEF ExitNotify, Busy
      <4> QED
        BY <2>10, <4>1, IdleMove DEF ExitNotify
    <3> QED
      BY <1>0, <3>1, <3>2, <3>3
  <2> QED
    BY <1>8, <2>1, <2>2, <2>3, <2>4, <2>5, <2>6, <2>7, <2>8, <2>9, <2>10 DEF WorkerStep
<1>9. ASSUME NEW w \in Workers, WakeSpuriously(w) PROVE IInv'
  <2>1. NotAllAsleep'
    BY <1>9 DEF WakeSpuriously, SpuriousWakeup, NotAllAsleep, LocalsOK
  <2>2. LocalsOK' /\ ReaderExclusion' /\ QueuedOnce' /\ PushedAlone' /\ ReadingIsOwned' /\ NoStrandedEvent' /\ QueueWatched'
    BY <1>9 DEF WakeSpuriously, SpuriousWakeup, LocalsOK, ReaderExclusion, QueuedOnce, PushedAlone,
        ReadingIsOwned, NoStrandedEvent, QueueWatched, Busy, ReadEventHappend, Draining
  <2> QED
    BY <1>0, <2>1, <2>2
<1>10. CASE UNCHANGED vars
  <2>1. LocalsOK' /\ ReaderExclusion' /\ QueuedOnce' /\ PushedAlone' /\ ReadingIsOwned' /\ NoStrandedEvent' /\ QueueWatched' /\ NotAllAsleep'
    BY <1>10 DEF vars, LocalsOK, ReaderExclusion, QueuedOnce, PushedAlone, ReadingIsOwned,
        NoStrandedEvent, QueueWatched, NotAllAsleep, Busy, ReadEventHappend, Draining
  <2> QED
    BY <1>0, <2>1
<1> QED
  BY <1>1, <1>2, <1>3, <1>4, <1>5, <1>6, <1>7, <1>8, <1>9, <1>10 DEF Next, ServerStep, Finished

\* IInv holds in every reachable state.
THEOREM Invariance == Spec => []IInv
BY InitIInv, IInvStep, PTL DEF Spec

\* Connection::Read of one connection is never run by two reader threads.
THEOREM ReadersExclude == Spec => []ReaderExclusion
BY Invariance, PTL DEF IInv

\* readQueue never holds a connection twice, nor one that is being read.
THEOREM QueueHoldsOnce == Spec => []QueuedOnce
BY Invariance, PTL DEF IInv

\* isReading is set exactly while the connection is queued, being read or
\* about to be queued.
THEOREM ReadingOwned == Spec => []ReadingIsOwned
BY Invariance, PTL DEF IInv

\* NeedReInQueueRead always finds isReading set.
THEOREM NeverThrows == Spec => []ReInQueueReadNeverThrows
<1>1. IInv => ReInQueueReadNeverThrows
  BY DEF IInv, TypeOK, LocalsOK, ReadingIsOwned, ReInQueueReadNeverThrows, Busy
<1> QED
  BY <1>1, Invariance, PTL

\* An event on a connection nobody reads is about to be looked at.
THEOREM EventsNotStranded == Spec => []NoStrandedEvent
BY Invariance, PTL DEF IInv

\* A thread will look at a non-empty queue, unless the manager is closed.
THEOREM WakeupsNotLost == Spec => []NoLostWakeup
<1>1. IInv => NoLostWakeup
  <2> SUFFICES ASSUME IInv, readQueue # <<>>, ~closed, srvPc # "set",
                      \A w \in Workers : pc[w] \notin Draining
               PROVE  /\ signaled
                      /\ \/ srvPc = "notify"
                         \/ \E w \in Workers : pc[w] \in {"loop", "wait"} /\ w \notin sleeping
    BY DEF NoLostWakeup
  <2>1. signaled
    BY DEF IInv, QueueWatched
  <2>2. \A w \in Workers : pc[w] \in {"loop", "wait"}
    BY DEF IInv, TypeOK, WorkerPc, LocalsOK, Draining, Busy
  <2>3. CASE sleeping = {}
    BY <2>1, <2>2, <2>3, DispatchAssumption DEF DispatchAssumption
  <2>4. CASE sleeping # {}
    BY <2>1, <2>2, <2>4 DEF IInv, LocalsOK, NotAllAsleep
  <2> QED
    BY <2>3, <2>4
<1> QED
  BY <1>1, Invariance, PTL

\* A raised flag is never slept through by every thread.
THEOREM SomeoneIsAwake == Spec => []NotAllAsleep
BY Invariance, PTL DEF IInv
=============================================================================
