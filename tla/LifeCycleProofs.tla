-------------------------- MODULE LifeCycleProofs --------------------------
(***************************************************************************)
(* Proofs about LifeCycle, for every finite set of rows, every size of a   *)
(* batch and every number of workers and faults.                           *)
(***************************************************************************)
EXTENDS LifeCycle, SequenceTheorems, FiniteSetTheorems, TLAPS

-----------------------------------------------------------------------------
(* Queues of rows, each of which is in it once.                            *)

LEMMA EmptyQueue ==
    /\ <<>> \in Seq(Rows) /\ IsInjective(<<>>) /\ Range(<<>>) = {} /\ Len(<<>>) = 0
  BY EmptySeq DEF IsInjective, Range

LEMMA QueueGrows ==
    ASSUME NEW s \in Seq(Rows), IsInjective(s), NEW r \in Rows, r \notin Range(s)
    PROVE  Append(s, r) \in Seq(Rows) /\ IsInjective(Append(s, r))
  <1>1. /\ Append(s, r) \in Seq(Rows)
        /\ DOMAIN Append(s, r) = 1..Len(s) + 1
        /\ \A i \in 1..Len(s) : Append(s, r)[i] = s[i]
        /\ Append(s, r)[Len(s) + 1] = r
        /\ Len(s) \in Nat /\ DOMAIN s = 1..Len(s)
    OBVIOUS
  <1>2. \A i \in 1..Len(s) : s[i] # r
    BY <1>1 DEF Range
  <1>3. QED
    BY <1>1, <1>2 DEF IsInjective

\* What is left of a queue behind its first n rows.
LEMMA RestOfQueue ==
    ASSUME NEW s \in Seq(Rows), NEW n \in 0..Len(s)
    PROVE  /\ SubSeq(s, n + 1, Len(s)) \in Seq(Rows)
           /\ Len(SubSeq(s, n + 1, Len(s))) = Len(s) - n
           /\ DOMAIN SubSeq(s, n + 1, Len(s)) = 1..Len(s) - n
           /\ \A i \in 1..Len(s) - n : SubSeq(s, n + 1, Len(s))[i] = s[n + i]
  <1>1. PICK len, first : len = Len(s) /\ first = n + 1
    OBVIOUS
  <1>2. len \in Nat /\ first \in Int /\ len \in Int /\ n \in 0..len
    BY <1>1
  <1>3. \A i \in first..len : s[i] \in Rows
    BY <1>1, <1>2
  <1>4. /\ SubSeq(s, first, len) \in Seq(Rows)
        /\ Len(SubSeq(s, first, len)) = IF first <= len THEN len - first + 1 ELSE 0
        /\ \A i \in 1..len - first + 1 : SubSeq(s, first, len)[i] = s[first + i - 1]
    BY <1>2, <1>3, SubSeqProperties
  <1>5. PICK rest : rest = SubSeq(s, first, len)
    OBVIOUS
  <1>6. (IF first <= len THEN len - first + 1 ELSE 0) = len - n /\ len - first + 1 = len - n
    BY <1>1, <1>2
  <1>7. \A i \in 1..len - n : first + i - 1 = n + i
    BY <1>1, <1>2
  <1>8. /\ rest \in Seq(Rows) /\ Len(rest) = len - n
        /\ \A i \in 1..len - n : rest[i] = s[n + i]
    BY <1>4, <1>5, <1>6, <1>7
  <1>9. DOMAIN rest = 1..len - n
    BY <1>8, LenProperties
  <1>10. QED
    BY <1>1, <1>5, <1>8, <1>9

\* A row whose lease ran out comes first again.
LEMMA QueueGrowsInFront ==
    ASSUME NEW s \in Seq(Rows), IsInjective(s), NEW r \in Rows, r \notin Range(s)
    PROVE  <<r>> \o s \in Seq(Rows) /\ IsInjective(<<r>> \o s)
  <1>1. Len(s) \in Nat /\ DOMAIN s = 1..Len(s) /\ \A i \in 1..Len(s) : s[i] # r
    BY DEF Range
  <1>2. <<r>> \in Seq(Rows) /\ Len(<<r>>) = 1 /\ <<r>>[1] = r
    OBVIOUS
  <1>3. /\ <<r>> \o s \in Seq(Rows)
        /\ Len(<<r>> \o s) = 1 + Len(s)
        /\ \A i \in 1..1 + Len(s) : (<<r>> \o s)[i] = IF i <= 1 THEN <<r>>[i] ELSE s[i - 1]
    BY <1>1, <1>2, ConcatProperties
  <1>4. DOMAIN (<<r>> \o s) = 1..1 + Len(s)
    BY <1>3, LenProperties
  <1>5. /\ (<<r>> \o s)[1] = r
        /\ \A i \in 2..1 + Len(s) :
               (<<r>> \o s)[i] = s[i - 1] /\ i - 1 \in 1..Len(s)
    BY <1>1, <1>2, <1>3
  <1>6. QED
    BY <1>1, <1>3, <1>4, <1>5 DEF IsInjective

\* A row that is changed leaves its place for the last.
LEMMA QueueMoves ==
    ASSUME NEW s \in Seq(Rows), IsInjective(s), NEW i \in DOMAIN s
    PROVE  /\ Append(RemoveAt(s, i), s[i]) \in Seq(Rows)
           /\ IsInjective(Append(RemoveAt(s, i), s[i]))
  <1>1. /\ Len(s) \in Nat /\ DOMAIN s = 1..Len(s) /\ i \in 1..Len(s)
        /\ \A j \in 1..Len(s) : s[j] \in Rows
    OBVIOUS
  <1>2. /\ SubSeq(s, 1, i - 1) \in Seq(Rows) /\ Len(SubSeq(s, 1, i - 1)) = i - 1
        /\ \A j \in 1..i - 1 : SubSeq(s, 1, i - 1)[j] = s[j]
    BY <1>1
  <1>3. /\ SubSeq(s, i + 1, Len(s)) \in Seq(Rows)
        /\ Len(SubSeq(s, i + 1, Len(s))) = Len(s) - i
        /\ \A j \in 1..Len(s) - i : SubSeq(s, i + 1, Len(s))[j] = s[i + j]
    <2>1. i \in 0..Len(s)
      BY <1>1
    <2>2. QED
      BY <2>1, RestOfQueue
  <1>4. PICK front, back : front = SubSeq(s, 1, i - 1) /\ back = SubSeq(s, i + 1, Len(s))
    OBVIOUS
  <1>5. /\ front \o back \in Seq(Rows)
        /\ Len(front \o back) = Len(front) + Len(back)
        /\ \A j \in 1..Len(front) + Len(back) :
               (front \o back)[j] = IF j <= Len(front) THEN front[j] ELSE back[j - Len(front)]
    <2>1. front \in Seq(Rows) /\ back \in Seq(Rows)
      BY <1>2, <1>3, <1>4
    <2>2. QED
      BY <2>1, ConcatProperties
  <1>6. PICK rest : rest = RemoveAt(s, i)
    OBVIOUS
  <1>7. /\ rest \in Seq(Rows) /\ Len(rest) = Len(s) - 1 /\ DOMAIN rest = 1..Len(s) - 1
        /\ \A j \in 1..i - 1 : rest[j] = s[j]
        /\ \A j \in i..Len(s) - 1 : rest[j] = s[j + 1]
    <2>1. rest = front \o back
      BY <1>4, <1>6 DEF RemoveAt
    <2>2. Len(front) = i - 1 /\ Len(back) = Len(s) - i
      BY <1>2, <1>3, <1>4
    <2>3. rest \in Seq(Rows) /\ Len(rest) = Len(s) - 1
      <3>1. \A n, f, b \in Int : f = i - 1 /\ b = n - i => f + b = n - 1
        BY <1>1
      <3>2. rest \in Seq(Rows) /\ Len(rest) = Len(front) + Len(back)
        BY <1>5, <2>1
      <3>3. Len(front) \in Int /\ Len(back) \in Int /\ Len(s) \in Int
        BY <1>1, <2>2
      <3>4. QED
        BY <2>2, <3>1, <3>2, <3>3
    <2>4. DOMAIN rest = 1..Len(s) - 1
      BY <2>3, LenProperties
    <2>5. \A j \in 1..i - 1 : rest[j] = s[j]
      BY <1>1, <1>2, <1>4, <1>5, <2>1, <2>2
    <2>6. \A j \in i..Len(s) - 1 : rest[j] = s[j + 1]
      <3>1. ASSUME NEW j \in i..Len(s) - 1
            PROVE  /\ j \in 1..Len(front) + Len(back) /\ ~(j <= Len(front))
                   /\ j - Len(front) \in 1..Len(s) - i
                   /\ i + (j - Len(front)) = j + 1
        BY <1>1, <2>2
      <3>2. QED
        BY <1>3, <1>4, <1>5, <2>1, <3>1
    <2>7. QED
      BY <2>3, <2>4, <2>5, <2>6
  <1>8. IsInjective(rest) /\ s[i] \notin Range(rest)
    <2>1. PICK place : place = [j \in 1..Len(s) - 1 |-> IF j < i THEN j ELSE j + 1]
      OBVIOUS
    <2>2. \A j \in 1..Len(s) - 1 :
              place[j] \in 1..Len(s) /\ place[j] # i /\ rest[j] = s[place[j]]
      <3>1. ASSUME NEW j \in 1..Len(s) - 1
            PROVE  place[j] \in 1..Len(s) /\ place[j] # i /\ rest[j] = s[place[j]]
        <4>1. CASE j < i
          <5>1. place[j] = j /\ j \in 1..i - 1 /\ j \in 1..Len(s)
            BY <1>1, <2>1, <4>1
          <5>2. QED
            BY <1>1, <1>7, <4>1, <5>1
        <4>2. CASE ~(j < i)
          <5>1. place[j] = j + 1 /\ j \in i..Len(s) - 1 /\ j + 1 \in 1..Len(s) /\ j + 1 # i
            BY <1>1, <2>1, <4>2
          <5>2. rest[j] = s[j + 1]
            BY <1>7, <5>1
          <5>3. QED
            BY <5>1, <5>2
        <4>3. QED
          BY <4>1, <4>2
      <3>2. QED
        BY <3>1
    <2>3. \A j, k \in 1..Len(s) - 1 : place[j] = place[k] => j = k
      BY <1>1, <2>1
    <2>4. \A j, k \in 1..Len(s) : s[j] = s[k] => j = k
      BY <1>1 DEF IsInjective
    <2>5. \A j, k \in 1..Len(s) - 1 : rest[j] = rest[k] => j = k
      BY <2>2, <2>3, <2>4
    <2>6. \A j \in 1..Len(s) - 1 : rest[j] # s[i]
      BY <1>1, <2>2, <2>4
    <2>7. QED
      BY <1>7, <2>5, <2>6 DEF IsInjective, Range
  <1>9. QED
    BY <1>1, <1>6, <1>7, <1>8, QueueGrows

LEMMA QueueSplits ==
    ASSUME NEW s \in Seq(Rows), IsInjective(s), NEW n \in 0..Len(s)
    PROVE  /\ SubSeq(s, 1, n) \in Seq(Rows) /\ IsInjective(SubSeq(s, 1, n))
           /\ Len(SubSeq(s, 1, n)) = n
           /\ SubSeq(s, n + 1, Len(s)) \in Seq(Rows)
           /\ IsInjective(SubSeq(s, n + 1, Len(s)))
  <1>1. Len(s) \in Nat /\ DOMAIN s = 1..Len(s) /\ \A i \in 1..Len(s) : s[i] \in Rows
    OBVIOUS
  <1>2. /\ SubSeq(s, 1, n) \in Seq(Rows)
        /\ Len(SubSeq(s, 1, n)) = n
        /\ \A i \in 1..n : SubSeq(s, 1, n)[i] = s[i]
        /\ DOMAIN SubSeq(s, 1, n) = 1..n
    <2>1. 1 \in Int /\ n \in Int /\ \A i \in 1..n : s[i] \in Rows
      BY <1>1
    <2>2. /\ SubSeq(s, 1, n) \in Seq(Rows)
          /\ Len(SubSeq(s, 1, n)) = IF 1 <= n THEN n - 1 + 1 ELSE 0
          /\ \A i \in 1..n - 1 + 1 : SubSeq(s, 1, n)[i] = s[1 + i - 1]
      BY <2>1, SubSeqProperties
    <2>3. /\ (IF 1 <= n THEN n - 1 + 1 ELSE 0) = n /\ n - 1 + 1 = n
          /\ \A i \in 1..n : 1 + i - 1 = i
      BY <1>1
    <2>4. PICK front : front = SubSeq(s, 1, n)
      OBVIOUS
    <2>5. front \in Seq(Rows) /\ Len(front) = n /\ \A i \in 1..n : front[i] = s[i]
      BY <2>2, <2>3, <2>4
    <2>6. QED
      BY <2>4, <2>5, LenProperties
  <1>3. /\ SubSeq(s, n + 1, Len(s)) \in Seq(Rows)
        /\ DOMAIN SubSeq(s, n + 1, Len(s)) = 1..Len(s) - n
        /\ \A i \in 1..Len(s) - n : SubSeq(s, n + 1, Len(s))[i] = s[n + i]
    BY RestOfQueue
  <1>4. PICK front, rest : front = SubSeq(s, 1, n) /\ rest = SubSeq(s, n + 1, Len(s))
    OBVIOUS
  <1>5. \A i, j \in 1..Len(s) : s[i] = s[j] => i = j
    BY <1>1 DEF IsInjective
  <1>6. IsInjective(front)
    <2>1. DOMAIN front = 1..n /\ \A i \in 1..n : front[i] = s[i]
      BY <1>2, <1>4
    <2>2. \A i \in 1..n : i \in 1..Len(s)
      BY <1>1
    <2>3. QED
      BY <1>5, <2>1, <2>2 DEF IsInjective
  <1>7. IsInjective(rest)
    <2>1. DOMAIN rest = 1..Len(s) - n /\ \A i \in 1..Len(s) - n : rest[i] = s[n + i]
      BY <1>3, <1>4
    <2>2. \A i, j \in 1..Len(s) - n :
              n + i \in 1..Len(s) /\ n + j \in 1..Len(s) /\ (n + i = n + j => i = j)
      BY <1>1
    <2>3. QED
      BY <1>5, <2>1, <2>2 DEF IsInjective
  <1>8. QED
    BY <1>2, <1>3, <1>4, <1>6, <1>7

LEMMA QueueShrinks ==
    ASSUME NEW s \in Seq(Rows), IsInjective(s), s # <<>>
    PROVE  /\ Tail(s) \in Seq(Rows) /\ IsInjective(Tail(s))
           /\ Head(s) \in Rows /\ Head(s) \in Range(s)
           /\ Range(Tail(s)) \subseteq Range(s) \ {Head(s)}
           /\ Len(Tail(s)) = Len(s) - 1 /\ Len(s) \in Nat \ {0}
  <1>1. /\ Len(s) \in Nat \ {0} /\ DOMAIN s = 1..Len(s) /\ Head(s) = s[1]
        /\ \A i \in 1..Len(s) : s[i] \in Rows
    OBVIOUS
  <1>2. /\ Tail(s) \in Seq(Rows) /\ Len(Tail(s)) = Len(s) - 1
        /\ DOMAIN Tail(s) = 1..Len(s) - 1
        /\ \A i \in 1..Len(s) - 1 : Tail(s)[i] = s[i + 1]
    BY <1>1
  <1>3. QED
    BY <1>1, <1>2 DEF IsInjective, Range

\* A batch never holds more rows than the set that is managed.
LEMMA WorkingIsFinite ==
    ASSUME NEW working \in SUBSET Rows
    PROVE  IsFiniteSet(working) /\ Cardinality(working) \in Nat
  BY LifeCycleAssumption, FS_Subset, FS_CardinalityType

\* Nobody has the lock.
LEMMA FreeBatch ==
    /\ NoBatch \in BatchRecord
    /\ NoBatch.caller = NoCaller /\ NoBatch.step = "none"
    /\ NoBatch.queue = <<>> /\ NoBatch.working = {} /\ NoBatch.stuck = {}
    /\ NoBatch.room = 0
  BY EmptyQueue, LifeCycleAssumption DEF NoBatch, BatchRecord

-----------------------------------------------------------------------------
(* The inductive invariant.                                                *)

LEMMA InitSatisfies ==
    ASSUME Init
    PROVE  IInv
  <1>2. batch = NoBatch /\ due = <<>>
    BY DEF Init
  <1>1. jobs \in [{Reconcile, Integrity} -> {"waiting", "running", "ended"}]
    BY DEF Init
  <1>7. faults \in 0..MaxFaults
    BY LifeCycleAssumption DEF Init
  <1>3. TypeOK
    BY <1>1, <1>2, <1>7, EmptyQueue, FreeBatch DEF Init, TypeOK
  <1>4. BatchIsSound
    BY <1>2, EmptyQueue, FreeBatch, LifeCycleAssumption, FS_EmptySet DEF BatchIsSound
  <1>5. OneBatch
    BY <1>2, FreeBatch
       DEF Init, OneBatch, Caller, Loop, Reconcile, Integrity, NoCaller
  <1>6. EndsInOrder
    BY DEF Init, EndsInOrder
  <1>8. QED
    BY <1>3, <1>4, <1>5, <1>6 DEF IInv

\* The adapters and the handlers.
LEMMA AdapterSteps ==
    ASSUME IInv,
           \/ Serve \/ OpenGateway \/ CloseGateway
           \/ \E h \in DOMAIN handler : Handles(h)
    PROVE  IInv'
  <1> USE DEF Handles
  <1>1. UNCHANGED <<jobs, loop, signal, due, batch, scheduler, done, main>>
    BY DEF Serve, OpenGateway, CloseGateway, Arrives, HandlerCalls, HandlerReturns,
           HandlerEnds, workers
  <1>2. server' \in {"running", "ended"} /\ client' \in {"opening", "open", "ended"}
    BY DEF IInv, TypeOK, Serve, OpenGateway, CloseGateway, Arrives, HandlerCalls,
           HandlerReturns, HandlerEnds, adapters
  <1>3. handler' \in [{Discord, Http} -> {"idle", "between", "calling"}]
    BY DEF IInv, TypeOK, Serve, OpenGateway, CloseGateway, Arrives, HandlerCalls,
           HandlerReturns, HandlerEnds
  <1>4. cancelled' \in BOOLEAN /\ failure' \in BOOLEAN
    BY DEF IInv, TypeOK, Serve, OpenGateway, CloseGateway, Arrives, HandlerCalls,
           HandlerReturns, HandlerEnds, adapters, Fails
  <1>5. faults' \in 0..MaxFaults
    BY LifeCycleAssumption
       DEF IInv, TypeOK, Serve, OpenGateway, CloseGateway, Arrives, HandlerCalls,
           HandlerReturns, HandlerEnds, adapters, Fault
  <1>6. TypeOK'
    BY <1>1, <1>2, <1>3, <1>4, <1>5 DEF IInv, TypeOK
  <1>7. BatchIsSound' /\ OneBatch'
    BY <1>1 DEF IInv, BatchIsSound, OneBatch, Caller
  <1>8. EndsInOrder'
    BY <1>1 DEF IInv, EndsInOrder, Drained, Serve, OpenGateway, CloseGateway,
                Arrives, HandlerCalls, HandlerReturns, HandlerEnds, adapters
  <1>9. QED
    BY <1>6, <1>7, <1>8 DEF IInv

\* The scheduler and its jobs, between two runs of ReconcileDue.
LEMMA SchedulerSteps ==
    ASSUME IInv,
           \/ IntegrityTick \/ IntegrityEnds \/ SchedulerEnds
           \/ \E j \in DOMAIN jobs : JobEnds(j)
    PROVE  IInv'
  <1>1. /\ UNCHANGED <<cancelled, failure, server, client, handler, loop, signal, due, batch>>
        /\ UNCHANGED <<done, main, faults>>
    BY DEF IntegrityTick, IntegrityEnds, SchedulerEnds, JobEnds, adapters, workers
  <1>2. /\ jobs \in [{Reconcile, Integrity} -> {"waiting", "running", "ended"}]
        /\ DOMAIN jobs = {Reconcile, Integrity} /\ Reconcile # Integrity
    BY DEF IInv, TypeOK, Reconcile, Integrity
  <1>3. TypeOK'
    BY <1>1, <1>2 DEF IInv, TypeOK, IntegrityTick, IntegrityEnds, SchedulerEnds, JobEnds, workers
  <1>4. BatchIsSound'
    BY <1>1 DEF IInv, BatchIsSound
  <1>5. jobs'[Reconcile] = "running" <=> jobs[Reconcile] = "running"
    BY <1>2 DEF IntegrityTick, IntegrityEnds, SchedulerEnds, JobEnds, workers
  <1>6. OneBatch'
    BY <1>1, <1>5 DEF IInv, OneBatch, Caller
  <1>7. EndsInOrder'
    BY <1>1, <1>2 DEF IInv, EndsInOrder, Drained, IntegrityTick, IntegrityEnds,
                      SchedulerEnds, JobEnds, workers
  <1>8. QED
    BY <1>3, <1>4, <1>6, <1>7 DEF IInv

\* What falls due.
LEMMA DueSteps ==
    ASSUME IInv, NEW r \in Rows, Mutate(r) \/ FallsDue(r)
    PROVE  IInv'
  <1>1. /\ UNCHANGED <<cancelled, failure, server, client, handler, jobs, loop, batch>>
        /\ UNCHANGED <<scheduler, done, main>>
    BY DEF Mutate, FallsDue, adapters
  <1>2. due \in Seq(Rows) /\ IsInjective(due)
    BY DEF IInv, TypeOK
  <1>3. due' \in Seq(Rows) /\ IsInjective(due)'
    <2>1. CASE Mutate(r)
      BY <1>2, <2>1, QueueGrows, QueueMoves DEF Mutate
    <2>2. CASE FallsDue(r)
      BY <1>2, <2>2, QueueGrows, QueueGrowsInFront DEF FallsDue
    <2>3. QED
      BY <2>1, <2>2
  <1>4. signal' \in BOOLEAN
    BY DEF Mutate, FallsDue, IInv, TypeOK
  <1>5. faults' \in 0..MaxFaults
    BY LifeCycleAssumption DEF Mutate, FallsDue, Fault, IInv, TypeOK
  <1>6. TypeOK'
    BY <1>1, <1>3, <1>4, <1>5 DEF IInv, TypeOK
  <1>7. BatchIsSound' /\ OneBatch' /\ EndsInOrder'
    BY <1>1 DEF IInv, BatchIsSound, OneBatch, Caller, EndsInOrder, Drained
  <1>8. QED
    BY <1>6, <1>7 DEF IInv

\* A caller that waits takes the lock, finds it taken, or ends.
LEMMA CallerSteps ==
    ASSUME IInv, Tick \/ WakeUp \/ LoopEnds
    PROVE  IInv'
  <1>1. UNCHANGED <<cancelled, failure, server, client, handler, due, scheduler, done, main, faults>>
    BY DEF Tick, WakeUp, LoopEnds, adapters
  <1>2. /\ jobs \in [{Reconcile, Integrity} -> {"waiting", "running", "ended"}]
        /\ Reconcile # Integrity /\ Reconcile # Loop
        /\ NoCaller # Loop /\ NoCaller # Reconcile
    BY DEF IInv, TypeOK, Reconcile, Integrity, Loop, NoCaller
  <1>3. signal' \in BOOLEAN
    BY DEF Tick, WakeUp, LoopEnds, IInv, TypeOK
  <1>4. CASE UNCHANGED <<batch, jobs>> /\ (loop' = loop \/ LoopEnds)
    <2>1. TypeOK'
      BY <1>1, <1>3, <1>4 DEF IInv, TypeOK, LoopEnds
    <2>2. BatchIsSound' /\ EndsInOrder'
      BY <1>1, <1>4 DEF IInv, BatchIsSound, EndsInOrder, Drained, LoopEnds
    <2>3. loop' = "running" <=> loop = "running"
      BY <1>4 DEF LoopEnds
    <2>4. OneBatch'
      BY <1>4, <2>3 DEF IInv, OneBatch, Caller
    <2>5. QED
      BY <2>1, <2>2, <2>4 DEF IInv
  <1>5. ASSUME NEW c \in {Loop, Reconcile}, Caller(c) = "waiting", Free,
               batch' = [NoBatch EXCEPT !.caller = c, !.step = "claim"],
               Becomes(c, "running")
        PROVE  IInv'
    <2>1. batch' \in BatchRecord
      BY <1>5, FreeBatch DEF BatchRecord
    <2>2. /\ batch'.caller = c /\ batch'.step = "claim" /\ batch'.queue = <<>>
          /\ batch'.working = {} /\ batch'.stuck = {} /\ batch'.room = 0
      BY <1>5 DEF NoBatch
    <2>3. /\ jobs' \in [{Reconcile, Integrity} -> {"waiting", "running", "ended"}]
          /\ loop' \in {"waiting", "running", "ended"}
          /\ jobs'[Integrity] = jobs[Integrity]
      BY <1>2, <1>5 DEF Becomes, IInv, TypeOK
    <2>4. TypeOK'
      BY <1>1, <1>3, <2>1, <2>3 DEF IInv, TypeOK
    <2>5. BatchIsSound'
      BY <1>2, <2>2, EmptyQueue, FS_EmptySet, LifeCycleAssumption DEF BatchIsSound
    <2>6. OneBatch'
      <3>1. \A d \in {Loop, Reconcile} : Caller(d) # "running"
        BY <1>2, <1>5 DEF IInv, OneBatch, Free
      <3>2. \A d \in {Loop, Reconcile} : Caller(d)' = IF d = c THEN "running" ELSE Caller(d)
        BY <1>2, <1>5 DEF Caller, Becomes
      <3>3. QED
        BY <2>2, <3>1, <3>2 DEF OneBatch
    <2>7. EndsInOrder'
      <3>1. scheduler = "ended" => c = Loop /\ loop # "ended"
        BY <1>2, <1>5 DEF IInv, EndsInOrder, Drained, Caller
      <3>2. ~done
        BY <1>2, <1>5 DEF IInv, EndsInOrder, Drained, Caller
      <3>3. QED
        BY <1>1, <1>5, <3>1, <3>2 DEF IInv, EndsInOrder, Drained, Becomes
    <2>8. QED
      BY <2>4, <2>5, <2>6, <2>7 DEF IInv
  <1>6. CASE Tick /\ Free
    BY <1>2, <1>5, <1>6 DEF Tick, Enter, Caller
  <1>7. CASE WakeUp /\ Free
    BY <1>2, <1>5, <1>7 DEF WakeUp, Enter, Caller
  <1>8. CASE (Tick \/ WakeUp) /\ ~Free
    BY <1>4, <1>8 DEF Tick, WakeUp, Enter
  <1>9. CASE LoopEnds
    BY <1>4, <1>9 DEF LoopEnds
  <1>10. QED
    BY <1>6, <1>7, <1>8, <1>9

-----------------------------------------------------------------------------
(* The batch under way.                                                    *)

LEMMA BatchFacts ==
    ASSUME IInv, batch.step # "none"
    PROVE  /\ batch \in BatchRecord /\ batch.caller \in {Loop, Reconcile}
           /\ batch.queue \in Seq(Rows) /\ IsInjective(batch.queue)
           /\ batch.working \in SUBSET Rows /\ IsFiniteSet(batch.working)
           /\ Cardinality(batch.working) \in Nat /\ Len(batch.queue) \in Nat
           /\ batch.room \in 0..BatchLimit
  <1>1. batch \in BatchRecord
    BY DEF IInv, TypeOK
  <1>2. batch.caller # NoCaller
    BY FreeBatch DEF IInv, BatchIsSound
  <1>3. batch.queue \in Seq(Rows) /\ batch.working \in SUBSET Rows
    BY <1>1 DEF BatchRecord
  <1>4. Len(batch.queue) \in Nat
    BY <1>3
  <1>5. QED
    BY <1>1, <1>2, <1>3, <1>4, WorkingIsFinite DEF BatchRecord, IInv, BatchIsSound

\* The caller goes on with its batch.
LEMMA BatchGoesOn ==
    ASSUME IInv, batch.step # "none",
           UNCHANGED <<cancelled, failure, server, client, handler, jobs, loop, signal,
                       scheduler, done, main, faults>>,
           due' \in Seq(Rows), IsInjective(due)',
           batch' \in BatchRecord, batch'.caller = batch.caller,
           batch'.step \in {"hand", "wait"}, batch'.stuck = {},
           IsInjective(batch'.queue), Range(batch'.queue) \intersect batch'.working = {},
           Cardinality(batch'.working) <= Workers,
           Len(batch'.queue) + Cardinality(batch'.working) <= batch'.room
    PROVE  IInv'
  <1>1. TypeOK'
    BY DEF IInv, TypeOK
  <1>2. BatchIsSound'
    <2>1. batch.caller # NoCaller
      BY BatchFacts DEF NoCaller, Loop, Reconcile
    <2>2. QED
      BY <2>1 DEF BatchIsSound
  <1>3. OneBatch' /\ EndsInOrder'
    BY DEF IInv, OneBatch, Caller, EndsInOrder, Drained
  <1>4. QED
    BY <1>1, <1>2, <1>3 DEF IInv

\* The caller gives the lock up.
LEMMA BatchEnds ==
    ASSUME IInv, batch.step # "none", batch' = NoBatch, Becomes(batch.caller, "waiting"),
           UNCHANGED <<cancelled, failure, server, client, handler, signal, due,
                       scheduler, done, main>>,
           faults' \in 0..MaxFaults
    PROVE  IInv'
  <1>1. /\ batch.caller \in {Loop, Reconcile}
        /\ jobs \in [{Reconcile, Integrity} -> {"waiting", "running", "ended"}]
        /\ loop \in {"waiting", "running", "ended"}
        /\ Reconcile # Integrity /\ Reconcile # Loop
        /\ NoCaller # Loop /\ NoCaller # Reconcile
    BY BatchFacts DEF IInv, TypeOK, Reconcile, Integrity, Loop, NoCaller
  <1>2. Caller(batch.caller) = "running"
    BY <1>1 DEF IInv, OneBatch
  <1>3. /\ jobs' \in [{Reconcile, Integrity} -> {"waiting", "running", "ended"}]
        /\ loop' \in {"waiting", "running", "ended"}
        /\ jobs'[Integrity] = jobs[Integrity]
    BY <1>1 DEF Becomes
  <1>4. TypeOK'
    BY <1>3, FreeBatch DEF IInv, TypeOK
  <1>5. BatchIsSound'
    BY FreeBatch, EmptyQueue, FS_EmptySet, LifeCycleAssumption DEF BatchIsSound
  <1>6. OneBatch'
    <2>1. \A c \in {Loop, Reconcile} :
              Caller(c)' = IF c = batch.caller THEN "waiting" ELSE Caller(c)
      BY <1>1 DEF Becomes, Caller
    <2>2. \A c \in {Loop, Reconcile} : Caller(c)' # "running"
      BY <2>1 DEF IInv, OneBatch
    <2>3. QED
      BY <1>1, <2>2, FreeBatch DEF OneBatch
  <1>7. EndsInOrder'
    <2>1. scheduler = "ended" => batch.caller = Loop
      BY <1>1, <1>2 DEF IInv, EndsInOrder, Drained, Caller
    <2>2. ~done
      BY <1>1, <1>2 DEF IInv, EndsInOrder, Drained, Caller
    <2>3. QED
      BY <1>1, <2>1, <2>2 DEF IInv, EndsInOrder, Drained, Becomes
  <1>8. QED
    BY <1>4, <1>5, <1>6, <1>7 DEF IInv

LEMMA ClaimSteps ==
    ASSUME IInv, ClaimDue \/ ClaimFails
    PROVE  IInv'
  <1>1. batch.step = "claim" /\ batch.queue = <<>> /\ batch.working = {} /\ batch.stuck = {}
    BY DEF ClaimDue, ClaimFails, IInv, BatchIsSound
  <1>2. /\ batch \in BatchRecord /\ due \in Seq(Rows) /\ IsInjective(due)
        /\ Len(due) \in Nat /\ BatchLimit \in Nat /\ Workers \in Nat
    BY LifeCycleAssumption DEF IInv, TypeOK
  <1>3. CASE ClaimDue
    <2> DEFINE size == IF Len(due) < BatchLimit THEN Len(due) ELSE BatchLimit
    <2>1. size \in 0..Len(due) /\ size \in 0..BatchLimit
      BY <1>2
    <2>2. /\ batch' = [batch EXCEPT !.step = "hand", !.queue = SubSeq(due, 1, size),
                                   !.room = size]
          /\ due' = SubSeq(due, size + 1, Len(due))
      BY <1>3 DEF ClaimDue, RoomForErrors
    <2> HIDE DEF size
    <2>3. /\ SubSeq(due, 1, size) \in Seq(Rows) /\ IsInjective(SubSeq(due, 1, size))
          /\ Len(SubSeq(due, 1, size)) = size
          /\ due' \in Seq(Rows) /\ IsInjective(due)'
      BY <1>2, <2>1, <2>2, QueueSplits
    <2>4. /\ batch' \in BatchRecord /\ batch'.caller = batch.caller
          /\ batch'.step = "hand" /\ batch'.stuck = {} /\ batch'.working = {}
          /\ batch'.queue = SubSeq(due, 1, size) /\ batch'.room = size
      BY <1>1, <1>2, <2>1, <2>2, <2>3 DEF BatchRecord
    <2>5. Cardinality({}) = 0
      BY FS_EmptySet
    <2>6. Len(batch'.queue) + Cardinality(batch'.working) <= batch'.room
      BY <2>1, <2>3, <2>4, <2>5
    <2>7. UNCHANGED <<cancelled, failure, server, client, handler, jobs, loop, signal,
                      scheduler, done, main, faults>>
      BY <1>3 DEF ClaimDue, adapters
    <2>8. /\ IsInjective(batch'.queue) /\ Range(batch'.queue) \intersect batch'.working = {}
          /\ Cardinality(batch'.working) <= Workers /\ batch.step # "none"
      BY <1>1, <1>2, <2>3, <2>4, <2>5
    <2>9. QED
      BY <2>3, <2>4, <2>6, <2>7, <2>8, BatchGoesOn
  <1>4. CASE ClaimFails
    <2>1. faults' \in 0..MaxFaults
      BY <1>4, LifeCycleAssumption DEF ClaimFails, Fault, IInv, TypeOK
    <2>2. QED
      BY <1>1, <1>4, <2>1, BatchEnds DEF ClaimFails, Unlocked, adapters
  <1>5. QED
    BY <1>3, <1>4

LEMMA ReturnStep ==
    ASSUME IInv, Return
    PROVE  IInv'
  <1>1. batch.step # "none" /\ faults' \in 0..MaxFaults
    BY DEF Return, IInv, TypeOK
  <1>2. QED
    BY <1>1, BatchEnds DEF Return, Unlocked, adapters

\* The row moves from the queue to a worker, and its error keeps its room.
LEMMA HandOutStep ==
    ASSUME IInv, HandOut
    PROVE  IInv'
  <1>1. /\ batch.step = "hand" /\ batch.queue # <<>>
        /\ Cardinality(batch.working) < Workers
        /\ batch' = [batch EXCEPT !.queue = Tail(batch.queue),
                                 !.working = batch.working \union {Head(batch.queue)}]
        /\ UNCHANGED <<cancelled, failure, server, client, handler, jobs, loop, signal,
                       due, scheduler, done, main, faults>>
    BY DEF HandOut, FreeWorker, adapters
  <1>2. /\ batch \in BatchRecord /\ batch.queue \in Seq(Rows) /\ IsInjective(batch.queue)
        /\ batch.working \in SUBSET Rows /\ IsFiniteSet(batch.working)
        /\ Cardinality(batch.working) \in Nat /\ batch.room \in 0..BatchLimit
        /\ batch.stuck = {} /\ Range(batch.queue) \intersect batch.working = {}
        /\ Len(batch.queue) + Cardinality(batch.working) <= batch.room
        /\ due \in Seq(Rows) /\ IsInjective(due)
    BY <1>1, BatchFacts DEF IInv, BatchIsSound, TypeOK
  <1> DEFINE row == Head(batch.queue)
  <1>3. /\ Tail(batch.queue) \in Seq(Rows) /\ IsInjective(Tail(batch.queue))
        /\ row \in Rows /\ row \in Range(batch.queue)
        /\ Range(Tail(batch.queue)) \subseteq Range(batch.queue) \ {row}
        /\ Len(Tail(batch.queue)) = Len(batch.queue) - 1 /\ Len(batch.queue) \in Nat \ {0}
    BY <1>1, <1>2, QueueShrinks
  <1> HIDE DEF row
  <1>4. Cardinality(batch.working \union {row}) = Cardinality(batch.working) + 1
    BY <1>2, <1>3, FS_AddElement
  <1>5. /\ batch' \in BatchRecord /\ batch'.caller = batch.caller
        /\ batch'.step = "hand" /\ batch'.stuck = {} /\ batch'.room = batch.room
        /\ batch'.queue = Tail(batch.queue)
        /\ batch'.working = batch.working \union {row}
    BY <1>1, <1>2, <1>3 DEF BatchRecord, row
  <1>6. /\ Cardinality(batch'.working) <= Workers
        /\ Len(batch'.queue) + Cardinality(batch'.working) <= batch'.room
    <2>1. \A n, len \in Nat : \A room \in 0..BatchLimit : \A most \in Nat :
              /\ n < most => n + 1 <= most
              /\ len + n <= room => (len - 1) + (n + 1) <= room
      BY LifeCycleAssumption
    <2>2. QED
      BY <1>1, <1>2, <1>3, <1>4, <1>5, <2>1, LifeCycleAssumption
  <1>7. /\ IsInjective(batch'.queue) /\ Range(batch'.queue) \intersect batch'.working = {}
        /\ due' \in Seq(Rows) /\ IsInjective(due)' /\ batch.step # "none"
        /\ batch'.step \in {"hand", "wait"}
    BY <1>1, <1>2, <1>3, <1>5
  <1>8. QED
    BY <1>1, <1>5, <1>6, <1>7, BatchGoesOn

\* Nothing is handed out any more.
LEMMA CloseJobsStep ==
    ASSUME IInv, CloseJobs
    PROVE  IInv'
  <1>1. /\ batch.step = "hand"
        /\ batch' = [batch EXCEPT !.step = "wait", !.queue = <<>>]
        /\ UNCHANGED <<cancelled, failure, server, client, handler, jobs, loop, signal,
                       due, scheduler, done, main, faults>>
    BY DEF CloseJobs, adapters
  <1>2. /\ batch \in BatchRecord /\ batch.stuck = {}
        /\ Cardinality(batch.working) \in Nat /\ Len(batch.queue) \in Nat
        /\ batch.room \in 0..BatchLimit
        /\ Cardinality(batch.working) <= Workers
        /\ Len(batch.queue) + Cardinality(batch.working) <= batch.room
        /\ due \in Seq(Rows) /\ IsInjective(due)
    BY <1>1, BatchFacts DEF IInv, BatchIsSound, TypeOK
  <1>3. /\ batch' \in BatchRecord /\ batch'.caller = batch.caller
        /\ batch'.step = "wait" /\ batch'.stuck = {} /\ batch'.room = batch.room
        /\ batch'.queue = <<>> /\ batch'.working = batch.working
    BY <1>1, <1>2, EmptyQueue DEF BatchRecord
  <1>4. Len(batch'.queue) + Cardinality(batch'.working) <= batch'.room
    BY <1>2, <1>3, EmptyQueue, LifeCycleAssumption
  <1>5. /\ IsInjective(batch'.queue) /\ Range(batch'.queue) \intersect batch'.working = {}
        /\ Cardinality(batch'.working) <= Workers
        /\ due' \in Seq(Rows) /\ IsInjective(due)' /\ batch.step # "none"
        /\ batch'.step \in {"hand", "wait"}
    BY <1>1, <1>2, <1>3, EmptyQueue
  <1>6. QED
    BY <1>1, <1>3, <1>4, <1>5, BatchGoesOn

\* A worker is done with its row: an error finds room, since every row of the
\* batch has its own.
LEMMA WorkSteps ==
    ASSUME IInv, NEW r \in Rows, Works(r)
    PROVE  IInv'
  <1>1. /\ r \in batch.working
        /\ UNCHANGED <<cancelled, failure, server, client, handler, jobs, loop, signal,
                       due, scheduler, done, main, faults>>
    BY DEF Works, JobSucceeds, JobFails, adapters
  <1>2. batch.step \in {"hand", "wait"}
    <2>1. batch.working # {}
      BY <1>1
    <2>2. batch.step \in {"none", "claim", "hand", "wait"}
      BY DEF IInv, TypeOK, BatchRecord
    <2>3. batch.step # "none" /\ batch.step # "claim"
      BY <2>1, FreeBatch DEF IInv, BatchIsSound
    <2>4. QED
      BY <2>2, <2>3
  <1>3. /\ batch \in BatchRecord /\ batch.stuck = {}
        /\ IsFiniteSet(batch.working) /\ IsInjective(batch.queue)
        /\ Range(batch.queue) \intersect batch.working = {}
        /\ Cardinality(batch.working) \in Nat /\ Len(batch.queue) \in Nat
        /\ batch.room \in 0..BatchLimit
        /\ Cardinality(batch.working) <= Workers
        /\ Len(batch.queue) + Cardinality(batch.working) <= batch.room
        /\ due \in Seq(Rows) /\ IsInjective(due)
    BY <1>2, BatchFacts DEF IInv, BatchIsSound, TypeOK
  <1>4. /\ IsFiniteSet(batch.working \ {r})
        /\ Cardinality(batch.working \ {r}) = Cardinality(batch.working) - 1
        /\ Cardinality(batch.working) - 1 \in Nat
    <2>1. IsFiniteSet(batch.working \ {r})
      BY <1>3, FS_Subset
    <2>2. Cardinality(batch.working \ {r}) \in Nat
      BY <2>1, FS_CardinalityType
    <2>3. Cardinality(batch.working \ {r}) = Cardinality(batch.working) - 1
      BY <1>1, <1>3, FS_RemoveElement
    <2>4. QED
      BY <2>1, <2>2, <2>3
  <1>5. batch.room - 1 \in 0..BatchLimit
    <2>1. \A n, len \in Nat : \A room \in 0..BatchLimit :
              n - 1 \in Nat /\ len + n <= room => room - 1 \in 0..BatchLimit
      BY LifeCycleAssumption
    <2>2. QED
      BY <1>3, <1>4, <2>1
  <1>6. /\ batch' \in BatchRecord /\ batch'.caller = batch.caller
        /\ batch'.step = batch.step /\ batch'.stuck = {}
        /\ batch'.queue = batch.queue /\ batch'.working = batch.working \ {r}
        /\ batch'.room \in {batch.room, batch.room - 1}
    <2>1. CASE JobSucceeds(r)
      <3>1. batch' = [batch EXCEPT !.working = batch.working \ {r}]
        BY <2>1 DEF JobSucceeds
      <3>2. QED
        BY <1>3, <3>1 DEF BatchRecord
    <2>2. CASE JobFails(r)
      <3>1. batch.room > 0
        BY <1>3, <1>5
      <3>2. batch' = [batch EXCEPT !.room = batch.room - 1, !.working = batch.working \ {r}]
        BY <2>2, <3>1 DEF JobFails
      <3>3. QED
        BY <1>3, <1>5, <3>2 DEF BatchRecord
    <2>3. QED
      BY <2>1, <2>2 DEF Works
  <1>7. /\ Len(batch'.queue) + Cardinality(batch'.working) <= batch'.room
        /\ Cardinality(batch'.working) <= Workers
    BY <1>3, <1>4, <1>6, LifeCycleAssumption
  <1>8. /\ IsInjective(batch'.queue) /\ Range(batch'.queue) \intersect batch'.working = {}
        /\ due' \in Seq(Rows) /\ IsInjective(due)' /\ batch.step # "none"
        /\ batch'.step \in {"hand", "wait"}
    BY <1>1, <1>2, <1>3, <1>6
  <1>9. QED
    BY <1>1, <1>6, <1>7, <1>8, BatchGoesOn

-----------------------------------------------------------------------------
(* Main, and the theorems.                                                 *)

LEMMA GoneFacts ==
    ASSUME IInv, Gone, UNCHANGED <<cancelled, failure, done>>,
           main' \in {"exited", "killed"}, main' = "exited" => done
    PROVE  IInv'
  <1>1. /\ jobs' \in [{Reconcile, Integrity} -> {"waiting", "running", "ended"}]
        /\ \A j \in {Reconcile, Integrity} : jobs'[j] = "ended"
        /\ DOMAIN jobs' = {Reconcile, Integrity}
    BY DEF IInv, TypeOK, Gone
  <1>2. /\ server' = "ended" /\ client' = "ended"
        /\ handler' \in [{Discord, Http} -> {"idle", "between", "calling"}]
        /\ scheduler' = "ended" /\ loop' = "ended"
        /\ signal' = FALSE /\ due' = <<>> /\ batch' = NoBatch /\ faults' = 0
    BY DEF IInv, TypeOK, Gone
  <1>3. 0 \in 0..MaxFaults
    BY LifeCycleAssumption
  <1>4. TypeOK'
    BY <1>1, <1>2, <1>3, EmptyQueue, FreeBatch DEF IInv, TypeOK
  <1>5. BatchIsSound'
    BY <1>2, FreeBatch, EmptyQueue, FS_EmptySet, LifeCycleAssumption DEF BatchIsSound
  <1>6. OneBatch'
    BY <1>1, <1>2, FreeBatch DEF OneBatch, Caller, NoCaller, Loop, Reconcile
  <1>7. EndsInOrder'
    BY <1>1, <1>2 DEF EndsInOrder, Drained
  <1>8. QED
    BY <1>4, <1>5, <1>6, <1>7 DEF IInv

LEMMA MainSteps ==
    ASSUME IInv,
           \/ GroupEnds \/ StopRuntime \/ RuntimeStopped \/ HooksDone
           \/ ClosePool \/ StopTimesOut
    PROVE  IInv'
  <1>1. CASE GroupEnds \/ StopRuntime \/ RuntimeStopped \/ HooksDone
    <2>1. /\ UNCHANGED <<failure, server, client, handler, jobs, loop, signal, due, batch>>
          /\ UNCHANGED <<scheduler, faults>>
      BY <1>1 DEF GroupEnds, StopRuntime, RuntimeStopped, HooksDone, adapters, workers
    <2>2. /\ cancelled' \in BOOLEAN /\ done' \in BOOLEAN
          /\ main' \in {"run", "runtime", "hooks", "pool", "exited", "killed"}
      BY <1>1 DEF GroupEnds, StopRuntime, RuntimeStopped, HooksDone, adapters, IInv, TypeOK
    <2>3. TypeOK'
      BY <2>1, <2>2 DEF IInv, TypeOK
    <2>4. BatchIsSound' /\ OneBatch'
      BY <2>1 DEF IInv, BatchIsSound, OneBatch, Caller
    <2>5. EndsInOrder'
      BY <1>1, <2>1 DEF IInv, EndsInOrder, Drained, GroupEnds, StopRuntime,
                        RuntimeStopped, HooksDone
    <2>6. QED
      BY <2>3, <2>4, <2>5 DEF IInv
  <1>2. CASE ClosePool
    BY <1>2, GoneFacts DEF ClosePool, IInv, EndsInOrder
  <1>3. CASE StopTimesOut
    BY <1>3, GoneFacts DEF StopTimesOut
  <1>4. QED
    BY <1>1, <1>2, <1>3

\* Whoever stops, fails or is cancelled: one caller at a time works off a batch,
\* each of its rows is in one place, every error of it finds room, so that no
\* worker is ever stuck, and what the stop waits for has ended before it goes on.
THEOREM Invariance == Spec => []IInv
  <1>1. Init => IInv
    BY InitSatisfies
  <1>2. IInv /\ [Next]_vars => IInv'
    <2>1. ASSUME IInv, UNCHANGED vars
          PROVE  IInv'
      BY <2>1 DEF vars, adapters, workers, IInv, TypeOK, BatchIsSound, OneBatch, Caller,
                  EndsInOrder, Drained
    <2>2. ASSUME IInv, Next
          PROVE  IInv'
      BY <2>2, AdapterSteps, SchedulerSteps, DueSteps, CallerSteps, ClaimSteps, ReturnStep,
         HandOutStep, CloseJobsStep, WorkSteps, MainSteps DEF Next, Batch
    <2>3. QED
      BY <2>1, <2>2
  <1>3. QED
    BY <1>1, <1>2, PTL DEF Spec

\* The pool only begins to close when everybody who is waited for has ended, and is
\* only closed when no call of a handler is under way, unless the time was up.
THEOREM PoolIsLast == Spec => PoolClosesLast
  <1> DEFINE Ended == /\ server = "ended" /\ client = "ended" /\ batch = NoBatch
                      /\ \A j \in DOMAIN jobs : jobs[j] = "ended"
             Quiet == \A h \in DOMAIN handler : handler[h] # "calling"
  <1>1. ASSUME IInv, [Next]_vars
        PROVE  /\ main' = "pool" /\ main # "pool" => Ended
               /\ main' = "exited" /\ main # "exited" => main = "pool" /\ Quiet
    <2> USE <1>1
    <2>1. \/ UNCHANGED main \/ StopRuntime \/ RuntimeStopped \/ HooksDone
          \/ ClosePool \/ StopTimesOut
      BY DEF Next, Serve, OpenGateway, CloseGateway, Handles, Arrives, HandlerCalls,
             HandlerReturns, HandlerEnds, JobEnds, IntegrityTick, IntegrityEnds,
             SchedulerEnds, Mutate, FallsDue, Works, JobSucceeds, JobFails, Tick,
             WakeUp, LoopEnds, Batch, ClaimDue, ClaimFails, HandOut, CloseJobs,
             Return, GroupEnds, vars
    <2>2. ASSUME HooksDone
          PROVE  Ended
      <3>1. done /\ server = "ended" /\ client = "ended" /\ scheduler = "ended" /\ loop = "ended"
        BY <2>2 DEF HooksDone, IInv, EndsInOrder
      <3>2. \A j \in DOMAIN jobs : jobs[j] = "ended"
        BY <3>1 DEF IInv, EndsInOrder, Drained
      <3>3. \A c \in {Loop, Reconcile} : Caller(c) = "ended"
        BY <3>1, <3>2 DEF Caller, IInv, TypeOK
      <3>4. batch.caller \notin {Loop, Reconcile}
        BY <3>3 DEF IInv, OneBatch
      <3>5. batch = NoBatch
        BY <3>4 DEF IInv, TypeOK, BatchRecord, BatchIsSound
      <3>6. QED
        BY <3>1, <3>2, <3>5
    <2>3. main' = "pool" /\ main # "pool" => HooksDone
      BY <2>1 DEF StopRuntime, RuntimeStopped, ClosePool, StopTimesOut
    <2>4. main' = "exited" /\ main # "exited" => ClosePool
      BY <2>1 DEF StopRuntime, RuntimeStopped, HooksDone, StopTimesOut
    <2>5. ClosePool => main = "pool" /\ Quiet
      BY DEF ClosePool, Returned
    <2>6. QED
      BY <2>2, <2>3, <2>4, <2>5
  <1>2. QED
    BY <1>1, Invariance, PTL DEF Spec, PoolClosesLast
=============================================================================
