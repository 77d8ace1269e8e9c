--------------------------- MODULE EtpCountProofs ---------------------------
(***************************************************************************)
(* Proofs about the counters of the thread pool and about what the tests   *)
(* of those counters, made without a lock, are worth.                      *)
(*                                                                         *)
(* Every counter is the cardinality of a set of requests or of threads.    *)
(* The lemmas say, for each step, how that set changes; the invariant IInv *)
(* of EtpPoolProofs is what they rest on, because a set grows by one only  *)
(* when the element was not in it yet.                                     *)
(***************************************************************************)
EXTENDS EtpPoolProofs

\* unsigned int arithmetic is arithmetic modulo 2^w.
LEMMA Modular ==
  ASSUME NEW n \in Int
  PROVE  /\ Inc(n % UIntMod) = (n + 1) % UIntMod
         /\ Dec(n % UIntMod) = (n - 1) % UIntMod
         /\ n \in 0 .. UIntMod - 1 => n % UIntMod = n
<1>1. ASSUME NEW a \in Int
      PROVE  /\ a % UIntMod \in 0 .. UIntMod - 1 /\ a \div UIntMod \in Int
             /\ a = UIntMod * (a \div UIntMod) + (a % UIntMod)
  BY PoolAssumption
<1>2. ASSUME NEW a \in Int, NEW q \in Int, NEW r \in 0 .. UIntMod - 1,
             a = UIntMod * q + r
      PROVE  r = a % UIntMod
  BY <1>2, PoolAssumption
<1>3. ASSUME NEW a \in Int, NEW b \in Int, NEW q \in Int, a = b + UIntMod * q
      PROVE  a % UIntMod = b % UIntMod
  <2>1. /\ b % UIntMod \in 0 .. UIntMod - 1 /\ b \div UIntMod \in Int
        /\ b = UIntMod * (b \div UIntMod) + (b % UIntMod)
    BY <1>1
  <2>2. a = UIntMod * ((b \div UIntMod) + q) + (b % UIntMod)
    BY <1>3, <2>1, PoolAssumption
  <2> QED
    BY <1>2, <2>1, <2>2
<1>4. /\ n % UIntMod \in 0 .. UIntMod - 1 /\ n \div UIntMod \in Int
      /\ n = UIntMod * (n \div UIntMod) + (n % UIntMod)
  BY <1>1
<1>5. /\ n + 1 = ((n % UIntMod) + 1) + UIntMod * (n \div UIntMod)
      /\ n - 1 = ((n % UIntMod) - 1) + UIntMod * (n \div UIntMod)
  BY <1>4, PoolAssumption
<1>6. /\ (n + 1) % UIntMod = ((n % UIntMod) + 1) % UIntMod
      /\ (n - 1) % UIntMod = ((n % UIntMod) - 1) % UIntMod
  BY <1>3, <1>4, <1>5
<1>7. n \in 0 .. UIntMod - 1 => n % UIntMod = n
  BY PoolAssumption
<1> QED
  BY <1>6, <1>7 DEF Inc, Dec

\* Counting: a finite set with one element more, or one less
LEMMA OneMore ==
  ASSUME NEW S, IsFiniteSet(S), NEW x, x \notin S
  PROVE  IsFiniteSet(S \cup {x}) /\ Cardinality(S \cup {x}) = Cardinality(S) + 1
BY FS_AddElement

LEMMA OneLess ==
  ASSUME NEW S, IsFiniteSet(S), NEW x \in S
  PROVE  IsFiniteSet(S \ {x}) /\ Cardinality(S \ {x}) = Cardinality(S) - 1
BY FS_RemoveElement

\* The requests in req_queue after a reqq_push and after a reqq_shift
LEMMA PushMembers ==
  ASSUME IInv, NEW r \in AllReqs, r \notin Members(req_queue), NEW p \in Pris,
         req_queue' = reqq_push(req_queue, r, p)
  PROVE  Members(req_queue)' = Members(req_queue) \cup {r}
<1> DEFINE n == reqq_push(req_queue, r, p)
<1>1. Members(n) = Members(req_queue) \cup {r}
  BY PushIsReqq DEF IInv, QueuesOK
<1>2. req_queue' = n
  OBVIOUS
<1> HIDE DEF n
<1>3. Members(req_queue)' = Members(n)
  BY <1>2 DEF Members
<1> QED
  BY <1>1, <1>3

LEMMA ShiftMembers ==
  ASSUME IInv, req_queue.size # 0, req_queue' = ShiftRest(req_queue)
  PROVE  /\ ShiftReq(req_queue) \in Members(req_queue) /\ ShiftReq(req_queue) \in AllReqs
         /\ Members(req_queue)' = Members(req_queue) \ {ShiftReq(req_queue)}
<1>1. /\ ShiftReq(req_queue) \in Members(req_queue) /\ ShiftReq(req_queue) \in AllReqs
      /\ Members(ShiftRest(req_queue)) = Members(req_queue) \ {ShiftReq(req_queue)}
  BY ShiftIsReqq DEF IInv, QueuesOK
<1>2. Members(req_queue)' = Members(ShiftRest(req_queue))
  BY DEF Members
<1> QED
  BY <1>1, <1>2

-----------------------------------------------------------------------------
(***************************************************************************)
(* The sets that are counted.                                              *)
(***************************************************************************)

\* nreqs: submitted, and before the --nreqs of etp_poll
Counted == {r \in live \cap Reqs : \A c \in Clients : cur[c] = r => cpc[c] = "dec"}

\* nready, before it is taken modulo 2^w
Ready == Cardinality(Members(req_queue) \cap Reqs) - Cardinality(QuitsTaken)

\* idle: threads between ++idle and --idle
Idlers == {w \in Workers : wpc[w] \in {"timedwait", "wait", "woken", "timedout"}}

\* clients in etp_end_thread, which will lower started
Ending == {c \in Clients : cpc[c] = "end_dec"}

\* started, before it is taken modulo 2^w
Threads == Cardinality(Running) - Cardinality(QuitsOpen) + Cardinality(Ending)

\* All of them are finite, so their cardinalities are natural numbers.
LEMMA CountsFinite ==
  ASSUME IInv
  PROVE  /\ IsFiniteSet(Counted) /\ IsFiniteSet(Members(req_queue) \cap Reqs)
         /\ IsFiniteSet(QuitsTaken) /\ IsFiniteSet(Idlers) /\ IsFiniteSet(Ending)
         /\ IsFiniteSet(Running) /\ IsFiniteSet(QuitsOpen)
         /\ Ready \in Int /\ Threads \in Int
<1>1. /\ IsFiniteSet(Counted) /\ IsFiniteSet(Members(req_queue) \cap Reqs)
      /\ IsFiniteSet(QuitsTaken) /\ IsFiniteSet(QuitsOpen)
  <2>1. /\ Counted \in SUBSET Reqs /\ Members(req_queue) \cap Reqs \in SUBSET Reqs
        /\ QuitsTaken \in SUBSET QuitReqs /\ QuitsOpen \in SUBSET QuitReqs
    BY DEF Counted, QuitsTaken, QuitsOpen
  <2> QED
    BY <2>1, FS_Subset, PoolAssumption
<1>2. IsFiniteSet(Idlers) /\ IsFiniteSet(Running) /\ IsFiniteSet(Ending)
  <2>1. /\ Idlers \in SUBSET Workers /\ Running \in SUBSET Workers
        /\ Ending \in SUBSET Clients
    BY DEF Idlers, Running, Ending
  <2> QED
    BY <2>1, FS_Subset, PoolAssumption
<1> QED
  BY <1>1, <1>2, FS_CardinalityType DEF Ready, Threads

\* What IInv says of the counters under a lock
LEMMA SizesCount ==
  IInv => /\ req_queue.size = Cardinality(Members(req_queue))
          /\ res_queue.size = Cardinality(Members(res_queue))
          /\ npending = res_queue.size
BY DEF IInv, QueuesOK, IsReqq, ResultsOK

-----------------------------------------------------------------------------
(***************************************************************************)
(* The set Counted, step by step.                                          *)
(***************************************************************************)
ReqCount == nreqs = Cardinality(Counted)

LEMMA ReqCountStep ==
  ASSUME IInv, ReqCount, [Next]_vars
  PROVE  ReqCount'
<1> USE DEF sharedVars, queueVars, countVars, threadVars, limitVars, reqVars,
            workerVars, clientVars, GotoC, GotoW
<1>1. IsFiniteSet(Counted) /\ Reqs \cap QuitReqs = {} /\ NoReq \notin Reqs
  BY CountsFinite, PoolAssumption
<1>2. ASSUME UNCHANGED nreqs, Counted' = Counted PROVE ReqCount'
  BY <1>2 DEF ReqCount
<1>3. ASSUME UNCHANGED <<nreqs, live, cur>>,
             \A c \in Clients : cur[c] # NoReq => (cpc'[c] = "dec" <=> cpc[c] = "dec")
      PROVE  ReqCount'
  <2>1. Counted' = Counted
    BY <1>1, <1>3 DEF Counted
  <2> QED
    BY <1>2, <1>3, <2>1
<1>4. ASSUME NEW c \in Clients, NEW r \in Reqs, NEW p \in PriArgs, Submit(c, r, p)
      PROVE  ReqCount'
  <2>1. r \notin live /\ nreqs' = nreqs + 1 /\ live' = live \cup {r} /\ cur' = cur
    BY <1>4 DEF Submit, IInv, TypeOK
  <2>2. \A d \in Clients : cur[d] # r /\ (cpc'[d] = "dec" <=> cpc[d] = "dec")
    BY <1>1, <1>4, <2>1 DEF Submit, IInv, TypeOK, Owners, InUserCode
  <2>3. Counted' = Counted \cup {r} /\ r \notin Counted
    BY <2>1, <2>2 DEF Counted
  <2> QED
    BY <1>1, <2>1, <2>3, OneMore DEF ReqCount
<1>5. ASSUME NEW c \in Clients, ShiftResult(c)
      PROVE  ReqCount'
  <2>1. /\ nreqs' = nreqs /\ live' = live /\ cur[c] = NoReq
        /\ cur' = [cur EXCEPT ![c] = ShiftReq(res_queue)]
        /\ cpc' = [cpc EXCEPT ![c] = "dec"]
    BY <1>5 DEF ShiftResult, IInv, ClientsOK, InPoll
  <2>2. Counted' = Counted
    <3>1. ShiftReq(res_queue) \in Members(res_queue)
      BY <1>5, ShiftIsReqq DEF IInv, QueuesOK, ShiftResult
    <3>2. \A d \in Clients : cur[d] # ShiftReq(res_queue)
      BY <1>1, <3>1, PoolAssumption DEF IInv, Owners, TypeOK, AllReqs
    <3> QED
      BY <1>1, <2>1, <3>2 DEF Counted, IInv, TypeOK
  <2> QED
    BY <1>2, <2>1, <2>2
<1>6. ASSUME NEW c \in Clients, DecReqs(c)
      PROVE  ReqCount'
  <2>1. /\ nreqs' = nreqs - 1 /\ live' = live /\ cur' = cur /\ cpc[c] = "dec"
        /\ cpc' = [cpc EXCEPT ![c] = "finish"] /\ cur[c] \in live \cap Reqs
        /\ \A d \in Clients : cur[d] = cur[c] => d = c
    BY <1>6 DEF DecReqs, IInv, ClientsOK, InPoll, TypeOK, Owners
  <2>2. Counted' = Counted \ {cur[c]} /\ cur[c] \in Counted
    BY <2>1 DEF Counted, IInv, TypeOK
  <2> QED
    BY <1>1, <2>1, <2>2, OneLess DEF ReqCount
<1>7. ASSUME NEW c \in Clients, NEW res \in Int, FinishReturns(c, res),
             cpc[c] \in {"finish", "callback"}
      PROVE  ReqCount'
  <2>1. /\ nreqs' = nreqs /\ live' = live \ {cur[c]}
        /\ cur' = [cur EXCEPT ![c] = NoReq] /\ cpc'[c] # "dec"
        /\ \A d \in Clients : d # c => cpc'[d] = cpc[d]
    BY <1>7 DEF FinishReturns, IInv, TypeOK, PollCaller
  <2>2. Counted' = Counted
    BY <1>1, <1>7, <2>1 DEF Counted, IInv, TypeOK
  <2> QED
    BY <1>2, <2>1, <2>2
<1>8. ASSUME NEW c \in Clients, EndThreadPush(c)
      PROVE  ReqCount'
  <2>1. PICK r \in QuitReqs : live' = live \cup {r}
    BY <1>8 DEF EndThreadPush
  <2>2. /\ nreqs' = nreqs /\ cur' = cur /\ cpc[c] = "end_push"
        /\ cpc' = [cpc EXCEPT ![c] = "end_dec"] /\ cur[c] = NoReq
    BY <1>8 DEF EndThreadPush, IInv, ClientsOK, InPoll
  <2>3. Counted' = Counted
    BY <1>1, <2>1, <2>2 DEF Counted, IInv, TypeOK
  <2> QED
    BY <1>2, <2>2, <2>3
<1>9. ASSUME NEW w \in Workers, WorkerStep(w) \/ SpuriousWake(w) \/ Timeout(w)
      PROVE  UNCHANGED <<nreqs, live, cur, cpc>>
  BY <1>9 DEF WorkerStep, Fetch, FetchNothing, TimedOut, Retire, Quit, Execute,
              PushResult, SpuriousWake, Timeout, JumpW
<1>10. ASSUME NEW c \in Clients, ClientStep(c),
              ~(\/ ShiftResult(c) \/ DecReqs(c) \/ CallbackReturns(c)
                \/ FinishCancelled(c) \/ EndThreadPush(c))
       PROVE  /\ UNCHANGED <<nreqs, live, cur>>
              /\ \A d \in Clients : cur[d] # NoReq => (cpc'[d] = "dec" <=> cpc[d] = "dec")
  BY <1>10 DEF ClientStep, MsWanted, MsThreads, MsPending, MsReqs, StartThread,
               StartThreadFails, FlushTest, Block, EnterPoll, ShiftNothing, Finish,
               EndThreadDec, EndThreadsDone, JumpC, PollCaller, IInv, TypeOK, ClientsOK
<1>11. ASSUME NEW c \in Clients, ClientCall(c),
              ~\E r \in Reqs, p \in PriArgs : Submit(c, r, p)
       PROVE  /\ UNCHANGED <<nreqs, live, cur>>
              /\ \A d \in Clients : cur[d] # NoReq => (cpc'[d] = "dec" <=> cpc[d] = "dec")
  BY <1>11 DEF ClientCall, Cancel, Poll, EnterPoll, Flush, SetMinParallel,
               SetMaxParallel, SetMaxIdle, IInv, TypeOK
<1>12. CASE UNCHANGED vars
  BY <1>3, <1>12 DEF vars
<1>13. ASSUME NEW c \in Clients, CallbackReturns(c) \/ FinishCancelled(c)
       PROVE  ReqCount'
  BY <1>7, <1>13, PoolAssumption DEF CallbackReturns, FinishCancelled
<1> QED
  BY <1>3, <1>4, <1>5, <1>6, <1>8, <1>9, <1>10, <1>11, <1>12, <1>13 DEF Next

-----------------------------------------------------------------------------
(***************************************************************************)
(* nready and the sets it counts.                                          *)
(***************************************************************************)
ReadyCount == nready = Ready % UIntMod

LEMMA ReadyCountStep ==
  ASSUME IInv, ReadyCount, [Next]_vars
  PROVE  ReadyCount'
<1> USE DEF sharedVars, queueVars, countVars, threadVars, limitVars, reqVars,
            workerVars, clientVars, GotoC, GotoW
<1>1. /\ IsFiniteSet(Members(req_queue) \cap Reqs) /\ IsFiniteSet(QuitsTaken)
      /\ Ready \in Int /\ Reqs \cap QuitReqs = {}
      /\ Cardinality(Members(req_queue) \cap Reqs) \in Nat
      /\ Cardinality(QuitsTaken) \in Nat
  BY CountsFinite, PoolAssumption, FS_CardinalityType
<1>2. ASSUME UNCHANGED nready, QuitsTaken' = QuitsTaken,
             (Members(req_queue) \cap Reqs)' = Members(req_queue) \cap Reqs
      PROVE  ReadyCount'
  BY <1>2 DEF ReadyCount, Ready
<1>3. ASSUME UNCHANGED <<nready, req_queue>>, (live \cap QuitReqs)' = live \cap QuitReqs
      PROVE  ReadyCount'
  <2>1. Members(req_queue)' = Members(req_queue)
    BY <1>3 DEF Members
  <2> QED
    BY <1>2, <1>3, <2>1 DEF QuitsTaken
<1>4. ASSUME NEW c \in Clients, NEW r \in Reqs, NEW p \in PriArgs, Submit(c, r, p)
      PROVE  ReadyCount'
  <2>1. /\ r \notin live /\ r \notin Members(req_queue)
        /\ nready' = Inc(nready) /\ live' = live \cup {r}
    BY <1>4 DEF Submit, IInv, TypeOK, Owners
  <2>2. Members(req_queue)' = Members(req_queue) \cup {r}
    <3>1. SubmitPri(p) \in Pris /\ req_queue' = reqq_push(req_queue, r, SubmitPri(p))
      BY <1>4, SubmitPriInRange, PoolAssumption DEF Submit
    <3> QED
      BY <2>1, <3>1, PushMembers DEF AllReqs
  <2>3. /\ (Members(req_queue) \cap Reqs)' = (Members(req_queue) \cap Reqs) \cup {r}
        /\ QuitsTaken' = QuitsTaken
    BY <1>1, <2>1, <2>2 DEF QuitsTaken
  <2>4. Ready' = Ready + 1
    <3> DEFINE S == Members(req_queue) \cap Reqs
    <3>1. Cardinality(S \cup {r}) = Cardinality(S) + 1
      BY <1>1, <2>1, OneMore
    <3>2. Ready' = Cardinality(S \cup {r}) - Cardinality(QuitsTaken)
      BY <2>3 DEF Ready
    <3> QED
      BY <1>1, <3>1, <3>2 DEF Ready
  <2> QED
    BY <1>1, <2>1, <2>4, Modular DEF ReadyCount
<1>5. ASSUME NEW w \in Workers, Fetch(w)
      PROVE  ReadyCount'
  <2> DEFINE r == ShiftReq(req_queue)
  <2>1. /\ nready' = Dec(nready) /\ live' = live
        /\ req_queue' = ShiftRest(req_queue) /\ req_queue.size # 0
    BY <1>5 DEF Fetch
  <2>2. /\ r \in Members(req_queue) /\ r \in AllReqs /\ r \in live
        /\ Members(req_queue)' = Members(req_queue) \ {r}
    BY <2>1, ShiftMembers DEF IInv, Owners
  <2> HIDE DEF r
  <2>3. CASE r \in Reqs
    <3>1. /\ (Members(req_queue) \cap Reqs)' = (Members(req_queue) \cap Reqs) \ {r}
          /\ QuitsTaken' = QuitsTaken
      BY <1>1, <2>1, <2>2, <2>3 DEF QuitsTaken
    <3>2. Ready' = Ready - 1
      <4> DEFINE S == Members(req_queue) \cap Reqs
      <4>1. Cardinality(S \ {r}) = Cardinality(S) - 1
        BY <1>1, <2>2, <2>3, OneLess
      <4>2. Ready' = Cardinality(S \ {r}) - Cardinality(QuitsTaken)
        BY <3>1 DEF Ready
      <4> QED
        BY <1>1, <4>1, <4>2 DEF Ready
    <3> QED
      BY <1>1, <2>1, <3>2, Modular DEF ReadyCount
  <2>4. CASE r \in QuitReqs
    <3>1. /\ (Members(req_queue) \cap Reqs)' = Members(req_queue) \cap Reqs
          /\ QuitsTaken' = QuitsTaken \cup {r} /\ r \notin QuitsTaken
      BY <1>1, <2>1, <2>2, <2>4 DEF QuitsTaken
    <3>2. Ready' = Ready - 1
      <4> DEFINE S == Members(req_queue) \cap Reqs
      <4>1. Cardinality(QuitsTaken \cup {r}) = Cardinality(QuitsTaken) + 1
        BY <1>1, <3>1, OneMore
      <4>2. Ready' = Cardinality(S) - Cardinality(QuitsTaken \cup {r})
        BY <3>1 DEF Ready
      <4> QED
        BY <1>1, <4>1, <4>2 DEF Ready
    <3> QED
      BY <1>1, <2>1, <3>2, Modular DEF ReadyCount
  <2> QED
    BY <2>2, <2>3, <2>4 DEF AllReqs
<1>6. ASSUME NEW c \in Clients, EndThreadPush(c)
      PROVE  ReadyCount'
  <2>1. PICK r \in fresh \cap QuitReqs :
          live' = live \cup {r} /\ req_queue' = reqq_push(req_queue, r, NumPri - 1)
    BY <1>6 DEF EndThreadPush
  <2>2. r \notin live /\ r \notin Members(req_queue) /\ nready' = nready
    BY <1>6, <2>1 DEF EndThreadPush, IInv, TypeOK, Owners
  <2>3. Members(req_queue)' = Members(req_queue) \cup {r}
    BY <2>1, <2>2, PushMembers, PrisNat DEF AllReqs
  <2>4. /\ (Members(req_queue) \cap Reqs)' = Members(req_queue) \cap Reqs
        /\ QuitsTaken' = QuitsTaken
    BY <1>1, <2>1, <2>2, <2>3 DEF QuitsTaken
  <2> QED
    BY <1>2, <2>2, <2>4
<1>7. ASSUME NEW c \in Clients, NEW res \in Int, FinishReturns(c, res),
             cpc[c] \in {"finish", "callback"}
      PROVE  ReadyCount'
  <2>1. /\ UNCHANGED <<nready, req_queue>> /\ live' = live \ {cur[c]}
        /\ cur[c] \in Reqs
    BY <1>7 DEF FinishReturns, IInv, TypeOK, ClientsOK, InPoll
  <2> QED
    BY <1>1, <1>3, <2>1
<1>8. ASSUME NEW c \in Clients, CallbackReturns(c) \/ FinishCancelled(c)
       PROVE  ReadyCount'
  BY <1>7, <1>8, PoolAssumption DEF CallbackReturns, FinishCancelled
<1>9. ASSUME NEW w \in Workers, WorkerStep(w) \/ SpuriousWake(w) \/ Timeout(w),
             ~Fetch(w)
      PROVE  UNCHANGED <<nready, req_queue, live>>
  BY <1>9 DEF WorkerStep, FetchNothing, TimedOut, Retire, Quit, Execute,
              PushResult, SpuriousWake, Timeout, JumpW
<1>10. ASSUME NEW c \in Clients, ClientStep(c),
              ~(CallbackReturns(c) \/ FinishCancelled(c) \/ EndThreadPush(c))
       PROVE  UNCHANGED <<nready, req_queue, live>>
  BY <1>10 DEF ClientStep, MsWanted, MsThreads, MsPending, MsReqs, StartThread,
               StartThreadFails, FlushTest, Block, ShiftResult, ShiftNothing, DecReqs,
               Finish, EndThreadDec, EndThreadsDone, JumpC
<1>11. ASSUME NEW c \in Clients, ClientCall(c),
              ~\E r \in Reqs, p \in PriArgs : Submit(c, r, p)
       PROVE  UNCHANGED <<nready, req_queue, live>>
  BY <1>11 DEF ClientCall, Cancel, Poll, Flush, SetMinParallel, SetMaxParallel,
               SetMaxIdle
<1>12. CASE UNCHANGED vars
  BY <1>3, <1>12 DEF vars
<1> QED
  BY <1>3, <1>4, <1>5, <1>6, <1>8, <1>9, <1>10, <1>11, <1>12 DEF Next

-----------------------------------------------------------------------------
(***************************************************************************)
(* idle and the threads it counts.                                         *)
(***************************************************************************)
IdleCount == idle = Cardinality(Idlers)

\* X_COND_SIGNAL turns a waiting thread into one that leaves its wait.
LEMMA SignalIdlers ==
  ASSUME TypeOK, Signal
  PROVE  /\ Idlers' = Idlers
         /\ \A w \in Workers : wpc'[w] # wpc[w] =>
              wpc[w] \in {"timedwait", "wait"} /\ wpc'[w] = "woken"
BY DEF TypeOK, Signal, Waiters, Idlers

LEMMA IdleCountStep ==
  ASSUME IInv, IdleCount, [Next]_vars
  PROVE  IdleCount'
<1> USE DEF sharedVars, queueVars, countVars, threadVars, limitVars, reqVars,
            workerVars, clientVars, GotoC, GotoW
<1>1. IsFiniteSet(Idlers)
  BY CountsFinite
<1>2. ASSUME UNCHANGED idle, Idlers' = Idlers PROVE IdleCount'
  BY <1>2 DEF IdleCount
<1>3. ASSUME NEW w \in Workers, Fetch(w)
      PROVE  IdleCount'
  <2>1. /\ wpc' = [wpc EXCEPT ![w] = IF ShiftReq(req_queue) \in QuitReqs THEN "quit"
                                     ELSE "run"]
        /\ idle' = IF wpc[w] = "woken" THEN idle - 1 ELSE idle
        /\ wpc[w] \in {"fetch", "woken"}
    BY <1>3 DEF Fetch, IdleAfterWait
  <2>2. CASE wpc[w] = "woken"
    <3>1. Idlers' = Idlers \ {w} /\ w \in Idlers
      BY <2>1, <2>2 DEF Idlers, IInv, TypeOK
    <3> QED
      BY <1>1, <2>1, <2>2, <3>1, OneLess DEF IdleCount
  <2>3. CASE wpc[w] = "fetch"
    <3>1. Idlers' = Idlers
      BY <2>1, <2>3 DEF Idlers, IInv, TypeOK
    <3> QED
      BY <1>2, <2>1, <2>3, <3>1
  <2> QED
    BY <2>1, <2>2, <2>3
<1>4. ASSUME NEW w \in Workers, FetchNothing(w)
      PROVE  IdleCount'
  <2>1. /\ wpc' = [wpc EXCEPT ![w] = "timedwait"]
        /\ idle' = (IF wpc[w] = "woken" THEN idle - 1 ELSE idle) + 1
        /\ wpc[w] \in {"fetch", "woken"} /\ idle \in Int
    BY <1>4 DEF FetchNothing, IdleAfterWait, IInv, TypeOK
  <2>2. CASE wpc[w] = "woken"
    <3>1. Idlers' = Idlers
      BY <2>1, <2>2 DEF Idlers, IInv, TypeOK
    <3> QED
      BY <1>2, <2>1, <2>2, <3>1
  <2>3. CASE wpc[w] = "fetch"
    <3>1. Idlers' = Idlers \cup {w} /\ w \notin Idlers
      BY <2>1, <2>3 DEF Idlers, IInv, TypeOK
    <3> QED
      BY <1>1, <2>1, <2>3, <3>1, OneMore DEF IdleCount
  <2> QED
    BY <2>1, <2>2, <2>3
<1>5. ASSUME NEW w \in Workers, TimedOut(w)
      PROVE  IdleCount'
  <2>1. wpc[w] = "timedout" /\ w \in Idlers
    BY <1>5 DEF TimedOut, Idlers
  <2>2. CASE idle > max_idle
    <3>1. idle' = idle - 1 /\ Idlers' = Idlers \ {w}
      BY <1>5, <2>1, <2>2 DEF TimedOut, Idlers, IInv, TypeOK
    <3> QED
      BY <1>1, <2>1, <3>1, OneLess DEF IdleCount
  <2>3. CASE ~(idle > max_idle)
    <3>1. idle' = idle /\ Idlers' = Idlers
      BY <1>5, <2>1, <2>3 DEF TimedOut, Idlers, IInv, TypeOK
    <3> QED
      BY <1>2, <3>1
  <2> QED
    BY <2>2, <2>3
<1>6. ASSUME NEW w \in Workers,
             \/ Retire(w) \/ Quit(w) \/ Execute(w) \/ PushResult(w)
             \/ SpuriousWake(w) \/ Timeout(w)
      PROVE  UNCHANGED idle /\ Idlers' = Idlers
  BY <1>6 DEF Retire, Quit, Execute, PushResult, SpuriousWake, Timeout, JumpW,
              Waiters, Idlers, IInv, TypeOK
<1>7. ASSUME NEW c \in Clients, StartThread(c)
      PROVE  UNCHANGED idle /\ Idlers' = Idlers
  BY <1>7 DEF StartThread, Idlers, IInv, TypeOK
<1>8. ASSUME NEW c \in Clients,
             EndThreadPush(c) \/ \E r \in Reqs, p \in PriArgs : Submit(c, r, p)
      PROVE  UNCHANGED idle /\ Idlers' = Idlers
  <2>1. UNCHANGED idle /\ Signal
    BY <1>8 DEF EndThreadPush, Submit
  <2> QED
    BY <2>1, SignalIdlers DEF IInv
<1>9. ASSUME NEW c \in Clients, ClientStep(c), ~StartThread(c), ~EndThreadPush(c)
      PROVE  UNCHANGED <<idle, wpc>>
  BY <1>9 DEF ClientStep, MsWanted, MsThreads, MsPending, MsReqs, StartThreadFails,
              FlushTest, Block, ShiftResult, ShiftNothing, DecReqs, Finish,
              CallbackReturns, FinishCancelled, FinishReturns, EndThreadDec,
              EndThreadsDone, JumpC
<1>10. ASSUME NEW c \in Clients, ClientCall(c),
              ~\E r \in Reqs, p \in PriArgs : Submit(c, r, p)
       PROVE  UNCHANGED <<idle, wpc>>
  BY <1>10 DEF ClientCall, Cancel, Poll, Flush, SetMinParallel, SetMaxParallel,
               SetMaxIdle
<1>11. ASSUME UNCHANGED <<idle, wpc>> PROVE IdleCount'
  BY <1>11 DEF IdleCount, Idlers
<1>12. ASSUME NEW w \in Workers, WorkerStep(w) \/ SpuriousWake(w) \/ Timeout(w)
       PROVE  IdleCount'
  BY <1>2, <1>3, <1>4, <1>5, <1>6, <1>12 DEF WorkerStep
<1>13. ASSUME NEW c \in Clients, ClientStep(c) \/ ClientCall(c)
       PROVE  IdleCount'
  BY <1>2, <1>7, <1>8, <1>9, <1>10, <1>11, <1>13
<1>14. CASE UNCHANGED vars
  BY <1>11, <1>14 DEF vars
<1> QED
  BY <1>12, <1>13, <1>14 DEF Next

-----------------------------------------------------------------------------
(***************************************************************************)
(* started and the threads and type -1 requests it counts.                 *)
(***************************************************************************)
StartedCount == started = Threads % UIntMod

\* X_COND_SIGNAL starts and ends no thread.
LEMMA SignalRunning ==
  ASSUME TypeOK, Signal, UNCHANGED wreq
  PROVE  Running' = Running
BY DEF TypeOK, Signal, Waiters, Running

\* The steps of a worker
LEMMA StartedCountWorker ==
  ASSUME IInv, StartedCount, NEW w \in Workers,
         WorkerStep(w) \/ SpuriousWake(w) \/ Timeout(w)
  PROVE  StartedCount'
<1> USE DEF sharedVars, queueVars, countVars, threadVars, limitVars, reqVars,
            workerVars, clientVars, GotoW
<1>1. /\ IsFiniteSet(Running) /\ IsFiniteSet(QuitsOpen) /\ Threads \in Int
      /\ Cardinality(Running) \in Nat /\ Cardinality(QuitsOpen) \in Nat
      /\ Cardinality(Ending) \in Nat
      /\ Reqs \cap QuitReqs = {} /\ NoReq \notin Reqs \cup QuitReqs
  BY CountsFinite, PoolAssumption, FS_CardinalityType
<1>2. UNCHANGED <<live, cpc>> /\ Ending' = Ending
  BY DEF WorkerStep, Fetch, FetchNothing, TimedOut, Retire, Quit, Execute,
         PushResult, SpuriousWake, Timeout, JumpW, Ending
<1>3. ASSUME UNCHANGED started, Running' = Running, QuitsOpen' = QuitsOpen
      PROVE  StartedCount'
  BY <1>2, <1>3 DEF StartedCount, Threads
<1>4. ASSUME UNCHANGED req_queue
      PROVE  Members(req_queue)' = Members(req_queue)
  BY <1>4 DEF Members
<1>5. CASE Fetch(w)
  <2> DEFINE r == ShiftReq(req_queue)
  <2>1. /\ req_queue' = ShiftRest(req_queue) /\ req_queue.size # 0
        /\ started' = started /\ wreq[w] = NoReq /\ wpc[w] \in {"fetch", "woken"}
        /\ wreq' = [wreq EXCEPT ![w] = r]
        /\ wpc' = [wpc EXCEPT ![w] = IF r \in QuitReqs THEN "quit" ELSE "run"]
    BY <1>5 DEF Fetch, IInv, WorkersOK
  <2>2. /\ r \in Members(req_queue) /\ r \in AllReqs
        /\ Members(req_queue)' = Members(req_queue) \ {r}
    BY <2>1, ShiftMembers
  <2> HIDE DEF r
  <2>3. r # NoReq
    BY <1>1, <2>2 DEF AllReqs
  <2>4. Running' = Running
    BY <2>1, <2>3 DEF Running, IInv, TypeOK
  <2>5. QuitsOpen' = QuitsOpen
    BY <1>1, <1>2, <2>1, <2>2, <2>3 DEF QuitsOpen, IInv, TypeOK
  <2> QED
    BY <1>3, <2>1, <2>4, <2>5
<1>6. CASE FetchNothing(w) \/ Execute(w) \/ SpuriousWake(w) \/ Timeout(w) \/ TimedOut(w)
  <2>1. UNCHANGED <<started, req_queue, wreq>>
    BY <1>6 DEF FetchNothing, Execute, SpuriousWake, Timeout, TimedOut, JumpW, IInv,
                WorkersOK, TypeOK
  <2>2. /\ wpc[w] \notin {"off", "quit"} /\ wpc'[w] \notin {"off", "quit"}
        /\ \A v \in Workers : v # w => wpc'[v] = wpc[v]
    BY <1>6 DEF FetchNothing, Execute, SpuriousWake, Timeout, TimedOut, JumpW, Waiters,
                IInv, TypeOK
  <2>3. Running' = Running
    BY <2>1, <2>2 DEF Running
  <2>4. QuitsOpen' = QuitsOpen
    BY <1>2, <1>4, <2>1 DEF QuitsOpen
  <2> QED
    BY <1>3, <2>1, <2>3, <2>4
<1>7. CASE PushResult(w)
  <2>1. /\ UNCHANGED <<started, req_queue>> /\ wreq[w] \in Reqs /\ wpc[w] = "push"
        /\ wreq' = [wreq EXCEPT ![w] = NoReq] /\ wpc' = [wpc EXCEPT ![w] = "fetch"]
    BY <1>7 DEF PushResult, IInv, WorkersOK
  <2>2. Running' = Running /\ QuitsOpen' = QuitsOpen
    BY <1>1, <1>2, <1>4, <2>1 DEF Running, QuitsOpen, IInv, TypeOK
  <2> QED
    BY <1>3, <2>1, <2>2
<1>8. CASE Retire(w)
  <2>1. /\ UNCHANGED <<req_queue, wreq>> /\ wreq[w] = NoReq /\ wpc[w] = "retire"
        /\ started' = Dec(started) /\ wpc' = [wpc EXCEPT ![w] = "quit"]
    BY <1>8 DEF Retire, IInv, WorkersOK
  <2>2. Running' = Running \ {w} /\ w \in Running /\ QuitsOpen' = QuitsOpen
    BY <1>2, <1>4, <2>1 DEF Running, QuitsOpen, IInv, TypeOK
  <2>3. Threads' = Threads - 1
    <3>1. Cardinality(Running \ {w}) = Cardinality(Running) - 1
      BY <1>1, <2>2, OneLess
    <3> QED
      BY <1>1, <1>2, <2>2, <3>1 DEF Threads
  <2> QED
    BY <1>1, <2>1, <2>3, Modular DEF StartedCount
<1>9. CASE Quit(w)
  <2>1. /\ UNCHANGED <<req_queue, started>> /\ wpc[w] = "quit"
        /\ wreq[w] \in QuitReqs \cup {NoReq}
        /\ wreq' = [wreq EXCEPT ![w] = NoReq] /\ wpc' = [wpc EXCEPT ![w] = "off"]
    BY <1>9 DEF Quit, IInv, WorkersOK
  <2>2. CASE wreq[w] = NoReq
    <3>1. Running' = Running /\ QuitsOpen' = QuitsOpen
      BY <1>1, <1>2, <1>4, <2>1, <2>2 DEF Running, QuitsOpen, IInv, TypeOK
    <3> QED
      BY <1>3, <2>1, <3>1
  <2>3. CASE wreq[w] # NoReq
    <3>1. /\ wreq[w] \in live \cap QuitReqs /\ wreq[w] \notin Members(req_queue)
          /\ \A v \in Workers : wreq[v] = wreq[w] => v = w
      BY <2>1, <2>3 DEF IInv, Owners
    <3>2. Running' = Running \ {w} /\ w \in Running
      BY <2>1, <2>3 DEF Running, IInv, TypeOK
    <3>3. QuitsOpen' = QuitsOpen \ {wreq[w]} /\ wreq[w] \in QuitsOpen
      BY <1>1, <1>2, <1>4, <2>1, <3>1 DEF QuitsOpen, IInv, TypeOK
    <3>4. Threads' = Threads
      <4>1. /\ Cardinality(Running \ {w}) = Cardinality(Running) - 1
            /\ Cardinality(QuitsOpen \ {wreq[w]}) = Cardinality(QuitsOpen) - 1
        BY <1>1, <3>2, <3>3, OneLess
      <4> QED
        BY <1>1, <1>2, <3>2, <3>3, <4>1 DEF Threads
    <3> QED
      BY <2>1, <3>4 DEF StartedCount
  <2> QED
    BY <2>2, <2>3
<1> QED
  BY <1>5, <1>6, <1>7, <1>8, <1>9 DEF WorkerStep

\* The steps of a client
LEMMA StartedCountClient ==
  ASSUME IInv, StartedCount, NEW c \in Clients, ClientStep(c) \/ ClientCall(c)
  PROVE  StartedCount'
<1> USE DEF sharedVars, queueVars, countVars, threadVars, limitVars, reqVars,
            workerVars, clientVars, GotoC, GotoW
<1>1. /\ IsFiniteSet(Running) /\ IsFiniteSet(QuitsOpen) /\ IsFiniteSet(Ending)
      /\ Threads \in Int
      /\ Cardinality(Running) \in Nat /\ Cardinality(QuitsOpen) \in Nat
      /\ Cardinality(Ending) \in Nat
      /\ Reqs \cap QuitReqs = {} /\ NoReq \notin Reqs \cup QuitReqs
  BY CountsFinite, PoolAssumption, FS_CardinalityType
<1>2. ASSUME UNCHANGED <<started, wreq>>, (live \cap QuitReqs)' = live \cap QuitReqs,
             (Members(req_queue) \cap QuitReqs)' = Members(req_queue) \cap QuitReqs,
             Running' = Running, Ending' = Ending
      PROVE  StartedCount'
  <2>1. QuitsOpen' = QuitsOpen
    BY <1>2 DEF QuitsOpen
  <2> QED
    BY <1>2, <2>1 DEF StartedCount, Threads
<1>3. ASSUME UNCHANGED req_queue
      PROVE  Members(req_queue)' = Members(req_queue)
  BY <1>3 DEF Members
<1>4. CASE StartThread(c)
  <2>1. /\ started' = Inc(started) /\ UNCHANGED <<req_queue, wreq, live>>
        /\ cpc[c] = "ms_start" /\ cpc' = [cpc EXCEPT ![c] = after[c]]
    BY <1>4 DEF StartThread
  <2>2. PICK w \in Workers : wpc[w] = "off" /\ wpc' = [wpc EXCEPT ![w] = "fetch"]
    BY <1>4 DEF StartThread
  <2>3. Running' = Running \cup {w} /\ w \notin Running
    BY <2>1, <2>2 DEF Running, IInv, TypeOK
  <2>4. QuitsOpen' = QuitsOpen /\ Ending' = Ending
    BY <1>3, <2>1 DEF QuitsOpen, Ending, IInv, TypeOK, ClientsOK
  <2>5. Threads' = Threads + 1
    <3>1. Cardinality(Running \cup {w}) = Cardinality(Running) + 1
      BY <1>1, <2>3, OneMore
    <3> QED
      BY <1>1, <2>3, <2>4, <3>1 DEF Threads
  <2> QED
    BY <1>1, <2>1, <2>5, Modular DEF StartedCount
<1>5. CASE \E r \in Reqs, p \in PriArgs : Submit(c, r, p)
  <2>1. PICK r \in Reqs, p \in PriArgs : Submit(c, r, p)
    BY <1>5
  <2>2. /\ r \notin live /\ r \notin Members(req_queue) /\ live' = live \cup {r}
        /\ UNCHANGED <<started, wreq>>
    BY <2>1 DEF Submit, IInv, TypeOK, Owners
  <2>3. Members(req_queue)' = Members(req_queue) \cup {r}
    <3>1. SubmitPri(p) \in Pris /\ req_queue' = reqq_push(req_queue, r, SubmitPri(p))
      BY <2>1, SubmitPriInRange, PoolAssumption DEF Submit
    <3> QED
      BY <2>2, <3>1, PushMembers DEF AllReqs
  <2>4. Running' = Running
    BY <2>1, SignalRunning DEF Submit, IInv
  <2>5. Ending' = Ending
    BY <2>1 DEF Submit, Ending, InUserCode, IInv, TypeOK
  <2> QED
    BY <1>1, <1>2, <2>2, <2>3, <2>4, <2>5
<1>6. CASE EndThreadPush(c)
  <2>1. PICK r \in fresh \cap QuitReqs :
          live' = live \cup {r} /\ req_queue' = reqq_push(req_queue, r, NumPri - 1)
    BY <1>6 DEF EndThreadPush
  <2>2. /\ r \notin live /\ r \notin Members(req_queue)
        /\ UNCHANGED <<started, wreq>>
    BY <1>6, <2>1 DEF EndThreadPush, IInv, TypeOK, Owners
  <2>3. Members(req_queue)' = Members(req_queue) \cup {r}
    BY <2>1, <2>2, PushMembers, PrisNat DEF AllReqs
  <2>4. Running' = Running
    BY <1>6, SignalRunning DEF EndThreadPush, IInv
  <2>5. QuitsOpen' = QuitsOpen \cup {r} /\ r \notin QuitsOpen
    BY <2>1, <2>2, <2>3 DEF QuitsOpen
  <2>6. Ending' = Ending \cup {c} /\ c \notin Ending
    BY <1>6 DEF EndThreadPush, Ending, IInv, TypeOK
  <2>7. Threads' = Threads
    <3>1. /\ Cardinality(QuitsOpen \cup {r}) = Cardinality(QuitsOpen) + 1
          /\ Cardinality(Ending \cup {c}) = Cardinality(Ending) + 1
      BY <1>1, <2>5, <2>6, OneMore
    <3> QED
      BY <1>1, <2>4, <2>5, <2>6, <3>1 DEF Threads
  <2> QED
    BY <2>2, <2>7 DEF StartedCount
<1>7. CASE EndThreadDec(c)
  <2>1. /\ started' = Dec(started) /\ UNCHANGED <<req_queue, wreq, live, wpc>>
        /\ cpc[c] = "end_dec" /\ cpc' = [cpc EXCEPT ![c] = "end_push"]
    BY <1>7 DEF EndThreadDec
  <2>2. Ending' = Ending \ {c} /\ c \in Ending
    BY <2>1 DEF Ending, IInv, TypeOK
  <2>3. Running' = Running /\ QuitsOpen' = QuitsOpen
    BY <1>3, <2>1 DEF Running, QuitsOpen
  <2>4. Threads' = Threads - 1
    <3>1. Cardinality(Ending \ {c}) = Cardinality(Ending) - 1
      BY <1>1, <2>2, OneLess
    <3> QED
      BY <1>1, <2>2, <2>3, <3>1 DEF Threads
  <2> QED
    BY <1>1, <2>1, <2>4, Modular DEF StartedCount
<1>8. CASE CallbackReturns(c) \/ FinishCancelled(c)
  <2>1. PICK res \in Int : cpc[c] \in {"finish", "callback"} /\ FinishReturns(c, res)
    BY <1>8, PoolAssumption DEF CallbackReturns, FinishCancelled
  <2>2. /\ UNCHANGED <<started, wreq, wpc, req_queue>> /\ live' = live \ {cur[c]}
        /\ cur[c] \in Reqs
    BY <2>1 DEF FinishReturns, IInv, TypeOK, ClientsOK, InPoll
  <2>3. Ending' = Ending
    BY <2>1 DEF FinishReturns, PollCaller, Ending, IInv, TypeOK
  <2>4. Running' = Running
    BY <2>2 DEF Running
  <2> QED
    BY <1>1, <1>2, <1>3, <2>2, <2>3, <2>4
<1>9. ASSUME UNCHANGED <<started, wreq, wpc, req_queue, live>>,
             \A d \in Clients : cpc'[d] = "end_dec" <=> cpc[d] = "end_dec"
      PROVE  StartedCount'
  <2>1. Running' = Running /\ Ending' = Ending
    BY <1>9 DEF Running, Ending
  <2> QED
    BY <1>2, <1>3, <1>9, <2>1
<1>10. ASSUME ClientStep(c),
              ~(\/ StartThread(c) \/ EndThreadPush(c) \/ EndThreadDec(c)
                \/ CallbackReturns(c) \/ FinishCancelled(c))
       PROVE  StartedCount'
  <2>1. UNCHANGED <<started, wreq, wpc, req_queue, live>>
    BY <1>10 DEF ClientStep, MsWanted, MsThreads, MsPending, MsReqs, StartThreadFails,
                 FlushTest, Block, ShiftResult, ShiftNothing, DecReqs, Finish,
                 EndThreadsDone, JumpC
  <2>2. \A d \in Clients : cpc'[d] = "end_dec" <=> cpc[d] = "end_dec"
    BY <1>10 DEF ClientStep, MsWanted, MsThreads, MsPending, MsReqs, StartThreadFails,
                 FlushTest, Block, EnterPoll, ShiftResult, ShiftNothing, DecReqs,
                 Finish, EndThreadsDone, JumpC, PollCaller, IInv, TypeOK, ClientsOK
  <2> QED
    BY <1>9, <2>1, <2>2
<1>11. ASSUME ClientCall(c), ~\E r \in Reqs, p \in PriArgs : Submit(c, r, p)
       PROVE  StartedCount'
  <2>1. /\ UNCHANGED <<started, wreq, wpc, req_queue, live>>
        /\ \A d \in Clients : cpc'[d] = "end_dec" <=> cpc[d] = "end_dec"
    BY <1>11 DEF ClientCall, Cancel, Poll, EnterPoll, Flush, SetMinParallel,
                 SetMaxParallel, SetMaxIdle, IInv, TypeOK
  <2> QED
    BY <1>9, <2>1
<1> QED
  BY <1>4, <1>5, <1>6, <1>7, <1>8, <1>10, <1>11

LEMMA StartedCountStep ==
  ASSUME IInv, StartedCount, [Next]_vars
  PROVE  StartedCount'
<1>1. CASE UNCHANGED vars
  BY <1>1 DEF vars, sharedVars, queueVars, countVars, threadVars, limitVars, reqVars,
              workerVars, clientVars, StartedCount, Threads, Running, QuitsOpen, Ending,
              Members
<1> QED
  BY <1>1, StartedCountWorker, StartedCountClient DEF Next

-----------------------------------------------------------------------------
(***************************************************************************)
(* The counters are right.                                                 *)
(***************************************************************************)
CountInv == ReqCount /\ ReadyCount /\ IdleCount /\ StartedCount

LEMMA InitCountInv == Init => CountInv
<1> SUFFICES ASSUME Init PROVE CountInv
  OBVIOUS
<1>1. Members(req_queue) = {}
  BY EmptyIsReqq DEF Init
<1>2. /\ Counted = {} /\ Members(req_queue) \cap Reqs = {} /\ QuitsTaken = {}
      /\ Idlers = {} /\ Running = {} /\ QuitsOpen = {} /\ Ending = {}
  BY <1>1 DEF Init, Counted, QuitsTaken, Idlers, Running, QuitsOpen, Ending
<1>3. Ready = 0 /\ Threads = 0 /\ 0 % UIntMod = 0
  BY <1>2, FS_EmptySet, PoolAssumption DEF Ready, Threads
<1> QED
  BY <1>2, <1>3, FS_EmptySet
     DEF Init, CountInv, ReqCount, ReadyCount, IdleCount, StartedCount

LEMMA NextCountInv == IInv /\ CountInv /\ [Next]_vars => CountInv'
BY ReqCountStep, ReadyCountStep, IdleCountStep, StartedCountStep DEF CountInv

LEMMA PoolCountInv == Spec => []CountInv
BY InitCountInv, NextCountInv, PoolInvariant, PTL DEF Spec

LEMMA InvRequestCounts == IInv /\ CountInv => RequestCounts
BY SizesCount DEF CountInv, ReqCount, ReadyCount, RequestCounts, Counted, Ready

LEMMA InvThreadCounts == CountInv => ThreadCounts
BY DEF CountInv, IdleCount, StartedCount, ThreadCounts, Idlers, Threads, Ending

\* The numbers eio_nreqs, eio_nready and eio_npending report are those of the
\* requests that were submitted and not finished, wait for a worker, and wait
\* to be finished; nready is short by the type -1 requests that were taken.
THEOREM PoolRequestCounts == Spec => []RequestCounts
BY InvRequestCounts, PoolInvariant, PoolCountInv, PTL

\* idle counts the waiting threads and started the running ones, corrected by
\* the type -1 requests that are under way: modulo 2^w, whatever the order in
\* which threads end by themselves and are told to end.
THEOREM PoolThreadCounts == Spec => []ThreadCounts
BY InvThreadCounts, PoolCountInv, PTL

-----------------------------------------------------------------------------
(***************************************************************************)
(* How many threads there can be.                                          *)
(***************************************************************************)

\* Nobody ends a thread, while the application sets no limit of its own.
NoEndThread ==
  /\ live \cap QuitReqs = {}
  /\ \A c \in Clients : cpc[c] \notin {"end_push", "end_dec"}

LEMMA NoEndThreadStep ==
  ASSUME ParallelArgs = {}, IInv, NoEndThread, [Next]_vars
  PROVE  NoEndThread'
<1> USE DEF sharedVars, queueVars, countVars, threadVars, limitVars, reqVars,
            workerVars, clientVars, GotoC, GotoW, NoEndThread
<1>1. ASSUME NEW w \in Workers, WorkerStep(w) \/ SpuriousWake(w) \/ Timeout(w)
      PROVE  UNCHANGED <<live, cpc>>
  BY <1>1 DEF WorkerStep, Fetch, FetchNothing, TimedOut, Retire, Quit, Execute,
              PushResult, SpuriousWake, Timeout, JumpW
<1>2. ASSUME NEW c \in Clients, ClientStep(c)
      PROVE  /\ live' \subseteq live
             /\ \A d \in Clients : cpc'[d] \notin {"end_push", "end_dec"}
  BY <1>2 DEF ClientStep, MsWanted, MsThreads, MsPending, MsReqs, StartThread,
              StartThreadFails, FlushTest, Block, EnterPoll, ShiftResult, ShiftNothing,
              DecReqs, Finish, CallbackReturns, FinishCancelled, FinishReturns,
              EndThreadPush, EndThreadDec, EndThreadsDone, JumpC, PollCaller, IInv,
              TypeOK, ClientsOK
<1>3. ASSUME NEW c \in Clients, ClientCall(c)
      PROVE  NoEndThread'
  BY <1>3, PoolAssumption DEF ClientCall, Submit, Cancel, Poll, EnterPoll, Flush,
              SetMaxIdle, InUserCode, IInv, TypeOK
<1>4. CASE UNCHANGED vars
  BY <1>4 DEF vars
<1> QED
  BY <1>1, <1>2, <1>3, <1>4 DEF Next

\* started is then exactly the number of running threads.
LEMMA StartedExact ==
  ASSUME IInv, StartedCount, NoEndThread, Cardinality(Workers) < UIntMod
  PROVE  started = Cardinality(Running)
<1>1. Ending = {} /\ QuitsOpen = {}
  BY DEF NoEndThread, Ending, QuitsOpen
<1>2. Cardinality(Running) \in Nat /\ Cardinality(Running) <= Cardinality(Workers)
      /\ Cardinality(Workers) \in Nat
  <2>1. Running \in SUBSET Workers
    BY DEF Running
  <2> QED
    BY <2>1, FS_Subset, FS_CardinalityType, PoolAssumption
<1>3. Threads = Cardinality(Running)
  BY <1>1, <1>2, FS_EmptySet DEF Threads
<1>4. Cardinality(Running) \in 0 .. UIntMod - 1
  BY <1>2, PoolAssumption
<1> QED
  BY <1>2, <1>3, <1>4, Modular DEF StartedCount

\* Clients that have found too few threads and not started one yet
Starting == {c \in Clients : cpc[c] \in {"ms_threads", "ms_pending", "ms_reqs", "ms_start"}}

\* A client that finds started < wanted may be followed by all the others
\* before it starts its thread; none joins them once started = wanted.
Bound == started + Cardinality(Starting) <= wanted + Cardinality(Clients) - 1

LEMMA BoundStep ==
  ASSUME ParallelArgs = {}, Cardinality(Workers) < UIntMod,
         IInv, StartedCount, NoEndThread, Bound, [Next]_vars
  PROVE  Bound'
<1> USE DEF sharedVars, queueVars, countVars, threadVars, limitVars, reqVars,
            workerVars, clientVars, GotoC, GotoW
<1>1. /\ IsFiniteSet(Starting) /\ Cardinality(Starting) \in Nat
      /\ Cardinality(Clients) \in Nat /\ started \in 0 .. UIntMod - 1
      /\ UIntMod \in Nat /\ wanted \in Nat
  <2>1. Starting \in SUBSET Clients
    BY DEF Starting
  <2> QED
    BY <2>1, FS_Subset, FS_CardinalityType, PoolAssumption DEF IInv, TypeOK
<1>2. ASSUME started' \in Int, started' <= started, wanted' = wanted,
             Starting' \subseteq Starting
      PROVE  Bound'
  <2>1. Cardinality(Starting') \in Nat /\ Cardinality(Starting') <= Cardinality(Starting)
    BY <1>1, <1>2, FS_Subset, FS_CardinalityType
  <2> QED
    BY <1>1, <1>2, <2>1 DEF Bound
<1>3. ASSUME NEW c \in Clients, MsWanted(c)
      PROVE  Bound'
  <2>1. UNCHANGED <<started, wanted>>
    BY <1>3 DEF MsWanted, JumpC
  <2>2. CASE EnoughThreads
    <3>1. Starting' \subseteq Starting
      BY <1>3, <2>2 DEF MsWanted, JumpC, Starting, IInv, TypeOK, ClientsOK
    <3> QED
      BY <1>1, <1>2, <2>1, <3>1
  <2>3. CASE ~EnoughThreads
    <3>1. started <= wanted - 1
      BY <1>1, <2>3 DEF EnoughThreads
    <3>2. Starting' \in SUBSET Clients
      BY DEF Starting
    <3>3. Cardinality(Starting') \in Nat /\ Cardinality(Starting') <= Cardinality(Clients)
      BY <3>2, FS_Subset, FS_CardinalityType, PoolAssumption
    <3> QED
      BY <1>1, <2>1, <3>1, <3>3 DEF Bound
  <2> QED
    BY <2>2, <2>3
<1>4. ASSUME NEW c \in Clients, StartThread(c)
      PROVE  Bound'
  <2>1. /\ started' = Inc(started) /\ wanted' = wanted
        /\ cpc[c] = "ms_start" /\ cpc' = [cpc EXCEPT ![c] = after[c]]
    BY <1>4 DEF StartThread
  <2>2. Starting' = Starting \ {c} /\ c \in Starting
    BY <2>1 DEF Starting, IInv, TypeOK, ClientsOK
  <2>3. Cardinality(Starting') = Cardinality(Starting) - 1
    BY <1>1, <2>2, OneLess
  <2>4. started' \in Int /\ started' <= started + 1
    BY <1>1, <2>1 DEF Inc
  <2> QED
    BY <1>1, <2>1, <2>3, <2>4 DEF Bound
<1>5. ASSUME NEW w \in Workers, Retire(w)
      PROVE  Bound'
  <2>1. started' = Dec(started) /\ UNCHANGED <<wanted, cpc>> /\ w \in Running
    BY <1>5 DEF Retire, Running
  <2>2. IsFiniteSet(Running) /\ started = Cardinality(Running)
    BY CountsFinite, StartedExact
  <2>3. started # 0
    BY <2>1, <2>2, FS_EmptySet
  <2>4. started' = started - 1
    BY <1>1, <2>1, <2>3 DEF Dec
  <2>5. Starting' \subseteq Starting
    BY <2>1 DEF Starting
  <2> QED
    BY <1>1, <1>2, <2>1, <2>4, <2>5
<1>6. ASSUME NEW w \in Workers, WorkerStep(w) \/ SpuriousWake(w) \/ Timeout(w),
             ~Retire(w)
      PROVE  UNCHANGED <<started, wanted, cpc>>
  BY <1>6 DEF WorkerStep, Fetch, FetchNothing, TimedOut, Quit, Execute, PushResult,
              SpuriousWake, Timeout, JumpW
<1>7. ASSUME NEW c \in Clients, ClientStep(c), ~MsWanted(c), ~StartThread(c)
      PROVE  UNCHANGED <<started, wanted>> /\ Starting' \subseteq Starting
  BY <1>7 DEF ClientStep, MsThreads, MsPending, MsReqs, StartThreadFails, FlushTest,
              Block, EnterPoll, ShiftResult, ShiftNothing, DecReqs, Finish,
              CallbackReturns, FinishCancelled, FinishReturns, EndThreadPush,
              EndThreadDec, EndThreadsDone, JumpC, PollCaller, Starting, NoEndThread,
              IInv, TypeOK, ClientsOK
<1>8. ASSUME NEW c \in Clients, ClientCall(c)
      PROVE  UNCHANGED <<started, wanted>> /\ Starting' \subseteq Starting
  BY <1>8 DEF ClientCall, Submit, Cancel, Poll, EnterPoll, Flush, SetMaxIdle,
              InUserCode, Starting, IInv, TypeOK
<1>9. ASSUME UNCHANGED <<started, wanted, cpc>>
      PROVE  Bound'
  BY <1>9 DEF Bound, Starting
<1>10. CASE UNCHANGED vars
  BY <1>9, <1>10 DEF vars
<1>11. ASSUME NEW w \in Workers, WorkerStep(w) \/ SpuriousWake(w) \/ Timeout(w)
       PROVE  Bound'
  BY <1>5, <1>6, <1>9, <1>11
<1>12. ASSUME NEW c \in Clients, ClientStep(c) \/ ClientCall(c)
       PROVE  Bound'
  <2>1. ASSUME UNCHANGED <<started, wanted>>, Starting' \subseteq Starting PROVE Bound'
    BY <1>1, <1>2, <2>1
  <2> QED
    BY <1>3, <1>4, <1>7, <1>8, <1>12, <2>1
<1> QED
  BY <1>10, <1>11, <1>12 DEF Next

LEMMA InitBound ==
  ASSUME Init, Clients # {}
  PROVE  NoEndThread /\ Bound
<1>1. NoEndThread /\ Starting = {}
  BY DEF Init, NoEndThread, Starting
<1>2. Cardinality(Clients) \in Nat /\ Cardinality(Clients) # 0
  BY FS_EmptySet, FS_CardinalityType, PoolAssumption
<1>3. started = 0 /\ wanted \in Nat /\ Cardinality(Starting) = 0
  BY <1>1, FS_EmptySet, PoolAssumption DEF Init
<1> QED
  BY <1>1, <1>2, <1>3 DEF Bound

LEMMA InvThreadBound == IInv /\ Bound => ThreadBound
<1> SUFFICES ASSUME IInv, Bound PROVE ThreadBound
  OBVIOUS
<1>1. Starting \in SUBSET Clients
  BY DEF Starting
<1>2. Cardinality(Starting) \in Nat /\ Cardinality(Clients) \in Nat
  BY <1>1, FS_Subset, FS_CardinalityType, PoolAssumption
<1> QED
  BY <1>2, PoolAssumption DEF IInv, TypeOK, Bound, ThreadBound

\* etp_maybe_start_thread tests started without a lock, and yet n submitting
\* threads never start more than n - 1 threads too many, as long as the limits
\* are those the pool began with.
THEOREM PoolThreadBound ==
  ASSUME ParallelArgs = {}, Clients # {}, Cardinality(Workers) < UIntMod
  PROVE  Spec => []ThreadBound
<1>1. Init => NoEndThread /\ Bound
  BY InitBound
<1>2. IInv /\ CountInv /\ NoEndThread /\ Bound /\ [Next]_vars => (NoEndThread /\ Bound)'
  BY NoEndThreadStep, BoundStep DEF CountInv
<1> QED
  BY <1>1, <1>2, PoolInvariant, PoolCountInv, InvThreadBound, PTL DEF Spec

-----------------------------------------------------------------------------
(***************************************************************************)
(* The condition variable.                                                 *)
(***************************************************************************)

\* Threads on their way to reqq_shift
Comers == {w \in Workers : wpc[w] \in {"fetch", "woken"}}

NoTimeouts == \A w \in Workers : wpc[w] # "timedout"

\* A signal adds a thread to those that come, if one waits.
LEMMA SignalComers ==
  ASSUME IInv, NoTimeouts, NoLostWakeup, Signal, req_queue'.size = req_queue.size + 1
  PROVE  (NoTimeouts /\ NoLostWakeup)'
<1>1. IsFiniteSet(Comers) /\ Cardinality(Comers) \in Nat /\ req_queue.size \in Int
  <2>1. Comers \in SUBSET Workers
    BY DEF Comers
  <2> QED
    BY <2>1, FS_Subset, FS_CardinalityType, PoolAssumption DEF IInv, TypeOK, ReqqOf
<1>2. NoTimeouts'
  BY DEF NoTimeouts, Signal, Waiters, IInv, TypeOK
<1>3. CASE Waiters = {} /\ UNCHANGED wpc
  BY <1>2, <1>3 DEF NoLostWakeup, Waiters
<1>4. CASE \E w \in Waiters : wpc' = [wpc EXCEPT ![w] = "woken"]
  <2>1. PICK w \in Waiters : wpc' = [wpc EXCEPT ![w] = "woken"]
    BY <1>4
  <2>2. Comers' = Comers \cup {w} /\ w \notin Comers /\ Waiters # {}
    BY <2>1 DEF Comers, Waiters, IInv, TypeOK
  <2>3. Cardinality(Comers') = Cardinality(Comers) + 1
    BY <1>1, <2>2, OneMore
  <2>4. req_queue.size <= Cardinality(Comers)
    BY <2>2 DEF NoLostWakeup, Comers
  <2>5. req_queue'.size <= Cardinality(Comers')
    BY <1>1, <2>3, <2>4
  <2> QED
    BY <1>2, <2>5 DEF NoLostWakeup, Comers
<1> QED
  BY <1>3, <1>4 DEF Signal

LEMMA WakeupStep ==
  ASSUME IdleTimeouts = FALSE, IInv, NoTimeouts, NoLostWakeup, [Next]_vars
  PROVE  (NoTimeouts /\ NoLostWakeup)'
<1> USE DEF sharedVars, queueVars, countVars, threadVars, limitVars, reqVars,
            workerVars, clientVars, GotoC, GotoW
<1>1. /\ IsFiniteSet(Comers) /\ Cardinality(Comers) \in Nat /\ req_queue.size \in Int
      /\ IsFiniteSet(Comers')
  <2>1. Comers \in SUBSET Workers /\ Comers' \in SUBSET Workers
    BY DEF Comers
  <2> QED
    BY <2>1, FS_Subset, FS_CardinalityType, PoolAssumption DEF IInv, TypeOK, ReqqOf
<1>2. ASSUME UNCHANGED req_queue, Comers \subseteq Comers', Waiters' \subseteq Waiters,
             NoTimeouts'
      PROVE  (NoTimeouts /\ NoLostWakeup)'
  <2>1. Cardinality(Comers) <= Cardinality(Comers') /\ Cardinality(Comers') \in Nat
    BY <1>1, <1>2, FS_Subset, FS_CardinalityType
  <2>2. Waiters # {} => req_queue.size <= Cardinality(Comers)
    BY DEF NoLostWakeup, Comers
  <2>3. Waiters' # {} => req_queue'.size <= Cardinality(Comers')
    BY <1>1, <1>2, <2>1, <2>2
  <2> QED
    BY <1>2, <2>3 DEF NoLostWakeup, Comers
<1>3. ASSUME NEW w \in Workers, Fetch(w)
      PROVE  (NoTimeouts /\ NoLostWakeup)'
  <2>1. /\ wpc[w] \in {"fetch", "woken"}
        /\ wpc' = [wpc EXCEPT ![w] = IF ShiftReq(req_queue) \in QuitReqs THEN "quit"
                                     ELSE "run"]
        /\ req_queue'.size = req_queue.size - 1
    BY <1>3 DEF Fetch, ShiftRest
  <2>2. Comers' = Comers \ {w} /\ w \in Comers /\ Waiters' = Waiters
    BY <2>1 DEF Comers, Waiters, IInv, TypeOK
  <2>3. Cardinality(Comers') = Cardinality(Comers) - 1
    BY <1>1, <2>2, OneLess
  <2>4. Waiters # {} => req_queue.size <= Cardinality(Comers)
    BY DEF NoLostWakeup, Comers
  <2>5. Waiters' # {} => req_queue'.size <= Cardinality(Comers')
    BY <1>1, <2>1, <2>2, <2>3, <2>4
  <2>6. NoTimeouts'
    BY <2>1 DEF NoTimeouts, IInv, TypeOK
  <2> QED
    BY <2>5, <2>6 DEF NoLostWakeup, Comers
<1>4. ASSUME NEW w \in Workers, FetchNothing(w)
      PROVE  (NoTimeouts /\ NoLostWakeup)'
  <2>1. req_queue'.size = 0 /\ Cardinality(Comers') \in Nat
    BY <1>1, <1>4, FS_CardinalityType DEF FetchNothing
  <2>2. NoTimeouts'
    BY <1>4 DEF FetchNothing, NoTimeouts, IInv, TypeOK
  <2> QED
    BY <2>1, <2>2 DEF NoLostWakeup, Comers
<1>5. ASSUME NEW w \in Workers,
             \/ Retire(w) \/ Quit(w) \/ Execute(w) \/ PushResult(w) \/ SpuriousWake(w)
             \/ TimedOut(w) \/ Timeout(w)
      PROVE  (NoTimeouts /\ NoLostWakeup)'
  <2>1. UNCHANGED req_queue /\ NoTimeouts'
    BY <1>5 DEF Retire, Quit, Execute, PushResult, SpuriousWake, TimedOut, Timeout,
                JumpW, Waiters, NoTimeouts, IInv, TypeOK
  <2>2. Comers \subseteq Comers' /\ Waiters' \subseteq Waiters
    BY <1>5 DEF Retire, Quit, Execute, PushResult, SpuriousWake, TimedOut, Timeout,
                JumpW, Waiters, Comers, NoTimeouts, IInv, TypeOK
  <2> QED
    BY <1>2, <2>1, <2>2
<1>6. ASSUME NEW c \in Clients, StartThread(c)
      PROVE  (NoTimeouts /\ NoLostWakeup)'
  <2>1. /\ UNCHANGED req_queue /\ NoTimeouts'
        /\ Comers \subseteq Comers' /\ Waiters' \subseteq Waiters
    BY <1>6 DEF StartThread, Waiters, Comers, NoTimeouts, IInv, TypeOK
  <2> QED
    BY <1>2, <2>1
<1>7. ASSUME NEW c \in Clients,
             EndThreadPush(c) \/ \E r \in Reqs, p \in PriArgs : Submit(c, r, p)
      PROVE  (NoTimeouts /\ NoLostWakeup)'
  <2>1. Signal /\ req_queue'.size = req_queue.size + 1
    BY <1>7 DEF EndThreadPush, Submit, reqq_push
  <2> QED
    BY <2>1, SignalComers
<1>8. ASSUME NEW c \in Clients, ClientStep(c), ~StartThread(c), ~EndThreadPush(c)
      PROVE  UNCHANGED <<req_queue, wpc>>
  BY <1>8 DEF ClientStep, MsWanted, MsThreads, MsPending, MsReqs, StartThreadFails,
              FlushTest, Block, ShiftResult, ShiftNothing, DecReqs, Finish,
              CallbackReturns, FinishCancelled, FinishReturns, EndThreadDec,
              EndThreadsDone, JumpC
<1>9. ASSUME NEW c \in Clients, ClientCall(c),
             ~\E r \in Reqs, p \in PriArgs : Submit(c, r, p)
      PROVE  UNCHANGED <<req_queue, wpc>>
  BY <1>9 DEF ClientCall, Cancel, Poll, Flush, SetMinParallel, SetMaxParallel,
              SetMaxIdle
<1>10. ASSUME UNCHANGED <<req_queue, wpc>>
       PROVE  (NoTimeouts /\ NoLostWakeup)'
  BY <1>10 DEF NoTimeouts, NoLostWakeup, Waiters
<1>11. CASE UNCHANGED vars
  BY <1>10, <1>11 DEF vars
<1>12. ASSUME NEW w \in Workers, WorkerStep(w) \/ SpuriousWake(w) \/ Timeout(w)
       PROVE  (NoTimeouts /\ NoLostWakeup)'
  BY <1>3, <1>4, <1>5, <1>12 DEF WorkerStep
<1>13. ASSUME NEW c \in Clients, ClientStep(c) \/ ClientCall(c)
       PROVE  (NoTimeouts /\ NoLostWakeup)'
  BY <1>6, <1>7, <1>8, <1>9, <1>10, <1>13
<1> QED
  BY <1>11, <1>12, <1>13 DEF Next

LEMMA InitWakeup == Init => NoTimeouts /\ NoLostWakeup
BY DEF Init, NoTimeouts, NoLostWakeup, Waiters

\* While a thread waits for requests, the threads that are already coming are
\* enough for all that are queued: X_COND_SIGNAL, sent once per request, is
\* enough, as long as no idle_timeout elapses.
THEOREM PoolNoLostWakeup ==
  ASSUME IdleTimeouts = FALSE
  PROVE  Spec => []NoLostWakeup
<1>1. IInv /\ NoTimeouts /\ NoLostWakeup /\ [Next]_vars => (NoTimeouts /\ NoLostWakeup)'
  BY WakeupStep
<1> QED
  BY <1>1, InitWakeup, PoolInvariant, PTL DEF Spec

-----------------------------------------------------------------------------
(***************************************************************************)
(* poll and flush.                                                         *)
(***************************************************************************)

\* The only step out of the loop of flush
LEMMA FlushLeaves ==
  ASSUME IInv, [Next]_vars, NEW c \in Clients, cpc[c] = "flush", cpc'[c] = "app"
  PROVE  FlushTest(c) /\ UNCHANGED live
<1> USE DEF sharedVars, queueVars, countVars, threadVars, limitVars, reqVars,
            workerVars, clientVars, GotoC, GotoW
<1>1. ASSUME NEW w \in Workers, WorkerStep(w) \/ SpuriousWake(w) \/ Timeout(w)
      PROVE  UNCHANGED cpc
  BY <1>1 DEF WorkerStep, Fetch, FetchNothing, TimedOut, Retire, Quit, Execute,
              PushResult, SpuriousWake, Timeout, JumpW
<1>2. ASSUME NEW d \in Clients, ClientStep(d), ~FlushTest(d)
      PROVE  ~(cpc[c] = "flush" /\ cpc'[c] = "app")
  BY <1>2 DEF ClientStep, MsWanted, MsThreads, MsPending, MsReqs, StartThread,
              StartThreadFails, Block, EnterPoll, ShiftResult, ShiftNothing,
              DecReqs, Finish, CallbackReturns, FinishCancelled, FinishReturns,
              EndThreadPush, EndThreadDec, EndThreadsDone, JumpC, IInv, TypeOK
<1>3. ASSUME NEW d \in Clients, ClientCall(d)
      PROVE  ~(cpc[c] = "flush" /\ cpc'[c] = "app")
  BY <1>3 DEF ClientCall, Submit, Cancel, Poll, EnterPoll, Flush, SetMinParallel,
              SetMaxParallel, SetMaxIdle, InUserCode, IInv, TypeOK
<1>4. ASSUME NEW d \in Clients, FlushTest(d) PROVE FlushTest(c) /\ UNCHANGED live
  BY <1>4 DEF FlushTest, JumpC, IInv, TypeOK
<1>5. CASE UNCHANGED vars
  BY <1>5 DEF vars
<1> QED
  BY <1>1, <1>2, <1>3, <1>4, <1>5 DEF Next

\* flush returns only when every request has been finished and destroyed, if
\* one thread makes all the calls.  (Another thread that polls may still have
\* a request between its --nreqs and its callback.)
THEOREM PoolFlushWaits ==
  ASSUME \A c, d \in Clients : c = d
  PROVE  Spec => FlushWaits
<1> DEFINE Waits == \A c \in Clients :
                      cpc[c] = "flush" /\ cpc'[c] = "app" => live \cap Reqs = {}
<1>1. IInv /\ CountInv /\ [Next]_vars => [Waits]_vars
  <2> SUFFICES ASSUME IInv, CountInv, [Next]_vars, NEW c \in Clients,
                      cpc[c] = "flush", cpc'[c] = "app"
               PROVE  live \cap Reqs = {}
    OBVIOUS
  <2>1. FlushTest(c)
    BY FlushLeaves
  <2>2. ~RequestsLeft
    BY <2>1 DEF FlushTest, JumpC, GotoC, IInv, TypeOK
  <2>3. IsFiniteSet(Counted) /\ nreqs = Cardinality(Counted)
    BY CountsFinite DEF CountInv, ReqCount
  <2>4. Counted = {}
    BY <2>2, <2>3, FS_EmptySet, FS_CardinalityType DEF RequestsLeft
  <2>5. \A d \in Clients : cur[d] = NoReq
    BY DEF IInv, ClientsOK, InPoll
  <2> QED
    BY <2>4, <2>5, PoolAssumption DEF Counted
<1>2. Spec => [][Waits]_vars
  BY <1>1, PoolInvariant, PoolCountInv, PTL DEF Spec
<1> QED
  BY <1>2 DEF FlushWaits
=============================================================================
