-------------------------- MODULE EtpServiceProofs --------------------------
(***************************************************************************)
(* The thread pool implements EioService: every behaviour of EtpPool is,   *)
(* through the refinement mapping of EtpPoolProps (Stage and the counters  *)
(* beside it), a behaviour of the abstract service.                        *)
(*                                                                         *)
(* Beyond IInv and the counts the proof needs two facts: a request is in   *)
(* the list of its own priority, so reqq_shift takes one of the most       *)
(* urgent; and a request past ETP_EXECUTE has been executed unless it was  *)
(* cancelled.                                                              *)
(*                                                                         *)
(* And fork () keeps what the pool guarantees: the child starts in a state *)
(* that satisfies every invariant of the pool, and the bytes of the parent *)
(* in the shared pipe do not disturb it.                                   *)
(***************************************************************************)
EXTENDS EtpFork, EtpCountProofs

-----------------------------------------------------------------------------
(***************************************************************************)
(* The lists are sorted by priority.                                       *)
(***************************************************************************)
Sorted(q, f) == \A p \in Pris : \A i \in DOMAIN q.qs[p] : f[q.qs[p][i]] = p

LEMMA SortedMembers ==
  ASSUME NEW q, NEW f, NEW g, Sorted(q, f), \A r \in Members(q) : g[r] = f[r]
  PROVE  Sorted(q, g)
BY MembersDef DEF Sorted

\* reqq_push appends to the list of the request's priority.
LEMMA PushSorted ==
  ASSUME NEW S, NEW q, IsReqq(q, S), NEW r \in S, NEW p \in Pris, NEW f,
         Sorted(q, f), f[r] = p
  PROVE  Sorted(reqq_push(q, r, p), f)
<1> DEFINE n == reqq_push(q, r, p)
<1>1. n.qs = [q.qs EXCEPT ![p] = Append(q.qs[p], r)] /\ q.qs \in [Pris -> Seq(S)]
  BY DEF reqq_push, IsReqq
<1>2. n.qs[p] = Append(q.qs[p], r) /\ \A o \in Pris : o # p => n.qs[o] = q.qs[o]
  BY <1>1
<1>3. q.qs[p] \in Seq(S)
  BY <1>1
<1> HIDE DEF n
<1>4. ASSUME NEW i \in DOMAIN n.qs[p]
      PROVE  \/ i \in DOMAIN q.qs[p] /\ n.qs[p][i] = q.qs[p][i]
             \/ n.qs[p][i] = r
  BY <1>2, <1>3
<1>5. Sorted(n, f)
  <2>1. Sorted(q, f) /\ f[r] = p
    OBVIOUS
  <2> SUFFICES ASSUME NEW o \in Pris, NEW i \in DOMAIN n.qs[o]
               PROVE  f[n.qs[o][i]] = o
    BY DEF Sorted
  <2>2. CASE o = p
    BY <1>4, <2>1, <2>2 DEF Sorted
  <2>3. CASE o # p
    BY <1>2, <2>1, <2>3 DEF Sorted
  <2> QED
    BY <2>2, <2>3
<1> QED
  BY <1>5 DEF n

\* reqq_shift takes one of the most urgent requests and leaves the others in
\* their lists.
LEMMA ShiftSorted ==
  ASSUME NEW S, NEW q, IsReqq(q, S), q.size # 0, NEW f, Sorted(q, f)
  PROVE  /\ Sorted(ShiftRest(q), f)
         /\ \A s \in Members(q) : f[s] <= f[ShiftReq(q)]
<1> DEFINE p == ShiftPri(q)
           n == ShiftRest(q)
<1>1. /\ p \in Pris /\ q.qs[p] # <<>>
      /\ 1 \in DOMAIN q.qs[p] /\ q.qs[p][1] = ShiftReq(q)
      /\ \A o \in Pris : DOMAIN q.qs[o] # {} => o <= p
  BY ShiftFirst
<1>2. n.qs = [q.qs EXCEPT ![p] = Tail(q.qs[p])] /\ q.qs \in [Pris -> Seq(S)]
  BY DEF ShiftRest, IsReqq
<1> HIDE DEF p, n
<1>3. f[ShiftReq(q)] = p
  BY <1>1 DEF Sorted
<1>4. ASSUME NEW s \in Members(q) PROVE f[s] <= p
  <2>1. PICK o \in Pris : \E i \in DOMAIN q.qs[o] : q.qs[o][i] = s
    BY MembersDef
  <2>2. f[s] = o /\ DOMAIN q.qs[o] # {}
    BY <2>1 DEF Sorted
  <2> QED
    BY <1>1, <2>2
<1>5. n.qs[p] = Tail(q.qs[p]) /\ \A o \in Pris : o # p => n.qs[o] = q.qs[o]
  BY <1>1, <1>2
<1>6. q.qs[p] \in Seq(S)
  BY <1>1, <1>2
<1>7. ASSUME NEW i \in DOMAIN n.qs[p]
      PROVE  i + 1 \in DOMAIN q.qs[p] /\ n.qs[p][i] = q.qs[p][i + 1]
  <2>1. /\ Tail(q.qs[p]) \in Seq(S) /\ Len(Tail(q.qs[p])) = Len(q.qs[p]) - 1
        /\ \A k \in 1 .. Len(Tail(q.qs[p])) : Tail(q.qs[p])[k] = q.qs[p][k + 1]
    BY <1>1, <1>6, HeadTailProperties
  <2>2. /\ DOMAIN Tail(q.qs[p]) = 1 .. Len(Tail(q.qs[p]))
        /\ DOMAIN q.qs[p] = 1 .. Len(q.qs[p]) /\ Len(q.qs[p]) \in Nat
    BY <1>6, <2>1, LenProperties
  <2>3. i \in 1 .. Len(q.qs[p]) - 1
    BY <1>5, <2>1, <2>2
  <2>4. i + 1 \in 1 .. Len(q.qs[p])
    BY <2>2, <2>3
  <2> QED
    BY <1>5, <2>1, <2>2, <2>3, <2>4
<1>8. Sorted(n, f)
  <2>1. Sorted(q, f)
    OBVIOUS
  <2> SUFFICES ASSUME NEW o \in Pris, NEW i \in DOMAIN n.qs[o]
               PROVE  f[n.qs[o][i]] = o
    BY DEF Sorted
  <2>2. CASE o = p
    BY <1>7, <2>1, <2>2 DEF Sorted
  <2>3. CASE o # p
    BY <1>5, <2>1, <2>3 DEF Sorted
  <2> QED
    BY <2>2, <2>3
<1> QED
  BY <1>3, <1>4, <1>8 DEF n

PriOK == Sorted(req_queue, pri) /\ Sorted(res_queue, pri)

\* A step that leaves the queues and the priorities alone
LEMMA PriFrame ==
  ASSUME PriOK, UNCHANGED <<req_queue, res_queue, pri>>
  PROVE  PriOK'
BY DEF PriOK, Sorted

\* A step that queues a new request
LEMMA PriPush ==
  ASSUME IInv, PriOK, NEW r \in fresh, NEW p \in Pris,
         pri' = [pri EXCEPT ![r] = p], req_queue' = reqq_push(req_queue, r, p),
         UNCHANGED res_queue
  PROVE  PriOK'
<1> DEFINE n == reqq_push(req_queue, r, p)
           f == [pri EXCEPT ![r] = p]
<1>1. /\ r \notin live /\ r \in AllReqs
      /\ r \notin Members(req_queue) /\ r \notin Members(res_queue)
  BY DEF IInv, TypeOK, Owners
<1>2. f[r] = p /\ \A s : s # r /\ s \in AllReqs => f[s] = pri[s]
  BY <1>1 DEF IInv, TypeOK
<1>3. Members(req_queue) \subseteq AllReqs /\ Members(res_queue) \subseteq AllReqs
  BY DEF IInv, TypeOK, Owners
<1> HIDE DEF f
<1>4. Sorted(req_queue, f) /\ Sorted(res_queue, f)
  <2>1. /\ \A s \in Members(req_queue) : f[s] = pri[s]
        /\ \A s \in Members(res_queue) : f[s] = pri[s]
    BY <1>1, <1>2, <1>3
  <2> QED
    BY <2>1, SortedMembers DEF PriOK
<1>5. Sorted(n, f)
  BY <1>1, <1>2, <1>4, PushSorted DEF IInv, QueuesOK
<1>6. req_queue' = n /\ pri' = f
  BY DEF f
<1> HIDE DEF n
<1>7. Sorted(req_queue, pri)' /\ Sorted(res_queue, pri)'
  BY <1>4, <1>5, <1>6 DEF Sorted
<1> QED
  BY <1>7 DEF PriOK

LEMMA PriStep ==
  ASSUME IInv, PriOK, [Next]_vars
  PROVE  PriOK'
<1> USE DEF sharedVars, queueVars, countVars, threadVars, limitVars, reqVars,
            workerVars, clientVars, GotoC, GotoW
<1>1. ASSUME NEW w \in Workers, Fetch(w) PROVE PriOK'
  <2>1. /\ req_queue' = ShiftRest(req_queue) /\ req_queue.size # 0
        /\ UNCHANGED <<res_queue, pri>>
    BY <1>1 DEF Fetch
  <2>2. Sorted(ShiftRest(req_queue), pri)
    BY <2>1, ShiftSorted DEF PriOK, IInv, QueuesOK
  <2> QED
    BY <2>1, <2>2 DEF PriOK, Sorted
<1>2. ASSUME NEW w \in Workers, PushResult(w) PROVE PriOK'
  <2>1. /\ res_queue' = reqq_push(res_queue, wreq[w], pri[wreq[w]])
        /\ UNCHANGED <<req_queue, pri>>
        /\ wreq[w] \in Reqs /\ pri[wreq[w]] \in Pris
    BY <1>2 DEF PushResult, IInv, WorkersOK, TypeOK, AllReqs
  <2>2. Sorted(reqq_push(res_queue, wreq[w], pri[wreq[w]]), pri)
    BY <2>1, PushSorted DEF PriOK, IInv, QueuesOK
  <2> QED
    BY <2>1, <2>2 DEF PriOK, Sorted
<1>3. ASSUME NEW c \in Clients, ShiftResult(c) PROVE PriOK'
  <2>1. /\ res_queue' = ShiftRest(res_queue) /\ res_queue.size # 0
        /\ UNCHANGED <<req_queue, pri>>
    BY <1>3 DEF ShiftResult
  <2>2. Sorted(ShiftRest(res_queue), pri)
    BY <2>1, ShiftSorted DEF PriOK, IInv, QueuesOK
  <2> QED
    BY <2>1, <2>2 DEF PriOK, Sorted
<1>4. ASSUME NEW c \in Clients, NEW r \in Reqs, NEW p \in PriArgs, Submit(c, r, p)
      PROVE  PriOK'
  <2>1. SubmitPri(p) \in Pris
    BY SubmitPriInRange, PoolAssumption
  <2>2. /\ r \in fresh /\ pri' = [pri EXCEPT ![r] = SubmitPri(p)]
        /\ req_queue' = reqq_push(req_queue, r, SubmitPri(p)) /\ UNCHANGED res_queue
    BY <1>4 DEF Submit
  <2> QED
    BY <2>1, <2>2, PriPush
<1>5. ASSUME NEW c \in Clients, EndThreadPush(c)
      PROVE  PriOK'
  <2>1. PICK r \in fresh : /\ pri' = [pri EXCEPT ![r] = NumPri - 1]
                           /\ req_queue' = reqq_push(req_queue, r, NumPri - 1)
    BY <1>5 DEF EndThreadPush
  <2>2. UNCHANGED res_queue
    BY <1>5 DEF EndThreadPush
  <2> QED
    BY <2>1, <2>2, PriPush, PrisNat
<1>6. ASSUME NEW w \in Workers, WorkerStep(w) \/ SpuriousWake(w) \/ Timeout(w),
             ~Fetch(w), ~PushResult(w)
      PROVE  UNCHANGED <<req_queue, res_queue, pri>>
  BY <1>6 DEF WorkerStep, FetchNothing, TimedOut, Retire, Quit, Execute,
              SpuriousWake, Timeout, JumpW
<1>7. ASSUME NEW c \in Clients, ClientStep(c), ~ShiftResult(c), ~EndThreadPush(c)
      PROVE  UNCHANGED <<req_queue, res_queue, pri>>
  BY <1>7 DEF ClientStep, MsWanted, MsThreads, MsPending, MsReqs, StartThread,
              StartThreadFails, FlushTest, Block, ShiftNothing, DecReqs, Finish,
              CallbackReturns, FinishCancelled, FinishReturns, EndThreadDec,
              EndThreadsDone, JumpC
<1>8. ASSUME NEW c \in Clients, ClientCall(c),
             ~\E r \in Reqs, p \in PriArgs : Submit(c, r, p)
      PROVE  UNCHANGED <<req_queue, res_queue, pri>>
  BY <1>8 DEF ClientCall, Cancel, Poll, Flush, SetMinParallel, SetMaxParallel,
              SetMaxIdle
<1>9. CASE UNCHANGED vars
  BY <1>9, PriFrame DEF vars
<1> QED
  BY <1>1, <1>2, <1>3, <1>4, <1>5, <1>6, <1>7, <1>8, <1>9, PriFrame DEF Next

LEMMA InitPriOK == Init => PriOK
<1>1. \A p \in Pris : DOMAIN EmptyReqq.qs[p] = {}
  BY DEF EmptyReqq
<1> QED
  BY <1>1 DEF Init, PriOK, Sorted

-----------------------------------------------------------------------------
(***************************************************************************)
(* The system calls.                                                       *)
(***************************************************************************)

\* No call is made before ETP_EXECUTE, and past it the call was made unless
\* the request had been cancelled; past the test of EIO_FINISH it was made.
PerformedOK ==
  /\ executed \cap fresh = {}
  /\ executed \cap Members(req_queue) = {}
  /\ Members(res_queue) \subseteq executed \cup cancelled
  /\ \A w \in Workers :
       /\ wpc[w] = "run" => wreq[w] \notin executed
       /\ wpc[w] = "push" => wreq[w] \in executed \cup cancelled
  /\ \A c \in Clients : cur[c] # NoReq =>
       \/ cur[c] \in executed
       \/ cpc[c] \in {"dec", "finish"} /\ cur[c] \in cancelled

\* A step that moves no request and makes no call
LEMMA PerformedFrame ==
  ASSUME PerformedOK, UNCHANGED <<req_queue, res_queue, executed, cur, cpc>>,
         fresh' \subseteq fresh, cancelled \subseteq cancelled',
         \A w \in Workers : /\ wpc'[w] \in {"run", "push"} =>
                                 wpc[w] = wpc'[w] /\ wreq'[w] = wreq[w]
  PROVE  PerformedOK'
<1>1. /\ Members(req_queue)' = Members(req_queue)
      /\ Members(res_queue)' = Members(res_queue)
  BY DEF Members
<1> QED
  BY <1>1 DEF PerformedOK

\* The steps of a worker
LEMMA PerformedWorker ==
  ASSUME IInv, PerformedOK, NEW w \in Workers,
         WorkerStep(w) \/ SpuriousWake(w) \/ Timeout(w)
  PROVE  PerformedOK'
<1> USE DEF sharedVars, queueVars, countVars, threadVars, limitVars, reqVars,
            workerVars, clientVars, GotoW
<1>1. CASE Fetch(w)
  <2> DEFINE r == ShiftReq(req_queue)
  <2>1. /\ req_queue.size # 0 /\ req_queue' = ShiftRest(req_queue)
        /\ wreq' = [wreq EXCEPT ![w] = r]
        /\ wpc' = [wpc EXCEPT ![w] = IF r \in QuitReqs THEN "quit" ELSE "run"]
        /\ UNCHANGED <<res_queue, fresh, executed, cancelled, cur, cpc>>
    BY <1>1 DEF Fetch
  <2>2. /\ r \in Members(req_queue)
        /\ Members(req_queue)' = Members(req_queue) \ {r}
    BY <2>1, ShiftMembers
  <2> HIDE DEF r
  <2>3. Members(res_queue)' = Members(res_queue)
    BY <2>1 DEF Members
  <2> QED
    BY <2>1, <2>2, <2>3 DEF PerformedOK, IInv, TypeOK
<1>2. CASE Execute(w)
  <2> DEFINE r == wreq[w]
  <2>1. /\ wpc[w] = "run" /\ wpc' = [wpc EXCEPT ![w] = "push"]
        /\ executed' = IF r \in cancelled THEN executed ELSE executed \cup {r}
        /\ UNCHANGED <<req_queue, res_queue, fresh, cancelled, wreq, cur, cpc>>
    BY <1>2 DEF Execute
  <2>2. r # NoReq /\ r \in live /\ r \notin fresh
    BY <2>1, PoolAssumption DEF IInv, WorkersOK, Owners, TypeOK, AllReqs
  <2>3. /\ Members(req_queue)' = Members(req_queue) /\ r \notin Members(req_queue)
        /\ Members(res_queue)' = Members(res_queue)
        /\ \A v \in Workers : wreq[v] = r => v = w
    BY <2>1, <2>2 DEF Members, IInv, Owners
  <2> HIDE DEF r
  <2>4. \A v \in Workers : /\ wpc'[v] = "run" => wreq'[v] \notin executed'
                           /\ wpc'[v] = "push" => wreq'[v] \in executed' \cup cancelled'
    BY <2>1, <2>3 DEF PerformedOK, IInv, TypeOK, r
  <2> QED
    BY <2>1, <2>2, <2>3, <2>4 DEF PerformedOK
<1>3. CASE PushResult(w)
  <2> DEFINE r == wreq[w]
             n == reqq_push(res_queue, r, pri[r])
  <2>1. /\ wpc[w] = "push" /\ wpc' = [wpc EXCEPT ![w] = "fetch"]
        /\ wreq' = [wreq EXCEPT ![w] = NoReq]
        /\ res_queue' = n
        /\ UNCHANGED <<req_queue, fresh, executed, cancelled, cur, cpc>>
        /\ r \in Reqs /\ pri[r] \in Pris
    BY <1>3 DEF PushResult, IInv, WorkersOK, TypeOK, AllReqs
  <2>2. r \notin Members(res_queue)
    BY <2>1, PoolAssumption DEF IInv, Owners, AllReqs
  <2>3. Members(n) = Members(res_queue) \cup {r}
    BY <2>1, <2>2, PushIsReqq DEF IInv, QueuesOK
  <2>4. r \in executed \cup cancelled
    BY <2>1 DEF PerformedOK
  <2> HIDE DEF n, r
  <2>5. Members(res_queue)' = Members(n) /\ Members(req_queue)' = Members(req_queue)
    BY <2>1 DEF Members
  <2> QED
    BY <2>1, <2>3, <2>4, <2>5 DEF PerformedOK, IInv, TypeOK
<1>4. CASE ~(Fetch(w) \/ Execute(w) \/ PushResult(w))
  <2>1. UNCHANGED <<req_queue, res_queue, executed, cur, cpc, fresh, cancelled>>
    BY <1>4 DEF WorkerStep, FetchNothing, TimedOut, Retire, Quit, SpuriousWake,
                Timeout, JumpW
  <2>2. \A v \in Workers : wpc'[v] \in {"run", "push"} =>
          wpc[v] = wpc'[v] /\ wreq'[v] = wreq[v]
    BY <1>4 DEF WorkerStep, FetchNothing, TimedOut, Retire, Quit, SpuriousWake,
                Timeout, JumpW, IInv, TypeOK
  <2> QED
    BY <2>1, <2>2, PerformedFrame
<1> QED
  BY <1>1, <1>2, <1>3, <1>4

\* The steps of a client
LEMMA PerformedClient ==
  ASSUME IInv, PerformedOK, NEW c \in Clients, ClientStep(c) \/ ClientCall(c)
  PROVE  PerformedOK'
<1> USE DEF sharedVars, queueVars, countVars, threadVars, limitVars, reqVars,
            workerVars, clientVars, GotoC
<1>1. ASSUME Signal, UNCHANGED wreq, NEW v \in Workers, wpc'[v] \in {"run", "push"}
      PROVE  wpc[v] = wpc'[v] /\ wreq'[v] = wreq[v]
  BY <1>1 DEF Signal, IInv, TypeOK
<1>2. ASSUME NEW r \in fresh, NEW p \in Pris, Signal,
             req_queue' = reqq_push(req_queue, r, p), fresh' = fresh \ {r},
             UNCHANGED <<res_queue, executed, cancelled, wreq, cur>>,
             cpc[c] \notin {"dec", "finish"},
             \A d \in Clients : d # c => cpc'[d] = cpc[d]
      PROVE  PerformedOK'
  <2>1. r \in AllReqs /\ r \notin Members(req_queue) /\ r \notin executed
    BY DEF IInv, TypeOK, Owners, PerformedOK
  <2>2. /\ Members(req_queue)' = Members(req_queue) \cup {r}
        /\ Members(res_queue)' = Members(res_queue)
    BY <1>2, <2>1, PushMembers DEF Members
  <2>3. \A d \in Clients : cur'[d] # NoReq =>
          \/ cur'[d] \in executed'
          \/ cpc'[d] \in {"dec", "finish"} /\ cur'[d] \in cancelled'
    BY <1>2 DEF PerformedOK
  <2>4. \A v \in Workers : /\ wpc'[v] = "run" => wreq'[v] \notin executed'
                           /\ wpc'[v] = "push" => wreq'[v] \in executed' \cup cancelled'
    BY <1>1, <1>2 DEF PerformedOK
  <2> QED
    BY <1>2, <2>1, <2>2, <2>3, <2>4 DEF PerformedOK
<1>3. ASSUME NEW r \in Reqs, NEW p \in PriArgs, Submit(c, r, p) PROVE PerformedOK'
  <2>1. SubmitPri(p) \in Pris
    BY SubmitPriInRange, PoolAssumption
  <2>2. /\ r \in fresh /\ Signal /\ fresh' = fresh \ {r}
        /\ req_queue' = reqq_push(req_queue, r, SubmitPri(p))
        /\ UNCHANGED <<res_queue, executed, cancelled, wreq, cur>>
        /\ cpc[c] \notin {"dec", "finish"}
        /\ \A d \in Clients : d # c => cpc'[d] = cpc[d]
    BY <1>3 DEF Submit, InUserCode, IInv, TypeOK
  <2> QED
    BY <1>2, <2>1, <2>2
<1>4. CASE EndThreadPush(c)
  <2>1. PICK r \in fresh : /\ fresh' = fresh \ {r}
                           /\ req_queue' = reqq_push(req_queue, r, NumPri - 1)
    BY <1>4 DEF EndThreadPush
  <2>2. /\ Signal /\ UNCHANGED <<res_queue, executed, cancelled, wreq, cur>>
        /\ cpc[c] \notin {"dec", "finish"}
        /\ \A d \in Clients : d # c => cpc'[d] = cpc[d]
    BY <1>4 DEF EndThreadPush, IInv, TypeOK
  <2> QED
    BY <1>2, <2>1, <2>2, PrisNat
<1>5. CASE ShiftResult(c)
  <2> DEFINE r == ShiftReq(res_queue)
  <2>1. /\ res_queue.size # 0 /\ res_queue' = ShiftRest(res_queue)
        /\ cur' = [cur EXCEPT ![c] = r] /\ cpc' = [cpc EXCEPT ![c] = "dec"]
        /\ UNCHANGED <<req_queue, fresh, executed, cancelled, wpc, wreq>>
    BY <1>5 DEF ShiftResult
  <2>2. /\ r \in Members(res_queue)
        /\ Members(ShiftRest(res_queue)) = Members(res_queue) \ {r}
    BY <2>1, ShiftIsReqq DEF IInv, QueuesOK
  <2> HIDE DEF r
  <2>3. /\ Members(res_queue)' = Members(ShiftRest(res_queue))
        /\ Members(req_queue)' = Members(req_queue)
    BY <2>1 DEF Members
  <2> QED
    BY <2>1, <2>2, <2>3 DEF PerformedOK, IInv, TypeOK
<1>6. CASE /\ ~(ShiftResult(c) \/ EndThreadPush(c))
           /\ ~\E r \in Reqs, p \in PriArgs : Submit(c, r, p)
  <2>1. /\ UNCHANGED <<req_queue, res_queue, executed, fresh, wreq>>
        /\ cancelled \subseteq cancelled'
    BY <1>6 DEF ClientStep, MsWanted, MsThreads, MsPending, MsReqs, StartThread,
                StartThreadFails, FlushTest, Block, ShiftNothing, DecReqs, Finish,
                CallbackReturns, FinishCancelled, FinishReturns, EndThreadDec,
                EndThreadsDone, JumpC, ClientCall, Cancel, Poll, Flush,
                SetMinParallel, SetMaxParallel, SetMaxIdle
  <2>2. \A v \in Workers : wpc'[v] \in {"run", "push"} => wpc[v] = wpc'[v]
    BY <1>6 DEF ClientStep, MsWanted, MsThreads, MsPending, MsReqs, StartThread,
                StartThreadFails, FlushTest, Block, ShiftNothing, DecReqs, Finish,
                CallbackReturns, FinishCancelled, FinishReturns, EndThreadDec,
                EndThreadsDone, JumpC, ClientCall, Cancel, Poll, Flush,
                SetMinParallel, SetMaxParallel, SetMaxIdle, IInv, TypeOK, GotoW
  <2>3. \A d \in Clients : d # c => cpc'[d] = cpc[d] /\ cur'[d] = cur[d]
    BY <1>6 DEF ClientStep, MsWanted, MsThreads, MsPending, MsReqs, StartThread,
                StartThreadFails, FlushTest, Block, ShiftNothing, DecReqs, Finish,
                CallbackReturns, FinishCancelled, FinishReturns, EndThreadDec,
                EndThreadsDone, JumpC, ClientCall, Cancel, Poll, Flush, EnterPoll,
                SetMinParallel, SetMaxParallel, SetMaxIdle, IInv, TypeOK
  <2>4. \/ cur'[c] = NoReq
        \/ cur'[c] = cur[c] /\ cpc[c] \notin {"dec", "finish"}
        \/ cur'[c] = cur[c] /\ cpc'[c] \in {"dec", "finish"}
        \/ cur'[c] = cur[c] /\ cur[c] \notin cancelled
    BY <1>6 DEF ClientStep, MsWanted, MsThreads, MsPending, MsReqs, StartThread,
                StartThreadFails, FlushTest, Block, ShiftNothing, DecReqs, Finish,
                CallbackReturns, FinishCancelled, FinishReturns, EndThreadDec,
                EndThreadsDone, JumpC, ClientCall, Cancel, Poll, Flush, EnterPoll,
                SetMinParallel, SetMaxParallel, SetMaxIdle, IInv, TypeOK, InUserCode
  <2>5. /\ Members(req_queue)' = Members(req_queue)
        /\ Members(res_queue)' = Members(res_queue)
    BY <2>1 DEF Members
  <2>6. \A d \in Clients : cur'[d] # NoReq =>
          \/ cur'[d] \in executed'
          \/ cpc'[d] \in {"dec", "finish"} /\ cur'[d] \in cancelled'
    BY <2>1, <2>3, <2>4 DEF PerformedOK
  <2> QED
    BY <2>1, <2>2, <2>5, <2>6 DEF PerformedOK
<1> QED
  BY <1>3, <1>4, <1>5, <1>6

LEMMA PerformedStep ==
  ASSUME IInv, PerformedOK, [Next]_vars
  PROVE  PerformedOK'
<1>1. CASE UNCHANGED vars
  BY <1>1, PerformedFrame DEF vars, sharedVars, queueVars, reqVars, workerVars, clientVars
<1> QED
  BY <1>1, PerformedWorker, PerformedClient DEF Next

LEMMA InitPerformed == Init => PerformedOK
<1>1. Init => Members(req_queue) = {} /\ Members(res_queue) = {}
  BY EmptyIsReqq DEF Init
<1> QED
  BY <1>1 DEF Init, PerformedOK

LEMMA InvCallbackHasResult == IInv /\ PerformedOK => CallbackHasResult
BY DEF IInv, ClientsOK, InPoll, PerformedOK, CallbackHasResult

LEMMA PoolPerformed == Spec => [](PriOK /\ PerformedOK)
<1>1. IInv /\ PriOK /\ PerformedOK /\ [Next]_vars => (PriOK /\ PerformedOK)'
  BY PriStep, PerformedStep
<1> QED
  BY <1>1, InitPriOK, InitPerformed, PoolInvariant, PTL DEF Spec

\* A callback runs only for a request whose system call was made, however
\* late eio_cancel comes: etp_proc and EIO_FINISH test the flag separately.
THEOREM PoolCallbackHasResult == Spec => []CallbackHasResult
BY InvCallbackHasResult, PoolPerformed, PoolInvariant, PTL

-----------------------------------------------------------------------------
(***************************************************************************)
(* The refinement mapping.                                                 *)
(***************************************************************************)

\* The place of a request decides its stage.
StagesOK ==
  \A r \in Reqs :
    /\ r \in fresh => Stage(r) = "unused"
    /\ r \in Members(req_queue) => Stage(r) = "queued"
    /\ \A w \in Workers : wreq[w] = r => Stage(r) = "running"
    /\ r \in Members(res_queue) => Stage(r) = "done"
    /\ \A c \in Clients : cur[c] = r =>
         Stage(r) = IF cpc[c] = "dec" THEN "taken"
                    ELSE IF cpc[c] = "finish" THEN "released" ELSE "calling"
    /\ r \notin fresh \cup live => Stage(r) = "gone"

LEMMA InvStages == IInv => StagesOK
<1> SUFFICES ASSUME IInv, NEW r \in Reqs
    PROVE /\ r \in fresh => Stage(r) = "unused"
          /\ r \in Members(req_queue) => Stage(r) = "queued"
          /\ \A w \in Workers : wreq[w] = r => Stage(r) = "running"
          /\ r \in Members(res_queue) => Stage(r) = "done"
          /\ \A c \in Clients : cur[c] = r =>
               Stage(r) = IF cpc[c] = "dec" THEN "taken"
                          ELSE IF cpc[c] = "finish" THEN "released" ELSE "calling"
          /\ r \notin fresh \cup live => Stage(r) = "gone"
  BY DEF StagesOK
<1>1. /\ r # NoReq /\ r \in AllReqs
      /\ r \in live => r \notin fresh
      /\ r \in Members(req_queue) => r \in live /\ r \notin Members(res_queue)
      /\ r \in Members(res_queue) => r \in live
      /\ \A w \in Workers : wreq[w] = r =>
           r \in live /\ r \notin Members(req_queue) /\ r \notin Members(res_queue)
      /\ \A c \in Clients : cur[c] = r =>
           /\ r \in live /\ r \notin Members(req_queue) /\ r \notin Members(res_queue)
           /\ \A w \in Workers : wreq[w] # r
           /\ \A d \in Clients : cur[d] = r => d = c
  BY PoolAssumption DEF AllReqs, IInv, TypeOK, Owners
<1>2. ASSUME NEW c \in Clients, cur[c] = r
      PROVE  Stage(r) = IF cpc[c] = "dec" THEN "taken"
                        ELSE IF cpc[c] = "finish" THEN "released" ELSE "calling"
  <2>1. (CHOOSE d \in Clients : cur[d] = r) = c
    BY <1>1, <1>2
  <2>2. Stage(r) = StageInPoll(c)
    BY <1>1, <1>2, <2>1 DEF Stage
  <2> QED
    BY <2>2 DEF StageInPoll
<1>3. r \in fresh => Stage(r) = "unused"
  BY <1>1 DEF Stage
<1>4. r \in Members(req_queue) => Stage(r) = "queued"
  BY <1>1 DEF Stage
<1>5. \A w \in Workers : wreq[w] = r => Stage(r) = "running"
  BY <1>1 DEF Stage
<1>6. r \in Members(res_queue) => Stage(r) = "done"
  BY <1>1 DEF Stage
<1>7. r \notin fresh \cup live => Stage(r) = "gone"
  BY <1>1 DEF Stage
<1> QED
  BY <1>2, <1>3, <1>4, <1>5, <1>6, <1>7

LEMMA NextStages == IInv' => StagesOK'
BY InvStages, PTL

\* Every request is in one of the places StagesOK lists.
LEMMA SomePlace ==
  ASSUME IInv, NEW r \in Reqs
  PROVE  \/ r \in fresh \/ r \in Members(req_queue) \/ r \in Members(res_queue)
         \/ \E w \in Workers : wreq[w] = r
         \/ \E c \in Clients : cur[c] = r
         \/ r \notin fresh \cup live
BY DEF IInv, NoneLost

\* The count and the descriptor, seen from the stages
StageCounts ==
  /\ nreqs = Cardinality({r \in Reqs : Stage(r) \in {"queued", "running", "done", "taken"}})
  /\ pipe > 0 <=> \E r \in Reqs : Stage(r) = "done"

LEMMA InvStageCounts == IInv /\ ReqCount /\ PipeMirrorsResults => StageCounts
<1> SUFFICES ASSUME IInv, ReqCount, PipeMirrorsResults PROVE StageCounts
  OBVIOUS
<1>1. StagesOK
  BY InvStages
<1>2. ASSUME NEW r \in Reqs
      PROVE  Stage(r) \in {"queued", "running", "done", "taken"} <=> r \in Counted
  <2>1. /\ r \in fresh \/ r \notin fresh \cup live => r \notin live
        /\ r \in Members(req_queue) \cup Members(res_queue) =>
             r \in live /\ \A c \in Clients : cur[c] # r
        /\ \A w \in Workers : wreq[w] = r => r \in live /\ \A c \in Clients : cur[c] # r
        /\ \A c \in Clients : cur[c] = r =>
             r \in live /\ \A d \in Clients : cur[d] = r => d = c
    BY PoolAssumption DEF AllReqs, IInv, TypeOK, Owners
  <2> QED
    BY <1>1, <2>1, SomePlace DEF StagesOK, Counted
<1>3. {r \in Reqs : Stage(r) \in {"queued", "running", "done", "taken"}} = Counted
  BY <1>2 DEF Counted
<1>4. ASSUME NEW r \in Reqs
      PROVE  Stage(r) = "done" <=> r \in Members(res_queue)
  BY <1>1, SomePlace DEF StagesOK
<1>5. pipe > 0 <=> Members(res_queue) # {}
  <2>1. /\ res_queue.size = Cardinality(Members(res_queue))
        /\ IsFiniteSet(Members(res_queue))
    BY DEF IInv, QueuesOK, IsReqq
  <2>2. Cardinality(Members(res_queue)) = 0 <=> Members(res_queue) = {}
    BY <2>1, FS_EmptySet
  <2> QED
    BY <2>1, <2>2 DEF PipeMirrorsResults
<1>6. Members(res_queue) \subseteq Reqs
  BY MembersTyped DEF IInv, QueuesOK
<1> QED
  BY <1>3, <1>4, <1>5, <1>6 DEF StageCounts, ReqCount

\* What a step has to leave alone for a request to keep its stage
SamePlace(s) ==
  /\ s \in fresh' <=> s \in fresh
  /\ s \in live' <=> s \in live
  /\ s \in Members(req_queue)' <=> s \in Members(req_queue)
  /\ s \in Members(res_queue)' <=> s \in Members(res_queue)
  /\ \A w \in Workers : wreq'[w] = s <=> wreq[w] = s
  /\ \A c \in Clients :
       /\ cur'[c] = s <=> cur[c] = s
       /\ cur[c] = s => /\ cpc'[c] = "dec" <=> cpc[c] = "dec"
                        /\ cpc'[c] = "finish" <=> cpc[c] = "finish"

LEMMA SameStage ==
  ASSUME IInv, IInv', NEW s \in Reqs, SamePlace(s)
  PROVE  Stage(s)' = Stage(s)
<1>1. StagesOK /\ StagesOK'
  BY InvStages, NextStages
<1>2. CASE s \in fresh \/ s \notin fresh \cup live
  BY <1>1, <1>2 DEF StagesOK, SamePlace
<1>3. CASE s \in Members(req_queue) \/ s \in Members(res_queue)
  BY <1>1, <1>3 DEF StagesOK, SamePlace
<1>4. CASE \E w \in Workers : wreq[w] = s
  BY <1>1, <1>4 DEF StagesOK, SamePlace
<1>5. CASE \E c \in Clients : cur[c] = s
  BY <1>1, <1>5 DEF StagesOK, SamePlace
<1> QED
  BY <1>2, <1>3, <1>4, <1>5, SomePlace

\* What the steps below use of the invariants, before and after the step
Mapped == IInv /\ PriOK /\ PerformedOK /\ StageCounts

\* A step that moves one request to its next stage
LEMMA MapMove ==
  ASSUME Mapped, Mapped', NEW r \in Reqs, NEW stage, Stage(r)' = stage,
         \A s \in Reqs \ {r} : SamePlace(s)
  PROVE  Service!MoveTo(r, stage)
<1>1. \A s \in Reqs \ {r} : Stage(s)' = Stage(s)
  BY SameStage DEF Mapped
<1>2. [s \in Reqs |-> Stage(s)]' = [[s \in Reqs |-> Stage(s)] EXCEPT ![r] = stage]
  BY <1>1
<1>3. nreqs' = Cardinality({s \in Reqs :
                 [t \in Reqs |-> Stage(t)]'[s] \in {"queued", "running", "done", "taken"}})
  <2>1. {s \in Reqs : [t \in Reqs |-> Stage(t)]'[s] \in {"queued", "running", "done", "taken"}}
        = {s \in Reqs : Stage(s) \in {"queued", "running", "done", "taken"}}'
    OBVIOUS
  <2> QED
    BY <2>1 DEF Mapped, StageCounts
<1>4. (pipe > 0)' <=> \E s \in Reqs : [t \in Reqs |-> Stage(t)]'[s] = "done"
  <2>1. (pipe > 0)' <=> \E s \in Reqs : Stage(s)' = "done"
    BY DEF Mapped, StageCounts
  <2> QED
    BY <2>1
<1>5. ASSUME NEW S PROVE Service!Cardinality(S) = Cardinality(S)
  BY DEF Service!Cardinality, Cardinality
<1>6. nreqs' = Service!Cardinality({s \in Reqs :
                 [t \in Reqs |-> Stage(t)]'[s] \in {"queued", "running", "done", "taken"}})
  BY <1>3, <1>5
<1>7. (pipe > 0)' = (\E s \in Reqs : [t \in Reqs |-> Stage(t)]'[s] = "done")
  <2>1. pipe' \in Int /\ (pipe > 0)' = (pipe' > 0)
    BY DEF Mapped, IInv, TypeOK
  <2>2. CASE pipe' > 0
    <3>1. (pipe' > 0) = TRUE
      BY <2>1, <2>2
    <3>2. (\E s \in Reqs : [t \in Reqs |-> Stage(t)]'[s] = "done") = TRUE
      BY <1>4, <2>2
    <3> QED
      BY <2>1, <3>1, <3>2
  <2>3. CASE ~(pipe' > 0)
    <3>1. (pipe' > 0) = FALSE
      BY <2>1, <2>3
    <3>2. (\E s \in Reqs : [t \in Reqs |-> Stage(t)]'[s] = "done") = FALSE
      BY <1>4, <2>3
    <3> QED
      BY <2>1, <3>1, <3>2
  <2> QED
    BY <2>2, <2>3
<1> QED
  BY <1>2, <1>6, <1>7, Zenon DEF Service!MoveTo

\* A step that moves none
LEMMA MapStay ==
  ASSUME Mapped, Mapped', \A s \in Reqs : SamePlace(s)
  PROVE  UNCHANGED <<[s \in Reqs |-> Stage(s)], nreqs, pipe > 0>>
<1>1. \A s \in Reqs : Stage(s)' = Stage(s)
  BY SameStage DEF Mapped
<1>2. nreqs' = nreqs
  <2>1. {s \in Reqs : Stage(s) \in {"queued", "running", "done", "taken"}}'
        = {s \in Reqs : Stage(s) \in {"queued", "running", "done", "taken"}}
    BY <1>1
  <2> QED
    BY <2>1 DEF Mapped, StageCounts
<1>3. (pipe > 0)' = (pipe > 0)
  <2>1. (pipe > 0)' <=> pipe > 0
    BY <1>1 DEF Mapped, StageCounts
  <2>2. pipe \in Int /\ pipe' \in Int
    BY DEF Mapped, IInv, TypeOK
  <2> QED
    BY <2>1, <2>2
<1>4. [s \in Reqs |-> Stage(s)]' = [s \in Reqs |-> Stage(s)]
  BY <1>1
<1> QED
  BY <1>2, <1>3, <1>4

\* The stages of the queued and the finished requests
LEMMA StageQueues ==
  ASSUME Mapped, NEW r \in Reqs
  PROVE  /\ Stage(r) = "queued" <=> r \in Members(req_queue)
         /\ Stage(r) = "done" <=> r \in Members(res_queue)
BY InvStages, SomePlace DEF Mapped, StagesOK

-----------------------------------------------------------------------------
(***************************************************************************)
(* The steps of the pool that are steps of the service.                    *)
(***************************************************************************)
LEMMA MapSubmit ==
  ASSUME Mapped, Mapped', NEW c \in Clients, NEW r \in Reqs, NEW p \in PriArgs,
         Submit(c, r, p)
  PROVE  Service!Submit(r)
<1> USE DEF queueVars, threadVars, limitVars, reqVars, GotoC
<1>1. /\ r \in fresh /\ fresh' = fresh \ {r} /\ live' = live \cup {r}
      /\ pri' = [pri EXCEPT ![r] = SubmitPri(p)] /\ SubmitPri(p) \in Pris
      /\ req_queue' = reqq_push(req_queue, r, SubmitPri(p))
      /\ UNCHANGED <<res_queue, cancelled, executed, wreq, cur>>
      /\ cpc[c] \in {"app", "callback"} /\ cpc' = [cpc EXCEPT ![c] = "ms_wanted"]
  BY SubmitPriInRange, PoolAssumption DEF Submit, InUserCode
<1>2. r \in AllReqs /\ r \notin Members(req_queue)
  BY <1>1 DEF Mapped, IInv, TypeOK, Owners
<1>3. Members(req_queue)' = Members(req_queue) \cup {r}
  BY <1>1, <1>2, PushMembers DEF Mapped
<1>4. Members(res_queue)' = Members(res_queue)
  BY <1>1 DEF Members
<1>5. \A s \in Reqs \ {r} : SamePlace(s)
  BY <1>1, <1>3, <1>4 DEF SamePlace, Mapped, IInv, TypeOK
<1>6. Stage(r) = "unused"
  BY <1>1, InvStages DEF Mapped, StagesOK
<1>7. Stage(r)' = "queued"
  BY <1>3, NextStages DEF Mapped, StagesOK
<1>8. Service!MoveTo(r, "queued")
  BY <1>5, <1>7, MapMove
<1>9. [s \in Reqs |-> pri[s]]' = [[s \in Reqs |-> pri[s]] EXCEPT ![r] = SubmitPri(p)]
  BY <1>1, <1>2 DEF Mapped, IInv, TypeOK, AllReqs
<1> QED
  BY <1>1, <1>6, <1>8, <1>9 DEF Service!Submit, Service!At

\* reqq_shift gives a worker one of the most urgent requests.
LEMMA MapFetch ==
  ASSUME Mapped, Mapped', NEW w \in Workers, Fetch(w)
  PROVE  \/ \E r \in Reqs : Service!Start(r)
         \/ UNCHANGED Service!vars
<1> USE DEF queueVars, countVars, threadVars, limitVars, reqVars, clientVars, GotoW
<1>0. PICK r : r = ShiftReq(req_queue)
  OBVIOUS
<1>1. /\ req_queue.size # 0 /\ req_queue' = ShiftRest(req_queue)
      /\ wreq[w] = NoReq /\ wreq' = [wreq EXCEPT ![w] = r]
      /\ UNCHANGED <<res_queue, fresh, live, pri, cancelled, executed, cur, cpc>>
  BY <1>0 DEF Mapped, IInv, WorkersOK, Fetch
<1>2. /\ r \in Members(req_queue) /\ r \in AllReqs
      /\ Members(req_queue)' = Members(req_queue) \ {r}
  BY <1>0, <1>1, ShiftMembers DEF Mapped
<1>3. \A s \in Members(req_queue) : pri[s] <= pri[r]
  BY <1>0, <1>1, ShiftSorted DEF Mapped, IInv, QueuesOK, PriOK
<1>4. Members(res_queue)' = Members(res_queue)
  BY <1>1 DEF Members
<1>5. \A s \in Reqs \ {r} : SamePlace(s)
  BY <1>1, <1>2, <1>4, PoolAssumption DEF SamePlace, Mapped, IInv, TypeOK
<1>6. CASE r \in Reqs
  <2>1. Stage(r) = "queued"
    BY <1>2, <1>6, StageQueues
  <2>2. Stage(r)' = "running"
    <3>1. wreq'[w] = r
      BY <1>1 DEF Mapped, IInv, TypeOK
    <3> QED
      BY <1>6, <3>1, NextStages DEF Mapped, StagesOK
  <2>3. Service!MoveTo(r, "running")
    BY <1>5, <1>6, <2>2, MapMove
  <2>4. \A s \in Reqs : Stage(s) = "queued" => pri[s] <= pri[r]
    BY <1>3, StageQueues
  <2>5. Service!Foremost(r, "queued")
    BY <1>6, <2>1, <2>4 DEF Service!Foremost, Service!At
  <2> QED
    BY <1>1, <1>6, <2>3, <2>5 DEF Service!Start
<1>7. CASE r \notin Reqs
  <2>1. UNCHANGED <<[s \in Reqs |-> Stage(s)], nreqs, pipe > 0>>
    BY <1>5, <1>7, MapStay
  <2> QED
    BY <1>1, <2>1 DEF Service!vars
<1> QED
  BY <1>6, <1>7

LEMMA MapExecute ==
  ASSUME Mapped, Mapped', NEW w \in Workers, Execute(w)
  PROVE  \/ \E r \in Reqs : Service!Perform(r)
         \/ UNCHANGED Service!vars
<1> USE DEF queueVars, countVars, threadVars, limitVars, reqVars, clientVars, GotoW
<1> DEFINE r == wreq[w]
<1>1. /\ wpc[w] = "run" /\ r \in Reqs
      /\ executed' = IF r \in cancelled THEN executed ELSE executed \cup {r}
      /\ UNCHANGED <<req_queue, res_queue, fresh, live, pri, cancelled, wreq, cur, cpc>>
  BY DEF Mapped, IInv, WorkersOK, Execute
<1>2. Stage(r) = "running" /\ r \notin executed
  BY <1>1, InvStages DEF Mapped, StagesOK, PerformedOK
<1> HIDE DEF r
<1>3. \A s \in Reqs : SamePlace(s)
  BY <1>1 DEF SamePlace, Members
<1>4. UNCHANGED <<[s \in Reqs |-> Stage(s)], nreqs, pipe > 0>>
  BY <1>3, MapStay
<1> QED
  BY <1>1, <1>2, <1>4 DEF Service!Perform, Service!At, Service!vars

LEMMA MapPushResult ==
  ASSUME Mapped, Mapped', NEW w \in Workers, PushResult(w)
  PROVE  \E r \in Reqs : Service!Complete(r)
<1> USE DEF queueVars, countVars, threadVars, limitVars, reqVars, clientVars, GotoW
<1>0. PICK r : r = wreq[w]
  OBVIOUS
<1> DEFINE n == reqq_push(res_queue, r, pri[r])
<1>1. /\ wpc[w] = "push" /\ r \in Reqs /\ pri[r] \in Pris
      /\ res_queue' = n /\ wreq' = [wreq EXCEPT ![w] = NoReq]
      /\ UNCHANGED <<req_queue, fresh, live, pri, cancelled, executed, cur, cpc>>
  BY <1>0 DEF Mapped, IInv, TypeOK, WorkersOK, AllReqs, PushResult
<1>2. Stage(r) = "running" /\ r \in executed \cup cancelled
  BY <1>0, <1>1, InvStages DEF Mapped, StagesOK, PerformedOK
<1>3. r \notin Members(res_queue)
  BY <1>0, <1>1, PoolAssumption DEF Mapped, IInv, Owners
<1>4. Members(n) = Members(res_queue) \cup {r}
  BY <1>1, <1>3, PushIsReqq DEF Mapped, IInv, QueuesOK
<1> HIDE DEF n
<1>5. /\ Members(res_queue)' = Members(res_queue) \cup {r}
      /\ Members(req_queue)' = Members(req_queue)
  BY <1>1, <1>4 DEF Members
<1>6. \A s \in Reqs \ {r} : SamePlace(s)
  BY <1>0, <1>1, <1>5, PoolAssumption DEF SamePlace, Mapped, IInv, TypeOK
<1>7. Stage(r)' = "done"
  BY <1>1, <1>5, NextStages DEF Mapped, StagesOK
<1>8. Service!MoveTo(r, "done")
  BY <1>1, <1>6, <1>7, MapMove
<1> QED
  BY <1>1, <1>2, <1>8 DEF Service!Complete, Service!At

\* reqq_shift gives etp_poll one of the most urgent results.
LEMMA MapShiftResult ==
  ASSUME Mapped, Mapped', NEW c \in Clients, ShiftResult(c)
  PROVE  \E r \in Reqs : Service!Take(r)
<1> USE DEF queueVars, countVars, threadVars, limitVars, reqVars, workerVars, GotoC
<1>0. PICK r : r = ShiftReq(res_queue)
  OBVIOUS
<1>1. /\ res_queue.size # 0 /\ res_queue' = ShiftRest(res_queue)
      /\ cur[c] = NoReq /\ cur' = [cur EXCEPT ![c] = r]
      /\ cpc' = [cpc EXCEPT ![c] = "dec"]
      /\ UNCHANGED <<req_queue, fresh, live, pri, cancelled, executed, wreq>>
  BY <1>0 DEF Mapped, IInv, TypeOK, ClientsOK, InPoll, ShiftResult
<1>2. /\ r \in Members(res_queue) /\ r \in Reqs
      /\ Members(ShiftRest(res_queue)) = Members(res_queue) \ {r}
  BY <1>0, <1>1, ShiftIsReqq DEF Mapped, IInv, QueuesOK
<1>3. \A s \in Members(res_queue) : pri[s] <= pri[r]
  BY <1>0, <1>1, ShiftSorted DEF Mapped, IInv, QueuesOK, PriOK
<1>4. /\ Members(res_queue)' = Members(res_queue) \ {r}
      /\ Members(req_queue)' = Members(req_queue)
  <2>1. /\ Members(res_queue)' = Members(ShiftRest(res_queue))
        /\ Members(req_queue)' = Members(req_queue)
    BY <1>1 DEF Members
  <2> QED
    BY <1>2, <2>1
<1>5. \A s \in Reqs \ {r} : SamePlace(s)
  BY <1>1, <1>2, <1>4, PoolAssumption DEF SamePlace, Mapped, IInv, TypeOK
<1>6. Stage(r)' = "taken"
  <2>1. cur'[c] = r /\ cpc'[c] = "dec"
    BY <1>1 DEF Mapped, IInv, TypeOK
  <2> QED
    BY <1>2, <2>1, NextStages DEF Mapped, StagesOK
<1>7. Service!MoveTo(r, "taken")
  BY <1>2, <1>5, <1>6, MapMove
<1>8. Service!Foremost(r, "done")
  BY <1>2, <1>3, StageQueues DEF Service!Foremost, Service!At
<1> QED
  BY <1>1, <1>2, <1>7, <1>8 DEF Service!Take

\* The request etp_poll holds goes from stage to stage.
LEMMA MapInPoll ==
  ASSUME Mapped, Mapped', NEW c \in Clients, NEW r \in Reqs, cur[c] = r,
         UNCHANGED <<req_queue, res_queue, fresh, wreq>>,
         \/ UNCHANGED <<live, cur>>
         \/ live' = live \ {r} /\ cur' = [cur EXCEPT ![c] = NoReq],
         \A d \in Clients : d # c => cpc'[d] = cpc[d],
         NEW stage, Stage(r)' = stage
  PROVE  Service!MoveTo(r, stage)
<1>1. /\ Members(req_queue)' = Members(req_queue)
      /\ Members(res_queue)' = Members(res_queue)
  BY DEF Members
<1>2. \A s \in Reqs \ {r} : SamePlace(s)
  BY <1>1, PoolAssumption DEF SamePlace, Mapped, IInv, TypeOK
<1> QED
  BY <1>2, MapMove

LEMMA MapRelease ==
  ASSUME Mapped, Mapped', NEW c \in Clients, DecReqs(c)
  PROVE  \E r \in Reqs : Service!Release(r)
<1> USE DEF queueVars, countVars, threadVars, limitVars, reqVars, workerVars, GotoC
<1>0. PICK r : r = cur[c]
  OBVIOUS
<1>1. /\ cpc[c] = "dec" /\ cpc'[c] = "finish" /\ r \in Reqs
      /\ \A d \in Clients : d # c => cpc'[d] = cpc[d]
      /\ UNCHANGED <<req_queue, res_queue, fresh, live, pri, cancelled, executed,
                     wreq, cur>>
  BY <1>0 DEF Mapped, IInv, TypeOK, ClientsOK, InPoll, DecReqs
<1>2. Stage(r) = "taken" /\ Stage(r)' = "released"
  BY <1>0, <1>1, InvStages, NextStages DEF Mapped, StagesOK
<1>3. Service!MoveTo(r, "released")
  BY <1>0, <1>1, <1>2, MapInPoll
<1> QED
  BY <1>1, <1>2, <1>3 DEF Service!Release, Service!At

LEMMA MapCall ==
  ASSUME Mapped, Mapped', NEW c \in Clients, Finish(c)
  PROVE  \E r \in Reqs : Service!Call(r)
<1> USE DEF sharedVars, queueVars, reqVars, workerVars, GotoC
<1>0. PICK r : r = cur[c]
  OBVIOUS
<1>1. /\ cpc[c] = "finish" /\ cpc'[c] = "callback" /\ r \in Reqs /\ r \notin cancelled
      /\ \A d \in Clients : d # c => cpc'[d] = cpc[d]
      /\ UNCHANGED <<req_queue, res_queue, fresh, live, pri, cancelled, executed,
                     wreq, cur>>
  BY <1>0 DEF Mapped, IInv, TypeOK, ClientsOK, InPoll, Finish, JumpC
<1>2. Stage(r) = "released" /\ Stage(r)' = "calling"
  BY <1>0, <1>1, InvStages, NextStages DEF Mapped, StagesOK
<1>3. r \in executed
  BY <1>0, <1>1, PoolAssumption DEF Mapped, PerformedOK
<1>4. Service!MoveTo(r, "calling")
  BY <1>0, <1>1, <1>2, MapInPoll
<1> QED
  BY <1>1, <1>2, <1>3, <1>4 DEF Service!Call, Service!At

LEMMA MapDestroy ==
  ASSUME Mapped, Mapped', NEW c \in Clients, NEW res, FinishReturns(c, res),
         \/ cpc[c] = "callback"
         \/ cpc[c] = "finish" /\ cur[c] \in cancelled
  PROVE  \E r \in Reqs : Service!Destroy(r)
<1> USE DEF queueVars, countVars, threadVars, limitVars, reqVars, workerVars, GotoC
<1>0. PICK r : r = cur[c]
  OBVIOUS
<1>1. /\ r \in Reqs /\ live' = live \ {r} /\ cur' = [cur EXCEPT ![c] = NoReq]
      /\ \A d \in Clients : d # c => cpc'[d] = cpc[d]
      /\ UNCHANGED <<req_queue, res_queue, fresh, pri, cancelled, executed, wreq>>
  BY <1>0 DEF Mapped, IInv, TypeOK, ClientsOK, InPoll, FinishReturns
<1>2. r \in live /\ r \notin fresh
  BY <1>0, <1>1, PoolAssumption DEF Mapped, IInv, Owners, TypeOK
<1>3. /\ Stage(r) = IF cpc[c] = "callback" THEN "calling" ELSE "released"
      /\ Stage(r)' = "gone"
  BY <1>0, <1>1, <1>2, InvStages, NextStages DEF Mapped, StagesOK
<1>4. Service!MoveTo(r, "gone")
  BY <1>0, <1>1, <1>3, MapInPoll
<1> QED
  BY <1>0, <1>1, <1>3, <1>4 DEF Service!Destroy, Service!At

LEMMA MapCancel ==
  ASSUME Mapped, Mapped', NEW c \in Clients, NEW r \in Reqs, Cancel(c, r)
  PROVE  Service!Cancel(r)
<1> USE DEF queueVars, reqVars, workerVars, clientVars
<1>1. /\ r \in live \cap Reqs /\ r \notin cancelled /\ cancelled' = cancelled \cup {r}
      /\ UNCHANGED <<req_queue, res_queue, fresh, live, pri, executed, wreq, cur, cpc>>
  BY DEF Cancel
<1>2. Stage(r) \notin {"unused", "gone"}
  BY <1>1, InvStages DEF Mapped, StagesOK, IInv, NoneLost
<1>3. \A s \in Reqs : SamePlace(s)
  BY <1>1 DEF SamePlace, Members
<1>4. UNCHANGED <<[s \in Reqs |-> Stage(s)], nreqs, pipe > 0>>
  BY <1>3, MapStay
<1> QED
  BY <1>1, <1>2, <1>4 DEF Service!Cancel, Service!At

\* A type -1 request concerns no request of the application.
LEMMA MapEndThread ==
  ASSUME Mapped, Mapped', NEW c \in Clients, EndThreadPush(c)
  PROVE  UNCHANGED Service!vars
<1> USE DEF queueVars, countVars, threadVars, limitVars, reqVars, GotoC
<1>1. PICK q \in QuitReqs :
        /\ q \in fresh /\ fresh' = fresh \ {q} /\ live' = live \cup {q}
        /\ pri' = [pri EXCEPT ![q] = NumPri - 1]
        /\ req_queue' = reqq_push(req_queue, q, NumPri - 1)
  BY DEF EndThreadPush
<1>2. /\ UNCHANGED <<res_queue, cancelled, executed, wreq, cur>>
      /\ cpc[c] = "end_push" /\ cpc' = [cpc EXCEPT ![c] = "end_dec"]
  BY DEF EndThreadPush
<1>3. q \in AllReqs /\ q \notin Members(req_queue) /\ q \notin Reqs
  BY <1>1, PoolAssumption DEF Mapped, IInv, TypeOK, Owners, AllReqs
<1>4. /\ Members(req_queue)' = Members(req_queue) \cup {q}
      /\ Members(res_queue)' = Members(res_queue)
  <2>1. Members(req_queue)' = Members(req_queue) \cup {q}
    BY <1>1, <1>3, PushMembers, PrisNat DEF Mapped
  <2>2. Members(res_queue)' = Members(res_queue)
    BY <1>2 DEF Members
  <2> QED
    BY <2>1, <2>2
<1>5. \A s \in Reqs : SamePlace(s)
  BY <1>1, <1>2, <1>3, <1>4 DEF SamePlace, Mapped, IInv, TypeOK
<1>6. UNCHANGED <<[s \in Reqs |-> Stage(s)], nreqs, pipe > 0>>
  BY <1>5, MapStay
<1>7. [s \in Reqs |-> pri[s]]' = [s \in Reqs |-> pri[s]]
  BY <1>1, <1>3 DEF Mapped, IInv, TypeOK
<1> QED
  BY <1>2, <1>6, <1>7 DEF Service!vars

\* The steps that move no request, between or inside the calls
LEMMA MapQuiet ==
  ASSUME Mapped, Mapped',
         UNCHANGED <<req_queue, res_queue, fresh, live, pri, cancelled, executed, cur>>,
         \A w \in Workers : wreq'[w] = wreq[w] \/ {wreq'[w], wreq[w]} \cap Reqs = {},
         \A c \in Clients : cur[c] # NoReq =>
           {cpc'[c], cpc[c]} \cap {"dec", "finish"} = {} \/ cpc'[c] = cpc[c]
  PROVE  UNCHANGED Service!vars
<1>1. \A s \in Reqs : SamePlace(s)
  <2>1. /\ Members(req_queue)' = Members(req_queue)
        /\ Members(res_queue)' = Members(res_queue)
    BY DEF Members
  <2> QED
    BY <2>1, PoolAssumption DEF SamePlace
<1>2. UNCHANGED <<[s \in Reqs |-> Stage(s)], nreqs, pipe > 0>>
  BY <1>1, MapStay
<1> QED
  BY <1>2 DEF Service!vars

LEMMA MapStep ==
  ASSUME Mapped, Mapped', [Next]_vars
  PROVE  [Service!Next]_(Service!vars)
<1> USE DEF sharedVars, queueVars, countVars, threadVars, limitVars, reqVars,
            workerVars, clientVars, GotoC, GotoW
<1>1. ASSUME NEW w \in Workers, WorkerStep(w) \/ SpuriousWake(w) \/ Timeout(w)
      PROVE  [Service!Next]_(Service!vars)
  <2>1. CASE Fetch(w)
    BY <2>1, MapFetch DEF Service!Next
  <2>2. CASE Execute(w)
    BY <2>2, MapExecute DEF Service!Next
  <2>3. CASE PushResult(w)
    BY <2>3, MapPushResult DEF Service!Next
  <2>4. CASE ~(Fetch(w) \/ Execute(w) \/ PushResult(w))
    <3>1. UNCHANGED <<req_queue, res_queue, fresh, live, pri, cancelled, executed,
                      cur, cpc>>
      BY <1>1, <2>4 DEF WorkerStep, FetchNothing, TimedOut, Retire, Quit,
                        SpuriousWake, Timeout, JumpW
    <3>2. \A v \in Workers : wreq'[v] = wreq[v] \/ {wreq'[v], wreq[v]} \cap Reqs = {}
      BY <1>1, <2>4, PoolAssumption
         DEF WorkerStep, FetchNothing, TimedOut, Retire, Quit, SpuriousWake, Timeout,
             JumpW, Mapped, IInv, TypeOK, WorkersOK, AllReqs
    <3> QED
      BY <3>1, <3>2, MapQuiet
  <2> QED
    BY <2>1, <2>2, <2>3, <2>4
<1>2. ASSUME NEW c \in Clients, ClientStep(c) \/ ClientCall(c)
      PROVE  [Service!Next]_(Service!vars)
  <2>1. CASE \E r \in Reqs, p \in PriArgs : Submit(c, r, p)
    BY <2>1, MapSubmit DEF Service!Next
  <2>2. CASE \E r \in Reqs : Cancel(c, r)
    BY <2>2, MapCancel DEF Service!Next
  <2>3. CASE ShiftResult(c)
    BY <2>3, MapShiftResult DEF Service!Next
  <2>4. CASE DecReqs(c)
    BY <2>4, MapRelease DEF Service!Next
  <2>5. CASE Finish(c)
    BY <2>5, MapCall DEF Service!Next
  <2>6. CASE CallbackReturns(c) \/ FinishCancelled(c)
    BY <2>6, MapDestroy DEF Service!Next, CallbackReturns, FinishCancelled
  <2>7. CASE EndThreadPush(c)
    BY <2>7, MapEndThread
  <2>8. CASE /\ ~(\/ ShiftResult(c) \/ DecReqs(c) \/ Finish(c) \/ CallbackReturns(c)
                  \/ FinishCancelled(c) \/ EndThreadPush(c))
             /\ ~\E r \in Reqs, p \in PriArgs : Submit(c, r, p)
             /\ ~\E r \in Reqs : Cancel(c, r)
    <3>1. UNCHANGED <<req_queue, res_queue, fresh, live, pri, cancelled, executed,
                      cur, wreq>>
      BY <1>2, <2>8 DEF ClientStep, MsWanted, MsThreads, MsPending, MsReqs,
           StartThread, StartThreadFails, FlushTest, Block, ShiftNothing, EndThreadDec,
           EndThreadsDone, JumpC, ClientCall, Poll, Flush, SetMinParallel,
           SetMaxParallel, SetMaxIdle
    <3>2. \A d \in Clients : d # c => cpc'[d] = cpc[d]
      BY <1>2, <2>8 DEF ClientStep, MsWanted, MsThreads, MsPending, MsReqs,
           StartThread, StartThreadFails, FlushTest, Block, ShiftNothing, EndThreadDec,
           EndThreadsDone, JumpC, ClientCall, Poll, Flush, EnterPoll, SetMinParallel,
           SetMaxParallel, SetMaxIdle, Mapped, IInv, TypeOK
    <3>3. cur[c] # NoReq =>
            {cpc'[c], cpc[c]} \cap {"dec", "finish"} = {} \/ cpc'[c] = cpc[c]
      BY <1>2, <2>8 DEF ClientStep, MsWanted, MsThreads, MsPending, MsReqs,
           StartThread, StartThreadFails, FlushTest, Block, ShiftNothing, EndThreadDec,
           EndThreadsDone, JumpC, ClientCall, Poll, Flush, EnterPoll, SetMinParallel,
           SetMaxParallel, SetMaxIdle, Mapped, IInv, TypeOK, ClientsOK, InPoll
    <3> QED
      BY <3>1, <3>2, <3>3, MapQuiet
  <2> QED
    BY <2>1, <2>2, <2>3, <2>4, <2>5, <2>6, <2>7, <2>8
<1>3. CASE UNCHANGED vars
  BY <1>3, MapQuiet DEF vars
<1> QED
  BY <1>1, <1>2, <1>3 DEF Next

LEMMA InitMap == Init => Service!Init
<1> SUFFICES ASSUME Init PROVE Service!Init
  OBVIOUS
<1>1. \A r \in Reqs : r \in fresh /\ Stage(r) = "unused"
  BY InitIInv, InvStages DEF StagesOK, Init, AllReqs
<1>2. [r \in Reqs |-> Stage(r)] = [r \in Reqs |-> "unused"]
  BY <1>1
<1>3. [r \in Reqs |-> pri[r]] = [r \in Reqs |-> 0]
  BY DEF Init, AllReqs
<1>4. (pipe > 0) = FALSE
  BY DEF Init
<1> QED
  BY <1>2, <1>3, <1>4 DEF Init, Service!Init

\* Every behaviour of the threads and queues of the pool is a behaviour of
\* EioService: etp_proc, etp_poll, want_poll, done_poll and the counters give
\* the application exactly the life of a request that module describes.
THEOREM PoolImplementsService == Spec => ServiceSpec
<1>1. IInv /\ CountInv /\ PipeMirrorsResults /\ PriOK /\ PerformedOK => Mapped
  BY InvStageCounts DEF Mapped, CountInv
<1>2. Spec => []Mapped
  BY <1>1, PoolInvariant, PoolCountInv, PoolPipe, PoolPerformed, PTL
<1>3. Mapped /\ Mapped' /\ [Next]_vars => [Service!Next]_(Service!vars)
  BY MapStep
<1>4. Spec => Service!Init /\ [][Service!Next]_(Service!vars)
  BY <1>2, <1>3, InitMap, PTL DEF Spec
<1> QED
  BY <1>4 DEF ServiceSpec, Service!Spec


-----------------------------------------------------------------------------
(***************************************************************************)
(* fork ().  The steps of the pool preserve its invariants by the lemmas   *)
(* above and in EtpPoolProofs and EtpCountProofs; what is left are the     *)
(* fork itself and the steps of the parent.                                *)
(***************************************************************************)

\* The pipe has the byte of the process's own results and the parent's.
PipeShared == /\ Surplus = parentByte
              /\ parentByte \in {0, 1}
              /\ ~child => parentByte = 0

ForkInv == IInv /\ CountInv /\ PerformedOK /\ PipeShared

-----------------------------------------------------------------------------
(***************************************************************************)
(* The steps of the parent.                                                *)
(***************************************************************************)
Parent == ParentWantPoll \/ ParentDonePoll

LEMMA ParentKeeps ==
  Parent => UNCHANGED <<queueVars, countVars, threadVars, limitVars, reqVars,
                        workerVars, clientVars, child, leaked>>
BY DEF Parent, ParentWantPoll, ParentDonePoll

LEMMA ParentStep ==
  ASSUME ForkInv, Parent
  PROVE  ForkInv'
<1> USE ParentKeeps DEF queueVars, countVars, threadVars, limitVars, reqVars,
                        workerVars, clientVars
<1>1. /\ Members(req_queue)' = Members(req_queue)
      /\ Members(res_queue)' = Members(res_queue)
  BY DEF Members
<1>2. pipe' \in Nat /\ PipeShared'
  BY DEF ForkInv, PipeShared, Surplus, IInv, TypeOK, Parent, ParentWantPoll,
         ParentDonePoll
<1>3. TypeOK'
  BY <1>2 DEF ForkInv, IInv, TypeOK
<1>4. QueuesOK' /\ ResultsOK' /\ Owners' /\ NoneLost'
  <2>1. IsReqq(req_queue, AllReqs)' /\ IsReqq(res_queue, Reqs)'
    BY <1>1 DEF ForkInv, IInv, QueuesOK, IsReqq, NoDuplicates
  <2> QED
    BY <1>1, <2>1 DEF ForkInv, IInv, QueuesOK, ResultsOK, Owners, NoneLost
<1>5. WorkersOK' /\ ClientsOK'
  BY DEF ForkInv, IInv, WorkersOK, ClientsOK, InPoll
<1>6. CountInv'
  BY <1>1 DEF ForkInv, CountInv, ReqCount, Counted, ReadyCount, Ready, QuitsTaken,
              IdleCount, Idlers, StartedCount, Threads, Running, QuitsOpen, Ending
<1>7. PerformedOK'
  BY PerformedFrame DEF ForkInv
<1> QED
  BY <1>2, <1>3, <1>4, <1>5, <1>6, <1>7 DEF ForkInv, IInv

-----------------------------------------------------------------------------
(***************************************************************************)
(* The fork.                                                               *)
(***************************************************************************)

\* The child has empty queues, no worker, and of the requests the one its
\* only thread is calling back for.
LEMMA ForkLeaves ==
  ASSUME ForkInv, NEW c \in Clients, Fork(c)
  PROVE  /\ req_queue' = EmptyReqq /\ res_queue' = EmptyReqq
         /\ Members(req_queue)' = {} /\ Members(res_queue)' = {}
         /\ \A w \in Workers : wpc'[w] = "off" /\ wreq'[w] = NoReq
         /\ cpc'[c] = cpc[c] /\ after'[c] = after[c] /\ cur'[c] = cur[c]
         /\ \A d \in Clients \ {c} : cpc'[d] = "app" /\ cur'[d] = NoReq
         /\ live' = {cur[c]} \ {NoReq}
         /\ cur[c] \in executed' \cup {NoReq}
         /\ executed' \cap fresh' = {} /\ live' \cap fresh' = {}
<1>1. /\ req_queue' = EmptyReqq /\ res_queue' = EmptyReqq
      /\ wpc' = [w \in Workers |-> "off"] /\ wreq' = [w \in Workers |-> NoReq]
      /\ cpc' = [d \in Clients |-> IF d = c THEN cpc[c] ELSE "app"]
      /\ after' = [d \in Clients |-> IF d = c THEN after[c] ELSE "app"]
      /\ cur' = [d \in Clients |-> IF d = c THEN cur[c] ELSE NoReq]
      /\ live' = live \ (Destroyed \cup LeakedBy(c))
      /\ fresh' = fresh \cup Destroyed /\ executed' = executed \ Destroyed
      /\ cpc[c] \in {"app", "callback"}
  BY DEF Fork, InUserCode
<1>2. Members(req_queue)' = {} /\ Members(res_queue)' = {}
  <2>1. Members(EmptyReqq) = {}
    BY EmptyIsReqq
  <2>2. /\ Members(req_queue)' = Members(EmptyReqq)
        /\ Members(res_queue)' = Members(EmptyReqq)
    BY <1>1 DEF Members
  <2> QED
    BY <2>1, <2>2
<1>3. cur[c] # NoReq => /\ cur[c] \in Reqs \cap live /\ cur[c] \in executed
                        /\ cur[c] \notin Destroyed /\ cur[c] \notin LeakedBy(c)
  <2> SUFFICES ASSUME cur[c] # NoReq
               PROVE  /\ cur[c] \in Reqs \cap live /\ cur[c] \in executed
                      /\ cur[c] \notin Destroyed /\ cur[c] \notin LeakedBy(c)
    OBVIOUS
  <2>1. cur[c] \in Reqs /\ cur[c] \notin QuitReqs /\ cur[c] \in live
    BY PoolAssumption DEF ForkInv, IInv, TypeOK, Owners
  <2>2. cur[c] \in executed
    BY <1>1 DEF ForkInv, PerformedOK
  <2>3. cur[c] \notin Destroyed
    BY DEF ForkInv, IInv, Owners, Destroyed
  <2>4. \A d \in Clients \ {c} : cur[d] # cur[c]
    BY DEF ForkInv, IInv, Owners
  <2>5. cur[c] \notin LeakedBy(c)
    BY <2>1, <2>4 DEF LeakedBy, QuitsTaken
  <2> QED
    BY <2>1, <2>2, <2>3, <2>5
<1>4. ASSUME NEW r \in live, r # cur[c]
      PROVE  r \in Destroyed \cup LeakedBy(c)
  <2>1. r # NoReq /\ r \in Reqs \cup QuitReqs
    BY PoolAssumption DEF ForkInv, IInv, TypeOK, AllReqs
  <2>2. CASE r \in Reqs
    BY <1>4, <2>1, <2>2 DEF ForkInv, IInv, NoneLost, Destroyed, LeakedBy
  <2>3. CASE r \in QuitReqs
    BY <2>1, <2>3 DEF QuitsTaken, Destroyed, LeakedBy
  <2> QED
    BY <2>1, <2>2, <2>3
<1>5. live' = {cur[c]} \ {NoReq}
  <2>1. NoReq \notin live
    BY PoolAssumption DEF ForkInv, IInv, TypeOK, AllReqs
  <2> QED
    BY <1>1, <1>3, <1>4, <2>1
<1>6. executed' \cap fresh' = {} /\ live' \cap fresh' = {}
  BY <1>1 DEF ForkInv, PerformedOK, IInv, TypeOK
<1> QED
  BY <1>1, <1>2, <1>3, <1>5, <1>6

LEMMA ForkIInv ==
  ASSUME ForkInv, NEW c \in Clients, Fork(c)
  PROVE  IInv'
<1> USE ForkLeaves
<1>1. IsReqq(req_queue, AllReqs)' /\ IsReqq(res_queue, Reqs)'
  <2>1. IsReqq(EmptyReqq, AllReqs) /\ IsReqq(EmptyReqq, Reqs)
    BY EmptyIsReqq
  <2>2. /\ req_queue' \in [qs : [Pris -> Seq(AllReqs)], size : Int]
        /\ res_queue' \in [qs : [Pris -> Seq(Reqs)], size : Int]
    BY <2>1 DEF IsReqq
  <2>3. NoDuplicates(req_queue)' /\ NoDuplicates(res_queue)'
    BY <2>1 DEF IsReqq, NoDuplicates
  <2>4. /\ IsFiniteSet({}) /\ Cardinality({}) = 0
    BY FS_EmptySet
  <2>5. req_queue'.size = 0 /\ res_queue'.size = 0
    BY DEF EmptyReqq
  <2> QED
    BY <2>2, <2>3, <2>4, <2>5 DEF IsReqq
<1>2. QueuesOK' /\ ResultsOK'
  <2>1. npending' = 0
    BY DEF Fork, ResetCounts
  <2> QED
    BY <1>1, <2>1 DEF QueuesOK, ResultsOK, EmptyReqq
<1>3. TypeOK'
  <2>1. req_queue' \in ReqqOf(AllReqs) /\ res_queue' \in ReqqOf(Reqs)
    BY <1>1 DEF IsReqq, ReqqOf
  <2>2. Destroyed \subseteq AllReqs
    <3>1. Members(req_queue) \subseteq AllReqs /\ Members(res_queue) \subseteq AllReqs
      BY DEF ForkInv, IInv, TypeOK, Owners
    <3> QED
      BY <3>1 DEF Destroyed, ForkInv, IInv, TypeOK
  <2>3. /\ fresh' \subseteq AllReqs /\ live' \subseteq AllReqs \ fresh'
        /\ cancelled' \subseteq Reqs /\ executed' \subseteq Reqs
    BY <2>2 DEF Fork, ForkInv, IInv, TypeOK
  <2>4. /\ nreqs' = 0 /\ nready' = 0 /\ npending' = 0 /\ started' = 0 /\ idle' = 0
        /\ pipe' = pipe /\ UNCHANGED <<wanted, max_idle, pri>>
    BY DEF Fork, ResetCounts, ResetThreads, ForkPipe, limitVars
  <2>5. /\ wpc' \in [Workers -> WorkerPcs] /\ wreq' \in [Workers -> AllReqs \cup {NoReq}]
        /\ cpc' \in [Clients -> ClientPcs] /\ after' \in [Clients -> ClientPcs]
        /\ cur' \in [Clients -> Reqs \cup {NoReq}] /\ tmp' \in [Clients -> Int]
        /\ left' \in [Clients -> Nat] /\ flushing' \in [Clients -> BOOLEAN]
    BY DEF Fork, ForkInv, IInv, TypeOK, WorkerPcs, ClientPcs
  <2> QED
    BY <2>1, <2>3, <2>4, <2>5, PoolAssumption DEF ForkInv, IInv, TypeOK
<1>4. WorkersOK'
  BY DEF WorkersOK
<1>5. ClientsOK'
  BY DEF Fork, InUserCode, ForkInv, IInv, ClientsOK, InPoll
<1>6. Owners' /\ NoneLost'
  BY DEF Owners, NoneLost
<1> QED
  BY <1>2, <1>3, <1>4, <1>5, <1>6 DEF IInv

LEMMA ForkCounts ==
  ASSUME ForkInv, NEW c \in Clients, Fork(c)
  PROVE  CountInv'
<1> USE ForkLeaves
<1>1. /\ nreqs' = 0 /\ nready' = 0 /\ started' = 0 /\ idle' = 0
      /\ cpc[c] \in {"app", "callback"}
  BY DEF Fork, ResetCounts, ResetThreads, InUserCode
<1>2. live' \cap QuitReqs = {}
  BY PoolAssumption DEF ForkInv, IInv, TypeOK
<1>3. /\ Counted' = {} /\ (Members(req_queue) \cap Reqs)' = {} /\ QuitsTaken' = {}
      /\ Idlers' = {} /\ Running' = {} /\ QuitsOpen' = {} /\ Ending' = {}
  BY <1>1, <1>2 DEF Counted, QuitsTaken, Idlers, Running, QuitsOpen, Ending
<1>4. Ready' = 0 /\ Threads' = 0 /\ 0 % UIntMod = 0
  <2>1. /\ Cardinality(Members(req_queue) \cap Reqs)' = 0 /\ Cardinality(QuitsTaken)' = 0
        /\ Cardinality(Running)' = 0 /\ Cardinality(QuitsOpen)' = 0
        /\ Cardinality(Ending)' = 0
    BY <1>3, FS_EmptySet
  <2> QED
    BY <2>1, PoolAssumption DEF Ready, Threads
<1> QED
  BY <1>1, <1>3, <1>4, FS_EmptySet
     DEF CountInv, ReqCount, ReadyCount, IdleCount, StartedCount

LEMMA ForkStep ==
  ASSUME ForkInv, NEW c \in Clients, Fork(c)
  PROVE  ForkInv'
<1>1. PerformedOK'
  BY ForkLeaves DEF PerformedOK
<1>2. PipeShared'
  <2>1. /\ pipe' = pipe /\ res_queue' = EmptyReqq /\ child' = TRUE /\ parentByte = 0
        /\ parentByte' = IF res_queue.size = 0 THEN 0 ELSE 1
    BY DEF Fork, ForkPipe, ForkInv, PipeShared
  <2> QED
    BY <2>1 DEF ForkInv, PipeShared, Surplus, EmptyReqq, IInv, TypeOK
<1> QED
  BY <1>1, <1>2, ForkIInv, ForkCounts DEF ForkInv

-----------------------------------------------------------------------------
LEMMA InitForkInv == ForkInit => ForkInv
<1>1. Init => Surplus = 0
  <2>1. Init => pipe = 0 /\ res_queue.size = 0
    BY DEF Init, EmptyReqq
  <2> QED
    BY <2>1 DEF Surplus
<1> QED
  BY <1>1, InitIInv, InitCountInv, InitPerformed DEF ForkInit, ForkInv, PipeShared

LEMMA NextForkInv == ForkInv /\ [ForkNext]_forkVars => ForkInv'
<1> SUFFICES ASSUME ForkInv, [ForkNext]_forkVars PROVE ForkInv'
  OBVIOUS
<1>1. ASSUME [Next]_vars, UNCHANGED <<child, parentByte, leaked>> PROVE ForkInv'
  BY <1>1, NextIInv, NextCountInv, PerformedStep, PipeStep DEF ForkInv, PipeShared
<1> QED
  BY <1>1, ForkStep, ParentStep DEF ForkNext, forkVars, Parent

\* Also across a fork the requests, the counters and the pipe are as the
\* invariants of the pool say.
THEOREM ForkInvariant == ForkSpec => []ForkInv
BY InitForkInv, NextForkInv, PTL DEF ForkSpec

\* The parent and the child write to the pipe and read from it without taking
\* the byte the other one waits for.
THEOREM ForkServesBoth == ForkSpec => []PipeServesBoth
<1>1. ForkInv => PipeServesBoth
  BY DEF ForkInv, PipeShared, Surplus, PipeServesBoth, IInv, TypeOK
<1> QED
  BY <1>1, ForkInvariant, PTL

\* In the child no request has two owners or none: what the handler destroys
\* is nowhere else, and what it keeps is in the callback of the thread that
\* forked.
THEOREM ForkOneOwner == ForkSpec => []OneOwner
<1>1. ForkInv => OneOwner
  BY InvOneOwner DEF ForkInv
<1> QED
  BY <1>1, ForkInvariant, PTL

\* The handler resets the counters of the requests to the truth.
THEOREM ForkRequestCounts == ForkSpec => []RequestCounts
<1>1. ForkInv => RequestCounts
  BY InvRequestCounts DEF ForkInv
<1> QED
  BY <1>1, ForkInvariant, PTL

\* So it does with the counters of the threads.
THEOREM ForkThreadCounts == ForkSpec => []ThreadCounts
<1>1. ForkInv => ThreadCounts
  BY InvThreadCounts DEF ForkInv
<1> QED
  BY <1>1, ForkInvariant, PTL

\* A callback in the child is for a request whose system call was made.
THEOREM ForkCallbackHasResult == ForkSpec => []CallbackHasResult
<1>1. ForkInv => CallbackHasResult
  BY InvCallbackHasResult DEF ForkInv
<1> QED
  BY <1>1, ForkInvariant, PTL

-----------------------------------------------------------------------------
(***************************************************************************)
(* The threads and the signals of the child.                               *)
(***************************************************************************)

\* The child has no thread too many: it starts with none, under the limit of
\* the parent.
THEOREM ForkThreadBound ==
  ASSUME ParallelArgs = {}, Clients # {}, Cardinality(Workers) < UIntMod
  PROVE  ForkSpec => []ThreadBound
<1>1. ForkInit => NoEndThread /\ Bound
  BY InitBound DEF ForkInit
<1>2. ASSUME ForkInv, NoEndThread, Bound, NEW c \in Clients, Fork(c)
      PROVE  (NoEndThread /\ Bound)'
  <2>1. /\ cpc[c] \in {"app", "callback"} /\ started' = 0 /\ wanted' = wanted
    BY <1>2 DEF Fork, ResetThreads, InUserCode, limitVars
  <2>2. NoEndThread' /\ Starting' = {}
    BY <1>2, <2>1, ForkLeaves, PoolAssumption
       DEF NoEndThread, Starting, ForkInv, IInv, TypeOK
  <2>3. Cardinality(Clients) \in Nat /\ Cardinality(Clients) # 0
    BY FS_EmptySet, FS_CardinalityType, PoolAssumption
  <2>4. wanted \in Nat
    BY <1>2, PoolAssumption DEF ForkInv, IInv, TypeOK
  <2> QED
    BY <2>1, <2>2, <2>3, <2>4, FS_EmptySet DEF Bound
<1>3. ASSUME NoEndThread, Bound, Parent
      PROVE  (NoEndThread /\ Bound)'
  BY <1>3, ParentKeeps DEF threadVars, limitVars, reqVars, clientVars, NoEndThread,
                           Bound, Starting
<1>4. ForkInv /\ NoEndThread /\ Bound /\ [ForkNext]_forkVars => (NoEndThread /\ Bound)'
  BY <1>2, <1>3, NoEndThreadStep, BoundStep
     DEF ForkInv, CountInv, ForkNext, forkVars, Parent
<1>5. ForkInv /\ Bound => ThreadBound
  BY InvThreadBound DEF ForkInv
<1> QED
  BY <1>1, <1>4, <1>5, ForkInvariant, PTL DEF ForkSpec

\* No signal of the child is lost on a thread of the parent: as long as a
\* thread waits, enough are coming for the requests in the queue.
THEOREM ForkNoLostWakeup ==
  ASSUME IdleTimeouts = FALSE
  PROVE  ForkSpec => []NoLostWakeup
<1>1. ForkInit => NoTimeouts /\ NoLostWakeup
  BY InitWakeup DEF ForkInit
<1>2. ASSUME ForkInv, NEW c \in Clients, Fork(c)
      PROVE  (NoTimeouts /\ NoLostWakeup)'
  BY <1>2, ForkLeaves DEF NoTimeouts, NoLostWakeup, Waiters
<1>3. ASSUME NoTimeouts, NoLostWakeup, Parent
      PROVE  (NoTimeouts /\ NoLostWakeup)'
  BY <1>3, ParentKeeps DEF queueVars, workerVars, NoTimeouts, NoLostWakeup, Waiters
<1>4. ForkInv /\ NoTimeouts /\ NoLostWakeup /\ [ForkNext]_forkVars
        => (NoTimeouts /\ NoLostWakeup)'
  BY <1>2, <1>3, WakeupStep DEF ForkInv, ForkNext, forkVars, Parent
<1> QED
  BY <1>1, <1>4, ForkInvariant, PTL DEF ForkSpec
=============================================================================
