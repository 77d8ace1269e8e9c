------------------------------- MODULE EtpPool -------------------------------
(***************************************************************************)
(* The thread pool of libeio (the "etp" half of libeio/eio.c) with the     *)
(* wake-up pipe that asyncio.c hangs on it and the flush loop that         *)
(* AsyncIO.java runs over it.                                              *)
(*                                                                         *)
(* Actors.  A worker runs etp_proc: it takes a request from req_queue,     *)
(* executes it, appends it to res_queue and writes a byte to the pipe if   *)
(* res_queue was empty.  A client is an application thread: it submits     *)
(* requests, and calls poll or flush, which finish the requests of         *)
(* res_queue by running their callbacks.                                   *)
(*                                                                         *)
(* Granularity.  Every critical section of the code holds one lock, never  *)
(* blocks and changes at most one of the counters that other threads read  *)
(* without that lock, so it is one step here.  What the code does outside  *)
(* a lock is split wherever another thread can get in between: each        *)
(* unlocked counter read of etp_maybe_start_thread is a step.              *)
(*                                                                         *)
(* A definition whose name begins with Bug is a variant of the next one    *)
(* with a plausible mistake in it; no specification uses it.               *)
(***************************************************************************)
EXTENDS EtpReqq, FiniteSets

CONSTANTS
  Reqs,             \* the eio_req structures applications submit
  QuitReqs,         \* the type -1 requests etp_end_thread allocates
  Workers,          \* slots for worker threads (bound: threads alive at once)
  Clients,          \* application threads
  NoReq,            \* the null eio_req pointer
  PriArgs,          \* priorities the application passes
  Wanted,           \* initial value of wanted (4 in the code)
  MaxIdle,          \* initial value of max_idle (4 in the code)
  PollLimits,       \* values of max_poll_reqs; 0, the default, is no limit
  PollTimeLimit,    \* TRUE iff max_poll_time is not 0
  IdleTimeouts,     \* TRUE iff idle_timeout may elapse
  CreateFails,      \* TRUE iff pthread_create may fail
  CallbackResults,  \* what a finish callback may return
  Cancelling,       \* TRUE iff the application calls eio_cancel
  ParallelArgs,     \* arguments of eio_set_min_parallel and _max_parallel
  IdleArgs,         \* arguments of eio_set_max_idle
  UIntMod           \* 2^w for the w bits of unsigned int

ASSUME PoolAssumption ==
  /\ IsFiniteSet(Reqs) /\ IsFiniteSet(QuitReqs)
  /\ IsFiniteSet(Workers) /\ IsFiniteSet(Clients)
  /\ Reqs \cap QuitReqs = {}
  /\ NoReq \notin Reqs \cup QuitReqs
  /\ PriArgs \subseteq Int
  /\ UIntMod \in Nat \ {0}
  /\ Wanted \in 0 .. UIntMod - 1
  /\ MaxIdle \in Nat /\ PollLimits \subseteq Nat
  /\ ParallelArgs \subseteq 0 .. UIntMod - 1
  /\ IdleArgs \subseteq Nat
  /\ CallbackResults \subseteq Int
  /\ {PollTimeLimit, IdleTimeouts, CreateFails, Cancelling} \subseteq BOOLEAN

AllReqs == Reqs \cup QuitReqs

VARIABLES
  req_queue, res_queue,     \* requests to execute, requests to finish
  nreqs, nready, npending,  \* the counters behind eio_nreqs and friends
  started, idle,            \* threads created and not ended; threads waiting
  wanted, max_idle,         \* limits the application may change
  pipe,                     \* bytes in the wake-up pipe of asyncio.c
  fresh,                    \* request structures not allocated yet
  live,                     \* request structures allocated and not destroyed
  pri,                      \* req->pri
  cancelled,                \* requests with EIO_FLAG_CANCELLED
  executed,                 \* requests whose system call has been made
  wpc, wreq,                \* per worker: where it is, and its self->req
  cpc,                      \* per client: where it is
  after,                    \* ... where etp_maybe_start_thread returns to
  cur,                      \* ... the request etp_poll has shifted
  tmp,                      \* ... the partial sum of etp_maybe_start_thread
  left,                     \* ... maxreqs of etp_poll
  flushing                  \* ... TRUE iff etp_poll was called by flush

queueVars  == <<req_queue, res_queue>>
countVars  == <<nreqs, nready, npending>>
threadVars == <<started, idle>>
limitVars  == <<wanted, max_idle>>
reqVars    == <<fresh, live, pri, cancelled, executed>>
workerVars == <<wpc, wreq>>
clientVars == <<cpc, after, cur, tmp, left, flushing>>
sharedVars == <<queueVars, countVars, threadVars, limitVars, pipe, reqVars>>
vars       == <<sharedVars, workerVars, clientVars>>

WorkerPcs == {"off", "fetch", "run", "push", "timedwait", "wait", "woken",
              "timedout", "retire", "quit"}
ClientPcs == {"app", "callback", "ms_wanted", "ms_threads", "ms_pending",
              "ms_reqs", "ms_start", "shift", "dec", "finish", "flush",
              "block", "end_push", "end_dec"}

\* unsigned int arithmetic, and the cast back to int
Inc(x)   == (x + 1) % UIntMod
BugDecWide(x)      == x - 1
BugDecSaturates(x) == IF x = 0 THEN 0 ELSE x - 1
Dec(x)   == (x - 1) % UIntMod
AsInt(x) == IF 2 * x >= UIntMod THEN x - UIntMod ELSE x

Init ==
  /\ req_queue = EmptyReqq /\ res_queue = EmptyReqq
  /\ nreqs = 0 /\ nready = 0 /\ npending = 0
  /\ started = 0 /\ idle = 0
  /\ wanted = Wanted /\ max_idle = MaxIdle
  /\ pipe = 0
  /\ fresh = AllReqs /\ live = {} /\ cancelled = {} /\ executed = {}
  /\ pri = [r \in AllReqs |-> 0]
  /\ wpc = [w \in Workers |-> "off"] /\ wreq = [w \in Workers |-> NoReq]
  /\ cpc = [c \in Clients |-> "app"] /\ after = [c \in Clients |-> "app"]
  /\ cur = [c \in Clients |-> NoReq] /\ tmp = [c \in Clients |-> 0]
  /\ left = [c \in Clients |-> 0] /\ flushing = [c \in Clients |-> FALSE]

-----------------------------------------------------------------------------
(***************************************************************************)
(* The condition variable reqwait.  X_COND_SIGNAL wakes one waiter, or is  *)
(* lost if no thread is waiting; a woken or timed-out thread still has to  *)
(* get reqlock back before it leaves the wait.                             *)
(***************************************************************************)
Waiters == {w \in Workers : wpc[w] \in {"timedwait", "wait"}}

BugSignalLost == UNCHANGED wpc

Signal == \/ /\ Waiters = {}
             /\ UNCHANGED wpc
          \/ \E w \in Waiters : wpc' = [wpc EXCEPT ![w] = "woken"]

\* GotoC and GotoW name a thread's next step; JumpC and JumpW change nothing
\* else.
GotoC(c, label) == cpc' = [cpc EXCEPT ![c] = label]
GotoW(w, label) == wpc' = [wpc EXCEPT ![w] = label]
JumpC(c, label) ==
  /\ GotoC(c, label)
  /\ UNCHANGED <<sharedVars, workerVars, after, cur, tmp, left, flushing>>
JumpW(w, label) ==
  /\ GotoW(w, label)
  /\ UNCHANGED <<sharedVars, wreq, clientVars>>

-----------------------------------------------------------------------------
(***************************************************************************)
(* Workers: etp_proc.                                                      *)
(***************************************************************************)

\* idle after the thread has left a wait (--idle) or has not waited
IdleAfterWait(w) == IF wpc[w] = "woken" THEN idle - 1 ELSE idle

\* reqq_shift gives the worker a request; a request of type -1 ends it.
Fetch(w) ==
  /\ wpc[w] \in {"fetch", "woken"}
  /\ req_queue.size # 0
  /\ wreq' = [wreq EXCEPT ![w] = ShiftReq(req_queue)]
  /\ req_queue' = ShiftRest(req_queue)
  /\ nready' = Dec(nready)
  /\ idle' = IdleAfterWait(w)
  /\ GotoW(w, IF ShiftReq(req_queue) \in QuitReqs THEN "quit" ELSE "run")
  /\ UNCHANGED <<res_queue, nreqs, npending, started, limitVars, pipe, reqVars,
                 clientVars>>

\* Nothing to do: wait on reqwait for at most idle_timeout seconds.
FetchNothing(w) ==
  /\ wpc[w] \in {"fetch", "woken"}
  /\ req_queue.size = 0
  /\ wreq' = [wreq EXCEPT ![w] = NoReq]
  /\ idle' = IdleAfterWait(w) + 1
  /\ GotoW(w, "timedwait")
  /\ UNCHANGED <<queueVars, countVars, started, limitVars, pipe, reqVars,
                 clientVars>>

\* POSIX lets either wait return without a signal.
SpuriousWake(w) ==
  /\ w \in Waiters
  /\ JumpW(w, "woken")

\* The timed wait is over; signals no longer reach the thread, which now
\* waits for reqlock.
Timeout(w) ==
  /\ IdleTimeouts
  /\ wpc[w] = "timedwait"
  /\ JumpW(w, "timedout")

BugTimedOut(w) ==
  /\ wpc[w] = "timedout"
  /\ IF idle > max_idle
       THEN idle' = idle - 1 /\ GotoW(w, "quit")
       ELSE idle' = idle /\ GotoW(w, "wait")
  /\ UNCHANGED <<queueVars, countVars, started, limitVars, pipe, reqVars, wreq,
                 clientVars>>

\* ETIMEDOUT, with reqlock held again: a thread beyond max_idle leaves, any
\* other waits without a timeout.  Neither branch looks at req_queue.
TimedOut(w) ==
  /\ wpc[w] = "timedout"
  /\ IF idle > max_idle
       THEN idle' = idle - 1 /\ GotoW(w, "retire")
       ELSE idle' = idle /\ GotoW(w, "wait")
  /\ UNCHANGED <<queueVars, countVars, started, limitVars, pipe, reqVars, wreq,
                 clientVars>>

\* --started, in a critical section of its own after reqlock was released
Retire(w) ==
  /\ wpc[w] = "retire"
  /\ started' = Dec(started)
  /\ GotoW(w, "quit")
  /\ UNCHANGED <<queueVars, countVars, idle, limitVars, pipe, reqVars, wreq,
                 clientVars>>

\* etp_worker_free; a type -1 request is not freed by anyone.
Quit(w) ==
  /\ wpc[w] = "quit"
  /\ wreq' = [wreq EXCEPT ![w] = NoReq]
  /\ GotoW(w, "off")
  /\ UNCHANGED <<sharedVars, clientVars>>

\* ETP_EXECUTE, unless the request has been cancelled by now
Execute(w) ==
  /\ wpc[w] = "run"
  /\ executed' = IF wreq[w] \in cancelled THEN executed
                                          ELSE executed \cup {wreq[w]}
  /\ GotoW(w, "push")
  /\ UNCHANGED <<queueVars, countVars, threadVars, limitVars, pipe, fresh,
                 live, pri, cancelled, wreq, clientVars>>

\* The bytes in the pipe after want_poll_cb, called if res_queue was empty
BugWantPoll == pipe + 1
WantPoll == IF res_queue.size = 0 THEN pipe + 1 ELSE pipe

\* Under reslock: the result is queued, want_poll writes its byte if the
\* queue was empty, and self->req is cleared.
PushResult(w) ==
  /\ wpc[w] = "push"
  /\ npending' = npending + 1
  /\ res_queue' = reqq_push(res_queue, wreq[w], pri[wreq[w]])
  /\ pipe' = WantPoll
  /\ wreq' = [wreq EXCEPT ![w] = NoReq]
  /\ GotoW(w, "fetch")
  /\ UNCHANGED <<req_queue, nreqs, nready, threadVars, limitVars, reqVars,
                 clientVars>>

-----------------------------------------------------------------------------
(***************************************************************************)
(* Clients: submitting and cancelling, from the application or from a      *)
(* callback.                                                               *)
(***************************************************************************)
InUserCode(c) == cpc[c] \in {"app", "callback"}

\* eio_nop and its sisters: allocate a request, then etp_submit up to the
\* end of its critical section.
Submit(c, r, p) ==
  /\ InUserCode(c)
  /\ r \in fresh \cap Reqs
  /\ fresh' = fresh \ {r}
  /\ live' = live \cup {r}
  /\ pri' = [pri EXCEPT ![r] = SubmitPri(p)]
  /\ nreqs' = nreqs + 1
  /\ nready' = Inc(nready)
  /\ req_queue' = reqq_push(req_queue, r, SubmitPri(p))
  /\ Signal
  /\ after' = [after EXCEPT ![c] = cpc[c]]
  /\ GotoC(c, "ms_wanted")
  /\ UNCHANGED <<res_queue, npending, threadVars, limitVars, pipe, cancelled,
                 executed, wreq, cur, tmp, left, flushing>>

\* eio_cancel of a request that has not been destroyed
Cancel(c, r) ==
  /\ Cancelling
  /\ InUserCode(c)
  /\ r \in (live \cap Reqs) \ cancelled
  /\ cancelled' = cancelled \cup {r}
  /\ UNCHANGED <<queueVars, countVars, threadVars, limitVars, pipe, fresh,
                 live, pri, executed, workerVars, clientVars>>

(***************************************************************************)
(* etp_maybe_start_thread: four unlocked reads, then etp_start_thread.     *)
(***************************************************************************)
BugEnoughThreads == started > wanted
EnoughThreads == started >= wanted

MsWanted(c) ==
  /\ cpc[c] = "ms_wanted"
  /\ JumpC(c, IF EnoughThreads THEN after[c] ELSE "ms_threads")

MsThreads(c) ==
  /\ cpc[c] = "ms_threads"
  /\ tmp' = [tmp EXCEPT ![c] = AsInt(started)]
  /\ GotoC(c, "ms_pending")
  /\ UNCHANGED <<sharedVars, workerVars, after, cur, left, flushing>>

MsPending(c) ==
  /\ cpc[c] = "ms_pending"
  /\ tmp' = [tmp EXCEPT ![c] = @ + npending]
  /\ GotoC(c, "ms_reqs")
  /\ UNCHANGED <<sharedVars, workerVars, after, cur, left, flushing>>

MsReqs(c) ==
  /\ cpc[c] = "ms_reqs"
  /\ GotoC(c, IF 0 <= tmp[c] - nreqs THEN after[c] ELSE "ms_start")
  /\ tmp' = [tmp EXCEPT ![c] = 0]
  /\ UNCHANGED <<sharedVars, workerVars, after, cur, left, flushing>>

\* etp_start_thread under wrklock.  The number of slots bounds the threads
\* alive at once: a creation waits for a slot.
StartThread(c) ==
  /\ cpc[c] = "ms_start"
  /\ \E w \in Workers : wpc[w] = "off" /\ GotoW(w, "fetch")
  /\ started' = Inc(started)
  /\ GotoC(c, after[c])
  /\ UNCHANGED <<queueVars, countVars, idle, limitVars, pipe, reqVars, wreq,
                 after, cur, tmp, left, flushing>>

\* pthread_create fails: the worker structure is freed, nothing is reported.
StartThreadFails(c) ==
  /\ CreateFails
  /\ cpc[c] = "ms_start"
  /\ JumpC(c, after[c])

-----------------------------------------------------------------------------
(***************************************************************************)
(* Clients: poll (etp_poll) and flush (AsyncIO.flush).                     *)
(***************************************************************************)

\* The start of etp_poll: read max_poll_reqs, then the top of its loop.  The
\* application may set the limit before any poll.
EnterPoll(c) ==
  /\ \E limit \in PollLimits : left' = [left EXCEPT ![c] = limit]
  /\ after' = [after EXCEPT ![c] = "shift"]
  /\ GotoC(c, "ms_wanted")

\* Where the return of etp_poll leads
PollCaller(c) == IF flushing[c] THEN "flush" ELSE "app"

Poll(c) ==
  /\ cpc[c] = "app"
  /\ EnterPoll(c)
  /\ flushing' = [flushing EXCEPT ![c] = FALSE]
  /\ UNCHANGED <<sharedVars, workerVars, cur, tmp>>

Flush(c) ==
  /\ cpc[c] = "app"
  /\ flushing' = [flushing EXCEPT ![c] = TRUE]
  /\ GotoC(c, "flush")
  /\ UNCHANGED <<sharedVars, workerVars, after, cur, tmp, left>>

\* while (numRequests() > 0)
BugRequestsLeft == nready > 0
RequestsLeft == nreqs > 0

FlushTest(c) ==
  /\ cpc[c] = "flush"
  /\ JumpC(c, IF RequestsLeft THEN "block" ELSE "app")

\* block() returns when the pipe is readable; poll() follows.
Block(c) ==
  /\ cpc[c] = "block"
  /\ pipe > 0
  /\ EnterPoll(c)
  /\ UNCHANGED <<sharedVars, workerVars, cur, tmp, flushing>>

\* Under reslock: take a result; done_poll reads the byte back (and would
\* block on an empty pipe) when the queue becomes empty.
ShiftResult(c) ==
  /\ cpc[c] = "shift"
  /\ res_queue.size # 0
  /\ cur' = [cur EXCEPT ![c] = ShiftReq(res_queue)]
  /\ res_queue' = ShiftRest(res_queue)
  /\ npending' = npending - 1
  /\ IF res_queue'.size = 0 THEN pipe > 0 /\ pipe' = pipe - 1
                            ELSE pipe' = pipe
  /\ GotoC(c, "dec")
  /\ UNCHANGED <<req_queue, nreqs, nready, threadVars, limitVars, reqVars,
                 workerVars, after, tmp, left, flushing>>

\* No result left: etp_poll returns 0.
ShiftNothing(c) ==
  /\ cpc[c] = "shift"
  /\ res_queue.size = 0
  /\ JumpC(c, PollCaller(c))

BugDecReqs(c) ==
  /\ cpc[c] = "dec"
  /\ nreqs' = IF cur[c] \in cancelled THEN nreqs ELSE nreqs - 1
  /\ GotoC(c, "finish")
  /\ UNCHANGED <<queueVars, nready, npending, threadVars, limitVars, pipe,
                 reqVars, workerVars, after, cur, tmp, left, flushing>>

\* --nreqs under reqlock
DecReqs(c) ==
  /\ cpc[c] = "dec"
  /\ nreqs' = nreqs - 1
  /\ GotoC(c, "finish")
  /\ UNCHANGED <<queueVars, nready, npending, threadVars, limitVars, pipe,
                 reqVars, workerVars, after, cur, tmp, left, flushing>>

BugFinish(c) == cpc[c] = "finish" /\ JumpC(c, "callback")

\* eio_finish calls the callback ...
Finish(c) ==
  /\ cpc[c] = "finish"
  /\ cur[c] \notin cancelled
  /\ JumpC(c, "callback")

\* maxreqs && !--maxreqs
LimitReached(c) == left[c] = 1

\* ... and destroys the request when it is back.  etp_poll then returns if the
\* callback's result is not 0 or a limit is reached, or goes on with the next
\* result.
FinishReturns(c, res) ==
  /\ live' = live \ {cur[c]}
  /\ cur' = [cur EXCEPT ![c] = NoReq]
  /\ left' = [left EXCEPT ![c] = IF res = 0 /\ @ > 0 THEN @ - 1 ELSE @]
  /\ \/ /\ res # 0 \/ LimitReached(c) \/ PollTimeLimit
        /\ GotoC(c, PollCaller(c))
        /\ UNCHANGED after
     \/ /\ res = 0 /\ ~LimitReached(c)
        /\ GotoC(c, "ms_wanted")
        /\ after' = [after EXCEPT ![c] = "shift"]
  /\ UNCHANGED <<queueVars, countVars, threadVars, limitVars, pipe, fresh, pri,
                 cancelled, executed, workerVars, tmp, flushing>>

CallbackReturns(c) ==
  /\ cpc[c] = "callback"
  /\ \E res \in CallbackResults : FinishReturns(c, res)

\* A cancelled request is destroyed without a callback, with result 0.
FinishCancelled(c) ==
  /\ cpc[c] = "finish"
  /\ cur[c] \in cancelled
  /\ FinishReturns(c, 0)

-----------------------------------------------------------------------------
(***************************************************************************)
(* Clients: the limits.                                                    *)
(***************************************************************************)
SetMinParallel(c, n) ==
  /\ cpc[c] = "app"
  /\ wanted < n
  /\ wanted' = n
  /\ UNCHANGED <<queueVars, countVars, threadVars, max_idle, pipe, reqVars,
                 workerVars, clientVars>>

SetMaxParallel(c, n) ==
  /\ cpc[c] = "app"
  /\ wanted' = IF wanted > n THEN n ELSE wanted
  /\ GotoC(c, "end_push")
  /\ UNCHANGED <<queueVars, countVars, threadVars, max_idle, pipe, reqVars,
                 workerVars, after, cur, tmp, left, flushing>>

\* while (started > wanted) etp_end_thread (): a request of type -1 and the
\* highest priority, queued without touching nreqs or nready
EndThreadPush(c) ==
  /\ cpc[c] = "end_push"
  /\ started > wanted
  /\ \E r \in fresh \cap QuitReqs :
       /\ fresh' = fresh \ {r}
       /\ live' = live \cup {r}
       /\ pri' = [pri EXCEPT ![r] = NumPri - 1]
       /\ req_queue' = reqq_push(req_queue, r, NumPri - 1)
  /\ Signal
  /\ GotoC(c, "end_dec")
  /\ UNCHANGED <<res_queue, countVars, threadVars, limitVars, pipe, cancelled,
                 executed, wreq, after, cur, tmp, left, flushing>>

EndThreadDec(c) ==
  /\ cpc[c] = "end_dec"
  /\ started' = Dec(started)
  /\ GotoC(c, "end_push")
  /\ UNCHANGED <<queueVars, countVars, idle, limitVars, pipe, reqVars,
                 workerVars, after, cur, tmp, left, flushing>>

EndThreadsDone(c) ==
  /\ cpc[c] = "end_push"
  /\ started <= wanted
  /\ JumpC(c, "app")

SetMaxIdle(c, n) ==
  /\ cpc[c] = "app"
  /\ n # max_idle
  /\ max_idle' = n
  /\ UNCHANGED <<queueVars, countVars, threadVars, wanted, pipe, reqVars,
                 workerVars, clientVars>>

-----------------------------------------------------------------------------

\* The steps a running worker thread takes on its own
WorkerStep(w) == \/ Fetch(w) \/ FetchNothing(w)
                 \/ TimedOut(w) \/ Retire(w) \/ Quit(w)
                 \/ Execute(w) \/ PushResult(w)

\* The steps an application thread takes inside a call of the library, and
\* the return from a callback
ClientStep(c) == \/ MsWanted(c) \/ MsThreads(c) \/ MsPending(c) \/ MsReqs(c)
                 \/ StartThread(c) \/ StartThreadFails(c)
                 \/ FlushTest(c) \/ Block(c)
                 \/ ShiftResult(c) \/ ShiftNothing(c) \/ DecReqs(c)
                 \/ Finish(c) \/ CallbackReturns(c) \/ FinishCancelled(c)
                 \/ EndThreadPush(c) \/ EndThreadDec(c) \/ EndThreadsDone(c)

\* The calls an application thread may make
ClientCall(c) == \/ \E r \in Reqs, p \in PriArgs : Submit(c, r, p)
                 \/ \E r \in Reqs : Cancel(c, r)
                 \/ Poll(c) \/ Flush(c)
                 \/ \E n \in ParallelArgs :
                      SetMinParallel(c, n) \/ SetMaxParallel(c, n)
                 \/ \E n \in IdleArgs : SetMaxIdle(c, n)

Next == \/ \E w \in Workers : WorkerStep(w) \/ SpuriousWake(w) \/ Timeout(w)
        \/ \E c \in Clients : ClientStep(c) \/ ClientCall(c)

Spec == Init /\ [][Next]_vars

(***************************************************************************)
(* Fairness: the operating system schedules every thread, a callback       *)
(* returns, and an application thread goes back to its flush loop.         *)
(***************************************************************************)
Fairness == /\ \A w \in Workers : WF_vars(WorkerStep(w))
            /\ \A c \in Clients : WF_vars(ClientStep(c)) /\ WF_vars(Flush(c))

FairSpec == Spec /\ Fairness
=============================================================================
