---------------------------- MODULE EtpPoolProps ----------------------------
(***************************************************************************)
(* What the thread pool of EtpPool.tla has to guarantee.                   *)
(***************************************************************************)
EXTENDS EtpPool

ReqqOf(S) == [qs : [Pris -> Seq(S)], size : Int]

\* Types.  started and nready are unsigned and may wrap; that the other
\* counters stay natural numbers is part of RequestCounts and ThreadCounts.
TypeOK ==
  /\ req_queue \in ReqqOf(AllReqs) /\ res_queue \in ReqqOf(Reqs)
  /\ nreqs \in Int /\ npending \in Int /\ idle \in Int /\ max_idle \in Nat
  /\ nready \in 0 .. UIntMod - 1 /\ started \in 0 .. UIntMod - 1
  /\ wanted \in 0 .. UIntMod - 1
  /\ pipe \in Nat
  /\ fresh \subseteq AllReqs /\ live \subseteq AllReqs \ fresh
  /\ cancelled \subseteq Reqs /\ executed \subseteq Reqs
  /\ pri \in [AllReqs -> Pris]
  /\ wpc \in [Workers -> WorkerPcs] /\ wreq \in [Workers -> AllReqs \cup {NoReq}]
  /\ cpc \in [Clients -> ClientPcs] /\ after \in [Clients -> ClientPcs]
  /\ cur \in [Clients -> Reqs \cup {NoReq}] /\ tmp \in [Clients -> Int]
  /\ left \in [Clients -> Nat] /\ flushing \in [Clients -> BOOLEAN]

-----------------------------------------------------------------------------
(***************************************************************************)
(* The requests and their counters.                                        *)
(***************************************************************************)

\* want_poll and done_poll, called under reslock at the empty/non-empty
\* transitions of res_queue, keep exactly one byte in the pipe while results
\* wait and none otherwise: block() neither misses a result nor returns for
\* nothing, and neither callback can block on the pipe.
PipeMirrorsResults == pipe = IF res_queue.size = 0 THEN 0 ELSE 1

\* The places of r in the lists of q
Places(q, r) ==
  UNION {{<<p, i>> : i \in {j \in DOMAIN q.qs[p] : q.qs[p][j] = r}} : p \in Pris}

\* A request handed from client to queue to worker to queue to client is in
\* exactly one of those places until it is destroyed, and in none after
\* that: none is lost, finished twice or touched after its destruction.
OneOwner ==
  \A r \in Reqs :
    Cardinality(Places(req_queue, r)) + Cardinality(Places(res_queue, r))
    + Cardinality({w \in Workers : wreq[w] = r})
    + Cardinality({c \in Clients : cur[c] = r}) = IF r \in live THEN 1 ELSE 0

\* The type -1 requests a worker has taken (and nobody frees)
QuitsTaken == (live \cap QuitReqs) \ Members(req_queue)

\* The counters the application reads without a lock (eio_nreqs, eio_nready,
\* eio_npending) against the requests themselves: submitted and not yet given
\* to eio_finish, waiting for a worker, waiting to be finished.  nready is
\* too low by one for every type -1 request that was taken.
RequestCounts ==
  /\ req_queue.size = Cardinality(Members(req_queue))
  /\ res_queue.size = Cardinality(Members(res_queue))
  /\ npending = res_queue.size
  /\ nreqs = Cardinality({r \in live \cap Reqs :
                            \A c \in Clients : cur[c] = r => cpc[c] = "dec"})
  /\ nready = (Cardinality(Members(req_queue) \cap Reqs)
               - Cardinality(QuitsTaken)) % UIntMod

\* etp_poll runs a callback only for a request whose system call was made:
\* the two unlocked tests of EIO_FLAG_CANCELLED, in etp_proc and in
\* EIO_FINISH, agree whenever eio_cancel comes.
CallbackHasResult ==
  \A c \in Clients : cpc[c] = "callback" => cur[c] \in executed

-----------------------------------------------------------------------------
(***************************************************************************)
(* The threads.                                                            *)
(***************************************************************************)

\* Threads that have not been through their own --started
Running == {w \in Workers : /\ wpc[w] # "off"
                            /\ wpc[w] = "quit" => wreq[w] # NoReq}

\* The type -1 requests no worker has obeyed yet
QuitsOpen == {r \in live \cap QuitReqs : \/ r \in Members(req_queue)
                                         \/ \E w \in Workers : wreq[w] = r}

\* idle counts the threads between ++idle and --idle.  started counts the
\* running threads, less one for every type -1 request that no thread has
\* obeyed, because etp_end_thread lowers it on behalf of a thread it does
\* not know.
ThreadCounts ==
  /\ idle = Cardinality({w \in Workers :
              wpc[w] \in {"timedwait", "wait", "woken", "timedout"}})
  /\ started = (Cardinality(Running) - Cardinality(QuitsOpen)
                + Cardinality({c \in Clients : cpc[c] = "end_dec"})) % UIntMod

\* etp_maybe_start_thread compares started with wanted before it takes a
\* lock, so each further submitting thread can add one thread too many.
\* (While the application does not lower wanted.)
ThreadBound == started <= wanted + Cardinality(Clients) - 1

\* While no idle_timeout elapses, signals are not lost: as long as a thread
\* waits on reqwait, the threads already on their way to reqq_shift are
\* enough for all of req_queue.
NoLostWakeup ==
  Waiters # {} =>
    req_queue.size <= Cardinality({w \in Workers : wpc[w] \in {"fetch", "woken"}})

-----------------------------------------------------------------------------
(***************************************************************************)
(* poll and flush.                                                         *)
(***************************************************************************)

\* flush returns only when every submitted request has been finished and
\* destroyed, if one thread makes all the calls: AsyncIO.java:61-62, "Wait
\* until all requests have been processed".
FlushWaits ==
  [][\A c \in Clients :
       cpc[c] = "flush" /\ cpc'[c] = "app" => live \cap Reqs = {}]_vars

\* A flush comes to its end: the result of every request wakes block().
FlushTerminates == \A c \in Clients : cpc[c] = "flush" ~> cpc[c] = "app"

\* Every submitted request is executed, finished and destroyed.
AllFinish == \A r \in Reqs : r \in live ~> r \notin live

-----------------------------------------------------------------------------
(***************************************************************************)
(* The pool implements EioService.                                         *)
(***************************************************************************)
StageInPoll(c) == CASE cpc[c] = "dec"    -> "taken"
                    [] cpc[c] = "finish" -> "released"
                    [] OTHER             -> "calling"

Stage(r) ==
  CASE r \in fresh                        -> "unused"
    [] r \in Members(req_queue)           -> "queued"
    [] \E w \in Workers : wreq[w] = r     -> "running"
    [] r \in Members(res_queue)           -> "done"
    [] \E c \in Clients : cur[c] = r      -> StageInPoll(CHOOSE c \in Clients : cur[c] = r)
    [] OTHER                              -> "gone"

Service == INSTANCE EioService WITH
             st <- [r \in Reqs |-> Stage(r)], prio <- [r \in Reqs |-> pri[r]],
             performed <- executed, count <- nreqs, readable <- pipe > 0

\* Every behaviour of the pool, seen from the requests, is one of EioService:
\* each request goes through its stages once and in order, the most urgent
\* first, eio_nreqs counts exactly those not yet handed to eio_finish, and
\* the descriptor is readable exactly while a result waits.
ServiceSpec == Service!Spec

-----------------------------------------------------------------------------
(***************************************************************************)
(* What the documentation says and the code does not keep.                 *)
(***************************************************************************)

\* eio.pod:196-198, "the number of worker threads currently running": with no
\* thread on its way out and no etp_end_thread half done, started is not more
\* than the threads there are.  It is when the thread a type -1 request was
\* meant for has left by its idle timeout: both lower started, past zero.
NthreadsIsRunning ==
  /\ \A w \in Workers : wpc[w] \notin {"retire", "quit"}
  /\ \A c \in Clients : cpc[c] # "end_dec"
  => started <= Cardinality({w \in Workers : wpc[w] # "off"})
=============================================================================
