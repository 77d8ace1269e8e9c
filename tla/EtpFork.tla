------------------------------- MODULE EtpFork -------------------------------
(***************************************************************************)
(* fork () in a program that uses the thread pool of EtpPool.tla: the      *)
(* three handlers that etp_once_init registers (eio.c:382-437).            *)
(*                                                                         *)
(* The handler before the fork takes wrklock, reqlock and reslock.  No     *)
(* thread waits for anything while it holds one of them, so it succeeds,   *)
(* and the fork falls between two critical sections: it is one step here.  *)
(* The handler in the parent releases the locks and changes nothing; a     *)
(* behaviour of this module that forks goes on in the child.  Of the       *)
(* parent it keeps what the two still share, the pipe: libeio does not     *)
(* replace it, so both processes write to it and read from it.             *)
(***************************************************************************)
EXTENDS EtpPoolProps

VARIABLES
  child,       \* TRUE iff the process is the child
  parentByte,  \* in the child: the bytes in the pipe that are the parent's
  leaked       \* in the child: requests no thread will ever destroy

forkVars == <<vars, child, parentByte, leaked>>

ForkInit == Init /\ child = FALSE /\ parentByte = 0 /\ leaked = {}

\* What the child's handler destroys: the requests in the two queues and,
\* for every worker in the list, its current request
BugDestroyed == Members(req_queue) \cup Members(res_queue)
Destroyed == (Members(req_queue) \cup Members(res_queue)
              \cup {wreq[w] : w \in Workers}) \ {NoReq}

BugResetCounts == nreqs' = 0 /\ npending' = 0 /\ UNCHANGED nready
ResetCounts == nreqs' = 0 /\ nready' = 0 /\ npending' = 0

BugResetThreads == started' = 0 /\ UNCHANGED idle
ResetThreads == started' = 0 /\ idle' = 0

\* The pipe in the child, with the byte of the results that were not polled
BugForkPipe == 0
ForkPipe == pipe

\* What nothing in the child refers to: the requests other threads had taken
\* from res_queue, and the type -1 requests nobody frees
LeakedBy(c) == ({cur[d] : d \in Clients \ {c}} \cup (QuitsTaken \ Destroyed)) \ {NoReq}

\* Only the thread that forks exists in the child.  A destroyed request is
\* memory the child may allocate again.
Fork(c) ==
  /\ ~child
  /\ InUserCode(c)
  /\ child' = TRUE
  /\ parentByte' = (IF res_queue.size = 0 THEN 0 ELSE 1)
  /\ leaked' = LeakedBy(c)
  /\ req_queue' = EmptyReqq /\ res_queue' = EmptyReqq
  /\ ResetCounts
  /\ ResetThreads
  /\ pipe' = ForkPipe
  /\ live' = live \ (Destroyed \cup leaked')
  /\ fresh' = fresh \cup Destroyed
  /\ cancelled' = cancelled \ Destroyed
  /\ executed' = executed \ Destroyed
  /\ wpc' = [w \in Workers |-> "off"] /\ wreq' = [w \in Workers |-> NoReq]
  /\ cpc' = [d \in Clients |-> IF d = c THEN cpc[c] ELSE "app"]
  /\ after' = [d \in Clients |-> IF d = c THEN after[c] ELSE "app"]
  /\ cur' = [d \in Clients |-> IF d = c THEN cur[c] ELSE NoReq]
  /\ tmp' = [d \in Clients |-> 0]
  /\ left' = [d \in Clients |-> IF d = c THEN left[c] ELSE 0]
  /\ flushing' = [d \in Clients |-> d = c /\ flushing[c]]
  /\ UNCHANGED <<limitVars, pri>>

\* The parent's want_poll and done_poll, at the transitions of its res_queue
ParentWantPoll ==
  /\ child /\ parentByte = 0
  /\ parentByte' = 1 /\ pipe' = pipe + 1
  /\ UNCHANGED <<queueVars, countVars, threadVars, limitVars, reqVars,
                 workerVars, clientVars, child, leaked>>

ParentDonePoll ==
  /\ child /\ parentByte = 1 /\ pipe > 0
  /\ parentByte' = 0 /\ pipe' = pipe - 1
  /\ UNCHANGED <<queueVars, countVars, threadVars, limitVars, reqVars,
                 workerVars, clientVars, child, leaked>>

ForkNext == \/ Next /\ UNCHANGED <<child, parentByte, leaked>>
            \/ \E c \in Clients : Fork(c)
            \/ ParentWantPoll \/ ParentDonePoll

ForkSpec == ForkInit /\ [][ForkNext]_forkVars

-----------------------------------------------------------------------------

\* Both processes write a byte when their own res_queue gets its first result
\* and read one when they take the last: the pipe is the sum, so neither can
\* take the byte the other waits for, and neither blocks in done_poll.  The
\* byte of the results the child has destroyed is the parent's to read.
PipeServesBoth == pipe = (IF res_queue.size = 0 THEN 0 ELSE 1) + parentByte
=============================================================================
