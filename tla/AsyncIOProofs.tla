--------------------------- MODULE AsyncIOProofs ---------------------------
(***************************************************************************)
(* Proofs about the life of a request on the Java side of asyncio.c, for   *)
(* any number of requests and threads.                                     *)
(*                                                                         *)
(* What is proved of the wrapper and of the java_data needs one thread to  *)
(* call both the operations and poll: with two, a result may be polled     *)
(* before wrap_request has stored the wrapper.                             *)
(***************************************************************************)
EXTENDS AsyncIOProps, TLAPS

\* The thread that calls poll is the one that calls the operations.
OneThread == \A s \in Submitters, p \in Pollers : s = p

TypeOK ==
  /\ st \in [Reqs -> Eio!Stages] /\ cancelled = {}
  /\ data \in [Reqs -> {"none", "allocated", "freed"}]
  /\ callback \in [Reqs -> {"null", "ref"}]
  /\ java_request \in [Reqs -> {"garbage", "wrapper"}]
  /\ complete \subseteq Reqs /\ wrappers \subseteq Reqs /\ failed \subseteq Reqs
  /\ calling \in [Threads -> {"no", "submit", "wrap"}]
  /\ sub \in [Threads -> Reqs \cup {NoReq}]
  /\ polling \in [Threads -> {"no", "loop", "taken", "released", "callback",
                              "cleanup", "destroy"}]
  /\ cur \in [Threads -> Reqs \cup {NoReq}]

\* A thread in an operation has its request, and is not inside poll, unless
\* in a callback.
SubmittersOK ==
  \A t \in Threads :
    /\ calling[t] = "no" => sub[t] = NoReq
    /\ calling[t] # "no" => /\ t \in Submitters /\ sub[t] \in Reqs
                            /\ polling[t] \in {"no", "callback"}
                            /\ \A u \in Threads : sub[u] = sub[t] => u = t

\* A thread in poll has the request it finishes, and the stage of that request
\* is where the thread is.
PollersOK ==
  \A t \in Threads :
    /\ polling[t] # "no" => t \in Pollers
    /\ polling[t] \in {"no", "loop"} => cur[t] = NoReq
    /\ polling[t] \notin {"no", "loop"} =>
         /\ cur[t] \in Reqs
         /\ \A u \in Threads : cur[u] = cur[t] => u = t
         /\ st[cur[t]] = CASE polling[t] = "taken"    -> "taken"
                           [] polling[t] = "released" -> "released"
                           [] OTHER                   -> "calling"
         /\ data[cur[t]] = IF polling[t] = "destroy" THEN "freed" ELSE "allocated"

\* The request is in an operation that has not returned.
InOperation(r) == \E t \in Threads : sub[t] = r

\* The java_data of a request is there from alloc_java_data to the cleanup,
\* and its wrapper from the end of the operation.
RequestsOK ==
  \A r \in Reqs :
    /\ data[r] = "none" => /\ st[r] = "unused" /\ ~InOperation(r)
                           /\ r \notin wrappers \cup failed
    /\ data[r] = "freed" => /\ st[r] \in {"calling", "gone"} /\ ~InOperation(r)
                            /\ r \in wrappers \ failed
    /\ data[r] = "allocated" =>
         /\ r \in wrappers <=> ~InOperation(r)
         /\ r \in failed => st[r] = "unused"
         /\ st[r] # "gone"
         /\ st[r] \notin {"unused", "queued", "running", "done"} => ~InOperation(r)
         /\ r \notin failed /\ ~InOperation(r) => st[r] # "unused"
    /\ r \in wrappers => java_request[r] = "wrapper"
    /\ \A t \in Threads : sub[t] = r =>
         (calling[t] = "submit" <=> st[r] = "unused" /\ r \notin failed)

RefsOK ==
  refs = {<<r, "callback">> : r \in {q \in Reqs : data[q] = "allocated"
                                                  /\ callback[q] = "ref"}}
         \cup {<<r, "request">> : r \in wrappers \ {q \in Reqs : data[q] = "freed"}}

IInv == TypeOK /\ SubmittersOK /\ PollersOK /\ RequestsOK /\ RefsOK


-----------------------------------------------------------------------------
(***************************************************************************)
(* The steps of libeio.                                                    *)
(***************************************************************************)
LEMMA EioStages == Eio!Stages = {"unused", "queued", "running", "done", "taken",
                                 "released", "calling", "gone"}
BY DEF Eio!Stages

\* What the steps of EioService do to the stages
LEMMA EioSteps ==
  ASSUME NEW r
  PROVE  /\ Eio!Submit(r) => r \in Reqs /\ st[r] = "unused" /\ UNCHANGED cancelled
                             /\ st' = [st EXCEPT ![r] = "queued"]
         /\ Eio!Start(r) => r \in Reqs /\ st[r] = "queued" /\ UNCHANGED cancelled
                            /\ st' = [st EXCEPT ![r] = "running"]
         /\ Eio!Perform(r) => UNCHANGED <<st, cancelled>>
         /\ Eio!Complete(r) => r \in Reqs /\ st[r] = "running" /\ UNCHANGED cancelled
                               /\ st' = [st EXCEPT ![r] = "done"]
         /\ Eio!Take(r) => r \in Reqs /\ st[r] = "done" /\ UNCHANGED cancelled
                           /\ st' = [st EXCEPT ![r] = "taken"]
         /\ Eio!Release(r) => r \in Reqs /\ st[r] = "taken" /\ UNCHANGED cancelled
                              /\ st' = [st EXCEPT ![r] = "released"]
         /\ Eio!Call(r) => r \in Reqs /\ st[r] = "released" /\ UNCHANGED cancelled
                           /\ st' = [st EXCEPT ![r] = "calling"]
         /\ Eio!Destroy(r) => /\ r \in Reqs /\ UNCHANGED cancelled
                              /\ st[r] = "calling" \/ r \in cancelled
                              /\ st' = [st EXCEPT ![r] = "gone"]
BY DEF Eio!Submit, Eio!Start, Eio!Perform, Eio!Complete, Eio!Take, Eio!Release,
       Eio!Call, Eio!Destroy, Eio!MoveTo, Eio!Foremost, Eio!At

\* A step that changes neither java_data nor wrappers nor references
LEMMA RefsFrame ==
  ASSUME RefsOK, UNCHANGED <<data, callback, wrappers, refs>>
  PROVE  RefsOK'
BY DEF RefsOK

\* A worker thread moves a request that is past etp_submit, or none.
LEMMA WorkerStep ==
  ASSUME IInv, NEW r \in Reqs, Worker(r)
  PROVE  IInv'
<1> USE DEF dataVars, javaVars, threadVars
<1>1. /\ UNCHANGED <<data, env, callback, java_request, complete, refs, wrappers, failed,
                     entered, calling, sub, polling, cur, pending>>
      /\ UNCHANGED cancelled
      /\ \/ UNCHANGED st
         \/ st[r] = "queued" /\ st' = [st EXCEPT ![r] = "running"]
         \/ st[r] = "running" /\ st' = [st EXCEPT ![r] = "done"]
  BY EioSteps DEF Worker
<1>2. TypeOK'
  BY <1>1, EioStages DEF IInv, TypeOK
<1>3. SubmittersOK'
  BY <1>1 DEF IInv, SubmittersOK
<1>4. PollersOK'
  BY <1>1 DEF IInv, TypeOK, PollersOK
<1>5. RequestsOK'
  BY <1>1 DEF IInv, TypeOK, RequestsOK, InOperation
<1>6. RefsOK'
  BY <1>1, RefsFrame DEF IInv
<1> QED
  BY <1>2, <1>3, <1>4, <1>5, <1>6 DEF IInv

-----------------------------------------------------------------------------
(***************************************************************************)
(* The steps of an operation.                                              *)
(***************************************************************************)
LEMMA BeginStep ==
  ASSUME IInv, NEW t \in Threads, NEW r \in Reqs, Begin(t, r)
  PROVE  IInv'
<1> USE DEF eioVars
<1>1. /\ t \in Submitters /\ calling[t] = "no" /\ polling[t] \in {"no", "callback"}
      /\ data[r] = "none" /\ data' = [data EXCEPT ![r] = "allocated"]
      /\ calling' = [calling EXCEPT ![t] = "submit"] /\ sub' = [sub EXCEPT ![t] = r]
      /\ UNCHANGED <<st, cancelled, java_request, complete, wrappers, failed, entered,
                     polling, cur>>
  BY DEF Begin, InJava
<1>2. PICK c \in {"null", "ref"} :
        /\ callback' = [callback EXCEPT ![r] = c]
        /\ refs' = IF c = "ref" THEN refs \cup {<<r, "callback">>} ELSE refs
  BY DEF Begin
<1>3. st[r] = "unused" /\ r \notin wrappers \cup failed /\ \A u \in Threads : sub[u] # r
  BY <1>1 DEF IInv, RequestsOK, InOperation
<1>4. TypeOK'
  BY <1>1, <1>2 DEF IInv, TypeOK
<1>5. SubmittersOK'
  BY <1>1, <1>3, AsyncIOAssumption DEF IInv, TypeOK, SubmittersOK
<1>6. PollersOK'
  BY <1>1 DEF IInv, TypeOK, PollersOK
<1>7. RequestsOK'
  BY <1>1, <1>3, AsyncIOAssumption DEF IInv, TypeOK, RequestsOK, InOperation, SubmittersOK
<1>8. RefsOK'
  BY <1>1, <1>2, <1>3 DEF IInv, TypeOK, RefsOK
<1> QED
  BY <1>4, <1>5, <1>6, <1>7, <1>8 DEF IInv

LEMMA SubmitStep ==
  ASSUME IInv, NEW t \in Threads, Submit(t) \/ SubmitFails(t)
  PROVE  IInv'
<1> USE DEF eioVars, dataVars, javaVars
<1>0. PICK r \in Reqs : r = sub[t]
  BY DEF IInv, SubmittersOK, Submit, SubmitFails
<1>1. /\ calling[t] = "submit" /\ calling' = [calling EXCEPT ![t] = "wrap"]
      /\ UNCHANGED <<data, callback, java_request, complete, refs, wrappers, entered,
                     sub, polling, cur, cancelled>>
      /\ \/ st' = [st EXCEPT ![r] = "queued"] /\ failed' = failed
         \/ st' = st /\ failed' = failed \cup {r}
  BY <1>0, EioSteps DEF Submit, SubmitFails
<1>2. st[r] = "unused" /\ r \notin failed /\ data[r] = "allocated" /\ r \notin wrappers
  BY <1>0, <1>1 DEF IInv, TypeOK, RequestsOK, InOperation
<1>3. TypeOK'
  BY <1>1, EioStages DEF IInv, TypeOK
<1>4. SubmittersOK'
  BY <1>1 DEF IInv, TypeOK, SubmittersOK
<1>5. PollersOK'
  BY <1>1, <1>2 DEF IInv, TypeOK, PollersOK
<1>6. RequestsOK'
  BY <1>0, <1>1, <1>2 DEF IInv, TypeOK, RequestsOK, InOperation, SubmittersOK
<1>7. RefsOK'
  BY <1>1, RefsFrame DEF IInv
<1> QED
  BY <1>3, <1>4, <1>5, <1>6, <1>7 DEF IInv

LEMMA WrapStep ==
  ASSUME IInv, NEW t \in Threads, Wrap(t)
  PROVE  IInv'
<1> USE DEF eioVars
<1>0. PICK r \in Reqs : r = sub[t]
  BY DEF IInv, SubmittersOK, Wrap
<1>1. /\ calling[t] = "wrap" /\ calling' = [calling EXCEPT ![t] = "no"]
      /\ sub' = [sub EXCEPT ![t] = NoReq]
      /\ java_request' = [java_request EXCEPT ![r] = "wrapper"]
      /\ refs' = refs \cup {<<r, "request">>} /\ wrappers' = wrappers \cup {r}
      /\ UNCHANGED <<st, cancelled, data, callback, complete, failed, entered, polling, cur>>
  BY <1>0 DEF Wrap
<1>2. /\ data[r] = "allocated" /\ r \notin wrappers
      /\ r \in failed <=> st[r] = "unused"
  BY <1>0, <1>1 DEF IInv, TypeOK, RequestsOK, InOperation
<1>3. \A u \in Threads : sub[u] = r => u = t
  BY <1>0, <1>1 DEF IInv, SubmittersOK
<1>4. TypeOK'
  BY <1>1 DEF IInv, TypeOK
<1>5. SubmittersOK'
  BY <1>1, AsyncIOAssumption DEF IInv, TypeOK, SubmittersOK
<1>6. PollersOK'
  BY <1>1 DEF IInv, TypeOK, PollersOK
<1>7. RequestsOK'
  BY <1>0, <1>1, <1>2, <1>3, AsyncIOAssumption DEF IInv, TypeOK, RequestsOK, InOperation
<1>8. RefsOK'
  BY <1>1, <1>2 DEF IInv, TypeOK, RefsOK
<1> QED
  BY <1>4, <1>5, <1>6, <1>7, <1>8 DEF IInv

-----------------------------------------------------------------------------
(***************************************************************************)
(* The steps of poll.                                                      *)
(***************************************************************************)

\* poll takes a result.  The operation that submitted it is over: the thread
\* that runs poll would otherwise be in it.
LEMMA TakeStep ==
  ASSUME OneThread, IInv, NEW t \in Threads, Take(t)
  PROVE  IInv'
<1> USE DEF dataVars, javaVars
<1>0. PICK r \in Reqs : Eio!Take(r) /\ cur' = [cur EXCEPT ![t] = r]
  BY DEF Take
<1>1. /\ polling[t] = "loop" /\ polling' = [polling EXCEPT ![t] = "taken"]
      /\ st[r] = "done" /\ st' = [st EXCEPT ![r] = "taken"]
      /\ UNCHANGED <<cancelled, data, callback, java_request, complete, refs, wrappers,
                     failed, calling, sub>>
  BY <1>0, EioSteps DEF Take, GoOn
<1>2. ~InOperation(r)
  <2>1. ASSUME NEW u \in Threads, sub[u] = r PROVE FALSE
    <3>1. u \in Submitters /\ polling[u] \in {"no", "callback"}
      BY <2>1, AsyncIOAssumption DEF IInv, SubmittersOK
    <3>2. t \in Pollers
      BY <1>1 DEF IInv, PollersOK
    <3> QED
      BY <1>1, <3>1, <3>2 DEF OneThread
  <2> QED
    BY <2>1 DEF InOperation
<1>3. data[r] = "allocated" /\ \A u \in Threads : cur[u] # r
  BY <1>1, AsyncIOAssumption DEF IInv, TypeOK, RequestsOK, PollersOK
<1>4. TypeOK'
  BY <1>0, <1>1, EioStages DEF IInv, TypeOK
<1>5. SubmittersOK'
  BY <1>1 DEF IInv, TypeOK, SubmittersOK
<1>6. PollersOK'
  BY <1>0, <1>1, <1>3 DEF IInv, TypeOK, PollersOK
<1>7. RequestsOK'
  BY <1>1, <1>2, <1>3 DEF IInv, TypeOK, RequestsOK, InOperation
<1>8. RefsOK'
  BY <1>1, RefsFrame DEF IInv
<1> QED
  BY <1>4, <1>5, <1>6, <1>7, <1>8 DEF IInv

\* The request a poll holds, when it is not its java_data that changes
LEMMA CurStep ==
  ASSUME IInv, NEW t \in Threads, Release(t) \/ Call(t) \/ Destroy(t)
  PROVE  IInv'
<1> USE DEF dataVars, javaVars
<1>0. PICK r : r = cur[t]
  OBVIOUS
<1>1. /\ r \in Reqs /\ UNCHANGED <<cancelled, data, callback, java_request, refs,
                                   wrappers, failed, calling, sub>>
      /\ complete' = complete \/ complete' = complete \cup {r}
  BY <1>0, EioSteps DEF IInv, PollersOK, Release, Call, Destroy
<1>2. \/ /\ polling[t] = "taken" /\ polling' = [polling EXCEPT ![t] = "released"]
         /\ st[r] = "taken" /\ st' = [st EXCEPT ![r] = "released"]
         /\ UNCHANGED cur
      \/ /\ polling[t] = "released"
         /\ \E s \in {"callback", "cleanup"} : polling' = [polling EXCEPT ![t] = s]
         /\ st[r] = "released" /\ st' = [st EXCEPT ![r] = "calling"]
         /\ UNCHANGED cur
      \/ /\ polling[t] = "destroy"
         /\ \E s \in {"no", "loop"} : polling' = [polling EXCEPT ![t] = s]
         /\ st[r] = "calling" /\ st' = [st EXCEPT ![r] = "gone"]
         /\ cur' = [cur EXCEPT ![t] = NoReq]
  BY <1>0, EioSteps DEF IInv, TypeOK, Release, Call, Destroy, Return, GoOn
<1>3. /\ data[r] = IF polling[t] = "destroy" THEN "freed" ELSE "allocated"
      /\ \A u \in Threads : cur[u] = r => u = t
      /\ t \in Pollers
  BY <1>0, <1>2 DEF IInv, PollersOK
<1>4. ~InOperation(r)
  BY <1>1, <1>2, <1>3 DEF IInv, TypeOK, RequestsOK
<1>5. TypeOK'
  BY <1>1, <1>2, EioStages DEF IInv, TypeOK
<1>6. SubmittersOK'
  BY <1>1, <1>2 DEF IInv, TypeOK, SubmittersOK
<1>7. PollersOK'
  BY <1>0, <1>1, <1>2, <1>3, AsyncIOAssumption DEF IInv, TypeOK, PollersOK
<1>8. RequestsOK'
  BY <1>1, <1>2, <1>3, <1>4 DEF IInv, TypeOK, RequestsOK, InOperation
<1>9. RefsOK'
  BY <1>1, RefsFrame DEF IInv
<1> QED
  BY <1>5, <1>6, <1>7, <1>8, <1>9 DEF IInv

\* The end of completion_callback: both references and the java_data go.
LEMMA CleanupStep ==
  ASSUME IInv, NEW t \in Threads, Cleanup(t)
  PROVE  IInv'
<1> USE DEF eioVars
<1>0. PICK r : r = cur[t]
  OBVIOUS
<1>1. /\ polling[t] = "cleanup" /\ polling' = [polling EXCEPT ![t] = "destroy"]
      /\ refs' = refs \ {<<r, "callback">>, <<r, "request">>}
      /\ data' = [data EXCEPT ![r] = "freed"]
      /\ UNCHANGED <<st, cancelled, callback, java_request, complete, wrappers, failed,
                     calling, sub, cur>>
  BY <1>0 DEF Cleanup, OwnRefs, GoOn
<1>2. /\ r \in Reqs /\ st[r] = "calling" /\ data[r] = "allocated"
      /\ \A u \in Threads : cur[u] = r => u = t
  BY <1>0, <1>1 DEF IInv, PollersOK
<1>3. ~InOperation(r) /\ r \in wrappers \ failed
  BY <1>2 DEF IInv, RequestsOK
<1>4. TypeOK'
  BY <1>1 DEF IInv, TypeOK
<1>5. SubmittersOK'
  BY <1>1 DEF IInv, TypeOK, SubmittersOK
<1>6. PollersOK'
  BY <1>0, <1>1, <1>2, AsyncIOAssumption DEF IInv, TypeOK, PollersOK
<1>7. RequestsOK'
  BY <1>1, <1>2, <1>3 DEF IInv, TypeOK, RequestsOK, InOperation
<1>8. RefsOK'
  BY <1>1, <1>2 DEF IInv, TypeOK, RefsOK
<1> QED
  BY <1>4, <1>5, <1>6, <1>7, <1>8 DEF IInv

\* The steps that change no request
LEMMA QuietStep ==
  ASSUME IInv, NEW t \in Threads, Poll(t) \/ ReturnNothing(t) \/ CallbackReturns(t)
  PROVE  IInv'
<1> USE DEF eioVars, dataVars, javaVars
<1>1. /\ UNCHANGED <<st, cancelled, data, callback, java_request, complete, refs,
                     wrappers, failed, calling, sub, cur>>
      /\ calling[t] = "no" \/ polling[t] = "loop"
      /\ \/ /\ polling[t] \in {"no", "loop"} /\ t \in Pollers
            /\ \E s \in {"no", "loop"} : polling' = [polling EXCEPT ![t] = s]
         \/ polling[t] = "callback" /\ polling' = [polling EXCEPT ![t] = "cleanup"]
  BY DEF Poll, ReturnNothing, CallbackReturns, Return, GoOn, IInv, PollersOK
<1>2. TypeOK'
  BY <1>1 DEF IInv, TypeOK
<1>3. SubmittersOK'
  BY <1>1 DEF IInv, TypeOK, SubmittersOK
<1>4. PollersOK'
  BY <1>1 DEF IInv, TypeOK, PollersOK
<1>5. RequestsOK'
  BY <1>1 DEF IInv, RequestsOK, InOperation
<1>6. RefsOK'
  BY <1>1, RefsFrame DEF IInv
<1> QED
  BY <1>2, <1>3, <1>4, <1>5, <1>6 DEF IInv

-----------------------------------------------------------------------------
(***************************************************************************)
(* The invariant, and what follows from it.                                *)
(***************************************************************************)
LEMMA InitIInv == Init => IInv
<1> SUFFICES ASSUME Init PROVE IInv
  OBVIOUS
<1>1. st = [r \in Reqs |-> "unused"] /\ cancelled = {}
  BY DEF Init, Eio!Init
<1>2. TypeOK
  BY <1>1, EioStages DEF Init, TypeOK
<1>3. SubmittersOK /\ PollersOK
  BY DEF Init, SubmittersOK, PollersOK
<1>4. RequestsOK
  BY <1>1, AsyncIOAssumption DEF Init, RequestsOK, InOperation
<1>5. RefsOK
  BY DEF Init, RefsOK
<1> QED
  BY <1>2, <1>3, <1>4, <1>5 DEF IInv

LEMMA NextIInv ==
  ASSUME OneThread, IInv, [Next]_vars
  PROVE  IInv'
<1>1. ASSUME UNCHANGED <<eioVars, dataVars, javaVars, threadVars>> PROVE IInv'
  BY <1>1 DEF eioVars, dataVars, javaVars, threadVars, IInv, TypeOK, SubmittersOK,
              PollersOK, RequestsOK, InOperation, RefsOK
<1>2. CASE \E t \in Threads, r \in Reqs : Ask(t, r)
  BY <1>1, <1>2 DEF Ask
<1>3. CASE UNCHANGED vars
  BY <1>1, <1>3 DEF vars
<1> QED
  BY <1>2, <1>3, WorkerStep, BeginStep, SubmitStep, WrapStep, TakeStep, CurStep,
     CleanupStep, QuietStep DEF Next, Operation, Continue

\* While one thread calls the operations and poll, a request, its java_data,
\* its wrapper and its references go through their lives together.
THEOREM AsyncIOInvariant ==
  ASSUME OneThread
  PROVE  Spec => []IInv
<1>1. IInv /\ [Next]_vars => IInv'
  BY NextIInv
<1> QED
  BY <1>1, InitIInv, PTL DEF Spec

\* completion_callback finds the wrapper that wrap_request stores only after
\* the constructor of libeio has submitted the request.
THEOREM WrapperThere ==
  ASSUME OneThread
  PROVE  Spec => []CallbackGetsWrapper
<1>1. IInv => CallbackGetsWrapper
  BY DEF IInv, PollersOK, RequestsOK, CallbackGetsWrapper, Called
<1> QED
  BY <1>1, AsyncIOInvariant, PTL

\* No java_data is used before alloc_java_data or after its free: not by
\* wrap_request, not by the callback, not by its cleanup.
THEOREM DataAllocated ==
  ASSUME OneThread
  PROVE  Spec => []DataLive
<1>1. IInv => DataLive
  <2> SUFFICES ASSUME IInv PROVE DataLive
    OBVIOUS
  <2>1. \A t \in Threads : calling[t] # "no" => data[sub[t]] = "allocated"
    BY DEF IInv, TypeOK, SubmittersOK, RequestsOK, InOperation
  <2>2. \A t \in Threads : polling[t] \in {"callback", "cleanup"} =>
          data[cur[t]] = "allocated"
    BY DEF IInv, PollersOK
  <2>3. \A r \in Reqs : st[r] \in Eio!Stages \ {"unused", "calling", "gone"} =>
          data[r] = "allocated"
    BY DEF IInv, TypeOK, RequestsOK
  <2> QED
    BY <2>1, <2>2, <2>3 DEF DataLive
<1> QED
  BY <1>1, AsyncIOInvariant, PTL

\* The memory and the global references of a request end with its cleanup,
\* and none are left except those of a constructor that returned NULL.
THEOREM NoLeak ==
  ASSUME OneThread
  PROVE  Spec => []NothingLeaks
<1>1. IInv => NothingLeaks
  BY DEF IInv, RequestsOK, RefsOK, NothingLeaks, InOperation
<1> QED
  BY <1>1, AsyncIOInvariant, PTL
=============================================================================
