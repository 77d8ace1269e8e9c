------------------------------- MODULE AsyncIO -------------------------------
(***************************************************************************)
(* The life of a request on the Java side of asyncio.c: its java_data, its *)
(* global references, the RequestWrapper that Java code holds, and the     *)
(* callback.  libeio is the abstract service of EioService.tla.            *)
(*                                                                         *)
(* A call of an operation is alloc_java_data (Begin), the constructor of   *)
(* libeio (Submit) and wrap_request (Wrap).  A call of poll takes the      *)
(* results one by one (Take, Release) and runs completion_callback (Call,  *)
(* CallbackReturns, Cleanup) and eio_destroy (Destroy) for each.  Java     *)
(* code calls operations from callbacks too.                               *)
(***************************************************************************)
EXTENDS Integers, FiniteSets

CONSTANTS
  Reqs,        \* the calls of operations, and the requests they create
  Pris,        \* priorities
  Threads,     \* Java threads
  Submitters,  \* those that call operations
  Pollers,     \* those that call poll
  NoReq, NoThread,
  AllocFails   \* TRUE iff the constructor of libeio may find no memory

ASSUME AsyncIOAssumption ==
  /\ Submitters \cup Pollers \subseteq Threads
  /\ NoReq \notin Reqs /\ NoThread \notin Threads
  /\ AllocFails \in BOOLEAN

VARIABLES
  st, prio, cancelled, performed, count, readable,  \* libeio
  data,         \* per request: its struct java_data
  env,          \* data->env, as the thread it belongs to
  callback,     \* data->java_callback
  java_request, \* data->java_request
  complete,     \* the requests with data->complete = 1
  refs,         \* the global references
  wrappers,     \* the requests Java code has a RequestWrapper of
  failed,       \* the calls whose constructor returned NULL
  entered,      \* the requests whose Java callback has been entered
  calling, sub, \* per thread: where it is in an operation, and which
  polling, cur, \* per thread: where it is in poll, and the request finished
  pending,      \* the threads with a pending Java exception
  answer        \* what complete() has just returned, and for which request

eioVars    == <<st, prio, cancelled, performed, count, readable>>
dataVars   == <<data, env, callback, java_request, complete>>
javaVars   == <<refs, wrappers, failed, entered>>
threadVars == <<calling, sub, polling, cur, pending>>
vars       == <<eioVars, dataVars, javaVars, threadVars, answer>>

Eio == INSTANCE EioService

NoAnswer == [req |-> NoReq, value |-> FALSE]

Init ==
  /\ Eio!Init
  /\ data = [r \in Reqs |-> "none"] /\ env = [r \in Reqs |-> NoThread]
  /\ callback = [r \in Reqs |-> "null"]
  /\ java_request = [r \in Reqs |-> "garbage"]
  /\ complete = {} /\ refs = {} /\ wrappers = {} /\ failed = {} /\ entered = {}
  /\ calling = [t \in Threads |-> "no"] /\ sub = [t \in Threads |-> NoReq]
  /\ polling = [t \in Threads |-> "no"] /\ cur = [t \in Threads |-> NoReq]
  /\ pending = {}
  /\ answer = NoAnswer

\* Thread t runs Java code: the application's, or a callback's.
InJava(t) == calling[t] = "no" /\ polling[t] \in {"no", "callback"}

-----------------------------------------------------------------------------
(***************************************************************************)
(* A call of an operation.                                                 *)
(***************************************************************************)

\* alloc_java_data.  bzero clears as many bytes as a pointer has, and so not
\* java_request.
Begin(t, r) ==
  /\ t \in Submitters /\ InJava(t)
  /\ data[r] = "none"
  /\ data' = [data EXCEPT ![r] = "allocated"]
  /\ env' = [env EXCEPT ![r] = t]
  /\ \E c \in {"null", "ref"} :
       /\ callback' = [callback EXCEPT ![r] = c]
       /\ refs' = IF c = "ref" THEN refs \cup {<<r, "callback">>} ELSE refs
  /\ calling' = [calling EXCEPT ![t] = "submit"]
  /\ sub' = [sub EXCEPT ![t] = r]
  /\ UNCHANGED <<eioVars, java_request, complete, wrappers, failed, entered,
                 polling, cur, pending>>

Submit(t) ==
  /\ calling[t] = "submit"
  /\ Eio!Submit(sub[t])
  /\ calling' = [calling EXCEPT ![t] = "wrap"]
  /\ UNCHANGED <<dataVars, javaVars, sub, polling, cur, pending>>

BugSubmitFails(t) ==
  /\ AllocFails
  /\ calling[t] = "submit"
  /\ failed' = failed \cup {sub[t]}
  /\ data' = [data EXCEPT ![sub[t]] = "freed"]
  /\ calling' = [calling EXCEPT ![t] = "wrap"]
  /\ UNCHANGED <<eioVars, env, callback, java_request, complete, refs, wrappers,
                 entered, sub, polling, cur, pending>>

\* The constructor returns NULL, and wrap_request wraps that.
SubmitFails(t) ==
  /\ AllocFails
  /\ calling[t] = "submit"
  /\ failed' = failed \cup {sub[t]}
  /\ calling' = [calling EXCEPT ![t] = "wrap"]
  /\ UNCHANGED <<eioVars, dataVars, refs, wrappers, entered, sub, polling, cur,
                 pending>>

BugWrap(t) ==
  /\ calling[t] = "wrap"
  /\ refs' = refs \cup {<<sub[t], "request">>}
  /\ wrappers' = wrappers \cup {sub[t]}
  /\ calling' = [calling EXCEPT ![t] = "no"]
  /\ sub' = [sub EXCEPT ![t] = NoReq]
  /\ UNCHANGED <<eioVars, dataVars, failed, entered, polling, cur, pending>>

\* wrap_request writes to data, whether it is still allocated or not.
Wrap(t) ==
  /\ calling[t] = "wrap"
  /\ java_request' = [java_request EXCEPT ![sub[t]] = "wrapper"]
  /\ refs' = refs \cup {<<sub[t], "request">>}
  /\ wrappers' = wrappers \cup {sub[t]}
  /\ calling' = [calling EXCEPT ![t] = "no"]
  /\ sub' = [sub EXCEPT ![t] = NoReq]
  /\ UNCHANGED <<eioVars, data, env, callback, complete, failed, entered,
                 polling, cur, pending>>

-----------------------------------------------------------------------------
(***************************************************************************)
(* A call of poll.                                                         *)
(***************************************************************************)
GoOn(t, label) == polling' = [polling EXCEPT ![t] = label]

Poll(t) ==
  /\ t \in Pollers /\ calling[t] = "no" /\ polling[t] = "no"
  /\ GoOn(t, "loop")
  /\ UNCHANGED <<eioVars, dataVars, javaVars, calling, sub, cur, pending>>

Take(t) ==
  /\ polling[t] = "loop"
  /\ \E r \in Reqs : Eio!Take(r) /\ cur' = [cur EXCEPT ![t] = r]
  /\ GoOn(t, "taken")
  /\ UNCHANGED <<dataVars, javaVars, calling, sub, pending>>

Release(t) ==
  /\ polling[t] = "taken"
  /\ Eio!Release(cur[t])
  /\ GoOn(t, "released")
  /\ UNCHANGED <<dataVars, javaVars, calling, sub, cur, pending>>

\* poll is over: an exception left pending on this thread is thrown.
Return(t) == GoOn(t, "no") /\ pending' = pending \ {t}

ReturnNothing(t) ==
  /\ polling[t] = "loop"
  /\ Eio!At("done") = {}
  /\ Return(t)
  /\ UNCHANGED <<eioVars, dataVars, javaVars, calling, sub, cur>>

HasCallback(r) == callback[r] = "ref"

\* completion_callback up to CallObjectMethod, with the JNIEnv of the thread
\* that submitted.  With an exception pending in it JNI defines nothing: the
\* method may or may not run.
Call(t) ==
  /\ polling[t] = "released"
  /\ Eio!Call(cur[t])
  /\ complete' = complete \cup {cur[t]}
  /\ \/ /\ HasCallback(cur[t])
        /\ entered' = entered \cup {cur[t]}
        /\ GoOn(t, "callback")
     \/ /\ ~HasCallback(cur[t]) \/ env[cur[t]] \in pending
        /\ UNCHANGED entered
        /\ GoOn(t, "cleanup")
  /\ UNCHANGED <<data, env, callback, java_request, refs, wrappers, failed,
                 calling, sub, cur, pending>>

CallbackReturns(t) ==
  /\ polling[t] = "callback" /\ calling[t] = "no"
  /\ pending' \in {pending, pending \cup {env[cur[t]]}}
  /\ GoOn(t, "cleanup")
  /\ UNCHANGED <<eioVars, dataVars, javaVars, calling, sub, cur>>

\* The references deleted by completion_callback
BugOwnRefs(r) == {<<r, "request">>}
OwnRefs(r) == {<<r, "callback">>, <<r, "request">>}

Cleanup(t) ==
  /\ polling[t] = "cleanup"
  /\ refs' = refs \ OwnRefs(cur[t])
  /\ data' = [data EXCEPT ![cur[t]] = "freed"]
  /\ GoOn(t, "destroy")
  /\ UNCHANGED <<eioVars, env, callback, java_request, complete, wrappers,
                 failed, entered, calling, sub, cur, pending>>

\* eio_destroy.  completion_callback has no return statement: whatever value
\* is left makes etp_poll return or go on.
Destroy(t) ==
  /\ polling[t] = "destroy"
  /\ Eio!Destroy(cur[t])
  /\ cur' = [cur EXCEPT ![t] = NoReq]
  /\ \/ GoOn(t, "loop") /\ UNCHANGED pending
     \/ Return(t)
  /\ UNCHANGED <<dataVars, javaVars, calling, sub>>

-----------------------------------------------------------------------------
(***************************************************************************)
(* Java code asks a request it has whether it is complete: before the      *)
(* callback, in it, or at any time later.  (A wrapper of a failed call     *)
(* holds the pointer 0, and to ask it ends the process.)                   *)
(***************************************************************************)
Allocated(r) == data[r] = "allocated" /\ st[r] # "gone"

\* complete() follows the two pointers without a test.  Once either block is
\* freed, what it reads is undefined.
Ask(t, r) ==
  /\ InJava(t)
  /\ r \in wrappers \ failed
  /\ \E value \in IF Allocated(r) THEN {r \in complete} ELSE BOOLEAN :
       answer' = [req |-> r, value |-> value]
  /\ UNCHANGED <<eioVars, dataVars, javaVars, threadVars>>

-----------------------------------------------------------------------------
Operation(t) == \E r \in Reqs : Begin(t, r)

Continue(t) == \/ Submit(t) \/ SubmitFails(t) \/ Wrap(t)
               \/ Take(t) \/ Release(t) \/ ReturnNothing(t)
               \/ Call(t) \/ CallbackReturns(t) \/ Cleanup(t) \/ Destroy(t)

Worker(r) == /\ Eio!Start(r) \/ Eio!Perform(r) \/ Eio!Complete(r)
             /\ UNCHANGED <<dataVars, javaVars, threadVars>>

Next == \/ /\ \/ \E t \in Threads : Operation(t) \/ Poll(t) \/ Continue(t)
              \/ \E r \in Reqs : Worker(r)
           /\ answer' = NoAnswer
        \/ \E t \in Threads, r \in Reqs : Ask(t, r)

Spec == Init /\ [][Next]_vars
=============================================================================
