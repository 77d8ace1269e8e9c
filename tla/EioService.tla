----------------------------- MODULE EioService -----------------------------
(***************************************************************************)
(* What libeio promises the program that submits requests, without         *)
(* threads, locks or queues: the life of each request, the number          *)
(* eio_nreqs reports and the readability of wakeUpFileDescriptor.          *)
(* EtpPool.tla implements this specification (ServiceSpec in               *)
(* EtpPoolProps.tla).                                                      *)
(***************************************************************************)
EXTENDS Integers, FiniteSets

CONSTANTS Reqs,   \* the requests
          Pris    \* the priorities, a set of integers

VARIABLES
  st,         \* the stage each request has reached
  prio,       \* its priority
  cancelled,  \* the requests eio_cancel was called for
  performed,  \* the requests whose system call has been made
  count,      \* what eio_nreqs returns
  readable    \* whether the descriptor is readable

vars == <<st, prio, cancelled, performed, count, readable>>

(***************************************************************************)
(* The stages, in order.  "taken" and "released" are inside eio_poll:      *)
(* before and after the request leaves the count.                          *)
(***************************************************************************)
Stages == {"unused", "queued", "running", "done", "taken", "released",
           "calling", "gone"}

At(stage) == {r \in Reqs : st[r] = stage}

\* r is at a stage, and nothing more urgent is
Foremost(r, stage) == r \in At(stage) /\ \A s \in At(stage) : prio[s] <= prio[r]

Init == /\ st = [r \in Reqs |-> "unused"]
        /\ prio = [r \in Reqs |-> 0]
        /\ cancelled = {} /\ performed = {}
        /\ count = 0 /\ readable = FALSE

\* A request moves on; the count and the descriptor follow at once.
MoveTo(r, stage) ==
  /\ st' = [st EXCEPT ![r] = stage]
  /\ count' = Cardinality({s \in Reqs :
                             st'[s] \in {"queued", "running", "done", "taken"}})
  /\ readable' = (\E s \in Reqs : st'[s] = "done")

Submit(r) == /\ r \in At("unused")
             /\ \E p \in Pris : prio' = [prio EXCEPT ![r] = p]
             /\ MoveTo(r, "queued")
             /\ UNCHANGED <<cancelled, performed>>

Start(r) == /\ Foremost(r, "queued")
            /\ MoveTo(r, "running")
            /\ UNCHANGED <<prio, cancelled, performed>>

\* The system call is made, at most once, unless the request is cancelled.
Perform(r) == /\ r \in At("running") \ (performed \cup cancelled)
              /\ performed' = performed \cup {r}
              /\ UNCHANGED <<st, prio, cancelled, count, readable>>

Complete(r) == /\ r \in At("running") \cap (performed \cup cancelled)
               /\ MoveTo(r, "done")
               /\ UNCHANGED <<prio, cancelled, performed>>

Take(r) == /\ Foremost(r, "done")
           /\ MoveTo(r, "taken")
           /\ UNCHANGED <<prio, cancelled, performed>>

Release(r) == /\ r \in At("taken")
              /\ MoveTo(r, "released")
              /\ UNCHANGED <<prio, cancelled, performed>>

\* The callback runs, with a result and at most once.
Call(r) == /\ r \in (At("released") \cap performed) \ cancelled
           /\ MoveTo(r, "calling")
           /\ UNCHANGED <<prio, cancelled, performed>>

Destroy(r) == /\ r \in At("calling") \cup (At("released") \cap cancelled)
              /\ MoveTo(r, "gone")
              /\ UNCHANGED <<prio, cancelled, performed>>

Cancel(r) == /\ r \notin At("unused") \cup At("gone") \cup cancelled
             /\ cancelled' = cancelled \cup {r}
             /\ UNCHANGED <<st, prio, performed, count, readable>>

Next == \E r \in Reqs : \/ Submit(r) \/ Start(r) \/ Perform(r) \/ Complete(r)
                        \/ Take(r) \/ Release(r) \/ Call(r) \/ Destroy(r)
                        \/ Cancel(r)

Spec == Init /\ [][Next]_vars
=============================================================================
