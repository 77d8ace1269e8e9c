------------------------------ MODULE EioGroup ------------------------------
(***************************************************************************)
(* The groups of libeio: eio_grp, eio_grp_add, _feed, _limit, _cancel, and *)
(* how eio_finish finishes a group when its last member is finished.       *)
(*                                                                         *)
(* One thread polls and makes all the calls; callbacks and feeders are     *)
(* application code that may call the library again.  So the state has the *)
(* C call stack of that thread: frames of eio_finish, grp_dec and          *)
(* grp_try_feed.  What the workers do is left out: a request that has been *)
(* submitted may be the next result at any time after.                     *)
(***************************************************************************)
EXTENDS Integers, Sequences, FiniteSets

CONSTANTS
  Groups, Plain,   \* the requests of type EIO_GROUP, and the others
  No,              \* the null pointer
  Limits,          \* the limits applications pass
  Cancelling,      \* TRUE iff the application cancels
  MaxDepth         \* bound on the frames when the application calls for a feed

Reqs == Groups \cup Plain

ASSUME GroupAssumption ==
  /\ Groups \cap Plain = {} /\ No \notin Reqs
  /\ IsFiniteSet(Groups) /\ IsFiniteSet(Plain)
  /\ Limits \subseteq Int /\ MaxDepth \in Nat
  /\ Cancelling \in BOOLEAN

VARIABLES
  fresh, alive,       \* requests not allocated yet; allocated, not destroyed
  results,            \* submitted, not taken by poll yet
  nreqs,              \* what eio_nreqs counts
  grp, next, prev,    \* per request: req->grp, ->grp_next, ->grp_prev
  first, size,        \* per group: ->grp_first, ->size
  delayed,            \* the groups with int1 = 1
  limit, feed,        \* per group: int2, and whether feed is not 0
  added,              \* the groups with EIO_FLAG_GROUPADD
  cancelled,          \* the requests with EIO_FLAG_CANCELLED
  stack               \* the C frames, innermost first

listVars  == <<grp, next, prev, first, size>>
feedVars  == <<limit, feed, added>>
queueVars == <<fresh, results, nreqs>>
vars      == <<queueVars, alive, listVars, delayed, feedVars, cancelled, stack>>

Init ==
  /\ fresh = Reqs /\ alive = {} /\ results = {} /\ nreqs = 0
  /\ grp = [r \in Reqs |-> No]
  /\ next = [r \in Reqs |-> No] /\ prev = [r \in Reqs |-> No]
  /\ first = [g \in Groups |-> No] /\ size = [g \in Groups |-> 0]
  /\ limit = [g \in Groups |-> 0] /\ feed = [g \in Groups |-> FALSE]
  /\ delayed = {} /\ added = {} /\ cancelled = {}
  /\ stack = <<>>

-----------------------------------------------------------------------------
(***************************************************************************)
(* The stack.                                                              *)
(***************************************************************************)
Frame(fn, r, at) == [fn |-> fn, req |-> r, at |-> at]
Running(fn, r, at) == stack # <<>> /\ Head(stack) = Frame(fn, r, at)
Caller == Tail(stack)

\* Frames of grp_try_feed (g)
Feeding(g) == Frame("feed", g, "test")

\* Application code runs: at top level, in a callback or in a feeder.
InUserCode == stack # <<>> => Head(stack).at \in {"callback", "feeder"}

\* r has a frame of eio_finish, having got that far
Finishing(r, ats) ==
  \E i \in DOMAIN stack : \E at \in ats : stack[i] = Frame("finish", r, at)

Open(g) == g \in alive /\ ~Finishing(g, {"start", "callback", "unlink", "destroy"})

-----------------------------------------------------------------------------
(***************************************************************************)
(* The application's calls.                                                *)
(***************************************************************************)

\* A constructor and etp_submit: a group goes to the results at once, in the
\* place of a worker's result.
Submit(r) ==
  /\ InUserCode
  /\ r \in fresh
  /\ fresh' = fresh \ {r}
  /\ alive' = alive \cup {r}
  /\ nreqs' = nreqs + 1
  /\ results' = results \cup {r}
  /\ UNCHANGED <<listVars, delayed, feedVars, cancelled, stack>>

\* What is reached from the pointer r along the pointers of f, r included
Chain(f, r) ==
  {q \in Reqs : \A S \in SUBSET Reqs :
     r \in S \cup {No} /\ (\A p \in S : f[p] \in S \cup {No}) => q \in S}

\* g and the groups it is in; the members of g; r and the members below it
AllAbove(g) == Chain(grp, g)
ListOf(g) == Chain(next, first[g])

AllBelow(r) ==
  LET down[n \in 0 .. Cardinality(Groups)] ==
        IF n = 0 THEN {r}
        ELSE down[n - 1] \cup UNION {ListOf(g) : g \in down[n - 1] \cap Groups}
  IN  down[Cardinality(Groups)]

\* eio_grp_add, of a request that is in no group, to a group whose callback
\* has not been called.
Add(g, r) ==
  /\ InUserCode
  /\ Open(g)
  /\ r \in alive /\ grp[r] = No /\ r \notin AllAbove(g)
  /\ ~Finishing(r, {"destroy"})
  /\ added' = added \cup {g}
  /\ size' = [size EXCEPT ![g] = @ + 1]
  /\ grp' = [grp EXCEPT ![r] = g]
  /\ next' = [next EXCEPT ![r] = first[g]]
  /\ prev' = [q \in Reqs |-> IF q = r THEN No
                             ELSE IF q = first[g] THEN r ELSE prev[q]]
  /\ first' = [first EXCEPT ![g] = r]
  /\ UNCHANGED <<queueVars, alive, delayed, limit, feed, cancelled, stack>>

\* eio_grp_feed and eio_grp_limit
Feed(g, n) ==
  /\ InUserCode /\ Len(stack) < MaxDepth
  /\ Open(g)
  /\ limit' = [limit EXCEPT ![g] = n]
  /\ feed' = [feed EXCEPT ![g] = TRUE]
  /\ stack' = <<Feeding(g)>> \o stack
  /\ UNCHANGED <<queueVars, alive, listVars, delayed, added, cancelled>>

Limit(g, n) ==
  /\ InUserCode /\ Len(stack) < MaxDepth
  /\ Open(g)
  /\ limit' = [limit EXCEPT ![g] = n]
  /\ stack' = <<Feeding(g)>> \o stack
  /\ UNCHANGED <<queueVars, alive, listVars, delayed, feed, added, cancelled>>

\* eio_cancel: the request and everything below it; eio_grp_cancel: the
\* latter only.
Cancel(r) ==
  /\ Cancelling /\ InUserCode
  /\ r \in alive \ cancelled
  /\ cancelled' = cancelled \cup AllBelow(r)
  /\ UNCHANGED <<queueVars, alive, listVars, delayed, feedVars, stack>>

GrpCancel(g) ==
  /\ Cancelling /\ InUserCode
  /\ g \in alive
  /\ cancelled' = cancelled \cup (AllBelow(g) \ {g})
  /\ UNCHANGED <<queueVars, alive, listVars, delayed, feedVars, stack>>

-----------------------------------------------------------------------------
BugMustWait(r) == FALSE
MustWait(r) == r \in Groups /\ size[r] # 0

BugDelay(r) == delayed
Delay(r) == delayed \cup {r}

\* A round of etp_poll: a group that has members is delayed (int1 = 1).
Poll(r) ==
  /\ stack = <<>>
  /\ r \in results
  /\ results' = results \ {r}
  /\ nreqs' = nreqs - 1
  /\ IF MustWait(r)
       THEN delayed' = Delay(r) /\ UNCHANGED stack
       ELSE stack' = <<Frame("finish", r, "start")>> /\ UNCHANGED delayed
  /\ UNCHANGED <<fresh, alive, listVars, feedVars, cancelled>>

(***************************************************************************)
(* eio_finish.                                                             *)
(***************************************************************************)
FinishStart(r) ==
  /\ Running("finish", r, "start")
  /\ stack' = <<Frame("finish", r, IF r \in cancelled THEN "unlink" ELSE "callback")>>
              \o Caller
  /\ UNCHANGED <<queueVars, alive, listVars, delayed, feedVars, cancelled>>

CallbackReturns(r) ==
  /\ Running("finish", r, "callback")
  /\ stack' = <<Frame("finish", r, "unlink")>> \o Caller
  /\ UNCHANGED <<queueVars, alive, listVars, delayed, feedVars, cancelled>>

\* The list heads after the unlinking of r
BugFirstWithout(r, g) == first
FirstWithout(r, g) == IF first[g] = r THEN [first EXCEPT ![g] = next[r]] ELSE first

\* The frames of grp_dec, after --size
BugDecFrames(g) == <<Frame("dec", g, "test")>>
DecFrames(g) == <<Feeding(g), Frame("dec", g, "test")>>

\* A member leaves its group's list; grp_dec follows.
Unlink(r) ==
  /\ Running("finish", r, "unlink")
  /\ LET g == grp[r]
         n == next[r]
         p == prev[r]
     IN  IF g = No
           THEN /\ stack' = <<Frame("finish", r, "destroy")>> \o Caller
                /\ UNCHANGED listVars
           ELSE /\ prev' = IF n # No THEN [prev EXCEPT ![n] = p] ELSE prev
                /\ next' = IF p # No THEN [next EXCEPT ![p] = n] ELSE next
                /\ first' = FirstWithout(r, g)
                /\ size' = [size EXCEPT ![g] = @ - 1]
                /\ UNCHANGED grp
                /\ stack' = DecFrames(g) \o <<Frame("finish", r, "destroy")>> \o Caller
  /\ UNCHANGED <<queueVars, alive, delayed, feedVars, cancelled>>

\* grp_dec after the feeder: the group itself is finished with its last
\* member if poll has seen it.
BugLast(g) == size[g] = 0
Last(g) == size[g] = 0 /\ g \in delayed

GrpDec(g) ==
  /\ Running("dec", g, "test")
  /\ stack' = IF Last(g) THEN <<Frame("finish", g, "start")>> \o Caller ELSE Caller
  /\ UNCHANGED <<queueVars, alive, listVars, delayed, feedVars, cancelled>>

Destroy(r) ==
  /\ Running("finish", r, "destroy")
  /\ alive' = alive \ {r}
  /\ grp'  = [grp EXCEPT ![r] = No]
  /\ next' = [next EXCEPT ![r] = No]
  /\ prev' = [prev EXCEPT ![r] = No]
  /\ cancelled' = cancelled \ {r}
  /\ delayed' = delayed \ {r}
  /\ added' = added \ {r}
  /\ limit' = [g \in Groups |-> IF g = r THEN 0 ELSE limit[g]]
  /\ feed'  = [g \in Groups |-> feed[g] /\ g # r]
  /\ stack' = Caller
  /\ UNCHANGED <<queueVars, first, size>>

(***************************************************************************)
(* grp_try_feed.  size is unsigned and int2 a long: a negative limit is    *)
(* none.                                                                   *)
(***************************************************************************)
BelowLimit(g) == limit[g] < 0 \/ size[g] < limit[g]
Wanting(g) == BelowLimit(g) /\ g \notin cancelled

TryFeed(g) ==
  /\ Running("feed", g, "test")
  /\ Wanting(g) /\ feed[g]
  /\ added' = added \ {g}
  /\ stack' = <<Frame("feed", g, "feeder")>> \o Caller
  /\ UNCHANGED <<queueVars, alive, listVars, delayed, limit, feed, cancelled>>

\* No feeder: nothing can be added, and the loop ends.
TryFeedNothing(g) ==
  /\ Running("feed", g, "test")
  /\ Wanting(g) /\ ~feed[g]
  /\ added' = added \ {g}
  /\ stack' = Caller
  /\ UNCHANGED <<queueVars, alive, listVars, delayed, limit, feed, cancelled>>

TryFeedDone(g) ==
  /\ Running("feed", g, "test")
  /\ ~Wanting(g)
  /\ stack' = Caller
  /\ UNCHANGED <<queueVars, alive, listVars, delayed, feedVars, cancelled>>

\* A feeder that has added nothing is not called again.
FeederReturns(g) ==
  /\ Running("feed", g, "feeder")
  /\ IF g \in added
       THEN stack' = <<Feeding(g)>> \o Caller /\ UNCHANGED feed
       ELSE stack' = Caller /\ feed' = [feed EXCEPT ![g] = FALSE]
  /\ UNCHANGED <<queueVars, alive, listVars, delayed, limit, added, cancelled>>

-----------------------------------------------------------------------------
\* Nothing is left to do.
Done == fresh = {} /\ alive = {} /\ stack = <<>> /\ UNCHANGED vars

Library == \E r \in Reqs : \/ Poll(r) \/ FinishStart(r) \/ Unlink(r) \/ Destroy(r)
                           \/ GrpDec(r)
                           \/ TryFeed(r) \/ TryFeedNothing(r) \/ TryFeedDone(r)

Next == \/ \E r \in Reqs : \/ Submit(r) \/ Cancel(r)
                           \/ CallbackReturns(r) \/ FeederReturns(r)
        \/ \E g \in Groups, r \in Reqs : Add(g, r)
        \/ \E g \in Groups, n \in Limits : Feed(g, n) \/ Limit(g, n)
        \/ \E g \in Groups : GrpCancel(g)
        \/ Library
        \/ Done

Spec == Init /\ [][Next]_vars
=============================================================================
