---------------------------- MODULE EioGroupProps ----------------------------
(***************************************************************************)
(* What the groups of EioGroup.tla have to guarantee.                      *)
(***************************************************************************)
EXTENDS EioGroup

\* The requests in a group's list: added, and not unlinked by eio_finish
Linked == {r \in alive : grp[r] # No /\ ~Finishing(r, {"destroy"})}

\* The doubly linked list of a group holds its members, in both directions,
\* and size is their number: whatever callbacks and feeders add and eio_finish
\* removes, in whatever order.
ListsMatch ==
  /\ \A g \in Groups \cap alive :
       /\ ListOf(g) = {r \in Linked : grp[r] = g}
       /\ size[g] = Cardinality(ListOf(g))
       /\ first[g] # No => prev[first[g]] = No
  /\ \A r \in Linked : next[r] # No => prev[next[r]] = r

\* A group's own end comes after that of all its members: while a group is
\* being finished, and after, nothing alive refers to it.
MembersFirst == \A r \in Linked : Open(grp[r])

\* eio_finish is under way at most once for a request, and only for one that
\* is in no queue; grp_dec and grp_try_feed have a group to come back to.
FramesLive ==
  /\ \A i \in DOMAIN stack :
       /\ stack[i].req \in alive
       /\ stack[i].fn = "finish" => stack[i].req \notin results
  /\ \A i, j \in DOMAIN stack :
       stack[i].fn = "finish" /\ stack[j].fn = "finish" /\ i # j
       => stack[i].req # stack[j].req

\* Groups waiting for their members are not in nreqs, yet flush may rely on
\* it: when it is 0, between two rounds of poll, every group has been finished
\* and destroyed as well.  AsyncIO.java:61-62, "Wait until all requests have
\* been processed".
NoneLeftBehind == nreqs = 0 /\ stack = <<>> => alive = {}

\* A group below its limit is being fed until its feeder has nothing to add,
\* whatever feeders, callbacks, limits and cancellations are nested in each
\* other.
FeederFed ==
  \A g \in Groups : Open(g) /\ feed[g] /\ Wanting(g) =>
    \E i \in DOMAIN stack : stack[i].fn = "feed" /\ stack[i].req = g
=============================================================================
