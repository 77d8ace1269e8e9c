---------------------------- MODULE AsyncIOProps ----------------------------
(***************************************************************************)
(* What asyncio.c has to guarantee of a request and of its callback.       *)
(***************************************************************************)
EXTENDS AsyncIO

Called(t) == polling[t] = "callback"

\* The callback is given the RequestWrapper that wrap_request made, although
\* the request was visible to poll before the wrapper existed: the operation
\* is over before its thread polls, inside callbacks too.
CallbackGetsWrapper ==
  \A t \in Threads : Called(t) =>
    /\ java_request[cur[t]] = "wrapper"
    /\ cur[t] \in wrappers

\* A java_data that anyone will use is allocated: the operation that still has
\* to store the wrapper in it, libeio on the way to the callback, and the
\* callback's cleanup.
DataLive ==
  /\ \A t \in Threads : calling[t] # "no" => data[sub[t]] = "allocated"
  /\ \A t \in Threads : polling[t] \in {"callback", "cleanup"} =>
       data[cur[t]] = "allocated"
  /\ \A r \in Reqs : st[r] \in Eio!Stages \ {"unused", "calling", "gone"} =>
       data[r] = "allocated"

\* A java_data and its references go together, and those of a request that
\* libeio has destroyed are gone; only a call whose constructor failed leaves
\* them behind.
NothingLeaks ==
  /\ refs = {<<r, "callback">> : r \in {q \in Reqs : data[q] = "allocated"
                                                     /\ callback[q] = "ref"}}
            \cup {<<r, "request">> : r \in wrappers \ {q \in Reqs : data[q] = "freed"}}
  /\ \A r \in Reqs : data[r] = "allocated" =>
       \/ r \in failed
       \/ st[r] \notin {"unused", "gone"}
       \/ \E t \in Threads : sub[t] = r

\* AioRequest.java:5-7 says of complete(), "Did request complete?": FALSE until
\* libeio calls the callback and TRUE from then on, however late it is asked.
\* It is not so after the callback, when complete() reads freed memory.
AnswersTrue ==
  answer # NoAnswer => answer.value = (st[answer.req] \in {"calling", "gone"})
=============================================================================
