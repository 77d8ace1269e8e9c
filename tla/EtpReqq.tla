------------------------------ MODULE EtpReqq ------------------------------
(***************************************************************************)
(* The request queue of libeio (etp_reqq, eio.c:320-372): one FIFO list    *)
(* per priority and a count of all the requests in it.  The pool owns two  *)
(* of them, req_queue and res_queue.  This module has the operations as    *)
(* operators on values; the linked lists qs, qe and next are sequences.    *)
(***************************************************************************)
EXTENDS Integers, Sequences

CONSTANTS PriMin,   \* ETP_PRI_MIN, -4 in eio.h
          PriMax    \* ETP_PRI_MAX,  4 in eio.h

\* The default priority 0 lies in the range and the width of the range fits
\* the signed char that holds it.
ASSUME PriAssumption == /\ PriMin \in -64 .. 0
                        /\ PriMax \in 0 .. 63

NumPri == PriMax - PriMin + 1       \* ETP_NUM_PRI
Pris   == 0 .. NumPri - 1           \* the indices of qs and qe

(***************************************************************************)
(* A request keeps its priority in a signed char.                          *)
(***************************************************************************)
SignedChar(x) == ((x + 128) % 256) - 128

\* The priority etp_submit leaves in the request: the caller's int is stored
\* in a signed char, shifted by -ETP_PRI_MIN in that signed char, then clamped.
SubmitPri(pri) ==
  LET shifted == SignedChar(SignedChar(pri) - PriMin)
  IN  IF shifted < 0 THEN 0
      ELSE IF shifted > NumPri - 1 THEN NumPri - 1
      ELSE shifted

-----------------------------------------------------------------------------

EmptyReqq == [qs |-> [p \in Pris |-> <<>>], size |-> 0]

reqq_push(q, req, p) == [qs   |-> [q.qs EXCEPT ![p] = Append(@, req)],
                         size |-> q.size + 1]

\* The scan of reqq_shift goes down from the highest index and stops at the
\* first list that has a request.  Without one the code calls abort ().
Occupied(q) == {p \in Pris : q.qs[p] # <<>>}
ShiftPri(q) == CHOOSE p \in Occupied(q) : \A o \in Occupied(q) : o <= p

\* What reqq_shift returns, and the queue it leaves, when q.size is not 0.
ShiftReq(q)  == Head(q.qs[ShiftPri(q)])

\* A variant with a mistake, which no specification uses: the list is not updated.
BugShiftRestKeeps(q) == [q EXCEPT !.size = @ - 1]

ShiftRest(q) == [qs   |-> [q.qs EXCEPT ![ShiftPri(q)] = Tail(@)],
                 size |-> q.size - 1]

\* The requests that are in q.
Members(q) == UNION {{q.qs[p][i] : i \in DOMAIN q.qs[p]} : p \in Pris}
=============================================================================
