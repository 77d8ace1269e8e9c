--------------------------- MODULE MCAioOperation ---------------------------
(***************************************************************************)
(* Instances of AioOperation for TLC: int has 10 bits and long 12, every   *)
(* parameter has a value of its own, and in each input one parameter has   *)
(* a value at a boundary: of int, or, for the priority, of ETP_PRI_MIN to  *)
(* ETP_PRI_MAX and of signed char.                                         *)
(***************************************************************************)
EXTENDS AioOperationProps

Plain ==
  [delay |-> 1, fd |-> 2, fd2 |-> 3, outFd |-> 4, inFd |-> 5, addr |-> "buffer",
   buffer |-> "buffer", length |-> 6, offset |-> 7, nbytes |-> 8, flags |-> 9,
   mode |-> 10, dev |-> 11, uid |-> 12, gid |-> 13, atime |-> 14, mtime |-> 15,
   path |-> "/a", newPath |-> "/b", priority |-> 1, callback |-> "callback"]

Jints  == {"fd", "fd2", "length", "offset", "nbytes", "flags", "mode", "dev",
           "uid", "gid", "priority"}

Priorities == {-129, -128, -125, -5, -4, 4, 5, 123, 124, 127, 128, 255, 256}

MCInputs ==
  {Plain, [Plain EXCEPT !.buffer = Null],
   [Plain EXCEPT !.buffer = Null, !.offset = -1],
   [Plain EXCEPT !.atime = -1], [Plain EXCEPT !.mtime = -1],
   [Plain EXCEPT !.atime = -1, !.mtime = -1]}
  \cup {[Plain EXCEPT ![p] = v] : p \in Jints, v \in {-512, -1, 0, 511}}
  \cup {[Plain EXCEPT !.priority = v] : v \in Priorities}

\* ETP_PRI_MIN
Lowest == -4

AllOps == OnePath \cup TwoPaths \cup NoPath
=============================================================================
