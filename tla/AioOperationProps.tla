-------------------------- MODULE AioOperationProps --------------------------
(***************************************************************************)
(* What a call of an operation of AsyncIO has to do, see AioOperation.tla. *)
(***************************************************************************)
EXTENDS AioOperation

(***************************************************************************)
(* The system call the Java method stands for: its arguments in the order  *)
(* of the method, converted once, to the types of the POSIX prototype.     *)
(***************************************************************************)
PosixType(o, p) == CASE p \in {"mode", "uid", "gid"}              -> "uint"
                     [] o = "sync_file_range" /\ p = "flags"      -> "uint"
                     [] p \in {"length", "nbytes", "dev"}         -> "ulong"
                     [] OTHER                                     -> "ptr"

Posix(o, a) == [i \in DOMAIN JavaParams(o) |->
                  Conv(PosixType(o, JavaParams(o)[i]), a[JavaParams(o)[i]])]

Meant(o, a) ==
  LET plain  == <<o>> \o Posix(o, a)
      buffer == IF o = "read" /\ a.buffer = Null THEN "result" ELSE a.buffer
      length == Conv("ulong", a.length)
  IN  CASE o = "read"  -> IF a.offset >= 0
                            THEN <<"pread", a.fd, buffer, length, a.offset>>
                            ELSE <<"read", a.fd, buffer, length>>
        [] o = "write" -> IF a.offset >= 0
                            THEN <<"pwrite", a.fd, buffer, length, a.offset>>
                            ELSE <<"write", a.fd, buffer, length>>
        [] o = "futime" -> <<o, a.fd, IF a.atime = -1 /\ a.mtime = -1
                                        THEN <<>> ELSE <<a.atime, a.mtime>>>>
        [] o \in AllocatesBuffer \ {"read"} -> Append(plain, "result")
        [] OTHER -> plain

\* The operations whose binding mixes up its parameters
Misbound == {"sync_file_range", "utime"} \cup TwoPaths

\* The list of the request queue that a priority stands for: those outside
\* PriMin .. PriMax stand for the nearest one.
ListOf(priority) == IF priority < PriMin THEN 0
                    ELSE IF priority > PriMax THEN NumPri - 1
                    ELSE priority - PriMin

\* The priorities for which the arithmetic of etp_submit, in a signed char,
\* does not overflow.
CharPriorities == -128 .. 127 + PriMin

\* The arguments of a Java method go through three parameter lists and the
\* all-purpose fields of eio_req; the worker's system call gets each of them
\* where it belongs, its value survives the conversions on the way, and the
\* request has the callback that was passed.  It is submitted to a list that the
\* queue has, whatever int the priority is, and to the list of that priority
\* unless a signed char is too small for it (124 has the lowest priority).
ArgumentsArrive ==
  call # <<>> /\ op \notin Misbound =>
    /\ call = Meant(op, args)
    /\ req.callback = args.callback
    /\ req.pri \in Pris
    /\ args.priority \in CharPriorities => req.pri = ListOf(args.priority)

\* eio.h:188 says of ptr2, "all applicable requests: new name": the system
\* call of link, symlink and rename gets newPath as its second argument.
SecondPathArrives == call # <<>> /\ op \in TwoPaths => call[3] = args.newPath

-----------------------------------------------------------------------------
\* Whatever the worker's system call, the callback or eio_destroy refers to is
\* allocated at that moment: strings by the copies that PATH makes, whenever the
\* JNI function releases its own.
MemoryLive ==
  /\ stage \in {"submitted", "executed"} =>
       {req.ptr1, req.ptr2} \ {Null} \subseteq DOMAIN heap
  /\ stage = "called" =>
       {req[f] : f \in req.free} \ {Null} \subseteq DOMAIN heap

\* What libeio forgets to free: the path of eio_readdir, whose pointer
\* eio__scandir overwrites, and the first of two paths if strdup fails on the
\* second.
Forgotten == IF \/ op = "readdir"
                \/ op \in TwoPaths /\ stage = "failed"
               THEN {"copy1"} ELSE {}

\* At the end of the call the heap is as the application left it: the request
\* has freed its own blocks (no more than the forgotten one is left) and not
\* the application's buffer.
HeapAtEnd ==
  stage \in {"destroyed", "failed"} /\ Returned =>
    /\ DOMAIN heap \ {"buffer"} \subseteq Forgotten
    /\ "buffer" \in DOMAIN heap <=> ~userFreed
=============================================================================
