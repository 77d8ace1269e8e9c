---------------------------- MODULE AioOperation ----------------------------
(***************************************************************************)
(* One call of an operation of AsyncIO.java, from the Java method to the   *)
(* system call and to the end of the request: the JNI binding of           *)
(* asyncio.c, the constructor and eio_execute of libeio/eio.c, and the     *)
(* memory the request refers to.                                           *)
(*                                                                         *)
(* An operation is named by its Java method, which is also the name of its *)
(* EIO_ constant.  A pointer is the name of a block of the heap.           *)
(***************************************************************************)
EXTENDS EtpReqq, Functions

CONSTANTS
  Ops,           \* the operations called
  Inputs,        \* what they are called with: functions on Params
  IntMod,        \* 2^w for the w bits of int, jint, mode_t, uid_t
  LongMod,       \* 2^w for the w bits of long, off_t, size_t, dev_t
  Garbage,       \* values an argument nobody passed may have
  AllocFails     \* TRUE iff malloc, calloc and strdup may fail

Params == {"delay", "fd", "fd2", "outFd", "inFd", "addr", "buffer", "length",
           "offset", "nbytes", "flags", "mode", "dev", "uid", "gid", "atime",
           "mtime", "path", "newPath", "priority", "callback"}

\* The methods with a path, those with two, and the others.
OnePath  == {"open", "utime", "truncate", "chown", "chmod", "mkdir", "readdir",
             "rmdir", "unlink", "readlink", "stat", "lstat", "statvfs", "mknod"}
TwoPaths == {"link", "symlink", "rename"}
NoPath   == {"nop", "busy", "sync", "fsync", "fdatasync", "msync", "mtouch", "mlock",
             "mlockall", "sync_file_range", "close", "readahead", "read", "write",
             "fstat", "fstatvfs", "futime", "ftruncate", "fchmod", "fchown", "dup2",
             "sendfile"}

Null == "null"

\* The values of an int, and the parameters that have one and pass it on as an
\* integer.
Ints == -(IntMod \div 2) .. (IntMod \div 2) - 1
IntParams == {"fd", "fd2", "outFd", "inFd", "length", "offset", "nbytes", "flags",
              "mode", "dev", "uid", "gid"}

\* A long is as wide as an int, or wider.  A pointer that the application passes
\* is null or the application's buffer.
ASSUME OperationAssumption ==
  /\ Ops \subseteq OnePath \cup TwoPaths \cup NoPath
  /\ IntMod \in Nat \ {0} /\ IntMod % 2 = 0
  /\ LongMod \in Nat \ {0} /\ LongMod % IntMod = 0
  /\ \A in \in Inputs : /\ DOMAIN in = Params
                        /\ \A p \in IntParams \cup {"priority"} : in[p] \in Ints
                        /\ {in["buffer"], in["addr"]} \subseteq {"buffer", Null}
  /\ AllocFails \in BOOLEAN

VARIABLES
  stage,    \* how far the call has got
  op, args, \* the method called and its arguments, by name
  native,   \* the arguments the JNI function reads, by name
  heap,     \* the blocks allocated, and what each contains
  req,      \* the eio_req: its fields, and in req.free those with a _FREE flag
  call,     \* the system call made
  userFreed \* whether the application has freed its buffer

vars == <<stage, op, args, native, heap, req, call, userFreed>>

None == [type |-> "none"]

\* A heap, or a record, and what is added to it
Joined(f, g) == [x \in DOMAIN f \cup DOMAIN g |-> IF x \in DOMAIN f THEN f[x] ELSE g[x]]

-----------------------------------------------------------------------------
(***************************************************************************)
(* The Java methods (AsyncIO.java) and the constructors' parameters, each  *)
(* with its C type and the field of the request it goes to.                *)
(***************************************************************************)
JavaParams(o) ==
  CASE o \in {"nop", "sync"}        -> <<>>
    [] o = "busy"                   -> <<"delay">>
    [] o \in {"fsync", "fdatasync", "close", "fstat", "fstatvfs"} -> <<"fd">>
    [] o \in {"msync", "mtouch"}    -> <<"addr", "length", "flags">>
    [] o = "mlock"                  -> <<"addr", "length">>
    [] o = "mlockall"               -> <<"flags">>
    [] o = "sync_file_range"        -> <<"fd", "offset", "nbytes", "flags">>
    [] o = "readahead"              -> <<"fd", "offset", "length">>
    [] o \in {"read", "write"}      -> <<"fd", "buffer", "length", "offset">>
    [] o = "futime"                 -> <<"fd", "atime", "mtime">>
    [] o = "ftruncate"              -> <<"fd", "offset">>
    [] o = "fchmod"                 -> <<"fd", "mode">>
    [] o = "fchown"                 -> <<"fd", "uid", "gid">>
    [] o = "dup2"                   -> <<"fd", "fd2">>
    [] o = "sendfile"               -> <<"outFd", "inFd", "offset", "length">>
    [] o = "open"                   -> <<"path", "flags", "mode">>
    [] o = "readdir"                -> <<"path", "flags">>
    [] o \in {"utime", "chmod", "mkdir"} -> <<"path", "mode">>
    [] o = "truncate"               -> <<"path", "offset">>
    [] o = "chown"                  -> <<"path", "uid", "gid">>
    [] o = "mknod"                  -> <<"path", "mode", "dev">>
    [] o \in TwoPaths               -> <<"path", "newPath">>
    [] OTHER                        -> <<"path">>

Fields(o) ==
  CASE o \in {"nop", "sync"}        -> <<>>
    [] o = "busy"                   -> <<<<"double", "nv1">>>>
    [] o \in {"fsync", "fdatasync", "close", "fstat", "fstatvfs", "mlockall"}
                                    -> <<<<"int", "int1">>>>
    [] o \in {"msync", "mtouch"}    -> <<<<"ptr", "ptr2">>, <<"ulong", "size">>,
                                         <<"int", "int1">>>>
    [] o = "mlock"                  -> <<<<"ptr", "ptr2">>, <<"ulong", "size">>>>
    [] o = "sync_file_range"        -> <<<<"int", "int1">>, <<"long", "offs">>,
                                         <<"ulong", "size">>, <<"uint", "int2">>>>
    [] o = "readahead"              -> <<<<"int", "int1">>, <<"long", "offs">>,
                                         <<"ulong", "size">>>>
    [] o \in {"read", "write"}      -> <<<<"int", "int1">>, <<"ptr", "ptr2">>,
                                         <<"ulong", "size">>, <<"long", "offs">>>>
    [] o = "futime"                 -> <<<<"int", "int1">>, <<"double", "nv1">>,
                                         <<"double", "nv2">>>>
    [] o = "ftruncate"              -> <<<<"int", "int1">>, <<"long", "offs">>>>
    [] o = "fchmod"                 -> <<<<"int", "int1">>, <<"uint", "int2">>>>
    [] o = "fchown"                 -> <<<<"int", "int1">>, <<"uint", "int2">>,
                                         <<"uint", "int3">>>>
    [] o = "dup2"                   -> <<<<"int", "int1">>, <<"int", "int2">>>>
    [] o = "sendfile"               -> <<<<"int", "int1">>, <<"int", "int2">>,
                                         <<"long", "offs">>, <<"ulong", "size">>>>
    [] o = "open"                   -> <<<<"ptr", "ptr1">>, <<"int", "int1">>,
                                         <<"uint", "int2">>>>
    [] o = "utime"                  -> <<<<"ptr", "ptr1">>, <<"double", "nv1">>,
                                         <<"double", "nv2">>>>
    [] o = "truncate"               -> <<<<"ptr", "ptr1">>, <<"long", "offs">>>>
    [] o = "chown"                  -> <<<<"ptr", "ptr1">>, <<"uint", "int2">>,
                                         <<"uint", "int3">>>>
    [] o \in {"chmod", "mkdir"}     -> <<<<"ptr", "ptr1">>, <<"uint", "int2">>>>
    [] o = "readdir"                -> <<<<"ptr", "ptr1">>, <<"int", "int1">>>>
    [] o = "mknod"                  -> <<<<"ptr", "ptr1">>, <<"uint", "int2">>,
                                         <<"ulong", "offs">>>>
    [] o \in TwoPaths               -> <<<<"ptr", "ptr1">>, <<"ptr", "ptr2">>>>
    [] OTHER                        -> <<<<"ptr", "ptr1">>>>

Numbers  == {"int1", "int2", "int3", "offs", "size", "nv1", "nv2"}
Pointers == {"ptr1", "ptr2"}

FieldType(f) == CASE f = "int1"                   -> "int"
                  [] f \in {"int2", "int3", "offs"} -> "long"
                  [] f = "size"                   -> "ulong"
                  [] f \in {"nv1", "nv2"}         -> "double"
                  [] OTHER                        -> "ptr"

(***************************************************************************)
(* C's conversion of an integer to the type named.  A jlong time becomes a *)
(* double, exactly up to 2^53; a pointer keeps its value.                  *)
(***************************************************************************)
SignedIn(x, m) == ((x + m \div 2) % m) - m \div 2

Conv(type, x) == CASE type = "int"   -> SignedIn(x, IntMod)
                   [] type = "uint"  -> x % IntMod
                   [] type = "long"  -> SignedIn(x, LongMod)
                   [] type = "ulong" -> x % LongMod
                   [] OTHER          -> x

-----------------------------------------------------------------------------
(***************************************************************************)
(* The call of the method and its JNI function.                            *)
(***************************************************************************)
Init == /\ stage = "none" /\ op = "none" /\ call = <<>>
        /\ args = None /\ native = None /\ req = None
        /\ heap = [b \in {"buffer"} |-> "data"]
        /\ userFreed = FALSE

\* What the JNI function finds in its parameters.  Two of them do not have the
\* parameters of their Java method: utime has (path, atime, mtime, priority,
\* callback) for (path, mode, priority, callback), where an int leaves the upper
\* half of a long undefined; sync_file_range has (offset, nbytes, flags,
\* priority, callback) for (fd, offset, nbytes, flags, priority, callback).
NativeArgs(o, a) ==
  IF o = "utime"
  THEN {[path |-> a.path, atime |-> at, mtime |-> mt, priority |-> pri,
         callback |-> "garbage"] :
          at \in {a.mode} \cup Garbage, mt \in {a.priority} \cup Garbage, pri \in Garbage}
  ELSE IF o = "sync_file_range"
  THEN {[offset |-> a.fd, nbytes |-> a.offset, flags |-> a.nbytes,
         priority |-> a.flags,
         callback |-> IF a.priority = 0 THEN Null ELSE "garbage"]}
  ELSE {a}

\* GetStringUTFChars: the strings the JNI function pins.  link, symlink and
\* rename take both from path.
Pinned(o, n) == IF o \in TwoPaths THEN [chars1 |-> n.path, chars2 |-> n.path]
                ELSE IF o \in OnePath THEN [chars1 |-> n.path] ELSE <<>>

Invoke(o) ==
  /\ stage = "none"
  /\ \E in \in Inputs :
       args' = Restrict(in, Range(JavaParams(o)) \cup {"priority", "callback"})
  /\ native' \in NativeArgs(o, args')
  /\ op' = o
  /\ heap' = Joined(heap, Pinned(o, native'))
  /\ stage' = "bound"
  /\ UNCHANGED <<req, call, userFreed>>

\* The arguments of eio_<op>
NativeParams(o) == IF o = "utime" THEN <<"path", "atime", "mtime">>
                                  ELSE JavaParams(o)

EioArgs(o, n) ==
  LET plain == [i \in DOMAIN NativeParams(o) |-> n[NativeParams(o)[i]]]
  IN  CASE o = "sync_file_range" -> <<n.flags, n.offset, n.nbytes, n.flags>>
        [] o \in TwoPaths       -> <<"chars1", "chars2">>
        [] o \in OnePath        -> <<"chars1">> \o Tail(plain)
        [] OTHER                 -> plain

-----------------------------------------------------------------------------
(***************************************************************************)
(* The constructor: REQ, PATH, the fields, SEND.                           *)
(***************************************************************************)
Copies(o) == IF o \in TwoPaths THEN {"ptr1", "ptr2"}
             ELSE IF o \in OnePath THEN {"ptr1"} ELSE {}
CopyName(f) == IF f = "ptr1" THEN "copy1" ELSE "copy2"

\* The field f of the request; the constructor's i-th argument goes to the
\* i-th field of Fields(o), a string as a copy of it, and the rest is zero.
FieldValue(o, n, f) ==
  LET at == {i \in DOMAIN Fields(o) : Fields(o)[i][2] = f}
      i  == CHOOSE j \in at : TRUE
  IN  IF f \in Copies(o) THEN CopyName(f)
      ELSE IF at = {} THEN IF f \in Pointers THEN Null ELSE 0
      ELSE Conv(FieldType(f), Conv(Fields(o)[i][1], EioArgs(o, n)[i]))

\* The eio_req after SEND: REQ has stored the priority in a signed char, and
\* etp_submit has shifted and clamped it there.
Request(o, n) ==
  Joined([f \in Numbers \cup Pointers |-> FieldValue(o, n, f)],
         [type |-> o, pri |-> SubmitPri(n.priority), callback |-> n.callback,
          free |-> Copies(o)])

BugConstruct(o) ==
  /\ stage = "bound"
  /\ req' = [Request(o, native) EXCEPT !.ptr1 = IF @ = "copy1" THEN "chars1" ELSE @]
  /\ stage' = "submitted"
  /\ UNCHANGED <<op, args, native, heap, call, userFreed>>

Construct(o) ==
  /\ stage = "bound"
  /\ req' = Request(o, native)
  /\ heap' = Joined(heap, [b \in {CopyName(f) : f \in Copies(o)} |->
                             heap[IF b = "copy1" THEN "chars1" ELSE "chars2"]])
  /\ stage' = "submitted"
  /\ UNCHANGED <<op, args, native, call, userFreed>>

\* calloc, or the strdup of the path, fails: eio_<op> returns 0.
ConstructFails(o) ==
  /\ AllocFails
  /\ stage = "bound"
  /\ stage' = "failed"
  /\ UNCHANGED <<op, args, native, heap, req, call, userFreed>>

\* The strdup of the second path fails: the request is freed, the copy of
\* the first path is not.
SecondPathFails(o) ==
  /\ AllocFails
  /\ o \in TwoPaths
  /\ stage = "bound"
  /\ heap' = Joined(heap, [copy1 |-> heap["chars1"]])
  /\ stage' = "failed"
  /\ UNCHANGED <<op, args, native, req, call, userFreed>>

\* ReleaseStringUTFChars, before the JNI function returns and at any time
\* relative to the worker
Release ==
  /\ stage \notin {"none", "bound"}
  /\ "chars1" \in DOMAIN heap
  /\ heap' = Restrict(heap, DOMAIN heap \ {"chars1", "chars2"})
  /\ UNCHANGED <<stage, op, args, native, req, call, userFreed>>

Returned == stage \notin {"none", "bound"} /\ "chars1" \notin DOMAIN heap

\* The application frees its buffer once the callback has been called.
UserFree ==
  /\ ~userFreed
  /\ Returned
  /\ stage \in {"called", "destroyed", "failed"}
  /\ userFreed' = TRUE
  /\ heap' = Restrict(heap, DOMAIN heap \ {"buffer"})
  /\ UNCHANGED <<stage, op, args, native, req, call>>

-----------------------------------------------------------------------------
(***************************************************************************)
(* The worker: eio_execute.                                                *)
(***************************************************************************)
AllocatesBuffer == {"read", "stat", "lstat", "fstat", "statvfs", "fstatvfs",
                    "readlink"}
NeedsBuffer(r) == r.type \in AllocatesBuffer /\ r.ptr2 = Null

\* utimes and futimes set the current time (<<>>) if both times are -1.
BugTimes(a, m) == IF a = -1 \/ m = -1 THEN <<>> ELSE <<a, m>>

Times(a, m) == IF a = -1 /\ m = -1 THEN <<>> ELSE <<a, m>>

\* The system call, or the helper of eio.c, and what it is called with
SystemCall(r, h) ==
  LET text(p)  == IF p \in DOMAIN h THEN h[p] ELSE "garbage"
      path     == text(r.ptr1)
      mode     == Conv("uint", r.int2)
      t        == r.type
  IN
  CASE t = "read"  -> IF r.offs >= 0 THEN <<"pread", r.int1, r.ptr2, r.size, r.offs>>
                                     ELSE <<"read", r.int1, r.ptr2, r.size>>
    [] t = "write" -> IF r.offs >= 0 THEN <<"pwrite", r.int1, r.ptr2, r.size, r.offs>>
                                     ELSE <<"write", r.int1, r.ptr2, r.size>>
    [] t \in {"nop", "sync"}                -> <<t>>
    [] t = "busy"                           -> <<t, r.nv1>>
    [] t \in {"close", "fsync", "fdatasync", "mlockall"} -> <<t, r.int1>>
    [] t \in {"msync", "mtouch"}            -> <<t, r.ptr2, r.size, r.int1>>
    [] t = "mlock"                          -> <<t, r.ptr2, r.size>>
    [] t = "readahead"                      -> <<t, r.int1, r.offs, r.size>>
    [] t = "sync_file_range" -> <<t, r.int1, r.offs, r.size, Conv("uint", r.int2)>>
    [] t = "sendfile"  -> <<t, r.int1, Conv("int", r.int2), r.offs, r.size>>
    [] t \in {"fstat", "fstatvfs"}          -> <<t, r.int1, r.ptr2>>
    [] t \in {"stat", "lstat", "statvfs", "readlink"} -> <<t, path, r.ptr2>>
    [] t = "futime"                         -> <<t, r.int1, Times(r.nv1, r.nv2)>>
    [] t = "utime"                          -> <<t, path, Times(r.nv1, r.nv2)>>
    [] t = "ftruncate"                      -> <<t, r.int1, r.offs>>
    [] t = "truncate"                       -> <<t, path, r.offs>>
    [] t = "fchmod"                         -> <<t, r.int1, mode>>
    [] t \in {"chmod", "mkdir"}             -> <<t, path, mode>>
    [] t = "fchown"                         -> <<t, r.int1, mode, Conv("uint", r.int3)>>
    [] t = "chown"                          -> <<t, path, mode, Conv("uint", r.int3)>>
    [] t = "dup2"                           -> <<t, r.int1, Conv("int", r.int2)>>
    [] t = "open"                           -> <<t, path, r.int1, mode>>
    [] t = "mknod"                          -> <<t, path, mode, Conv("ulong", r.offs)>>
    [] t = "readdir"                        -> <<t, path, r.int1>>
    [] t \in TwoPaths                       -> <<t, path, text(r.ptr2)>>
    [] OTHER                                -> <<t, path>>

BugBuffered(r) == [r EXCEPT !.ptr2 = "result"]

\* ALLOC sets the flag before it knows that malloc succeeds.
Buffered(r) == [r EXCEPT !.ptr2 = "result", !.free = @ \cup {"ptr2"}]

Execute ==
  /\ stage = "submitted"
  /\ req.type # "readdir"
  /\ IF NeedsBuffer(req)
       THEN req' = Buffered(req) /\ heap' = Joined(heap, [result |-> "data"])
       ELSE UNCHANGED <<req, heap>>
  /\ call' = SystemCall(req', heap')
  /\ stage' = "executed"
  /\ UNCHANGED <<op, args, native, userFreed>>

\* ALLOC finds no memory: result -1, and no system call.
ExecuteNoMemory ==
  /\ AllocFails
  /\ stage = "submitted"
  /\ NeedsBuffer(req)
  /\ req' = [req EXCEPT !.free = @ \cup {"ptr2"}]
  /\ stage' = "executed"
  /\ UNCHANGED <<op, args, native, heap, call, userFreed>>

\* The flags eio__scandir goes by: sorting needs READDIR_DENTS (1).
ScanFlags(flags) == IF flags % 2 = 1 THEN flags ELSE flags - (flags % 8)
ScanBlocks(flags) == IF ScanFlags(flags) = 0 THEN {"names"} ELSE {"dents", "names"}

\* eio__scandir up to its loop: the directory is opened, ptr1 becomes the
\* entries (if there are to be any) and ptr2 the names.
ExecuteReaddir ==
  /\ stage = "submitted"
  /\ req.type = "readdir"
  /\ call' = SystemCall(req, heap)
  /\ \E got \in SUBSET ScanBlocks(req.int1) :
       /\ got = ScanBlocks(req.int1) \/ AllocFails
       /\ heap' = Joined(heap, [b \in got |-> "data"])
       /\ req' = [req EXCEPT !.ptr1 = IF "dents" \in got THEN "dents" ELSE Null,
                             !.ptr2 = IF "names" \in got THEN "names" ELSE Null,
                             !.free = {"ptr1", "ptr2"}]
  /\ stage' = "executed"
  /\ UNCHANGED <<op, args, native, userFreed>>

-----------------------------------------------------------------------------
(***************************************************************************)
(* The end of the request: eio_finish.                                     *)
(***************************************************************************)
Callback == /\ stage = "executed"
            /\ stage' = "called"
            /\ UNCHANGED <<op, args, native, heap, req, call, userFreed>>

\* free (0) does nothing.
Destroy == /\ stage = "called"
           /\ heap' = Restrict(heap, DOMAIN heap \ {req[f] : f \in req.free})
           /\ stage' = "destroyed"
           /\ UNCHANGED <<op, args, native, req, call, userFreed>>

\* Nothing is left to do.
Done == /\ stage \in {"failed", "destroyed"} /\ Returned /\ userFreed
        /\ UNCHANGED vars

Next == \/ \E o \in Ops : Invoke(o)
        \/ Construct(op) \/ ConstructFails(op) \/ SecondPathFails(op)
        \/ Release \/ UserFree
        \/ Execute \/ ExecuteNoMemory \/ ExecuteReaddir
        \/ Callback \/ Destroy \/ Done

Spec == Init /\ [][Next]_vars
=============================================================================
