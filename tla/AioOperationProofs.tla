------------------------- MODULE AioOperationProofs -------------------------
(***************************************************************************)
(* The memory and the arguments of one call, for all operations, all       *)
(* arguments and every failing allocation.                                 *)
(***************************************************************************)
EXTENDS AioOperationProps, SequenceTheorems, TLAPS

Blocks == DOMAIN heap

\* What the call has allocated and not yet freed, but for the pinned strings,
\* which the JNI function releases in its own time.
Own == Blocks \ {"buffer", "chars1", "chars2"}

\* The blocks that eio_destroy frees
Freed == {req[f] : f \in req.free}

Pointing == {req.ptr1, req.ptr2} \ {Null}

-----------------------------------------------------------------------------
(***************************************************************************)
(* The inductive invariant.                                                *)
(***************************************************************************)
StageOK ==
  /\ stage \in {"none", "bound", "submitted", "executed", "called", "destroyed", "failed"}
  /\ stage # "none" => op \in OnePath \cup TwoPaths \cup NoPath

\* The application's buffer is there until the application frees it, and that
\* is after the callback.
BufferOK ==
  /\ "buffer" \in Blocks <=> ~userFreed
  /\ userFreed => stage \in {"called", "destroyed", "failed"}

\* The strings are released together.
PinnedOK == "chars2" \in Blocks => "chars1" \in Blocks

\* The pointers the JNI function has been given
NativeOK ==
  stage = "bound" =>
    /\ op \in {"read", "write"} => native.buffer \in {"buffer", Null}
    /\ op \in {"msync", "mtouch", "mlock"} => native.addr \in {"buffer", Null}

\* The operations that the application gives a buffer
OnBuffer == {"msync", "mtouch", "mlock", "read", "write"}

\* A request whose system call has not been made: its paths are its own copies.
NewRequest ==
  /\ {"type", "free", "ptr1", "ptr2"} \subseteq DOMAIN req
  /\ req.type = op /\ req.free = Copies(op)
  /\ req.ptr1 = IF op \in OnePath \cup TwoPaths THEN "copy1" ELSE Null
  /\ req.ptr2 \in IF op \in TwoPaths THEN {"copy2"}
                  ELSE IF op \in OnBuffer
                       THEN {"buffer", Null} ELSE {Null}
  /\ Own = {CopyName(f) : f \in Copies(op)}

\* One whose system call has been made, or could not: it frees all that is the
\* call's own but what is forgotten, and nothing else.
MadeRequest ==
  /\ req.free \subseteq Pointers
  /\ Freed \cap {"buffer", "chars1", "chars2"} = {}
  /\ Own \ Forgotten = Freed \ {Null}
  /\ Forgotten \cap Freed = {}
  /\ Pointing \subseteq Own \cup {"buffer"}

HeapOK ==
  /\ stage \in {"none", "bound"} => Own = {}
  /\ stage = "submitted" => NewRequest
  /\ stage \in {"executed", "called"} => MadeRequest
  /\ stage \in {"destroyed", "failed"} => Own \subseteq Forgotten

IInv == StageOK /\ BufferOK /\ PinnedOK /\ NativeOK /\ HeapOK

LEMMA HeapJoin == ASSUME NEW f, NEW g PROVE DOMAIN Joined(f, g) = DOMAIN f \cup DOMAIN g
BY DEF Joined

LEMMA HeapCut == ASSUME NEW f, NEW S PROVE DOMAIN Restrict(f, S) = S
BY DEF Restrict

-----------------------------------------------------------------------------
(***************************************************************************)
(* The request a constructor makes.                                        *)
(***************************************************************************)

\* An argument nobody passes leaves its pointer null.
LEMMA NoField ==
  ASSUME NEW o, NEW n, NEW f \in Pointers, f \notin Copies(o),
         \A j \in DOMAIN Fields(o) : Fields(o)[j][2] # f
  PROVE  FieldValue(o, n, f) = Null
BY DEF FieldValue

\* The i-th argument goes to the field that only the i-th names.
LEMMA OneField ==
  ASSUME NEW o, NEW n, NEW f, f = "ptr2", f \notin Copies(o),
         NEW i \in DOMAIN Fields(o), Fields(o)[i] = <<"ptr", f>>,
         \A j \in DOMAIN Fields(o) : Fields(o)[j][2] = f => j = i
  PROVE  FieldValue(o, n, f) = EioArgs(o, n)[i]
<1> DEFINE at == {j \in DOMAIN Fields(o) : Fields(o)[j][2] = f}
<1>1. at = {i} /\ (CHOOSE j \in at : TRUE) = i
      OBVIOUS
<1>2. FieldType(f) = "ptr" /\ Fields(o)[i][1] = "ptr"
      BY DEF FieldType
<1>3. \A x : Conv("ptr", x) = x
      BY DEF Conv
<1> HIDE DEF at
<1>4. FieldValue(o, n, f) = Conv(FieldType(f), Conv(Fields(o)[i][1], EioArgs(o, n)[i]))
      BY <1>1 DEF FieldValue, at
<1> QED BY <1>2, <1>3, <1>4

\* Only operations with a path have a ptr1.
LEMMA NoPtr1 ==
  ASSUME NEW o \in NoPath, NEW j \in DOMAIN Fields(o)
  PROVE  Fields(o)[j][2] # "ptr1"
BY DEF NoPath, Fields, TwoPaths

LEMMA NoPtr2 ==
  ASSUME NEW o \in OnePath \cup NoPath, o \notin OnBuffer, NEW j \in DOMAIN Fields(o)
  PROVE  Fields(o)[j][2] # "ptr2"
BY DEF NoPath, OnePath, Fields, TwoPaths, OnBuffer

LEMMA GivenBuffer ==
  ASSUME NEW o \in OnBuffer, NEW n,
         o \in {"read", "write"} => n.buffer \in {"buffer", Null},
         o \in {"msync", "mtouch", "mlock"} => n.addr \in {"buffer", Null}
  PROVE  FieldValue(o, n, "ptr2") \in {"buffer", Null}
<1>1. "ptr2" \notin Copies(o)
      BY DEF Copies, OnBuffer, TwoPaths, OnePath
<1>2. o # "utime" /\ o # "sync_file_range" /\ o \notin TwoPaths /\ o \notin OnePath
      BY DEF OnBuffer, TwoPaths, OnePath
<1>3. EioArgs(o, n) = [i \in DOMAIN JavaParams(o) |-> n[JavaParams(o)[i]]]
      BY <1>2 DEF EioArgs, NativeParams
<1>4. CASE o \in {"read", "write"}
  <2>1. /\ Fields(o) = << <<"int", "int1">>, <<"ptr", "ptr2">>, <<"ulong", "size">>,
                          <<"long", "offs">> >>
        /\ JavaParams(o) = <<"fd", "buffer", "length", "offset">>
        BY <1>4 DEF Fields, JavaParams, TwoPaths
  <2>2. /\ 2 \in DOMAIN Fields(o) /\ Fields(o)[2] = <<"ptr", "ptr2">>
        /\ \A j \in DOMAIN Fields(o) : Fields(o)[j][2] = "ptr2" => j = 2
        BY <2>1
  <2>3. EioArgs(o, n)[2] = n.buffer
        BY <1>3, <2>1
  <2> QED BY <1>1, <1>4, <2>2, <2>3, OneField
<1>5. CASE o \in {"msync", "mtouch"}
  <2>1. /\ Fields(o) = << <<"ptr", "ptr2">>, <<"ulong", "size">>, <<"int", "int1">> >>
        /\ JavaParams(o) = <<"addr", "length", "flags">>
        BY <1>5 DEF Fields, JavaParams, TwoPaths
  <2>2. /\ 1 \in DOMAIN Fields(o) /\ Fields(o)[1] = <<"ptr", "ptr2">>
        /\ \A j \in DOMAIN Fields(o) : Fields(o)[j][2] = "ptr2" => j = 1
        BY <2>1
  <2>3. EioArgs(o, n)[1] = n.addr
        BY <1>3, <2>1
  <2> QED BY <1>1, <1>5, <2>2, <2>3, OneField
<1>6. CASE o = "mlock"
  <2>1. /\ Fields(o) = << <<"ptr", "ptr2">>, <<"ulong", "size">> >>
        /\ JavaParams(o) = <<"addr", "length">>
        BY <1>6 DEF Fields, JavaParams, TwoPaths
  <2>2. /\ 1 \in DOMAIN Fields(o) /\ Fields(o)[1] = <<"ptr", "ptr2">>
        /\ \A j \in DOMAIN Fields(o) : Fields(o)[j][2] = "ptr2" => j = 1
        BY <2>1
  <2>3. EioArgs(o, n)[1] = n.addr
        BY <1>3, <2>1
  <2> QED BY <1>1, <1>6, <2>2, <2>3, OneField
<1> QED BY <1>4, <1>5, <1>6 DEF OnBuffer

LEMMA RequestIs ==
  ASSUME NEW o \in OnePath \cup TwoPaths \cup NoPath, NEW n,
         o \in {"read", "write"} => n.buffer \in {"buffer", Null},
         o \in {"msync", "mtouch", "mlock"} => n.addr \in {"buffer", Null}
  PROVE  /\ {"type", "free", "ptr1", "ptr2"} \subseteq DOMAIN Request(o, n)
         /\ Request(o, n).type = o /\ Request(o, n).free = Copies(o)
         /\ Request(o, n).ptr1 = IF o \in OnePath \cup TwoPaths THEN "copy1" ELSE Null
         /\ Request(o, n).ptr2 \in IF o \in TwoPaths THEN {"copy2"}
                                   ELSE IF o \in OnBuffer THEN {"buffer", Null} ELSE {Null}
<1>1. /\ {"type", "free", "ptr1", "ptr2"} \subseteq DOMAIN Request(o, n)
      /\ Request(o, n).type = o /\ Request(o, n).free = Copies(o)
      /\ Request(o, n).ptr1 = FieldValue(o, n, "ptr1")
      /\ Request(o, n).ptr2 = FieldValue(o, n, "ptr2")
      BY DEF Request, Joined, Numbers, Pointers
<1>2. o \in OnePath \cup TwoPaths => FieldValue(o, n, "ptr1") = "copy1"
      BY DEF FieldValue, Copies, CopyName
<1>3. o \in NoPath => FieldValue(o, n, "ptr1") = Null
  <2>1. o \in NoPath => "ptr1" \notin Copies(o)
        BY DEF Copies, NoPath, OnePath, TwoPaths
  <2> QED BY <2>1, NoPtr1, NoField DEF Pointers
<1>4. o \in TwoPaths => FieldValue(o, n, "ptr2") = "copy2"
      BY DEF FieldValue, Copies, CopyName
<1>5. o \notin TwoPaths /\ o \notin OnBuffer => FieldValue(o, n, "ptr2") = Null
  <2>1. o \notin TwoPaths => "ptr2" \notin Copies(o)
        BY DEF Copies
  <2> QED BY <2>1, NoPtr2, NoField DEF Pointers
<1>6. o \in OnBuffer => FieldValue(o, n, "ptr2") \in {"buffer", Null}
      BY GivenBuffer
<1>7. o \in OnePath \cup TwoPaths => o \notin NoPath
      BY DEF OnePath, TwoPaths, NoPath
<1>8. o \in OnBuffer => o \notin TwoPaths
      BY DEF OnBuffer, TwoPaths
<1> QED BY <1>1, <1>2, <1>3, <1>4, <1>5, <1>6, <1>7, <1>8

-----------------------------------------------------------------------------
(***************************************************************************)
(* The steps.                                                              *)
(***************************************************************************)
LEMMA InitOK == Init => IInv
BY DEF Init, IInv, StageOK, BufferOK, PinnedOK, NativeOK, HeapOK, Own, Blocks

LEMMA InvokeStep == ASSUME IInv, NEW o \in Ops, Invoke(o) PROVE IInv'
<1>1. o \in OnePath \cup TwoPaths \cup NoPath
      BY OperationAssumption
<1>2. stage = "none" /\ stage' = "bound" /\ op' = o /\ UNCHANGED userFreed
      BY DEF Invoke
<1>3. Blocks' = Blocks \cup DOMAIN Pinned(o, native')
      BY HeapJoin DEF Invoke, Blocks
<1>4. DOMAIN Pinned(o, native') = IF o \in TwoPaths THEN {"chars1", "chars2"}
                                  ELSE IF o \in OnePath THEN {"chars1"} ELSE {}
      BY DEF Pinned
<1>5. PICK in \in Inputs :
        args' = Restrict(in, Range(JavaParams(o)) \cup {"priority", "callback"})
      BY DEF Invoke
<1>6. in.buffer \in {"buffer", Null} /\ in.addr \in {"buffer", Null}
      BY OperationAssumption
<1>7. ASSUME o \in OnBuffer PROVE native' = args'
      BY <1>7 DEF Invoke, NativeArgs, OnBuffer
<1>8. ASSUME o \in {"read", "write"} PROVE native'.buffer \in {"buffer", Null}
  <2>1. JavaParams(o) = <<"fd", "buffer", "length", "offset">>
        BY <1>8 DEF JavaParams, TwoPaths
  <2>2. "buffer" \in Range(JavaParams(o))
        BY <2>1 DEF Range
  <2>3. args'.buffer = in.buffer
        BY <1>5, <2>2 DEF Restrict
  <2> QED BY <1>6, <1>7, <1>8, <2>3 DEF OnBuffer
<1>9. ASSUME o \in {"msync", "mtouch", "mlock"} PROVE native'.addr \in {"buffer", Null}
  <2>1. /\ o # "mlock" => JavaParams(o) = <<"addr", "length", "flags">>
        /\ o = "mlock" => JavaParams(o) = <<"addr", "length">>
        BY <1>9 DEF JavaParams, TwoPaths
  <2>2. "addr" \in Range(JavaParams(o))
        BY <2>1 DEF Range
  <2>3. args'.addr = in.addr
        BY <1>5, <2>2 DEF Restrict
  <2> QED BY <1>6, <1>7, <1>9, <2>3 DEF OnBuffer
<1>10. StageOK' /\ NativeOK'
       BY <1>1, <1>2, <1>8, <1>9 DEF StageOK, NativeOK
<1>11. BufferOK' /\ PinnedOK' /\ HeapOK'
       BY <1>2, <1>3, <1>4 DEF IInv, BufferOK, PinnedOK, HeapOK, Own
<1> QED BY <1>10, <1>11 DEF IInv

LEMMA ConstructStep == ASSUME IInv, Construct(op) PROVE IInv'
<1>1. stage = "bound" /\ stage' = "submitted" /\ req' = Request(op, native)
      /\ UNCHANGED <<op, userFreed>>
      BY DEF Construct
<1>2. op \in OnePath \cup TwoPaths \cup NoPath
      BY <1>1 DEF IInv, StageOK
<1>3. Blocks' = Blocks \cup {CopyName(f) : f \in Copies(op)}
      BY HeapJoin DEF Construct, Blocks
<1>4. {CopyName(f) : f \in Copies(op)} \subseteq {"copy1", "copy2"}
      BY DEF CopyName
<1>5. Own' = {CopyName(f) : f \in Copies(op)}
      BY <1>1, <1>3, <1>4 DEF IInv, HeapOK, Own
<1>6. NewRequest'
  <2>1. /\ {"type", "free", "ptr1", "ptr2"} \subseteq DOMAIN req'
        /\ req'.type = op /\ req'.free = Copies(op)
        /\ req'.ptr1 = IF op \in OnePath \cup TwoPaths THEN "copy1" ELSE Null
        /\ req'.ptr2 \in IF op \in TwoPaths THEN {"copy2"}
                         ELSE IF op \in OnBuffer THEN {"buffer", Null} ELSE {Null}
        BY <1>1, <1>2, RequestIs DEF IInv, NativeOK
  <2> QED BY <1>1, <1>5, <2>1 DEF NewRequest
<1>7. BufferOK' /\ PinnedOK'
      BY <1>1, <1>3, <1>4 DEF IInv, BufferOK, PinnedOK
<1> QED BY <1>1, <1>2, <1>6, <1>7 DEF IInv, StageOK, NativeOK, HeapOK

LEMMA ConstructFailsStep == ASSUME IInv, ConstructFails(op) PROVE IInv'
BY DEF ConstructFails, IInv, StageOK, BufferOK, PinnedOK, NativeOK, HeapOK, Own, Blocks

LEMMA SecondPathFailsStep == ASSUME IInv, SecondPathFails(op) PROVE IInv'
<1>1. stage = "bound" /\ stage' = "failed" /\ op \in TwoPaths
      /\ UNCHANGED <<op, userFreed>>
      BY DEF SecondPathFails
<1>2. Blocks' = Blocks \cup {"copy1"}
      BY HeapJoin DEF SecondPathFails, Blocks
<1>3. Own' \subseteq {"copy1"} /\ Forgotten' = {"copy1"}
      BY <1>1, <1>2 DEF IInv, HeapOK, Own, Forgotten
<1> QED BY <1>1, <1>2, <1>3 DEF IInv, StageOK, BufferOK, PinnedOK, NativeOK, HeapOK

\* Steps of the JNI function and the application, which leave the call's own
\* blocks alone
LEMMA ReleaseStep == ASSUME IInv, Release PROVE IInv'
<1>1. Blocks' = Blocks \ {"chars1", "chars2"} /\ stage \notin {"none", "bound"}
      /\ UNCHANGED <<stage, op, native, req, userFreed>>
      BY HeapCut DEF Release, Blocks
<1>2. Own' = Own
      BY <1>1 DEF Own
<1> QED BY <1>1, <1>2 DEF IInv, StageOK, BufferOK, PinnedOK, NativeOK, HeapOK, NewRequest,
                        MadeRequest, Freed, Pointing, Forgotten

LEMMA UserFreeStep == ASSUME IInv, UserFree PROVE IInv'
<1>1. Blocks' = Blocks \ {"buffer"} /\ stage \in {"called", "destroyed", "failed"}
      /\ UNCHANGED <<stage, op, native, req>> /\ userFreed'
      BY HeapCut DEF UserFree, Blocks
<1>2. Own' = Own
      BY <1>1 DEF Own
<1> QED BY <1>1, <1>2 DEF IInv, StageOK, BufferOK, PinnedOK, NativeOK, HeapOK, NewRequest,
                        MadeRequest, Freed, Pointing, Forgotten

LEMMA CopiesAre == Copies(op) = IF op \in TwoPaths THEN {"ptr1", "ptr2"}
                               ELSE IF op \in OnePath THEN {"ptr1"} ELSE {}
BY DEF Copies

\* The system call is made without another block.
LEMMA MadeAsItIs ==
  ASSUME NewRequest, Forgotten = {}, op \in OnePath \cup TwoPaths \cup NoPath
  PROVE  MadeRequest
<1>1. CASE op \in TwoPaths
  <2>1. Freed = {"copy1", "copy2"} /\ Own = {"copy1", "copy2"}
        BY <1>1, CopiesAre DEF NewRequest, Freed, CopyName
  <2> QED BY <1>1, <2>1, CopiesAre DEF NewRequest, MadeRequest, Pointing, Pointers, Null
<1>2. CASE op \notin TwoPaths /\ op \in OnePath
  <2>1. Freed = {"copy1"} /\ Own = {"copy1"}
        BY <1>2, CopiesAre DEF NewRequest, Freed, CopyName
  <2>2. Pointing \subseteq {"copy1", "buffer"}
        BY <1>2 DEF NewRequest, Pointing, OnBuffer, OnePath, TwoPaths
  <2> QED BY <1>2, <2>1, <2>2, CopiesAre DEF NewRequest, MadeRequest, Pointers, Null
<1>3. CASE op \notin TwoPaths /\ op \notin OnePath
  <2>1. Freed = {} /\ Own = {}
        BY <1>3, CopiesAre DEF NewRequest, Freed, CopyName
  <2>2. Pointing \subseteq {"buffer"}
        BY <1>3 DEF NewRequest, Pointing
  <2> QED BY <1>3, <2>1, <2>2, CopiesAre DEF NewRequest, MadeRequest, Pointers, Null
<1> QED BY <1>1, <1>2, <1>3

\* ALLOC: what is found for ptr2, a new block or null, is freed with the request.
LEMMA Allocates ==
  ASSUME NewRequest, NeedsBuffer(req), NEW b \in {"result", Null},
         req' = [req EXCEPT !.ptr2 = b, !.free = @ \cup {"ptr2"}],
         Own' = Own \cup ({b} \ {Null}), Forgotten' = {}, op' = op
  PROVE  MadeRequest'
<1>1. op \notin TwoPaths
      BY DEF NeedsBuffer, NewRequest, AllocatesBuffer, TwoPaths
<1>2. req'.ptr2 = b /\ req'.ptr1 = req.ptr1 /\ req'.free = Copies(op) \cup {"ptr2"}
      BY DEF NewRequest
<1>3. CASE op \in OnePath
  <2>1. Freed' = {"copy1", b} /\ Own = {"copy1"}
        BY <1>1, <1>2, <1>3, CopiesAre DEF NewRequest, Freed, CopyName
  <2> QED BY <1>1, <1>2, <1>3, <2>1, CopiesAre
          DEF NewRequest, MadeRequest, Pointing, Pointers, Null
<1>4. CASE op \notin OnePath
  <2>1. Freed' = {b} /\ Own = {}
        BY <1>1, <1>2, <1>4, CopiesAre DEF NewRequest, Freed, CopyName
  <2> QED BY <1>1, <1>2, <1>4, <2>1, CopiesAre
          DEF NewRequest, MadeRequest, Pointing, Pointers, Null
<1> QED BY <1>3, <1>4

LEMMA ExecuteStep == ASSUME IInv, Execute PROVE IInv'
<1>1. stage = "submitted" /\ stage' = "executed" /\ UNCHANGED <<op, native, userFreed>>
      /\ req.type # "readdir" /\ NewRequest
      BY DEF Execute, IInv, HeapOK
<1>2. Forgotten = {} /\ Forgotten' = {} /\ op \in OnePath \cup TwoPaths \cup NoPath
      BY <1>1 DEF IInv, StageOK, NewRequest, Forgotten
<1>3. CASE NeedsBuffer(req)
  <2>1. req' = [req EXCEPT !.ptr2 = "result", !.free = @ \cup {"ptr2"}]
        BY <1>3 DEF Execute, Buffered
  <2>2. Blocks' = Blocks \cup {"result"}
    <3>1. heap' = Joined(heap, [result |-> "data"])
          BY <1>3 DEF Execute
    <3>2. DOMAIN [result |-> "data"] = {"result"}
          OBVIOUS
    <3> QED BY <3>1, <3>2, HeapJoin DEF Blocks
  <2>3. Own' = Own \cup ({"result"} \ {Null})
        BY <2>2 DEF Own, Null
  <2>4. MadeRequest'
        BY <1>1, <1>2, <1>3, <2>1, <2>3, Allocates
  <2> QED BY <1>1, <2>2, <2>4 DEF IInv, StageOK, BufferOK, PinnedOK, NativeOK, HeapOK
<1>4. CASE ~NeedsBuffer(req)
  <2>1. UNCHANGED <<req, heap>>
        BY <1>4 DEF Execute
  <2>2. MadeRequest'
        BY <1>1, <1>2, <2>1, MadeAsItIs
           DEF MadeRequest, Freed, Pointing, Own, Blocks
  <2> QED BY <1>1, <2>1, <2>2 DEF IInv, StageOK, BufferOK, PinnedOK, NativeOK, HeapOK, Blocks
<1> QED BY <1>3, <1>4

LEMMA ExecuteNoMemoryStep == ASSUME IInv, ExecuteNoMemory PROVE IInv'
<1>1. stage = "submitted" /\ stage' = "executed" /\ UNCHANGED <<op, native, userFreed, heap>>
      /\ NeedsBuffer(req) /\ NewRequest
      BY DEF ExecuteNoMemory, IInv, HeapOK
<1>2. op # "readdir" /\ Forgotten' = {}
      BY <1>1 DEF NewRequest, NeedsBuffer, AllocatesBuffer, Forgotten
<1>3. req' = [req EXCEPT !.ptr2 = Null, !.free = @ \cup {"ptr2"}]
  <2>1. req' = [req EXCEPT !.free = @ \cup {"ptr2"}]
        BY DEF ExecuteNoMemory
  <2> QED BY <1>1, <2>1 DEF NeedsBuffer, NewRequest
<1>4. Own' = Own \cup ({Null} \ {Null})
      BY <1>1 DEF Own, Blocks
<1>5. MadeRequest'
      BY <1>1, <1>2, <1>3, <1>4, Allocates
<1> QED BY <1>1, <1>5 DEF IInv, StageOK, BufferOK, PinnedOK, NativeOK, HeapOK, Blocks

LEMMA ExecuteReaddirStep == ASSUME IInv, ExecuteReaddir PROVE IInv'
<1>1. stage = "submitted" /\ stage' = "executed" /\ UNCHANGED <<op, native, userFreed>>
      /\ op = "readdir" /\ NewRequest
      BY DEF ExecuteReaddir, IInv, HeapOK, NewRequest
<1>2. PICK got \in SUBSET ScanBlocks(req.int1) :
        /\ heap' = Joined(heap, [b \in got |-> "data"])
        /\ req' = [req EXCEPT !.ptr1 = IF "dents" \in got THEN "dents" ELSE Null,
                              !.ptr2 = IF "names" \in got THEN "names" ELSE Null,
                              !.free = {"ptr1", "ptr2"}]
      BY DEF ExecuteReaddir
<1>3. got \subseteq {"dents", "names"}
      BY DEF ScanBlocks
<1>4. Blocks' = Blocks \cup got
      BY <1>2, HeapJoin DEF Blocks
<1>5. Own = {"copy1"} /\ Forgotten' = {"copy1"}
      BY <1>1, CopiesAre DEF NewRequest, OnePath, TwoPaths, CopyName, Forgotten
<1>6. Own' = {"copy1"} \cup got
      BY <1>3, <1>4, <1>5 DEF Own
<1>7. /\ req'.ptr1 = IF "dents" \in got THEN "dents" ELSE Null
      /\ req'.ptr2 = IF "names" \in got THEN "names" ELSE Null
      /\ req'.free = {"ptr1", "ptr2"}
      BY <1>1, <1>2 DEF NewRequest
<1>8. Freed' = {req'.ptr1, req'.ptr2}
      BY <1>7 DEF Freed
<1>9. MadeRequest'
      BY <1>3, <1>5, <1>6, <1>7, <1>8 DEF MadeRequest, Pointing, Pointers, Null
<1> QED BY <1>1, <1>3, <1>4, <1>9 DEF IInv, StageOK, BufferOK, PinnedOK, NativeOK, HeapOK

LEMMA CallbackStep == ASSUME IInv, Callback PROVE IInv'
<1>1. stage = "executed" /\ stage' = "called"
      /\ UNCHANGED <<op, native, heap, req, userFreed>>
      BY DEF Callback
<1>2. Forgotten' = Forgotten
      BY <1>1 DEF Forgotten
<1> QED BY <1>1, <1>2 DEF IInv, StageOK, BufferOK, PinnedOK, NativeOK, HeapOK, MadeRequest,
                        Freed, Pointing, Own, Blocks

\* eio_destroy frees what is the call's own, and nothing twice.
LEMMA DestroyStep == ASSUME IInv, Destroy PROVE IInv'
<1>1. stage = "called" /\ stage' = "destroyed" /\ UNCHANGED <<op, native, req, userFreed>>
      BY DEF Destroy
<1>2. Blocks' = Blocks \ Freed
      BY HeapCut DEF Destroy, Blocks, Freed
<1>3. MadeRequest
      BY <1>1 DEF IInv, HeapOK
<1>4. Forgotten' = Forgotten
      BY <1>1 DEF Forgotten
<1>5. Own' \subseteq Own \ Freed
      BY <1>2 DEF Own
<1>6. Own' \subseteq Forgotten
      BY <1>3, <1>5 DEF MadeRequest, Null
<1> QED BY <1>1, <1>2, <1>3, <1>4, <1>6
        DEF IInv, StageOK, BufferOK, PinnedOK, NativeOK, HeapOK, MadeRequest

LEMMA Stutter == ASSUME IInv, UNCHANGED vars PROVE IInv'
BY DEF vars, IInv, StageOK, BufferOK, PinnedOK, NativeOK, HeapOK, NewRequest, MadeRequest,
       Freed, Pointing, Forgotten, Own, Blocks

LEMMA NextStep == IInv /\ [Next]_vars => IInv'
<1> SUFFICES ASSUME IInv, [Next]_vars PROVE IInv'
    OBVIOUS
<1>1. CASE Next
      BY <1>1, InvokeStep, ConstructStep, ConstructFailsStep, SecondPathFailsStep,
         ReleaseStep, UserFreeStep, ExecuteStep, ExecuteNoMemoryStep, ExecuteReaddirStep,
         CallbackStep, DestroyStep, Stutter
         DEF Next, Done
<1>2. CASE UNCHANGED vars
      BY <1>2, Stutter
<1> QED BY <1>1, <1>2

\* eio_execute, the callback and eio_destroy refer to allocated blocks only,
\* whenever the JNI function releases its strings and whichever allocation fails.
THEOREM OperationMemory == Spec => []MemoryLive
<1>1. IInv => MemoryLive
  <2> SUFFICES ASSUME IInv PROVE MemoryLive
      OBVIOUS
  <2>1. ASSUME stage = "submitted" PROVE Pointing \subseteq Blocks
    <3>1. NewRequest /\ "buffer" \in Blocks /\ op \in OnePath \cup TwoPaths \cup NoPath
          BY <2>1 DEF IInv, HeapOK, BufferOK, StageOK
    <3>2. Own \subseteq Blocks
          BY DEF Own
    <3>3. op \in OnePath \cup TwoPaths => "copy1" \in Own
          BY <3>1, CopiesAre DEF NewRequest, CopyName
    <3>4. op \in TwoPaths => "copy2" \in Own
          BY <3>1, CopiesAre DEF NewRequest, CopyName
    <3> QED BY <3>1, <3>2, <3>3, <3>4 DEF NewRequest, Pointing
  <2>2. ASSUME stage = "executed" PROVE Pointing \subseteq Blocks
        BY <2>2 DEF IInv, HeapOK, BufferOK, MadeRequest, Own
  <2>3. ASSUME stage = "called" PROVE Freed \ {Null} \subseteq Blocks
        BY <2>3 DEF IInv, HeapOK, MadeRequest, Own
  <2> QED BY <2>1, <2>2, <2>3 DEF MemoryLive, Pointing, Freed, Blocks
<1> QED BY InitOK, NextStep, <1>1, PTL DEF Spec

\* At the end the heap is as the application left it, up to the path that libeio
\* forgets: for every operation and every failing allocation.
THEOREM OperationHeap == Spec => []HeapAtEnd
<1>1. IInv => HeapAtEnd
  <2> SUFFICES ASSUME IInv, stage \in {"destroyed", "failed"}, Returned PROVE
        /\ DOMAIN heap \ {"buffer"} \subseteq Forgotten
        /\ "buffer" \in DOMAIN heap <=> ~userFreed
      BY DEF HeapAtEnd
  <2>1. "chars1" \notin Blocks /\ "chars2" \notin Blocks
        BY DEF Returned, IInv, PinnedOK, Blocks
  <2>2. Own = Blocks \ {"buffer"}
        BY <2>1 DEF Own
  <2> QED BY <2>2 DEF IInv, HeapOK, BufferOK, Blocks
<1> QED BY InitOK, NextStep, <1>1, PTL DEF Spec

-----------------------------------------------------------------------------
(***************************************************************************)
(* Conversions.  Every integer that a Java method passes is an int.        *)
(***************************************************************************)
LEMMA Wider == LongMod % 2 = 0 /\ LongMod >= IntMod /\ LongMod \div 2 >= IntMod \div 2
<1>1. PICK q \in Nat : LongMod = IntMod * q
      BY OperationAssumption
<1>2. PICK h \in Nat : IntMod = 2 * h
      BY OperationAssumption
<1>3. q >= 1 /\ h >= 1
      BY <1>1, <1>2, OperationAssumption
<1>4. LongMod = 2 * (h * q) /\ h * q >= h
      BY <1>1, <1>2, <1>3
<1> QED BY <1>2, <1>4

LEMMA SignedKeeps ==
  ASSUME NEW m \in Nat \ {0}, m % 2 = 0, NEW x \in -(m \div 2) .. (m \div 2) - 1
  PROVE  SignedIn(x, m) = x
BY DEF SignedIn

LEMMA IntKept == ASSUME NEW x \in Ints PROVE Conv("int", x) = x /\ Conv("long", x) = x
BY OperationAssumption, Wider, SignedKeeps DEF Conv, Ints

\* Through a field of type long
LEMMA UintKept ==
  ASSUME NEW x \in Ints
  PROVE  Conv("uint", Conv("long", Conv("uint", x))) = Conv("uint", x)
<1>1. PICK y \in 0 .. IntMod - 1 : y = x % IntMod
      BY OperationAssumption DEF Ints
<1>2. SignedIn(y, LongMod) \in {y, y - LongMod}
      BY OperationAssumption, Wider DEF SignedIn
<1>3. y % IntMod = y /\ (y - LongMod) % IntMod = y
  <2>1. PICK q \in Nat : LongMod = IntMod * q
        BY OperationAssumption
  <2>2. y - LongMod = IntMod * (-q) + y /\ -q \in Int /\ y - LongMod \in Int
        BY <2>1, OperationAssumption
  <2>3. ASSUME NEW n \in Int, NEW k \in Int, n = IntMod * k + y
        PROVE  y = n % IntMod
        BY <2>3, OperationAssumption
  <2>4. y = IntMod * 0 + y
        BY OperationAssumption
  <2> QED BY <2>2, <2>3, <2>4
<1> QED BY <1>1, <1>2, <1>3 DEF Conv

LEMMA UlongKept ==
  ASSUME NEW x \in Ints
  PROVE  /\ Conv("ulong", Conv("long", Conv("ulong", x))) = Conv("ulong", x)
         /\ Conv("ulong", Conv("ulong", x)) = Conv("ulong", x)
<1>1. PICK y \in 0 .. LongMod - 1 : y = x % LongMod
      BY OperationAssumption DEF Ints
<1>2. SignedIn(y, LongMod) % LongMod = y
      BY OperationAssumption DEF SignedIn
<1>3. y % LongMod = y
      BY OperationAssumption
<1> QED BY <1>1, <1>2, <1>3 DEF Conv

LEMMA OthersKept == \A x : Conv("double", x) = x /\ Conv("ptr", x) = x
BY DEF Conv

-----------------------------------------------------------------------------
(***************************************************************************)
(* Tuples.                                                                 *)
(***************************************************************************)
LEMMA Prefix0 == ASSUME NEW x PROVE <<x>> \o <<>> = <<x>>
OBVIOUS

LEMMA Prefix1 ==
  ASSUME NEW x, NEW a
  PROVE  <<x>> \o <<a>> = <<x, a>>
<1> DEFINE S == {x, a}
           j == <<x>> \o <<a>>
<1>1. <<x>> \in Seq(S) /\ <<a>> \in Seq(S) /\ <<x, a>> \in Seq(S)
      OBVIOUS
<1> HIDE DEF S
<1>2. /\ j \in Seq(S) /\ Len(j) = 2
      /\ \A i \in 1 .. 2 : j[i] = IF i <= 1 THEN <<x>>[i] ELSE <<a>>[i - 1]
      BY <1>1, ConcatProperties
<1>3. \A i \in 1 .. 2 : j[i] = <<x, a>>[i]
      BY <1>2
<1> QED BY <1>1, <1>2, <1>3, SeqEqual

LEMMA Prefix2 ==
  ASSUME NEW x, NEW a, NEW b
  PROVE  <<x>> \o <<a, b>> = <<x, a, b>>
<1> DEFINE S == {x, a, b}
           j == <<x>> \o <<a, b>>
<1>1. <<x>> \in Seq(S) /\ <<a, b>> \in Seq(S) /\ <<x, a, b>> \in Seq(S)
      OBVIOUS
<1> HIDE DEF S
<1>2. /\ j \in Seq(S) /\ Len(j) = 3
      /\ \A i \in 1 .. 3 : j[i] = IF i <= 1 THEN <<x>>[i] ELSE <<a, b>>[i - 1]
      BY <1>1, ConcatProperties
<1>3. \A i \in 1 .. 3 : j[i] = <<x, a, b>>[i]
      BY <1>2
<1> QED BY <1>1, <1>2, <1>3, SeqEqual

LEMMA Prefix3 ==
  ASSUME NEW x, NEW a, NEW b, NEW c
  PROVE  <<x>> \o <<a, b, c>> = <<x, a, b, c>>
<1> DEFINE S == {x, a, b, c}
           j == <<x>> \o <<a, b, c>>
<1>1. <<x>> \in Seq(S) /\ <<a, b, c>> \in Seq(S) /\ <<x, a, b, c>> \in Seq(S)
      OBVIOUS
<1> HIDE DEF S
<1>2. /\ j \in Seq(S) /\ Len(j) = 4
      /\ \A i \in 1 .. 4 : j[i] = IF i <= 1 THEN <<x>>[i] ELSE <<a, b, c>>[i - 1]
      BY <1>1, ConcatProperties
<1>3. \A i \in 1 .. 4 : j[i] = <<x, a, b, c>>[i]
      BY <1>2
<1> QED BY <1>1, <1>2, <1>3, SeqEqual

LEMMA Prefix4 ==
  ASSUME NEW x, NEW a, NEW b, NEW c, NEW d
  PROVE  <<x>> \o <<a, b, c, d>> = <<x, a, b, c, d>>
<1> DEFINE S == {x, a, b, c, d}
           j == <<x>> \o <<a, b, c, d>>
<1>1. <<x>> \in Seq(S) /\ <<a, b, c, d>> \in Seq(S) /\ <<x, a, b, c, d>> \in Seq(S)
      OBVIOUS
<1> HIDE DEF S
<1>2. /\ j \in Seq(S) /\ Len(j) = 5
      /\ \A i \in 1 .. 5 : j[i] = IF i <= 1 THEN <<x>>[i] ELSE <<a, b, c, d>>[i - 1]
      BY <1>1, ConcatProperties
<1>3. \A i \in 1 .. 5 : j[i] = <<x, a, b, c, d>>[i]
      BY <1>2
<1> QED BY <1>1, <1>2, <1>3, SeqEqual

LEMMA Appended ==
  ASSUME NEW x, NEW a, NEW e
  PROVE  Append(<<x, a>>, e) = <<x, a, e>>
<1> DEFINE S == {x, a, e}
           j == Append(<<x, a>>, e)
<1>1. <<x, a>> \in Seq(S) /\ e \in S /\ <<x, a, e>> \in Seq(S)
      OBVIOUS
<1> HIDE DEF S
<1>2. /\ j \in Seq(S) /\ Len(j) = 3
      /\ j[1] = x /\ j[2] = a /\ j[3] = e
      BY <1>1
<1>3. \A i \in 1 .. 3 : j[i] = <<x, a, e>>[i]
      BY <1>2
<1> QED BY <1>1, <1>2, <1>3, SeqEqual

-----------------------------------------------------------------------------
(***************************************************************************)
(* From the parameter to the field.                                        *)
(***************************************************************************)
LEMMA FieldTakes ==
  ASSUME NEW o, NEW n, NEW f \in Numbers \cup Pointers, f \notin Copies(o),
         NEW i \in DOMAIN Fields(o), NEW type, Fields(o)[i] = <<type, f>>,
         \A j \in DOMAIN Fields(o) : Fields(o)[j][2] = f => j = i
  PROVE  FieldValue(o, n, f) = Conv(FieldType(f), Conv(type, EioArgs(o, n)[i]))
<1> DEFINE at == {j \in DOMAIN Fields(o) : Fields(o)[j][2] = f}
<1>1. at = {i} /\ (CHOOSE j \in at : TRUE) = i
      OBVIOUS
<1> HIDE DEF at
<1>2. FieldValue(o, n, f) = Conv(FieldType(f), Conv(Fields(o)[i][1], EioArgs(o, n)[i]))
      BY <1>1 DEF FieldValue, at
<1> QED BY <1>2

LEMMA PathParams == ASSUME NEW o \in OnePath PROVE JavaParams(o) \in Seq(Params)
<1>1. {"path", "flags", "mode", "offset", "uid", "gid", "dev"} \subseteq Params
      BY DEF Params
<1>2. JavaParams(o) \in {<<"path">>, <<"path", "flags">>, <<"path", "mode">>,
                         <<"path", "offset">>, <<"path", "flags", "mode">>,
                         <<"path", "uid", "gid">>, <<"path", "mode", "dev">>}
      BY DEF JavaParams, OnePath, TwoPaths
<1>3. ASSUME NEW a \in Params, NEW b \in Params, NEW c \in Params
      PROVE  <<a>> \in Seq(Params) /\ <<a, b>> \in Seq(Params) /\ <<a, b, c>> \in Seq(Params)
      OBVIOUS
<1> QED BY <1>1, <1>2, <1>3

\* The constructor gets the parameters of the Java method in their order.
LEMMA Passed ==
  ASSUME NEW o \in OnePath \cup NoPath, o \notin Misbound, NEW n,
         NEW i \in DOMAIN JavaParams(o), o \in OnePath => i > 1
  PROVE  EioArgs(o, n)[i] = n[JavaParams(o)[i]]
<1> DEFINE plain == [j \in DOMAIN JavaParams(o) |-> n[JavaParams(o)[j]]]
<1>1. NativeParams(o) = JavaParams(o) /\ o # "sync_file_range" /\ o \notin TwoPaths
      BY DEF NativeParams, Misbound
<1>2. EioArgs(o, n) = IF o \in OnePath THEN <<"chars1">> \o Tail(plain) ELSE plain
      BY <1>1 DEF EioArgs
<1>3. CASE o \notin OnePath
      BY <1>2, <1>3
<1>4. CASE o \in OnePath
  <2> DEFINE S == {n[p] : p \in Params} \cup {"chars1"}
  <2>1. /\ JavaParams(o) \in Seq(Params) /\ DOMAIN JavaParams(o) = 1 .. Len(JavaParams(o))
        /\ Len(JavaParams(o)) \in Nat
        /\ \A j \in DOMAIN JavaParams(o) : JavaParams(o)[j] \in Params
        BY <1>4, PathParams
  <2>2. plain \in [1 .. Len(JavaParams(o)) -> S]
        BY <2>1
  <2>3. plain \in Seq(S) /\ Len(plain) = Len(JavaParams(o))
        BY <2>1, <2>2
  <2>4. plain # <<>>
        BY <1>4, <2>1, <2>3
  <2>5. /\ Tail(plain) \in Seq(S) /\ Len(Tail(plain)) = Len(plain) - 1
        /\ \A j \in 1 .. Len(plain) - 1 : Tail(plain)[j] = plain[j + 1]
        BY <2>3, <2>4
  <2>6. <<"chars1">> \in Seq(S)
        OBVIOUS
  <2> HIDE DEF S, plain
  <2>7. (<<"chars1">> \o Tail(plain))[i] = Tail(plain)[i - 1]
        BY <1>4, <2>1, <2>3, <2>5, <2>6, ConcatProperties
  <2>8. Tail(plain)[i - 1] = plain[i]
        BY <1>4, <2>1, <2>3, <2>5
  <2> QED BY <1>2, <1>4, <2>7, <2>8 DEF plain
<1> QED BY <1>3, <1>4

\* The field with the i-th argument has the value of the i-th parameter.
LEMMA FieldIs ==
  ASSUME NEW o \in OnePath \cup NoPath, o \notin Misbound, NEW n,
         NEW f \in Numbers \cup Pointers, f \notin Copies(o),
         NEW i \in DOMAIN Fields(o), i \in DOMAIN JavaParams(o), o \in OnePath => i > 1,
         NEW type, Fields(o)[i] = <<type, f>>,
         \A j \in DOMAIN Fields(o) : Fields(o)[j][2] = f => j = i
  PROVE  FieldValue(o, n, f) = Conv(FieldType(f), Conv(type, n[JavaParams(o)[i]]))
BY FieldTakes, Passed

Bound == (OnePath \cup NoPath) \ Misbound

\* The i-th argument, p, goes as a value of the C type to the field f, and to no
\* other.
Takes(o, i, p, type, f) ==
  /\ i \in DOMAIN Fields(o) /\ i \in DOMAIN JavaParams(o)
  /\ JavaParams(o)[i] = p /\ Fields(o)[i] = <<type, f>>
  /\ o \in OnePath => i > 1
  /\ \A j \in DOMAIN Fields(o) : Fields(o)[j][2] = f => j = i

LEMMA TakesValue ==
  ASSUME NEW o \in Bound, NEW a, NEW i, NEW p, NEW type, NEW f \in Numbers \cup {"ptr2"},
         Takes(o, i, p, type, f)
  PROVE  FieldValue(o, a, f) = Conv(FieldType(f), Conv(type, a[p]))
<1>1. f \notin Copies(o) /\ f \in Numbers \cup Pointers
      BY DEF Copies, Bound, Misbound, Numbers, Pointers
<1> QED BY <1>1, FieldIs DEF Takes, Bound

\* The numbers that the Java method takes are ints.
Typed(o, a) ==
  \A i \in DOMAIN JavaParams(o) :
    JavaParams(o)[i] \in IntParams => a[JavaParams(o)[i]] \in Ints

\* A request that has what the Java method was called with
Carries(r, h, o, a) ==
  /\ r.type = o /\ o \in Bound
  /\ \A f \in Numbers : r[f] = FieldValue(o, a, f)
  /\ r.ptr2 = IF o \in AllocatesBuffer /\ FieldValue(o, a, "ptr2") = Null
              THEN "result" ELSE FieldValue(o, a, "ptr2")
  /\ o \in OnePath => r.ptr1 = "copy1" /\ "copy1" \in DOMAIN h /\ h["copy1"] = a.path
  /\ Typed(o, a)

\* Whatever the field, the request has the parameter's value in it.
LEMMA TakesInt ==
  ASSUME NEW r, NEW h, NEW o, NEW a, Carries(r, h, o, a), NEW i, NEW p, a[p] \in Ints,
         NEW type \in {"int", "long"}, NEW f \in {"int1", "int2", "int3", "offs"},
         Takes(o, i, p, type, f)
  PROVE  r[f] = a[p]
<1>1. FieldType(f) \in {"int", "long"}
      BY DEF FieldType
<1>2. Conv(type, a[p]) = a[p] /\ Conv(FieldType(f), a[p]) = a[p]
      BY <1>1, IntKept
<1> QED BY <1>2, TakesValue DEF Numbers, Carries

LEMMA TakesUint ==
  ASSUME NEW r, NEW h, NEW o, NEW a, Carries(r, h, o, a), NEW i, NEW p, a[p] \in Ints,
         NEW f \in {"int2", "int3"}, Takes(o, i, p, "uint", f)
  PROVE  Conv("uint", r[f]) = Conv("uint", a[p])
<1>1. FieldType(f) = "long"
      BY DEF FieldType
<1> QED BY <1>1, UintKept, TakesValue DEF Numbers, Carries

LEMMA TakesSize ==
  ASSUME NEW r, NEW h, NEW o, NEW a, Carries(r, h, o, a), NEW i, NEW p, a[p] \in Ints,
         Takes(o, i, p, "ulong", "size")
  PROVE  r.size = Conv("ulong", a[p])
<1>1. FieldType("size") = "ulong"
      BY DEF FieldType
<1> QED BY <1>1, UlongKept, TakesValue DEF Numbers, Carries

LEMMA TakesUlong ==
  ASSUME NEW r, NEW h, NEW o, NEW a, Carries(r, h, o, a), NEW i, NEW p, a[p] \in Ints,
         Takes(o, i, p, "ulong", "offs")
  PROVE  Conv("ulong", r.offs) = Conv("ulong", a[p])
<1>1. FieldType("offs") = "long"
      BY DEF FieldType
<1> QED BY <1>1, UlongKept, TakesValue DEF Numbers, Carries

LEMMA TakesDouble ==
  ASSUME NEW r, NEW h, NEW o, NEW a, Carries(r, h, o, a), NEW i, NEW p,
         NEW f \in {"nv1", "nv2"}, Takes(o, i, p, "double", f)
  PROVE  r[f] = a[p]
<1>1. FieldType(f) = "double"
      BY DEF FieldType
<1> QED BY <1>1, OthersKept, TakesValue DEF Numbers, Carries

LEMMA TakesPointer ==
  ASSUME NEW r, NEW h, NEW o, NEW a, Carries(r, h, o, a), NEW i, NEW p,
         Takes(o, i, p, "ptr", "ptr2")
  PROVE  r.ptr2 = IF o \in AllocatesBuffer /\ a[p] = Null THEN "result" ELSE a[p]
<1>1. FieldType("ptr2") = "ptr"
      BY DEF FieldType
<1>2. o \in Bound
      BY DEF Carries
<1>3. FieldValue(o, a, "ptr2") = Conv("ptr", Conv("ptr", a[p]))
      BY <1>1, <1>2, TakesValue
<1>4. FieldValue(o, a, "ptr2") = a[p]
      BY <1>3, OthersKept
<1> QED BY <1>4 DEF Carries

LEMMA PlainMeant ==
  ASSUME NEW o, o \notin {"read", "write", "futime"} \cup AllocatesBuffer, NEW a
  PROVE  Meant(o, a) = <<o>> \o Posix(o, a)
BY DEF Meant

-----------------------------------------------------------------------------
(***************************************************************************)
(* From the field to the system call, operation by operation.              *)
(***************************************************************************)
\* The calls on a descriptor, and those without an argument
LEMMA FileCalls ==
  ASSUME NEW r, NEW h, NEW o, NEW a, Carries(r, h, o, a),
         o \in {"nop", "sync", "busy", "fsync", "fdatasync", "close", "ftruncate",
                "fchmod", "fchown", "dup2", "futime", "fstat", "fstatvfs"}
  PROVE  SystemCall(r, h) = Meant(o, a)
<1>1. ASSUME o \in {"nop", "sync"} PROVE SystemCall(r, h) = Meant(o, a)
  <2>1. JavaParams(o) = <<>> /\ Fields(o) = <<>>
        BY <1>1 DEF JavaParams, Fields, TwoPaths
  <2>2. SystemCall(r, h) = <<o>>
        BY <1>1 DEF SystemCall, TwoPaths, Carries
  <2>3. Posix(o, a) = <<>>
        BY <1>1, <2>1 DEF Posix, PosixType, Conv
  <2>4. Meant(o, a) = <<o>> \o Posix(o, a)
        BY <1>1, PlainMeant DEF AllocatesBuffer
  <2> QED BY <2>2, <2>3, <2>4, Prefix0
<1>2. ASSUME o = "busy" PROVE SystemCall(r, h) = Meant(o, a)
  <2>1. JavaParams(o) = <<"delay">> /\ Fields(o) = <<<<"double", "nv1">>>>
        BY <1>2 DEF JavaParams, Fields, TwoPaths
  <2>2. Takes(o, 1, "delay", "double", "nv1")
        BY <1>2, <2>1 DEF Takes, Typed, IntParams, OnePath, Carries
  <2>3. r.nv1 = a.delay
        BY <2>2, TakesDouble
  <2>4. SystemCall(r, h) = <<o, a.delay>>
        BY <1>2, <2>3 DEF SystemCall, TwoPaths, Carries
  <2>5. Posix(o, a) = <<a.delay>>
        BY <1>2, <2>1 DEF Posix, PosixType, Conv
  <2>6. Meant(o, a) = <<o>> \o Posix(o, a)
        BY <1>2, PlainMeant DEF AllocatesBuffer
  <2> QED BY <2>4, <2>5, <2>6, Prefix1
<1>3. ASSUME o \in {"fsync", "fdatasync", "close"} PROVE SystemCall(r, h) = Meant(o, a)
  <2>1. JavaParams(o) = <<"fd">> /\ Fields(o) = <<<<"int", "int1">>>>
        BY <1>3 DEF JavaParams, Fields, TwoPaths
  <2>2. /\ Takes(o, 1, "fd", "int", "int1")
        /\ a["fd"] \in Ints
        BY <1>3, <2>1 DEF Takes, Typed, IntParams, OnePath, Carries
  <2>3. r.int1 = a.fd
        BY <2>2, TakesInt
  <2>4. SystemCall(r, h) = <<o, a.fd>>
        BY <1>3, <2>3 DEF SystemCall, TwoPaths, Carries
  <2>5. Posix(o, a) = <<a.fd>>
        BY <1>3, <2>1 DEF Posix, PosixType, Conv
  <2>6. Meant(o, a) = <<o>> \o Posix(o, a)
        BY <1>3, PlainMeant DEF AllocatesBuffer
  <2> QED BY <2>4, <2>5, <2>6, Prefix1
<1>4. ASSUME o = "ftruncate" PROVE SystemCall(r, h) = Meant(o, a)
  <2>1. /\ JavaParams(o) = <<"fd", "offset">>
        /\ Fields(o) = <<<<"int", "int1">>, <<"long", "offs">>>>
        BY <1>4 DEF JavaParams, Fields, TwoPaths
  <2>2. /\ Takes(o, 1, "fd", "int", "int1")
        /\ Takes(o, 2, "offset", "long", "offs")
        /\ a["fd"] \in Ints /\ a["offset"] \in Ints
        BY <1>4, <2>1 DEF Takes, Typed, IntParams, OnePath, Carries
  <2>3. r.int1 = a.fd
        BY <2>2, TakesInt
  <2>4. r.offs = a.offset
        BY <2>2, TakesInt
  <2>5. SystemCall(r, h) = <<o, a.fd, a.offset>>
        BY <1>4, <2>3, <2>4 DEF SystemCall, TwoPaths, Carries
  <2>6. Posix(o, a) = <<a.fd, a.offset>>
        BY <1>4, <2>1 DEF Posix, PosixType, Conv
  <2>7. Meant(o, a) = <<o>> \o Posix(o, a)
        BY <1>4, PlainMeant DEF AllocatesBuffer
  <2> QED BY <2>5, <2>6, <2>7, Prefix2
<1>5. ASSUME o = "fchmod" PROVE SystemCall(r, h) = Meant(o, a)
  <2>1. /\ JavaParams(o) = <<"fd", "mode">>
        /\ Fields(o) = <<<<"int", "int1">>, <<"uint", "int2">>>>
        BY <1>5 DEF JavaParams, Fields, TwoPaths
  <2>2. /\ Takes(o, 1, "fd", "int", "int1")
        /\ Takes(o, 2, "mode", "uint", "int2")
        /\ a["fd"] \in Ints /\ a["mode"] \in Ints
        BY <1>5, <2>1 DEF Takes, Typed, IntParams, OnePath, Carries
  <2>3. r.int1 = a.fd
        BY <2>2, TakesInt
  <2>4. Conv("uint", r.int2) = Conv("uint", a.mode)
        BY <2>2, TakesUint
  <2>5. SystemCall(r, h) = <<o, a.fd, Conv("uint", a.mode)>>
        BY <1>5, <2>3, <2>4 DEF SystemCall, TwoPaths, Carries
  <2>6. Posix(o, a) = <<a.fd, Conv("uint", a.mode)>>
        BY <1>5, <2>1, OthersKept DEF Posix, PosixType
  <2>7. Meant(o, a) = <<o>> \o Posix(o, a)
        BY <1>5, PlainMeant DEF AllocatesBuffer
  <2> QED BY <2>5, <2>6, <2>7, Prefix2
<1>6. ASSUME o = "fchown" PROVE SystemCall(r, h) = Meant(o, a)
  <2>1. /\ JavaParams(o) = <<"fd", "uid", "gid">>
        /\ Fields(o) = <<<<"int", "int1">>, <<"uint", "int2">>, <<"uint", "int3">>>>
        BY <1>6 DEF JavaParams, Fields, TwoPaths
  <2>2. /\ Takes(o, 1, "fd", "int", "int1")
        /\ Takes(o, 2, "uid", "uint", "int2")
        /\ Takes(o, 3, "gid", "uint", "int3")
        /\ a["fd"] \in Ints /\ a["uid"] \in Ints /\ a["gid"] \in Ints
        BY <1>6, <2>1 DEF Takes, Typed, IntParams, OnePath, Carries
  <2>3. r.int1 = a.fd
        BY <2>2, TakesInt
  <2>4. Conv("uint", r.int2) = Conv("uint", a.uid)
        BY <2>2, TakesUint
  <2>5. Conv("uint", r.int3) = Conv("uint", a.gid)
        BY <2>2, TakesUint
  <2>6. SystemCall(r, h) = <<o, a.fd, Conv("uint", a.uid), Conv("uint", a.gid)>>
        BY <1>6, <2>3, <2>4, <2>5 DEF SystemCall, TwoPaths, Carries
  <2>7. Posix(o, a) = <<a.fd, Conv("uint", a.uid), Conv("uint", a.gid)>>
        BY <1>6, <2>1, OthersKept DEF Posix, PosixType
  <2>8. Meant(o, a) = <<o>> \o Posix(o, a)
        BY <1>6, PlainMeant DEF AllocatesBuffer
  <2> QED BY <2>6, <2>7, <2>8, Prefix3
<1>7. ASSUME o = "dup2" PROVE SystemCall(r, h) = Meant(o, a)
  <2>1. /\ JavaParams(o) = <<"fd", "fd2">>
        /\ Fields(o) = <<<<"int", "int1">>, <<"int", "int2">>>>
        BY <1>7 DEF JavaParams, Fields, TwoPaths
  <2>2. /\ Takes(o, 1, "fd", "int", "int1")
        /\ Takes(o, 2, "fd2", "int", "int2")
        /\ a["fd"] \in Ints /\ a["fd2"] \in Ints
        BY <1>7, <2>1 DEF Takes, Typed, IntParams, OnePath, Carries
  <2>3. r.int1 = a.fd
        BY <2>2, TakesInt
  <2>4. r.int2 = a.fd2
        BY <2>2, TakesInt
  <2>5. Conv("int", a.fd2) = a.fd2
        BY <2>2, IntKept
  <2>6. SystemCall(r, h) = <<o, a.fd, a.fd2>>
        BY <1>7, <2>3, <2>4, <2>5 DEF SystemCall, TwoPaths, Carries
  <2>7. Posix(o, a) = <<a.fd, a.fd2>>
        BY <1>7, <2>1 DEF Posix, PosixType, Conv
  <2>8. Meant(o, a) = <<o>> \o Posix(o, a)
        BY <1>7, PlainMeant DEF AllocatesBuffer
  <2> QED BY <2>6, <2>7, <2>8, Prefix2
<1>8. ASSUME o = "futime" PROVE SystemCall(r, h) = Meant(o, a)
  <2>1. /\ JavaParams(o) = <<"fd", "atime", "mtime">>
        /\ Fields(o) = <<<<"int", "int1">>, <<"double", "nv1">>, <<"double", "nv2">>>>
        BY <1>8 DEF JavaParams, Fields, TwoPaths
  <2>2. /\ Takes(o, 1, "fd", "int", "int1")
        /\ Takes(o, 2, "atime", "double", "nv1")
        /\ Takes(o, 3, "mtime", "double", "nv2")
        /\ a["fd"] \in Ints
        BY <1>8, <2>1 DEF Takes, Typed, IntParams, OnePath, Carries
  <2>3. r.int1 = a.fd
        BY <2>2, TakesInt
  <2>4. r.nv1 = a.atime
        BY <2>2, TakesDouble
  <2>5. r.nv2 = a.mtime
        BY <2>2, TakesDouble
  <2>6. SystemCall(r, h) = <<o, r.int1, Times(r.nv1, r.nv2)>>
        BY <1>8 DEF SystemCall, TwoPaths, Carries
  <2>7. Meant(o, a) = <<o, a.fd, Times(a.atime, a.mtime)>>
        BY <1>8 DEF Meant, Times, AllocatesBuffer
  <2> QED BY <2>3, <2>4, <2>5, <2>6, <2>7
<1>9. ASSUME o \in {"fstat", "fstatvfs"} PROVE SystemCall(r, h) = Meant(o, a)
  <2>1. JavaParams(o) = <<"fd">> /\ Fields(o) = <<<<"int", "int1">>>>
        BY <1>9 DEF JavaParams, Fields, TwoPaths
  <2>2. /\ Takes(o, 1, "fd", "int", "int1")
        /\ a["fd"] \in Ints
        BY <1>9, <2>1 DEF Takes, Typed, IntParams, OnePath, Carries
  <2>3. r.int1 = a.fd
        BY <2>2, TakesInt
  <2>4. r.ptr2 = "result"
        BY <1>9, <2>1, NoField DEF Copies, OnePath, TwoPaths, AllocatesBuffer, Pointers, Carries
  <2>5. SystemCall(r, h) = <<o, a.fd, "result">>
        BY <1>9, <2>3, <2>4 DEF SystemCall, TwoPaths, Carries
  <2>6. Posix(o, a) = <<a.fd>>
        BY <1>9, <2>1 DEF Posix, PosixType, Conv
  <2>7. Meant(o, a) = Append(<<o>> \o Posix(o, a), "result")
        BY <1>9 DEF Meant, AllocatesBuffer
  <2> QED BY <2>5, <2>6, <2>7, Prefix1, Appended
<1> QED BY <1>1, <1>2, <1>3, <1>4, <1>5, <1>6, <1>7, <1>8, <1>9

\* The calls that transfer data, and those on a range of memory
LEMMA DataCalls ==
  ASSUME NEW r, NEW h, NEW o, NEW a, Carries(r, h, o, a),
         o \in {"read", "write", "readahead", "sendfile", "msync", "mtouch", "mlock",
                "mlockall"}
  PROVE  SystemCall(r, h) = Meant(o, a)
<1>1. ASSUME o = "read" PROVE SystemCall(r, h) = Meant(o, a)
  <2>1. /\ JavaParams(o) = <<"fd", "buffer", "length", "offset">>
        /\ Fields(o) = <<<<"int", "int1">>, <<"ptr", "ptr2">>, <<"ulong", "size">>, <<"long", "offs">>>>
        BY <1>1 DEF JavaParams, Fields, TwoPaths
  <2>2. /\ Takes(o, 1, "fd", "int", "int1")
        /\ Takes(o, 2, "buffer", "ptr", "ptr2")
        /\ Takes(o, 3, "length", "ulong", "size")
        /\ Takes(o, 4, "offset", "long", "offs")
        /\ a["fd"] \in Ints /\ a["length"] \in Ints /\ a["offset"] \in Ints
        BY <1>1, <2>1 DEF Takes, Typed, IntParams, OnePath, Carries
  <2>3. r.int1 = a.fd
        BY <2>2, TakesInt
  <2>4. r.offs = a.offset
        BY <2>2, TakesInt
  <2>5. r.ptr2 = IF a.buffer = Null THEN "result" ELSE a.buffer
        BY <1>1, <2>2, TakesPointer DEF AllocatesBuffer
  <2>6. r.size = Conv("ulong", a.length)
        BY <2>2, TakesSize
  <2>7. SystemCall(r, h) = IF r.offs >= 0 THEN <<"pread", r.int1, r.ptr2, r.size, r.offs>>
                              ELSE <<o, r.int1, r.ptr2, r.size>>
        BY <1>1 DEF SystemCall, TwoPaths, Carries
  <2>8. Meant(o, a) = IF r.offs >= 0 THEN <<"pread", r.int1, r.ptr2, r.size, r.offs>>
                              ELSE <<o, r.int1, r.ptr2, r.size>>
        BY <1>1, <2>3, <2>4, <2>5, <2>6 DEF Meant, AllocatesBuffer
  <2> QED BY <2>7, <2>8
<1>2. ASSUME o = "write" PROVE SystemCall(r, h) = Meant(o, a)
  <2>1. /\ JavaParams(o) = <<"fd", "buffer", "length", "offset">>
        /\ Fields(o) = <<<<"int", "int1">>, <<"ptr", "ptr2">>, <<"ulong", "size">>, <<"long", "offs">>>>
        BY <1>2 DEF JavaParams, Fields, TwoPaths
  <2>2. /\ Takes(o, 1, "fd", "int", "int1")
        /\ Takes(o, 2, "buffer", "ptr", "ptr2")
        /\ Takes(o, 3, "length", "ulong", "size")
        /\ Takes(o, 4, "offset", "long", "offs")
        /\ a["fd"] \in Ints /\ a["length"] \in Ints /\ a["offset"] \in Ints
        BY <1>2, <2>1 DEF Takes, Typed, IntParams, OnePath, Carries
  <2>3. r.int1 = a.fd
        BY <2>2, TakesInt
  <2>4. r.offs = a.offset
        BY <2>2, TakesInt
  <2>5. r.ptr2 = a.buffer
        BY <1>2, <2>2, TakesPointer DEF AllocatesBuffer
  <2>6. r.size = Conv("ulong", a.length)
        BY <2>2, TakesSize
  <2>7. SystemCall(r, h) = IF r.offs >= 0 THEN <<"pwrite", r.int1, r.ptr2, r.size, r.offs>>
                              ELSE <<o, r.int1, r.ptr2, r.size>>
        BY <1>2 DEF SystemCall, TwoPaths, Carries
  <2>8. Meant(o, a) = IF r.offs >= 0 THEN <<"pwrite", r.int1, r.ptr2, r.size, r.offs>>
                              ELSE <<o, r.int1, r.ptr2, r.size>>
        BY <1>2, <2>3, <2>4, <2>5, <2>6 DEF Meant, AllocatesBuffer
  <2> QED BY <2>7, <2>8
<1>3. ASSUME o = "readahead" PROVE SystemCall(r, h) = Meant(o, a)
  <2>1. /\ JavaParams(o) = <<"fd", "offset", "length">>
        /\ Fields(o) = <<<<"int", "int1">>, <<"long", "offs">>, <<"ulong", "size">>>>
        BY <1>3 DEF JavaParams, Fields, TwoPaths
  <2>2. /\ Takes(o, 1, "fd", "int", "int1")
        /\ Takes(o, 2, "offset", "long", "offs")
        /\ Takes(o, 3, "length", "ulong", "size")
        /\ a["fd"] \in Ints /\ a["offset"] \in Ints /\ a["length"] \in Ints
        BY <1>3, <2>1 DEF Takes, Typed, IntParams, OnePath, Carries
  <2>3. r.int1 = a.fd
        BY <2>2, TakesInt
  <2>4. r.offs = a.offset
        BY <2>2, TakesInt
  <2>5. r.size = Conv("ulong", a.length)
        BY <2>2, TakesSize
  <2>6. SystemCall(r, h) = <<o, a.fd, a.offset, Conv("ulong", a.length)>>
        BY <1>3, <2>3, <2>4, <2>5 DEF SystemCall, TwoPaths, Carries
  <2>7. Posix(o, a) = <<a.fd, a.offset, Conv("ulong", a.length)>>
        BY <1>3, <2>1, OthersKept DEF Posix, PosixType
  <2>8. Meant(o, a) = <<o>> \o Posix(o, a)
        BY <1>3, PlainMeant DEF AllocatesBuffer
  <2> QED BY <2>6, <2>7, <2>8, Prefix3
<1>4. ASSUME o = "sendfile" PROVE SystemCall(r, h) = Meant(o, a)
  <2>1. /\ JavaParams(o) = <<"outFd", "inFd", "offset", "length">>
        /\ Fields(o) = <<<<"int", "int1">>, <<"int", "int2">>, <<"long", "offs">>, <<"ulong", "size">>>>
        BY <1>4 DEF JavaParams, Fields, TwoPaths
  <2>2. /\ Takes(o, 1, "outFd", "int", "int1")
        /\ Takes(o, 2, "inFd", "int", "int2")
        /\ Takes(o, 3, "offset", "long", "offs")
        /\ Takes(o, 4, "length", "ulong", "size")
        /\ a["outFd"] \in Ints /\ a["inFd"] \in Ints /\ a["offset"] \in Ints /\ a["length"] \in Ints
        BY <1>4, <2>1 DEF Takes, Typed, IntParams, OnePath, Carries
  <2>3. r.int1 = a.outFd
        BY <2>2, TakesInt
  <2>4. r.int2 = a.inFd
        BY <2>2, TakesInt
  <2>5. r.offs = a.offset
        BY <2>2, TakesInt
  <2>6. Conv("int", a.inFd) = a.inFd
        BY <2>2, IntKept
  <2>7. r.size = Conv("ulong", a.length)
        BY <2>2, TakesSize
  <2>8. SystemCall(r, h) = <<o, a.outFd, a.inFd, a.offset, Conv("ulong", a.length)>>
        BY <1>4, <2>3, <2>4, <2>5, <2>6, <2>7 DEF SystemCall, TwoPaths, Carries
  <2>9. Posix(o, a) = <<a.outFd, a.inFd, a.offset, Conv("ulong", a.length)>>
        BY <1>4, <2>1, OthersKept DEF Posix, PosixType
  <2>10. Meant(o, a) = <<o>> \o Posix(o, a)
        BY <1>4, PlainMeant DEF AllocatesBuffer
  <2> QED BY <2>8, <2>9, <2>10, Prefix4
<1>5. ASSUME o \in {"msync", "mtouch"} PROVE SystemCall(r, h) = Meant(o, a)
  <2>1. /\ JavaParams(o) = <<"addr", "length", "flags">>
        /\ Fields(o) = <<<<"ptr", "ptr2">>, <<"ulong", "size">>, <<"int", "int1">>>>
        BY <1>5 DEF JavaParams, Fields, TwoPaths
  <2>2. /\ Takes(o, 1, "addr", "ptr", "ptr2")
        /\ Takes(o, 2, "length", "ulong", "size")
        /\ Takes(o, 3, "flags", "int", "int1")
        /\ a["length"] \in Ints /\ a["flags"] \in Ints
        BY <1>5, <2>1 DEF Takes, Typed, IntParams, OnePath, Carries
  <2>3. r.ptr2 = a.addr
        BY <1>5, <2>2, TakesPointer DEF AllocatesBuffer
  <2>4. r.size = Conv("ulong", a.length)
        BY <2>2, TakesSize
  <2>5. r.int1 = a.flags
        BY <2>2, TakesInt
  <2>6. SystemCall(r, h) = <<o, a.addr, Conv("ulong", a.length), a.flags>>
        BY <1>5, <2>3, <2>4, <2>5 DEF SystemCall, TwoPaths, Carries
  <2>7. Posix(o, a) = <<a.addr, Conv("ulong", a.length), a.flags>>
        BY <1>5, <2>1, OthersKept DEF Posix, PosixType
  <2>8. Meant(o, a) = <<o>> \o Posix(o, a)
        BY <1>5, PlainMeant DEF AllocatesBuffer
  <2> QED BY <2>6, <2>7, <2>8, Prefix3
<1>6. ASSUME o = "mlock" PROVE SystemCall(r, h) = Meant(o, a)
  <2>1. /\ JavaParams(o) = <<"addr", "length">>
        /\ Fields(o) = <<<<"ptr", "ptr2">>, <<"ulong", "size">>>>
        BY <1>6 DEF JavaParams, Fields, TwoPaths
  <2>2. /\ Takes(o, 1, "addr", "ptr", "ptr2")
        /\ Takes(o, 2, "length", "ulong", "size")
        /\ a["length"] \in Ints
        BY <1>6, <2>1 DEF Takes, Typed, IntParams, OnePath, Carries
  <2>3. r.ptr2 = a.addr
        BY <1>6, <2>2, TakesPointer DEF AllocatesBuffer
  <2>4. r.size = Conv("ulong", a.length)
        BY <2>2, TakesSize
  <2>5. SystemCall(r, h) = <<o, a.addr, Conv("ulong", a.length)>>
        BY <1>6, <2>3, <2>4 DEF SystemCall, TwoPaths, Carries
  <2>6. Posix(o, a) = <<a.addr, Conv("ulong", a.length)>>
        BY <1>6, <2>1, OthersKept DEF Posix, PosixType
  <2>7. Meant(o, a) = <<o>> \o Posix(o, a)
        BY <1>6, PlainMeant DEF AllocatesBuffer
  <2> QED BY <2>5, <2>6, <2>7, Prefix2
<1>7. ASSUME o = "mlockall" PROVE SystemCall(r, h) = Meant(o, a)
  <2>1. JavaParams(o) = <<"flags">> /\ Fields(o) = <<<<"int", "int1">>>>
        BY <1>7 DEF JavaParams, Fields, TwoPaths
  <2>2. /\ Takes(o, 1, "flags", "int", "int1")
        /\ a["flags"] \in Ints
        BY <1>7, <2>1 DEF Takes, Typed, IntParams, OnePath, Carries
  <2>3. r.int1 = a.flags
        BY <2>2, TakesInt
  <2>4. SystemCall(r, h) = <<o, a.flags>>
        BY <1>7, <2>3 DEF SystemCall, TwoPaths, Carries
  <2>5. Posix(o, a) = <<a.flags>>
        BY <1>7, <2>1 DEF Posix, PosixType, Conv
  <2>6. Meant(o, a) = <<o>> \o Posix(o, a)
        BY <1>7, PlainMeant DEF AllocatesBuffer
  <2> QED BY <2>4, <2>5, <2>6, Prefix1
<1> QED BY <1>1, <1>2, <1>3, <1>4, <1>5, <1>6, <1>7

\* The calls on a path
LEMMA PathCalls ==
  ASSUME NEW r, NEW h, NEW o, NEW a, Carries(r, h, o, a),
         o \in {"open", "readdir", "chmod", "mkdir", "truncate", "chown", "mknod",
                "rmdir", "unlink", "readlink", "stat", "lstat", "statvfs"}
  PROVE  SystemCall(r, h) = Meant(o, a)
<1>1. ASSUME o = "open" PROVE SystemCall(r, h) = Meant(o, a)
  <2>1. /\ JavaParams(o) = <<"path", "flags", "mode">>
        /\ Fields(o) = <<<<"ptr", "ptr1">>, <<"int", "int1">>, <<"uint", "int2">>>>
        BY <1>1 DEF JavaParams, Fields, TwoPaths
  <2>2. /\ Takes(o, 2, "flags", "int", "int1")
        /\ Takes(o, 3, "mode", "uint", "int2")
        /\ a["flags"] \in Ints /\ a["mode"] \in Ints
        BY <1>1, <2>1 DEF Takes, Typed, IntParams, OnePath, Carries
  <2>3. r.int1 = a.flags
        BY <2>2, TakesInt
  <2>4. Conv("uint", r.int2) = Conv("uint", a.mode)
        BY <2>2, TakesUint
  <2>5. r.ptr1 = "copy1" /\ "copy1" \in DOMAIN h /\ h["copy1"] = a.path
        BY <1>1 DEF OnePath, Carries
  <2>6. SystemCall(r, h) = <<o, a.path, a.flags, Conv("uint", a.mode)>>
        BY <1>1, <2>3, <2>4, <2>5 DEF SystemCall, TwoPaths, Carries
  <2>7. Posix(o, a) = <<a.path, a.flags, Conv("uint", a.mode)>>
        BY <1>1, <2>1, OthersKept DEF Posix, PosixType
  <2>8. Meant(o, a) = <<o>> \o Posix(o, a)
        BY <1>1, PlainMeant DEF AllocatesBuffer
  <2> QED BY <2>6, <2>7, <2>8, Prefix3
<1>2. ASSUME o = "readdir" PROVE SystemCall(r, h) = Meant(o, a)
  <2>1. /\ JavaParams(o) = <<"path", "flags">>
        /\ Fields(o) = <<<<"ptr", "ptr1">>, <<"int", "int1">>>>
        BY <1>2 DEF JavaParams, Fields, TwoPaths
  <2>2. /\ Takes(o, 2, "flags", "int", "int1")
        /\ a["flags"] \in Ints
        BY <1>2, <2>1 DEF Takes, Typed, IntParams, OnePath, Carries
  <2>3. r.int1 = a.flags
        BY <2>2, TakesInt
  <2>4. r.ptr1 = "copy1" /\ "copy1" \in DOMAIN h /\ h["copy1"] = a.path
        BY <1>2 DEF OnePath, Carries
  <2>5. SystemCall(r, h) = <<o, a.path, a.flags>>
        BY <1>2, <2>3, <2>4 DEF SystemCall, TwoPaths, Carries
  <2>6. Posix(o, a) = <<a.path, a.flags>>
        BY <1>2, <2>1 DEF Posix, PosixType, Conv
  <2>7. Meant(o, a) = <<o>> \o Posix(o, a)
        BY <1>2, PlainMeant DEF AllocatesBuffer
  <2> QED BY <2>5, <2>6, <2>7, Prefix2
<1>3. ASSUME o \in {"chmod", "mkdir"} PROVE SystemCall(r, h) = Meant(o, a)
  <2>1. /\ JavaParams(o) = <<"path", "mode">>
        /\ Fields(o) = <<<<"ptr", "ptr1">>, <<"uint", "int2">>>>
        BY <1>3 DEF JavaParams, Fields, TwoPaths
  <2>2. /\ Takes(o, 2, "mode", "uint", "int2")
        /\ a["mode"] \in Ints
        BY <1>3, <2>1 DEF Takes, Typed, IntParams, OnePath, Carries
  <2>3. Conv("uint", r.int2) = Conv("uint", a.mode)
        BY <2>2, TakesUint
  <2>4. r.ptr1 = "copy1" /\ "copy1" \in DOMAIN h /\ h["copy1"] = a.path
        BY <1>3 DEF OnePath, Carries
  <2>5. SystemCall(r, h) = <<o, a.path, Conv("uint", a.mode)>>
        BY <1>3, <2>3, <2>4 DEF SystemCall, TwoPaths, Carries
  <2>6. Posix(o, a) = <<a.path, Conv("uint", a.mode)>>
        BY <1>3, <2>1, OthersKept DEF Posix, PosixType
  <2>7. Meant(o, a) = <<o>> \o Posix(o, a)
        BY <1>3, PlainMeant DEF AllocatesBuffer
  <2> QED BY <2>5, <2>6, <2>7, Prefix2
<1>4. ASSUME o = "truncate" PROVE SystemCall(r, h) = Meant(o, a)
  <2>1. /\ JavaParams(o) = <<"path", "offset">>
        /\ Fields(o) = <<<<"ptr", "ptr1">>, <<"long", "offs">>>>
        BY <1>4 DEF JavaParams, Fields, TwoPaths
  <2>2. /\ Takes(o, 2, "offset", "long", "offs")
        /\ a["offset"] \in Ints
        BY <1>4, <2>1 DEF Takes, Typed, IntParams, OnePath, Carries
  <2>3. r.offs = a.offset
        BY <2>2, TakesInt
  <2>4. r.ptr1 = "copy1" /\ "copy1" \in DOMAIN h /\ h["copy1"] = a.path
        BY <1>4 DEF OnePath, Carries
  <2>5. SystemCall(r, h) = <<o, a.path, a.offset>>
        BY <1>4, <2>3, <2>4 DEF SystemCall, TwoPaths, Carries
  <2>6. Posix(o, a) = <<a.path, a.offset>>
        BY <1>4, <2>1 DEF Posix, PosixType, Conv
  <2>7. Meant(o, a) = <<o>> \o Posix(o, a)
        BY <1>4, PlainMeant DEF AllocatesBuffer
  <2> QED BY <2>5, <2>6, <2>7, Prefix2
<1>5. ASSUME o = "chown" PROVE SystemCall(r, h) = Meant(o, a)
  <2>1. /\ JavaParams(o) = <<"path", "uid", "gid">>
        /\ Fields(o) = <<<<"ptr", "ptr1">>, <<"uint", "int2">>, <<"uint", "int3">>>>
        BY <1>5 DEF JavaParams, Fields, TwoPaths
  <2>2. /\ Takes(o, 2, "uid", "uint", "int2")
        /\ Takes(o, 3, "gid", "uint", "int3")
        /\ a["uid"] \in Ints /\ a["gid"] \in Ints
        BY <1>5, <2>1 DEF Takes, Typed, IntParams, OnePath, Carries
  <2>3. Conv("uint", r.int2) = Conv("uint", a.uid)
        BY <2>2, TakesUint
  <2>4. Conv("uint", r.int3) = Conv("uint", a.gid)
        BY <2>2, TakesUint
  <2>5. r.ptr1 = "copy1" /\ "copy1" \in DOMAIN h /\ h["copy1"] = a.path
        BY <1>5 DEF OnePath, Carries
  <2>6. SystemCall(r, h) = <<o, a.path, Conv("uint", a.uid), Conv("uint", a.gid)>>
        BY <1>5, <2>3, <2>4, <2>5 DEF SystemCall, TwoPaths, Carries
  <2>7. Posix(o, a) = <<a.path, Conv("uint", a.uid), Conv("uint", a.gid)>>
        BY <1>5, <2>1, OthersKept DEF Posix, PosixType
  <2>8. Meant(o, a) = <<o>> \o Posix(o, a)
        BY <1>5, PlainMeant DEF AllocatesBuffer
  <2> QED BY <2>6, <2>7, <2>8, Prefix3
<1>6. ASSUME o = "mknod" PROVE SystemCall(r, h) = Meant(o, a)
  <2>1. /\ JavaParams(o) = <<"path", "mode", "dev">>
        /\ Fields(o) = <<<<"ptr", "ptr1">>, <<"uint", "int2">>, <<"ulong", "offs">>>>
        BY <1>6 DEF JavaParams, Fields, TwoPaths
  <2>2. /\ Takes(o, 2, "mode", "uint", "int2")
        /\ Takes(o, 3, "dev", "ulong", "offs")
        /\ a["mode"] \in Ints /\ a["dev"] \in Ints
        BY <1>6, <2>1 DEF Takes, Typed, IntParams, OnePath, Carries
  <2>3. Conv("uint", r.int2) = Conv("uint", a.mode)
        BY <2>2, TakesUint
  <2>4. Conv("ulong", r.offs) = Conv("ulong", a.dev)
        BY <2>2, TakesUlong
  <2>5. r.ptr1 = "copy1" /\ "copy1" \in DOMAIN h /\ h["copy1"] = a.path
        BY <1>6 DEF OnePath, Carries
  <2>6. SystemCall(r, h) = <<o, a.path, Conv("uint", a.mode), Conv("ulong", a.dev)>>
        BY <1>6, <2>3, <2>4, <2>5 DEF SystemCall, TwoPaths, Carries
  <2>7. Posix(o, a) = <<a.path, Conv("uint", a.mode), Conv("ulong", a.dev)>>
        BY <1>6, <2>1, OthersKept DEF Posix, PosixType
  <2>8. Meant(o, a) = <<o>> \o Posix(o, a)
        BY <1>6, PlainMeant DEF AllocatesBuffer
  <2> QED BY <2>6, <2>7, <2>8, Prefix3
<1>7. ASSUME o \in {"rmdir", "unlink"} PROVE SystemCall(r, h) = Meant(o, a)
  <2>1. JavaParams(o) = <<"path">> /\ Fields(o) = <<<<"ptr", "ptr1">>>>
        BY <1>7 DEF JavaParams, Fields, TwoPaths
  <2>2. r.ptr1 = "copy1" /\ "copy1" \in DOMAIN h /\ h["copy1"] = a.path
        BY <1>7 DEF OnePath, Carries
  <2>3. SystemCall(r, h) = <<o, a.path>>
        BY <1>7, <2>2 DEF SystemCall, TwoPaths, Carries
  <2>4. Posix(o, a) = <<a.path>>
        BY <1>7, <2>1 DEF Posix, PosixType, Conv
  <2>5. Meant(o, a) = <<o>> \o Posix(o, a)
        BY <1>7, PlainMeant DEF AllocatesBuffer
  <2> QED BY <2>3, <2>4, <2>5, Prefix1
<1>8. ASSUME o \in {"readlink", "stat", "lstat", "statvfs"} PROVE SystemCall(r, h) = Meant(o, a)
  <2>1. JavaParams(o) = <<"path">> /\ Fields(o) = <<<<"ptr", "ptr1">>>>
        BY <1>8 DEF JavaParams, Fields, TwoPaths
  <2>2. r.ptr2 = "result"
        BY <1>8, <2>1, NoField DEF Copies, OnePath, TwoPaths, AllocatesBuffer, Pointers, Carries
  <2>3. r.ptr1 = "copy1" /\ "copy1" \in DOMAIN h /\ h["copy1"] = a.path
        BY <1>8 DEF OnePath, Carries
  <2>4. SystemCall(r, h) = <<o, a.path, "result">>
        BY <1>8, <2>2, <2>3 DEF SystemCall, TwoPaths, Carries
  <2>5. Posix(o, a) = <<a.path>>
        BY <1>8, <2>1 DEF Posix, PosixType, Conv
  <2>6. Meant(o, a) = Append(<<o>> \o Posix(o, a), "result")
        BY <1>8 DEF Meant, AllocatesBuffer
  <2> QED BY <2>4, <2>5, <2>6, Prefix1, Appended
<1> QED BY <1>1, <1>2, <1>3, <1>4, <1>5, <1>6, <1>7, <1>8

\* What the worker's system call gets is what the Java method was called with.
LEMMA CallsMeant ==
  ASSUME NEW r, NEW h, NEW o, NEW a, Carries(r, h, o, a)
  PROVE  SystemCall(r, h) = Meant(o, a)
<1>1. o \in Bound
      BY DEF Carries
<1>2. \/ o \in {"nop", "sync", "busy", "fsync", "fdatasync", "close", "ftruncate", "fchmod",
                "fchown", "dup2", "futime", "fstat", "fstatvfs"}
      \/ o \in {"read", "write", "readahead", "sendfile", "msync", "mtouch", "mlock",
                "mlockall"}
      \/ o \in {"open", "readdir", "chmod", "mkdir", "truncate", "chown", "mknod", "rmdir",
                "unlink", "readlink", "stat", "lstat", "statvfs"}
      BY <1>1 DEF Bound, Misbound, OnePath, NoPath
<1> QED BY <1>2, FileCalls, DataCalls, PathCalls

-----------------------------------------------------------------------------
(***************************************************************************)
(* The arguments on their way.                                             *)
(***************************************************************************)
Arriving ==
  /\ stage \in {"none", "bound", "submitted", "failed"} => call = <<>>
  /\ stage = "none" => Blocks = {"buffer"}
  /\ stage # "none" /\ op \notin Misbound =>
       op \in Bound /\ native = args /\ Typed(op, args) /\ args.priority \in Int
  /\ stage = "bound" /\ op \in OnePath /\ op \notin Misbound =>
       "chars1" \in Blocks /\ heap["chars1"] = args.path
  /\ stage = "submitted" /\ op \notin Misbound =>
       /\ req = Request(op, args)
       /\ op \in OnePath => "copy1" \in Blocks /\ heap["copy1"] = args.path
  /\ ArgumentsArrive

LEMMA JoinedAt ==
  ASSUME NEW f, NEW g, NEW x \in DOMAIN f \cup DOMAIN g
  PROVE  Joined(f, g)[x] = IF x \in DOMAIN f THEN f[x] ELSE g[x]
BY DEF Joined

LEMMA ArrivingInvoke == ASSUME IInv, Arriving, NEW o \in Ops, Invoke(o) PROVE Arriving'
<1>1. /\ stage = "none" /\ stage' = "bound" /\ op' = o /\ call' = <<>>
      /\ native' \in NativeArgs(o, args') /\ heap' = Joined(heap, Pinned(o, native'))
      BY DEF Invoke, Arriving
<1>2. PICK in \in Inputs :
        args' = Restrict(in, Range(JavaParams(o)) \cup {"priority", "callback"})
      BY DEF Invoke
<1>3. ASSUME o \notin Misbound PROVE o \in Bound /\ native' = args'
  <2>1. native' = args'
        BY <1>1, <1>3 DEF NativeArgs, Misbound
  <2> QED BY <1>3, <2>1, OperationAssumption DEF Bound, Misbound
<1>4. \A i \in DOMAIN JavaParams(o) : args'[JavaParams(o)[i]] = in[JavaParams(o)[i]]
      BY <1>2 DEF Restrict, Range
<1>5. Typed(o, args')
  <2>1. \A p \in IntParams : in[p] \in Ints
        BY OperationAssumption
  <2> QED BY <1>4, <2>1 DEF Typed
<1>6. ASSUME o \notin Misbound, o \in OnePath
      PROVE  "chars1" \in Blocks' /\ heap'["chars1"] = args'.path
  <2>1. Pinned(o, native') = [chars1 |-> args'.path]
        BY <1>3, <1>6 DEF Pinned, Misbound
  <2>2. "chars1" \in DOMAIN Pinned(o, native') /\ Pinned(o, native')["chars1"] = args'.path
        BY <2>1
  <2>3. "chars1" \notin DOMAIN heap
        BY <1>1 DEF Arriving, Blocks
  <2>4. heap'["chars1"] = args'.path
        BY <1>1, <2>2, <2>3, JoinedAt
  <2> QED BY <1>1, <2>2, <2>4, HeapJoin DEF Blocks
<1>7. args'.priority \in Int
  <2>1. in["priority"] \in Ints /\ args'["priority"] = in["priority"]
        BY <1>2, OperationAssumption DEF Restrict
  <2> QED BY <2>1, OperationAssumption DEF Ints
<1> QED BY <1>1, <1>3, <1>5, <1>6, <1>7 DEF Arriving, ArgumentsArrive

LEMMA ArrivingConstruct == ASSUME IInv, Arriving, Construct(op) PROVE Arriving'
<1>1. /\ stage = "bound" /\ stage' = "submitted" /\ req' = Request(op, native)
      /\ UNCHANGED <<op, args, native, call>> /\ call = <<>>
      BY DEF Construct, Arriving
<1>2. ASSUME op \in OnePath, op \notin Misbound
      PROVE  "copy1" \in Blocks' /\ heap'["copy1"] = args.path
  <2>1. Copies(op) = {"ptr1"} /\ {CopyName(f) : f \in Copies(op)} = {"copy1"}
        BY <1>2 DEF Copies, CopyName, Misbound
  <2> DEFINE copies == [b \in {CopyName(f) : f \in Copies(op)} |->
                          heap[IF b = "copy1" THEN "chars1" ELSE "chars2"]]
  <2>2. DOMAIN copies = {"copy1"} /\ copies["copy1"] = heap["chars1"]
        BY <2>1
  <2>3. "copy1" \notin DOMAIN heap
        BY <1>1 DEF IInv, HeapOK, Own, Blocks
  <2>4. heap' = Joined(heap, copies)
        BY DEF Construct
  <2>5. heap["chars1"] = args.path
        BY <1>1, <1>2 DEF Arriving
  <2> HIDE DEF copies
  <2>6. "copy1" \in DOMAIN heap'
        BY <2>2, <2>4, HeapJoin
  <2>7. heap'["copy1"] = copies["copy1"]
        BY <2>2, <2>3, <2>4, JoinedAt
  <2> QED BY <2>2, <2>5, <2>6, <2>7 DEF Blocks
<1> QED BY <1>1, <1>2 DEF Arriving, ArgumentsArrive

\* The request as eio_execute finds it, with the block of ALLOC if there is one
LEMMA RequestCarries ==
  ASSUME Arriving, stage = "submitted", op \notin Misbound, NEW h, NEW r,
         op \in OnePath => "copy1" \in DOMAIN h /\ h["copy1"] = heap["copy1"],
         r.type = req.type, r.ptr1 = req.ptr1, \A f \in Numbers : r[f] = req[f],
         r.ptr2 = IF NeedsBuffer(req) THEN "result" ELSE req.ptr2
  PROVE  SystemCall(r, h) = Meant(op, args)
<1>1. /\ op \in Bound /\ Typed(op, args) /\ req = Request(op, args)
      /\ op \in OnePath => heap["copy1"] = args.path
      BY DEF Arriving
<1> DEFINE fields == [f \in Numbers \cup Pointers |-> FieldValue(op, args, f)]
           rest == [type |-> op, pri |-> SubmitPri(args.priority),
                    callback |-> args.callback, free |-> Copies(op)]
<1>2. req = Joined(fields, rest)
      BY <1>1 DEF Request
<1>3. "type" \notin Numbers \cup Pointers /\ DOMAIN fields = Numbers \cup Pointers
      BY DEF Numbers, Pointers
<1>4. "type" \in DOMAIN rest /\ rest["type"] = op
      OBVIOUS
<1>5. \A f \in Numbers \cup Pointers : fields[f] = FieldValue(op, args, f)
      OBVIOUS
<1> HIDE DEF fields, rest
<1>6. req.type = op /\ \A f \in Numbers \cup Pointers : req[f] = FieldValue(op, args, f)
      BY <1>2, <1>3, <1>4, <1>5, JoinedAt
<1>7. op \in OnePath => req.ptr1 = "copy1"
  <2>1. op \in OnePath => FieldValue(op, args, "ptr1") = "copy1"
        BY DEF FieldValue, Copies, CopyName
  <2> QED BY <1>6, <2>1 DEF Pointers
<1>8. Carries(r, h, op, args)
      BY <1>1, <1>6, <1>7 DEF Carries, NeedsBuffer, Pointers
<1> QED BY <1>8, CallsMeant

\* The priority and the callback of a request
Kept(r, a) == /\ r.callback = a.callback /\ r.pri \in Pris
              /\ a.priority \in CharPriorities => r.pri = ListOf(a.priority)

\* Shifting and clamping in a signed char leaves an index of qs and qe, and the
\* right one if the char does not overflow.
LEMMA SubmittedPri ==
  ASSUME NEW pri \in Int
  PROVE  /\ SubmitPri(pri) \in Pris
         /\ pri \in CharPriorities => SubmitPri(pri) = ListOf(pri)
<1>1. PriMin \in -64 .. 0 /\ PriMax \in 0 .. 63 /\ NumPri = PriMax - PriMin + 1
      BY PriAssumption DEF NumPri
<1>2. \A x \in Int : SignedChar(x) \in Int
      BY DEF SignedChar
<1>3. \A x \in -128 .. 127 : SignedChar(x) = x
      BY DEF SignedChar
<1> DEFINE shifted == SignedChar(SignedChar(pri) - PriMin)
<1>4. shifted \in Int
      BY <1>1, <1>2
<1>5. pri \in CharPriorities => shifted = pri - PriMin
  <2> SUFFICES ASSUME pri \in CharPriorities PROVE shifted = pri - PriMin
      OBVIOUS
  <2>1. pri \in -128 .. 127 /\ pri - PriMin \in -128 .. 127
        BY <1>1 DEF CharPriorities
  <2> QED BY <1>3, <2>1
<1>6. SubmitPri(pri) = IF shifted < 0 THEN 0
                       ELSE IF shifted > NumPri - 1 THEN NumPri - 1 ELSE shifted
      BY DEF SubmitPri
<1> HIDE DEF shifted
<1>7. SubmitPri(pri) \in Pris
      BY <1>1, <1>4, <1>6 DEF Pris
<1>8. shifted = pri - PriMin => SubmitPri(pri) = ListOf(pri)
      BY <1>1, <1>6 DEF ListOf
<1> QED BY <1>5, <1>7, <1>8

LEMMA RequestKeeps ==
  ASSUME Arriving, stage = "submitted", op \notin Misbound
  PROVE  Kept(req, args)
<1> DEFINE fields == [f \in Numbers \cup Pointers |-> FieldValue(op, args, f)]
           rest == [type |-> op, pri |-> SubmitPri(args.priority),
                    callback |-> args.callback, free |-> Copies(op)]
<1>1. req = Joined(fields, rest)
      BY DEF Arriving, Request
<1>2. {"pri", "callback"} \cap DOMAIN fields = {}
      BY DEF Numbers, Pointers
<1>3. /\ {"pri", "callback"} \subseteq DOMAIN rest
      /\ rest["pri"] = SubmitPri(args.priority) /\ rest["callback"] = args.callback
      OBVIOUS
<1> HIDE DEF fields, rest
<1>4. req.pri = SubmitPri(args.priority) /\ req.callback = args.callback
      BY <1>1, <1>2, <1>3, JoinedAt
<1>5. args.priority \in Int
      BY DEF Arriving
<1> QED BY <1>4, <1>5, SubmittedPri DEF Kept

LEMMA ArrivingExecute == ASSUME IInv, Arriving, Execute PROVE Arriving'
<1>1. /\ stage = "submitted" /\ stage' = "executed" /\ UNCHANGED <<op, args, native>>
      /\ call' = SystemCall(req', heap') /\ NewRequest
      BY DEF Execute, IInv, HeapOK
<1>2. ASSUME op \notin Misbound
      PROVE  /\ call' = Meant(op, args)
             /\ Kept(req', args)
  <2>1. CASE ~NeedsBuffer(req)
    <3>1. UNCHANGED <<req, heap>>
          BY <2>1 DEF Execute
    <3>2. op \in OnePath => "copy1" \in DOMAIN heap
          BY <1>1, <1>2 DEF Arriving, Blocks
    <3>3. SystemCall(req, heap) = Meant(op, args)
          BY <1>1, <1>2, <2>1, <3>2, RequestCarries
    <3> QED BY <1>1, <1>2, <3>1, <3>3, RequestKeeps
  <2>2. CASE NeedsBuffer(req)
    <3>1. /\ req' = [req EXCEPT !.ptr2 = "result", !.free = @ \cup {"ptr2"}]
          /\ heap' = Joined(heap, [result |-> "data"])
          BY <2>2 DEF Execute, Buffered
    <3>2. /\ "ptr2" \in DOMAIN req /\ req'.ptr2 = "result"
          /\ \A f \in {"type", "ptr1", "pri", "callback"} \cup Numbers : req'[f] = req[f]
          BY <1>1, <3>1 DEF NewRequest, Numbers
    <3>3. op \in OnePath => "copy1" \in DOMAIN heap' /\ heap'["copy1"] = heap["copy1"]
      <4>1. op \in OnePath => "copy1" \in DOMAIN heap
            BY <1>1, <1>2 DEF Arriving, Blocks
      <4>2. PICK g : heap' = Joined(heap, g)
            BY <3>1
      <4>3. ASSUME NEW x \in DOMAIN heap PROVE x \in DOMAIN heap' /\ heap'[x] = heap[x]
        <5>1. heap'[x] = heap[x]
              BY <4>2, JoinedAt
        <5>2. x \in DOMAIN heap'
              BY <4>2, HeapJoin
        <5> QED BY <5>1, <5>2
      <4> QED BY <4>1, <4>3
    <3>4. PICK r, h : r = req' /\ h = heap'
          OBVIOUS
    <3>5. SystemCall(r, h) = Meant(op, args)
          BY <1>1, <1>2, <2>2, <3>2, <3>3, <3>4, RequestCarries
    <3> QED BY <1>1, <1>2, <3>2, <3>4, <3>5, RequestKeeps DEF Kept
  <2> QED BY <2>1, <2>2
<1> QED BY <1>1, <1>2 DEF Arriving, ArgumentsArrive, Kept

LEMMA ArrivingReaddir == ASSUME IInv, Arriving, ExecuteReaddir PROVE Arriving'
<1>1. /\ stage = "submitted" /\ stage' = "executed" /\ UNCHANGED <<op, args, native>>
      /\ call' = SystemCall(req, heap) /\ NewRequest /\ op = "readdir"
      BY DEF ExecuteReaddir, IInv, HeapOK, NewRequest
<1>2. op \in OnePath /\ op \notin Misbound /\ ~NeedsBuffer(req)
      BY <1>1 DEF OnePath, TwoPaths, Misbound, NeedsBuffer, AllocatesBuffer, NewRequest
<1>3. "copy1" \in DOMAIN heap
      BY <1>1, <1>2 DEF Arriving, Blocks
<1>4. call' = Meant(op, args)
      BY <1>1, <1>2, <1>3, RequestCarries
<1>5. req'.pri = req.pri /\ req'.callback = req.callback
      BY DEF ExecuteReaddir
<1> QED BY <1>1, <1>2, <1>4, <1>5, RequestKeeps DEF Arriving, ArgumentsArrive, Kept

\* The strings are released before or after the system call: its own copies stay.
LEMMA ArrivingRest ==
  ASSUME IInv, Arriving,
         \/ ConstructFails(op) \/ SecondPathFails(op) \/ Release \/ UserFree
         \/ ExecuteNoMemory \/ Callback \/ Destroy \/ UNCHANGED vars
  PROVE  Arriving'
<1>1. CASE Release
  <2>1. /\ stage \notin {"none", "bound"} /\ UNCHANGED <<stage, op, args, native, req, call>>
        /\ heap' = Restrict(heap, DOMAIN heap \ {"chars1", "chars2"})
        BY <1>1 DEF Release
  <2>2. "copy1" \in Blocks => "copy1" \in Blocks' /\ heap'["copy1"] = heap["copy1"]
        BY <2>1 DEF Restrict, Blocks
  <2> QED BY <2>1, <2>2 DEF Arriving, ArgumentsArrive
<1>2. CASE UNCHANGED vars
      BY <1>2 DEF vars, Arriving, ArgumentsArrive, Blocks
<1>3. CASE ConstructFails(op) \/ SecondPathFails(op) \/ UserFree \/ ExecuteNoMemory
           \/ Callback \/ Destroy
  <2>1. /\ UNCHANGED <<op, args, native, call>> /\ stage' \notin {"none", "bound", "submitted"}
        /\ stage # "none" /\ (stage' = "failed" => call = <<>>)
        /\ req' = req \/ call = <<>>
        BY <1>3 DEF ConstructFails, SecondPathFails, UserFree, ExecuteNoMemory, Callback,
                    Destroy, Arriving
  <2> QED BY <2>1 DEF Arriving, ArgumentsArrive
<1> QED BY <1>1, <1>2, <1>3

\* Through three parameter lists, the fields of eio_req and their conversions,
\* every argument of a method that is bound to its own parameters gets to its place
\* in the system call, for every width of int and long and every int passed;
\* the priority, to its list of the request queue.
THEOREM OperationArguments == Spec => []ArgumentsArrive
<1>1. Init => Arriving
      BY DEF Init, Arriving, ArgumentsArrive, Blocks
<1>2. IInv /\ Arriving /\ [Next]_vars => Arriving'
      BY ArrivingInvoke, ArrivingConstruct, ArrivingExecute, ArrivingReaddir, ArrivingRest
      DEF Next, Done
<1>3. Arriving => ArgumentsArrive
      BY DEF Arriving
<1> QED BY InitOK, NextStep, <1>1, <1>2, <1>3, PTL DEF Spec
=============================================================================
