---------------------------- MODULE EioEmulation ----------------------------
(***************************************************************************)
(* The calls libeio carries out itself where the system has none or one    *)
(* that cannot be used (eio.c:880-1063, 1429-1540): sendfile, readahead,   *)
(* and the calls on ranges of memory, which first extend the range to      *)
(* whole pages.  One call is one behaviour.                                *)
(*                                                                         *)
(* A byte of a file is known by its position, so what has been written is  *)
(* a sequence of positions.                                                *)
(***************************************************************************)
EXTENDS Integers, Sequences

CONSTANTS
  FileSize,     \* the size of the file that is read
  Offsets,      \* offsets in a file, arguments
  Counts,       \* the argument count or nbytes
  BufSize,      \* EIO_BUFSIZE, 65536 in the code
  Page,         \* the page size, a power of two
  Addresses,    \* addresses of memory, arguments
  Lengths,      \* lengths of memory, arguments
  SizeMod,      \* 2^w for the w bits of size_t and intptr_t
  SystemFlags   \* the bits systems give to three flags, as sequences

ASSUME EmulationAssumption ==
  /\ FileSize \in Nat /\ Offsets \subseteq Nat /\ Counts \subseteq Nat
  /\ BufSize \in Nat \ {0} /\ Page \in Nat \ {0} /\ SizeMod % Page = 0
  /\ SizeMod \in Nat \ {0}
  /\ Addresses \subseteq 0 .. SizeMod - 1 /\ Lengths \subseteq 0 .. SizeMod - 1

\* Each of a system's flags is a bit of its own.  Of two different powers of two
\* one is a multiple of twice the other.
ASSUME SystemFlagsAssumption ==
  \A sys \in SystemFlags :
    /\ sys \in [1 .. 3 -> Nat \ {0}]
    /\ \A i, j \in 1 .. 3 : i # j => \/ sys[i] % (2 * sys[j]) = 0
                                    \/ sys[j] % (2 * sys[i]) = 0

VARIABLES
  call,      \* what was called: a record with its name and arguments
  step,      \* where the call is
  offset,    \* the local offset; for memory, the local addr
  count,     \* the local count or todo; for memory, the length
  buffer,    \* the bytes in eio_buf
  moved_to,  \* the bytes asked for (readahead) or written (sendfile)
  touched,   \* the addresses mtouch has read
  passed,    \* the flags the system call gets
  res        \* the result

emulationVars == <<call, step, offset, count, buffer, moved_to, touched, passed, res>>

-----------------------------------------------------------------------------
(***************************************************************************)
(* Flags.  msync, sync_file_range and mlockall have up to three flags, for *)
(* which libeio and the system have bits of their own: the i-th flag is    *)
(* EioFlags[i] here and sys[i] there.                                      *)
(***************************************************************************)
EioFlags == <<1, 2, 4>>
HasFlag(flags, bit) == (flags \div bit) % 2 = 1
FlagOf(flags, i, sys) == IF HasFlag(flags, EioFlags[i]) THEN sys[i] ELSE 0

\* The test before the translation.  msync compares its first flag with the
\* system's third, so that it translates even where the bits are the same.
BugDiffers(fn, sys) == EioFlags[1] # sys[1]
Differs(fn, sys) ==
  CASE fn = "msync"    -> EioFlags # <<sys[3], sys[2], sys[3]>>
    [] fn = "mlockall" -> EioFlags[1] # sys[1] \/ EioFlags[2] # sys[2]
    [] OTHER           -> EioFlags # sys

Translated(fn, flags, sys) ==
  IF Differs(fn, sys) THEN FlagOf(flags, 1, sys) + FlagOf(flags, 2, sys)
                           + (IF fn = "mlockall" THEN 0 ELSE FlagOf(flags, 3, sys))
                      ELSE flags

(***************************************************************************)
(* eio_page_align, with the arithmetic of size_t.                          *)
(***************************************************************************)
RoundUp(x) == (((x + Page - 1) % SizeMod) \div Page) * Page

BugAlignedLength(addr, len) == RoundUp(len)
AlignedLength(addr, len) == RoundUp((len + (addr % Page)) % SizeMod)
AlignedAddress(addr) == addr - (addr % Page)

-----------------------------------------------------------------------------
Calls ==
       [fn : {"sendfile", "readahead"}, offset : Offsets, count : Counts]
  \cup [fn : {"mtouch", "mlock"}, addr : Addresses, length : Lengths]
  \cup [fn : {"msync"}, addr : Addresses, length : Lengths, flags : 0 .. 7,
        sys : SystemFlags]
  \cup [fn : {"sync_file_range"}, flags : 0 .. 7, sys : SystemFlags]
  \cup [fn : {"mlockall"}, flags : 0 .. 3, sys : SystemFlags]

OnFile   == call.fn \in {"sendfile", "readahead"}
OnMemory == call.fn \in {"mlock", "msync", "mtouch"}
WithFlags == call.fn \in {"msync", "sync_file_range", "mlockall"}

EmulationIdle ==
  /\ call = [fn |-> "none"] /\ step = "idle" /\ offset = 0 /\ count = 0
  /\ buffer = <<>> /\ moved_to = <<>> /\ touched = {} /\ passed = 0 /\ res = 0

EmulationInit ==
  /\ call \in Calls /\ step = "called"
  /\ offset = CASE OnFile -> call.offset [] OnMemory -> call.addr [] OTHER -> 0
  /\ count = CASE OnFile -> call.count [] OnMemory -> call.length [] OTHER -> 0
  /\ buffer = <<>> /\ moved_to = <<>> /\ touched = {} /\ passed = 0 /\ res = 0

Called(fn) == step = "called" /\ call.fn = fn

GotoE(label) == step' = label
Return(value) == res' = value /\ GotoE("returned")

\* The n positions from a position on
Bytes(from, n) == [i \in 1 .. n |-> from + i - 1]
Least(a, b) == IF a < b THEN a ELSE b

\* dBUF: without memory for the buffer the call returns -1.
NoBuffer ==
  /\ \/ Called("readahead") \/ step = "emulate"
  /\ Return(-1)
  /\ UNCHANGED <<call, offset, count, buffer, moved_to, touched, passed>>

-----------------------------------------------------------------------------
(***************************************************************************)
(* readahead: the range is read into the buffer, piece by piece; what      *)
(* pread returns is ignored.                                               *)
(***************************************************************************)
Readahead ==
  /\ Called("readahead")
  /\ GotoE("reading")
  /\ UNCHANGED <<call, offset, count, buffer, moved_to, touched, passed, res>>

ReadPiece ==
  /\ step = "reading" /\ count > 0
  /\ LET len == Least(count, BufSize)
     IN  /\ moved_to' = moved_to \o Bytes(offset, len)
         /\ offset' = offset + len
         /\ count' = count - len
  /\ UNCHANGED <<call, step, buffer, touched, passed, res>>

ReadaheadDone ==
  /\ step = "reading" /\ count = 0
  /\ Return(call.count)
  /\ UNCHANGED <<call, offset, count, buffer, moved_to, touched, passed>>

-----------------------------------------------------------------------------
(***************************************************************************)
(* sendfile.                                                               *)
(***************************************************************************)
NothingToSend ==
  /\ Called("sendfile") /\ count = 0
  /\ Return(0)
  /\ UNCHANGED <<call, offset, count, buffer, moved_to, touched, passed>>

\* The system's own sendfile sends some bytes, at most to the end of the
\* file, and may then fail; what it has sent counts.
NativeSends(n) ==
  /\ Called("sendfile") /\ count > 0
  /\ n \in 1 .. Least(count, FileSize - offset)
  /\ moved_to' = Bytes(offset, n)
  /\ Return(n)
  /\ UNCHANGED <<call, offset, count, buffer, touched, passed>>

\* It sends nothing: at the end of the file, or with an error
NativeSendsNothing ==
  /\ Called("sendfile") /\ count > 0
  /\ Return(0) \/ Return(-1)
  /\ UNCHANGED <<call, offset, count, buffer, moved_to, touched, passed>>

\* It does not exist (ENOSYS) or not for these descriptors (EINVAL, ENOTSOCK,
\* ENOTSUP, EOPNOTSUPP): emulation with a buffer.
NativeUnsuitable ==
  /\ Called("sendfile") /\ count > 0
  /\ GotoE("emulate")
  /\ UNCHANGED <<call, offset, count, buffer, moved_to, touched, passed, res>>

Emulate ==
  /\ step = "emulate"
  /\ res' = 0
  /\ GotoE("pread")
  /\ UNCHANGED <<call, offset, count, buffer, moved_to, touched, passed>>

SendDone ==
  /\ step = "pread" /\ count = 0
  /\ GotoE("returned")
  /\ UNCHANGED <<call, offset, count, buffer, moved_to, touched, passed, res>>

\* pread returns any number of the bytes that are there.
Pread(n) ==
  /\ step = "pread" /\ count > 0
  /\ n \in 1 .. Least(Least(count, BufSize), FileSize - offset)
  /\ buffer' = Bytes(offset, n)
  /\ GotoE("write")
  /\ UNCHANGED <<call, offset, count, moved_to, touched, passed, res>>

\* An error counts only if nothing has been sent.
Failed == res' = (IF res = 0 THEN -1 ELSE res)

PreadEnds ==
  /\ step = "pread" /\ count > 0
  /\ \/ offset >= FileSize /\ UNCHANGED res
     \/ Failed
  /\ GotoE("returned")
  /\ UNCHANGED <<call, offset, count, buffer, moved_to, touched, passed>>

\* write may take less than it is given; the rest is read once more.
BugAdvanced(n) == offset + Len(buffer)
Advanced(n) == offset + n

Write(n) ==
  /\ step = "write"
  /\ n \in 1 .. Len(buffer)
  /\ moved_to' = moved_to \o SubSeq(buffer, 1, n)
  /\ offset' = Advanced(n)
  /\ res' = res + n
  /\ count' = count - n
  /\ GotoE("pread")
  /\ UNCHANGED <<call, buffer, touched, passed>>

WriteEnds ==
  /\ step = "write"
  /\ UNCHANGED res \/ Failed
  /\ GotoE("returned")
  /\ UNCHANGED <<call, offset, count, buffer, moved_to, touched, passed>>

-----------------------------------------------------------------------------
(***************************************************************************)
(* Memory: eio__mlock, eio__msync and eio__mtouch; and the other calls     *)
(* with flags.                                                             *)
(***************************************************************************)
TranslatedFlags == IF WithFlags THEN Translated(call.fn, call.flags, call.sys) ELSE 0

Align ==
  /\ step = "called" /\ OnMemory
  /\ offset' = AlignedAddress(call.addr)
  /\ count' = AlignedLength(call.addr, call.length)
  /\ passed' = TranslatedFlags
  /\ GotoE(IF call.fn = "mtouch" THEN "touching" ELSE "system")
  /\ UNCHANGED <<call, buffer, moved_to, touched, res>>

\* sync_file_range, on systems that have it, and mlockall
PassFlags ==
  /\ step = "called" /\ call.fn \in {"sync_file_range", "mlockall"}
  /\ passed' = TranslatedFlags
  /\ GotoE("system")
  /\ UNCHANGED <<call, offset, count, buffer, moved_to, touched, res>>

SystemCall ==
  /\ step = "system"
  /\ Return(0) \/ Return(-1)
  /\ UNCHANGED <<call, offset, count, buffer, moved_to, touched, passed>>

\* Without a sync_file_range, or where it is not implemented, fdatasync
\* writes the whole file.
Fdatasync ==
  /\ \/ Called("sync_file_range")
     \/ step = "system" /\ call.fn = "sync_file_range"
  /\ Return(0) \/ Return(-1)
  /\ UNCHANGED <<call, offset, count, buffer, moved_to, touched, passed>>

\* The loop ends at address len instead of addr + len; its first turn is made
\* in any case.
TouchPage ==
  /\ step = "touching" /\ count > 0
  /\ touched = {} \/ offset < count
  /\ touched' = touched \cup {offset}
  /\ offset' = (offset + Page) % SizeMod
  /\ UNCHANGED <<call, step, count, buffer, moved_to, passed, res>>

TouchDone ==
  /\ step = "touching"
  /\ count = 0 \/ (touched # {} /\ offset >= count)
  /\ Return(0)
  /\ UNCHANGED <<call, offset, count, buffer, moved_to, touched, passed>>

EmulationNext ==
  \/ NoBuffer
  \/ Readahead \/ ReadPiece \/ ReadaheadDone
  \/ NothingToSend \/ NativeSendsNothing \/ NativeUnsuitable
  \/ Emulate \/ SendDone \/ PreadEnds \/ WriteEnds
  \/ \E n \in 1 .. FileSize : NativeSends(n) \/ Pread(n) \/ Write(n)
  \/ Align \/ PassFlags \/ SystemCall \/ Fdatasync \/ TouchPage \/ TouchDone

-----------------------------------------------------------------------------
(***************************************************************************)
(* What the calls have to guarantee.                                       *)
(***************************************************************************)

\* Across partial reads, partial writes, errors and the end of the file,
\* sendfile has written the bytes from the offset on, each once and in order,
\* and returns how many; -1 only if none.  readahead asks for exactly the range.
TransfersExact ==
  step # "idle" /\ OnFile =>
    /\ moved_to = Bytes(call.offset, Len(moved_to))
    /\ Len(moved_to) <= call.count
    /\ step = "returned" =>
         IF res = -1 THEN moved_to = <<>> ELSE res = Len(moved_to)

\* The last page of the address space is left out: rounding up wraps there.
RealRange == step # "idle" /\ OnMemory /\ call.addr + call.length <= SizeMod - Page

\* The range given to the system is made of whole pages, contains the
\* caller's, and has no page that does not meet it; mtouch stays inside.
RangeCovered ==
  RealRange =>
    LET end == call.addr + call.length
    IN  /\ call.fn # "mtouch" /\ step \in {"system", "returned"} =>
             /\ offset % Page = 0 /\ count % Page = 0
             /\ offset <= call.addr /\ end <= offset + count
             /\ call.addr < offset + Page /\ offset + count < end + Page
        /\ \A a \in touched : /\ a % Page = 0
                              /\ call.addr < a + Page
                              /\ a <= call.addr \/ a < end

\* The system call gets the bit of a flag exactly if the caller gave the flag,
\* whatever bits the system uses.
FlagsKept ==
  step = "system" =>
    \A i \in IF call.fn = "mlock" THEN {} ELSE IF call.fn = "mlockall" THEN 1 .. 2 ELSE 1 .. 3 :
      HasFlag(passed, call.sys[i]) <=> HasFlag(call.flags, EioFlags[i])
=============================================================================
