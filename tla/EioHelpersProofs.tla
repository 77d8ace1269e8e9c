-------------------------- MODULE EioHelpersProofs --------------------------
(***************************************************************************)
(* What the helpers of eio_execute guarantee: eio__scandir, for every      *)
(* directory, set of flags and size of the arrays, wherever an allocation  *)
(* or readdir fails and whenever the request is cancelled; the emulated    *)
(* calls, for every size of file, buffer and page, every range of memory,  *)
(* every system's flags and any number of workers on one open file.        *)
(*                                                                         *)
(* The helpers share nothing with each other.  So each has an invariant of *)
(* its own, over its part of the state: PositionInv, TransferInv, RangeInv *)
(* and FlagInv, and ScandirInv with the invariant of the sort in           *)
(* DentSortProofs.                                                         *)
(***************************************************************************)
EXTENDS EioHelpers, DentSortProofs

-----------------------------------------------------------------------------
(***************************************************************************)
(* The parts of the state.                                                 *)
(***************************************************************************)
\* In the beginning each part is idle or at the start of its call.
LEMMA InitOfParts ==
  Init => /\ ScandirInit \/ ScandirIdle
          /\ EmulationInit \/ EmulationIdle
          /\ PositionedInit \/ PositionedIdle
BY DEF Init

\* A step of the helpers is a step of one part; the others stutter.
LEMMA NextOfParts ==
  [Next]_vars => /\ [ScandirNext]_scandirVars
                 /\ [EmulationNext]_emulationVars
                 /\ [PositionedNext]_positionVars
BY DEF Next, Done, vars

-----------------------------------------------------------------------------
(***************************************************************************)
(* Positioned transfers.                                                   *)
(***************************************************************************)
PositionTypes ==
  /\ startpos \in Int /\ filepos \in Int
  /\ asked \in [Positioners -> Int]
  /\ ooffset \in [Positioners -> Int]
  /\ done_at \in [Positioners -> Int]
  /\ ppc \in [Positioners -> {"lock", "save", "seek", "transfer", "restore",
                              "unlock", "unlocked"}]

Inside(w) == ppc[w] \in {"save", "seek", "transfer", "restore", "unlock"}

\* A worker between X_LOCK and X_UNLOCK holds the lock; so it is alone there.
Locked == \A w \in Positioners : Inside(w) => preadwritelock = w

\* While a worker has the lock, the file's position is its own or saved; and
\* what it has saved is the position before all of the calls.
PositionSaved ==
  /\ preadwritelock = Nobody => filepos = startpos
  /\ \A w \in Positioners :
       /\ ppc[w] \in {"save", "seek", "unlock"} => filepos = startpos
       /\ ppc[w] \in {"seek", "transfer", "restore", "unlock"} => ooffset[w] = startpos
       /\ ppc[w] = "transfer" => filepos = asked[w]
       /\ done_at[w] \in {-1, asked[w]}

PositionInv == PositionTypes /\ Locked /\ PositionSaved

LEMMA PositionInit == PositionedInit \/ PositionedIdle => PositionInv
<1> USE DEF PositionInv, PositionTypes, Locked, Inside, PositionSaved
<1>1. ASSUME PositionedInit PROVE PositionInv
  <2>1. \A p \in Positions : p \in Int
        BY PositionsAssumption
  <2>2. startpos \in Int /\ asked \in [Positioners -> Int]
        BY <1>1, <2>1 DEF PositionedInit
  <2> QED BY <1>1, <2>2 DEF PositionedInit
<1>2. ASSUME PositionedIdle PROVE PositionInv
      BY <1>2 DEF PositionedIdle
<1> QED BY <1>1, <1>2

LEMMA PositionStep == PositionInv /\ [PositionedNext]_positionVars => PositionInv'
<1> SUFFICES ASSUME PositionInv, [PositionedNext]_positionVars
             PROVE  PositionInv'
    OBVIOUS
<1> USE PositionsAssumption DEF PositionInv, PositionTypes, Locked, Inside, PositionSaved
<1>1. CASE UNCHANGED positionVars
      BY <1>1 DEF positionVars
<1>2. CASE PositionedNext
  <2> PICK w \in Positioners :
        Lock(w) \/ Save(w) \/ Seek(w) \/ Transfer(w) \/ Restore(w) \/ Unlock(w)
      BY <1>2 DEF PositionedNext
  <2>1. CASE Lock(w)     BY <2>1 DEF Lock, GoTo
  <2>2. CASE Save(w)     BY <2>2 DEF Save, GoTo
  <2>3. CASE Seek(w)     BY <2>3 DEF Seek, GoTo
  <2>4. CASE Transfer(w) BY <2>4 DEF Transfer, GoTo
  <2>5. CASE Restore(w)  BY <2>5 DEF Restore, GoTo
  <2>6. CASE Unlock(w)   BY <2>6 DEF Unlock, GoTo
  <2> QED BY <2>1, <2>2, <2>3, <2>4, <2>5, <2>6
<1> QED BY <1>1, <1>2

\* eio.c:236, "safe against themselves": however the workers that read and
\* write one open file alternate, each transfers at the position it was asked
\* for, and between the calls the file's own position is what it was.
THEOREM WorkersKeepPositions == Spec => []PositionsKept
<1>1. PositionInv => PositionsKept
      BY DEF PositionInv, PositionSaved, PositionsKept
<1> QED BY InitOfParts, NextOfParts, PositionInit, PositionStep, <1>1, PTL DEF Spec

-----------------------------------------------------------------------------
(***************************************************************************)
(* Runs of bytes.                                                          *)
(***************************************************************************)
LEMMA BytesIsSeq ==
  ASSUME NEW from \in Nat, NEW n \in Nat
  PROVE  Bytes(from, n) \in Seq(Nat) /\ Len(Bytes(from, n)) = n
<1>1. Bytes(from, n) \in [1 .. n -> Nat]
      BY DEF Bytes
<1> QED BY <1>1

LEMMA NoBytes == ASSUME NEW from \in Nat PROVE Bytes(from, 0) = <<>>
<1>1. Bytes(from, 0) \in Seq(Nat) /\ Len(Bytes(from, 0)) = 0
      BY BytesIsSeq
<1> QED BY <1>1

\* A run continued by the bytes that come next is a run.
LEMMA BytesGrow ==
  ASSUME NEW from \in Nat, NEW m \in Nat, NEW n \in Nat
  PROVE  Bytes(from, m) \o Bytes(from + m, n) = Bytes(from, m + n)
<1>1. \A f, k \in Nat : Bytes(f, k) \in Seq(Nat) /\ Len(Bytes(f, k)) = k
      BY BytesIsSeq
<1>2. from + m \in Nat /\ m + n \in Nat
      OBVIOUS
<1>3. PICK front : front = Bytes(from, m)
      OBVIOUS
<1>4. PICK back : back = Bytes(from + m, n)
      OBVIOUS
<1>5. PICK all : all = Bytes(from, m + n)
      OBVIOUS
<1>6. /\ front \in Seq(Nat) /\ Len(front) = m
      /\ back \in Seq(Nat) /\ Len(back) = n
      /\ all \in Seq(Nat) /\ Len(all) = m + n
      BY <1>1, <1>2, <1>3, <1>4, <1>5
<1>7. /\ \A i \in 1 .. m : front[i] = from + i - 1
      /\ \A i \in 1 .. n : back[i] = from + m + i - 1
      /\ \A i \in 1 .. m + n : all[i] = from + i - 1
      BY <1>2, <1>3, <1>4, <1>5 DEF Bytes
<1>8. /\ front \o back \in Seq(Nat) /\ Len(front \o back) = m + n
      /\ \A i \in 1 .. m + n :
           (front \o back)[i] = IF i <= m THEN front[i] ELSE back[i - m]
      BY <1>6, ConcatProperties
<1>9. ASSUME NEW i \in 1 .. m + n PROVE (front \o back)[i] = all[i]
  <2>1. CASE i <= m
    <3>1. i \in 1 .. m
          BY <1>1, <2>1
    <3> QED BY <1>7, <1>8, <2>1, <3>1
  <2>2. CASE ~(i <= m)
    <3>1. i - m \in 1 .. n /\ from + m + (i - m) - 1 = from + i - 1
          BY <1>1, <2>2
    <3> QED BY <1>7, <1>8, <2>2, <3>1
  <2> QED BY <2>1, <2>2
<1>10. front \o back = all
       BY <1>6, <1>8, <1>9, SeqEqual
<1> QED BY <1>3, <1>4, <1>5, <1>10

LEMMA BytesFront ==
  ASSUME NEW from \in Nat, NEW m \in Nat, NEW n \in 1 .. m
  PROVE  SubSeq(Bytes(from, m), 1, n) = Bytes(from, n)
<1>1. /\ Bytes(from, m) \in Seq(Nat) /\ Len(Bytes(from, m)) = m
      /\ Bytes(from, n) \in Seq(Nat) /\ Len(Bytes(from, n)) = n
      BY BytesIsSeq
<1>2. /\ SubSeq(Bytes(from, m), 1, n) \in Seq(Nat)
      /\ Len(SubSeq(Bytes(from, m), 1, n)) = n
      BY <1>1
<1>3. ASSUME NEW i \in 1 .. n PROVE SubSeq(Bytes(from, m), 1, n)[i] = Bytes(from, n)[i]
  <2>1. SubSeq(Bytes(from, m), 1, n)[i] = Bytes(from, m)[i]
        BY <1>1
  <2> QED BY <2>1 DEF Bytes
<1>4. PICK front : front = SubSeq(Bytes(from, m), 1, n)
      OBVIOUS
<1>5. PICK all : all = Bytes(from, n)
      OBVIOUS
<1>6. front = all
      BY <1>1, <1>2, <1>3, <1>4, <1>5, SeqEqual
<1> QED BY <1>4, <1>5, <1>6

-----------------------------------------------------------------------------
(***************************************************************************)
(* sendfile and readahead.                                                 *)
(***************************************************************************)
Sent == Len(moved_to)

\* The local offset and count go with what was sent; the buffer holds the bytes
\* that come next; res counts what was written.
Transferring ==
  /\ step \in {"called", "reading", "emulate", "pread", "write"}
  /\ offset = call.offset + Sent /\ count = call.count - Sent
  /\ step \in {"called", "emulate"} => moved_to = <<>>
  /\ step = "reading" <=> (call.fn = "readahead" /\ step # "called")
  /\ step \in {"pread", "write"} => res = Sent
  /\ step = "write" =>
       Len(buffer) \in 1 .. count /\ buffer = Bytes(offset, Len(buffer))

Transferred ==
  /\ step = "returned"
  /\ IF res = -1 THEN moved_to = <<>> ELSE res = Sent

\* While a call on files lasts, and when it has returned.
OnFileOK ==
  /\ call.offset \in Nat /\ call.count \in Nat
  /\ moved_to \in Seq(Nat) /\ Sent <= call.count
  /\ moved_to = Bytes(call.offset, Sent)
  /\ Transferring \/ Transferred

TransferInv == step # "idle" /\ OnFile => OnFileOK

LEMMA TransferInit == EmulationInit \/ EmulationIdle => TransferInv
<1> SUFFICES ASSUME EmulationInit, OnFile PROVE OnFileOK
    BY DEF EmulationIdle, TransferInv, OnFile
<1>1. call.offset \in Nat /\ call.count \in Nat
      BY EmulationAssumption DEF EmulationInit, Calls, OnFile
<1>2. step = "called" /\ offset = call.offset /\ count = call.count /\ moved_to = <<>>
      BY DEF EmulationInit, OnFile, OnMemory
<1>3. Bytes(call.offset, 0) = <<>>
      BY <1>1, NoBytes
<1> QED BY <1>1, <1>2, <1>3 DEF OnFileOK, Transferring, Sent

\* A step that leaves what was sent alone only has to keep the rest in order.
LEMMA TransferKeeps ==
  ASSUME OnFileOK, UNCHANGED <<call, moved_to>>, Transferring' \/ Transferred'
  PROVE  OnFileOK'
BY DEF OnFileOK, Sent

LEMMA TransferGrows ==
  ASSUME OnFileOK, UNCHANGED call, NEW n \in Nat, Sent + n <= call.count,
         moved_to' = moved_to \o Bytes(call.offset + Sent, n)
  PROVE  /\ Sent' = Sent + n
         /\ Transferring' \/ Transferred' => OnFileOK'
<1>1. Sent \in Nat /\ call.offset + Sent \in Nat /\ Sent + n \in Nat
      BY DEF OnFileOK, Sent
<1>2. moved_to' = Bytes(call.offset, Sent + n)
      BY <1>1, BytesGrow DEF OnFileOK
<1>3. moved_to' \in Seq(Nat) /\ Len(moved_to') = Sent + n
      BY <1>1, <1>2, BytesIsSeq DEF OnFileOK
<1> QED BY <1>2, <1>3 DEF OnFileOK, Sent

\* The steps of readahead and sendfile
FileStep ==
  \/ NoBuffer
  \/ Readahead \/ ReadPiece \/ ReadaheadDone
  \/ NothingToSend \/ NativeSendsNothing \/ NativeUnsuitable
  \/ Emulate \/ SendDone \/ PreadEnds \/ WriteEnds
  \/ \E n \in 1 .. FileSize : NativeSends(n) \/ Pread(n) \/ Write(n)

LEMMA OnlyFileSteps ==
  EmulationNext /\ OnFile /\ OnFileOK => FileStep
BY DEF EmulationNext, FileStep, OnFile, OnMemory, OnFileOK, Transferring, Transferred,
       Align, PassFlags, SystemCall, Fdatasync, Called, TouchPage, TouchDone

LEMMA CallStays == EmulationNext => UNCHANGED call /\ step # "idle"
BY DEF EmulationNext, NoBuffer, Called, Readahead, ReadPiece, ReadaheadDone,
       NothingToSend, NativeSendsNothing, NativeUnsuitable, Emulate, SendDone,
       PreadEnds, WriteEnds, NativeSends, Pread, Write, Align, PassFlags, SystemCall,
       Fdatasync, TouchPage, TouchDone

LEMMA TransferStep == TransferInv /\ [EmulationNext]_emulationVars => TransferInv'
<1> SUFFICES ASSUME TransferInv, [EmulationNext]_emulationVars, step' # "idle", OnFile'
             PROVE  OnFileOK'
    BY DEF TransferInv
<1>1. CASE UNCHANGED emulationVars
      BY <1>1 DEF emulationVars, TransferInv, OnFile, OnFileOK, Sent, Transferring,
                  Transferred
<1>2. CASE EmulationNext
  <2> UNCHANGED call /\ OnFile /\ OnFileOK
      BY <1>2, CallStays DEF TransferInv, OnFile
  <2>1. FileStep
        BY <1>2, OnlyFileSteps
  <2>2. Sent \in Nat /\ call.offset \in Nat /\ call.count \in Nat
        BY DEF OnFileOK, Sent
  <2> USE DEF Transferring, Transferred
  <2>3. CASE NoBuffer
        BY <2>3, TransferKeeps DEF NoBuffer, Called, Return, GotoE, OnFileOK
  <2>4. CASE Readahead
        BY <2>2, <2>4, TransferKeeps DEF Readahead, Called, GotoE, OnFileOK, Sent
  <2>5. CASE ReadPiece
    <3> DEFINE len == Least(count, BufSize)
    <3>1. step = "reading" /\ count > 0 /\ offset = call.offset + Sent
          /\ count = call.count - Sent /\ call.fn = "readahead"
          BY <2>5 DEF ReadPiece, OnFileOK
    <3>2. len \in Nat /\ len <= count
          BY <2>2, <3>1, EmulationAssumption DEF Least
    <3>3. moved_to' = moved_to \o Bytes(call.offset + Sent, len)
          /\ offset' = offset + len /\ count' = count - len /\ step' = step
          BY <2>5, <3>1 DEF ReadPiece
    <3>4. Sent + len <= call.count
          BY <2>2, <3>1, <3>2 DEF Sent
    <3> HIDE DEF len, Transferring, Transferred
    <3>5. Sent' = Sent + len /\ (Transferring' \/ Transferred' => OnFileOK')
          BY <3>2, <3>3, <3>4, TransferGrows
    <3>6. offset' = call.offset + Sent' /\ count' = call.count - Sent'
          BY <2>2, <3>1, <3>2, <3>3, <3>5, SMTT(30)
    <3>7. Transferring'
          BY <3>1, <3>3, <3>6 DEF Transferring
    <3> QED BY <3>5, <3>7
  <2>6. CASE ReadaheadDone
        BY <2>2, <2>6, TransferKeeps DEF ReadaheadDone, Return, GotoE, OnFileOK, Sent
  <2>7. CASE NothingToSend
        BY <2>2, <2>7, TransferKeeps DEF NothingToSend, Called, Return, GotoE, OnFileOK, Sent
  <2>8. CASE NativeSendsNothing
        BY <2>2, <2>8, TransferKeeps
           DEF NativeSendsNothing, Called, Return, GotoE, OnFileOK, Sent
  <2>9. CASE NativeUnsuitable
        BY <2>2, <2>9, TransferKeeps DEF NativeUnsuitable, Called, GotoE, OnFileOK, Sent
  <2>10. CASE Emulate
        BY <2>2, <2>10, TransferKeeps DEF Emulate, GotoE, OnFileOK, Sent
  <2>11. CASE SendDone
        BY <2>2, <2>11, TransferKeeps DEF SendDone, GotoE, OnFileOK, Sent
  <2>12. CASE PreadEnds
        BY <2>2, <2>12, TransferKeeps DEF PreadEnds, Failed, GotoE, OnFileOK, Sent
  <2>13. CASE WriteEnds
        BY <2>2, <2>13, TransferKeeps DEF WriteEnds, Failed, GotoE, OnFileOK, Sent
  <2>14. ASSUME NEW n \in 1 .. FileSize, NativeSends(n) PROVE OnFileOK'
    <3> n \in Nat
        BY EmulationAssumption
    <3>1. step = "called" /\ moved_to = <<>> /\ Sent = 0 /\ count = call.count
          /\ offset = call.offset
          BY <2>2, <2>14 DEF NativeSends, Called, OnFileOK, Sent
    <3>2. n <= call.count
          BY <2>2, <2>14, <3>1, EmulationAssumption DEF NativeSends, Least
    <3>3. moved_to' = Bytes(call.offset, n) /\ res' = n /\ step' = "returned"
          BY <2>14, <3>1 DEF NativeSends, Return, GotoE
    <3>4. moved_to' \in Seq(Nat) /\ Sent' = n
          BY <2>2, <3>3, BytesIsSeq DEF Sent
    <3> QED BY <2>2, <3>2, <3>3, <3>4 DEF OnFileOK
  <2>15. ASSUME NEW n \in 1 .. FileSize, Pread(n) PROVE OnFileOK'
    <3> n \in Nat
        BY EmulationAssumption
    <3>1. step = "pread" /\ count > 0 /\ count = call.count - Sent
          /\ offset = call.offset + Sent /\ res = Sent /\ call.fn # "readahead"
          BY <2>15 DEF Pread, OnFileOK
    <3>2. n <= count
          BY <2>2, <2>15, <3>1, EmulationAssumption DEF Pread, Least
    <3>3. buffer' = Bytes(offset, n) /\ Len(buffer') = n
          BY <2>2, <2>15, <3>1, BytesIsSeq, SMTT(30) DEF Pread
    <3>4. step' = "write" /\ UNCHANGED <<call, offset, count, moved_to, res>>
          BY <2>15 DEF Pread, GotoE
    <3>5. Transferring'
          BY <2>2, <3>1, <3>2, <3>3, <3>4 DEF Sent
    <3> QED BY <3>4, <3>5, TransferKeeps
  <2>16. ASSUME NEW n \in 1 .. FileSize, Write(n) PROVE OnFileOK'
    <3>1. step = "write" /\ call.fn # "readahead"
          /\ Len(buffer) \in 1 .. count /\ buffer = Bytes(offset, Len(buffer))
          BY <2>16 DEF Write, OnFileOK
    <3>2. count = call.count - Sent /\ offset = call.offset + Sent /\ res = Sent
          BY <2>16 DEF Write, OnFileOK
    <3>3. n \in 1 .. Len(buffer) /\ n \in Nat /\ offset \in Nat /\ Len(buffer) \in Nat
          BY <2>2, <2>16, <3>2, <3>1, SMTT(30) DEF Write
    <3>4. SubSeq(buffer, 1, n) = Bytes(offset, n)
          BY <3>1, <3>3, BytesFront
    <3>5. moved_to' = moved_to \o Bytes(call.offset + Sent, n)
          BY <2>16, <3>2, <3>4 DEF Write
    <3>6. offset' = offset + n /\ res' = res + n /\ count' = count - n
          /\ step' = "pread"
          BY <2>16 DEF Write, Advanced, GotoE
    <3>7. Sent + n <= call.count
          BY <2>2, <3>2, <3>1, <3>3
    <3> HIDE DEF Transferring, Transferred
    <3>8. Sent' = Sent + n /\ (Transferring' \/ Transferred' => OnFileOK')
          BY <3>3, <3>5, <3>7, TransferGrows
    <3>9. offset' = call.offset + Sent' /\ count' = call.count - Sent' /\ res' = Sent'
      <4>1. Sent' = Sent + n
            BY <3>8
      <4>2. offset' = call.offset + Sent'
            BY <2>2, <3>2, <3>3, <3>6, <4>1, SMTT(30)
      <4>3. count' = call.count - Sent'
            BY <2>2, <3>2, <3>3, <3>6, <4>1
      <4>4. res' = Sent'
            BY <2>2, <3>2, <3>3, <3>6, <4>1
      <4> QED BY <4>2, <4>3, <4>4
    <3>10. Transferring'
          BY <3>1, <3>6, <3>9 DEF Transferring
    <3> QED BY <3>8, <3>10
  <2> QED BY <2>1, <2>3, <2>4, <2>5, <2>6, <2>7, <2>8, <2>9, <2>10, <2>11, <2>12, <2>13,
             <2>14, <2>15, <2>16 DEF FileStep
<1> QED BY <1>1, <1>2

\* Across partial reads and writes, errors and the end of the file, sendfile has
\* written the bytes from the offset on, each once and in order, and returns how
\* many; -1 only if none: for every size of file, buffer and request.
THEOREM SendfileExact == Spec => []TransfersExact
<1>1. TransferInv => TransfersExact
      BY DEF TransferInv, OnFileOK, Transferring, Transferred, Sent, TransfersExact
<1> QED BY InitOfParts, NextOfParts, TransferInit, TransferStep, <1>1, PTL DEF Spec

-----------------------------------------------------------------------------
(***************************************************************************)
(* Pages.                                                                  *)
(***************************************************************************)
LEMMA DivMod ==
  ASSUME NEW x \in Nat, NEW p \in Nat \ {0}
  PROVE  /\ x \div p \in Nat /\ x % p \in 0 .. p - 1
         /\ x = (x \div p) * p + (x % p)
OBVIOUS

LEMMA Quotient ==
  ASSUME NEW x \in Nat, NEW p \in Nat \ {0}
  PROVE  \E q \in Nat, r \in 0 .. p - 1 : q = x \div p /\ r = x % p /\ x = q * p + r
BY DivMod

LEMMA NoSmallMultiple ==
  ASSUME NEW p \in Nat \ {0}, NEW a \in Int, NEW b \in Int, a * p < b * p + p
  PROVE  a <= b
OBVIOUS

LEMMA MultipleMod ==
  ASSUME NEW p \in Nat \ {0}, NEW k \in Nat, NEW s \in 0 .. p - 1
  PROVE  (k * p + s) % p = s /\ (k * p + s) \div p = k
<1> DEFINE x == k * p + s
<1>1. x \in Nat
  OBVIOUS
<1>2. x = (x \div p) * p + (x % p) /\ x \div p \in Nat /\ x % p \in 0 .. p - 1
  BY <1>1, DivMod
<1> HIDE DEF x
<1>3. x = k * p + s
   BY DEF x
<1>4. (x \div p) * p < k * p + p /\ k * p < (x \div p) * p + p
   BY <1>2, <1>3
<1>5. x \div p <= k /\ k <= x \div p
   BY <1>2, <1>4, NoSmallMultiple
<1> QED BY <1>2, <1>3, <1>5 DEF x

LEMMA MultipleAdd ==
  ASSUME NEW p \in Nat \ {0}, NEW x \in Nat, x % p = 0, NEW y \in Nat, y % p = 0
  PROVE  (x + y) % p = 0
<1>1. x = (x \div p) * p /\ y = (y \div p) * p /\ x \div p \in Nat /\ y \div p \in Nat
   BY DivMod
<1>2. x + y = (x \div p + y \div p) * p + 0
   BY <1>1
<1> QED BY <1>1, <1>2, MultipleMod

\* Two multiples differ by at least one more.
LEMMA MultipleLess ==
  ASSUME NEW p \in Nat \ {0}, NEW x \in Nat, x % p = 0, NEW y \in Nat, y % p = 0, x < y
  PROVE  x + p <= y
<1>1. PICK a \in Nat : x = a * p
  <2>1. PICK q \in Nat, r \in 0 .. p - 1 : q = x \div p /\ r = x % p /\ x = q * p + r
        BY Quotient
  <2>2. x = q * p
        BY <2>1
  <2> QED BY <2>2
<1>2. PICK b \in Nat : y = b * p
  <2>1. PICK q \in Nat, r \in 0 .. p - 1 : q = y \div p /\ r = y % p /\ y = q * p + r
        BY Quotient
  <2>2. y = q * p
        BY <2>1
  <2> QED BY <2>2
<1>3. b >= a + 1
      BY <1>1, <1>2
<1>4. b * p >= (a + 1) * p
      BY <1>3
<1> QED BY <1>1, <1>2, <1>4

\* eio_page_align rounds a length up to whole pages, unless it wraps.
LEMMA RoundUpIs ==
  ASSUME NEW x \in Nat, x + Page <= SizeMod
  PROVE  /\ RoundUp(x) \in Nat /\ RoundUp(x) % Page = 0
         /\ x <= RoundUp(x) /\ RoundUp(x) < x + Page
<1> USE EmulationAssumption
<1>1. PICK y \in Nat : y = x + Page - 1
      OBVIOUS
<1>2. y % SizeMod = y
      BY <1>1
<1>3. RoundUp(x) = (y \div Page) * Page
      BY <1>1, <1>2 DEF RoundUp
<1>4. PICK q \in Nat, r \in 0 .. Page - 1 : q = y \div Page /\ y = q * Page + r
      BY <1>1, Quotient
<1>5. RoundUp(x) = q * Page + 0 /\ q * Page \in Nat
      BY <1>3, <1>4
<1>6. RoundUp(x) % Page = 0
      BY <1>5, MultipleMod
<1> QED BY <1>1, <1>4, <1>5, <1>6

LEMMA AlignedIs ==
  ASSUME NEW x \in Nat
  PROVE  /\ AlignedAddress(x) \in Nat /\ AlignedAddress(x) % Page = 0
         /\ AlignedAddress(x) <= x /\ x < AlignedAddress(x) + Page
         /\ AlignedAddress(x) = x - (x % Page)
<1> Page \in Nat \ {0}
    BY EmulationAssumption
<1>1. PICK q \in Nat, r \in 0 .. Page - 1 : q = x \div Page /\ r = x % Page /\ x = q * Page + r
      BY Quotient
<1>2. AlignedAddress(x) = q * Page + 0 /\ q * Page \in Nat
      BY <1>1 DEF AlignedAddress
<1>3. AlignedAddress(x) % Page = 0
      BY <1>2, MultipleMod
<1>4. AlignedAddress(x) = x - (x % Page)
      BY DEF AlignedAddress
<1> QED BY <1>1, <1>2, <1>3, <1>4

\* The length from the beginning of the first page
Reach == call.length + (call.addr % Page)

\* The pages touched so far, and where the loop is: it has not left the range
\* when it turns, so that adding a page does not wrap.
TouchOK ==
  /\ offset % Page = 0 /\ AlignedAddress(call.addr) <= offset
  /\ touched = {} => offset = AlignedAddress(call.addr)

RangeOK ==
  /\ step \in {"called", "touching", "system", "returned"}
  /\ step = "called" => touched = {}
  /\ step = "system" => call.fn # "mtouch"
  /\ step = "touching" => call.fn = "mtouch" /\ offset \in Nat /\ TouchOK
  /\ step # "called" =>
       /\ count \in Nat /\ count % Page = 0
       /\ Reach <= count /\ count < Reach + Page
       /\ call.fn # "mtouch" => offset = AlignedAddress(call.addr)
  /\ call.fn # "mtouch" => touched = {}
  /\ \A a \in touched : /\ a \in Nat /\ a % Page = 0
                        /\ AlignedAddress(call.addr) <= a
                        /\ a <= call.addr \/ a < call.addr + call.length

Ranged == OnMemory => call.addr \in Nat /\ call.length \in Nat

RangeInv == Ranged /\ (RealRange => RangeOK)

LEMMA RangeInit == EmulationInit \/ EmulationIdle => RangeInv
<1>1. ASSUME EmulationInit, OnMemory PROVE call.addr \in Nat /\ call.length \in Nat
      BY <1>1, EmulationAssumption DEF EmulationInit, Calls, OnMemory
<1>2. ASSUME EmulationInit, RealRange PROVE RangeOK
      BY <1>2 DEF EmulationInit, RangeOK
<1>3. ASSUME EmulationIdle PROVE ~OnMemory
      BY <1>3 DEF EmulationIdle, OnMemory
<1> QED BY <1>1, <1>2, <1>3 DEF RangeInv, Ranged, RealRange

LEMMA OnlyRangeSteps ==
  EmulationNext /\ OnMemory /\ RangeOK => Align \/ SystemCall \/ TouchPage \/ TouchDone
BY DEF EmulationNext, OnMemory, RangeOK, NoBuffer, Called, Readahead, ReadPiece,
       ReadaheadDone, NothingToSend, NativeSendsNothing, NativeUnsuitable, Emulate,
       SendDone, PreadEnds, WriteEnds, NativeSends, Pread, Write, PassFlags, Fdatasync

\* What the range looks like: no arithmetic on it wraps.
LEMMA RangeBounds ==
  ASSUME Ranged, RealRange
  PROVE  /\ call.addr \in Nat /\ call.length \in Nat /\ Reach \in Nat
         /\ Reach <= call.addr + call.length /\ Reach + Page <= SizeMod
         /\ AlignedAddress(call.addr) \in Nat
         /\ AlignedAddress(call.addr) + Reach = call.addr + call.length
         /\ Page \in Nat \ {0} /\ SizeMod \in Nat
<1>1. call.addr \in Nat /\ call.length \in Nat
      BY DEF Ranged, RealRange
<1>2. PICK r \in 0 .. Page - 1 : r = call.addr % Page
      BY <1>1, DivMod, EmulationAssumption
<1>3. AlignedAddress(call.addr) = call.addr - r /\ AlignedAddress(call.addr) \in Nat
      BY <1>1, <1>2, AlignedIs
<1>4. Reach = call.length + r
      BY <1>2 DEF Reach
<1> QED BY <1>1, <1>2, <1>3, <1>4, EmulationAssumption DEF RealRange

LEMMA RangeStep == RangeInv /\ [EmulationNext]_emulationVars => RangeInv'
<1> SUFFICES ASSUME RangeInv, [EmulationNext]_emulationVars
             PROVE  RangeInv'
    OBVIOUS
<1>1. CASE UNCHANGED emulationVars
      BY <1>1 DEF emulationVars, RangeInv, Ranged, RealRange, OnMemory, RangeOK, TouchOK,
                  Reach
<1>2. CASE EmulationNext
  <2>1. UNCHANGED call /\ step # "idle"
        BY <1>2, CallStays
  <2>2. Ranged'
        BY <2>1 DEF RangeInv, Ranged, OnMemory
  <2> SUFFICES ASSUME RealRange PROVE RangeOK'
      BY <2>1, <2>2 DEF RangeInv, RealRange, OnMemory
  <2>3. RangeOK /\ Ranged /\ OnMemory
        BY DEF RangeInv, RealRange
  <2>4. Align \/ SystemCall \/ TouchPage \/ TouchDone
        BY <1>2, <2>3, OnlyRangeSteps
  <2>5. /\ call.addr \in Nat /\ call.length \in Nat /\ Reach \in Nat
        /\ Reach <= call.addr + call.length /\ Reach + Page <= SizeMod
        /\ AlignedAddress(call.addr) \in Nat
        /\ AlignedAddress(call.addr) + Reach = call.addr + call.length
        /\ Page \in Nat \ {0} /\ SizeMod \in Nat
        BY <2>3, RangeBounds
  <2>6. Reach' = Reach
        BY <2>1 DEF Reach
  <2>7. CASE Align
    <3>1. Reach % SizeMod = Reach
          BY <2>5
    <3>2. count' = RoundUp(Reach) /\ offset' = AlignedAddress(call.addr)
          BY <2>7, <3>1 DEF Align, AlignedLength, Reach
    <3>3. /\ count' \in Nat /\ count' % Page = 0
          /\ Reach <= count' /\ count' < Reach + Page
          BY <2>5, <3>2, RoundUpIs
    <3>4. offset' \in Nat /\ offset' % Page = 0
          BY <2>5, <3>2, AlignedIs
    <3>5. touched' = {} /\ touched = {}
          BY <2>3, <2>7 DEF Align, RangeOK
    <3>6. step' = IF call.fn = "mtouch" THEN "touching" ELSE "system"
          BY <2>7 DEF Align, GotoE
    <3> QED BY <2>1, <2>5, <2>6, <3>2, <3>3, <3>4, <3>5, <3>6 DEF RangeOK, TouchOK
  <2>8. CASE SystemCall
        BY <2>1, <2>3, <2>6, <2>8 DEF SystemCall, Return, GotoE, RangeOK
  <2>9. CASE TouchDone
        BY <2>1, <2>3, <2>6, <2>9 DEF TouchDone, Return, GotoE, RangeOK
  <2>10. CASE TouchPage
    <3>1. /\ step = "touching" /\ call.fn = "mtouch" /\ offset \in Nat /\ TouchOK
          /\ count \in Nat /\ count % Page = 0 /\ count > 0
          /\ Reach <= count /\ count < Reach + Page
          BY <2>3, <2>10 DEF TouchPage, RangeOK
    <3>2. /\ touched' = touched \cup {offset} /\ offset' = (offset + Page) % SizeMod
          /\ UNCHANGED <<call, step, count>>
          BY <2>10 DEF TouchPage
    <3>3. ASSUME offset < count
          PROVE  offset < call.addr + call.length /\ offset + Page < SizeMod
      <4>1. offset + Page <= count
            BY <2>5, <3>1, <3>3, MultipleLess DEF TouchOK
      <4> QED BY <2>5, <3>1, <4>1
    <3>4. ASSUME offset = AlignedAddress(call.addr)
          PROVE  offset <= call.addr /\ offset + Page < SizeMod
      <4>1. 0 + Page <= count
        <5>1. 0 % Page = 0
              BY <2>5
        <5> QED BY <2>5, <3>1, <5>1, MultipleLess
      <4>2. AlignedAddress(call.addr) <= call.addr
            BY <2>5, AlignedIs
      <4>3. call.addr + call.length + Page <= SizeMod
            BY <2>5 DEF RealRange
      <4> QED BY <2>5, <3>1, <3>4, <4>1, <4>2, <4>3
    <3>5. touched = {} \/ offset < count
          BY <2>10 DEF TouchPage
    <3>6. /\ offset <= call.addr \/ offset < call.addr + call.length
          /\ offset + Page < SizeMod
          BY <3>1, <3>3, <3>4, <3>5 DEF TouchOK
    <3>7. offset' = offset + Page
          BY <2>5, <3>1, <3>2, <3>6
    <3>8. offset' % Page = 0
          BY <2>5, <3>1, <3>7, MultipleAdd, SMTT(30) DEF TouchOK
    <3>9. offset' \in Nat /\ TouchOK'
          BY <2>1, <2>5, <3>1, <3>2, <3>7, <3>8 DEF TouchOK
    <3> QED BY <2>1, <2>3, <2>6, <3>1, <3>2, <3>9, <3>6 DEF RangeOK, TouchOK
  <2> QED BY <2>4, <2>7, <2>8, <2>9, <2>10
<1> QED BY <1>1, <1>2

\* Whole pages around the caller's range and no page more, for every size of
\* page and of address space; mtouch stays inside the range.
THEOREM WholePages == Spec => []RangeCovered
<1>1. ASSUME RangeInv, RealRange PROVE RangeCovered
  <2>1. RangeOK /\ Ranged
        BY <1>1 DEF RangeInv
  <2>2. /\ call.addr \in Nat /\ call.length \in Nat /\ Reach \in Nat
        /\ AlignedAddress(call.addr) \in Nat
        /\ AlignedAddress(call.addr) + Reach = call.addr + call.length
        /\ Page \in Nat \ {0}
        BY <1>1, <2>1, RangeBounds
  <2>3. /\ AlignedAddress(call.addr) % Page = 0 /\ AlignedAddress(call.addr) <= call.addr
        /\ call.addr < AlignedAddress(call.addr) + Page
        BY <2>2, AlignedIs
  <2>4. ASSUME call.fn # "mtouch", step \in {"system", "returned"}
        PROVE  /\ offset % Page = 0 /\ count % Page = 0
               /\ offset <= call.addr /\ call.addr + call.length <= offset + count
               /\ call.addr < offset + Page
               /\ offset + count < call.addr + call.length + Page
    <3>1. offset = AlignedAddress(call.addr) /\ count \in Nat /\ count % Page = 0
          /\ Reach <= count /\ count < Reach + Page
          BY <2>1, <2>4 DEF RangeOK
    <3> QED BY <2>2, <2>3, <3>1
  <2>5. ASSUME NEW a \in touched
        PROVE  /\ a % Page = 0 /\ call.addr < a + Page
               /\ a <= call.addr \/ a < call.addr + call.length
    <3>1. /\ a \in Nat /\ a % Page = 0 /\ AlignedAddress(call.addr) <= a
          /\ a <= call.addr \/ a < call.addr + call.length
          BY <2>1 DEF RangeOK
    <3> QED BY <2>2, <2>3, <3>1
  <2> QED BY <2>4, <2>5 DEF RangeCovered
<1>2. RangeInv => RangeCovered
      BY <1>1 DEF RangeCovered
<1> QED BY InitOfParts, NextOfParts, RangeInit, RangeStep, <1>2, PTL DEF Spec

-----------------------------------------------------------------------------
(***************************************************************************)
(* Flags.                                                                  *)
(***************************************************************************)
Apart(p, q) == p % (2 * q) = 0 \/ q % (2 * p) = 0

LEMMA MultipleAtLeast ==
  ASSUME NEW p \in Nat \ {0}, NEW x \in Nat \ {0}, x % p = 0
  PROVE  p <= x
<1>1. 0 % p = 0 /\ 0 \in Nat
      OBVIOUS
<1>2. 0 + p <= x
      BY <1>1, MultipleLess
<1> QED BY <1>2

LEMMA ApartOrder ==
  ASSUME NEW p \in Nat \ {0}, NEW q \in Nat \ {0}, Apart(p, q)
  PROVE  2 * q <= p \/ 2 * p <= q
<1>1. 2 * q \in Nat \ {0} /\ 2 * p \in Nat \ {0}
      OBVIOUS
<1> QED BY <1>1, MultipleAtLeast DEF Apart

\* Seen from the bit p another bit is an even multiple or less than p.
LEMMA SplitAt ==
  ASSUME NEW p \in Nat \ {0}, NEW q \in Nat \ {0}, Apart(p, q), NEW y \in {0, q}
  PROVE  \E k, s \in Nat : /\ y = 2 * k * p + s
                           /\ s = 0 \/ (s = q /\ 2 * q <= p)
<1>1. CASE y = 0
  <2>1. y = 2 * 0 * p + 0
        BY <1>1
  <2> QED BY <2>1
<1>2. CASE y = q /\ q % (2 * p) = 0
  <2>1. PICK k \in Nat, r \in 0 .. 2 * p - 1 :
          k = q \div (2 * p) /\ r = q % (2 * p) /\ q = k * (2 * p) + r
        BY Quotient, 2 * p \in Nat \ {0}
  <2>2. r = 0
        BY <1>2, <2>1
  <2>3. y = k * (2 * p)
        BY <1>2, <2>1, <2>2
  <2>4. k * (2 * p) = 2 * k * p + 0
        OBVIOUS
  <2> QED BY <2>3, <2>4
<1>3. CASE y = q /\ p % (2 * q) = 0
  <2>1. 2 * q <= p
        BY <1>3, MultipleAtLeast, 2 * q \in Nat \ {0}
  <2>2. y = 2 * 0 * p + q
        BY <1>3
  <2> QED BY <2>1, <2>2
<1> QED BY <1>1, <1>2, <1>3 DEF Apart

LEMMA BitAt ==
  ASSUME NEW p \in Nat \ {0}, NEW b \in {0, 1}, NEW k \in Nat, NEW s \in 0 .. p - 1
  PROVE  HasFlag((2 * k + b) * p + s, p) <=> b = 1
<1>1. ((2 * k + b) * p + s) \div p = 2 * k + b
      BY MultipleMod, 2 * k + b \in Nat
<1>2. (2 * k + b) % 2 = b
      OBVIOUS
<1> QED BY <1>1, <1>2 DEF HasFlag

\* In a sum of bits each is there exactly if it was put in.
LEMMA BitOfSum ==
  ASSUME NEW p \in Nat \ {0}, NEW q \in Nat \ {0}, NEW r \in Nat \ {0},
         Apart(p, q), Apart(p, r), Apart(q, r),
         NEW x \in {0, p}, NEW y \in {0, q}, NEW z \in {0, r}
  PROVE  HasFlag(x + y + z, p) <=> x = p
<1>1. PICK k, s \in Nat : y = 2 * k * p + s /\ (s = 0 \/ (s = q /\ 2 * q <= p))
      BY SplitAt
<1>2. PICK l, t \in Nat : z = 2 * l * p + t /\ (t = 0 \/ (t = r /\ 2 * r <= p))
      BY SplitAt
<1>3. s + t \in 0 .. p - 1
      BY <1>1, <1>2, ApartOrder
<1>4. PICK b \in {0, 1} : x = b * p /\ (x = p <=> b = 1)
  <2>1. CASE x = 0 BY <2>1
  <2>2. CASE x = p BY <2>2
  <2> QED BY <2>1, <2>2
<1>5. PICK m \in Nat : m = k + l
      OBVIOUS
<1>6. x + y + z = (2 * m + b) * p + (s + t)
      BY <1>1, <1>2, <1>4, <1>5
<1>7. HasFlag((2 * m + b) * p + (s + t), p) <=> b = 1
      BY <1>3, BitAt
<1> QED BY <1>4, <1>6, <1>7

\* The flags go to the system call translated, of the call that was made.
FlagInv ==
  /\ WithFlags => call.sys \in SystemFlags
  /\ step = "system" => \/ call.fn = "mlock"
                        \/ /\ WithFlags
                           /\ passed = Translated(call.fn, call.flags, call.sys)

LEMMA FlagInit == EmulationInit \/ EmulationIdle => FlagInv
<1>1. ASSUME EmulationInit, WithFlags PROVE call.sys \in SystemFlags
      BY <1>1 DEF EmulationInit, Calls, WithFlags
<1>2. ASSUME EmulationIdle PROVE ~WithFlags
      BY <1>2 DEF EmulationIdle, WithFlags
<1>3. EmulationInit \/ EmulationIdle => step # "system"
      BY DEF EmulationInit, EmulationIdle
<1> QED BY <1>1, <1>2, <1>3 DEF FlagInv

LEMMA FlagStep == FlagInv /\ [EmulationNext]_emulationVars => FlagInv'
<1> SUFFICES ASSUME FlagInv, [EmulationNext]_emulationVars
             PROVE  FlagInv'
    OBVIOUS
<1>1. CASE UNCHANGED emulationVars
      BY <1>1 DEF emulationVars, FlagInv, WithFlags
<1>2. CASE EmulationNext
  <2>1. UNCHANGED call /\ (WithFlags' => call'.sys \in SystemFlags)
        BY <1>2, CallStays DEF FlagInv, WithFlags
  <2>2. CASE Align
    <3>1. step' = "system" => call.fn \in {"mlock", "msync"}
          BY <2>2 DEF Align, OnMemory, GotoE
    <3>2. passed' = TranslatedFlags
          BY <2>2 DEF Align
    <3> QED BY <2>1, <3>1, <3>2 DEF FlagInv, WithFlags, TranslatedFlags
  <2>3. CASE PassFlags
        BY <2>1, <2>3 DEF PassFlags, FlagInv, WithFlags, TranslatedFlags
  <2>4. CASE ~Align /\ ~PassFlags
    <3>1. step' # "system"
          BY <1>2, <2>4
             DEF EmulationNext, NoBuffer, Called, Readahead, ReadPiece, ReadaheadDone,
                 NothingToSend, NativeSendsNothing, NativeUnsuitable, Emulate, SendDone,
                 PreadEnds, WriteEnds, NativeSends, Pread, Write, SystemCall, Fdatasync,
                 TouchPage, TouchDone, Return, GotoE
    <3> QED BY <2>1, <3>1 DEF FlagInv
  <2> QED BY <2>2, <2>3, <2>4
<1> QED BY <1>1, <1>2

\* Which bits the translated flags have, for all the calls with flags.
LEMMA TranslatedIs ==
  ASSUME NEW fn \in {"msync", "sync_file_range", "mlockall"}, NEW given,
         NEW sys \in SystemFlags,
         NEW i \in IF fn = "mlockall" THEN 1 .. 2 ELSE 1 .. 3
  PROVE  HasFlag(Translated(fn, given, sys), sys[i]) <=> HasFlag(given, EioFlags[i])
<1>1. /\ sys[1] \in Nat \ {0} /\ sys[2] \in Nat \ {0} /\ sys[3] \in Nat \ {0}
      /\ Apart(sys[1], sys[2]) /\ Apart(sys[1], sys[3]) /\ Apart(sys[2], sys[3])
      /\ Apart(sys[2], sys[1]) /\ Apart(sys[3], sys[1]) /\ Apart(sys[3], sys[2])
      BY SystemFlagsAssumption DEF Apart
<1>2. CASE ~Differs(fn, sys)
  <2>1. fn # "msync"
        BY <1>2, <1>1 DEF Differs, EioFlags
  <2>2. sys[i] = EioFlags[i]
        BY <1>2, <2>1 DEF Differs, EioFlags
  <2> QED BY <1>2, <2>2 DEF Translated
<1>3. CASE Differs(fn, sys)
  <2> DEFINE third == IF fn = "mlockall" THEN 0 ELSE FlagOf(given, 3, sys)
  <2>1. PICK x \in {0, sys[1]}, y \in {0, sys[2]}, z \in {0, sys[3]} :
          /\ x = FlagOf(given, 1, sys) /\ y = FlagOf(given, 2, sys) /\ z = third
        BY DEF FlagOf
  <2>2. /\ x = sys[1] <=> HasFlag(given, EioFlags[1])
        /\ y = sys[2] <=> HasFlag(given, EioFlags[2])
        /\ fn # "mlockall" => (z = sys[3] <=> HasFlag(given, EioFlags[3]))
        BY <1>1, <2>1 DEF FlagOf
  <2>3. Translated(fn, given, sys) = x + y + z
        BY <1>3, <2>1 DEF Translated
  <2>4. x + y + z = y + x + z /\ x + y + z = z + x + y
        BY <1>1
  <2>5. CASE i = 1
    <3>1. HasFlag(x + y + z, sys[1]) <=> x = sys[1]
          BY <1>1, BitOfSum
    <3> QED BY <2>2, <2>3, <2>5, <3>1
  <2>6. CASE i = 2
    <3>1. HasFlag(y + x + z, sys[2]) <=> y = sys[2]
          BY <1>1, BitOfSum
    <3> QED BY <2>2, <2>3, <2>4, <2>6, <3>1
  <2>7. CASE i = 3 /\ fn # "mlockall"
    <3>1. HasFlag(z + x + y, sys[3]) <=> z = sys[3]
          BY <1>1, BitOfSum, ZenonT(60)
    <3> QED BY <2>2, <2>3, <2>4, <2>7, <3>1
  <2> QED BY <2>5, <2>6, <2>7
<1> QED BY <1>2, <1>3

\* Whatever bits the system uses for its flags, the system call gets a flag
\* exactly if the caller gave it.
THEOREM FlagsTranslated == Spec => []FlagsKept
<1>1. ASSUME FlagInv, step = "system",
             NEW i \in IF call.fn = "mlock" THEN {}
                       ELSE IF call.fn = "mlockall" THEN 1 .. 2 ELSE 1 .. 3
      PROVE  HasFlag(passed, call.sys[i]) <=> HasFlag(call.flags, EioFlags[i])
  <2>1. /\ call.fn \in {"msync", "sync_file_range", "mlockall"}
        /\ call.sys \in SystemFlags
        /\ passed = Translated(call.fn, call.flags, call.sys)
        /\ i \in IF call.fn = "mlockall" THEN 1 .. 2 ELSE 1 .. 3
        BY <1>1 DEF FlagInv, WithFlags
  <2> QED BY <2>1, TranslatedIs
<1>2. FlagInv => FlagsKept
      BY <1>1 DEF FlagsKept
<1> QED BY InitOfParts, NextOfParts, FlagInit, FlagStep, <1>2, PTL DEF Spec

-----------------------------------------------------------------------------
(***************************************************************************)
(* The invariant of eio__scandir.                                          *)
(***************************************************************************)
InEntry == at \in {"name", "nameMoved", "dent", "dentMoved"}
Reading == at \in {"read", "cancelTest"} \/ InEntry

\* The entries that have been put into the arrays
Put == {e \in seen : e.dots # "self"} \ (IF InEntry THEN {entp} ELSE {})

SortFlags == {"statOrder", "dirsFirst"} \cap flags

ScandirTypes ==
  /\ at \in {"idle", "open", "read", "name", "nameMoved", "dent", "dentMoved",
             "cancelTest", "sort", "end", "returned", "crashed"}
  /\ directory \in Directories \/ (at = "idle" /\ directory = {})
  /\ seen \subseteq directory
  /\ InEntry => entp \in seen /\ entp.dots # "self"
  /\ dentoffs \in Nat /\ namesoffs \in Nat /\ inode_bits \subseteq 0 .. InoBits - 1
  /\ at \in {"idle", "open"} => seen = {}
  /\ at = "open" => ptr1 = Null /\ namesoffs = 0 /\ "foundUnknown" \notin flags

\* The blocks: each array is one, until realloc has moved it.
NamesBlocks == {"names"} \X Nat
DentsBlocks == {"dents"} \X Nat

Blocks ==
  /\ ptr1 \in DentsBlocks \cup {Null} /\ ptr2 \in NamesBlocks \cup {Null}
  /\ heap \subseteq NamesBlocks \cup DentsBlocks
  /\ wrklocked <=> at \in {"nameMoved", "dentMoved"}
  /\ at # "dentMoved" => ptr1 = Null \/ ptr1 \in heap
  /\ at # "nameMoved" => ptr2 = Null \/ ptr2 \in heap
  /\ at \in {"dent", "dentMoved"} => ptr1 # Null
  /\ at \in {"nameMoved", "dent", "dentMoved"} => ptr2 # Null
  /\ ptr1 # Null => Len(dents) <= Size(ptr1)
  /\ ptr2 # Null => namesoffs <= Size(ptr2)
  /\ at \in {"dent", "dentMoved"} => NameFits
  /\ at = "nameMoved" =>
       /\ moved \in NamesBlocks \cup {Null}
       /\ moved # Null => moved \in heap /\ Size(moved) >= Size(ptr2)
       /\ \A block \in heap : block[1] = "names" => moved \in {block, Null}
  /\ at = "dentMoved" =>
       /\ moved \in DentsBlocks \cup {Null}
       /\ moved # Null => moved \in heap /\ Size(moved) >= Size(ptr1)
       /\ \A block \in heap : block[1] = "dents" => moved \in {block, Null}
  /\ at # "dentMoved" => \A block \in heap : block[1] = "dents" => ptr1 \in {block, Null}
  /\ at # "nameMoved" => \A block \in heap : block[1] = "names" => ptr2 \in {block, Null}

\* An element stands for an entry.
Describes(d, e) == /\ d.id = e.id /\ d.inode = e.inode /\ d.namelen = e.len
                   /\ d.type = e.type /\ d.score = Score(e)

\* The process has not ended, nor the function without a result.
Going == at # "crashed" /\ (at \in {"end", "returned"} => result # -1)

Contents ==
  Going =>
    /\ dentoffs = Cardinality(Put)
    /\ ptr1 = Null => dents = <<>>
    /\ ptr1 # Null =>
         /\ Len(dents) = dentoffs
         /\ \A x \in DOMAIN Array : \E e \in Put : Describes(Array[x], e)
         /\ \A e \in Put : \E x \in DOMAIN Array : Array[x].id = e.id
         /\ \A x \in DOMAIN Array : Array[x].nameofs + Array[x].namelen < namesoffs
         /\ \A x, y \in DOMAIN Array : x # y => ~Overlap(Array[x], Array[y])
         /\ "foundUnknown" \in flags <=> \E e \in Put : e.type = "unknown"
         /\ \A x \in DOMAIN Array : BitsOf(Array[x].inode) \subseteq inode_bits

\* Where the function is, and whether it has a result
Phases ==
  /\ Reading => result = -1 /\ (flags # {} => ptr1 # Null)
  /\ SortFlags # {} => "dents" \in flags \/ at = "open"
  /\ (at \in {"end", "returned"} /\ result # -1) \/ at = "sort" =>
       /\ result = dentoffs /\ int1 = flags /\ seen = directory
       /\ flags # {} => ptr1 # Null
       /\ at = "sort" => SortFlags # {}
       /\ SortFlags = {} \/ loop # "none"
       /\ at # "sort" => loop \in {"none", "sorted"}
  /\ at \notin {"sort", "end", "returned"} => loop = "none"
  /\ at \in {"end", "returned"} /\ result = -1 => loop = "none"

\* What is sorted, and by what
SortedPart ==
  loop # "none" =>
    IF {"statOrder", "foundUnknown"} \cap flags # {}
      THEN loop # "dirs" /\ size = Len(dents)
      ELSE /\ "dirsFirst" \in flags
           /\ loop # "dirs" => \A x \in DOMAIN Array : Array[x].type = "dir" <=> x <= size

ScandirInv == /\ ScandirTypes /\ Blocks /\ Contents /\ Phases /\ SortedPart /\ SortInv

-----------------------------------------------------------------------------
(***************************************************************************)
(* The steps of eio__scandir.  All but SortStep and ReadEnd leave the sort *)
(* alone, and all but SortStep and PutDent the array.                      *)
(***************************************************************************)
\* The entries of the directory that is read.
LEMMA EntryFacts ==
  ASSUME ScandirTypes, at # "idle"
  PROVE  /\ directory \in Directories /\ IsFiniteSet(directory)
         /\ \A e \in directory : e.inode \in Inodes /\ e.len \in Nat \ {0}
         /\ \A e, f \in directory : e.id = f.id => e = f
BY DirAssumption DEF ScandirTypes, Inodes

\* Outside of the function no step is taken.
LEMMA NotIdle == ScandirNext => at \notin {"idle", "returned", "crashed"}
BY DEF ScandirNext, Open, Read, ReadError, GrowNames, NamesMoved, Crash, PutName,
       GrowDents, DentsMoved, PutDent, CancelTest, ReadEnd, SortStep, Sorted, CloseDir,
       CancelScandir

\* Only entries of the directory are ever in the worker's hands.
LEMMA ScandirTypesStep == ScandirInv /\ ScandirNext => ScandirTypes'
<1> SUFFICES ASSUME ScandirInv, ScandirNext PROVE ScandirTypes'
  OBVIOUS
<1>0. /\ ScandirTypes /\ at # "idle" /\ directory \in Directories
      /\ \A e \in directory : e.inode \in Inodes /\ e.len \in Nat \ {0}
      /\ at \in {"name", "dent"} => entp.len + 1 \in Nat
      /\ ptr1 # Null => at # "open"
  <2>1. ScandirTypes /\ at # "idle"
    BY NotIdle DEF ScandirInv
  <2> QED BY <2>1, EntryFacts DEF ScandirTypes, InEntry
<1>1. CASE Open
  BY <1>0, <1>1 DEF Open, ScandirTypes, InEntry, GotoS, contentVars
<1>2. CASE \E e \in directory : Read(e)
  <2>1. PICK e \in directory : Read(e)
    BY <1>2
  <2> QED
    BY <1>0, <2>1 DEF Read, Skipped, ScandirTypes, InEntry, GotoS, contentVars
<1>3. CASE ReadError \/ CancelTest \/ Sorted
  BY <1>0, <1>3 DEF ReadError, CancelTest, Sorted, ScandirTypes, InEntry, GotoS, contentVars
<1>4. CASE GrowNames \/ NamesMoved \/ Crash
  BY <1>0, <1>4 DEF GrowNames, NamesMoved, Crash, ScandirTypes, InEntry, GotoS, contentVars
<1>5. CASE PutName
  BY <1>0, <1>5 DEF PutName, NameSize, ScandirTypes, InEntry, GotoS
<1>6. CASE GrowDents \/ DentsMoved
  BY <1>0, <1>6 DEF GrowDents, DentsMoved, ScandirTypes, InEntry, GotoS, contentVars
<1>7. CASE PutDent
  <2>1. BitsOf(entp.inode) \subseteq 0 .. InoBits - 1
    BY DEF BitsOf
  <2>2. /\ inode_bits' \subseteq 0 .. InoBits - 1
        /\ namesoffs' \in Nat /\ dentoffs' \in Nat
        /\ at' = "cancelTest" /\ UNCHANGED <<directory, seen>>
    <3>1. /\ at = "dent" /\ inode_bits' = inode_bits \cup BitsOf(entp.inode)
          /\ namesoffs' = namesoffs + (entp.len + 1) /\ dentoffs' = dentoffs + 1
          /\ at' = "cancelTest" /\ UNCHANGED <<directory, seen>>
      BY <1>7 DEF PutDent, NameSize, GotoS
    <3>2. namesoffs \in Nat /\ dentoffs \in Nat /\ inode_bits \subseteq 0 .. InoBits - 1
          /\ entp.len + 1 \in Nat
      BY <1>0, <3>1 DEF ScandirTypes
    <3>3. namesoffs' \in Nat /\ dentoffs' \in Nat
      BY <3>1, <3>2
    <3>4. inode_bits' \subseteq 0 .. InoBits - 1
      BY <2>1, <3>1, <3>2
    <3> QED BY <3>1, <3>3, <3>4
  <2> QED BY <1>0, <2>2 DEF ScandirTypes, InEntry
<1>8. CASE ReadEnd
  BY <1>0, <1>8 DEF ReadEnd, ScandirTypes, InEntry, GotoS
<1>9. CASE SortStep
  BY <1>0, <1>9 DEF SortStep, ScandirTypes, InEntry, placeVars, bufferVars
<1>10. CASE CloseDir \/ CancelScandir
  BY <1>0, <1>10 DEF CloseDir, CancelScandir, ScandirTypes, InEntry, GotoS, contentVars, placeVars,
         bufferVars
<1> QED
  BY <1>1, <1>2, <1>3, <1>4, <1>5, <1>6, <1>7, <1>8, <1>9, <1>10 DEF ScandirNext

-----------------------------------------------------------------------------
(***************************************************************************)
(* The blocks.                                                             *)
(***************************************************************************)
\* A block is not null, and has a kind and a size.
LEMMA BlockFacts ==
  /\ \A b \in NamesBlocks : b # Null /\ b[1] = "names" /\ Size(b) \in Nat
  /\ \A b \in DentsBlocks : b # Null /\ b[1] = "dents" /\ Size(b) \in Nat
  /\ \A n \in Nat : /\ <<"names", n>> \in NamesBlocks /\ Size(<<"names", n>>) = n
                    /\ <<"dents", n>> \in DentsBlocks /\ Size(<<"dents", n>>) = n
BY DirAssumption DEF NamesBlocks, DentsBlocks, Size

\* malloc returns a block of the size asked for, or null.
LEMMA AllocatedFacts ==
  ASSUME NEW n \in Nat
  PROVE  /\ \A b \in Allocated("names", n) : b = Null \/ (b \in NamesBlocks /\ Size(b) = n)
         /\ \A b \in Allocated("dents", n) : b = Null \/ (b \in DentsBlocks /\ Size(b) = n)
<1>1. /\ \A b \in Allocated("names", n) : b = Null \/ b = <<"names", n>>
      /\ \A b \in Allocated("dents", n) : b = Null \/ b = <<"dents", n>>
  BY DEF Allocated
<1> QED
  BY <1>1, BlockFacts

\* What is allocated when neither pointer is being moved
Owned ==
  /\ ptr1 \in DentsBlocks \cup {Null} /\ ptr2 \in NamesBlocks \cup {Null}
  /\ heap \subseteq NamesBlocks \cup DentsBlocks
  /\ ptr1 = Null \/ ptr1 \in heap
  /\ ptr2 = Null \/ ptr2 \in heap
  /\ ptr1 # Null => Len(dents) <= Size(ptr1)
  /\ ptr2 # Null => namesoffs <= Size(ptr2)
  /\ \A block \in heap : block[1] = "dents" => ptr1 \in {block, Null}
  /\ \A block \in heap : block[1] = "names" => ptr2 \in {block, Null}

\* Unless realloc has moved an array and it has not been assigned yet, the request
\* owns both.
LEMMA BlocksOwned ==
  /\ Blocks /\ ~wrklocked => Owned
  /\ Blocks /\ at \notin {"nameMoved", "dentMoved"} => Owned /\ ~wrklocked
BY DEF Blocks, Owned

\* Each allocation and each realloc leaves the request with its blocks, or leaves
\* wrklock held until it does.
LEMMA BlocksStep == ScandirInv /\ ScandirNext => Blocks'
<1> SUFFICES ASSUME ScandirInv, ScandirNext PROVE Blocks'
  OBVIOUS
<1>0. /\ ScandirTypes /\ Blocks /\ at # "idle" /\ dents \in Seq(Dent) /\ namesoffs \in Nat
      /\ at \in {"name", "dent"} => entp.len \in Nat
  <2>1. ScandirTypes /\ Blocks /\ at # "idle" /\ dents \in Seq(Dent) /\ namesoffs \in Nat
    BY NotIdle DEF ScandirInv, SortInv, SortTypes, ScandirTypes
  <2> QED BY <2>1, EntryFacts DEF ScandirTypes, InEntry
<1>1. CASE Open
  <2>1. dents = <<>> /\ Len(dents) = 0 /\ namesoffs = 0 /\ wrklocked = FALSE
    BY <1>0, <1>1 DEF Open, ScandirInv, Contents, Going, Blocks, ScandirTypes
  <2>2. PICK opened \in BOOLEAN, names \in Allocated("names", NamesAlloc),
             entries \in IF Usable(flags) = {} THEN {Null} ELSE Allocated("dents", DentAlloc) :
          /\ ptr1' = entries /\ ptr2' = names
          /\ heap' = {entries, names} \ {Null}
    BY <1>1 DEF Open
  <2>3. /\ names \in NamesBlocks \cup {Null} /\ entries \in DentsBlocks \cup {Null}
        /\ names # Null => Size(names) \in Nat
        /\ entries # Null => Size(entries) \in Nat
    <3>1. NamesAlloc \in Nat /\ DentAlloc \in Nat
      BY DirAssumption
    <3>2. entries = Null \/ entries \in Allocated("dents", DentAlloc)
      BY <2>2
    <3> QED BY <2>2, <3>1, <3>2, AllocatedFacts
  <2>4. at' \in {"read", "end"} /\ UNCHANGED <<dents, namesoffs, wrklocked>>
    BY <1>1 DEF Open, GotoS, contentVars
  <2>5. ptr1' \in DentsBlocks \cup {Null} /\ ptr2' \in NamesBlocks \cup {Null}
        /\ heap' = {ptr1', ptr2'} \ {Null}
    BY <2>2, <2>3
  <2>6. heap' \subseteq NamesBlocks \cup DentsBlocks
    BY <2>5
  <2>7. /\ \A block \in heap' : block[1] = "dents" => ptr1' \in {block, Null}
        /\ \A block \in heap' : block[1] = "names" => ptr2' \in {block, Null}
    BY <2>5, BlockFacts
  <2> QED BY <2>1, <2>2, <2>3, <2>4, <2>5, <2>6, <2>7 DEF Blocks
<1>2. CASE \/ ReadError \/ CancelTest \/ Sorted \/ Crash \/ CloseDir \/ ReadEnd
           \/ \E e \in directory : Read(e)
  <2>1. /\ at \in {"read", "cancelTest", "sort", "name", "end"}
        /\ at' \in {"read", "cancelTest", "sort", "name", "end", "crashed", "returned"}
        /\ UNCHANGED <<ptr1, ptr2, heap, moved, wrklocked, dents, namesoffs>>
    BY <1>2 DEF ReadError, CancelTest, Sorted, Crash, CloseDir, ReadEnd, Read, GotoS, bufferVars,
       contentVars
  <2> QED BY <1>0, <2>1 DEF Blocks
<1>3. CASE CancelScandir
  <2>1. UNCHANGED <<at, ptr1, ptr2, heap, moved, wrklocked, dents, namesoffs, entp>>
    BY <1>3 DEF CancelScandir, placeVars, bufferVars, contentVars
  <2> QED BY <1>0, <2>1 DEF Blocks, NameFits, NameSize
<1>4. CASE SortStep
  <2>1. /\ at = "sort" /\ at' = "sort" /\ UNCHANGED <<ptr1, ptr2, heap, moved, wrklocked, namesoffs>>
        /\ SortNext /\ SortInv
    BY <1>4 DEF SortStep, placeVars, bufferVars, ScandirInv
  <2>2. Len(dents') = Len(dents)
    BY <2>1, ArrayStep
  <2> QED BY <1>0, <2>1, <2>2 DEF Blocks
<1>5. CASE GrowNames
  <2>1. PICK new \in Allocated("names", 2 * Size(ptr2)) : Realloc("names", ptr2, new)
    BY <1>5 DEF GrowNames
  <2>2. /\ at = "name" /\ at' = "nameMoved" /\ wrklocked' = TRUE /\ ptr2 # Null
        /\ UNCHANGED <<ptr1, ptr2, dents, namesoffs>>
    BY <1>5 DEF GrowNames, GotoS, contentVars
  <2>3. Owned
    BY <1>0, <2>2, BlocksOwned
  <2>4. /\ new \in NamesBlocks \cup {Null} /\ Size(ptr2) \in Nat
        /\ new # Null => Size(new) = 2 * Size(ptr2)
    <3>1. Size(ptr2) \in Nat
      BY <2>2, <2>3, BlockFacts DEF Owned
    <3>2. 2 * Size(ptr2) \in Nat
      BY <3>1
    <3> QED BY <2>1, <3>1, <3>2, AllocatedFacts
  <2>5. /\ moved' = new
        /\ heap' = IF new = Null THEN heap ELSE (heap \ {ptr2}) \cup {new}
    BY <2>1 DEF Realloc
  <2>6. heap' \subseteq NamesBlocks \cup DentsBlocks
    BY <2>3, <2>4, <2>5 DEF Owned
  <2>7. ptr1' = Null \/ ptr1' \in heap'
    BY <2>2, <2>3, <2>5, BlockFacts DEF Owned
  <2>8. \A block \in heap' : block[1] = "dents" => ptr1' \in {block, Null}
    BY <2>2, <2>3, <2>4, <2>5, BlockFacts DEF Owned
  <2>9. moved' # Null => moved' \in heap' /\ Size(moved') >= Size(ptr2')
    BY <2>2, <2>4, <2>5
  <2>10. \A block \in heap' : block[1] = "names" => moved' \in {block, Null}
    BY <2>3, <2>4, <2>5, <2>2 DEF Owned
  <2> QED
    BY <2>2, <2>3, <2>4, <2>5, <2>6, <2>7, <2>8, <2>9, <2>10 DEF Blocks, Owned
<1>6. CASE GrowDents
  <2>1. PICK new \in Allocated("dents", 2 * Size(ptr1)) : Realloc("dents", ptr1, new)
    BY <1>6 DEF GrowDents
  <2>2. /\ at = "dent" /\ at' = "dentMoved" /\ wrklocked' = TRUE /\ ptr1 # Null /\ ptr2 # Null
        /\ UNCHANGED <<ptr1, ptr2, dents, namesoffs, entp>> /\ NameFits'
    BY <1>0, <1>6 DEF GrowDents, GotoS, contentVars, Blocks, NameFits, NameSize
  <2>3. Owned
    BY <1>0, <2>2, BlocksOwned
  <2>4. /\ new \in DentsBlocks \cup {Null} /\ Size(ptr1) \in Nat
        /\ new # Null => Size(new) = 2 * Size(ptr1)
    <3>1. Size(ptr1) \in Nat
      BY <2>2, <2>3, BlockFacts DEF Owned
    <3>2. 2 * Size(ptr1) \in Nat
      BY <3>1
    <3> QED BY <2>1, <3>1, <3>2, AllocatedFacts
  <2>5. /\ moved' = new
        /\ heap' = IF new = Null THEN heap ELSE (heap \ {ptr1}) \cup {new}
    BY <2>1 DEF Realloc
  <2>6. heap' \subseteq NamesBlocks \cup DentsBlocks
    BY <2>3, <2>4, <2>5 DEF Owned
  <2>7. ptr2' = Null \/ ptr2' \in heap'
    BY <2>2, <2>3, <2>5, BlockFacts DEF Owned
  <2>8. \A block \in heap' : block[1] = "names" => ptr2' \in {block, Null}
    BY <2>2, <2>3, <2>4, <2>5, BlockFacts DEF Owned
  <2>9. moved' # Null => moved' \in heap' /\ Size(moved') >= Size(ptr1')
    BY <2>2, <2>4, <2>5
  <2>10. \A block \in heap' : block[1] = "dents" => moved' \in {block, Null}
    BY <2>3, <2>4, <2>5, <2>2 DEF Owned
  <2> QED
    BY <2>2, <2>3, <2>4, <2>5, <2>6, <2>7, <2>8, <2>9, <2>10 DEF Blocks, Owned
<1>7. CASE NamesMoved
  <2>1. /\ at = "nameMoved" /\ at' = "name" /\ ptr2' = moved /\ wrklocked' = FALSE
        /\ UNCHANGED <<ptr1, heap, dents, namesoffs>>
    BY <1>7 DEF NamesMoved, GotoS, contentVars
  <2>2. moved # Null => namesoffs <= Size(moved)
    <3>1. moved # Null => /\ Size(moved) >= Size(ptr2) /\ Size(moved) \in Nat /\ Size(ptr2) \in Nat
                          /\ namesoffs <= Size(ptr2)
      BY <1>0, <2>1, BlockFacts DEF Blocks
    <3> QED BY <1>0, <3>1
  <2> QED BY <1>0, <2>1, <2>2 DEF Blocks
<1>8. CASE DentsMoved
  <2>1. /\ at = "dentMoved" /\ at' \in {"end", "dent"} /\ ptr1' = moved /\ wrklocked' = FALSE
        /\ at' = "dent" => moved # Null
        /\ UNCHANGED <<ptr2, heap, dents, namesoffs, entp>>
    BY <1>8 DEF DentsMoved, GotoS, contentVars
  <2>2. moved # Null => Len(dents) <= Size(moved)
    <3>1. moved # Null => /\ Size(moved) >= Size(ptr1) /\ Size(moved) \in Nat /\ Size(ptr1) \in Nat
                          /\ Len(dents) <= Size(ptr1)
      BY <1>0, <2>1, BlockFacts DEF Blocks
    <3> QED BY <1>0, <3>1
  <2>3. at' = "dent" => NameFits'
    BY <1>0, <2>1 DEF Blocks, NameFits, NameSize
  <2> QED BY <1>0, <2>1, <2>2, <2>3 DEF Blocks
<1>9. CASE PutName
  <2>1. /\ at = "name" /\ ptr2 # Null /\ NameFits /\ at' \in {"cancelTest", "dent"}
        /\ at' = "dent" => ptr1 # Null /\ namesoffs' = namesoffs
        /\ namesoffs' \in {namesoffs, namesoffs + NameSize}
        /\ UNCHANGED <<ptr1, ptr2, heap, moved, wrklocked, dents, entp>>
    BY <1>9 DEF PutName, GotoS, bufferVars
  <2>2. namesoffs' <= Size(ptr2)
    BY <1>0, <2>1 DEF NameFits, NameSize, Blocks
  <2> QED BY <1>0, <2>1, <2>2 DEF Blocks, NameFits, NameSize
<1>10. CASE PutDent
  <2>1. /\ at = "dent" /\ DentFits /\ at' = "cancelTest"
        /\ namesoffs' = namesoffs + NameSize /\ Len(dents') = Len(dents) + 1
        /\ UNCHANGED <<ptr1, ptr2, heap, moved, wrklocked>>
    BY <1>0, <1>10 DEF PutDent, GotoS, bufferVars
  <2>2. namesoffs' <= Size(ptr2) /\ Len(dents') <= Size(ptr1)
    <3>1. NameFits /\ ptr1 # Null /\ ptr1 \in DentsBlocks
      BY <1>0, <2>1 DEF Blocks
    <3>2. Size(ptr1) \in Nat
      BY <3>1, BlockFacts
    <3> QED BY <1>0, <2>1, <3>1, <3>2 DEF NameFits, DentFits
  <2> QED BY <1>0, <2>1, <2>2 DEF Blocks
<1> QED
  BY <1>1, <1>2, <1>3, <1>4, <1>5, <1>6, <1>7, <1>8, <1>9, <1>10 DEF ScandirNext

-----------------------------------------------------------------------------
(***************************************************************************)
(* Where the function is.                                                  *)
(***************************************************************************)
\* eio.c:1247: without entries nothing is sorted.
LEMMA UsableFlags ==
  /\ {"statOrder", "dirsFirst"} \cap Usable(flags) # {} => "dents" \in Usable(flags)
  /\ "foundUnknown" \notin flags => "foundUnknown" \notin Usable(flags)
BY DEF Usable

\* A result, and the flags of the result, are there from the end of the reading on.
LEMMA PhasesStep == ScandirInv /\ ScandirNext => Phases'
<1> SUFFICES ASSUME ScandirInv, ScandirNext PROVE Phases'
  OBVIOUS
<1>0. /\ ScandirTypes /\ Phases /\ at # "idle" /\ dentoffs \in Nat
      /\ at = "dent" => ptr1 # Null
      /\ at # "sort" => loop \in {"none", "sorted"}
  BY NotIdle DEF ScandirInv, ScandirTypes, Phases, Blocks
<1>1. CASE Open
  <2>1. /\ result' = -1 /\ flags' = Usable(flags) /\ at' \in {"read", "end"}
        /\ at' = "read" => Usable(flags) = {} \/ ptr1' # Null
        /\ at = "open" /\ loop' = loop
    BY <1>1 DEF Open, GotoS, contentVars, sortVars
  <2>2. SortFlags' # {} => "dents" \in flags'
    BY <2>1, UsableFlags DEF SortFlags
  <2> QED BY <1>0, <2>1, <2>2 DEF Phases, Reading, InEntry
<1>2. CASE \/ ReadError \/ CancelTest \/ Crash \/ \E e \in directory : Read(e)
  <2>1. /\ Reading /\ at # "open"
        /\ at' \in {"read", "cancelTest", "name", "end", "crashed"}
        /\ UNCHANGED <<ptr1, flags, result, loop>>
    BY <1>2 DEF ReadError, CancelTest, Crash, Read, GotoS, bufferVars, contentVars, sortVars,
       reqResult, Reading, InEntry
  <2> QED BY <1>0, <2>1 DEF Phases, Reading, InEntry, SortFlags
<1>3. CASE \/ GrowNames \/ NamesMoved \/ PutName \/ GrowDents
  <2>1. /\ Reading /\ at # "open"
        /\ at' \in {"name", "nameMoved", "cancelTest", "dent", "dentMoved"}
        /\ UNCHANGED <<ptr1, flags, result, loop>>
    BY <1>3 DEF GrowNames, NamesMoved, PutName, GrowDents, GotoS, bufferVars, contentVars, sortVars,
       reqResult, Reading, InEntry
  <2> QED BY <1>0, <2>1 DEF Phases, Reading, InEntry, SortFlags
<1>4. CASE DentsMoved
  <2>1. /\ Reading /\ at # "open" /\ at' \in {"end", "dent"}
        /\ at' = "dent" => ptr1' # Null
        /\ UNCHANGED <<flags, result, loop>>
    BY <1>4 DEF DentsMoved, GotoS, contentVars, sortVars, reqResult, Reading, InEntry
  <2> QED BY <1>0, <2>1 DEF Phases, Reading, InEntry, SortFlags
<1>5. CASE PutDent
  <2>1. /\ Reading /\ at = "dent" /\ at' = "cancelTest" /\ ptr1' = ptr1 /\ ptr1 # Null
        /\ flags' \in {flags, flags \cup {"foundUnknown"}}
        /\ UNCHANGED <<result, loop>>
    BY <1>0, <1>5 DEF PutDent, GotoS, sortVars, bufferVars, reqResult, Reading, InEntry
  <2>2. SortFlags' = SortFlags /\ ("dents" \in flags => "dents" \in flags')
    BY <2>1 DEF SortFlags
  <2> QED BY <1>0, <2>1, <2>2 DEF Phases, Reading, InEntry
<1>6. CASE ReadEnd
  <2>1. /\ Reading /\ at = "read" /\ UNCHANGED <<ptr1, flags, directory, seen, dentoffs>>
        /\ seen = directory /\ int1' = flags /\ result' = dentoffs
        /\ IF SortFlags # {}
             THEN at' = "sort" /\ loop' \in {"sort", "dirs"}
             ELSE at' = "end" /\ loop' = loop
    BY <1>6 DEF ReadEnd, Arrange, GotoS, bufferVars, Reading, SortFlags
  <2>2. SortFlags' = SortFlags
    BY <2>1 DEF SortFlags
  <2> QED BY <1>0, <2>1, <2>2 DEF Phases, Reading, InEntry
<1>7. CASE SortStep
  <2>1. /\ at = "sort" /\ at' = "sort" /\ SortInv /\ SortNext
        /\ UNCHANGED <<ptr1, flags, directory, seen, dentoffs, int1, result>>
    BY <1>7 DEF SortStep, placeVars, bufferVars, reqResult, ScandirInv
  <2>2. loop' # "none"
    BY <2>1, SizeStep
  <2> QED BY <1>0, <2>1, <2>2 DEF Phases, Reading, InEntry, SortFlags
<1>8. CASE Sorted
  <2>1. /\ at = "sort" /\ at' = "end" /\ loop = "sorted"
        /\ UNCHANGED <<ptr1, flags, directory, seen, dentoffs, int1, result, loop>>
    BY <1>8 DEF Sorted, GotoS, bufferVars, contentVars, sortVars, reqResult
  <2> QED BY <1>0, <2>1 DEF Phases, Reading, InEntry, SortFlags
<1>9. CASE CloseDir
  <2>1. /\ at = "end" /\ at' = "returned"
        /\ UNCHANGED <<ptr1, flags, directory, seen, dentoffs, int1, result, loop>>
    BY <1>9 DEF CloseDir, GotoS, bufferVars, contentVars, sortVars, reqResult
  <2> QED BY <1>0, <2>1 DEF Phases, Reading, InEntry, SortFlags
<1>10. CASE CancelScandir
  <2>1. UNCHANGED <<at, ptr1, flags, directory, seen, dentoffs, int1, result, loop>>
    BY <1>10 DEF CancelScandir, placeVars, bufferVars, contentVars, sortVars, reqResult
  <2> QED BY <1>0, <2>1 DEF Phases, Reading, InEntry, SortFlags
<1> QED
  BY <1>1, <1>2, <1>3, <1>4, <1>5, <1>6, <1>7, <1>8, <1>9, <1>10 DEF ScandirNext

-----------------------------------------------------------------------------
(***************************************************************************)
(* What the arrays hold.                                                   *)
(***************************************************************************)
\* The score depends on the one flag and has three bits; directories have 0.
LEMMA ScoreFacts ==
  /\ "dirsFirst" \in flags' <=> "dirsFirst" \in flags => \A e : Score(e)' = Score(e)
  /\ "dirsFirst" \notin flags => \A e : Score(e) = 7
  /\ "dirsFirst" \in flags => \A e : e.type = "dir" => Score(e) = 0
  /\ \A e : e.len \in Nat => Score(e) \in 0 .. 7
<1>1. \A e : e.len \in Nat => ByLength(e.len) \in 0 .. 7
  BY DEF ByLength
<1> QED
  BY <1>1 DEF Score

\* The entries put are finitely many, so they can be counted.
LEMMA PutFinite ==
  ASSUME ScandirTypes, at # "idle"
  PROVE  IsFiniteSet(Put)
BY EntryFacts, FS_Subset DEF ScandirTypes, Put

\* Contents is about these.
SameContents ==
  /\ UNCHANGED <<dents, dentoffs, inode_bits, namesoffs>> /\ Array' = Array
  /\ "foundUnknown" \in flags' <=> "foundUnknown" \in flags
  /\ "dirsFirst" \in flags' <=> "dirsFirst" \in flags
  /\ Put' = Put
  /\ ptr1' = Null <=> ptr1 = Null

\* A step that leaves what Contents is about alone keeps it.
LEMMA ContentsKept ==
  ASSUME Contents, Going, SameContents
  PROVE  Contents'
<1> SUFFICES ASSUME Going' PROVE Contents'
  BY DEF Contents
<1>1. \A e : Score(e)' = Score(e)
  BY ScoreFacts DEF SameContents
<1>2. ASSUME NEW d, NEW e PROVE Describes(d, e)' <=> Describes(d, e)
  BY <1>1 DEF Describes
<1>3. \A x \in DOMAIN Array : \A e \in Put : Describes(Array[x], e)' <=> Describes(Array[x], e)
  BY <1>1 DEF Describes, SameContents
<1> QED
  BY <1>3 DEF Contents, SameContents

\* Without a step of the sort the array is the same.
LEMMA SameArray == ASSUME UNCHANGED <<dents, sortVars>> PROVE Array' = Array /\ loop' = loop
BY DEF sortVars, insertVars, Array

\* eio.c:1342-1419: the new element describes the entry, and its name comes after
\* all others.
LEMMA PutDentContents ==
  ASSUME ScandirInv, PutDent
  PROVE  Contents'
<1> DEFINE d == [nameofs |-> namesoffs, namelen |-> entp.len, id |-> entp.id,
                 inode |-> entp.inode, type |-> entp.type, score |-> Score(entp)]
           L == Len(dents)
<1>0. /\ ScandirTypes /\ Contents /\ Going /\ at = "dent" /\ ptr1 # Null /\ dents \in Seq(Dent)
      /\ loop = "none" /\ entp \in seen /\ entp.dots # "self" /\ entp.len \in Nat
      /\ namesoffs \in Nat /\ dentoffs \in Nat
  <2>1. ScandirTypes /\ at = "dent" /\ InEntry
    BY DEF ScandirInv, PutDent, InEntry
  <2>2. entp \in seen /\ entp.dots # "self" /\ entp.len \in Nat
    BY <2>1, EntryFacts DEF ScandirTypes
  <2> QED
    BY <2>1, <2>2 DEF ScandirInv, SortInv, SortTypes, Blocks, Phases, Going, ScandirTypes
<1>1. /\ dents' = Append(dents, d) /\ inode_bits' = inode_bits \cup BitsOf(entp.inode)
      /\ flags' = IF entp.type = "unknown" THEN flags \cup {"foundUnknown"} ELSE flags
      /\ namesoffs' = namesoffs + (entp.len + 1) /\ dentoffs' = dentoffs + 1
      /\ at' = "cancelTest" /\ UNCHANGED <<seen, ptr1, loop>>
  BY DEF PutDent, NameSize, GotoS, bufferVars, sortVars
<1>2. /\ d.nameofs = namesoffs /\ d.namelen = entp.len /\ d.id = entp.id
      /\ d.inode = entp.inode /\ d.type = entp.type /\ d.score = Score(entp)
  OBVIOUS
<1> HIDE DEF d
<1>3. Array = dents /\ Array' = dents'
  BY <1>0, <1>1 DEF Array
<1>4. /\ L \in Nat /\ DOMAIN dents' = 1 .. L + 1 /\ Len(dents') = L + 1
      /\ dents'[L + 1] = d /\ \A x \in 1 .. L : dents'[x] = dents[x]
      /\ DOMAIN dents = 1 .. L
  BY <1>0, <1>1
<1>5. Put' = Put \cup {entp} /\ entp \notin Put
  BY <1>0, <1>1 DEF Put, InEntry
<1>6. IsFiniteSet(Put)
  BY <1>0, PutFinite
<1>7. dentoffs' = Cardinality(Put')
  BY <1>0, <1>1, <1>5, <1>6, FS_AddElement DEF Contents
<1>8. \A e : Score(e)' = Score(e)
  BY <1>1, ScoreFacts
<1>9. /\ L = dentoffs
      /\ \A x \in 1 .. L : \E e \in Put : Describes(dents[x], e)
      /\ \A e \in Put : \E x \in 1 .. L : dents[x].id = e.id
      /\ \A x \in 1 .. L : dents[x].nameofs + dents[x].namelen < namesoffs
      /\ \A x, y \in 1 .. L : x # y => ~Overlap(dents[x], dents[y])
      /\ "foundUnknown" \in flags <=> \E e \in Put : e.type = "unknown"
      /\ \A x \in 1 .. L : BitsOf(dents[x].inode) \subseteq inode_bits
  BY <1>0, <1>3, <1>4 DEF Contents
<1>10. ASSUME NEW x \in 1 .. L + 1 PROVE \E e \in Put' : Describes(Array[x], e)'
  <2>1. CASE x = L + 1
    <3>1. dents'[x] = d
      BY <1>4, <2>1
    <3> QED BY <1>2, <1>3, <1>5, <1>8, <3>1 DEF Describes
  <2>2. CASE x # L + 1
    <3>1. x \in 1 .. L /\ dents'[x] = dents[x]
      BY <1>4, <2>2
    <3>2. PICK e \in Put : Describes(dents[x], e)
      BY <1>9, <3>1
    <3>3. Describes(Array[x], e)'
      BY <1>3, <1>8, <3>1, <3>2 DEF Describes
    <3> QED BY <1>5, <3>3
  <2> QED BY <2>1, <2>2
<1>11. ASSUME NEW e \in Put' PROVE \E x \in 1 .. L + 1 : dents'[x].id = e.id
  <2>1. L + 1 \in 1 .. L + 1 /\ \A x \in 1 .. L : x \in 1 .. L + 1
    BY <1>4
  <2> QED BY <1>2, <1>4, <1>5, <1>9, <2>1, ZenonT(60)
<1>12. \A x \in 1 .. L : /\ dents[x].nameofs \in Nat /\ dents[x].namelen \in Nat
                         /\ dents[x].nameofs + dents[x].namelen < namesoffs
  <2>1. \A x \in 1 .. L : dents[x] \in Dent
    BY <1>0
  <2> QED BY <1>9, <2>1 DEF Dent
<1>13. ASSUME NEW x \in 1 .. L + 1 PROVE dents'[x].nameofs + dents'[x].namelen < namesoffs'
  <2>1. CASE x = L + 1
    BY <1>0, <1>1, <1>2, <1>4, <2>1
  <2>2. CASE x # L + 1
    <3>1. x \in 1 .. L /\ dents'[x] = dents[x]
      BY <1>4, <2>2
    <3> QED BY <1>0, <1>1, <1>12, <3>1, SMTT(30)
  <2> QED BY <2>1, <2>2
<1>14. ASSUME NEW x \in 1 .. L + 1, NEW y \in 1 .. L + 1, x # y
       PROVE  ~Overlap(dents'[x], dents'[y])
  <2>1. CASE x = L + 1
    <3>1. y \in 1 .. L /\ dents'[y] = dents[y] /\ dents'[x] = d
      BY <1>4, <1>14, <2>1
    <3> QED BY <1>0, <1>2, <1>12, <3>1 DEF Overlap
  <2>2. CASE y = L + 1
    <3>1. x \in 1 .. L /\ dents'[x] = dents[x] /\ dents'[y] = d
      BY <1>4, <1>14, <2>2
    <3> QED BY <1>0, <1>2, <1>12, <3>1 DEF Overlap
  <2>3. CASE x # L + 1 /\ y # L + 1
    <3>1. x \in 1 .. L /\ y \in 1 .. L /\ dents'[x] = dents[x] /\ dents'[y] = dents[y]
      BY <1>4, <2>3
    <3> QED BY <1>9, <1>14, <3>1
  <2> QED BY <2>1, <2>2, <2>3
<1>15. "foundUnknown" \in flags' <=> \E e \in Put' : e.type = "unknown"
  BY <1>1, <1>5, <1>9
<1>16. \A x \in 1 .. L + 1 : BitsOf(dents'[x].inode) \subseteq inode_bits'
  <2> TAKE x \in 1 .. L + 1
  <2>1. CASE x = L + 1
    BY <1>1, <1>2, <1>4, <2>1
  <2>2. CASE x # L + 1
    <3>1. x \in 1 .. L /\ dents'[x] = dents[x]
      BY <1>4, <2>2
    <3> QED BY <1>1, <1>9, <3>1
  <2> QED BY <2>1, <2>2
<1>17. Len(dents') = dentoffs' /\ ptr1' # Null
  BY <1>0, <1>1, <1>4, <1>9
<1> QED
  BY <1>3, <1>4, <1>7, <1>10, <1>11, <1>13, <1>14, <1>15, <1>16, <1>17 DEF Contents

\* The sort exchanges the elements and nothing else.
LEMMA SortContents ==
  ASSUME ScandirInv, SortStep
  PROVE  Contents'
<1>0. /\ SortInv /\ SortNext /\ at = "sort" /\ Contents /\ Going /\ SortTypes
      /\ UNCHANGED <<at, seen, entp, flags, ptr1, namesoffs, dentoffs, inode_bits, result>>
  BY DEF ScandirInv, SortStep, Going, SortInv, placeVars, bufferVars, reqResult
<1>1. PICK p : Permuted(p)
  BY <1>0, ArrayStep
<1>2. Len(dents') = Len(dents)
  BY <1>0, ArrayStep
<1>3. DOMAIN Array = 1 .. Len(dents) /\ DOMAIN Array' = 1 .. Len(dents)
  <2>1. SortTypes'
    BY <1>0, SortTypesStep
  <2>2. SortTypes' => DOMAIN Array' = 1 .. Len(dents')
    BY DEF SortTypes, Array
  <2> QED BY <1>0, <1>2, <2>1, <2>2, ArrayType
<1>4. Put' = Put
  BY <1>0 DEF Put, InEntry
<1>5. \A e : Score(e)' = Score(e)
  BY <1>0, ScoreFacts
<1>6. CASE ptr1 = Null
  <2>1. Len(dents') = 0
    BY <1>0, <1>2, <1>6 DEF Contents
  <2>2. dents' = <<>>
    BY <1>0, <2>1, SortTypesStep DEF SortTypes
  <2> QED BY <1>0, <1>4, <1>6, <2>2 DEF Contents
<1>7. CASE ptr1 # Null
  <2>1. /\ dentoffs = Cardinality(Put)
        /\ Len(dents) = dentoffs
        /\ \A x \in 1 .. Len(dents) : \E e \in Put : Describes(Array[x], e)
        /\ \A e \in Put : \E x \in 1 .. Len(dents) : Array[x].id = e.id
        /\ \A x \in 1 .. Len(dents) : Array[x].nameofs + Array[x].namelen < namesoffs
        /\ \A x, y \in 1 .. Len(dents) : x # y => ~Overlap(Array[x], Array[y])
        /\ "foundUnknown" \in flags <=> \E e \in Put : e.type = "unknown"
        /\ \A x \in 1 .. Len(dents) : BitsOf(Array[x].inode) \subseteq inode_bits
    BY <1>0, <1>3, <1>7 DEF Contents
  <2>2. \A x \in 1 .. Len(dents) : p[x] \in 1 .. Len(dents) /\ Array'[x] = Array[p[x]]
    BY <1>1 DEF Permuted
  <2>3. ASSUME NEW x \in 1 .. Len(dents) PROVE \E e \in Put' : Describes(Array[x], e)'
    <3>1. PICK e \in Put : Describes(Array[p[x]], e)
      BY <2>1, <2>2
    <3>2. Describes(Array[x], e)'
      BY <1>5, <2>2, <3>1 DEF Describes
    <3> QED BY <1>4, <3>2
  <2>4. ASSUME NEW e \in Put' PROVE \E x \in 1 .. Len(dents) : Array'[x].id = e.id
    <3>1. PICK y \in 1 .. Len(dents) : Array[y].id = e.id
      BY <1>4, <2>1
    <3>2. PICK x \in 1 .. Len(dents) : p[x] = y
      BY <1>1 DEF Permuted
    <3> QED BY <2>2, <3>1, <3>2
  <2>5. \A x \in 1 .. Len(dents) : /\ Array'[x].nameofs + Array'[x].namelen < namesoffs
                                  /\ BitsOf(Array'[x].inode) \subseteq inode_bits
    BY <2>1, <2>2
  <2>6. \A x, y \in 1 .. Len(dents) : x # y => ~Overlap(Array'[x], Array'[y])
    <3>1. \A x, y \in 1 .. Len(dents) : x # y => p[x] # p[y]
      BY <1>1 DEF Permuted
    <3> QED BY <2>1, <2>2, <3>1, ZenonT(60)
  <2> QED
    BY <1>0, <1>2, <1>3, <1>4, <1>7, <2>1, <2>3, <2>4, <2>5, <2>6 DEF Contents
<1> QED
  BY <1>6, <1>7

\* The array describes the entries read, at every step of the function.
LEMMA ContentsStep == ScandirInv /\ ScandirNext => Contents'
<1> SUFFICES ASSUME ScandirInv, ScandirNext, Going' PROVE Contents'
  BY DEF Contents
<1>0. /\ ScandirTypes /\ Contents /\ Phases /\ Blocks /\ at # "idle" /\ SortTypes
  BY NotIdle DEF ScandirInv, SortInv
<1>1. CASE Open
  <2>1. /\ at = "open" /\ seen' = seen /\ seen = {} /\ at' = "read" /\ ptr1 = Null
        /\ flags' = Usable(flags) /\ "foundUnknown" \notin flags
        /\ UNCHANGED <<dents, dentoffs, loop>>
    BY <1>0, <1>1 DEF Open, GotoS, contentVars, sortVars, ScandirTypes, Going
  <2>2. Put = {} /\ Put' = {}
    BY <2>1 DEF Put
  <2>3. dents = <<>> /\ dentoffs = Cardinality({}) /\ loop = "none"
    BY <1>0, <2>1, <2>2 DEF Contents, Going, Phases
  <2>4. dents' = <<>> /\ Len(dents') = 0 /\ Array' = <<>> /\ DOMAIN Array' = {}
    <3>1. dents' = <<>> /\ loop' = "none"
      BY <2>1, <2>3
    <3>2. Array' = <<>>
      BY <3>1 DEF Array
    <3> QED BY <3>1, <3>2
  <2>5. "foundUnknown" \notin flags'
    BY <2>1, UsableFlags
  <2>6. dentoffs' = 0
    BY <2>1, <2>3, FS_EmptySet
  <2> QED BY <2>1, <2>2, <2>3, <2>4, <2>5, <2>6 DEF Contents
<1>2. CASE \E e \in directory : Read(e)
  <2>1. PICK e \in directory : Read(e)
    BY <1>2
  <2>2. /\ at = "read" /\ e \notin seen /\ seen' = seen \cup {e} /\ entp' = e
        /\ at' = IF e.dots = "self" THEN "cancelTest" ELSE "name"
        /\ UNCHANGED <<flags, ptr1, dents, dentoffs, inode_bits, namesoffs, sortVars>>
    BY <2>1 DEF Read, Skipped, GotoS, bufferVars, contentVars
  <2>3. Put' = Put
    BY <2>2 DEF Put, InEntry
  <2>4. SameContents /\ Going
    BY <2>2, <2>3, SameArray DEF SameContents, Going
  <2> QED BY <1>0, <2>4, ContentsKept
<1>3. CASE ReadError \/ CancelTest \/ Crash
  <2>1. /\ at \in {"read", "cancelTest"} /\ at' = "read"
        /\ UNCHANGED <<seen, flags, ptr1, dents, dentoffs, inode_bits, namesoffs, sortVars>>
    <3>1. result' = result /\ result = -1
      BY <1>0, <1>3 DEF ReadError, CancelTest, Crash, reqResult, Phases, Reading, InEntry
    <3> QED
      BY <1>3, <3>1 DEF ReadError, CancelTest, Crash, GotoS, bufferVars, contentVars, Going
  <2>2. Put' = Put
    BY <2>1 DEF Put, InEntry
  <2>3. SameContents /\ Going
    BY <2>1, <2>2, SameArray DEF SameContents, Going
  <2> QED BY <1>0, <2>3, ContentsKept
<1>4. CASE GrowNames \/ NamesMoved \/ GrowDents
  <2>1. /\ InEntry /\ InEntry' /\ at \notin {"end", "returned", "crashed"}
        /\ UNCHANGED <<seen, entp, flags, ptr1, dents, dentoffs, inode_bits, namesoffs, sortVars>>
    BY <1>4 DEF GrowNames, NamesMoved, GrowDents, GotoS, contentVars, InEntry
  <2>2. SameContents /\ Going
    BY <2>1, SameArray DEF SameContents, Going, Put
  <2> QED BY <1>0, <2>2, ContentsKept
<1>5. CASE DentsMoved
  <2>1. /\ InEntry /\ at = "dentMoved" /\ at' = "dent" /\ ptr1 # Null /\ ptr1' # Null
        /\ UNCHANGED <<seen, entp, flags, dents, dentoffs, inode_bits, namesoffs, sortVars>>
    <3>1. result' = result /\ result = -1
      BY <1>0, <1>5 DEF DentsMoved, reqResult, Phases, Reading, InEntry
    <3> QED BY <1>0, <1>5, <3>1 DEF DentsMoved, GotoS, contentVars, InEntry, Going, Blocks
  <2>2. SameContents /\ Going
    BY <2>1, SameArray DEF SameContents, Going, Put, InEntry
  <2> QED BY <1>0, <2>2, ContentsKept
<1>6. CASE PutName
  <2>1. /\ at = "name" /\ UNCHANGED <<seen, entp, flags, ptr1, dents, inode_bits, sortVars>>
    BY <1>6 DEF PutName, bufferVars
  <2>2. CASE ptr1 = Null
    <3>1. at' = "cancelTest" /\ dentoffs' = dentoffs + 1
      BY <1>6, <2>2 DEF PutName, GotoS
    <3>2. entp \in seen /\ entp.dots # "self"
      BY <1>0, <2>1 DEF ScandirTypes, InEntry
    <3>3. Put' = Put \cup {entp} /\ entp \notin Put
      BY <2>1, <3>1, <3>2 DEF Put, InEntry
    <3>4. dentoffs = Cardinality(Put) /\ dents = <<>>
      BY <1>0, <2>1, <2>2 DEF Contents, Going
    <3>5. dentoffs' = Cardinality(Put')
      BY <1>0, <3>1, <3>3, <3>4, PutFinite, FS_AddElement
    <3> QED BY <2>1, <2>2, <3>4, <3>5 DEF Contents
  <2>3. CASE ptr1 # Null
    <3>1. at' = "dent" /\ UNCHANGED <<namesoffs, dentoffs>>
      BY <1>6, <2>3 DEF PutName, GotoS
    <3>2. SameContents /\ Going
      BY <2>1, <3>1, SameArray DEF SameContents, Going, Put, InEntry
    <3> QED BY <1>0, <3>2, ContentsKept
  <2> QED BY <2>2, <2>3
<1>7. CASE PutDent
  BY <1>7, PutDentContents
<1>8. CASE ReadEnd
  <2>1. /\ at = "read" /\ at' \in {"sort", "end"} /\ loop = "none" /\ loop' # "shift"
        /\ UNCHANGED <<seen, flags, ptr1, dents, dentoffs, inode_bits, namesoffs>>
    BY <1>0, <1>8 DEF ReadEnd, Arrange, GotoS, bufferVars, Phases
  <2>2. Array' = Array
    BY <2>1 DEF Array
  <2>3. SameContents /\ Going
    BY <2>1, <2>2 DEF SameContents, Going, Put, InEntry
  <2> QED BY <1>0, <2>3, ContentsKept
<1>9. CASE SortStep
  BY <1>9, SortContents
<1>10. CASE Sorted \/ CloseDir
  <2>1. /\ at \in {"sort", "end"} /\ at' \in {"end", "returned"}
        /\ UNCHANGED <<seen, flags, ptr1, dents, dentoffs, inode_bits, namesoffs, sortVars, result>>
    BY <1>10 DEF Sorted, CloseDir, GotoS, bufferVars, contentVars, reqResult
  <2>2. SameContents /\ Going
    BY <2>1, SameArray DEF SameContents, Going, Put, InEntry
  <2> QED BY <1>0, <2>2, ContentsKept
<1>11. CASE CancelScandir
  <2>1. UNCHANGED <<at, seen, entp, flags, ptr1, dents, dentoffs, inode_bits, namesoffs, sortVars, result>>
    BY <1>11 DEF CancelScandir, placeVars, bufferVars, contentVars, reqResult
  <2>2. SameContents /\ Going
    BY <2>1, SameArray DEF SameContents, Going, Put, InEntry
  <2> QED BY <1>0, <2>2, ContentsKept
<1> QED
  BY <1>1, <1>2, <1>3, <1>4, <1>5, <1>6, <1>7, <1>8, <1>9, <1>10, <1>11 DEF ScandirNext

-----------------------------------------------------------------------------
(***************************************************************************)
(* What is sorted.                                                         *)
(***************************************************************************)
\* What is sorted is all of the array, or the directories in front of it.
LEMMA SortedPartStep == ScandirInv /\ ScandirNext => SortedPart'
<1> SUFFICES ASSUME ScandirInv, ScandirNext, loop' # "none" PROVE SortedPart'
  BY DEF SortedPart
<1>0. /\ ScandirTypes /\ Contents /\ Phases /\ SortedPart /\ SortInv /\ SortTypes /\ DirsSplit
      /\ at # "idle"
  BY NotIdle DEF ScandirInv, SortInv
<1>1. CASE ReadEnd
  <2>1. /\ at = "read" /\ SortFlags # {} /\ size' = dentoffs
        /\ UNCHANGED <<flags, dents>>
        /\ loop' = IF {"statOrder", "foundUnknown"} \cap flags # {} THEN "sort" ELSE "dirs"
    BY <1>0, <1>1 DEF ReadEnd, Arrange, SortFlags, Phases
  <2>2. Len(dents) = dentoffs
    BY <1>0, <2>1 DEF Contents, Going, Phases, Reading, SortFlags
  <2>3. {"statOrder", "foundUnknown"} \cap flags = {} => "dirsFirst" \in flags
    BY <2>1 DEF SortFlags
  <2> QED BY <2>1, <2>2, <2>3 DEF SortedPart
<1>2. CASE SortStep
  <2>1. SortNext /\ UNCHANGED flags
    BY <1>2 DEF SortStep
  <2>2. Len(dents') = Len(dents) /\ loop # "none"
    BY <1>0, <2>1, ArrayStep, SizeStep
  <2>3. CASE {"statOrder", "foundUnknown"} \cap flags # {}
    <3>1. loop # "dirs" /\ size = Len(dents)
      BY <1>0, <2>2, <2>3 DEF SortedPart
    <3>2. loop' # "dirs" /\ size' = size
      BY <1>0, <2>1, <3>1, SizeStep
    <3> QED BY <2>1, <2>2, <2>3, <3>1, <3>2 DEF SortedPart
  <2>4. CASE {"statOrder", "foundUnknown"} \cap flags = {}
    <3>1. /\ "dirsFirst" \in flags
          /\ loop # "dirs" => \A x \in DOMAIN Array : Array[x].type = "dir" <=> x <= size
      BY <1>0, <2>2, <2>4 DEF SortedPart
    <3>2. DOMAIN Array = 1 .. Len(dents) /\ DOMAIN Array' = 1 .. Len(dents)
      <4>1. SortTypes'
        BY <1>0, <2>1, SortTypesStep
      <4>2. SortTypes' => DOMAIN Array' = 1 .. Len(dents')
        BY DEF SortTypes, Array
      <4> QED BY <1>0, <2>2, <4>1, <4>2, ArrayType
    <3>3. ASSUME loop' # "dirs", NEW x \in 1 .. Len(dents)
          PROVE  Array'[x].type = "dir" <=> x <= size'
      <4>1. CASE DirsDone
        <5>1. /\ loop = "dirs" /\ Array' = Array /\ pa = pb /\ size' = pa - 1 /\ pa \in Nat
          BY <1>0, <2>1, <4>1, SizeStep DEF SortTypes
        <5>2. Array = dents
          BY <5>1 DEF Array
        <5> QED BY <1>0, <5>1, <5>2 DEF DirsSplit
      <4>2. CASE ~DirsDone
        <5>1. size' = size /\ loop # "dirs"
          BY <1>0, <2>1, <3>3, <4>2, SizeStep
        <5>2. PICK p : Permuted(p)
          BY <1>0, <2>1, ArrayStep
        <5>3. /\ p[x] \in 1 .. Len(dents) /\ Array'[x] = Array[p[x]]
              /\ x <= size <=> p[x] <= size
          BY <5>1, <5>2 DEF Permuted
        <5> QED BY <3>1, <3>2, <5>1, <5>3
      <4> QED BY <4>1, <4>2
    <3> QED BY <2>1, <2>4, <3>1, <3>2, <3>3 DEF SortedPart
  <2> QED BY <2>3, <2>4
<1>3. CASE Sorted \/ CloseDir \/ CancelScandir
  <2>1. UNCHANGED <<dents, sortVars, flags>>
    BY <1>3 DEF Sorted, CloseDir, CancelScandir, contentVars
  <2> QED BY <1>0, <2>1, SameArray DEF SortedPart, sortVars
<1>4. CASE \/ Open \/ ReadError \/ GrowNames \/ NamesMoved \/ Crash \/ PutName \/ GrowDents
           \/ DentsMoved \/ PutDent \/ CancelTest \/ \E e \in directory : Read(e)
  <2>1. loop' = loop /\ at \notin {"sort", "end", "returned"}
    BY <1>4 DEF Open, Read, ReadError, GrowNames, NamesMoved, Crash, PutName, GrowDents,
       DentsMoved, PutDent, CancelTest, contentVars, sortVars
  <2> QED BY <1>0, <2>1 DEF Phases
<1> QED
  BY <1>1, <1>2, <1>3, <1>4 DEF ScandirNext

\* SortInv is about the state of the sort only.
LEMMA SortKept == ASSUME SortInv, UNCHANGED <<dents, sortVars>> PROVE SortInv'
<1>1. UNCHANGED <<loop, dents, size, bits, part, stack, pa, pb, si, sj, smallest, held>>
  BY DEF sortVars, partVars, insertVars
<1>2. Array' = Array
  BY <1>1 DEF Array
<1>3. SortTypes'
  BY <1>1 DEF SortInv, SortTypes
<1>4. BitsCover'
  BY <1>1, <1>2 DEF SortInv, BitsCover, Concerned
<1>5. DirsSplit' /\ StackOK' /\ HalvesOK' /\ RadixFirst'
  BY <1>1 DEF SortInv, DirsSplit, StackOK, HalvesOK, RadixFirst
<1>6. MinimumNear' /\ Smallest' /\ Prefix'
  BY <1>1, <1>2 DEF SortInv, MinimumNear, Smallest, Prefix
<1> QED
  BY <1>3, <1>4, <1>5, <1>6 DEF SortInv

\* The entries with a type of "dir" have the same score if the directories only
\* are sorted, and all if the directories do not matter.
LEMMA ScoresAlike ==
  ASSUME NEW x, NEW y, NEW e, NEW f, Describes(x, e), Describes(y, f),
         \/ "dirsFirst" \notin flags
         \/ "dirsFirst" \in flags /\ x.type = "dir" /\ y.type = "dir"
  PROVE  x.score = y.score
BY ScoreFacts DEF Describes

\* A listing starts the sort in a state of its invariant, and the sort keeps it.
LEMMA SortInvKept == ScandirInv /\ ScandirNext => SortInv'
<1> SUFFICES ASSUME ScandirInv, ScandirNext PROVE SortInv'
  OBVIOUS
<1>0. /\ ScandirTypes /\ Contents /\ Phases /\ Blocks /\ SortInv /\ SortTypes /\ at # "idle"
  BY NotIdle DEF ScandirInv, SortInv
<1>1. CASE SortStep
  BY <1>0, <1>1, SortInvStep DEF SortStep
<1>2. CASE PutDent
  <2>1. at = "dent" /\ InEntry /\ loop = "none"
    BY <1>0, <1>2 DEF PutDent, InEntry, Phases
  <2>2. /\ entp \in directory /\ directory \in Directories /\ entp.inode \in Inodes /\ entp.len \in Nat
        /\ namesoffs \in Nat
    BY <1>0, <2>1, EntryFacts DEF ScandirTypes
  <2>3. Score(entp) \in 0 .. 7
    BY <2>2, ScoreFacts
  <2>4. [nameofs |-> namesoffs, namelen |-> entp.len, id |-> entp.id,
         inode |-> entp.inode, type |-> entp.type, score |-> Score(entp)] \in Dent
    <3>1. entp \in UNION Directories
      BY <2>2
    <3>2. entp.id \in {e.id : e \in UNION Directories} /\ entp.type \in {e.type : e \in UNION Directories}
      BY <3>1
    <3> QED BY <2>2, <2>3, <3>2 DEF Dent
  <2>5. dents' \in Seq(Dent) /\ Len(dents') = Len(dents) + 1
    <3>1. dents \in Seq(Dent)
      BY <1>0 DEF SortTypes
    <3>2. dents' = Append(dents, [nameofs |-> namesoffs, namelen |-> entp.len, id |-> entp.id,
                   inode |-> entp.inode, type |-> entp.type, score |-> Score(entp)])
      BY <1>2 DEF PutDent
    <3> QED BY <2>4, <3>1, <3>2
  <2>6. UNCHANGED <<loop, size, bits, part, stack, pa, pb, si, sj, smallest, held>>
    BY <1>2 DEF PutDent, sortVars, partVars, insertVars
  <2>7. SortTypes'
    BY <1>0, <2>1, <2>5, <2>6 DEF SortTypes
  <2>8. loop' = "none"
    BY <2>1, <2>6
  <2> QED
    BY <2>7, <2>8 DEF SortInv, BitsCover, DirsSplit, StackOK, HalvesOK, RadixFirst, MinimumNear,
                      Smallest, Prefix
<1>3. CASE ReadEnd
  <2>1. /\ at = "read" /\ loop = "none" /\ UNCHANGED <<dents, flags, part, stack, si, sj, smallest, held>>
    BY <1>0, <1>3 DEF ReadEnd, Phases, partVars, insertVars
  <2>2. CASE SortFlags = {}
    <3>1. UNCHANGED <<bits, size, pa, pb, loop>>
      BY <1>3, <2>2 DEF ReadEnd, SortFlags
    <3>2. UNCHANGED <<dents, sortVars>>
      BY <2>1, <3>1 DEF sortVars, partVars, insertVars
    <3> QED BY <1>0, <3>2, SortKept
  <2>3. CASE SortFlags # {}
    <3>1. /\ bits' = Bits(IF "dirsFirst" \in flags /\ {"statOrder", "foundUnknown"} \cap flags # {}
                            THEN AllScoreBits ELSE {}, inode_bits)
          /\ size' = dentoffs /\ pa' = 1 /\ pb' = dentoffs + 1
          /\ loop' = IF {"statOrder", "foundUnknown"} \cap flags # {} THEN "sort" ELSE "dirs"
      BY <1>3, <2>3 DEF ReadEnd, Arrange, SortFlags
    <3>2. ptr1 # Null /\ Going /\ Array = dents /\ dents \in Seq(Dent)
      BY <1>0, <2>1, <2>3 DEF Phases, Reading, SortFlags, Going, Array, SortTypes
    <3>3. /\ Len(dents) = dentoffs
          /\ \A x \in DOMAIN dents : \E e \in Put : Describes(dents[x], e)
          /\ \A x \in DOMAIN dents : BitsOf(dents[x].inode) \subseteq inode_bits
      BY <1>0, <3>2 DEF Contents
    <3>4. /\ inode_bits \subseteq bits' /\ bits' \subseteq 0 .. InoBits + 2
          /\ "dirsFirst" \in flags /\ loop' = "sort" => \A k \in 0 .. 2 : InoBits + k \in bits'
      <4>1. inode_bits \subseteq 0 .. InoBits - 1
        BY <1>0 DEF ScandirTypes
      <4>2. bits' = inode_bits \/ bits' = inode_bits \cup {InoBits + k : k \in 0 .. 2}
        BY <3>1 DEF Bits, AllScoreBits
      <4>3. {InoBits + k : k \in 0 .. 2} \subseteq 0 .. InoBits + 2
        BY SortAssumption
      <4>4. inode_bits \subseteq 0 .. InoBits + 2
        BY <4>1, SortAssumption
      <4>5. "dirsFirst" \in flags /\ loop' = "sort" => bits' = inode_bits \cup {InoBits + k : k \in 0 .. 2}
        BY <3>1 DEF Bits, AllScoreBits
      <4> QED BY <4>2, <4>3, <4>4, <4>5
    <3>5. SortTypes'
      <4>1. Len(dents) \in Nat
        BY <3>2
      <4>2. size' \in 0 .. Len(dents') /\ pa' = 1 /\ pb' = Len(dents') + 1
        BY <2>1, <3>1, <3>3, <4>1
      <4>3. loop' \in {"sort", "dirs"}
        BY <3>1
      <4>4. stack' = <<>> /\ part' \in Part /\ si' \in Nat /\ sj' \in Nat /\ smallest' \in Nat
        BY <1>0, <2>1 DEF SortTypes
      <4>5. pa' \in Nat /\ pb' \in Nat /\ 1 <= pa' /\ pa' <= pb' /\ pb' <= Len(dents') + 1
        BY <2>1, <4>1, <4>2
      <4>6. dents' \in Seq(Dent) /\ stack' \in Seq(Part)
        BY <1>0, <2>1 DEF SortTypes
      <4> QED BY <3>4, <4>2, <4>3, <4>4, <4>5, <4>6 DEF SortTypes
    <3>6. Array' = dents /\ loop' \in {"sort", "dirs"}
      BY <2>1, <3>1 DEF Array
    <3>7. BitsCover'
      <4>1. \A x \in DOMAIN Array' : BitsOf(Array'[x].inode) \subseteq bits'
        BY <3>3, <3>4, <3>6
      <4>2. CASE "dirsFirst" \in flags /\ loop' = "sort"
        BY <3>4, <4>1, <4>2 DEF BitsCover
      <4>3. CASE ~("dirsFirst" \in flags /\ loop' = "sort")
        <5>1. ASSUME NEW x \in DOMAIN Array', NEW y \in DOMAIN Array', Concerned(x)', Concerned(y)'
              PROVE  Array'[x].score = Array'[y].score
          <6>1. \/ "dirsFirst" \notin flags
                \/ "dirsFirst" \in flags /\ dents[x].type = "dir" /\ dents[y].type = "dir"
            BY <3>6, <4>3, <5>1 DEF Concerned
          <6>2. PICK e : Describes(dents[x], e)
            BY <3>3, <3>6
          <6>3. PICK f : Describes(dents[y], f)
            BY <3>3, <3>6
          <6>4. dents[x].score = dents[y].score
            BY <6>1, <6>2, <6>3, ScoresAlike
          <6> QED BY <3>6, <6>4
        <5> QED BY <4>1, <5>1 DEF BitsCover
      <4> QED BY <4>2, <4>3
    <3>8. DirsSplit'
      BY <2>1, <3>1, <3>2, <3>3 DEF DirsSplit
    <3> QED
      BY <3>5, <3>6, <3>7, <3>8 DEF SortInv, StackOK, HalvesOK, RadixFirst, MinimumNear, Smallest, Prefix
  <2> QED BY <2>2, <2>3
<1>4. CASE \/ Open \/ ReadError \/ GrowNames \/ NamesMoved \/ Crash \/ PutName \/ GrowDents
           \/ DentsMoved \/ CancelTest \/ Sorted \/ CloseDir \/ CancelScandir
           \/ \E e \in directory : Read(e)
  <2>1. UNCHANGED <<dents, sortVars>>
    BY <1>4 DEF Open, Read, ReadError, GrowNames, NamesMoved, Crash, PutName, GrowDents,
       DentsMoved, CancelTest, Sorted, CloseDir, CancelScandir, contentVars
  <2> QED BY <1>0, <2>1, SortKept
<1> QED
  BY <1>1, <1>2, <1>3, <1>4 DEF ScandirNext

-----------------------------------------------------------------------------
(***************************************************************************)
(* The invariant.                                                          *)
(***************************************************************************)
\* ScandirInv is inductive,
LEMMA ScandirStep == ScandirInv /\ [ScandirNext]_scandirVars => ScandirInv'
<1> SUFFICES ASSUME ScandirInv, [ScandirNext]_scandirVars PROVE ScandirInv'
  OBVIOUS
<1>1. CASE ScandirNext
  BY <1>1, ScandirTypesStep, BlocksStep, ContentsStep, PhasesStep, SortedPartStep, SortInvKept
     DEF ScandirInv
<1>2. CASE UNCHANGED scandirVars
  <2>1. UNCHANGED <<at, directory, seen, flags, entp, ptr1, ptr2, heap, moved, wrklocked,
                    namesoffs, dents, dentoffs, inode_bits, sortVars, int1, result>>
    BY <1>2 DEF scandirVars, placeVars, bufferVars, contentVars, reqResult
  <2>2. SortInv' /\ Array' = Array /\ loop' = loop /\ size' = size
    BY <2>1, SortKept, SameArray DEF ScandirInv, sortVars
  <2>3. Put' = Put /\ SortFlags' = SortFlags /\ (Going <=> Going') /\ (Reading <=> Reading')
    BY <2>1 DEF Put, InEntry, SortFlags, Going, Reading
  <2>4. ScandirTypes'
    BY <2>1 DEF ScandirInv, ScandirTypes, InEntry
  <2>5. Blocks'
    BY <2>1 DEF ScandirInv, Blocks, NameFits, NameSize
  <2>6. Contents'
    <3>1. CASE Going
      <4>1. SameContents
        BY <2>1, <2>2, <2>3 DEF SameContents
      <4> QED BY <3>1, <4>1, ContentsKept DEF ScandirInv
    <3>2. CASE ~Going
      BY <2>3, <3>2 DEF Contents
    <3> QED BY <3>1, <3>2
  <2>7. Phases' /\ SortedPart'
    BY <2>1, <2>2, <2>3 DEF ScandirInv, Phases, SortedPart
  <2> QED BY <2>2, <2>4, <2>5, <2>6, <2>7 DEF ScandirInv
<1> QED
  BY <1>1, <1>2

\* and holds in the beginning.
LEMMA ScandirStarts == ScandirInit \/ ScandirIdle => ScandirInv
<1> SUFFICES ASSUME ScandirInit \/ ScandirIdle PROVE ScandirInv
  OBVIOUS
<1>1. /\ loop = "none" /\ dents = <<>> /\ size = 0 /\ bits = {}
      /\ part = [base |-> 0, end |-> 0, bit |-> 0] /\ stack = <<>>
      /\ pa = 0 /\ pb = 0 /\ si = 0 /\ sj = 0 /\ smallest = 0
      /\ seen = {} /\ ptr1 = Null /\ ptr2 = Null /\ heap = {} /\ wrklocked = FALSE
      /\ namesoffs = 0 /\ dentoffs = 0 /\ inode_bits = {}
      /\ \/ at = "idle" /\ directory = {} /\ flags = {}
         \/ at = "open" /\ directory \in Directories /\ flags \in FlagSets
  BY DEF ScandirInit, ScandirIdle, SortIdle
<1>2. SortTypes
  BY <1>1 DEF SortTypes, Part
<1>3. SortInv
  BY <1>1, <1>2 DEF SortInv, BitsCover, DirsSplit, StackOK, HalvesOK, RadixFirst, MinimumNear,
                    Smallest, Prefix
<1>4. ScandirTypes
  BY <1>1, DirAssumption DEF ScandirTypes, InEntry
<1>5. Put = {}
  BY <1>1 DEF Put
<1>6. Contents
  BY <1>1, <1>5, FS_EmptySet DEF Contents
<1>7. Blocks
  BY <1>1 DEF Blocks
<1>8. Phases /\ SortedPart
  BY <1>1 DEF Phases, SortedPart, Reading, InEntry, SortFlags
<1> QED
  BY <1>3, <1>4, <1>6, <1>7, <1>8 DEF ScandirInv

-----------------------------------------------------------------------------
(***************************************************************************)
(* What it gives.                                                          *)
(***************************************************************************)
\* The invariant implies each of the properties: the request owns its arrays,
LEMMA InvOwned == ScandirInv => BuffersOwned
BY BlocksOwned DEF ScandirInv, BuffersOwned, Owned

\* the sort stays behind the front of the array,
LEMMA InvSentinel == ScandirInv => SentinelHolds
BY DEF ScandirInv, SortInv, SortTypes, SentinelHolds

\* its stacks are large enough,
LEMMA InvStacks == ScandirInv => StacksFit
<1> SUFFICES ASSUME ScandirInv, stack # <<>> PROVE Len(stack) < Cardinality(bits)
  BY DEF StacksFit
<1> DEFINE n == Len(stack)
           A == {k \in bits : stack[n].bit < k}
<1>1. SortTypes /\ StackOK /\ loop \in {"parts", "split"} /\ stack \in Seq(Part)
      /\ bits \subseteq 0 .. InoBits + 2
  BY DEF ScandirInv, SortInv, SortTypes
<1>2. n \in 1 .. Len(stack)
  BY <1>1
<1>3. stack[n].bit \in bits /\ n <= Cardinality(A)
  BY <1>1, <1>2 DEF StackOK, PartOK
<1>4. IsFiniteSet(bits)
  <2>1. IsFiniteSet(0 .. InoBits + 2)
    BY FS_Interval, SortAssumption
  <2> QED BY <1>1, <2>1, FS_Subset
<1>5. A \subseteq bits /\ stack[n].bit \notin A
  <2>1. stack[n] \in Part
    BY <1>1, <1>2
  <2>2. stack[n].bit \in Nat
    BY <2>1 DEF Part
  <2> QED BY <2>2
<1>6. A # bits
  BY <1>3, <1>5
<1> HIDE DEF A
<1>7. IsFiniteSet(A) /\ Cardinality(A) <= Cardinality(bits) /\ Cardinality(A) # Cardinality(bits)
  BY <1>4, <1>5, <1>6, FS_Subset
<1>8. Cardinality(A) \in Nat /\ Cardinality(bits) \in Nat
  BY <1>4, <1>7, FS_CardinalityType
<1> QED
  BY <1>2, <1>3, <1>7, <1>8

\* the listing has every entry,
LEMMA InvComplete == ScandirInv => ListingComplete
<1> SUFFICES ASSUME ScandirInv, Listing PROVE ListingComplete
  BY DEF ListingComplete
<1>0. ScandirTypes /\ Contents /\ Phases /\ SortTypes
  BY DEF ScandirInv, SortInv
<1>1. /\ Going /\ result = dentoffs /\ int1 = flags /\ seen = directory /\ loop # "shift"
      /\ ~InEntry
  BY <1>0 DEF Listing, Going, Phases, InEntry
<1>2. Put = Listed /\ Array = dents
  BY <1>1 DEF Put, Listed, Array
<1>3. CASE ptr1 # Null
  <2>1. /\ Len(dents) = dentoffs
        /\ \A x \in DOMAIN dents : \E e \in Listed : Describes(dents[x], e)
        /\ \A e \in Listed : \E x \in DOMAIN dents : dents[x].id = e.id
        /\ \A x, y \in DOMAIN dents : x # y => ~Overlap(dents[x], dents[y])
        /\ "foundUnknown" \in flags <=> \E e \in Listed : e.type = "unknown"
    BY <1>0, <1>1, <1>2, <1>3 DEF Contents
  <2>2. {dents[i].id : i \in DOMAIN dents} = {e.id : e \in Listed}
    <3>1. \A x \in DOMAIN dents : \E e \in Listed : dents[x].id = e.id
      BY <2>1 DEF Describes
    <3>2. {dents[i].id : i \in DOMAIN dents} \subseteq {e.id : e \in Listed}
      BY <3>1
    <3>3. {e.id : e \in Listed} \subseteq {dents[i].id : i \in DOMAIN dents}
      BY <2>1
    <3> QED BY <3>2, <3>3
  <2> QED BY <1>0, <1>1, <1>2, <1>3, <2>1, <2>2 DEF Contents, ListingComplete
<1>4. CASE ptr1 = Null
  BY <1>0, <1>1, <1>2, <1>4 DEF Contents, ListingComplete
<1> QED
  BY <1>3, <1>4

\* and is in order.
LEMMA InvOrdered == ScandirInv => ListingOrdered
<1> SUFFICES ASSUME ScandirInv, Listing, NEW x \in DOMAIN dents, NEW y \in DOMAIN dents, x < y
             PROVE
               /\ "dirsFirst" \in int1 /\ dents[y].type = "dir" =>
                    dents[x].type = "dir" /\ dents[x].inode <= dents[y].inode
               /\ "statOrder" \in int1 /\ "dirsFirst" \notin int1 =>
                    dents[x].inode <= dents[y].inode
               /\ "dirsFirst" \in int1 /\ {"statOrder", "foundUnknown"} \cap int1 # {} =>
                    ~Before(dents[y], dents[x])
  BY DEF ListingOrdered
<1>0. ScandirTypes /\ Contents /\ Phases /\ SortTypes /\ Prefix /\ SortedPart
  BY DEF ScandirInv, SortInv
<1>1. /\ Going /\ int1 = flags /\ loop \in {"none", "sorted"}
      /\ SortFlags = {} \/ loop = "sorted"
      /\ flags # {} => ptr1 # Null
  BY <1>0 DEF Listing, Going, Phases
<1>2. Array = dents /\ dents \in Seq(Dent) /\ DOMAIN dents = 1 .. Len(dents) /\ x \in Nat /\ y \in Nat
      /\ size \in Nat
  BY <1>0, <1>1 DEF Array, SortTypes
<1>3. CASE SortFlags = {}
  BY <1>1, <1>3 DEF SortFlags
<1>4. CASE SortFlags # {}
  <2>1. loop = "sorted" /\ Ascending(dents, size) /\ ptr1 # Null
    BY <1>0, <1>1, <1>4 DEF Prefix, SortFlags
  <2>2. dents[x] \in Dent /\ dents[y] \in Dent
    BY <1>2
  <2>3. dents[x].inode \in Nat /\ dents[y].inode \in Nat /\ dents[x].score \in Nat /\ dents[y].score \in Nat
    BY <2>2, InodeOK DEF Dent
  <2>4. y <= size => ~Before(dents[y], dents[x])
    BY <1>2, <2>1 DEF Ascending
  <2>5. PICK e \in Put : Describes(dents[x], e)
    BY <1>0, <1>1, <1>2, <2>1 DEF Contents
  <2>6. PICK f : Describes(dents[y], f)
    BY <1>0, <1>1, <1>2, <2>1 DEF Contents
  <2>7. "dirsFirst" \notin flags => dents[x].score = dents[y].score
    BY <2>5, <2>6, ScoresAlike
  <2>8. "dirsFirst" \in flags /\ dents[x].type = "dir" /\ dents[y].type = "dir" =>
          dents[x].score = dents[y].score
    BY <2>5, <2>6, ScoresAlike
  <2>9. CASE {"statOrder", "foundUnknown"} \cap flags # {}
    <3>1. y <= size
      BY <1>0, <1>2, <2>1, <2>9 DEF SortedPart
    <3>2. ~Before(dents[y], dents[x])
      BY <2>4, <3>1
    <3>3. dents[x].score = dents[y].score => dents[x].inode <= dents[y].inode
      BY <2>3, <3>2 DEF Before
    <3>4. ASSUME "dirsFirst" \in flags, dents[y].type = "dir" PROVE dents[x].type = "dir"
      <4>1. dents[y].score = 0
        BY <2>6, <3>4, ScoreFacts DEF Describes
      <4>2. dents[x].score = 0
        BY <2>3, <3>2, <4>1 DEF Before
      <4>3. e.type = dents[x].type /\ Score(e) = 0
        BY <2>5, <4>2 DEF Describes
      <4>4. e.len \in Nat \ {0}
        <5>1. at # "idle" /\ e \in directory
          BY <1>0 DEF Listing, Put, ScandirTypes
        <5> QED BY <1>0, <5>1, EntryFacts
      <4>5. ByLength(e.len) # 0
        BY <4>4 DEF ByLength
      <4> QED BY <3>4, <4>3, <4>5 DEF Score
    <3> QED BY <1>1, <2>7, <2>8, <3>2, <3>3, <3>4
  <2>10. CASE {"statOrder", "foundUnknown"} \cap flags = {}
    <3>1. \A z \in DOMAIN dents : dents[z].type = "dir" <=> z <= size
      BY <1>0, <1>2, <2>1, <2>10 DEF SortedPart
    <3>2. ASSUME dents[y].type = "dir", "dirsFirst" \in flags
          PROVE  dents[x].type = "dir" /\ dents[x].inode <= dents[y].inode
      <4>1. y <= size /\ x <= size
        BY <1>2, <3>1, <3>2
      <4>2. dents[x].type = "dir"
        BY <3>1, <4>1
      <4>3. ~Before(dents[y], dents[x]) /\ dents[x].score = dents[y].score
        BY <2>4, <2>8, <3>2, <4>1, <4>2
      <4> QED BY <2>3, <4>2, <4>3 DEF Before
    <3> QED BY <1>1, <2>10, <3>2
  <2> QED BY <2>9, <2>10
<1> QED
  BY <1>3, <1>4

-----------------------------------------------------------------------------
(***************************************************************************)
(* What eio__scandir guarantees.                                           *)
(***************************************************************************)
\* eio__scandir is never outside of its invariant.
LEMMA ScandirInvariant == Spec => []ScandirInv
BY InitOfParts, NextOfParts, ScandirStarts, ScandirStep, PTL DEF Spec

\* Wherever an allocation or readdir fails, and whenever the request is
\* cancelled: while another thread can have wrklock, in a handler of fork say,
\* req->ptr1 and ->ptr2 are null or point to allocated blocks that hold what is
\* used of them, and of each kind no second block is left behind.
THEOREM ScandirBuffersOwned == Spec => []BuffersOwned
BY ScandirInvariant, InvOwned, PTL

\* eio.c:1184-1196: the inner loop of the insertion sort, which does not test for
\* the front of the array, never gets there.  For every length of array and
\* every EIO_SORT_CUTOFF below EIO_SORT_FAST the radix sort leaves a smallest
\* element where the search for the sentinel looks.
THEOREM SortSentinelHolds == Spec => []SentinelHolds
BY ScandirInvariant, InvSentinel, PTL

\* eio.c:1125-1127: base_stk, end_stk and bit_stk never overflow.  The radix sort
\* puts off at most one part for each bit it tests.
THEOREM SortStacksFit == Spec => []StacksFit
BY ScandirInvariant, InvStacks, PTL

\* Every order in which readdir returns the entries, however often the arrays
\* grow: a listing with a result has each entry but . and .. exactly once, with
\* a name of its own, and says whether a type is unknown.
THEOREM ScandirListingComplete == Spec => []ListingComplete
BY ScandirInvariant, InvComplete, PTL

\* eio.h:73-74: the entries of a listing are in the order that the flags ask
\* for, for every directory and every width of ino_t.
THEOREM ScandirListingOrdered == Spec => []ListingOrdered
BY ScandirInvariant, InvOrdered, PTL
=============================================================================
