----------------------------- MODULE EioScandir -----------------------------
(***************************************************************************)
(* eio__scandir (eio.c:1230-1427): a worker reads a directory into two     *)
(* arrays that grow, the names and, if any flag asks for them, the entries *)
(* (eio_dirent), and sorts the entries.                                    *)
(*                                                                         *)
(* The arrays belong to the request (ptr1, ptr2) while the worker is at    *)
(* work: the fork handler of the child destroys the requests of all        *)
(* workers.  That handler runs with wrklock held, so the two fields are    *)
(* only changed under that lock.                                           *)
(***************************************************************************)
EXTENDS DentSort, FiniteSets

CONSTANTS
  Directories,   \* the directories: sets of entries, . and .. included
  FlagSets,      \* the flags an application passes, sets of names
  NamesAlloc,    \* initial size of the names, 4096 in the code
  DentAlloc,     \* initial size of the entries, 128 in the code
  Null,          \* the null pointer
  MallocFails    \* TRUE iff malloc and realloc may fail

(***************************************************************************)
(* An entry has a unique id, an inode, a type ("unknown", "dir", "other"), *)
(* the length of its name and where the name has dots: "self" (. and ..),  *)
(* "lead", "inner" or "none".  Inodes are positive: readdir returns no     *)
(* entry with inode 0.  foundUnknown is a flag of the result.              *)
(***************************************************************************)
ASSUME DirAssumption ==
  /\ \A dir \in Directories :
       /\ IsFiniteSet(dir)
       /\ \A e \in dir : e.inode \in 1 .. Power[InoBits] - 1 /\ e.len \in Nat \ {0}
       /\ \A e, f \in dir : e.id = f.id => e = f
  /\ \A fl \in FlagSets : "foundUnknown" \notin fl
  /\ Null \notin {"names", "dents"} \X Nat
  /\ NamesAlloc \in Nat \ {0} /\ DentAlloc \in Nat \ {0}
  /\ MallocFails \in BOOLEAN

VARIABLES
  at,             \* where the worker is in the function
  directory,      \* the entries of the directory
  seen,           \* those readdir has returned
  dirp,           \* TRUE iff self->dirp is open
  flags,          \* the local flags
  entp,           \* what readdir has just returned
  ptr1, ptr2,     \* req->ptr1 and ->ptr2: the entries, the names
  heap,           \* the blocks allocated, pairs of a kind and a size
  moved,          \* what realloc has returned, while wrklock is held
  wrklocked,      \* TRUE iff the worker holds wrklock
  namesoffs,      \* bytes of names used
  dentoffs,       \* how many names there are
  inode_bits,     \* the bits of all inodes
  is_cancelled,   \* EIO_FLAG_CANCELLED of the request
  int1, result    \* req->int1 and ->result

placeVars   == <<at, directory, seen, dirp>>
bufferVars  == <<ptr1, ptr2, heap, moved, wrklocked>>
contentVars == <<namesoffs, dents, dentoffs, inode_bits, sortVars>>
reqResult   == <<int1, result>>
scandirVars == <<placeVars, flags, entp, bufferVars, contentVars, is_cancelled,
                 reqResult>>

ScandirIdle ==
  /\ at = "idle" /\ directory = {} /\ seen = {} /\ dirp = FALSE
  /\ flags = {} /\ entp = Null
  /\ ptr1 = Null /\ ptr2 = Null /\ heap = {} /\ moved = Null
  /\ wrklocked = FALSE /\ SortIdle
  /\ namesoffs = 0 /\ dentoffs = 0 /\ inode_bits = {}
  /\ is_cancelled = FALSE /\ int1 = {} /\ result = 0

ScandirInit ==
  /\ at = "open" /\ directory \in Directories /\ seen = {} /\ dirp = FALSE
  /\ int1 \in FlagSets /\ flags = int1 /\ entp = Null
  /\ ptr1 = Null /\ ptr2 = Null /\ heap = {} /\ moved = Null
  /\ wrklocked = FALSE /\ SortIdle
  /\ namesoffs = 0 /\ dentoffs = 0 /\ inode_bits = {}
  /\ is_cancelled = FALSE /\ result = 0

GotoS(label) == at' = label

-----------------------------------------------------------------------------
(***************************************************************************)
(* Memory.                                                                 *)
(***************************************************************************)
Size(block) == block[2]

\* What malloc or realloc may return
Allocated(kind, bytes) ==
  {<<kind, bytes>>} \cup (IF MallocFails THEN {Null} ELSE {})

\* realloc frees the old block if it succeeds.
Realloc(kind, old, new) ==
  /\ moved' = new
  /\ heap' = IF new = Null THEN heap ELSE (heap \ {old}) \cup {new}

\* Without an array of entries the flags that sort it are dropped.
Usable(f) == IF "dents" \in f THEN f ELSE f \ {"dirsFirst", "statOrder"}

\* Under wrklock: opendir and the first allocations
Open ==
  /\ at = "open"
  /\ result' = -1
  /\ flags' = Usable(flags)
  /\ \E opened \in BOOLEAN, names \in Allocated("names", NamesAlloc),
        entries \in IF Usable(flags) = {} THEN {Null} ELSE Allocated("dents", DentAlloc) :
       /\ dirp' = opened
       /\ ptr1' = entries /\ ptr2' = names
       /\ heap' = {entries, names} \ {Null}
       /\ GotoS(IF opened /\ names # Null /\ (Usable(flags) = {} \/ entries # Null)
                  THEN "read" ELSE "end")
  /\ UNCHANGED <<directory, seen, entp, moved, wrklocked, contentVars,
                 is_cancelled, int1>>

-----------------------------------------------------------------------------
(***************************************************************************)
(* One entry.                                                              *)
(***************************************************************************)

\* . and .. are skipped.
BugSkipped(e) == e.dots \in {"self", "lead"}
Skipped(e) == e.dots = "self"

Read(e) ==
  /\ at = "read"
  /\ e \in directory \ seen
  /\ seen' = seen \cup {e}
  /\ entp' = e
  /\ GotoS(IF Skipped(e) THEN "cancelTest" ELSE "name")
  /\ UNCHANGED <<directory, dirp, flags, bufferVars, contentVars, is_cancelled,
                 reqResult>>

\* readdir fails, with errno set: the result stays -1.
ReadError ==
  /\ at = "read"
  /\ GotoS("end")
  /\ UNCHANGED <<directory, seen, dirp, flags, entp, bufferVars, contentVars,
                 is_cancelled, reqResult>>

\* The terminating 0 is copied too.
NameSize == entp.len + 1

NameFits == namesoffs + NameSize <= Size(ptr2)
DentFits == Len(dents) < Size(ptr1)

\* X_LOCK and the call of realloc, with twice the size
GrowNames ==
  /\ at = "name" /\ ptr2 # Null /\ ~NameFits
  /\ wrklocked' = TRUE
  /\ \E new \in Allocated("names", 2 * Size(ptr2)) : Realloc("names", ptr2, new)
  /\ GotoS("nameMoved")
  /\ UNCHANGED <<directory, seen, dirp, flags, entp, ptr1, ptr2, contentVars,
                 is_cancelled, reqResult>>

\* The assignment and X_UNLOCK; the size is tested again.
NamesMoved ==
  /\ at = "nameMoved"
  /\ ptr2' = moved /\ moved' = Null
  /\ wrklocked' = FALSE
  /\ GotoS("name")
  /\ UNCHANGED <<directory, seen, dirp, flags, entp, ptr1, heap, contentVars,
                 is_cancelled, reqResult>>

\* The break after a failed realloc leaves the inner loop only, and the name
\* is copied to address namesoffs: the process ends.
Crash ==
  /\ at = "name" /\ ptr2 = Null
  /\ GotoS("crashed")
  /\ UNCHANGED <<directory, seen, dirp, flags, entp, bufferVars, contentVars,
                 is_cancelled, reqResult>>

\* The name is copied.  Without an array of entries that is all.
PutName ==
  /\ at = "name" /\ ptr2 # Null /\ NameFits
  /\ IF ptr1 = Null
       THEN /\ GotoS("cancelTest")
            /\ namesoffs' = namesoffs + NameSize
            /\ dentoffs' = dentoffs + 1
       ELSE GotoS("dent") /\ UNCHANGED <<namesoffs, dentoffs>>
  /\ UNCHANGED <<directory, seen, dirp, flags, entp, bufferVars, dents,
                 inode_bits, sortVars, is_cancelled, reqResult>>

BugGrowDents ==
  /\ at = "dent" /\ ~DentFits
  /\ \E new \in Allocated("dents", 2 * Size(ptr1)) : Realloc("dents", ptr1, new)
  /\ GotoS("dentMoved")
  /\ UNCHANGED <<directory, seen, dirp, flags, entp, ptr1, ptr2, wrklocked,
                 contentVars, is_cancelled, reqResult>>

GrowDents ==
  /\ at = "dent" /\ ~DentFits
  /\ wrklocked' = TRUE
  /\ \E new \in Allocated("dents", 2 * Size(ptr1)) : Realloc("dents", ptr1, new)
  /\ GotoS("dentMoved")
  /\ UNCHANGED <<directory, seen, dirp, flags, entp, ptr1, ptr2, contentVars,
                 is_cancelled, reqResult>>

\* Here a failure ends the function, with result -1.
DentsMoved ==
  /\ at = "dentMoved"
  /\ ptr1' = moved /\ moved' = Null
  /\ wrklocked' = FALSE
  /\ GotoS(IF moved = Null THEN "end" ELSE "dent")
  /\ UNCHANGED <<directory, seen, dirp, flags, entp, ptr2, heap, contentVars,
                 is_cancelled, reqResult>>

\* The score puts what is likely a directory first.
ByLength(len) == IF len <= 1 THEN 3 - len
                 ELSE IF len <= 3 THEN 4 ELSE IF len <= 6 THEN 5 ELSE 6
Score(e) ==
  IF "dirsFirst" \notin flags THEN 7
  ELSE IF e.type = "dir" THEN 0
  ELSE IF e.type = "unknown" /\ e.dots = "lead" THEN 1
  ELSE IF e.type = "unknown" /\ e.dots = "none" THEN ByLength(e.len)
  ELSE 7

PutDent ==
  /\ at = "dent" /\ DentFits
  /\ dents' = Append(dents, [nameofs |-> namesoffs, namelen |-> entp.len,
                             id |-> entp.id, inode |-> entp.inode,
                             type |-> entp.type, score |-> Score(entp)])
  /\ inode_bits' = inode_bits \cup BitsOf(entp.inode)
  /\ flags' = IF entp.type = "unknown" THEN flags \cup {"foundUnknown"} ELSE flags
  /\ namesoffs' = namesoffs + NameSize
  /\ dentoffs' = dentoffs + 1
  /\ GotoS("cancelTest")
  /\ UNCHANGED <<directory, seen, dirp, entp, bufferVars, sortVars, is_cancelled,
                 reqResult>>

CancelTest ==
  /\ at = "cancelTest"
  /\ GotoS(IF is_cancelled THEN "end" ELSE "read")
  /\ entp' = Null
  /\ UNCHANGED <<directory, seen, dirp, flags, bufferVars, contentVars,
                 is_cancelled, reqResult>>

-----------------------------------------------------------------------------
(***************************************************************************)
(* The end of the directory.                                               *)
(***************************************************************************)
AllScoreBits == 0 .. 2

\* By the score too, or by the inode alone, or no sort.  If all types are known
\* the directories are first moved to the front.
BugArrange ==
  /\ bits' = Bits({}, inode_bits)
  /\ size' = dentoffs
  /\ pa' = 1 /\ pb' = dentoffs + 1
  /\ loop' = IF "dirsFirst" \in flags THEN "dirs" ELSE "sort"

Arrange ==
  /\ bits' = Bits(IF "dirsFirst" \in flags /\ {"statOrder", "foundUnknown"} \cap flags # {}
                    THEN AllScoreBits ELSE {}, inode_bits)
  /\ size' = dentoffs
  /\ pa' = 1 /\ pb' = dentoffs + 1
  /\ loop' = IF {"statOrder", "foundUnknown"} \cap flags # {} THEN "sort" ELSE "dirs"

ReadEnd ==
  /\ at = "read"
  /\ seen = directory
  /\ int1' = flags
  /\ result' = dentoffs
  /\ IF {"statOrder", "dirsFirst"} \cap flags # {}
       THEN GotoS("sort") /\ Arrange
       ELSE GotoS("end") /\ UNCHANGED <<bits, size, pa, pb, loop>>
  /\ UNCHANGED <<directory, seen, dirp, flags, entp, bufferVars, namesoffs, dents,
                 dentoffs, inode_bits, partVars, insertVars, is_cancelled>>

SortStep ==
  /\ at = "sort"
  /\ SortNext
  /\ UNCHANGED <<placeVars, flags, entp, bufferVars, namesoffs, dentoffs,
                 inode_bits, is_cancelled, reqResult>>

Sorted ==
  /\ at = "sort" /\ loop = "sorted"
  /\ GotoS("end")
  /\ UNCHANGED <<directory, seen, dirp, flags, entp, bufferVars, contentVars,
                 is_cancelled, reqResult>>

\* etp_worker_clear, under reslock, closes the directory.
CloseDir ==
  /\ at = "end"
  /\ dirp' = FALSE
  /\ GotoS("returned")
  /\ UNCHANGED <<directory, seen, flags, entp, bufferVars, contentVars,
                 is_cancelled, reqResult>>

\* eio_cancel from another thread; nobody looks at it any more after the reading
CancelScandir ==
  /\ at \notin {"idle", "sort", "end", "returned", "crashed"}
  /\ ~is_cancelled
  /\ is_cancelled' = TRUE
  /\ UNCHANGED <<placeVars, flags, entp, bufferVars, contentVars, reqResult>>

ScandirNext ==
  \/ Open \/ ReadError \/ ReadEnd \/ SortStep \/ Sorted
  \/ \E e \in directory : Read(e)
  \/ GrowNames \/ NamesMoved \/ Crash \/ PutName
  \/ GrowDents \/ DentsMoved \/ PutDent
  \/ CancelTest \/ CloseDir \/ CancelScandir
=============================================================================
