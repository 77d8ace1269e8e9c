--------------------------- MODULE EioPreadWrite ---------------------------
(***************************************************************************)
(* pread and pwrite on systems without them (eio.c:235-242, 812-843):      *)
(* workers move the position of the open file, transfer, and move it back, *)
(* under preadwritelock, which the fork handlers take as well.             *)
(***************************************************************************)
EXTENDS Integers

CONSTANTS
  Positioners,   \* the workers with a pread or pwrite on the same open file
  Positions,     \* positions in the file
  Nobody         \* the owner of a free lock

ASSUME PositionsAssumption == Positions \subseteq Nat /\ Nobody \notin Positioners

VARIABLES
  preadwritelock,  \* who holds it
  filepos,         \* the position of the open file
  startpos,        \* what it was before any of the calls
  asked,           \* per worker: the argument offset
  ooffset,         \* ... the position it has saved
  done_at,         \* ... where its transfer began, or -1
  ppc              \* ... where it is

positionVars == <<preadwritelock, filepos, startpos, asked, ooffset, done_at, ppc>>

PositionedInit ==
  /\ preadwritelock = Nobody
  /\ startpos \in Positions /\ filepos = startpos
  /\ asked \in [Positioners -> Positions]
  /\ ooffset = [w \in Positioners |-> 0] /\ done_at = [w \in Positioners |-> -1]
  /\ ppc = [w \in Positioners |-> "lock"]

PositionedIdle ==
  /\ preadwritelock = Nobody /\ startpos = 0 /\ filepos = 0
  /\ asked = [w \in Positioners |-> 0]
  /\ ooffset = [w \in Positioners |-> 0] /\ done_at = [w \in Positioners |-> -1]
  /\ ppc = [w \in Positioners |-> "unlocked"]

GoTo(w, from, to) == ppc[w] = from /\ ppc' = [ppc EXCEPT ![w] = to]

BugLock(w) ==
  /\ GoTo(w, "lock", "save")
  /\ preadwritelock' = w
  /\ UNCHANGED <<filepos, startpos, asked, ooffset, done_at>>

Lock(w) ==
  /\ preadwritelock = Nobody
  /\ GoTo(w, "lock", "save")
  /\ preadwritelock' = w
  /\ UNCHANGED <<filepos, startpos, asked, ooffset, done_at>>

Save(w) ==
  /\ GoTo(w, "save", "seek")
  /\ ooffset' = [ooffset EXCEPT ![w] = filepos]
  /\ UNCHANGED <<preadwritelock, filepos, startpos, asked, done_at>>

Seek(w) ==
  /\ GoTo(w, "seek", "transfer")
  /\ filepos' = asked[w]
  /\ UNCHANGED <<preadwritelock, startpos, asked, ooffset, done_at>>

\* read or write moves the position on, unless it fails.
Transfer(w) ==
  /\ GoTo(w, "transfer", "restore")
  /\ done_at' = [done_at EXCEPT ![w] = filepos]
  /\ filepos' \in {filepos, filepos + 1}
  /\ UNCHANGED <<preadwritelock, startpos, asked, ooffset>>

Restore(w) ==
  /\ GoTo(w, "restore", "unlock")
  /\ filepos' = ooffset[w]
  /\ UNCHANGED <<preadwritelock, startpos, asked, ooffset, done_at>>

Unlock(w) ==
  /\ GoTo(w, "unlock", "unlocked")
  /\ preadwritelock' = Nobody
  /\ UNCHANGED <<filepos, startpos, asked, ooffset, done_at>>

PositionedNext == \E w \in Positioners :
  Lock(w) \/ Save(w) \/ Seek(w) \/ Transfer(w) \/ Restore(w) \/ Unlock(w)

-----------------------------------------------------------------------------
\* Workers that read and write one open file at positions of their own do so
\* at those positions, and leave the file's own position as it was, eio.c:236
\* "safe against themselves".
PositionsKept ==
  /\ \A w \in Positioners : done_at[w] \in {-1, asked[w]}
  /\ preadwritelock = Nobody => filepos = startpos
=============================================================================
