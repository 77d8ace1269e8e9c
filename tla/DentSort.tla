------------------------------ MODULE DentSort ------------------------------
(***************************************************************************)
(* How libeio sorts the entries of a directory (eio.c:1065-1228): by score *)
(* and inode, so that reading them touches the disk in one direction.      *)
(* Large arrays first go through a radix sort that leaves partitions       *)
(* shorter than EIO_SORT_CUTOFF unsorted; an insertion sort does the rest. *)
(*                                                                         *)
(* The sort is made of loops; one round of a loop is a step.  The array is *)
(* a sequence of records with the fields score, inode and type at least.   *)
(* As in the code, base and end delimit a part of it: from base up to, and *)
(* not including, end.                                                     *)
(***************************************************************************)
EXTENDS Integers, Sequences

CONSTANTS Cutoff,   \* EIO_SORT_CUTOFF, 30 in the code
          Fast,     \* EIO_SORT_FAST, 60 in the code
          InoBits   \* the width of ino_t

ASSUME SortAssumption == /\ Cutoff \in Nat \ {0} /\ Fast \in Nat /\ Cutoff < Fast
                         /\ InoBits \in Nat

VARIABLES
  loop,         \* the loop that runs, "none" outside of the sort
  dents,        \* the array
  size,         \* how many elements are sorted, the first of the array
  bits,         \* the bits that the radix sort tests
  part, stack,  \* the part it is at, and those put off: [base, end, bit]
  pa, pb,         \* a and b: what is left to partition
  si, sj,         \* i and j: the loops of the insertion sort
  smallest, held  \* the smallest element so far; the element to insert

partVars   == <<part, stack>>
insertVars == <<si, sj, smallest, held>>
sortVars   == <<loop, size, bits, partVars, pa, pb, insertVars>>

SortIdle == /\ loop = "none" /\ dents = <<>> /\ size = 0 /\ bits = {}
            /\ part = [base |-> 0, end |-> 0, bit |-> 0] /\ stack = <<>>
            /\ pa = 0 /\ pb = 0 /\ si = 0 /\ sj = 0 /\ smallest = 0
            /\ held = [score |-> 0, inode |-> 0]

\* eio_dent_cmp (x, y) < 0
Before(x, y) == \/ x.score < y.score
                \/ x.score = y.score /\ x.inode < y.inode

Swap(d, x, y) == [d EXCEPT ![x] = d[y], ![y] = d[x]]

-----------------------------------------------------------------------------
(***************************************************************************)
(* Bits.  Those of the inode are numbered from 0, those of the score come  *)
(* after them: the order of the array bits in the code.                    *)
(***************************************************************************)
Power[n \in Nat] == IF n = 0 THEN 1 ELSE 2 * Power[n - 1]

BitSet(n, k) == (n \div Power[k]) % 2 = 1

HasBit(x, k) == IF k < InoBits THEN BitSet(x.inode, k)
                               ELSE BitSet(x.score, k - InoBits)

\* What an inode adds to inode_bits
BitsOf(n) == {k \in 0 .. InoBits - 1 : BitSet(n, k)}

\* The bits to test: those that some inode has, and those of the score if asked for
BugBits(score_bits, inode_bits) == inode_bits
Bits(score_bits, inode_bits) == inode_bits \cup {InoBits + k : k \in score_bits}

\* Where *--bit points to; nowhere at the end of the bits
BugBelow(k) == {x \in bits : x <= k /\ \A y \in bits : y <= k => y <= x}
Below(k) == {x \in bits : x < k /\ \A y \in bits : y < k => y <= x}

-----------------------------------------------------------------------------
(***************************************************************************)
(* The partition loop, which the code has twice: elements that belong to   *)
(* the back are exchanged with elements that do not.                       *)
(***************************************************************************)
Behind(x) == IF loop = "dirs" THEN x.type # "dir" ELSE HasBit(x, part.bit)

Partition ==
  /\ loop \in {"dirs", "split"} /\ pa < pb
  /\ \/ /\ ~Behind(dents[pa])
        /\ pa' = pa + 1 /\ UNCHANGED <<dents, pb>>
     \/ /\ Behind(dents[pa]) /\ Behind(dents[pb - 1])
        /\ pb' = pb - 1 /\ UNCHANGED <<dents, pa>>
     \/ /\ Behind(dents[pa]) /\ ~Behind(dents[pb - 1])
        /\ dents' = Swap(dents, pa, pb - 1)
        /\ pa' = pa + 1 /\ pb' = pb - 1
  /\ UNCHANGED <<loop, size, bits, partVars, insertVars>>

\* The directories are in front, and only they are sorted.
DirsDone ==
  /\ loop = "dirs" /\ pb <= pa
  /\ size' = pa - 1
  /\ loop' = "sort"
  /\ UNCHANGED <<dents, bits, partVars, pa, pb, insertVars>>

-----------------------------------------------------------------------------
(***************************************************************************)
(* eio_dent_radix_sort.                                                    *)
(***************************************************************************)

\* The head of eio_dent_insertion_sort: where the smallest element is looked for
StartInsertion ==
  /\ loop' = "minimum"
  /\ si' = IF size > Fast THEN Cutoff + 1 ELSE size
  /\ smallest' = 1
  /\ UNCHANGED <<sj, held>>

\* eio_dent_sort
Sort ==
  /\ loop = "sort"
  /\ \/ /\ size <= 1
        /\ loop' = "sorted" /\ UNCHANGED <<partVars, insertVars>>
     \/ /\ 1 < size /\ size <= Fast
        /\ StartInsertion /\ UNCHANGED partVars
     \/ /\ Fast < size
        /\ \E k \in bits : /\ \A x \in bits : x <= k
                           /\ part' = [base |-> 1, end |-> size + 1, bit |-> k]
        /\ loop' = "parts" /\ UNCHANGED <<stack, insertVars>>
  /\ UNCHANGED <<dents, size, bits, pa, pb>>

\* while (stk_idx--)
NextPart ==
  \/ /\ stack = <<>>
     /\ StartInsertion /\ UNCHANGED partVars
  \/ /\ stack # <<>>
     /\ part' = stack[Len(stack)]
     /\ stack' = SubSeq(stack, 1, Len(stack) - 1)
     /\ loop' = "parts" /\ UNCHANGED insertVars

\* A short part stays as it is.
TakePart ==
  /\ loop = "parts"
  /\ \/ /\ part.end - part.base < Cutoff
        /\ NextPart /\ UNCHANGED <<pa, pb>>
     \/ /\ part.end - part.base >= Cutoff
        /\ pa' = part.base /\ pb' = part.end
        /\ loop' = "split" /\ UNCHANGED <<partVars, insertVars>>
  /\ UNCHANGED <<dents, size, bits>>

\* The front goes on with the next bit, the back comes later with the same.
\* With no bit left neither is looked at again.
SplitDone ==
  /\ loop = "split" /\ pb <= pa
  /\ \/ /\ Below(part.bit) = {}
        /\ NextPart
     \/ /\ \E k \in Below(part.bit) :
             /\ stack' = Append(stack, [part EXCEPT !.base = pa, !.bit = k])
             /\ part' = [part EXCEPT !.end = pa, !.bit = k]
        /\ loop' = "parts" /\ UNCHANGED insertVars
  /\ UNCHANGED <<dents, size, bits, pa, pb>>

-----------------------------------------------------------------------------
(***************************************************************************)
(* eio_dent_insertion_sort.                                                *)
(***************************************************************************)
FindMinimum ==
  /\ loop = "minimum" /\ si > 1
  /\ smallest' = IF Before(dents[si], dents[smallest]) THEN si ELSE smallest
  /\ si' = si - 1
  /\ UNCHANGED <<loop, dents, size, bits, partVars, pa, pb, sj, held>>

\* The smallest element becomes the sentinel.
MinimumFirst ==
  /\ loop = "minimum" /\ si <= 1
  /\ dents' = Swap(dents, 1, smallest)
  /\ si' = 2
  /\ loop' = "insert"
  /\ UNCHANGED <<size, bits, partVars, pa, pb, sj, smallest, held>>

Insert ==
  /\ loop = "insert"
  /\ IF si <= size THEN held' = dents[si] /\ sj' = si - 1 /\ loop' = "shift"
                  ELSE loop' = "sorted" /\ UNCHANGED <<held, sj>>
  /\ UNCHANGED <<dents, size, bits, partVars, pa, pb, si, smallest>>

\* No test for the front of the array: the sentinel is not greater.
Shift ==
  /\ loop = "shift" /\ Before(held, dents[sj])
  /\ dents' = [dents EXCEPT ![sj + 1] = dents[sj]]
  /\ sj' = sj - 1
  /\ UNCHANGED <<loop, size, bits, partVars, pa, pb, si, smallest, held>>

Place ==
  /\ loop = "shift" /\ ~Before(held, dents[sj])
  /\ dents' = [dents EXCEPT ![sj + 1] = held]
  /\ si' = si + 1
  /\ loop' = "insert"
  /\ UNCHANGED <<size, bits, partVars, pa, pb, sj, smallest, held>>

SortNext == \/ Partition \/ DirsDone
            \/ Sort \/ TakePart \/ SplitDone
            \/ FindMinimum \/ MinimumFirst \/ Insert \/ Shift \/ Place
=============================================================================
