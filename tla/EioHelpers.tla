----------------------------- MODULE EioHelpers -----------------------------
(***************************************************************************)
(* Calls of the helpers of eio_execute: eio__scandir, or one of the calls  *)
(* in EioEmulation.tla, or positioned transfers of several workers         *)
(* (EioPreadWrite.tla).  Only the last share anything, so of the others    *)
(* one call at a time is considered.  What a directory listing has to      *)
(* guarantee is stated here, the rest in the two modules.                  *)
(***************************************************************************)
EXTENDS EioScandir, EioEmulation, EioPreadWrite

vars == <<scandirVars, emulationVars, positionVars>>

\* eio_execute: the type of the request selects the helper.
Init == \/ ScandirInit /\ EmulationIdle /\ PositionedIdle
        \/ ScandirIdle /\ EmulationInit /\ PositionedIdle
        \/ ScandirIdle /\ EmulationIdle /\ PositionedInit

Done == /\ at \in {"idle", "returned", "crashed"} /\ step \in {"idle", "returned"}
        /\ \A w \in Positioners : ppc[w] = "unlocked"
        /\ UNCHANGED vars

Next == \/ ScandirNext /\ UNCHANGED <<emulationVars, positionVars>>
        \/ EmulationNext /\ UNCHANGED <<scandirVars, positionVars>>
        \/ PositionedNext /\ UNCHANGED <<scandirVars, emulationVars>>
        \/ Done

Spec == Init /\ [][Next]_vars

-----------------------------------------------------------------------------
(***************************************************************************)
(* Directories.                                                            *)
(***************************************************************************)
Listed == {e \in directory : e.dots # "self"}

Listing == at \in {"end", "returned"} /\ result >= 0

Overlap(d, e) == /\ d.nameofs <= e.nameofs + e.namelen
                 /\ e.nameofs <= d.nameofs + d.namelen

\* A listing that ends with a result has every entry of the directory but .
\* and .. exactly once, however the arrays grew and were rearranged, each
\* with a name of its own in the other array; and tells whether a type is
\* unknown.
ListingComplete ==
  Listing =>
    /\ result = Cardinality(Listed)
    /\ ptr1 # Null =>
         /\ Len(dents) = result
         /\ {dents[i].id : i \in DOMAIN dents} = {e.id : e \in Listed}
         /\ \A i, j \in DOMAIN dents : i # j => ~Overlap(dents[i], dents[j])
         /\ "foundUnknown" \in int1 <=> \E e \in Listed : e.type = "unknown"

\* The order the flags ask for, eio.h:73-74: with DIRS_FIRST every directory
\* before everything else, with STAT_ORDER by inode, as far as the scores, the
\* order of likely directories, leave it open.
ListingOrdered ==
  Listing =>
    \A i, j \in DOMAIN dents : i < j =>
      /\ "dirsFirst" \in int1 /\ dents[j].type = "dir" =>
           dents[i].type = "dir" /\ dents[i].inode <= dents[j].inode
      /\ "statOrder" \in int1 /\ "dirsFirst" \notin int1 =>
           dents[i].inode <= dents[j].inode
      /\ "dirsFirst" \in int1 /\ {"statOrder", "foundUnknown"} \cap int1 # {} =>
           ~Before(dents[j], dents[i])

\* The inner loop of the insertion sort has no test for the front of the array.
\* It relies on the smallest element being there, and looks for that in the
\* first EIO_SORT_CUTOFF + 1 elements of a large array only: the radix sort has
\* to have left it in the first of its short partitions.
SentinelHolds == loop = "shift" => sj \in 1 .. si - 1

\* The stacks of the radix sort have one more entry than there are bits to test:
\* what a part puts off are the backs of the bits tested so far.
StacksFit == Len(stack) < Cardinality(bits) \/ stack = <<>>

\* Whenever another thread can have wrklock, so at any time in a handler of
\* fork, the request's two pointers are null or point to blocks that are
\* allocated: eio_destroy frees them.  What is in use fits in them, and no
\* other block is left behind (but the old one when realloc fails).
BuffersOwned ==
  /\ ~wrklocked => {ptr1, ptr2} \ {Null} \subseteq heap
  /\ ~wrklocked /\ ptr2 # Null => namesoffs <= Size(ptr2)
  /\ ~wrklocked /\ ptr1 # Null => Len(dents) <= Size(ptr1)
  /\ ~wrklocked => \A block \in heap :
       /\ block[1] = "dents" => ptr1 \in {block, Null}
       /\ block[1] = "names" => ptr2 \in {block, Null}
=============================================================================
