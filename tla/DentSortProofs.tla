--------------------------- MODULE DentSortProofs ---------------------------
(***************************************************************************)
(* The inductive invariant of the sort of DentSort.tla, for arrays of the  *)
(* entries of EioScandir.tla, and that every step of the sort keeps it:    *)
(* whatever the length of the array, the width of ino_t and the two limits *)
(* EIO_SORT_CUTOFF and EIO_SORT_FAST.                                      *)
(*                                                                         *)
(* Numbers are compared bit by bit, and a least element or a highest bit   *)
(* is taken where a program would loop: LeastNat, from the library's       *)
(* theorems on well-founded relations, stands for induction.               *)
(***************************************************************************)
EXTENDS EioScandir, FiniteSetTheorems, SequenceTheorems, WellFoundedInduction,
        TLAPS

-----------------------------------------------------------------------------
(***************************************************************************)
(* The invariant of the sort.                                              *)
(***************************************************************************)
Inodes == 1 .. Power[InoBits] - 1

Dent == [nameofs : Nat, namelen : Nat, id : {e.id : e \in UNION Directories},
         inode : Inodes, type : {e.type : e \in UNION Directories}, score : 0 .. 7]

Part == [base : Nat, end : Nat, bit : Nat]

\* The elements: while the inner loop of the insertion sort runs, the one taken
\* out belongs to the place that the loop has made free.
Array == IF loop = "shift" THEN [dents EXCEPT ![sj + 1] = held] ELSE dents

\* In the first n elements nothing from c on is smaller than anything before it.
Cut(d, n, c) == \A x \in 1 .. c - 1, y \in c .. n : ~Before(d[y], d[x])

Ascending(d, n) == \A x, y \in 1 .. n : x < y => ~Before(d[y], d[x])

\* What a step of a loop may rely on for its indices
SortTypes ==
  /\ loop \in {"none", "dirs", "sort", "parts", "split", "minimum", "insert",
               "shift", "sorted"}
  /\ dents \in Seq(Dent) /\ size \in 0 .. Len(dents)
  /\ bits \subseteq 0 .. InoBits + 2
  /\ part \in Part /\ stack \in Seq(Part)
  /\ pa \in Nat /\ pb \in Nat /\ si \in Nat /\ sj \in Nat /\ smallest \in Nat
  /\ loop = "dirs" => 1 <= pa /\ pa <= pb /\ pb <= Len(dents) + 1
  /\ loop \in {"parts", "split", "minimum", "insert", "shift"} => 1 < size
  /\ loop \in {"parts", "split"} => Fast < size
  /\ loop = "split" => /\ part.base < part.end
                       /\ part.base <= pa /\ pa <= pb /\ pb <= part.end
  /\ loop \notin {"parts", "split"} => stack = <<>>
  /\ loop = "minimum" => 1 <= si /\ si <= size /\ smallest \in 1 .. size
  /\ loop = "insert" => 2 <= si /\ si <= size + 1
  /\ loop = "shift" => 2 <= si /\ si <= size /\ sj \in 1 .. si - 1 /\ held \in Dent

\* The bits that the radix sort tests tell the elements apart that are sorted.
Concerned(x) == IF loop = "dirs" THEN Array[x].type = "dir" ELSE x <= size

BitsCover ==
  loop # "none" =>
    /\ \A x \in DOMAIN Array : BitsOf(Array[x].inode) \subseteq bits
    /\ \/ \A k \in 0 .. 2 : InoBits + k \in bits
       \/ \A x, y \in DOMAIN Array :
            Concerned(x) /\ Concerned(y) => Array[x].score = Array[y].score

DirsSplit ==
  loop = "dirs" => /\ \A x \in 1 .. pa - 1 : dents[x].type = "dir"
                   /\ \A x \in pb .. Len(dents) : dents[x].type # "dir"

\* The elements of a part agree in all bits above that of the part, and the part
\* is in its place.
PartOK(d, n, b, p) ==
  /\ 1 <= p.base /\ p.base <= p.end /\ p.end <= n + 1
  /\ Cut(d, n, p.base) /\ Cut(d, n, p.end)
  /\ p.bit \in b
  /\ \A x, y \in p.base .. p.end - 1, k \in b :
       p.bit < k => (HasBit(d[x], k) <=> HasBit(d[y], k))

\* The parts put off follow each other up to the end of the array, and have been
\* split at one bit more each.
StackOK ==
  loop \in {"parts", "split"} =>
    /\ PartOK(dents, size, bits, part)
    /\ stack = <<>> => part.end = size + 1
    /\ stack # <<>> => /\ part.end = stack[Len(stack)].base
                       /\ part.bit <= stack[Len(stack)].bit
                       /\ stack[1].end = size + 1
    /\ \A n \in 1 .. Len(stack) :
         /\ PartOK(dents, size, bits, stack[n])
         /\ part.end <= stack[n].base
         /\ \A m \in 1 .. n - 1 : stack[n].end <= stack[m].base
         /\ n > 1 => /\ stack[n].end = stack[n - 1].base
                     /\ stack[n].bit < stack[n - 1].bit
         /\ n <= Cardinality({k \in bits : stack[n].bit < k})

HalvesOK ==
  loop = "split" => /\ \A x \in part.base .. pa - 1 : ~HasBit(dents[x], part.bit)
                    /\ \A x \in pb .. part.end - 1 : HasBit(dents[x], part.bit)

\* The first part that is not empty is short, or its elements are equal.
FirstOK(d, n, c) ==
  \E e \in 2 .. c : /\ Cut(d, n, e)
                    /\ e <= Cutoff \/ \A x \in 1 .. e - 1 : ~Before(d[x], d[1])

RadixFirst == loop \in {"parts", "split"} => part.base = 1 \/ FirstOK(dents, size, part.base)

\* The first element is not greater than those that the search leaves out.
MinimumNear ==
  loop = "minimum" =>
    LET n == IF size > Fast THEN Cutoff + 1 ELSE size
    IN  /\ si <= n /\ smallest <= n
        /\ \A y \in n + 1 .. size : ~Before(dents[y], dents[1])
        /\ \A y \in {1} \cup si + 1 .. n : ~Before(dents[y], dents[smallest])

Smallest == loop \in {"insert", "shift"} => \A y \in 1 .. size : ~Before(Array[y], Array[1])

\* The part in front of i is in order; in the inner loop, but for the free place.
Prefix ==
  /\ loop = "insert" => Ascending(dents, si - 1)
  /\ loop = "shift" =>
       /\ \A x, y \in 1 .. si : x < y /\ x # sj + 1 /\ y # sj + 1 => ~Before(dents[y], dents[x])
       /\ \A y \in sj + 2 .. si : Before(held, dents[y])
  /\ loop = "sorted" => Ascending(dents, size)

SortInv == /\ SortTypes /\ BitsCover /\ DirsSplit
           /\ StackOK /\ HalvesOK /\ RadixFirst
           /\ MinimumNear /\ Smallest /\ Prefix

-----------------------------------------------------------------------------
(***************************************************************************)
(* Numbers and their bits.                                                 *)
(***************************************************************************)

\* Induction: a set of natural numbers that is not empty has a least one.
LEMMA LeastNat ==
  ASSUME NEW T, T \subseteq Nat, T # {}
  PROVE  \E x \in T : \A y \in T : x <= y
<1> DEFINE Less == {p \in Nat \X Nat : p[1] < p[2]}
<1>1. IsWellFoundedOn(Less, Nat)
  BY NatLessThanWellFounded DEF OpToRel
<1>2. PICK x \in T : \A y \in T : <<y, x>> \notin Less
  <2> HIDE DEF Less
  <2> QED BY <1>1, WFMin
<1>3. \A y \in T : ~(y < x)
  BY <1>2
<1> QED
  BY <1>3

\* f has the powers of two up to n.
PowersTo(f, n) == /\ DOMAIN f = 0 .. n
                  /\ \A k \in 0 .. n : f[k] = IF k = 0 THEN 1 ELSE 2 * f[k - 1]

\* Two functions that have the powers of two agree where both have them.
LEMMA PowersUnique ==
  ASSUME NEW m \in Nat, NEW n \in Nat, m <= n, NEW f, NEW g,
         PowersTo(f, m), PowersTo(g, n), NEW k \in 0 .. m
  PROVE  f[k] = g[k]
<1> DEFINE T == {x \in 0 .. m : f[x] # g[x]}
<1> SUFFICES ASSUME T # {} PROVE FALSE
  OBVIOUS
<1>0. T \subseteq Nat
  OBVIOUS
<1>1. PICK x \in T : \A y \in T : x <= y
  <2> HIDE DEF T
  <2> QED BY <1>0, LeastNat
<1>2. x # 0
  BY DEF PowersTo
<1>3. f[x - 1] = g[x - 1]
  BY <1>1, <1>2
<1> QED
  BY <1>1, <1>2, <1>3 DEF PowersTo

\* There is such a function up to every number.
LEMMA PowersExist == ASSUME NEW n \in Nat PROVE \E f : PowersTo(f, n)
<1> DEFINE T == {x \in Nat : ~\E f : PowersTo(f, x)}
<1> SUFFICES ASSUME T # {} PROVE FALSE
  OBVIOUS
<1>1. PICK x \in T : \A y \in T : x <= y
  BY LeastNat
<1>2. x # 0
  <2>1. PowersTo([k \in 0 .. 0 |-> 1], 0)
    BY DEF PowersTo
  <2> QED BY <2>1
<1>3. PICK f : PowersTo(f, x - 1)
  BY <1>1, <1>2
<1>4. PowersTo([k \in 0 .. x |-> IF k = x THEN 2 * f[x - 1] ELSE f[k]], x)
  BY <1>2, <1>3 DEF PowersTo
<1> QED
  BY <1>4

\* The recursive function Power is what its definition says.
LEMMA PowerDef == /\ Power[0] = 1
                  /\ \A n \in Nat : Power[n + 1] = 2 * Power[n]
<1> DEFINE F == [n \in Nat |-> (CHOOSE f : PowersTo(f, n))[n]]
<1>1. \A n \in Nat : PowersTo(CHOOSE f : PowersTo(f, n), n)
  BY PowersExist
<1>2. \A n \in Nat : F[n] = IF n = 0 THEN 1 ELSE 2 * F[n - 1]
  <2> TAKE n \in Nat
  <2> DEFINE f == CHOOSE f : PowersTo(f, n)
             g == CHOOSE g : PowersTo(g, n - 1)
  <2>1. PowersTo(f, n)
    BY <1>1
  <2>2. n # 0 => PowersTo(g, n - 1)
    BY <1>1
  <2>3. F[n] = f[n] /\ (n # 0 => F[n - 1] = g[n - 1])
    OBVIOUS
  <2> HIDE DEF f, g, F
  <2>4. n # 0 => f[n - 1] = g[n - 1]
    BY <2>1, <2>2, PowersUnique, n - 1 \in Nat \/ n = 0
  <2> QED BY <2>1, <2>3, <2>4 DEF PowersTo
<1>3. F = [n \in Nat |-> F[n]]
  OBVIOUS
<1> HIDE DEF F
<1>4. F = [n \in Nat |-> IF n = 0 THEN 1 ELSE 2 * F[n - 1]]
  BY <1>2, <1>3
<1>5. Power = [n \in Nat |-> IF n = 0 THEN 1 ELSE 2 * Power[n - 1]]
  BY <1>4 DEF Power
<1> QED
  BY <1>5

\* 1 << k is a positive number.
LEMMA PowerNat == \A n \in Nat : Power[n] \in Nat \ {0}
<1> DEFINE T == {x \in Nat : Power[x] \notin Nat \ {0}}
<1> SUFFICES ASSUME T # {} PROVE FALSE
  OBVIOUS
<1>1. PICK x \in T : \A y \in T : x <= y
  BY LeastNat
<1>2. x # 0
  BY PowerDef
<1>3. Power[x - 1] \in Nat \ {0}
  BY <1>1, <1>2
<1> QED
  BY <1>1, <1>2, <1>3, PowerDef

\* Dividing once more by two drops the lowest bit.
LEMMA HalfDiv ==
  ASSUME NEW n \in Nat, NEW c \in Nat \ {0}
  PROVE  /\ n \div c \in Nat
         /\ n \div (2 * c) \in Nat
         /\ n \div c = 2 * (n \div (2 * c)) + ((n \div c) % 2)
<1> DEFINE q == n \div c
           r == n \div (2 * c)
<1>1. q \in Nat /\ c * q <= n /\ n < c * (q + 1)
  OBVIOUS
<1>2. r \in Nat /\ (2 * c) * r <= n /\ n < (2 * c) * (r + 1)
  OBVIOUS
<1> HIDE DEF q, r
<1>3. c * (2 * r) < c * (q + 1) /\ c * q < c * (2 * r + 2)
  BY <1>1, <1>2
<1>4. 2 * r < q + 1 /\ q < 2 * r + 2
  BY <1>1, <1>2, <1>3
<1>5. q = 2 * r \/ q = 2 * r + 1
  BY <1>1, <1>2, <1>4
<1>6. q = 2 * r + (q % 2)
  <2>1. (2 * r) % 2 = 0 /\ (2 * r + 1) % 2 = 1
    BY <1>2
  <2>2. CASE q = 2 * r
    <3>1. q % 2 = 0
      BY <2>1, <2>2
    <3> QED BY <1>2, <2>2, <3>1
  <2>3. CASE q = 2 * r + 1
    <3>1. q % 2 = 1
      BY <2>1, <2>3
    <3> QED BY <1>2, <2>3, <3>1
  <2> QED BY <1>5, <2>2, <2>3
<1> QED
  BY <1>1, <1>2, <1>6 DEF q, r

\* If two numbers have the same bits from k on, they are the same there.
LEMMA SameHighBits ==
  ASSUME NEW w \in Nat, NEW k \in 0 .. w,
         NEW m \in Nat, NEW n \in Nat, m < Power[w], n < Power[w],
         \A l \in k .. w - 1 : BitSet(m, l) <=> BitSet(n, l)
  PROVE  m \div Power[k] = n \div Power[k]
<1> DEFINE T == {x \in k .. w : m \div Power[x] = n \div Power[x]}
<1>1. w \in T
  <2>1. Power[w] \in Nat \ {0}
    BY PowerNat
  <2>2. m \div Power[w] = 0 /\ n \div Power[w] = 0
    BY <2>1
  <2> QED BY <2>2
<1>2. PICK x \in T : \A y \in T : x <= y
  <2>1. T \subseteq Nat /\ T # {}
    BY <1>1
  <2> HIDE DEF T
  <2> QED BY <2>1, LeastNat
<1>3. CASE x = k
  BY <1>3
<1>4. CASE x # k
  <2>1. x - 1 \in k .. w - 1 /\ x - 1 \in Nat
    BY <1>4
  <2>2. Power[x] = 2 * Power[x - 1] /\ Power[x - 1] \in Nat \ {0}
    BY <2>1, PowerDef, PowerNat, (x - 1) + 1 = x
  <2>3. BitSet(m, x - 1) <=> BitSet(n, x - 1)
    BY <2>1
  <2>4. /\ (m \div Power[x - 1]) \in Nat /\ (n \div Power[x - 1]) \in Nat
        /\ m \div Power[x - 1] = 2 * (m \div Power[x]) + ((m \div Power[x - 1]) % 2)
        /\ n \div Power[x - 1] = 2 * (n \div Power[x]) + ((n \div Power[x - 1]) % 2)
        /\ m \div Power[x] \in Nat
    BY <2>2, HalfDiv
  <2>5. (m \div Power[x - 1]) % 2 = (n \div Power[x - 1]) % 2
    <3> DEFINE mm == m \div Power[x - 1]
               nn == n \div Power[x - 1]
    <3>1. mm % 2 = 1 <=> nn % 2 = 1
      BY <2>3 DEF BitSet
    <3>2. mm \in Nat /\ nn \in Nat
      BY <2>4
    <3> HIDE DEF mm, nn
    <3>3. mm % 2 = nn % 2
      BY <3>1, <3>2
    <3> QED BY <3>3 DEF mm, nn
  <2>6. m \div Power[x] = n \div Power[x]
    OBVIOUS
  <2>7. m \div Power[x - 1] = n \div Power[x - 1]
    <3> DEFINE mm == m \div Power[x - 1]
               nn == n \div Power[x - 1]
               h == m \div Power[x]
    <3>1. /\ mm = 2 * h + (mm % 2) /\ nn = 2 * h + (nn % 2) /\ mm % 2 = nn % 2
          /\ mm \in Nat /\ nn \in Nat /\ h \in Nat
      BY <2>4, <2>5, <2>6
    <3> HIDE DEF mm, nn, h
    <3>2. mm = nn
      BY <3>1
    <3> QED BY <3>2 DEF mm, nn
  <2>8. x - 1 \in T
    BY <2>1, <2>7
  <2> QED BY <1>2, <2>1, <2>8
<1> QED
  BY <1>3, <1>4

\* A number is determined by its bits.
LEMMA SameBits ==
  ASSUME NEW w \in Nat, NEW m \in Nat, NEW n \in Nat, m < Power[w], n < Power[w],
         \A l \in 0 .. w - 1 : BitSet(m, l) <=> BitSet(n, l)
  PROVE  m = n
<1>1. m \div Power[0] = n \div Power[0]
  BY SameHighBits, 0 \in 0 .. w
<1> QED
  BY <1>1, PowerDef

\* The highest bit in which two numbers differ decides.
LEMMA BitDecides ==
  ASSUME NEW w \in Nat, NEW k \in 0 .. w - 1,
         NEW m \in Nat, NEW n \in Nat, m < Power[w], n < Power[w],
         \A l \in k + 1 .. w - 1 : BitSet(m, l) <=> BitSet(n, l),
         ~BitSet(m, k), BitSet(n, k)
  PROVE  m < n
<1> DEFINE c == Power[k]
           mm == m \div c
           nn == n \div c
<1>1. c \in Nat \ {0} /\ Power[k + 1] = 2 * c
  BY PowerDef, PowerNat
<1>2. m \div (2 * c) = n \div (2 * c)
  <2>1. k + 1 \in 0 .. w
    OBVIOUS
  <2> DEFINE kk == k + 1
  <2>2. kk \in 0 .. w /\ \A l \in kk .. w - 1 : BitSet(m, l) <=> BitSet(n, l)
    BY <2>1
  <2> HIDE DEF kk, c
  <2>3. m \div Power[kk] = n \div Power[kk]
    BY <2>2, SameHighBits
  <2> QED BY <1>1, <2>3 DEF kk
<1>3. /\ mm \in Nat /\ mm = 2 * (m \div (2 * c)) + (mm % 2)
      /\ nn \in Nat /\ nn = 2 * (n \div (2 * c)) + (nn % 2)
      /\ m \div (2 * c) \in Nat
  BY <1>1, HalfDiv
<1>4. mm % 2 # 1 /\ nn % 2 = 1
  BY DEF BitSet
<1>5. c * mm <= m /\ m < c * (mm + 1) /\ c * nn <= n
  BY <1>1
<1> HIDE DEF c, mm, nn
<1>6. mm + 1 <= nn
  <2>1. mm % 2 = 0
    BY <1>3, <1>4
  <2> QED BY <1>2, <1>3, <1>4, <2>1
<1>7. c * (mm + 1) <= c * nn
  BY <1>1, <1>3, <1>6
<1> QED
  BY <1>1, <1>3, <1>5, <1>7

-----------------------------------------------------------------------------
(***************************************************************************)
(* Elements and their bits.                                                *)
(***************************************************************************)

\* The bits to test tell two elements apart.
Covers(x, y) ==
  /\ bits \subseteq 0 .. InoBits + 2
  /\ BitsOf(x.inode) \subseteq bits /\ BitsOf(y.inode) \subseteq bits
  /\ (\A k \in 0 .. 2 : InoBits + k \in bits) \/ x.score = y.score

\* The same for the three bits of a score: the highest bit that differs decides.
LEMMA ScoreBits ==
  ASSUME NEW m \in 0 .. 7, NEW n \in 0 .. 7
  PROVE  /\ (\A k \in 0 .. 2 : BitSet(m, k) <=> BitSet(n, k)) => m = n
         /\ \A k \in 0 .. 2 : /\ \A l \in k + 1 .. 2 : BitSet(m, l) <=> BitSet(n, l)
                              /\ ~BitSet(m, k) /\ BitSet(n, k)
                              => m < n
<1>1. Power[3] = 8
  BY PowerDef, 0 + 1 = 1, 1 + 1 = 2, 2 + 1 = 3
<1>2. m < Power[3] /\ n < Power[3] /\ m \in Nat /\ n \in Nat
  BY <1>1
<1>3. (\A k \in 0 .. 2 : BitSet(m, k) <=> BitSet(n, k)) => m = n
  BY <1>2, SameBits, 3 - 1 = 2
<1>4. ASSUME NEW k \in 0 .. 2,
             \A l \in k + 1 .. 2 : BitSet(m, l) <=> BitSet(n, l), ~BitSet(m, k), BitSet(n, k)
      PROVE  m < n
  BY <1>2, <1>4, BitDecides, 3 - 1 = 2
<1> QED
  BY <1>3, <1>4

\* Behind the bits of the inode come those of the score.
LEMMA ScoreBit ==
  ASSUME NEW x, NEW k \in Nat
  PROVE  HasBit(x, InoBits + k) <=> BitSet(x.score, k)
<1> DEFINE l == InoBits + k
<1>1. ~(l < InoBits) /\ l - InoBits = k
  BY SortAssumption
<1> HIDE DEF l
<1>2. HasBit(x, l) <=> BitSet(x.score, k)
  BY <1>1 DEF HasBit
<1> QED
  BY <1>2 DEF l

\* An inode is a number below the width of ino_t.
LEMMA InodeOK == ASSUME NEW n \in Inodes PROVE n \in Nat /\ n < Power[InoBits]
BY PowerNat, SortAssumption DEF Inodes

\* All bits of two inodes that differ from some bit on are among those tested.
LEMMA InodeBits ==
  ASSUME NEW x \in Dent, NEW y \in Dent, Covers(x, y), NEW k \in Nat,
         \A l \in bits : k <= l => (HasBit(x, l) <=> HasBit(y, l)),
         NEW l \in k .. InoBits - 1
  PROVE  BitSet(x.inode, l) <=> BitSet(y.inode, l)
<1>1. l \in 0 .. InoBits - 1 /\ l < InoBits
  BY SortAssumption
<1>2. CASE l \in bits
  BY <1>1, <1>2 DEF HasBit
<1>3. CASE l \notin bits
  BY <1>1, <1>3 DEF Covers, BitsOf
<1> QED
  BY <1>2, <1>3

\* Elements that agree in the score bits that are tested have one score.
LEMMA SameScores ==
  ASSUME NEW x \in Dent, NEW y \in Dent, Covers(x, y),
         \A l \in bits : InoBits <= l => (HasBit(x, l) <=> HasBit(y, l))
  PROVE  x.score = y.score
<1>1. CASE \A k \in 0 .. 2 : InoBits + k \in bits
  <2>1. ASSUME NEW k \in 0 .. 2 PROVE BitSet(x.score, k) <=> BitSet(y.score, k)
    <3>1. InoBits + k \in bits /\ InoBits <= InoBits + k
      BY <1>1, SortAssumption
    <3> QED BY <3>1, ScoreBit
  <2> QED BY <2>1, ScoreBits DEF Dent
<1> QED
  BY <1>1 DEF Covers

\* Elements that agree in all bits are equal for the sort.
LEMMA AllBitsAgree ==
  ASSUME NEW x \in Dent, NEW y \in Dent, Covers(x, y),
         \A l \in bits : HasBit(x, l) <=> HasBit(y, l)
  PROVE  ~Before(x, y)
<1>1. x.score = y.score
  BY SameScores
<1>2. \A l \in 0 .. InoBits - 1 : BitSet(x.inode, l) <=> BitSet(y.inode, l)
  BY InodeBits
<1>3. x.inode = y.inode
  BY <1>2, SameBits, InodeOK, SortAssumption DEF Dent
<1> QED
  BY <1>1, <1>3, InodeOK DEF Before, Dent

\* The highest bit in which elements differ puts them in order.
LEMMA BitOrders ==
  ASSUME NEW x \in Dent, NEW y \in Dent, Covers(x, y), NEW k \in bits,
         \A l \in bits : k < l => (HasBit(x, l) <=> HasBit(y, l)),
         ~HasBit(x, k), HasBit(y, k)
  PROVE  Before(x, y) /\ ~Before(y, x)
<1>0. k \in Nat /\ k <= InoBits + 2 /\ InoBits \in Nat
  BY SortAssumption DEF Covers
<1>1. CASE k < InoBits
  <2>1. x.score = y.score
    BY <1>0, <1>1, SameScores
  <2>2. \A l \in k + 1 .. InoBits - 1 : BitSet(x.inode, l) <=> BitSet(y.inode, l)
    BY <1>0, InodeBits
  <2>3. ~BitSet(x.inode, k) /\ BitSet(y.inode, k)
    BY <1>1 DEF HasBit
  <2>4. x.inode < y.inode
    BY <1>0, <1>1, <2>2, <2>3, BitDecides, InodeOK, SMTT(30) DEF Dent
  <2> QED BY <2>1, <2>4, InodeOK DEF Before, Dent
<1>2. CASE ~(k < InoBits)
  <2> DEFINE s == k - InoBits
  <2>1. s \in 0 .. 2 /\ InoBits + s = k
    BY <1>0, <1>2
  <2>2. ~BitSet(x.score, s) /\ BitSet(y.score, s)
    BY <1>2 DEF HasBit
  <2>3. \A l \in 0 .. 2 : InoBits + l \in bits
    BY <2>2 DEF Covers
  <2>4. ASSUME NEW l \in s + 1 .. 2 PROVE BitSet(x.score, l) <=> BitSet(y.score, l)
    <3>1. InoBits + l \in bits /\ k < InoBits + l /\ l \in Nat
      BY <1>0, <2>1, <2>3
    <3> QED BY <3>1, ScoreBit
  <2> HIDE DEF s
  <2>5. x.score < y.score
    BY <2>1, <2>2, <2>4, ScoreBits DEF Dent
  <2> QED BY <2>5 DEF Before, Dent
<1> QED
  BY <1>1, <1>2

-----------------------------------------------------------------------------
(***************************************************************************)
(* Types, and what a step does to the array.                               *)
(***************************************************************************)
\* An exchange of two elements changes these two places and no other.
LEMMA SwapFacts ==
  ASSUME NEW S, NEW d \in Seq(S), NEW x \in 1 .. Len(d), NEW y \in 1 .. Len(d)
  PROVE  /\ Swap(d, x, y) \in Seq(S)
         /\ Len(Swap(d, x, y)) = Len(d)
         /\ DOMAIN Swap(d, x, y) = 1 .. Len(d)
         /\ \A z \in 1 .. Len(d) :
              Swap(d, x, y)[z] = IF z = y THEN d[x] ELSE IF z = x THEN d[y] ELSE d[z]
BY DEF Swap

\* With the held element in the free place the array is one of entries.
LEMMA ArrayType ==
  ASSUME SortTypes
  PROVE  /\ Array \in Seq(Dent) /\ Len(Array) = Len(dents)
         /\ DOMAIN Array = 1 .. Len(dents)
BY DEF SortTypes, Array

\* What the partition loop exchanges lies in its part.
LEMMA PartitionIndices ==
  ASSUME SortTypes, StackOK, loop \in {"dirs", "split"}, pa < pb
  PROVE  /\ pa \in 1 .. Len(dents) /\ pb - 1 \in 1 .. Len(dents)
         /\ loop = "split" => /\ pa \in part.base .. part.end - 1
                              /\ pb - 1 \in part.base .. part.end - 1
                              /\ part.base >= 1 /\ part.end <= size + 1
<1>1. CASE loop = "dirs"
  BY <1>1 DEF SortTypes
<1>2. CASE loop = "split"
  <2>1. PartOK(dents, size, bits, part) /\ part \in Part
    BY <1>2 DEF StackOK, SortTypes
  <2>2. 1 <= part.base /\ part.end <= size + 1 /\ part.base \in Nat /\ part.end \in Nat
    BY <2>1 DEF PartOK, Part
  <2> QED BY <1>2, <2>2 DEF SortTypes
<1> QED
  BY <1>1, <1>2

\* The sentinel stops the inner loop.
LEMMA SentinelStops ==
  ASSUME SortTypes, Smallest, loop = "shift", sj = 1
  PROVE  ~Before(held, dents[sj])
<1>1. 1 \in 1 .. size /\ 2 \in 1 .. size /\ 2 \in 1 .. Len(dents) /\ dents \in Seq(Dent)
  BY DEF SortTypes
<1>2. Array = [dents EXCEPT ![2] = held]
  BY DEF Array
<1>3. Array[1] = dents[1] /\ Array[2] = held
  BY <1>1, <1>2
<1>4. ~Before(Array[2], Array[1])
  BY <1>1 DEF Smallest
<1> QED
  BY <1>3, <1>4

\* No loop of the sort leaves the array or its stacks: the indices stay in range.
LEMMA SortTypesStep == SortInv /\ SortNext => SortTypes'
<1> SUFFICES ASSUME SortInv, SortNext PROVE SortTypes'
  OBVIOUS
<1>0. SortTypes
  BY DEF SortInv
<1>1. CASE Partition
  <2>1. /\ pa \in 1 .. Len(dents) /\ pb - 1 \in 1 .. Len(dents)
        /\ Swap(dents, pa, pb - 1) \in Seq(Dent)
        /\ Len(Swap(dents, pa, pb - 1)) = Len(dents)
    <3>1. pa \in 1 .. Len(dents) /\ pb - 1 \in 1 .. Len(dents) /\ dents \in Seq(Dent)
      BY <1>0, <1>1, PartitionIndices DEF SortInv, SortTypes, Partition
    <3> QED BY <3>1, SwapFacts
  <2>2. dents' \in Seq(Dent) /\ Len(dents') = Len(dents)
    BY <1>0, <1>1, <2>1 DEF Partition, SortTypes
  <2>3. /\ pa' \in {pa, pa + 1} /\ pb' \in {pb, pb - 1} /\ pa' <= pb'
        /\ loop' = loop /\ UNCHANGED <<size, bits, part, stack, si, sj, smallest, held>>
        /\ loop \in {"dirs", "split"}
    BY <1>0, <1>1 DEF Partition, SortTypes, partVars, insertVars
  <2>4. CASE loop = "dirs"
    BY <1>0, <2>2, <2>3, <2>4 DEF SortTypes
  <2>5. CASE loop = "split"
    BY <1>0, <2>2, <2>3, <2>5, SMTT(30) DEF SortTypes, Part
  <2> QED BY <2>3, <2>4, <2>5
<1>2. CASE DirsDone
  BY <1>0, <1>2 DEF DirsDone, SortTypes, partVars, insertVars
<1>3. CASE Sort
  <2>1. CASE size > Fast
    <3>1. PICK k \in bits : part' = [base |-> 1, end |-> size + 1, bit |-> k]
      BY <1>0, <1>3, <2>1, SortAssumption DEF Sort, SortTypes
    <3>2. part' \in Part /\ stack' = stack /\ loop' = "parts" /\ UNCHANGED insertVars
      BY <1>0, <1>3, <2>1, <3>1, SortAssumption DEF Sort, SortTypes, Part
    <3> QED BY <1>0, <1>3, <2>1, <3>2, SortAssumption DEF Sort, SortTypes, insertVars
  <2>2. CASE ~(size > Fast)
    <3>1. CASE size <= 1
      <4>1. /\ loop = "sort" /\ loop' = "sorted"
            /\ UNCHANGED <<dents, size, bits, part, stack, pa, pb, si, sj, smallest, held>>
        BY <1>0, <1>3, <2>2, <3>1, SortAssumption DEF Sort, SortTypes, partVars, insertVars
      <4> QED BY <1>0, <4>1 DEF SortTypes
    <3>2. CASE ~(size <= 1)
      <4>1. /\ loop = "sort" /\ loop' = "minimum" /\ si' = size /\ smallest' = 1
            /\ UNCHANGED <<dents, size, bits, part, stack, pa, pb, sj, held>>
        BY <1>0, <1>3, <2>2, <3>2, SortAssumption DEF Sort, SortTypes, StartInsertion, partVars
      <4> QED BY <1>0, <3>2, <4>1 DEF SortTypes
    <3> QED BY <3>1, <3>2
  <2> QED BY <2>1, <2>2
<1>4. ASSUME NextPart, loop \in {"parts", "split"}, UNCHANGED <<dents, size, bits>>,
             UNCHANGED <<pa, pb>>
      PROVE  SortTypes'
  <2>1. CASE stack = <<>>
    BY <1>0, <1>4, <2>1, SortAssumption DEF NextPart, SortTypes, StartInsertion, partVars
  <2>2. CASE stack # <<>>
    <3>1. stack[Len(stack)] \in Part /\ SubSeq(stack, 1, Len(stack) - 1) \in Seq(Part)
      BY <1>0, <2>2 DEF SortTypes
    <3> QED BY <1>0, <1>4, <2>2, <3>1 DEF NextPart, SortTypes, insertVars
  <2> QED BY <2>1, <2>2
<1>5. CASE TakePart
  <2>1. CASE part.end - part.base < Cutoff
    BY <1>0, <1>4, <1>5, <2>1, SortAssumption DEF TakePart, SortTypes, Part
  <2>2. CASE ~(part.end - part.base < Cutoff)
    <3>1. /\ loop = "parts" /\ loop' = "split" /\ pa' = part.base /\ pb' = part.end
          /\ UNCHANGED <<dents, size, bits, part, stack, si, sj, smallest, held>>
      BY <1>5, <2>2 DEF TakePart, partVars, insertVars
    <3>2. part.base < part.end /\ part.base \in Nat /\ part.end \in Nat
      BY <1>0, <2>2, SortAssumption DEF SortTypes, Part
    <3> QED BY <1>0, <3>1, <3>2 DEF SortTypes
  <2> QED BY <2>1, <2>2
<1>6. CASE SplitDone
  <2>1. CASE Below(part.bit) = {}
    BY <1>0, <1>4, <1>6, <2>1 DEF SplitDone
  <2>2. CASE Below(part.bit) # {}
    <3>1. PICK k \in Below(part.bit) :
                /\ stack' = Append(stack, [part EXCEPT !.base = pa, !.bit = k])
                /\ part' = [part EXCEPT !.end = pa, !.bit = k]
      BY <1>6, <2>2 DEF SplitDone
    <3>2. k \in Nat
      BY <1>0, SortAssumption DEF Below, SortTypes
    <3>3. stack' \in Seq(Part) /\ part' \in Part
      <4>1. part \in Part /\ stack \in Seq(Part) /\ pa \in Nat
        BY <1>0 DEF SortTypes
      <4>2. [part EXCEPT !.base = pa, !.bit = k] \in Part
        BY <4>1, <3>2 DEF Part
      <4>3. [part EXCEPT !.end = pa, !.bit = k] \in Part
        BY <4>1, <3>2 DEF Part
      <4> QED BY <3>1, <4>1, <4>2, <4>3
    <3>4. /\ loop = "split" /\ loop' = "parts"
          /\ UNCHANGED <<dents, size, bits, pa, pb, si, sj, smallest, held>>
      BY <1>6, <2>2 DEF SplitDone, insertVars
    <3> QED BY <1>0, <3>3, <3>4, SMTT(30) DEF SortTypes
  <2> QED BY <2>1, <2>2
<1>7. CASE FindMinimum
  BY <1>0, <1>7 DEF FindMinimum, SortTypes, partVars
<1>8. CASE MinimumFirst
  <2>1. /\ Swap(dents, 1, smallest) \in Seq(Dent)
        /\ Len(Swap(dents, 1, smallest)) = Len(dents)
    <3>1. 1 \in 1 .. Len(dents) /\ smallest \in 1 .. Len(dents) /\ dents \in Seq(Dent)
      BY <1>0, <1>8 DEF MinimumFirst, SortTypes
    <3> QED BY <3>1, SwapFacts
  <2>2. /\ loop = "minimum" /\ loop' = "insert" /\ si' = 2
        /\ dents' = Swap(dents, 1, smallest)
        /\ UNCHANGED <<size, bits, part, stack, pa, pb, sj, smallest>>
    BY <1>8 DEF MinimumFirst, partVars
  <2> QED BY <1>0, <2>1, <2>2 DEF SortTypes
<1>9. CASE Insert
  BY <1>0, <1>9 DEF Insert, SortTypes, partVars
<1>10. CASE Shift
  <2>1. sj # 1
    BY <1>0, <1>10, SentinelStops DEF SortInv, Shift, SortTypes
  <2>2. /\ dents' \in Seq(Dent) /\ Len(dents') = Len(dents)
    BY <1>0, <1>10, SMTT(30) DEF Shift, SortTypes
  <2> QED BY <1>0, <1>10, <2>1, <2>2 DEF Shift, SortTypes, partVars
<1>11. CASE Place
  <2>2. /\ dents' \in Seq(Dent) /\ Len(dents') = Len(dents)
    BY <1>0, <1>11 DEF Place, SortTypes
  <2> QED BY <1>0, <1>11, <2>2 DEF Place, SortTypes, partVars
<1> QED
  BY <1>1, <1>2, <1>3, <1>5, <1>6, <1>7, <1>8, <1>9, <1>10, <1>11 DEF SortNext

-----------------------------------------------------------------------------
(***************************************************************************)
(* A step of the sort permutes the elements; while the parts are sorted it *)
(* leaves those behind them where they are.                                *)
(***************************************************************************)
Permuted(p) ==
  /\ p \in [1 .. Len(dents) -> 1 .. Len(dents)]
  /\ \A y \in 1 .. Len(dents) : \E x \in 1 .. Len(dents) : p[x] = y
  /\ \A x, y \in 1 .. Len(dents) : p[x] = p[y] => x = y
  /\ \A x \in 1 .. Len(dents) : Array'[x] = Array[p[x]]
  /\ loop # "dirs" => \A x \in 1 .. Len(dents) : x <= size <=> p[x] <= size

\* A step that leaves the array alone permutes nothing,
LEMMA Unmoved ==
  ASSUME Array' = Array
  PROVE  \E p : Permuted(p)
<1> DEFINE q == [x \in 1 .. Len(dents) |-> x]
<1>1. Permuted(q)
  BY DEF Permuted
<1> QED
  BY <1>1

\* and an exchange is a permutation.
LEMMA Swapped ==
  ASSUME SortTypes, NEW x \in 1 .. Len(dents), NEW y \in 1 .. Len(dents),
         Array' = Swap(Array, x, y), loop # "dirs" => x <= size /\ y <= size
  PROVE  \E p : Permuted(p)
<1> DEFINE q == [z \in 1 .. Len(dents) |-> IF z = y THEN x ELSE IF z = x THEN y ELSE z]
<1>1. \A z \in 1 .. Len(dents) : Array'[z] = Array[q[z]]
  <2>1. Array \in Seq(Dent) /\ Len(Array) = Len(dents) /\ x \in 1 .. Len(Array) /\ y \in 1 .. Len(Array)
    BY ArrayType
  <2> HIDE DEF q
  <2>2. \A z \in 1 .. Len(dents) :
          Array'[z] = IF z = y THEN Array[x] ELSE IF z = x THEN Array[y] ELSE Array[z]
    BY <2>1 DEF Swap
  <2> QED BY <2>2 DEF q
<1>2. /\ q \in [1 .. Len(dents) -> 1 .. Len(dents)]
      /\ \A z \in 1 .. Len(dents) : q[q[z]] = z
      /\ loop # "dirs" => \A z \in 1 .. Len(dents) : z <= size <=> q[z] <= size
  OBVIOUS
<1> HIDE DEF q
<1>3. Permuted(q)
  BY <1>1, <1>2 DEF Permuted
<1> QED
  BY <1>3

\* Every step of the sort permutes the elements: none is lost or doubled.
LEMMA ArrayStep ==
  ASSUME SortInv, SortNext
  PROVE  (\E p : Permuted(p)) /\ Len(dents') = Len(dents) /\ bits' = bits
<1>0. SortTypes /\ SortTypes'
  BY SortTypesStep DEF SortInv
<1>1. CASE Partition
  <2>1. /\ pa \in 1 .. Len(dents) /\ pb - 1 \in 1 .. Len(dents)
        /\ loop # "dirs" => pa <= size /\ pb - 1 <= size
    <3>1. loop = "split" => part \in Part /\ size \in Nat
      BY <1>0 DEF SortTypes
    <3>2. loop \in {"dirs", "split"} /\ pa < pb /\ pa \in Nat /\ pb \in Nat
      BY <1>0, <1>1 DEF Partition, SortTypes
    <3> QED BY <1>0, <3>1, <3>2, PartitionIndices DEF SortInv, Part
  <2>2. Array = dents /\ Array' = dents'
    BY <1>1 DEF Partition, Array
  <2>3. dents' = dents \/ dents' = Swap(dents, pa, pb - 1)
    BY <1>1 DEF Partition
  <2>4. Len(dents') = Len(dents) /\ bits' = bits
    <3>1. dents \in Seq(Dent) /\ bits' = bits
      BY <1>0, <1>1 DEF SortTypes, Partition
    <3> QED BY <2>1, <2>3, <3>1, SwapFacts
  <2> QED BY <1>0, <2>1, <2>2, <2>3, <2>4, Unmoved, Swapped
<1>2. CASE DirsDone \/ Sort \/ TakePart \/ SplitDone \/ FindMinimum
  <2>1. Array' = Array /\ dents' = dents /\ bits' = bits
    BY <1>2 DEF DirsDone, Sort, TakePart, SplitDone, FindMinimum, NextPart, StartInsertion, Array
  <2> QED BY <2>1, Unmoved
<1>3. CASE MinimumFirst
  <2>1. /\ 1 \in 1 .. Len(dents) /\ smallest \in 1 .. Len(dents)
        /\ 1 <= size /\ smallest <= size /\ dents \in Seq(Dent)
    BY <1>0, <1>3 DEF MinimumFirst, SortTypes
  <2>2. Array = dents /\ Array' = dents' /\ dents' = Swap(dents, 1, smallest) /\ bits' = bits
    BY <1>3 DEF MinimumFirst, Array
  <2>3. Len(dents') = Len(dents)
    BY <2>1, <2>2, SwapFacts
  <2> QED BY <1>0, <2>1, <2>2, <2>3, Swapped
<1>4. CASE Insert
  <2>1. Array' = Array
    <3>1. CASE si <= size
      <4>1. sj' + 1 = si /\ held' = dents[si] /\ loop' = "shift" /\ dents' = dents /\ loop = "insert"
        BY <1>0, <1>4, <3>1 DEF Insert, SortTypes
      <4>2. [dents EXCEPT ![si] = dents[si]] = dents
        BY <1>0 DEF SortTypes
      <4> QED BY <4>1, <4>2 DEF Array
    <3>2. CASE ~(si <= size)
      BY <1>4, <3>2 DEF Insert, Array
    <3> QED BY <3>1, <3>2
  <2>2. Len(dents') = Len(dents) /\ bits' = bits
    BY <1>4 DEF Insert
  <2> QED BY <2>1, <2>2, Unmoved
<1>5. CASE Shift
  <2>1. /\ sj \in 1 .. Len(dents) /\ sj + 1 \in 1 .. Len(dents) /\ sj <= size /\ sj + 1 <= size
        /\ dents \in Seq(Dent) /\ loop = "shift" /\ loop' = "shift" /\ held' = held
        /\ sj' + 1 = sj
    BY <1>0, <1>5, SMTT(30) DEF Shift, SortTypes
  <2>2. dents' = [dents EXCEPT ![sj + 1] = dents[sj]] /\ bits' = bits
    BY <1>5 DEF Shift
  <2>3. Array = [dents EXCEPT ![sj + 1] = held] /\ Array' = [dents' EXCEPT ![sj] = held]
    BY <2>1 DEF Array
  <2>4. Array' = Swap(Array, sj, sj + 1)
    <3> DEFINE n == 1 .. Len(dents)
               D == [z \in n |-> IF z = sj THEN held ELSE IF z = sj + 1 THEN dents[sj] ELSE dents[z]]
    <3>1. DOMAIN dents = n /\ dents = [z \in n |-> dents[z]]
      BY <2>1
    <3>2. Array' = D
      BY <2>1, <2>2, <2>3, <3>1
    <3>3. Swap(Array, sj, sj + 1) = D
      BY <2>1, <2>3, <3>1 DEF Swap
    <3> QED BY <3>2, <3>3
  <2>5. Len(dents') = Len(dents)
    BY <2>1, <2>2
  <2> QED BY <1>0, <2>1, <2>2, <2>4, <2>5, Swapped
<1>6. CASE Place
  <2>1. Array' = Array
    BY <1>6 DEF Place, Array
  <2>2. Len(dents') = Len(dents) /\ bits' = bits
    BY <1>0, <1>6 DEF Place, SortTypes
  <2> QED BY <2>1, <2>2, Unmoved
<1> QED
  BY <1>1, <1>2, <1>3, <1>4, <1>5, <1>6 DEF SortNext

\* Only the end of the loop that puts directories first changes what is sorted.
LEMMA SizeStep ==
  ASSUME SortInv, SortNext
  PROVE  /\ loop # "none" /\ loop' # "none"
         /\ ~DirsDone => size' = size /\ (loop = "dirs" <=> loop' = "dirs")
         /\ DirsDone => /\ loop = "dirs" /\ loop' # "dirs" /\ Array' = Array /\ pa = pb
                        /\ size' = pa - 1
<1>1. SortTypes
  BY DEF SortInv
<1>2. CASE DirsDone
  BY <1>1, <1>2 DEF DirsDone, SortTypes, Array
<1>3. CASE ~DirsDone
  BY <1>1, <1>3 DEF SortNext, Partition, Sort, TakePart, NextPart, StartInsertion, SplitDone,
       FindMinimum, MinimumFirst, Insert, Shift, Place, SortTypes
<1> QED
  BY <1>2, <1>3

\* The bits to test stay enough to tell the sorted elements apart.
LEMMA BitsCoverStep == SortInv /\ SortNext => BitsCover'
<1> SUFFICES ASSUME SortInv, SortNext PROVE BitsCover'
  OBVIOUS
<1>0. SortTypes /\ SortTypes' /\ BitsCover /\ DirsSplit
  BY SortTypesStep DEF SortInv
<1>1. PICK p : Permuted(p)
  BY ArrayStep
<1>2. Len(dents') = Len(dents) /\ bits' = bits
  BY ArrayStep
<1>3. DOMAIN Array = 1 .. Len(dents) /\ DOMAIN Array' = 1 .. Len(dents)
  <2>1. SortTypes' => DOMAIN Array' = 1 .. Len(dents')
    BY DEF SortTypes, Array
  <2> QED BY <1>0, <1>2, <2>1, ArrayType
<1>4. ASSUME NEW x \in 1 .. Len(dents), Concerned(x)' PROVE Concerned(p[x])
  <2>1. CASE DirsDone
    <3>1. /\ loop = "dirs" /\ loop' # "dirs" /\ Array' = Array /\ size' = pa - 1
          /\ pa \in Nat
      BY <1>0, <2>1, SizeStep DEF SortTypes
    <3>2. x \in 1 .. pa - 1 /\ Array = dents
      BY <1>4, <3>1 DEF Concerned, Array
    <3>3. Array'[x].type = "dir"
      BY <1>0, <3>1, <3>2 DEF DirsSplit
    <3>4. Array[p[x]].type = "dir"
      BY <1>1, <3>3 DEF Permuted
    <3> QED BY <3>1, <3>4 DEF Concerned
  <2>2. CASE ~DirsDone
    <3>1. size' = size /\ (loop = "dirs" <=> loop' = "dirs")
      BY <2>2, SizeStep
    <3>2. Array'[x] = Array[p[x]] /\ (loop # "dirs" => (x <= size <=> p[x] <= size))
      BY <1>1 DEF Permuted
    <3> QED BY <1>4, <3>1, <3>2 DEF Concerned
  <2> QED BY <2>1, <2>2
<1>5. \A x \in 1 .. Len(dents) : p[x] \in 1 .. Len(dents) /\ Array'[x] = Array[p[x]]
  BY <1>1 DEF Permuted
<1>6. \A x \in 1 .. Len(dents) : BitsOf(Array[x].inode) \subseteq bits
  BY <1>0, <1>3, SizeStep DEF BitsCover
<1>7. \/ \A k \in 0 .. 2 : InoBits + k \in bits
      \/ \A x, y \in 1 .. Len(dents) :
            Concerned(x) /\ Concerned(y) => Array[x].score = Array[y].score
  BY <1>0, <1>3, SizeStep DEF BitsCover
<1>8. \A x \in DOMAIN Array' : BitsOf(Array'[x].inode) \subseteq bits
  BY <1>3, <1>5, <1>6
<1>9. \/ \A k \in 0 .. 2 : InoBits + k \in bits
      \/ \A x, y \in DOMAIN Array' :
            Concerned(x)' /\ Concerned(y)' => Array'[x].score = Array'[y].score
  BY <1>3, <1>4, <1>5, <1>7
<1> QED
  BY <1>2, <1>8, <1>9 DEF BitsCover

\* eio.c:1287-1297: directories in front, everything else at the back.
LEMMA DirsSplitStep == SortInv /\ SortNext => DirsSplit'
<1> SUFFICES ASSUME SortInv, SortNext, loop' = "dirs" PROVE DirsSplit'
  BY DEF DirsSplit
<1>0. SortTypes /\ DirsSplit /\ StackOK
  BY DEF SortInv
<1>1. ~DirsDone /\ loop = "dirs"
  BY SizeStep
<1>2. Partition
  BY <1>1 DEF SortNext, Sort, TakePart, SplitDone, FindMinimum, MinimumFirst, Insert, Shift, Place
<1>3. /\ pa \in 1 .. Len(dents) /\ pb - 1 \in 1 .. Len(dents) /\ dents \in Seq(Dent) /\ pa < pb
      /\ pa \in Nat /\ pb \in Nat
  BY <1>0, <1>1, <1>2, PartitionIndices DEF Partition, SortTypes
<1>4. \A x \in 1 .. pa - 1 : dents[x].type = "dir"
  BY <1>0, <1>1 DEF DirsSplit
<1>5. \A x \in pb .. Len(dents) : dents[x].type # "dir"
  BY <1>0, <1>1 DEF DirsSplit
<1>6. CASE ~Behind(dents[pa])
  BY <1>1, <1>2, <1>3, <1>4, <1>5, <1>6 DEF Partition, Behind, DirsSplit
<1>7. CASE Behind(dents[pa]) /\ Behind(dents[pb - 1])
  BY <1>1, <1>2, <1>3, <1>4, <1>5, <1>7 DEF Partition, Behind, DirsSplit
<1>8. CASE Behind(dents[pa]) /\ ~Behind(dents[pb - 1])
  <2>1. dents' = Swap(dents, pa, pb - 1) /\ pa' = pa + 1 /\ pb' = pb - 1
    BY <1>2, <1>8 DEF Partition
  <2>2. /\ Len(dents') = Len(dents)
        /\ \A z \in 1 .. Len(dents) :
             dents'[z] = IF z = pb - 1 THEN dents[pa] ELSE IF z = pa THEN dents[pb - 1] ELSE dents[z]
    BY <1>3, <2>1, SwapFacts, SMTT(30)
  <2>3. dents[pa].type # "dir" /\ dents[pb - 1].type = "dir" /\ pa # pb - 1
    BY <1>1, <1>8 DEF Behind
  <2>4. ASSUME NEW x \in 1 .. pa' - 1 PROVE dents'[x].type = "dir"
    <3>1. x \in 1 .. Len(dents) /\ x # pb - 1 /\ (x = pa \/ x \in 1 .. pa - 1)
      BY <1>3, <2>1, <2>3
    <3>2. dents'[x] = IF x = pa THEN dents[pb - 1] ELSE dents[x]
      BY <2>2, <3>1
    <3> QED BY <1>4, <2>3, <3>1, <3>2
  <2>5. ASSUME NEW x \in pb' .. Len(dents') PROVE dents'[x].type # "dir"
    <3>1. x \in 1 .. Len(dents) /\ x # pa /\ (x = pb - 1 \/ x \in pb .. Len(dents))
      BY <1>3, <2>1, <2>2, <2>3
    <3>2. dents'[x] = IF x = pb - 1 THEN dents[pa] ELSE dents[x]
      BY <2>2, <3>1
    <3> QED BY <1>5, <2>3, <3>1, <3>2
  <2> QED BY <2>4, <2>5 DEF DirsSplit
<1> QED
  BY <1>6, <1>7, <1>8

-----------------------------------------------------------------------------
(***************************************************************************)
(* Parts.                                                                  *)
(***************************************************************************)
\* eio_dent_cmp is a total preorder.
LEMMA BeforeOrder ==
  ASSUME NEW x \in Dent, NEW y \in Dent, NEW z \in Dent
  PROVE  /\ ~Before(x, x)
         /\ Before(x, y) => ~Before(y, x)
         /\ ~Before(x, y) /\ ~Before(y, z) => ~Before(x, z)
<1>1. /\ x.inode \in Nat /\ y.inode \in Nat /\ z.inode \in Nat
      /\ x.score \in Nat /\ y.score \in Nat /\ z.score \in Nat
  BY InodeOK DEF Dent
<1> QED
  BY <1>1 DEF Before

\* The sort tells its elements apart, where it moves them.
Known == \A x, y \in 1 .. size : dents[x] \in Dent /\ Covers(dents[x], dents[y])

\* After the directories have been put first the elements are known to the bits.
LEMMA ElementsKnown ==
  ASSUME SortTypes, BitsCover, loop \in {"sort", "parts", "split", "minimum", "insert"}
  PROVE  Known
<1>1. /\ dents \in Seq(Dent) /\ Array = dents /\ DOMAIN Array = 1 .. Len(dents)
      /\ size \in 0 .. Len(dents) /\ bits \subseteq 0 .. InoBits + 2
  BY DEF SortTypes, Array
<1>2. ASSUME NEW x \in 1 .. size, NEW y \in 1 .. size
      PROVE  dents[x] \in Dent /\ Covers(dents[x], dents[y])
  <2>1. x \in 1 .. Len(dents) /\ y \in 1 .. Len(dents)
    BY <1>1
  <2>2. dents[x] \in Dent
    BY <1>1, <2>1
  <2>3. BitsOf(dents[x].inode) \subseteq bits /\ BitsOf(dents[y].inode) \subseteq bits
    BY <1>1, <2>1 DEF BitsCover
  <2>4. (\A k \in 0 .. 2 : InoBits + k \in bits) \/ dents[x].score = dents[y].score
    BY <1>1, <2>1 DEF BitsCover, Concerned
  <2> QED BY <1>1, <2>2, <2>3, <2>4 DEF Covers
<1> QED
  BY <1>2 DEF Known

\* An exchange on one side of a cut leaves the cut as it is.
LEMMA SwapCut ==
  ASSUME NEW S, NEW d \in Seq(S), NEW n \in 0 .. Len(d), NEW c \in Nat,
         NEW x \in 1 .. n, NEW y \in 1 .. n, (x < c /\ y < c) \/ (x >= c /\ y >= c), Cut(d, n, c)
  PROVE  Cut(Swap(d, x, y), n, c)
<1>1. x \in 1 .. Len(d) /\ y \in 1 .. Len(d)
  OBVIOUS
<1>2. \A z \in 1 .. Len(d) :
        Swap(d, x, y)[z] = IF z = y THEN d[x] ELSE IF z = x THEN d[y] ELSE d[z]
  BY <1>1, SwapFacts
<1> QED
  BY <1>2, SMTT(30) DEF Cut

\* An exchange inside a part, in front of it or behind it keeps the part as it is.
LEMMA SwapPart ==
  ASSUME NEW S, NEW d \in Seq(S), NEW n \in 0 .. Len(d), NEW b, NEW p \in Part,
         NEW x \in 1 .. n, NEW y \in 1 .. n, PartOK(d, n, b, p),
         \/ x \in p.base .. p.end - 1 /\ y \in p.base .. p.end - 1
         \/ x < p.base /\ y < p.base
         \/ x >= p.end /\ y >= p.end
  PROVE  PartOK(Swap(d, x, y), n, b, p)
<1>0. p.base \in Nat /\ p.end \in Nat /\ p.base <= p.end /\ 1 <= p.base /\ p.end <= n + 1
  BY DEF Part, PartOK
<1>1. Cut(Swap(d, x, y), n, p.base) /\ Cut(Swap(d, x, y), n, p.end)
  <2>1. Cut(d, n, p.base) /\ Cut(d, n, p.end)
    BY DEF PartOK
  <2>2. /\ (x < p.base /\ y < p.base) \/ (x >= p.base /\ y >= p.base)
        /\ (x < p.end /\ y < p.end) \/ (x >= p.end /\ y >= p.end)
    BY <1>0
  <2> QED BY <1>0, <2>1, <2>2, SwapCut
<1>2. \A z \in 1 .. Len(d) :
        Swap(d, x, y)[z] = IF z = y THEN d[x] ELSE IF z = x THEN d[y] ELSE d[z]
  <2>1. x \in 1 .. Len(d) /\ y \in 1 .. Len(d)
    OBVIOUS
  <2> QED BY <2>1, SwapFacts
<1>3. ASSUME NEW u \in p.base .. p.end - 1, NEW v \in p.base .. p.end - 1, NEW k \in b, p.bit < k
      PROVE  HasBit(Swap(d, x, y)[u], k) <=> HasBit(Swap(d, x, y)[v], k)
  <2>1. ASSUME NEW w \in p.base .. p.end - 1
        PROVE  \E z \in p.base .. p.end - 1 : Swap(d, x, y)[w] = d[z]
    <3>1. w \in 1 .. Len(d)
      BY <1>0
    <3> QED BY <1>0, <1>2, <3>1, SMTT(30)
  <2>2. PICK t \in p.base .. p.end - 1 : Swap(d, x, y)[u] = d[t]
    BY <2>1
  <2>3. PICK z \in p.base .. p.end - 1 : Swap(d, x, y)[v] = d[z]
    BY <2>1
  <2> QED BY <1>3, <2>2, <2>3 DEF PartOK
<1> QED
  BY <1>0, <1>1, <1>3 DEF PartOK

\* An exchange behind the first part that is not empty does not touch it.
LEMMA SwapFirst ==
  ASSUME NEW S, NEW d \in Seq(S), NEW n \in 0 .. Len(d), NEW c \in Nat,
         NEW x \in 1 .. n, NEW y \in 1 .. n, x >= c, y >= c, FirstOK(d, n, c)
  PROVE  FirstOK(Swap(d, x, y), n, c)
<1>1. PICK e \in 2 .. c : /\ Cut(d, n, e)
                          /\ e <= Cutoff \/ \A z \in 1 .. e - 1 : ~Before(d[z], d[1])
  BY DEF FirstOK
<1>2. Cut(Swap(d, x, y), n, e)
  BY <1>1, SwapCut
<1>3. \A z \in 1 .. e - 1 : Swap(d, x, y)[z] = d[z]
  <2>1. x \in 1 .. Len(d) /\ y \in 1 .. Len(d)
    OBVIOUS
  <2>2. \A z \in 1 .. Len(d) :
          Swap(d, x, y)[z] = IF z = y THEN d[x] ELSE IF z = x THEN d[y] ELSE d[z]
    BY <2>1, SwapFacts
  <2> QED BY <2>2
<1>4. 1 \in 1 .. e - 1
  OBVIOUS
<1>5. (\A z \in 1 .. e - 1 : ~Before(d[z], d[1])) =>
        \A z \in 1 .. e - 1 : ~Before(Swap(d, x, y)[z], Swap(d, x, y)[1])
  BY <1>3, <1>4
<1> QED
  BY <1>1, <1>2, <1>5 DEF FirstOK

\* The next bit is the highest of those below.
LEMMA BelowFacts ==
  ASSUME bits \subseteq 0 .. InoBits + 2, NEW k \in Nat
  PROVE  /\ Below(k) = {} => \A x \in bits : x >= k
         /\ \A l \in Below(k) : /\ l \in bits /\ l \in Nat /\ l < k
                                /\ \A x \in bits : l < x => x >= k
<1>0. InoBits \in Nat /\ \A x \in bits : x \in Nat /\ x <= InoBits + 2
  BY SortAssumption
<1>1. ASSUME NEW x \in bits, x < k PROVE Below(k) # {}
  <2> DEFINE T == {m \in Nat : \E y \in bits : y < k /\ m = InoBits + 2 - y}
  <2>1. InoBits + 2 - x \in T
    BY <1>0, <1>1
  <2>2. PICK m \in T : \A y \in T : m <= y
    <3>1. T \subseteq Nat /\ T # {}
      BY <2>1
    <3> HIDE DEF T
    <3> QED BY <3>1, LeastNat
  <2>3. PICK l \in bits : l < k /\ m = InoBits + 2 - l
    BY <2>2
  <2>4. ASSUME NEW y \in bits, y < k PROVE y <= l
    <3>1. InoBits + 2 - y \in T
      BY <1>0, <2>4
    <3>2. m <= InoBits + 2 - y
      BY <2>2, <3>1
    <3> QED BY <1>0, <2>3, <3>2
  <2> QED BY <2>3, <2>4 DEF Below
<1> QED
  BY <1>0, <1>1 DEF Below

\* Between the two halves of a part there is a cut.
LEMMA SplitCut ==
  ASSUME SortTypes, Known, PartOK(dents, size, bits, part), HalvesOK, loop = "split", pb <= pa
  PROVE  Cut(dents, size, pa)
<1>0. /\ pa \in Nat /\ pb = pa /\ part.base \in Nat /\ part.end \in Nat /\ size \in Nat
      /\ 1 <= part.base /\ part.base <= pa /\ pa <= part.end /\ part.end <= size + 1
      /\ part.bit \in bits
  BY DEF SortTypes, Part, PartOK
<1> SUFFICES ASSUME NEW x \in 1 .. pa - 1, NEW y \in pa .. size
             PROVE  ~Before(dents[y], dents[x])
  BY DEF Cut
<1>1. CASE x < part.base
  BY <1>0, <1>1 DEF PartOK, Cut
<1>2. CASE y >= part.end
  BY <1>0, <1>2 DEF PartOK, Cut
<1>3. CASE x >= part.base /\ y < part.end
  <2>1. x \in part.base .. pa - 1 /\ y \in pb .. part.end - 1 /\ x \in 1 .. size /\ y \in 1 .. size
        /\ x \in part.base .. part.end - 1 /\ y \in part.base .. part.end - 1
    BY <1>0, <1>3
  <2>2. ~HasBit(dents[x], part.bit) /\ HasBit(dents[y], part.bit)
    BY <2>1 DEF HalvesOK
  <2>3. \A l \in bits : part.bit < l => (HasBit(dents[x], l) <=> HasBit(dents[y], l))
    BY <2>1 DEF PartOK
  <2>4. dents[x] \in Dent /\ dents[y] \in Dent /\ Covers(dents[x], dents[y])
    BY <2>1 DEF Known
  <2> QED BY <1>0, <2>2, <2>3, <2>4, BitOrders
<1> QED
  BY <1>0, <1>1, <1>2, <1>3

\* The front half and the back half, each with the next bit
LEMMA SplitParts ==
  ASSUME SortTypes, Known, PartOK(dents, size, bits, part), HalvesOK, loop = "split", pb <= pa,
         NEW k \in Below(part.bit)
  PROVE  /\ PartOK(dents, size, bits, [part EXCEPT !.end = pa, !.bit = k])
         /\ PartOK(dents, size, bits, [part EXCEPT !.base = pa, !.bit = k])
<1>0. /\ pa \in Nat /\ pb = pa /\ part.base \in Nat /\ part.end \in Nat /\ size \in Nat
      /\ 1 <= part.base /\ part.base <= pa /\ pa <= part.end /\ part.end <= size + 1
      /\ part.bit \in bits /\ part.bit \in Nat
      /\ bits \subseteq 0 .. InoBits + 2
      /\ part \in Part
  BY DEF SortTypes, Part, PartOK
<1>1. /\ k \in bits /\ k \in Nat /\ k < part.bit
      /\ \A x \in bits : k < x => x \in Nat /\ (x = part.bit \/ part.bit < x)
  BY <1>0, BelowFacts, SortAssumption, SMTT(30)
<1>2. Cut(dents, size, pa) /\ Cut(dents, size, part.base) /\ Cut(dents, size, part.end)
  BY SplitCut DEF PartOK
<1>3. ASSUME NEW x \in part.base .. pa - 1, NEW y \in part.base .. pa - 1, NEW l \in bits, k < l
      PROVE  HasBit(dents[x], l) <=> HasBit(dents[y], l)
  <2>1. x \in part.base .. part.end - 1 /\ y \in part.base .. part.end - 1
    BY <1>0
  <2>2. CASE l = part.bit
    BY <2>2 DEF HalvesOK
  <2>3. CASE part.bit < l
    BY <2>1, <2>3 DEF PartOK
  <2> QED BY <1>1, <1>3, <2>2, <2>3
<1>4. ASSUME NEW x \in pa .. part.end - 1, NEW y \in pa .. part.end - 1, NEW l \in bits, k < l
      PROVE  HasBit(dents[x], l) <=> HasBit(dents[y], l)
  <2>1. x \in part.base .. part.end - 1 /\ y \in part.base .. part.end - 1
    BY <1>0
  <2>2. CASE l = part.bit
    BY <1>0, <2>2 DEF HalvesOK
  <2>3. CASE part.bit < l
    BY <2>1, <2>3 DEF PartOK
  <2> QED BY <1>1, <1>4, <2>2, <2>3
<1> DEFINE f == [part EXCEPT !.end = pa, !.bit = k]
           g == [part EXCEPT !.base = pa, !.bit = k]
<1>5. /\ f.base = part.base /\ f.end = pa /\ f.bit = k
      /\ g.base = pa /\ g.end = part.end /\ g.bit = k
  BY <1>0 DEF Part
<1> HIDE DEF f, g
<1>6. PartOK(dents, size, bits, f)
  BY <1>0, <1>1, <1>2, <1>3, <1>5 DEF PartOK
<1>7. PartOK(dents, size, bits, g)
  BY <1>0, <1>1, <1>2, <1>4, <1>5 DEF PartOK
<1> QED
  BY <1>6, <1>7 DEF f, g

\* A part is left alone when it is short or all bits have been tested.  With the
\* parts in front of it, it has the smallest elements in order then.
LEMMA PartFinished ==
  ASSUME SortTypes, Known, StackOK, HalvesOK, RadixFirst,
         \/ TakePart /\ part.end - part.base < Cutoff
         \/ SplitDone /\ Below(part.bit) = {}
  PROVE  part.end = 1 \/ FirstOK(dents, size, part.end)
<1>0. /\ pa \in Nat /\ part.base \in Nat /\ part.end \in Nat /\ size \in Nat
      /\ 1 <= part.base /\ part.base <= part.end /\ part.end <= size + 1
      /\ part.bit \in bits /\ part.bit \in Nat
      /\ bits \subseteq 0 .. InoBits + 2
      /\ part \in Part /\ loop \in {"parts", "split"}
      /\ PartOK(dents, size, bits, part)
      /\ Cut(dents, size, part.end)
  <2>1. loop \in {"parts", "split"}
    BY DEF TakePart, SplitDone
  <2>2. PartOK(dents, size, bits, part)
    BY <2>1 DEF StackOK
  <2> QED BY <2>1, <2>2 DEF SortTypes, Part, PartOK
<1>1. CASE part.base # 1
  <2>1. FirstOK(dents, size, part.base)
    BY <1>0, <1>1 DEF RadixFirst
  <2> QED BY <1>0, <2>1 DEF FirstOK
<1>2. CASE part.base = 1 /\ TakePart /\ part.end - part.base < Cutoff
  <2>1. CASE part.end # 1
    <3>1. part.end \in 2 .. part.end /\ part.end <= Cutoff
      BY <1>0, <1>2, <2>1, SortAssumption
    <3> QED BY <1>0, <3>1 DEF FirstOK
  <2> QED BY <2>1
<1>3. CASE part.base = 1 /\ SplitDone /\ Below(part.bit) = {}
  <2>1. loop = "split" /\ pb <= pa /\ pb = pa /\ part.base < part.end /\ pa <= part.end /\ part.base <= pa
    BY <1>3 DEF SplitDone, SortTypes
  <2>2. Cut(dents, size, pa)
    BY <1>0, <2>1, SplitCut
  <2>3. ASSUME NEW x \in part.base .. part.end - 1, NEW y \in part.base .. part.end - 1,
               HasBit(dents[x], part.bit) <=> HasBit(dents[y], part.bit)
        PROVE  ~Before(dents[x], dents[y])
    <3>1. \A l \in bits : l = part.bit \/ part.bit < l
      BY <1>0, <1>3, BelowFacts, SortAssumption
    <3>2. \A l \in bits : HasBit(dents[x], l) <=> HasBit(dents[y], l)
      BY <1>0, <2>3, <3>1 DEF PartOK
    <3>3. x \in 1 .. size /\ y \in 1 .. size
      BY <1>0
    <3>4. dents[x] \in Dent /\ dents[y] \in Dent /\ Covers(dents[x], dents[y])
      BY <3>3 DEF Known
    <3> QED BY <3>2, <3>4, AllBitsAgree
  <2>4. CASE pa # 1
    <3>1. \A x \in 1 .. pa - 1 : ~HasBit(dents[x], part.bit)
      BY <1>3, <2>1 DEF HalvesOK
    <3>2. pa \in 2 .. part.end /\ \A x \in 1 .. pa - 1 : ~Before(dents[x], dents[1])
      BY <1>0, <1>3, <2>1, <2>3, <2>4, <3>1
    <3> QED BY <2>2, <3>2 DEF FirstOK
  <2>5. CASE pa = 1
    <3>1. \A x \in 1 .. part.end - 1 : HasBit(dents[x], part.bit)
      BY <2>1, <2>5 DEF HalvesOK
    <3>2. part.end \in 2 .. part.end /\ \A x \in 1 .. part.end - 1 : ~Before(dents[x], dents[1])
      BY <1>0, <1>3, <2>1, <2>3, <3>1
    <3> QED BY <1>0, <3>2 DEF FirstOK
  <2> QED BY <2>4, <2>5
<1> QED
  BY <1>0, <1>1, <1>2, <1>3

-----------------------------------------------------------------------------
(***************************************************************************)
(* The steps of the radix sort.                                            *)
(***************************************************************************)
\* What is on a stack when its last element has been taken.
LEMMA PopFacts ==
  ASSUME NEW S, NEW s \in Seq(S), s # <<>>
  PROVE  /\ Len(s) \in Nat \ {0} /\ s[Len(s)] \in S
         /\ SubSeq(s, 1, Len(s) - 1) \in Seq(S)
         /\ Len(SubSeq(s, 1, Len(s) - 1)) = Len(s) - 1
         /\ \A n \in 1 .. Len(s) - 1 : SubSeq(s, 1, Len(s) - 1)[n] = s[n]
<1>1. Len(s) \in Nat \ {0}
  OBVIOUS
<1> DEFINE m == Len(s) - 1
<1>2. m \in 0 .. Len(s) /\ (1 <= m + 1)
  BY <1>1
<1>3. Len(SubSeq(s, 1, m)) = m
  <2>1. m \in Int /\ m >= 0 /\ \A n \in 1 .. m : s[n] \in S
    BY <1>2
  <2> HIDE DEF m
  <2> QED BY <1>2, <2>1, SubSeqProperties
<1>4. SubSeq(s, 1, m) \in Seq(S)
  BY <1>1
<1>5. \A n \in 1 .. m : SubSeq(s, 1, m)[n] = s[n]
  BY <1>2
<1> QED
  BY <1>1, <1>3, <1>4, <1>5

\* A round of the partition loop (eio.c:1154-1162) keeps every part in its place.
LEMMA SplitStep ==
  ASSUME SortInv, Partition, loop = "split"
  PROVE  StackOK' /\ HalvesOK' /\ RadixFirst'
<1>0. /\ SortTypes /\ StackOK /\ HalvesOK /\ RadixFirst
  BY DEF SortInv
<1>1. /\ loop' = "split" /\ UNCHANGED <<size, bits, part, stack>>
      /\ pa < pb
  BY DEF Partition, partVars
<1>2. /\ pa \in 1 .. size /\ pb - 1 \in 1 .. size
      /\ pa \in part.base .. part.end - 1 /\ pb - 1 \in part.base .. part.end - 1
      /\ part.base \in Nat /\ part.end \in Nat /\ pa \in Nat /\ pb \in Nat
      /\ dents \in Seq(Dent) /\ size \in 0 .. Len(dents) /\ part \in Part /\ stack \in Seq(Part)
      /\ part.base >= 1 /\ part.end <= size + 1 /\ pb <= part.end
  BY <1>0, <1>1, PartitionIndices DEF SortTypes, Part
<1>3. dents' = dents \/ dents' = Swap(dents, pa, pb - 1)
  BY DEF Partition
<1>4. PartOK(dents', size, bits, part)
  <2>1. PartOK(dents, size, bits, part)
    BY <1>0, <1>1 DEF StackOK
  <2>2. PartOK(Swap(dents, pa, pb - 1), size, bits, part)
    BY <1>2, <2>1, SwapPart
  <2> QED BY <1>3, <2>1, <2>2
<1>5. ASSUME NEW n \in 1 .. Len(stack) PROVE PartOK(dents', size, bits, stack[n])
  <2>1. PartOK(dents, size, bits, stack[n]) /\ part.end <= stack[n].base
    BY <1>0, <1>1 DEF StackOK
  <2>2. stack[n] \in Part /\ stack[n].base \in Nat
    <3>1. stack[n] \in Part
      BY <1>2
    <3> QED BY <3>1 DEF Part
  <2>3. pa < stack[n].base /\ pb - 1 < stack[n].base
    BY <1>2, <2>1, <2>2, SMTT(30)
  <2>4. PartOK(Swap(dents, pa, pb - 1), size, bits, stack[n])
    BY <1>2, <2>1, <2>2, <2>3, SwapPart
  <2> QED BY <1>3, <2>1, <2>4
<1>6. StackOK'
  BY <1>0, <1>1, <1>4, <1>5 DEF StackOK
<1>7. RadixFirst'
  <2>1. CASE part.base # 1
    <3>1. FirstOK(dents, size, part.base)
      BY <1>0, <1>1, <2>1 DEF RadixFirst
    <3>2. FirstOK(Swap(dents, pa, pb - 1), size, part.base)
      BY <1>2, <3>1, SwapFirst
    <3> QED BY <1>1, <1>3, <3>1, <3>2 DEF RadixFirst
  <2> QED BY <1>1, <2>1 DEF RadixFirst
<1>8. HalvesOK'
  <2>1. /\ \A x \in part.base .. pa - 1 : ~HasBit(dents[x], part.bit)
        /\ \A x \in pb .. part.end - 1 : HasBit(dents[x], part.bit)
    BY <1>0, <1>1 DEF HalvesOK
  <2>2. CASE ~Behind(dents[pa])
    <3>1. dents' = dents /\ pa' = pa + 1 /\ pb' = pb /\ ~HasBit(dents[pa], part.bit)
      BY <1>1, <2>2 DEF Partition, Behind
    <3>2. \A x \in part.base .. pa : ~HasBit(dents[x], part.bit)
      BY <1>2, <2>1, <3>1
    <3> QED BY <1>1, <1>2, <2>1, <3>1, <3>2 DEF HalvesOK
  <2>3. CASE Behind(dents[pa]) /\ Behind(dents[pb - 1])
    <3>1. dents' = dents /\ pa' = pa /\ pb' = pb - 1 /\ HasBit(dents[pb - 1], part.bit)
      BY <1>1, <2>3 DEF Partition, Behind
    <3>2. \A x \in pb - 1 .. part.end - 1 : HasBit(dents[x], part.bit)
      BY <1>2, <2>1, <3>1
    <3> QED BY <1>1, <1>2, <2>1, <3>1, <3>2 DEF HalvesOK
  <2>4. CASE Behind(dents[pa]) /\ ~Behind(dents[pb - 1])
    <3>1. /\ dents' = Swap(dents, pa, pb - 1) /\ pa' = pa + 1 /\ pb' = pb - 1
          /\ HasBit(dents[pa], part.bit) /\ ~HasBit(dents[pb - 1], part.bit)
      BY <1>1, <2>4 DEF Partition, Behind
    <3>2. \A z \in 1 .. size :
            dents'[z] = IF z = pb - 1 THEN dents[pa] ELSE IF z = pa THEN dents[pb - 1] ELSE dents[z]
      <4>1. pa \in 1 .. Len(dents) /\ pb - 1 \in 1 .. Len(dents)
        BY <1>2
      <4>2. \A z \in 1 .. Len(dents) :
              Swap(dents, pa, pb - 1)[z] =
                IF z = pb - 1 THEN dents[pa] ELSE IF z = pa THEN dents[pb - 1] ELSE dents[z]
        BY <1>2, <4>1 DEF Swap
      <4> QED BY <1>2, <3>1, <4>2
    <3>3. pa # pb - 1
      BY <3>1
    <3>4. ASSUME NEW x \in part.base .. pa PROVE ~HasBit(dents'[x], part.bit)
      <4>1. x \in 1 .. size /\ x # pb - 1
        BY <1>1, <1>2, <3>3
      <4>2. dents'[x] = IF x = pa THEN dents[pb - 1] ELSE dents[x]
        BY <3>2, <4>1
      <4> QED BY <1>2, <2>1, <3>1, <4>2
    <3>5. ASSUME NEW x \in pb - 1 .. part.end - 1 PROVE HasBit(dents'[x], part.bit)
      <4>1. x \in 1 .. size /\ x # pa
        BY <1>1, <1>2, <3>3
      <4>2. dents'[x] = IF x = pb - 1 THEN dents[pa] ELSE dents[x]
        BY <3>2, <4>1
      <4> QED BY <1>2, <2>1, <3>1, <4>2
    <3> QED BY <1>1, <1>2, <3>1, <3>4, <3>5 DEF HalvesOK
  <2> QED BY <2>2, <2>3, <2>4
<1> QED
  BY <1>6, <1>7, <1>8

\* The next part follows the one that is finished.
LEMMA NextPartStep ==
  ASSUME SortInv,
         \/ TakePart /\ part.end - part.base < Cutoff
         \/ SplitDone /\ Below(part.bit) = {}
  PROVE  StackOK' /\ HalvesOK' /\ RadixFirst' /\ MinimumNear' /\ loop' \in {"parts", "minimum"}
<1>0. /\ SortTypes /\ StackOK /\ HalvesOK /\ RadixFirst /\ Known
      /\ loop \in {"parts", "split"}
  BY ElementsKnown DEF SortInv, TakePart, SplitDone
<1>1. part.end = 1 \/ FirstOK(dents, size, part.end)
  BY <1>0, PartFinished
<1>2. NextPart /\ UNCHANGED <<dents, size, bits>>
  <2>1. CASE TakePart /\ part.end - part.base < Cutoff
    <3>1. part.end \in Nat /\ part.base \in Nat
      BY <1>0 DEF SortTypes, Part
    <3> QED BY <2>1, <3>1, SortAssumption DEF TakePart
  <2>2. CASE SplitDone /\ Below(part.bit) = {}
    BY <2>2 DEF SplitDone
  <2> QED BY <2>1, <2>2
<1>3. CASE stack = <<>>
  <2>1. /\ loop' = "minimum" /\ si' = (IF size > Fast THEN Cutoff + 1 ELSE size) /\ smallest' = 1
    BY <1>2, <1>3 DEF NextPart, StartInsertion
  <2>2. size > Fast /\ part.end = size + 1 /\ size \in Nat /\ si' = Cutoff + 1
    BY <1>0, <1>3, <2>1 DEF SortTypes, StackOK
  <2>3. FirstOK(dents, size, size + 1)
    BY <1>1, <2>2, SortAssumption
  <2>4. PICK e \in 2 .. size + 1 : /\ Cut(dents, size, e)
                                   /\ e <= Cutoff \/ \A x \in 1 .. e - 1 : ~Before(dents[x], dents[1])
    BY <2>3 DEF FirstOK
  <2>5. ASSUME NEW y \in Cutoff + 2 .. size PROVE ~Before(dents[y], dents[1])
    <3>1. y \in e .. size \/ y \in 1 .. e - 1
      BY <2>2, SortAssumption
    <3>2. 1 \in 1 .. e - 1
      OBVIOUS
    <3>3. y \in e .. size => ~Before(dents[y], dents[1])
      BY <2>4, <3>2 DEF Cut
    <3>4. y \in 1 .. e - 1 => ~(e <= Cutoff)
      BY SortAssumption
    <3> QED BY <2>4, <3>1, <3>3, <3>4
  <2>6. ~Before(dents[1], dents[1])
    <3>1. 1 \in 1 .. size
      BY <2>2, SortAssumption
    <3> QED BY <1>0, <3>1, BeforeOrder DEF Known
  <2>7. Cutoff \in Nat /\ \A y \in {1} \cup Cutoff + 2 .. Cutoff + 1 : y = 1
    BY SortAssumption
  <2>8. MinimumNear'
    BY <1>2, <2>1, <2>2, <2>5, <2>6, <2>7 DEF MinimumNear
  <2> QED BY <2>1, <2>8 DEF StackOK, HalvesOK, RadixFirst
<1>4. CASE stack # <<>>
  <2>1. /\ part' = stack[Len(stack)] /\ stack' = SubSeq(stack, 1, Len(stack) - 1)
        /\ loop' = "parts" /\ UNCHANGED <<dents, size, bits>>
    BY <1>2, <1>4 DEF NextPart
  <2>2. stack \in Seq(Part) /\ Len(stack) \in Nat \ {0}
    BY <1>0, <1>4 DEF SortTypes
  <2>3. /\ Len(stack') = Len(stack) - 1
        /\ \A n \in 1 .. Len(stack) - 1 : stack'[n] = stack[n]
    BY <1>4, <2>1, <2>2, PopFacts
  <2>4. /\ part.end = stack[Len(stack)].base
        /\ stack[1].end = size + 1
    BY <1>0, <1>4 DEF StackOK
  <2>5. \A n \in 1 .. Len(stack) :
         /\ PartOK(dents, size, bits, stack[n])
         /\ part.end <= stack[n].base
         /\ \A m \in 1 .. n - 1 : stack[n].end <= stack[m].base
         /\ n > 1 => /\ stack[n].end = stack[n - 1].base
                     /\ stack[n].bit < stack[n - 1].bit
         /\ n <= Cardinality({k \in bits : stack[n].bit < k})
    BY <1>0 DEF StackOK
  <2>6. PartOK(dents, size, bits, part')
    <3>1. Len(stack) \in 1 .. Len(stack)
      BY <2>2
    <3> QED BY <2>1, <2>5, <3>1
  <2>7. stack' = <<>> => part'.end = size + 1
    <3>1. stack' = <<>> => Len(stack) = 1
      BY <2>2, <2>3
    <3> QED BY <2>1, <2>4, <3>1
  <2>8. stack' # <<>> => /\ part'.end = stack'[Len(stack')].base
                         /\ part'.bit <= stack'[Len(stack')].bit
                         /\ stack'[1].end = size + 1
    <3> SUFFICES ASSUME stack' # <<>>
                 PROVE /\ part'.end = stack'[Len(stack')].base
                       /\ part'.bit <= stack'[Len(stack')].bit
                       /\ stack'[1].end = size + 1
      OBVIOUS
    <3>1. Len(stack) > 1
      <4>1. stack' \in Seq(Part)
        BY <2>1, <2>2
      <4> QED BY <2>2, <2>3, <4>1
    <3> DEFINE n == Len(stack)
    <3>2. n \in 1 .. Len(stack) /\ n > 1 /\ n - 1 \in 1 .. n - 1 /\ 1 \in 1 .. n - 1
          /\ n - 1 \in 1 .. Len(stack)
      BY <2>2, <3>1
    <3>3. stack[n].end = stack[n - 1].base /\ stack[n].bit < stack[n - 1].bit
      BY <2>5, <3>2
    <3>4. stack'[Len(stack')] = stack[n - 1] /\ stack'[1] = stack[1]
      BY <2>3, <3>2
    <3>5. stack[n].bit \in Nat /\ stack[n - 1].bit \in Nat
      <4>1. stack[n] \in Part /\ stack[n - 1] \in Part
        BY <2>2, <3>2
      <4> QED BY <4>1 DEF Part
    <3> QED BY <2>1, <2>4, <3>3, <3>4, <3>5
  <2>9. \A n \in 1 .. Len(stack') :
         /\ PartOK(dents, size, bits, stack'[n])
         /\ part'.end <= stack'[n].base
         /\ \A m \in 1 .. n - 1 : stack'[n].end <= stack'[m].base
         /\ n > 1 => /\ stack'[n].end = stack'[n - 1].base
                     /\ stack'[n].bit < stack'[n - 1].bit
         /\ n <= Cardinality({k \in bits : stack'[n].bit < k})
    <3> TAKE n \in 1 .. Len(stack')
    <3>1. /\ n \in 1 .. Len(stack) /\ stack'[n] = stack[n] /\ n \in 1 .. Len(stack) - 1
          /\ \A m \in 1 .. n - 1 : stack'[m] = stack[m]
          /\ n > 1 => n - 1 \in 1 .. n - 1
          /\ Len(stack) \in 1 .. Len(stack)
      BY <2>2, <2>3, SMTT(30)
    <3>2. part'.end <= stack'[n].base
      BY <2>1, <2>5, <3>1
    <3> QED BY <2>5, <3>1, <3>2
  <2>10. StackOK'
    BY <2>1, <2>6, <2>7, <2>8, <2>9 DEF StackOK
  <2>11. RadixFirst'
    BY <1>1, <2>1, <2>4 DEF RadixFirst
  <2> QED BY <2>1, <2>10, <2>11 DEF HalvesOK, MinimumNear
<1> QED
  BY <1>3, <1>4

\* The bits above the one of the part put off before are fewer by one at least.
LEMMA MoreBits ==
  ASSUME NEW k \in Nat, NEW l \in Nat, k \in bits, l < k, bits \subseteq 0 .. InoBits + 2,
         NEW n \in Nat, NEW m \in Nat, k <= m, n <= Cardinality({x \in bits : m < x})
  PROVE  n + 1 <= Cardinality({x \in bits : l < x})
<1> DEFINE A == {x \in bits : m < x}
           B == {x \in bits : l < x}
<1>1. IsFiniteSet(bits)
  <2>1. IsFiniteSet(0 .. InoBits + 2)
    BY FS_Interval, SortAssumption
  <2> QED BY <2>1, FS_Subset
<1>2. IsFiniteSet(A) /\ IsFiniteSet(B)
  BY <1>1, FS_Subset
<1>3. k \notin A /\ A \cup {k} \subseteq B
  <2>1. \A x \in bits : x \in Int
    BY SortAssumption
  <2>2. \A x \in bits : m < x => l < x
    BY <2>1
  <2>3. ~(m < k)
    OBVIOUS
  <2> QED BY <2>2, <2>3
<1> HIDE DEF A, B
<1>4. Cardinality(A \cup {k}) = Cardinality(A) + 1
  BY <1>2, <1>3, FS_AddElement
<1>5. Cardinality(A \cup {k}) <= Cardinality(B)
  BY <1>2, <1>3, FS_Subset
<1>6. Cardinality(A) \in Nat /\ Cardinality(B) \in Nat /\ n <= Cardinality(A)
  BY <1>2, FS_CardinalityType DEF A
<1> QED
  BY <1>4, <1>5, <1>6 DEF B

\* The back half is put off, the front half is next.
LEMMA PutOffStep ==
  ASSUME SortInv, SplitDone, Below(part.bit) # {}
  PROVE  StackOK' /\ HalvesOK' /\ RadixFirst'
<1>0. /\ SortTypes /\ StackOK /\ HalvesOK /\ RadixFirst /\ Known
      /\ loop = "split" /\ pb <= pa
  BY ElementsKnown DEF SortInv, SplitDone
<1>1. PICK k \in Below(part.bit) :
        /\ stack' = Append(stack, [part EXCEPT !.base = pa, !.bit = k])
        /\ part' = [part EXCEPT !.end = pa, !.bit = k]
  BY DEF SplitDone
<1>2. loop' = "parts" /\ UNCHANGED <<dents, size, bits>>
  BY DEF SplitDone
<1>3. /\ part \in Part /\ part.bit \in Nat /\ part.base \in Nat /\ part.end \in Nat
      /\ stack \in Seq(Part) /\ bits \subseteq 0 .. InoBits + 2
      /\ PartOK(dents, size, bits, part) /\ part.bit \in bits
      /\ pa \in Nat /\ part.base <= pa /\ pa <= part.end
  BY <1>0 DEF SortTypes, Part, StackOK, PartOK
<1>4. k \in Nat /\ k < part.bit
  BY <1>3, BelowFacts
<1> DEFINE g == [part EXCEPT !.base = pa, !.bit = k]
           L == Len(stack)
<1>5. /\ g \in Part /\ g.base = pa /\ g.end = part.end /\ g.bit = k
      /\ part'.base = part.base /\ part'.end = pa /\ part'.bit = k
  BY <1>1, <1>3, <1>4 DEF Part
<1>6. PartOK(dents, size, bits, g) /\ PartOK(dents, size, bits, part')
  BY <1>0, <1>1, <1>3, SplitParts
<1> HIDE DEF g
<1>7. stack' = Append(stack, g)
  BY <1>1 DEF g
<1>8. /\ L \in Nat /\ Len(stack') = L + 1 /\ stack' \in Seq(Part)
      /\ stack'[L + 1] = g /\ \A n \in 1 .. L : stack'[n] = stack[n]
  BY <1>3, <1>5, <1>7
<1>9. \A n \in 1 .. L :
         /\ PartOK(dents, size, bits, stack[n])
         /\ part.end <= stack[n].base
         /\ \A m \in 1 .. n - 1 : stack[n].end <= stack[m].base
         /\ n > 1 => /\ stack[n].end = stack[n - 1].base
                     /\ stack[n].bit < stack[n - 1].bit
         /\ n <= Cardinality({j \in bits : stack[n].bit < j})
  BY <1>0 DEF StackOK
<1>10. \A n \in 1 .. L : stack[n] \in Part /\ stack[n].base \in Nat /\ stack[n].bit \in Nat
  <2>1. \A n \in 1 .. L : stack[n] \in Part
    BY <1>3
  <2> QED BY <2>1 DEF Part
<1>11. L # 0 => /\ L \in 1 .. L /\ part.end = stack[L].base /\ part.bit <= stack[L].bit
                /\ stack[1].end = size + 1
  <2>1. L # 0 => stack # <<>>
    OBVIOUS
  <2> QED BY <1>0, <1>8, <2>1 DEF StackOK
<1>12. L = 0 => part.end = size + 1
  <2>1. L = 0 => stack = <<>>
    BY <1>3
  <2> QED BY <1>0, <2>1 DEF StackOK
<1>13. L + 1 <= Cardinality({j \in bits : k < j})
  <2>1. CASE L = 0
    <3>1. 0 <= Cardinality({j \in bits : part.bit < j})
      <4>1. IsFiniteSet(0 .. InoBits + 2)
        BY FS_Interval, SortAssumption
      <4>2. IsFiniteSet({j \in bits : part.bit < j})
        BY <1>3, <4>1, FS_Subset
      <4> QED BY <4>2, FS_CardinalityType
    <3> QED BY <1>3, <1>4, <2>1, <3>1, MoreBits
  <2>2. CASE L # 0
    <3>1. stack[L].bit \in Nat /\ part.bit <= stack[L].bit /\ L <= Cardinality({j \in bits : stack[L].bit < j})
      BY <1>9, <1>10, <1>11, <2>2
    <3> QED BY <1>3, <1>4, <1>8, <3>1, MoreBits, SMTT(30)
  <2> QED BY <2>1, <2>2
<1>14. ASSUME NEW n \in 1 .. L + 1
       PROVE  /\ PartOK(dents, size, bits, stack'[n])
              /\ part'.end <= stack'[n].base
              /\ \A m \in 1 .. n - 1 : stack'[n].end <= stack'[m].base
              /\ n > 1 => /\ stack'[n].end = stack'[n - 1].base
                          /\ stack'[n].bit < stack'[n - 1].bit
              /\ n <= Cardinality({j \in bits : stack'[n].bit < j})
  <2>1. CASE n = L + 1
    <3>1. stack'[n] = g
      BY <1>8, <2>1
    <3>2. ASSUME NEW m \in 1 .. n - 1 PROVE stack'[n].end <= stack'[m].base
      <4>1. m \in 1 .. L /\ stack'[m] = stack[m]
        BY <1>8, <2>1
      <4> QED BY <1>5, <1>9, <3>1, <4>1
    <3>3. ASSUME n > 1
          PROVE  /\ stack'[n].end = stack'[n - 1].base
                 /\ stack'[n].bit < stack'[n - 1].bit
      <4>1. n - 1 = L /\ L # 0 /\ L \in 1 .. L
        BY <1>8, <2>1, <3>3
      <4>2. stack'[n - 1] = stack[L] /\ stack[L].bit \in Nat
        BY <1>8, <1>10, <4>1
      <4> QED BY <1>3, <1>4, <1>5, <1>11, <3>1, <4>1, <4>2
    <3>4. stack'[n].base = pa /\ stack'[n].bit = k /\ PartOK(dents, size, bits, stack'[n])
      BY <1>5, <1>6, <3>1
    <3>5. n <= Cardinality({j \in bits : stack'[n].bit < j})
      BY <1>13, <2>1, <3>4
    <3>6. part'.end <= stack'[n].base
      BY <1>3, <1>5, <3>4
    <3> QED BY <3>2, <3>3, <3>4, <3>5, <3>6
  <2>2. CASE n # L + 1
    <3>1. /\ n \in 1 .. L /\ stack'[n] = stack[n] /\ \A m \in 1 .. n - 1 : stack'[m] = stack[m]
          /\ n > 1 => n - 1 \in 1 .. n - 1
      BY <1>8, <2>2
    <3>2. part'.end <= stack[n].base
      <4>1. part.end <= stack[n].base /\ stack[n].base \in Nat
        BY <1>9, <1>10, <3>1
      <4> QED BY <1>3, <1>5, <4>1
    <3> QED BY <1>9, <3>1, <3>2
  <2> QED BY <2>1, <2>2
<1>15. stack' # <<>> /\ part'.end = stack'[Len(stack')].base
       /\ part'.bit <= stack'[Len(stack')].bit
       /\ stack'[1].end = size + 1
  <2>1. stack' # <<>>
    BY <1>8
  <2>2. stack'[1].end = size + 1
    BY <1>5, <1>8, <1>11, <1>12
  <2> QED BY <1>4, <1>5, <1>8, <2>1, <2>2
<1>16. StackOK'
  BY <1>2, <1>6, <1>8, <1>14, <1>15 DEF StackOK
<1>17. RadixFirst'
  BY <1>0, <1>2, <1>5 DEF RadixFirst
<1> QED
  BY <1>2, <1>16, <1>17 DEF HalvesOK

\* All is one part at first.
LEMMA FirstPartStep ==
  ASSUME SortInv, Sort
  PROVE  StackOK' /\ HalvesOK' /\ RadixFirst' /\ MinimumNear' /\ Smallest' /\ Prefix'
<1>0. SortTypes /\ Known /\ stack = <<>> /\ size \in Nat
  <2>1. SortTypes /\ loop = "sort"
    BY DEF SortInv, Sort
  <2> QED BY <2>1, ElementsKnown DEF SortInv, SortTypes
<1>1. CASE size <= 1
  <2>1. loop' = "sorted" /\ size' = size
    BY <1>0, <1>1, SortAssumption DEF Sort
  <2> QED
    BY <1>0, <1>1, <2>1 DEF StackOK, HalvesOK, RadixFirst, MinimumNear, Smallest, Prefix, Ascending
<1>2. CASE 1 < size /\ size <= Fast
  <2>1. loop' = "minimum" /\ si' = size /\ smallest' = 1 /\ size' = size /\ dents' = dents
    BY <1>0, <1>2, SortAssumption DEF Sort, StartInsertion
  <2>2. ~Before(dents[1], dents[1])
    <3>1. 1 \in 1 .. size
      BY <1>0, <1>2
    <3> QED BY <1>0, <3>1, BeforeOrder DEF Known
  <2>3. \A y \in {1} \cup size + 1 .. size : y = 1
    BY <1>0
  <2>4. MinimumNear'
    BY <1>0, <1>2, <2>1, <2>2, <2>3, SortAssumption DEF MinimumNear
  <2> QED BY <2>1, <2>4 DEF StackOK, HalvesOK, RadixFirst, Smallest, Prefix
<1>3. CASE Fast < size
  <2>1. PICK k \in bits : /\ \A x \in bits : x <= k
                          /\ part' = [base |-> 1, end |-> size + 1, bit |-> k]
    BY <1>0, <1>3, SortAssumption DEF Sort
  <2>2. loop' = "parts" /\ stack' = <<>> /\ UNCHANGED <<dents, size, bits>>
    BY <1>0, <1>3, SortAssumption DEF Sort
  <2>3. part'.base = 1 /\ part'.end = size + 1 /\ part'.bit = k
    BY <2>1
  <2>4. \A x \in bits : x \in Nat /\ ~(k < x)
    BY <1>0, <2>1, SortAssumption DEF SortTypes
  <2>5. PartOK(dents, size, bits, part')
    BY <1>0, <2>3, <2>4 DEF PartOK, Cut
  <2>6. StackOK'
    BY <2>2, <2>3, <2>5 DEF StackOK
  <2> QED BY <2>2, <2>3, <2>6 DEF HalvesOK, RadixFirst, MinimumNear, Smallest, Prefix
<1> QED
  BY <1>0, <1>1, <1>2, <1>3, SortAssumption

-----------------------------------------------------------------------------
(***************************************************************************)
(* The steps of the insertion sort.                                        *)
(***************************************************************************)
\* eio.c:1189-1191: min is a smallest of the elements looked at.
LEMMA FindMinimumStep ==
  ASSUME SortInv, FindMinimum
  PROVE  MinimumNear'
<1> DEFINE n == IF size > Fast THEN Cutoff + 1 ELSE size
<1>0. /\ SortTypes /\ MinimumNear /\ Known /\ loop = "minimum" /\ si > 1 /\ n \in Nat
      /\ si \in 2 .. size /\ smallest \in 1 .. size /\ size \in Nat
      /\ loop' = "minimum" /\ UNCHANGED <<dents, size>> /\ si' = si - 1
      /\ smallest' \in {smallest, si}
      /\ smallest' = IF Before(dents[si], dents[smallest]) THEN si ELSE smallest
  BY ElementsKnown, SortAssumption DEF SortInv, FindMinimum, SortTypes
<1>1. /\ si <= n /\ smallest <= n
      /\ \A y \in n + 1 .. size : ~Before(dents[y], dents[1])
      /\ \A y \in {1} \cup si + 1 .. n : ~Before(dents[y], dents[smallest])
  BY <1>0 DEF MinimumNear
<1>2. n <= size
  BY <1>0, SortAssumption
<1> HIDE DEF n
<1>3. ASSUME NEW y \in {1} \cup si .. n PROVE ~Before(dents[y], dents[smallest'])
  <2>1. y \in 1 .. size /\ si \in 1 .. size
    BY <1>0, <1>2
  <2>2. dents[y] \in Dent /\ dents[si] \in Dent /\ dents[smallest] \in Dent
    BY <1>0, <2>1 DEF Known
  <2>3. CASE y = si
    BY <1>0, <2>2, <2>3, BeforeOrder
  <2>4. CASE y # si
    <3>1. y \in {1} \cup si + 1 .. n
      BY <1>0, <2>4
    <3>2. ~Before(dents[y], dents[smallest])
      BY <1>1, <3>1
    <3>3. CASE Before(dents[si], dents[smallest])
      <4>1. ~Before(dents[smallest], dents[si])
        BY <2>2, <3>3, BeforeOrder
      <4>2. ~Before(dents[y], dents[si])
        BY <2>2, <3>2, <4>1, BeforeOrder
      <4> QED BY <1>0, <3>3, <4>2
    <3>4. CASE ~Before(dents[si], dents[smallest])
      BY <1>0, <3>2, <3>4
    <3> QED BY <3>3, <3>4
  <2> QED BY <2>3, <2>4
<1>4. n' = n /\ si' <= n /\ smallest' <= n /\ si' + 1 = si
  BY <1>0, <1>1 DEF n
<1> QED
  BY <1>0, <1>1, <1>3, <1>4 DEF MinimumNear, n

\* eio.c:1195: afterwards a smallest element of all is in front.
LEMMA MinimumFirstStep ==
  ASSUME SortInv, MinimumFirst
  PROVE  Smallest' /\ Prefix'
<1> DEFINE n == IF size > Fast THEN Cutoff + 1 ELSE size
<1>0. /\ SortTypes /\ MinimumNear /\ Known /\ loop = "minimum" /\ si <= 1 /\ n \in Nat
      /\ si = 1 /\ smallest \in 1 .. size /\ size \in Nat /\ size <= Len(dents)
      /\ dents \in Seq(Dent) /\ 1 < size
      /\ loop' = "insert" /\ size' = size /\ si' = 2 /\ dents' = Swap(dents, 1, smallest)
  BY ElementsKnown, SortAssumption DEF SortInv, MinimumFirst, SortTypes
<1>1. /\ \A y \in n + 1 .. size : ~Before(dents[y], dents[1])
      /\ \A y \in {1} \cup si + 1 .. n : ~Before(dents[y], dents[smallest])
  BY <1>0 DEF MinimumNear
<1>2. \A y \in 1 .. size : dents[y] \in Dent
  BY <1>0 DEF Known
<1>3. ASSUME NEW y \in 1 .. size PROVE ~Before(dents[y], dents[smallest])
  <2>1. CASE y <= n
    <3>1. y \in {1} \cup si + 1 .. n
      BY <1>0, <2>1
    <3> QED BY <1>1, <3>1
  <2>2. CASE ~(y <= n)
    <3>1. ~Before(dents[y], dents[1]) /\ ~Before(dents[1], dents[smallest]) /\ 1 \in 1 .. size
      BY <1>0, <1>1, <2>2
    <3> QED BY <1>0, <1>2, <3>1, BeforeOrder
  <2> QED BY <2>1, <2>2
<1>4. 1 \in 1 .. Len(dents) /\ smallest \in 1 .. Len(dents)
  BY <1>0
<1>5. \A z \in 1 .. Len(dents) :
         Swap(dents, 1, smallest)[z] = IF z = smallest THEN dents[1] ELSE IF z = 1 THEN dents[smallest] ELSE dents[z]
  BY <1>0, <1>4 DEF Swap
<1>6. ASSUME NEW y \in 1 .. size PROVE ~Before(dents'[y], dents'[1])
  <2>1. dents'[1] = dents[smallest]
    BY <1>0, <1>4, <1>5
  <2>2. \E z \in 1 .. size : dents'[y] = dents[z]
    BY <1>0, <1>5
  <2> QED BY <1>3, <2>1, <2>2
<1>7. Smallest'
  BY <1>0, <1>6 DEF Smallest, Array
<1>8. Prefix'
  BY <1>0 DEF Prefix, Ascending
<1> QED
  BY <1>7, <1>8

\* eio.c:1205: the next element is taken out of the array.
LEMMA InsertStep ==
  ASSUME SortInv, Insert
  PROVE  Smallest' /\ Prefix'
<1>0. /\ SortTypes /\ Smallest /\ Prefix /\ loop = "insert" /\ Ascending(dents, si - 1)
      /\ si \in 2 .. size + 1 /\ size \in Nat /\ size <= Len(dents)
      /\ dents \in Seq(Dent) /\ 1 < size
      /\ UNCHANGED <<dents, size, si>> /\ Array = dents
  BY DEF SortInv, Insert, SortTypes, Prefix, Array
<1>1. CASE si <= size
  <2>1. held' = dents[si] /\ sj' = si - 1 /\ sj' + 1 = si /\ loop' = "shift"
    BY <1>0, <1>1 DEF Insert
  <2>2. Array' = dents
    BY <1>0, <2>1 DEF Array
  <2>3. Smallest'
    BY <1>0, <2>2 DEF Smallest
  <2>4. \A x, y \in 1 .. si : x < y /\ x # si /\ y # si => ~Before(dents[y], dents[x])
    BY <1>0 DEF Ascending
  <2>5. \A y \in sj' + 2 .. si : FALSE
    BY <1>0, <2>1
  <2> QED BY <1>0, <2>1, <2>3, <2>4, <2>5 DEF Prefix
<1>2. CASE ~(si <= size)
  <2>1. loop' = "sorted" /\ si - 1 = size
    BY <1>0, <1>2 DEF Insert
  <2> QED BY <1>0, <2>1 DEF Prefix, Smallest
<1> QED
  BY <1>1, <1>2

\* eio.c:1208: a greater element moves up by one.
LEMMA ShiftStep ==
  ASSUME SortInv, Shift
  PROVE  Smallest' /\ Prefix'
<1>0. /\ SortTypes /\ Smallest /\ Prefix /\ loop = "shift"
      /\ si \in 2 .. size /\ sj \in 1 .. si - 1 /\ size \in Nat /\ size <= Len(dents)
      /\ dents \in Seq(Dent) /\ held \in Dent /\ Before(held, dents[sj])
      /\ loop' = "shift" /\ UNCHANGED <<size, si, held>> /\ sj' = sj - 1 /\ sj' + 1 = sj
      /\ dents' = [dents EXCEPT ![sj + 1] = dents[sj]]
  BY DEF SortInv, Shift, SortTypes
<1>1. sj # 1
  BY <1>0, SentinelStops
<1>2. \A z \in 1 .. size : dents'[z] = IF z = sj + 1 THEN dents[sj] ELSE dents[z]
  BY <1>0
<1>3. \A z \in 1 .. size : Array[z] = IF z = sj + 1 THEN held ELSE dents[z]
  BY <1>0 DEF Array
<1>4. \A z \in 1 .. size : Array'[z] = IF z = sj THEN held ELSE dents'[z]
  <2>1. dents' \in Seq(Dent) /\ Len(dents') = Len(dents)
    BY <1>0
  <2>2. Array' = [dents' EXCEPT ![sj] = held]
    BY <1>0 DEF Array
  <2> QED BY <1>0, <2>1, <2>2
<1>5. Smallest'
  <2>1. \A y \in 1 .. size : ~Before(Array[y], Array[1])
    BY <1>0 DEF Smallest
  <2>2. 1 \in 1 .. size /\ Array'[1] = Array[1]
    <3>1. 1 \in 1 .. size /\ 1 # sj /\ 1 # sj + 1
      BY <1>0, <1>1
    <3> QED BY <1>2, <1>3, <1>4, <3>1
  <2>3. ASSUME NEW y \in 1 .. size PROVE \E z \in 1 .. size : Array'[y] = Array[z]
    <3>1. sj \in 1 .. size /\ sj + 1 \in 1 .. size
      BY <1>0
    <3> QED BY <1>0, <1>2, <1>3, <1>4, <3>1
  <2> QED BY <1>0, <2>1, <2>2, <2>3 DEF Smallest
<1>6. /\ \A x, y \in 1 .. si : x < y /\ x # sj + 1 /\ y # sj + 1 => ~Before(dents[y], dents[x])
      /\ \A y \in sj + 2 .. si : Before(held, dents[y])
  BY <1>0 DEF Prefix
<1>7. ASSUME NEW x \in 1 .. si, NEW y \in 1 .. si, x < y, x # sj, y # sj
      PROVE  ~Before(dents'[y], dents'[x])
  <2>1. x \in 1 .. size /\ y \in 1 .. size /\ sj \in 1 .. si /\ sj # sj + 1
    BY <1>0
  <2>2. CASE x = sj + 1
    <3>1. dents'[x] = dents[sj] /\ dents'[y] = dents[y] /\ sj < y /\ y # sj + 1
      BY <1>0, <1>2, <1>7, <2>1, <2>2
    <3> QED BY <1>6, <2>1, <3>1
  <2>3. CASE y = sj + 1
    <3>1. dents'[y] = dents[sj] /\ dents'[x] = dents[x] /\ x < sj /\ x # sj + 1
      BY <1>0, <1>2, <1>7, <2>1, <2>3
    <3> QED BY <1>6, <2>1, <3>1
  <2>4. CASE x # sj + 1 /\ y # sj + 1
    BY <1>2, <1>6, <1>7, <2>1, <2>4
  <2> QED BY <2>2, <2>3, <2>4
<1>8. ASSUME NEW y \in sj + 1 .. si PROVE Before(held, dents'[y])
  <2>1. y \in 1 .. size
    BY <1>0
  <2>2. CASE y = sj + 1
    BY <1>0, <1>2, <2>1, <2>2
  <2>3. CASE y # sj + 1
    <3>1. y \in sj + 2 .. si
      BY <1>0, <2>3
    <3> QED BY <1>2, <1>6, <2>1, <2>3, <3>1
  <2> QED BY <2>2, <2>3
<1>9. sj' + 2 = sj + 1
  BY <1>0
<1> QED
  BY <1>0, <1>5, <1>7, <1>8, <1>9 DEF Prefix

\* eio.c:1210: the element taken out is put where the order wants it.
LEMMA PlaceStep ==
  ASSUME SortInv, Place
  PROVE  Smallest' /\ Prefix'
<1>0. /\ SortTypes /\ Smallest /\ Prefix /\ loop = "shift"
      /\ si \in 2 .. size /\ sj \in 1 .. si - 1 /\ size \in Nat /\ size <= Len(dents)
      /\ dents \in Seq(Dent) /\ held \in Dent /\ ~Before(held, dents[sj])
      /\ loop' = "insert" /\ size' = size /\ si' = si + 1
      /\ dents' = [dents EXCEPT ![sj + 1] = held]
  BY DEF SortInv, Place, SortTypes
<1>1. Smallest'
  <2>1. Array' = Array
    BY <1>0 DEF Array
  <2> QED BY <1>0, <2>1 DEF Smallest
<1>2. \A z \in 1 .. size : dents'[z] = IF z = sj + 1 THEN held ELSE dents[z]
  BY <1>0
<1>3. /\ \A x, y \in 1 .. si : x < y /\ x # sj + 1 /\ y # sj + 1 => ~Before(dents[y], dents[x])
      /\ \A y \in sj + 2 .. si : Before(held, dents[y])
  BY <1>0 DEF Prefix
<1>4. ASSUME NEW x \in 1 .. si, NEW y \in 1 .. si, x < y
      PROVE  ~Before(dents'[y], dents'[x])
  <2>1. x \in 1 .. size /\ y \in 1 .. size /\ sj \in 1 .. si /\ sj # sj + 1 /\ sj \in 1 .. Len(dents)
        /\ x \in 1 .. Len(dents) /\ y \in 1 .. Len(dents)
    BY <1>0
  <2>2. dents[x] \in Dent /\ dents[y] \in Dent /\ dents[sj] \in Dent
    BY <1>0, <2>1
  <2>3. CASE x = sj + 1
    <3>1. dents'[x] = held /\ dents'[y] = dents[y] /\ y \in sj + 2 .. si
      BY <1>0, <1>2, <1>4, <2>1, <2>3
    <3> QED BY <1>0, <1>3, <2>2, <3>1, BeforeOrder
  <2>4. CASE y = sj + 1
    <3>1. dents'[y] = held /\ dents'[x] = dents[x] /\ (x = sj \/ x < sj) /\ x # sj + 1
      BY <1>0, <1>2, <1>4, <2>1, <2>4
    <3>2. x < sj => ~Before(dents[sj], dents[x])
      BY <1>3, <2>1, <3>1
    <3>3. x < sj => ~Before(held, dents[x])
      BY <1>0, <2>2, <3>2, BeforeOrder
    <3> QED BY <1>0, <3>1, <3>3
  <2>5. CASE x # sj + 1 /\ y # sj + 1
    BY <1>2, <1>3, <1>4, <2>1, <2>5
  <2> QED BY <2>3, <2>4, <2>5
<1>5. Ascending(dents', si)
  BY <1>4 DEF Ascending
<1>6. si' - 1 = si
  BY <1>0
<1> QED
  BY <1>0, <1>1, <1>5, <1>6 DEF Prefix

-----------------------------------------------------------------------------
\* Every step of the sort keeps its invariant.
LEMMA SortInvStep == SortInv /\ SortNext => SortInv'
<1> SUFFICES ASSUME SortInv, SortNext PROVE SortInv'
  OBVIOUS
<1>1. SortTypes' /\ BitsCover' /\ DirsSplit'
  BY SortTypesStep, BitsCoverStep, DirsSplitStep
<1>2. StackOK' /\ HalvesOK' /\ RadixFirst' /\ MinimumNear' /\ Smallest' /\ Prefix'
  <2>1. CASE Partition /\ loop = "split"
    <3>1. loop' = "split"
      BY <2>1 DEF Partition
    <3> QED BY <2>1, <3>1, SplitStep DEF MinimumNear, Smallest, Prefix
  <2>2. CASE Partition /\ loop = "dirs"
    <3>1. loop' = "dirs"
      BY <2>2 DEF Partition
    <3> QED BY <3>1 DEF StackOK, HalvesOK, RadixFirst, MinimumNear, Smallest, Prefix
  <2>3. CASE DirsDone
    <3>1. loop' = "sort"
      BY <2>3 DEF DirsDone
    <3> QED BY <3>1 DEF StackOK, HalvesOK, RadixFirst, MinimumNear, Smallest, Prefix
  <2>4. CASE Sort
    BY <2>4, FirstPartStep
  <2>5. CASE \/ TakePart /\ part.end - part.base < Cutoff
             \/ SplitDone /\ Below(part.bit) = {}
    BY <2>5, NextPartStep DEF Smallest, Prefix
  <2>6. CASE TakePart /\ ~(part.end - part.base < Cutoff)
    <3>1. /\ loop = "parts" /\ loop' = "split" /\ UNCHANGED <<part, stack, dents, size, bits>>
          /\ pa' = part.base /\ pb' = part.end
      BY <2>6 DEF TakePart, partVars
    <3>2. part.base \in Nat /\ part.end \in Nat
      BY DEF SortInv, SortTypes, Part
    <3>3. StackOK' /\ RadixFirst'
      BY <3>1 DEF SortInv, StackOK, RadixFirst
    <3>4. HalvesOK'
      BY <3>1, <3>2 DEF HalvesOK
    <3> QED BY <3>1, <3>3, <3>4 DEF MinimumNear, Smallest, Prefix
  <2>7. CASE SplitDone /\ Below(part.bit) # {}
    <3>1. loop' = "parts"
      BY <2>7 DEF SplitDone
    <3> QED BY <2>7, <3>1, PutOffStep DEF MinimumNear, Smallest, Prefix
  <2>8. CASE FindMinimum
    <3>1. loop' = "minimum"
      BY <2>8 DEF FindMinimum
    <3> QED BY <2>8, <3>1, FindMinimumStep DEF StackOK, HalvesOK, RadixFirst, Smallest, Prefix
  <2>9. CASE MinimumFirst \/ Insert \/ Shift \/ Place
    <3>1. loop' \in {"insert", "shift", "sorted"}
      BY <2>9 DEF MinimumFirst, Insert, Shift, Place
    <3>2. Smallest' /\ Prefix'
      BY <2>9, MinimumFirstStep, InsertStep, ShiftStep, PlaceStep
    <3> QED BY <3>1, <3>2 DEF StackOK, HalvesOK, RadixFirst, MinimumNear
  <2> QED
    BY <2>1, <2>2, <2>3, <2>4, <2>5, <2>6, <2>7, <2>8, <2>9 DEF SortNext, Partition
<1> QED
  BY <1>1, <1>2 DEF SortInv
=============================================================================
