--------------------------- MODULE EtpPoolProofs ---------------------------
(***************************************************************************)
(* Proofs about the request queue and the thread pool, for any number of   *)
(* requests, workers and clients, any priorities and any setting of the    *)
(* constants.                                                              *)
(*                                                                         *)
(* The invariant IInv says where every request is.  It is what makes the   *)
(* queue operations safe: a request is pushed only while no queue has it,  *)
(* so the sizes count the requests and reqq_shift finds one whenever the   *)
(* size is not 0.  The pipe follows the size of res_queue in every step    *)
(* (PipeStep).                                                             *)
(***************************************************************************)
EXTENDS EtpPoolProps, FiniteSetTheorems, SequenceTheorems, WellFoundedInduction, TLAPS

-----------------------------------------------------------------------------
(***************************************************************************)
(* The request queue of EtpReqq.tla.                                       *)
(***************************************************************************)

\* A queue of requests of S: no request is in it twice, and its size counts
\* them.
NoDuplicates(q) ==
  \A p1, p2 \in Pris : \A i \in DOMAIN q.qs[p1] : \A j \in DOMAIN q.qs[p2] :
    q.qs[p1][i] = q.qs[p2][j] => p1 = p2 /\ i = j

IsReqq(q, S) ==
  /\ q \in [qs : [Pris -> Seq(S)], size : Int]
  /\ NoDuplicates(q)
  /\ IsFiniteSet(Members(q))
  /\ q.size = Cardinality(Members(q))

-----------------------------------------------------------------------------

\* The indices of qs and qe are numbers, the default priority among them.
LEMMA PrisNat ==
  /\ NumPri \in Nat /\ PriMin \in Int /\ NumPri > 0
  /\ Pris \subseteq Nat /\ 0 \in Pris /\ NumPri - 1 \in Pris
  /\ \A p \in Pris : p <= NumPri - 1
BY PriAssumption DEF Pris, NumPri

\* Whatever int the caller passes, etp_submit leaves an index of qs and qe.
THEOREM SubmitPriInRange ==
  ASSUME NEW passed \in Int
  PROVE  SubmitPri(passed) \in Pris
<1> DEFINE shifted == SignedChar(SignedChar(passed) - PriMin)
<1>1. ASSUME NEW x \in Int PROVE SignedChar(x) \in Int
  BY DEF SignedChar
<1>2. shifted \in Int
  BY <1>1, PrisNat
<1> HIDE DEF shifted
<1>3. (IF shifted < 0 THEN 0
       ELSE IF shifted > NumPri - 1 THEN NumPri - 1 ELSE shifted) \in Pris
  BY <1>2, PrisNat DEF Pris
<1> QED
  BY <1>3 DEF SubmitPri, shifted

LEMMA MembersDef ==
  ASSUME NEW q, NEW r
  PROVE  r \in Members(q) <=> \E p \in Pris : \E i \in DOMAIN q.qs[p] : q.qs[p][i] = r
BY DEF Members

LEMMA MembersTyped ==
  ASSUME NEW S, NEW q, IsReqq(q, S)
  PROVE  Members(q) \subseteq S
<1> SUFFICES ASSUME NEW r \in Members(q) PROVE r \in S
  OBVIOUS
<1>1. PICK p \in Pris : \E i \in DOMAIN q.qs[p] : q.qs[p][i] = r
  BY MembersDef
<1>2. q.qs[p] \in Seq(S)
  BY DEF IsReqq
<1> QED
  BY <1>1, <1>2

\* The empty queue, with which the pool starts
LEMMA EmptyIsReqq ==
  ASSUME NEW S
  PROVE  IsReqq(EmptyReqq, S) /\ Members(EmptyReqq) = {}
<1>1. Members(EmptyReqq) = {}
  BY DEF Members, EmptyReqq
<1>2. EmptyReqq \in [qs : [Pris -> Seq(S)], size : Int]
  BY EmptySeq DEF EmptyReqq
<1>3. \A p \in Pris : DOMAIN EmptyReqq.qs[p] = {}
  BY DEF EmptyReqq
<1> QED
  BY <1>1, <1>2, <1>3, FS_EmptySet DEF IsReqq, NoDuplicates, EmptyReqq

-----------------------------------------------------------------------------

\* reqq_push of a request that is not in the queue
LEMMA PushIsReqq ==
  ASSUME NEW S, NEW q, IsReqq(q, S), NEW r \in S, r \notin Members(q),
         NEW p \in Pris
  PROVE  /\ IsReqq(reqq_push(q, r, p), S)
         /\ Members(reqq_push(q, r, p)) = Members(q) \cup {r}
         /\ reqq_push(q, r, p).size = q.size + 1
<1> DEFINE n == reqq_push(q, r, p)
<1>1. /\ q \in [qs : [Pris -> Seq(S)], size : Int]
      /\ NoDuplicates(q)
      /\ IsFiniteSet(Members(q)) /\ q.size = Cardinality(Members(q))
  BY DEF IsReqq
<1>2. n.size = q.size + 1 /\ n.qs = [q.qs EXCEPT ![p] = Append(@, r)]
  BY DEF reqq_push
<1>3. n = [qs |-> [q.qs EXCEPT ![p] = Append(@, r)], size |-> q.size + 1]
  BY DEF reqq_push
<1>4. n \in [qs : [Pris -> Seq(S)], size : Int]
  BY <1>1, <1>3
<1>5. /\ n.qs[p] = Append(q.qs[p], r)
      /\ \A x \in Pris : x # p => n.qs[x] = q.qs[x]
  BY <1>1, <1>2
<1>6. \A x \in Pris : q.qs[x] \in Seq(S) /\ DOMAIN q.qs[x] = 1 .. Len(q.qs[x])
                      /\ Len(q.qs[x]) \in Nat
  BY <1>1
<1>7. /\ DOMAIN n.qs[p] = DOMAIN q.qs[p] \cup {Len(q.qs[p]) + 1}
      /\ Len(q.qs[p]) + 1 \notin DOMAIN q.qs[p]
      /\ \A i \in DOMAIN q.qs[p] : n.qs[p][i] = q.qs[p][i]
      /\ n.qs[p][Len(q.qs[p]) + 1] = r
  BY <1>5, <1>6
<1> HIDE DEF n
<1>8. Members(n) = Members(q) \cup {r}
  <2>1. ASSUME NEW x \in Members(n) PROVE x \in Members(q) \cup {r}
    <3>1. PICK y \in Pris : \E i \in DOMAIN n.qs[y] : n.qs[y][i] = x
      BY MembersDef
    <3> QED
      BY <3>1, <1>5, <1>7, MembersDef
  <2>2. ASSUME NEW x \in Members(q) PROVE x \in Members(n)
    <3>1. PICK y \in Pris : \E i \in DOMAIN q.qs[y] : q.qs[y][i] = x
      BY MembersDef
    <3> QED
      BY <3>1, <1>5, <1>7, MembersDef
  <2>3. r \in Members(n)
    BY <1>7, MembersDef
  <2> QED
    BY <2>1, <2>2, <2>3
<1>9. ASSUME NEW p1 \in Pris, NEW p2 \in Pris,
             NEW i \in DOMAIN n.qs[p1], NEW j \in DOMAIN n.qs[p2],
             n.qs[p1][i] = n.qs[p2][j]
      PROVE  p1 = p2 /\ i = j
  <2>1. \A x \in Pris : \A k \in DOMAIN q.qs[x] : q.qs[x][k] # r
    BY MembersDef
  <2>2. \A x \in Pris : \A k \in DOMAIN n.qs[x] :
          \/ k \in DOMAIN q.qs[x] /\ n.qs[x][k] = q.qs[x][k]
          \/ x = p /\ k = Len(q.qs[p]) + 1 /\ n.qs[x][k] = r
    BY <1>5, <1>7
  <2>3. CASE i \in DOMAIN q.qs[p1] /\ n.qs[p1][i] = q.qs[p1][i]
    <3>1. j \in DOMAIN q.qs[p2] /\ n.qs[p2][j] = q.qs[p2][j]
      BY <1>9, <2>1, <2>2, <2>3
    <3>2. NoDuplicates(q) /\ q.qs[p1][i] = q.qs[p2][j]
      BY <1>1, <1>9, <2>3, <3>1
    <3> QED
      BY <2>3, <3>1, <3>2 DEF NoDuplicates
  <2>4. CASE p1 = p /\ i = Len(q.qs[p]) + 1 /\ n.qs[p1][i] = r
    <3>1. p2 = p /\ j = Len(q.qs[p]) + 1
      BY <1>9, <2>1, <2>2, <2>4
    <3> QED
      BY <2>4, <3>1
  <2> QED
    BY <2>2, <2>3, <2>4
<1>10. IsFiniteSet(Members(n)) /\ n.size = Cardinality(Members(n))
  BY <1>1, <1>2, <1>8, FS_AddElement
<1> QED
  BY <1>2, <1>4, <1>8, <1>9, <1>10 DEF IsReqq, NoDuplicates, n

-----------------------------------------------------------------------------

\* A set of priorities has a highest one.
LEMMA HighestPri ==
  ASSUME NEW T, T \subseteq Pris, T # {}
  PROVE  \E p \in T : \A o \in T : o <= p
<1> DEFINE U == {NumPri - 1 - p : p \in T}
<1>1. U \subseteq Nat /\ U # {}
  <2>1. \A p \in T : NumPri - 1 - p \in Nat
    BY PrisNat
  <2> QED
    BY <2>1
<1>2. PICK u \in U : \A v \in U : ~(<<v, u>> \in OpToRel(<, Nat))
  <2> HIDE DEF U
  <2> QED
    BY <1>1, NatLessThanWellFounded, WFMin
<1>3. \A v \in U : ~(v < u)
  BY <1>1, <1>2 DEF OpToRel
<1>4. PICK p \in T : u = NumPri - 1 - p
  BY <1>2
<1>5. ASSUME NEW o \in T PROVE o <= p
  <2>1. ~(NumPri - 1 - o < NumPri - 1 - p)
    BY <1>3, <1>4
  <2>2. o \in Nat /\ p \in Nat /\ NumPri \in Nat
    BY PrisNat
  <2> HIDE DEF U
  <2> QED
    BY <2>1, <2>2
<1> QED
  BY <1>5

\* The first request of the list that reqq_shift chooses is the one it returns,
\* and every list above is empty.
LEMMA ShiftFirst ==
  ASSUME NEW S, NEW q, IsReqq(q, S), q.size # 0
  PROVE  /\ ShiftPri(q) \in Pris /\ q.qs[ShiftPri(q)] # <<>>
         /\ 1 \in DOMAIN q.qs[ShiftPri(q)] /\ q.qs[ShiftPri(q)][1] = ShiftReq(q)
         /\ \A o \in Pris : DOMAIN q.qs[o] # {} => o <= ShiftPri(q)
<1>1. /\ q.qs \in [Pris -> Seq(S)]
      /\ IsFiniteSet(Members(q)) /\ q.size = Cardinality(Members(q))
  BY DEF IsReqq
<1>2. \A x \in Pris : q.qs[x] = <<>> <=> DOMAIN q.qs[x] = {}
  <2> SUFFICES ASSUME NEW s \in Seq(S) PROVE s = <<>> <=> DOMAIN s = {}
    BY <1>1
  <2>1. Len(s) \in Nat /\ DOMAIN s = 1 .. Len(s) /\ (s = <<>> <=> Len(s) = 0)
    BY LenProperties, EmptySeq
  <2>2. Len(s) = 0 => \A i : i \notin 1 .. Len(s)
    BY <2>1
  <2>3. Len(s) # 0 => 1 \in 1 .. Len(s)
    BY <2>1
  <2> QED
    BY <2>1, <2>2, <2>3
<1>3. Occupied(q) \subseteq Pris /\ Occupied(q) # {}
  <2>1. Members(q) # {}
    BY <1>1, FS_EmptySet
  <2>2. PICK x \in Pris : DOMAIN q.qs[x] # {}
    BY <2>1, MembersDef
  <2> QED
    BY <2>2, <1>2 DEF Occupied
<1>4. ShiftPri(q) \in Occupied(q) /\ \A o \in Occupied(q) : o <= ShiftPri(q)
  BY <1>3, HighestPri DEF ShiftPri
<1> DEFINE p == ShiftPri(q)
<1>5. p \in Pris /\ q.qs[p] # <<>> /\ q.qs[p] \in Seq(S)
  BY <1>1, <1>4 DEF Occupied
<1>6. \A o \in Pris : DOMAIN q.qs[o] # {} => o <= p
  BY <1>2, <1>4 DEF Occupied
<1>7. ShiftReq(q) = Head(q.qs[p])
  BY DEF ShiftReq
<1> HIDE DEF p
<1>8. 1 \in DOMAIN q.qs[p] /\ q.qs[p][1] = ShiftReq(q)
  BY <1>5, <1>7, HeadTailProperties, EmptySeq, LenProperties
<1> QED
  BY <1>5, <1>6, <1>8 DEF p

\* reqq_shift of a queue that is not empty: it always finds a list with a
\* request, so abort () is not reached.
LEMMA ShiftIsReqq ==
  ASSUME NEW S, NEW q, IsReqq(q, S), q.size # 0
  PROVE  /\ ShiftReq(q) \in Members(q) /\ ShiftReq(q) \in S
         /\ IsReqq(ShiftRest(q), S)
         /\ Members(ShiftRest(q)) = Members(q) \ {ShiftReq(q)}
         /\ ShiftRest(q).size = q.size - 1
<1> DEFINE p == ShiftPri(q)
           n == ShiftRest(q)
           r == ShiftReq(q)
<1>1. /\ q \in [qs : [Pris -> Seq(S)], size : Int]
      /\ NoDuplicates(q)
      /\ IsFiniteSet(Members(q)) /\ q.size = Cardinality(Members(q))
  BY DEF IsReqq
<1>2. \A x \in Pris : /\ q.qs[x] \in Seq(S) /\ Len(q.qs[x]) \in Nat
                      /\ DOMAIN q.qs[x] = 1 .. Len(q.qs[x])
  BY <1>1
<1>3. p \in Pris /\ q.qs[p] # <<>>
  BY ShiftFirst
<1>4. n = [qs |-> [q.qs EXCEPT ![p] = Tail(@)], size |-> q.size - 1] /\ r = Head(q.qs[p])
  BY DEF ShiftRest, ShiftReq
<1> HIDE DEF p, n, r
<1>5. /\ n.qs[p] = Tail(q.qs[p]) /\ n.size = q.size - 1
      /\ \A x \in Pris : x # p => n.qs[x] = q.qs[x]
  BY <1>1, <1>3, <1>4
<1>6. Tail(q.qs[p]) \in Seq(S)
  BY <1>2, <1>3, HeadTailProperties
<1>7. n \in [qs : [Pris -> Seq(S)], size : Int]
  <2>1. q.size - 1 \in Int /\ q.qs \in [Pris -> Seq(S)]
    BY <1>1
  <2>2. [q.qs EXCEPT ![p] = Tail(@)] \in [Pris -> Seq(S)]
    BY <1>6, <2>1
  <2> QED
    BY <1>4, <2>1, <2>2
<1>8. /\ Len(q.qs[p]) > 0 /\ r = q.qs[p][1] /\ r \in S
      /\ DOMAIN n.qs[p] = 1 .. Len(q.qs[p]) - 1
      /\ \A i \in 1 .. Len(q.qs[p]) - 1 : n.qs[p][i] = q.qs[p][i + 1]
  <2>1. Len(q.qs[p]) > 0 /\ r = q.qs[p][1] /\ r \in S
    BY <1>2, <1>3, <1>4, HeadTailProperties, EmptySeq
  <2>2. Len(Tail(q.qs[p])) = Len(q.qs[p]) - 1
    BY <1>2, <1>3, HeadTailProperties
  <2>3. DOMAIN Tail(q.qs[p]) = 1 .. Len(Tail(q.qs[p]))
    BY <1>6, LenProperties
  <2>4. \A i \in 1 .. Len(Tail(q.qs[p])) : Tail(q.qs[p])[i] = q.qs[p][i + 1]
    BY <1>2, <1>3, HeadTailProperties
  <2> QED
    BY <1>5, <2>1, <2>2, <2>3, <2>4
<1>9. \A x \in Pris : \A k \in DOMAIN n.qs[x] :
        LET m == IF x = p THEN k + 1 ELSE k
        IN  m \in DOMAIN q.qs[x] /\ n.qs[x][k] = q.qs[x][m]
  <2>1. ASSUME NEW k \in DOMAIN n.qs[p]
        PROVE  k + 1 \in DOMAIN q.qs[p] /\ n.qs[p][k] = q.qs[p][k + 1]
    <3>1. k \in 1 .. Len(q.qs[p]) - 1
      BY <2>1, <1>8
    <3>2. k + 1 \in 1 .. Len(q.qs[p])
      BY <3>1, <1>2, <1>3
    <3> QED
      BY <3>1, <3>2, <1>2, <1>3, <1>8
  <2> QED
    BY <2>1, <1>5
<1>10. Members(n) = Members(q) \ {r}
  <2>1. ASSUME NEW y \in Members(n) PROVE y \in Members(q) \ {r}
    <3>1. PICK x \in Pris : \E k \in DOMAIN n.qs[x] : n.qs[x][k] = y
      BY MembersDef
    <3>2. PICK k \in DOMAIN n.qs[x] : n.qs[x][k] = y
      BY <3>1
    <3>3. CASE x = p
      <4>1. k \in 1 .. Len(q.qs[p]) - 1 /\ y = q.qs[p][k + 1]
        BY <3>2, <3>3, <1>8
      <4>2. k + 1 \in DOMAIN q.qs[p] /\ 1 \in DOMAIN q.qs[p] /\ k + 1 # 1
        BY <4>1, <1>2, <1>3, <1>8
      <4>3. y # r
        BY <4>1, <4>2, <1>1, <1>3, <1>8 DEF NoDuplicates
      <4> QED
        BY <4>1, <4>2, <4>3, <1>3, MembersDef
    <3>4. CASE x # p
      <4>1. k \in DOMAIN q.qs[x] /\ y = q.qs[x][k]
        BY <3>2, <3>4, <1>5
      <4>2. 1 \in DOMAIN q.qs[p]
        BY <1>2, <1>3, <1>8
      <4>3. y # r
        BY <4>1, <4>2, <3>4, <1>1, <1>3, <1>8 DEF NoDuplicates
      <4> QED
        BY <4>1, <4>3, MembersDef
    <3> QED
      BY <3>3, <3>4
  <2>2. ASSUME NEW y \in Members(q), y # r PROVE y \in Members(n)
    <3>1. PICK x \in Pris : \E k \in DOMAIN q.qs[x] : q.qs[x][k] = y
      BY MembersDef
    <3>2. PICK k \in DOMAIN q.qs[x] : q.qs[x][k] = y
      BY <3>1
    <3>3. CASE x = p
      <4>1. k # 1
        BY <2>2, <3>2, <3>3, <1>8
      <4>2. k \in 1 .. Len(q.qs[p]) /\ Len(q.qs[p]) \in Nat
        BY <3>2, <3>3, <1>2
      <4>3. k - 1 \in 1 .. Len(q.qs[p]) - 1
        BY <4>1, <4>2
      <4>4. k - 1 \in DOMAIN n.qs[p] /\ n.qs[p][k - 1] = q.qs[p][k - 1 + 1]
        BY <4>3, <1>8
      <4>5. n.qs[p][k - 1] = y
        BY <3>2, <3>3, <4>2, <4>4
      <4> QED
        BY <4>4, <4>5, <1>3, MembersDef
    <3>4. CASE x # p
      BY <3>2, <3>4, <1>5, MembersDef
    <3> QED
      BY <3>3, <3>4
  <2> QED
    BY <2>1, <2>2
<1>11. r \in Members(q)
  <2>1. 1 \in DOMAIN q.qs[p]
    BY <1>2, <1>3, <1>8
  <2> QED
    BY <2>1, <1>3, <1>8, MembersDef
<1>12. IsFiniteSet(Members(n)) /\ n.size = Cardinality(Members(n))
  BY <1>1, <1>5, <1>10, <1>11, FS_RemoveElement
<1>13. ASSUME NEW p1 \in Pris, NEW p2 \in Pris,
              NEW i \in DOMAIN n.qs[p1], NEW j \in DOMAIN n.qs[p2],
              n.qs[p1][i] = n.qs[p2][j]
       PROVE  p1 = p2 /\ i = j
  <2> DEFINE a == IF p1 = p THEN i + 1 ELSE i
             b == IF p2 = p THEN j + 1 ELSE j
  <2>1. /\ a \in DOMAIN q.qs[p1] /\ n.qs[p1][i] = q.qs[p1][a]
        /\ b \in DOMAIN q.qs[p2] /\ n.qs[p2][j] = q.qs[p2][b]
    BY <1>9
  <2>2. p1 = p2 /\ a = b
    <3>1. q.qs[p1][a] = q.qs[p2][b]
      BY <1>13, <2>1
    <3>2. a \in DOMAIN q.qs[p1] /\ b \in DOMAIN q.qs[p2] /\ NoDuplicates(q)
      BY <1>1, <2>1
    <3> HIDE DEF a, b
    <3> QED
      BY <3>1, <3>2 DEF NoDuplicates
  <2>3. \A x \in Pris : \A k \in DOMAIN n.qs[x] : k \in Int
    <3>1. \A k \in DOMAIN n.qs[p] : k \in Int
      BY <1>2, <1>3, <1>8
    <3>2. \A x \in Pris : \A k \in DOMAIN q.qs[x] : k \in Int
      BY <1>2
    <3> QED
      BY <3>1, <3>2, <1>5
  <2> QED
    BY <2>2, <2>3
<1> QED
  BY <1>5, <1>7, <1>8, <1>10, <1>11, <1>12, <1>13
     DEF IsReqq, NoDuplicates, n, r

-----------------------------------------------------------------------------
(***************************************************************************)
(* The parts of the invariant.                                             *)
(***************************************************************************)

QueuesOK == IsReqq(req_queue, AllReqs) /\ IsReqq(res_queue, Reqs)

ResultsOK == npending = res_queue.size

\* A worker holds a request exactly while it has something to do with it.
WorkersOK ==
  \A w \in Workers :
    /\ wpc[w] \in {"run", "push"} => wreq[w] \in Reqs
    /\ wpc[w] = "quit" => wreq[w] \in QuitReqs \cup {NoReq}
    /\ wpc[w] \notin {"run", "push", "quit"} => wreq[w] = NoReq

\* etp_poll holds a request, maybe while its callback submits another one.
InPoll(c) == \/ cpc[c] \in {"dec", "finish", "callback"}
             \/ /\ cpc[c] \in {"ms_wanted", "ms_threads", "ms_pending", "ms_reqs",
                               "ms_start"}
                /\ after[c] = "callback"

ClientsOK ==
  \A c \in Clients : /\ cur[c] # NoReq <=> InPoll(c)
                     /\ after[c] \in {"app", "callback", "shift"}

\* Whatever has a request has a live one, and nothing else has it.
Owners ==
  /\ Members(req_queue) \subseteq live /\ Members(res_queue) \subseteq live
  /\ Members(req_queue) \cap Members(res_queue) = {}
  /\ \A w \in Workers : wreq[w] # NoReq =>
       /\ wreq[w] \in live
       /\ wreq[w] \notin Members(req_queue) /\ wreq[w] \notin Members(res_queue)
       /\ \A v \in Workers : wreq[v] = wreq[w] => v = w
  /\ \A c \in Clients : cur[c] # NoReq =>
       /\ cur[c] \in live
       /\ cur[c] \notin Members(req_queue) /\ cur[c] \notin Members(res_queue)
       /\ \A w \in Workers : wreq[w] # cur[c]
       /\ \A d \in Clients : cur[d] = cur[c] => d = c

\* No live request is lost.
NoneLost ==
  \A r \in live \cap Reqs :
    \/ r \in Members(req_queue) \/ r \in Members(res_queue)
    \/ \E w \in Workers : wreq[w] = r
    \/ \E c \in Clients : cur[c] = r

IInv == /\ TypeOK /\ QueuesOK /\ ResultsOK
        /\ WorkersOK /\ ClientsOK /\ Owners /\ NoneLost

-----------------------------------------------------------------------------

\* A step that leaves the queues, the pipe, the live requests and their
\* holders alone preserves what is said about those.
LEMMA Frame ==
  ASSUME QueuesOK, ResultsOK, Owners, NoneLost,
         UNCHANGED <<req_queue, res_queue, npending, pipe, live, wreq, cur>>
  PROVE  QueuesOK' /\ ResultsOK' /\ Owners' /\ NoneLost'
<1>1. Members(req_queue)' = Members(req_queue) /\ Members(res_queue)' = Members(res_queue)
  BY DEF Members
<1>2. QueuesOK'
  BY DEF QueuesOK, IsReqq, NoDuplicates, Members
<1>3. ResultsOK'
  BY DEF ResultsOK
<1>4. Owners'
  BY <1>1 DEF Owners
<1>5. NoneLost'
  BY <1>1 DEF NoneLost
<1> QED
  BY <1>2, <1>3, <1>4, <1>5

\* unsigned int arithmetic stays in range.
LEMMA UIntRange ==
  ASSUME NEW x \in Int
  PROVE  Inc(x) \in 0 .. UIntMod - 1 /\ Dec(x) \in 0 .. UIntMod - 1 /\ AsInt(x) \in Int
BY PoolAssumption DEF Inc, Dec, AsInt

LEMMA InitIInv == Init => IInv
<1> SUFFICES ASSUME Init PROVE IInv
  OBVIOUS
<1>1. IsReqq(req_queue, AllReqs) /\ IsReqq(res_queue, Reqs)
      /\ Members(req_queue) = {} /\ Members(res_queue) = {}
  BY EmptyIsReqq DEF Init
<1>2. TypeOK
  <2>1. req_queue \in ReqqOf(AllReqs) /\ res_queue \in ReqqOf(Reqs)
    BY <1>1 DEF IsReqq, ReqqOf
  <2> QED
    BY <2>1, PoolAssumption, PrisNat DEF Init, TypeOK, AllReqs, WorkerPcs, ClientPcs
<1>3. QueuesOK /\ Owners /\ NoneLost
  BY <1>1 DEF Init, QueuesOK, Owners, NoneLost
<1>4. ResultsOK
  BY DEF Init, ResultsOK, EmptyReqq
<1>5. WorkersOK /\ ClientsOK
  BY DEF Init, WorkersOK, ClientsOK, InPoll
<1> QED
  BY <1>2, <1>3, <1>4, <1>5 DEF IInv

-----------------------------------------------------------------------------
(***************************************************************************)
(* The steps that move no request.                                         *)
(***************************************************************************)
Local == TypeOK /\ WorkersOK /\ ClientsOK
Moved == <<req_queue, res_queue, npending, pipe, live, wreq, cur>>

\* The quiet steps of a worker keep the local invariants.
LEMMA WorkerQuiet ==
  ASSUME Local, NEW w \in Workers,
         SpuriousWake(w) \/ Timeout(w) \/ TimedOut(w) \/ Retire(w) \/
         Execute(w) \/ FetchNothing(w)
  PROVE  Local' /\ UNCHANGED Moved
<1> USE DEF Local, Moved, TypeOK, WorkersOK, ClientsOK, InPoll, WorkerPcs, ClientPcs,
            sharedVars, queueVars, countVars, threadVars, limitVars, reqVars,
            workerVars, clientVars, GotoW, GotoC, JumpW, JumpC
<1>1. CASE SpuriousWake(w)
  BY <1>1 DEF SpuriousWake, Waiters
<1>2. CASE Timeout(w)
  BY <1>2 DEF Timeout
<1>3. CASE TimedOut(w)
  BY <1>3 DEF TimedOut
<1>4. CASE Retire(w)
  BY <1>4, UIntRange DEF Retire
<1>5. CASE Execute(w)
  BY <1>5 DEF Execute
<1>6. CASE FetchNothing(w)
  BY <1>6 DEF FetchNothing, IdleAfterWait
<1> QED
  BY <1>1, <1>2, <1>3, <1>4, <1>5, <1>6

\* So do the quiet steps of a client, inside a call of the library ...
LEMMA ClientQuiet ==
  ASSUME Local, NEW c \in Clients,
         MsWanted(c) \/ MsThreads(c) \/ MsPending(c) \/ MsReqs(c) \/
         StartThread(c) \/ StartThreadFails(c) \/ Poll(c) \/ Flush(c) \/
         FlushTest(c) \/ Block(c) \/ ShiftNothing(c) \/ DecReqs(c) \/
         Finish(c) \/ EndThreadDec(c) \/ EndThreadsDone(c)
  PROVE  Local' /\ UNCHANGED Moved
<1> USE DEF Local, Moved, TypeOK, WorkersOK, ClientsOK, InPoll, WorkerPcs, ClientPcs,
            sharedVars, queueVars, countVars, threadVars, limitVars, reqVars,
            workerVars, clientVars, GotoW, GotoC, JumpW, JumpC
<1>1. CASE MsWanted(c)
  BY <1>1 DEF MsWanted, EnoughThreads
<1>2. CASE MsThreads(c)
  BY <1>2, UIntRange DEF MsThreads
<1>3. CASE MsPending(c)
  BY <1>3 DEF MsPending
<1>4. CASE MsReqs(c)
  BY <1>4 DEF MsReqs
<1>5. CASE StartThread(c)
  BY <1>5, UIntRange DEF StartThread
<1>6. CASE StartThreadFails(c)
  BY <1>6 DEF StartThreadFails
<1>7. CASE Poll(c)
  BY <1>7, PoolAssumption DEF Poll, EnterPoll
<1>8. CASE Flush(c)
  BY <1>8 DEF Flush
<1>9. CASE FlushTest(c)
  BY <1>9 DEF FlushTest, RequestsLeft
<1>10. CASE Block(c)
  BY <1>10, PoolAssumption DEF Block, EnterPoll
<1>11. CASE ShiftNothing(c)
  BY <1>11 DEF ShiftNothing, PollCaller
<1>12. CASE DecReqs(c)
  BY <1>12 DEF DecReqs
<1>13. CASE Finish(c)
  BY <1>13 DEF Finish
<1>14. CASE EndThreadDec(c)
  BY <1>14, UIntRange DEF EndThreadDec
<1>15. CASE EndThreadsDone(c)
  BY <1>15 DEF EndThreadsDone
<1> QED
  BY <1>1, <1>2, <1>3, <1>4, <1>5, <1>6, <1>7, <1>8, <1>9, <1>10, <1>11,
     <1>12, <1>13, <1>14, <1>15

\* ... and the calls that move no request.
LEMMA CallQuiet ==
  ASSUME Local, NEW c \in Clients,
         \/ \E r \in Reqs : Cancel(c, r)
         \/ \E n \in ParallelArgs : SetMinParallel(c, n) \/ SetMaxParallel(c, n)
         \/ \E n \in IdleArgs : SetMaxIdle(c, n)
  PROVE  Local' /\ UNCHANGED Moved
<1> USE DEF Local, Moved, TypeOK, WorkersOK, ClientsOK, InPoll, WorkerPcs, ClientPcs,
            sharedVars, queueVars, countVars, threadVars, limitVars, reqVars,
            workerVars, clientVars, GotoW, GotoC, JumpW, JumpC
<1>1. CASE \E r \in Reqs : Cancel(c, r)
  BY <1>1 DEF Cancel, InUserCode
<1>2. CASE \E n \in ParallelArgs : SetMinParallel(c, n)
  BY <1>2, PoolAssumption DEF SetMinParallel
<1>3. CASE \E n \in ParallelArgs : SetMaxParallel(c, n)
  BY <1>3, PoolAssumption DEF SetMaxParallel
<1>4. CASE \E n \in IdleArgs : SetMaxIdle(c, n)
  BY <1>4, PoolAssumption DEF SetMaxIdle
<1> QED
  BY <1>1, <1>2, <1>3, <1>4

-----------------------------------------------------------------------------
(***************************************************************************)
(* The steps that move a request.                                          *)
(***************************************************************************)
\* A worker takes a request from req_queue; type -1 requests make it quit.
LEMMA FetchStep ==
  ASSUME IInv, NEW w \in Workers, Fetch(w)
  PROVE  IInv'
<1> USE DEF sharedVars, queueVars, countVars, threadVars, limitVars, reqVars,
            workerVars, clientVars, GotoW
<1> DEFINE r == ShiftReq(req_queue)
<1>1. /\ IsReqq(req_queue, AllReqs) /\ req_queue.size # 0
      /\ req_queue' = ShiftRest(req_queue) /\ wreq' = [wreq EXCEPT ![w] = r]
      /\ wpc' = [wpc EXCEPT ![w] = IF r \in QuitReqs THEN "quit" ELSE "run"]
      /\ wreq[w] = NoReq
  BY DEF IInv, Fetch, QueuesOK, WorkersOK
<1>2. /\ r \in Members(req_queue) /\ r \in AllReqs
      /\ IsReqq(req_queue', AllReqs)
      /\ Members(req_queue)' = Members(req_queue) \ {r}
  BY <1>1, ShiftIsReqq DEF Members
<1> HIDE DEF r
<1>3. UNCHANGED <<res_queue, npending, pipe, live, cur, cpc, after>>
      /\ Members(res_queue)' = Members(res_queue)
  BY DEF Fetch, Members
<1>4. TypeOK'
  <2>1. nready' \in 0 .. UIntMod - 1
    BY UIntRange DEF IInv, TypeOK, Fetch
  <2>2. req_queue' \in ReqqOf(AllReqs)
    BY <1>2 DEF IsReqq, ReqqOf
  <2> QED
    BY <1>1, <1>2, <2>1, <2>2 DEF IInv, TypeOK, Fetch, IdleAfterWait, WorkerPcs
<1>5. QueuesOK' /\ ResultsOK'
  BY <1>2, <1>3 DEF IInv, QueuesOK, ResultsOK, IsReqq, Members,
                    NoDuplicates
<1>6. WorkersOK' /\ ClientsOK'
  BY <1>1, <1>2, <1>3 DEF IInv, TypeOK, WorkersOK, ClientsOK, InPoll, AllReqs
<1>7. r # NoReq
  BY <1>2, PoolAssumption DEF AllReqs
<1>8. Owners'
  BY <1>1, <1>2, <1>3, <1>7 DEF IInv, TypeOK, Owners
<1>9. NoneLost'
  BY <1>1, <1>2, <1>3, PoolAssumption DEF IInv, TypeOK, NoneLost
<1> QED
  BY <1>4, <1>5, <1>6, <1>8, <1>9 DEF IInv

\* A worker that has obeyed a type -1 request forgets it.
LEMMA QuitStep ==
  ASSUME IInv, NEW w \in Workers, Quit(w)
  PROVE  IInv'
<1> USE DEF sharedVars, queueVars, countVars, threadVars, limitVars, reqVars,
            workerVars, clientVars, GotoW
<1>1. /\ wreq' = [wreq EXCEPT ![w] = NoReq] /\ wreq[w] \in QuitReqs \cup {NoReq}
      /\ wpc' = [wpc EXCEPT ![w] = "off"]
      /\ UNCHANGED <<req_queue, res_queue, npending, pipe, live, cur, cpc, after>>
  BY DEF IInv, Quit, WorkersOK
<1>2. /\ Members(req_queue)' = Members(req_queue)
      /\ Members(res_queue)' = Members(res_queue)
  BY <1>1 DEF Members
<1>3. TypeOK'
  BY DEF IInv, TypeOK, Quit, WorkerPcs
<1>4. QueuesOK' /\ ResultsOK'
  BY <1>1 DEF IInv, QueuesOK, ResultsOK, IsReqq, Members,
              NoDuplicates
<1>5. WorkersOK' /\ ClientsOK'
  BY <1>1 DEF IInv, TypeOK, WorkersOK, ClientsOK, InPoll
<1>6. Owners'
  BY <1>1, <1>2 DEF IInv, TypeOK, Owners
<1>7. NoneLost'
  BY <1>1, <1>2, PoolAssumption DEF IInv, TypeOK, NoneLost
<1> QED
  BY <1>3, <1>4, <1>5, <1>6, <1>7 DEF IInv

\* A worker hands its request to res_queue and to the pipe.
LEMMA PushResultStep ==
  ASSUME IInv, NEW w \in Workers, PushResult(w)
  PROVE  IInv'
<1> USE DEF sharedVars, queueVars, countVars, threadVars, limitVars, reqVars,
            workerVars, clientVars, GotoW
<1> DEFINE r == wreq[w]
<1>1. /\ r \in Reqs /\ r # NoReq /\ pri[r] \in Pris
      /\ res_queue' = reqq_push(res_queue, r, pri[r])
      /\ wreq' = [wreq EXCEPT ![w] = NoReq] /\ wpc' = [wpc EXCEPT ![w] = "fetch"]
      /\ npending' = npending + 1 /\ pipe' = WantPoll
      /\ UNCHANGED <<req_queue, live, cur, cpc, after>>
  BY PoolAssumption DEF IInv, TypeOK, WorkersOK, PushResult, AllReqs
<1> HIDE DEF r
<1>2. r \in live /\ r \notin Members(req_queue) /\ r \notin Members(res_queue)
  BY <1>1 DEF IInv, Owners, r
<1>3. /\ IsReqq(res_queue', Reqs)
      /\ Members(res_queue)' = Members(res_queue) \cup {r}
      /\ res_queue'.size = res_queue.size + 1
      /\ Members(req_queue)' = Members(req_queue)
  <2> DEFINE n == reqq_push(res_queue, r, pri[r])
  <2>1. /\ IsReqq(n, Reqs) /\ Members(n) = Members(res_queue) \cup {r}
        /\ n.size = res_queue.size + 1
    BY <1>1, <1>2, PushIsReqq DEF IInv, QueuesOK
  <2>2. res_queue' = n
    BY <1>1
  <2> HIDE DEF n
  <2>3. Members(res_queue)' = Members(n) /\ Members(req_queue)' = Members(req_queue)
    BY <1>1, <2>2 DEF Members
  <2> QED
    BY <2>1, <2>2, <2>3
<1>4. TypeOK'
  <2>1. res_queue' \in ReqqOf(Reqs) /\ pipe' \in Nat
    BY <1>1, <1>3 DEF IInv, TypeOK, IsReqq, ReqqOf, WantPoll
  <2> QED
    BY <1>1, <2>1 DEF IInv, TypeOK, PushResult, WorkerPcs
<1>5. QueuesOK'
  BY <1>1, <1>3 DEF IInv, QueuesOK, IsReqq, Members, NoDuplicates
<1>6. ResultsOK'
  <2>1. res_queue.size \in Nat
    BY FS_CardinalityType DEF IInv, QueuesOK, IsReqq
  <2> QED
    BY <1>1, <1>3, <2>1 DEF IInv, ResultsOK
<1>7. WorkersOK' /\ ClientsOK'
  BY <1>1 DEF IInv, TypeOK, WorkersOK, ClientsOK, InPoll
<1>8. Owners'
  BY <1>1, <1>2, <1>3 DEF IInv, TypeOK, Owners, r
<1>9. NoneLost'
  BY <1>1, <1>2, <1>3 DEF IInv, TypeOK, NoneLost, r
<1> QED
  BY <1>4, <1>5, <1>6, <1>7, <1>8, <1>9 DEF IInv

\* X_COND_SIGNAL wakes a thread that holds no request, or none.
LEMMA SignalLocal ==
  ASSUME TypeOK, WorkersOK, Signal, UNCHANGED wreq
  PROVE  wpc' \in [Workers -> WorkerPcs] /\ WorkersOK'
BY DEF TypeOK, WorkersOK, Signal, Waiters, WorkerPcs

\* A new request goes to req_queue.
LEMMA PushRequest ==
  ASSUME IInv, NEW r \in fresh, NEW p \in Pris,
         req_queue' = reqq_push(req_queue, r, p), live' = live \cup {r},
         UNCHANGED <<res_queue, npending, pipe, wreq, cur>>
  PROVE  QueuesOK' /\ ResultsOK' /\ Owners' /\ NoneLost'
<1>1. r \notin live /\ r \in AllReqs /\ r # NoReq
  BY PoolAssumption DEF IInv, TypeOK, AllReqs
<1>2. r \notin Members(req_queue) /\ r \notin Members(res_queue)
  BY <1>1 DEF IInv, Owners
<1>3. /\ IsReqq(req_queue', AllReqs)
      /\ Members(req_queue)' = Members(req_queue) \cup {r}
      /\ Members(res_queue)' = Members(res_queue)
  <2> DEFINE n == reqq_push(req_queue, r, p)
  <2>1. IsReqq(n, AllReqs) /\ Members(n) = Members(req_queue) \cup {r}
    BY <1>1, <1>2, PushIsReqq DEF IInv, QueuesOK
  <2>2. req_queue' = n
    OBVIOUS
  <2> HIDE DEF n
  <2>3. Members(req_queue)' = Members(n) /\ Members(res_queue)' = Members(res_queue)
    BY <2>2 DEF Members
  <2> QED
    BY <2>1, <2>2, <2>3
<1>4. QueuesOK' /\ ResultsOK'
  BY <1>3 DEF IInv, QueuesOK, ResultsOK, IsReqq, Members,
              NoDuplicates
<1>5. Owners'
  BY <1>1, <1>2, <1>3 DEF IInv, Owners
<1>6. NoneLost'
  BY <1>3 DEF IInv, NoneLost
<1> QED
  BY <1>4, <1>5, <1>6

LEMMA SubmitStep ==
  ASSUME IInv, NEW c \in Clients, NEW r \in Reqs, NEW p \in PriArgs, Submit(c, r, p)
  PROVE  IInv'
<1> USE DEF sharedVars, queueVars, countVars, threadVars, limitVars, reqVars,
            workerVars, clientVars, GotoC
<1>1. SubmitPri(p) \in Pris
  BY SubmitPriInRange, PoolAssumption
<1>2. QueuesOK' /\ ResultsOK' /\ Owners' /\ NoneLost'
  <2>1. /\ r \in fresh /\ req_queue' = reqq_push(req_queue, r, SubmitPri(p))
        /\ live' = live \cup {r}
        /\ UNCHANGED <<res_queue, npending, pipe, wreq, cur>>
    BY DEF Submit
  <2> QED
    BY <1>1, <2>1, PushRequest
<1>3. wpc' \in [Workers -> WorkerPcs] /\ WorkersOK'
  BY SignalLocal DEF IInv, Submit
<1>4. TypeOK'
  <2>1. nready' \in 0 .. UIntMod - 1
    BY UIntRange DEF IInv, TypeOK, Submit
  <2>2. req_queue' \in ReqqOf(AllReqs)
    BY <1>2 DEF QueuesOK, IsReqq, ReqqOf
  <2> QED
    BY <1>1, <1>3, <2>1, <2>2 DEF IInv, TypeOK, Submit, AllReqs, InUserCode, ClientPcs
<1>5. ClientsOK'
  BY DEF IInv, TypeOK, ClientsOK, InPoll, Submit, InUserCode
<1> QED
  BY <1>2, <1>3, <1>4, <1>5 DEF IInv

LEMMA EndThreadPushStep ==
  ASSUME IInv, NEW c \in Clients, EndThreadPush(c)
  PROVE  IInv'
<1> USE DEF sharedVars, queueVars, countVars, threadVars, limitVars, reqVars,
            workerVars, clientVars, GotoC
<1>1. PICK r \in fresh \cap QuitReqs :
        /\ fresh' = fresh \ {r} /\ live' = live \cup {r}
        /\ pri' = [pri EXCEPT ![r] = NumPri - 1]
        /\ req_queue' = reqq_push(req_queue, r, NumPri - 1)
  BY DEF EndThreadPush
<1>2. QueuesOK' /\ ResultsOK' /\ Owners' /\ NoneLost'
  <2>1. UNCHANGED <<res_queue, npending, pipe, wreq, cur>>
    BY DEF EndThreadPush
  <2> QED
    BY <1>1, <2>1, PushRequest, PrisNat
<1>3. wpc' \in [Workers -> WorkerPcs] /\ WorkersOK'
  BY SignalLocal DEF IInv, EndThreadPush
<1>4. TypeOK'
  <2>1. req_queue' \in ReqqOf(AllReqs)
    BY <1>2 DEF QueuesOK, IsReqq, ReqqOf
  <2> QED
    BY <1>1, <1>3, <2>1, PrisNat DEF IInv, TypeOK, EndThreadPush, AllReqs, ClientPcs
<1>5. ClientsOK'
  BY DEF IInv, TypeOK, ClientsOK, InPoll, EndThreadPush
<1> QED
  BY <1>2, <1>3, <1>4, <1>5 DEF IInv

\* etp_poll takes a result, and the byte when it was the last one.
LEMMA ShiftResultStep ==
  ASSUME IInv, NEW c \in Clients, ShiftResult(c)
  PROVE  IInv'
<1> USE DEF sharedVars, queueVars, countVars, threadVars, limitVars, reqVars,
            workerVars, clientVars, GotoC
<1> DEFINE r == ShiftReq(res_queue)
<1>1. /\ IsReqq(res_queue, Reqs) /\ res_queue.size # 0
      /\ res_queue' = ShiftRest(res_queue) /\ cur' = [cur EXCEPT ![c] = r]
      /\ cpc' = [cpc EXCEPT ![c] = "dec"] /\ npending' = npending - 1
      /\ UNCHANGED <<req_queue, live, wreq, wpc, after>>
      /\ cur[c] = NoReq
  BY DEF IInv, TypeOK, ShiftResult, QueuesOK, ClientsOK, InPoll
<1>2. /\ r \in Members(res_queue) /\ r \in Reqs
      /\ IsReqq(res_queue', Reqs)
      /\ Members(res_queue)' = Members(res_queue) \ {r}
      /\ res_queue'.size = res_queue.size - 1
      /\ Members(req_queue)' = Members(req_queue)
  BY <1>1, ShiftIsReqq DEF Members
<1> HIDE DEF r
<1>3. r # NoReq
  BY <1>2, PoolAssumption DEF AllReqs
<1>4. res_queue.size \in Nat
  BY <1>1, FS_CardinalityType DEF IsReqq
<1>5. ResultsOK' /\ pipe' \in Nat
  BY <1>1, <1>2, <1>4 DEF IInv, TypeOK, ResultsOK, ShiftResult
<1>6. TypeOK'
  <2>1. res_queue' \in ReqqOf(Reqs)
    BY <1>2 DEF IsReqq, ReqqOf
  <2> QED
    BY <1>1, <1>2, <1>5, <2>1 DEF IInv, TypeOK, ShiftResult, ClientPcs
<1>7. QueuesOK'
  BY <1>1, <1>2 DEF IInv, QueuesOK, IsReqq, Members, NoDuplicates
<1>8. WorkersOK' /\ ClientsOK'
  BY <1>1, <1>3 DEF IInv, TypeOK, WorkersOK, ClientsOK, InPoll
<1>9. Owners'
  BY <1>1, <1>2, <1>3 DEF IInv, TypeOK, Owners
<1>10. NoneLost'
  BY <1>1, <1>2, PoolAssumption DEF IInv, TypeOK, NoneLost
<1> QED
  BY <1>5, <1>6, <1>7, <1>8, <1>9, <1>10 DEF IInv

\* eio_finish is through with a request: it is destroyed.
LEMMA FinishStep ==
  ASSUME IInv, NEW c \in Clients, cpc[c] \in {"finish", "callback"},
         NEW res \in Int, FinishReturns(c, res)
  PROVE  IInv'
<1> USE DEF sharedVars, queueVars, countVars, threadVars, limitVars, reqVars,
            workerVars, clientVars, GotoC
<1>1. /\ cur' = [cur EXCEPT ![c] = NoReq] /\ live' = live \ {cur[c]}
      /\ UNCHANGED <<req_queue, res_queue, npending, pipe, wreq, wpc>>
  BY DEF FinishReturns
<1>2. cur[c] # NoReq
  BY DEF IInv, ClientsOK, InPoll
<1>3. /\ Members(req_queue)' = Members(req_queue)
      /\ Members(res_queue)' = Members(res_queue)
  BY <1>1 DEF Members
<1>4. TypeOK'
  BY DEF IInv, TypeOK, FinishReturns, PollCaller, LimitReached, ClientPcs
<1>5. QueuesOK' /\ ResultsOK'
  BY <1>1 DEF IInv, QueuesOK, ResultsOK, IsReqq, Members,
              NoDuplicates
<1>6. WorkersOK' /\ ClientsOK'
  BY <1>1, <1>2 DEF IInv, TypeOK, WorkersOK, ClientsOK, InPoll, FinishReturns,
                    PollCaller
<1>7. Owners'
  BY <1>1, <1>2, <1>3 DEF IInv, TypeOK, Owners
<1>8. NoneLost'
  BY <1>1, <1>2, <1>3, PoolAssumption DEF IInv, TypeOK, NoneLost, AllReqs
<1> QED
  BY <1>4, <1>5, <1>6, <1>7, <1>8 DEF IInv

-----------------------------------------------------------------------------
(***************************************************************************)
(* The invariant, and what follows from it.                                *)
(***************************************************************************)
LEMMA NextIInv == IInv /\ [Next]_vars => IInv'
<1> SUFFICES ASSUME IInv, [Next]_vars PROVE IInv'
  OBVIOUS
<1>1. ASSUME Local', UNCHANGED Moved PROVE IInv'
  BY <1>1, Frame DEF IInv, Local, Moved
<1>2. ASSUME NEW w \in Workers, WorkerStep(w) \/ SpuriousWake(w) \/ Timeout(w)
      PROVE  IInv'
  <2>1. Local
    BY DEF IInv, Local
  <2>2. CASE Fetch(w)
    BY <2>2, FetchStep
  <2>3. CASE Quit(w)
    BY <2>3, QuitStep
  <2>4. CASE PushResult(w)
    BY <2>4, PushResultStep
  <2>5. CASE \/ SpuriousWake(w) \/ Timeout(w) \/ TimedOut(w) \/ Retire(w)
             \/ Execute(w) \/ FetchNothing(w)
    BY <1>1, <2>1, <2>5, WorkerQuiet
  <2> QED
    BY <1>2, <2>2, <2>3, <2>4, <2>5 DEF WorkerStep
<1>3. ASSUME NEW c \in Clients, ClientStep(c) PROVE IInv'
  <2>1. Local
    BY DEF IInv, Local
  <2>2. CASE ShiftResult(c)
    BY <2>2, ShiftResultStep
  <2>3. CASE CallbackReturns(c) \/ FinishCancelled(c)
    <3>1. PICK res \in Int : cpc[c] \in {"finish", "callback"} /\ FinishReturns(c, res)
      BY <2>3, PoolAssumption DEF CallbackReturns, FinishCancelled
    <3> QED
      BY <3>1, FinishStep
  <2>4. CASE EndThreadPush(c)
    BY <2>4, EndThreadPushStep
  <2>5. CASE ~(\/ ShiftResult(c) \/ CallbackReturns(c) \/ FinishCancelled(c)
               \/ EndThreadPush(c))
    BY <1>1, <1>3, <2>1, <2>5, ClientQuiet DEF ClientStep
  <2> QED
    BY <2>2, <2>3, <2>4, <2>5
<1>4. ASSUME NEW c \in Clients, ClientCall(c) PROVE IInv'
  <2>1. Local
    BY DEF IInv, Local
  <2>2. CASE \E r \in Reqs, p \in PriArgs : Submit(c, r, p)
    BY <2>2, SubmitStep
  <2>3. CASE Poll(c) \/ Flush(c)
    BY <1>1, <2>1, <2>3, ClientQuiet
  <2>4. CASE \/ \E r \in Reqs : Cancel(c, r)
             \/ \E n \in ParallelArgs : SetMinParallel(c, n) \/ SetMaxParallel(c, n)
             \/ \E n \in IdleArgs : SetMaxIdle(c, n)
    BY <1>1, <2>1, <2>4, CallQuiet
  <2> QED
    BY <1>4, <2>2, <2>3, <2>4 DEF ClientCall
<1>5. ASSUME UNCHANGED vars PROVE IInv'
  <2>1. UNCHANGED <<wpc, fresh, nreqs, nready, idle, started, wanted, max_idle, pri,
                    cancelled, executed, cpc, after, tmp, left, flushing>>
        /\ UNCHANGED Moved
    BY <1>5 DEF vars, sharedVars, queueVars, countVars, threadVars, limitVars,
                reqVars, workerVars, clientVars, Moved
  <2>2. Local'
    BY <2>1 DEF IInv, Local, TypeOK, WorkersOK, ClientsOK, InPoll, Moved
  <2> QED
    BY <1>1, <2>1, <2>2
<1> QED
  BY <1>2, <1>3, <1>4, <1>5 DEF Next

\* The requests are where IInv says in every state of the pool.
THEOREM PoolInvariant == Spec => []IInv
<1> QED
  BY InitIInv, NextIInv, PTL DEF Spec

\* Every variable keeps its type: in particular reqq_shift and reqq_push are
\* only called with queues and priorities they can handle.
THEOREM PoolTypes == Spec => []TypeOK
<1>1. IInv => TypeOK
  BY DEF IInv
<1> QED
  BY <1>1, PoolInvariant, PTL

\* The bytes in the pipe beyond the one that announces a result
Surplus == pipe - (IF res_queue.size = 0 THEN 0 ELSE 1)

\* want_poll and done_poll keep the pipe in step with res_queue: no step of
\* the pool changes the surplus.
LEMMA PipeStep ==
  ASSUME IInv, [Next]_vars
  PROVE  Surplus' = Surplus
<1> USE DEF sharedVars, queueVars, countVars, threadVars, limitVars, reqVars,
            workerVars, clientVars
<1>1. res_queue.size \in Nat /\ pipe \in Nat
  BY FS_CardinalityType DEF IInv, TypeOK, QueuesOK, IsReqq
<1>2. ASSUME NEW w \in Workers, PushResult(w)
      PROVE  Surplus' = Surplus
  BY <1>1, <1>2 DEF PushResult, WantPoll, reqq_push, Surplus
<1>3. ASSUME NEW c \in Clients, ShiftResult(c)
      PROVE  Surplus' = Surplus
  <2>1. res_queue'.size = res_queue.size - 1
    BY <1>3, ShiftIsReqq DEF IInv, QueuesOK, ShiftResult
  <2>2. pipe' = IF res_queue'.size = 0 THEN pipe - 1 ELSE pipe
    BY <1>3 DEF ShiftResult
  <2>3. res_queue.size # 0
    BY <1>3 DEF ShiftResult
  <2> QED
    BY <1>1, <2>1, <2>2, <2>3 DEF Surplus
<1>4. ASSUME UNCHANGED <<pipe, res_queue>> PROVE Surplus' = Surplus
  BY <1>4 DEF Surplus
<1>5. ASSUME NEW w \in Workers, WorkerStep(w) \/ SpuriousWake(w) \/ Timeout(w),
             ~PushResult(w)
      PROVE  UNCHANGED <<pipe, res_queue>>
  BY <1>5 DEF WorkerStep, Fetch, FetchNothing, TimedOut, Retire, Quit, Execute,
              SpuriousWake, Timeout, JumpW
<1>6. ASSUME NEW c \in Clients, ClientStep(c), ~ShiftResult(c)
      PROVE  UNCHANGED <<pipe, res_queue>>
  BY <1>6 DEF ClientStep, MsWanted, MsThreads, MsPending, MsReqs, StartThread,
              StartThreadFails, FlushTest, Block, ShiftNothing, DecReqs, Finish,
              CallbackReturns, FinishCancelled, FinishReturns, EndThreadPush,
              EndThreadDec, EndThreadsDone, JumpC
<1>7. ASSUME NEW c \in Clients, ClientCall(c)
      PROVE  UNCHANGED <<pipe, res_queue>>
  BY <1>7 DEF ClientCall, Submit, Cancel, Poll, Flush, SetMinParallel,
              SetMaxParallel, SetMaxIdle
<1> QED
  BY <1>2, <1>3, <1>4, <1>5, <1>6, <1>7 DEF Next, vars

\* The wake-up pipe holds exactly one byte while results wait, and none
\* otherwise, whatever the threads do.
THEOREM PoolPipe == Spec => []PipeMirrorsResults
<1>1. IInv => (PipeMirrorsResults <=> Surplus = 0)
  BY DEF IInv, TypeOK, PipeMirrorsResults, Surplus
<1>2. Init => Surplus = 0
  <2>1. Init => pipe = 0 /\ res_queue.size = 0
    BY DEF Init, EmptyReqq
  <2> QED
    BY <2>1 DEF Surplus
<1>3. IInv /\ Surplus = 0 /\ [Next]_vars => (Surplus = 0)'
  BY PipeStep
<1> QED
  BY <1>1, <1>2, <1>3, PoolInvariant, PTL DEF Spec

-----------------------------------------------------------------------------
\* A set of at most one element
LEMMA AtMostOne ==
  ASSUME NEW S, \A x, y \in S : x = y
  PROVE  Cardinality(S) = IF S = {} THEN 0 ELSE 1
<1>1. CASE S = {}
  BY <1>1, FS_EmptySet
<1>2. CASE S # {}
  <2>1. PICK x \in S : TRUE
    BY <1>2
  <2>2. S = {x}
    BY <2>1
  <2> QED
    BY <1>2, <2>2, FS_Singleton
<1> QED
  BY <1>1, <1>2

\* A request has at most one place in a queue, and one only if it is in it.
LEMMA OnePlace ==
  ASSUME NEW S, NEW q, IsReqq(q, S), NEW r
  PROVE  Cardinality(Places(q, r)) = IF r \in Members(q) THEN 1 ELSE 0
<1>1. \A x : x \in Places(q, r) <=>
        \E p \in Pris : \E i \in DOMAIN q.qs[p] : q.qs[p][i] = r /\ x = <<p, i>>
  BY DEF Places
<1>2. \A x, y \in Places(q, r) : x = y
  <2> SUFFICES ASSUME NEW x \in Places(q, r), NEW y \in Places(q, r) PROVE x = y
    OBVIOUS
  <2>1. PICK p1 \in Pris : \E i \in DOMAIN q.qs[p1] : q.qs[p1][i] = r /\ x = <<p1, i>>
    BY <1>1
  <2>2. PICK i \in DOMAIN q.qs[p1] : q.qs[p1][i] = r /\ x = <<p1, i>>
    BY <2>1
  <2>3. PICK p2 \in Pris : \E j \in DOMAIN q.qs[p2] : q.qs[p2][j] = r /\ y = <<p2, j>>
    BY <1>1
  <2>4. PICK j \in DOMAIN q.qs[p2] : q.qs[p2][j] = r /\ y = <<p2, j>>
    BY <2>3
  <2>5. NoDuplicates(q)
    BY DEF IsReqq
  <2>6. p1 = p2 /\ i = j
    BY <2>2, <2>4, <2>5 DEF NoDuplicates
  <2> QED
    BY <2>2, <2>4, <2>6
<1>3. ASSUME r \in Members(q) PROVE Places(q, r) # {}
  <2>1. PICK p \in Pris : \E i \in DOMAIN q.qs[p] : q.qs[p][i] = r
    BY <1>3, MembersDef
  <2>2. PICK i \in DOMAIN q.qs[p] : q.qs[p][i] = r
    BY <2>1
  <2>3. <<p, i>> \in Places(q, r)
    BY <1>1, <2>2
  <2> QED
    BY <2>3
<1>4. ASSUME Places(q, r) # {} PROVE r \in Members(q)
  <2>1. PICK x : x \in Places(q, r)
    BY <1>4
  <2> QED
    BY <1>1, <2>1, MembersDef
<1> QED
  BY <1>2, <1>3, <1>4, AtMostOne

LEMMA InvOneOwner == IInv => OneOwner
<1> SUFFICES ASSUME IInv, NEW r \in Reqs
             PROVE  Cardinality(Places(req_queue, r)) + Cardinality(Places(res_queue, r))
                    + Cardinality({w \in Workers : wreq[w] = r})
                    + Cardinality({c \in Clients : cur[c] = r})
                    = IF r \in live THEN 1 ELSE 0
  BY DEF OneOwner
<1> DEFINE W == {w \in Workers : wreq[w] = r}
           C == {c \in Clients : cur[c] = r}
<1>1. r # NoReq
  BY PoolAssumption DEF AllReqs
<1>2. /\ Cardinality(Places(req_queue, r)) = IF r \in Members(req_queue) THEN 1 ELSE 0
      /\ Cardinality(Places(res_queue, r)) = IF r \in Members(res_queue) THEN 1 ELSE 0
  BY OnePlace DEF IInv, QueuesOK
<1>3. /\ \A v, w \in W : v = w
      /\ \A c, d \in C : c = d
  BY <1>1 DEF IInv, Owners
<1>4. /\ Cardinality(W) = IF W = {} THEN 0 ELSE 1
      /\ Cardinality(C) = IF C = {} THEN 0 ELSE 1
  BY <1>3, AtMostOne
<1>5. CASE r \in live
  <2>1. r \in Members(req_queue) \/ r \in Members(res_queue) \/ W # {} \/ C # {}
    BY <1>5 DEF IInv, NoneLost
  <2>2. /\ ~(r \in Members(req_queue) /\ r \in Members(res_queue))
        /\ W # {} => r \notin Members(req_queue) /\ r \notin Members(res_queue)
        /\ C # {} => r \notin Members(req_queue) /\ r \notin Members(res_queue) /\ W = {}
    BY <1>1 DEF IInv, Owners
  <2> QED
    BY <1>2, <1>4, <1>5, <2>1, <2>2
<1>6. CASE r \notin live
  <2>1. r \notin Members(req_queue) /\ r \notin Members(res_queue) /\ W = {} /\ C = {}
    BY <1>1, <1>6 DEF IInv, Owners
  <2> QED
    BY <1>2, <1>4, <1>6, <2>1
<1> QED
  BY <1>5, <1>6

\* Every request that was submitted and not destroyed is in exactly one place,
\* a queue, a worker or a poll, and no destroyed one is in any: the handing
\* over of requests between threads neither loses nor duplicates one.
THEOREM PoolOneOwner == Spec => []OneOwner
<1> QED
  BY InvOneOwner, PoolInvariant, PTL
=============================================================================
