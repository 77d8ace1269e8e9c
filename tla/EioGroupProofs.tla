--------------------------- MODULE EioGroupProofs ---------------------------
(***************************************************************************)
(* The properties of EioGroupProps.tla hold for any number of groups and   *)
(* other requests, any limits and any nesting of feeders and callbacks.    *)
(***************************************************************************)
EXTENDS EioGroupProps, FiniteSetTheorems, SequenceTheorems, TLAPS

-----------------------------------------------------------------------------
(***************************************************************************)
(* The stack.                                                              *)
(***************************************************************************)
Frames ==
  [fn : {"finish"}, req : Reqs, at : {"start", "callback", "unlink", "destroy"}]
    \cup [fn : {"dec"}, req : Groups, at : {"test"}]
    \cup [fn : {"feed"}, req : Groups, at : {"test", "feeder"}]

OfFn(s, fn) == {s[i].req : i \in {j \in DOMAIN s : s[j].fn = fn}}

\* The requests being finished; those of them that are unlinked already; the
\* group grp_dec works for; the groups being fed
Ended(s) == OfFn(s, "finish")
Leaving(s) == {s[i].req : i \in {j \in DOMAIN s : s[j].at = "destroy"}}
Decs(s) == OfFn(s, "dec")
Feeds(s) == OfFn(s, "feed")

\* All frames wait for an eio_destroy.
Bottom(s) == \A i \in DOMAIN s : s[i].at = "destroy"

\* Only feeders are nested freely: eio_finish and grp_dec call on from the end
\* of an eio_finish only.
StackOK(s) ==
  /\ s \in Seq(Frames)
  /\ \A i, j \in DOMAIN s :
       i < j => s[i].fn = "feed" \/ (s[j].at = "destroy" /\ s[j].req # s[i].req)

\* The stack h \o t, frame by frame
LEMMA Prefix ==
  ASSUME NEW S, NEW t \in Seq(S), NEW h \in S
  PROVE  LET s == <<h>> \o t
         IN  /\ s \in Seq(S) /\ DOMAIN s = 1 .. Len(t) + 1
             /\ s[1] = h /\ \A i \in 1 .. Len(t) : s[i + 1] = t[i]
             /\ \A i \in DOMAIN s : i = 1 \/ (i - 1 \in DOMAIN t /\ s[i] = t[i - 1])
             /\ DOMAIN t = 1 .. Len(t) /\ Len(t) \in Nat
OBVIOUS

LEMMA PrefixOfFn ==
  ASSUME NEW t \in Seq(Frames), NEW h \in Frames, NEW fn
  PROVE  OfFn(<<h>> \o t, fn) = OfFn(t, fn) \cup IF h.fn = fn THEN {h.req} ELSE {}
<1> DEFINE s == <<h>> \o t
<1>1. /\ DOMAIN s = 1 .. Len(t) + 1 /\ s[1] = h
      /\ \A i \in 1 .. Len(t) : s[i + 1] = t[i]
      /\ \A i \in DOMAIN s : i = 1 \/ (i - 1 \in DOMAIN t /\ s[i] = t[i - 1])
      /\ DOMAIN t = 1 .. Len(t) /\ Len(t) \in Nat
  BY Prefix
<1> HIDE DEF s
<1>2. ASSUME NEW q \in OfFn(t, fn) PROVE q \in OfFn(s, fn)
  <2>1. PICK i \in DOMAIN t : t[i].fn = fn /\ q = t[i].req
    BY <1>2 DEF OfFn
  <2>2. i + 1 \in DOMAIN s /\ s[i + 1] = t[i]
    BY <1>1, <2>1
  <2> QED
    BY <2>1, <2>2 DEF OfFn
<1>3. h.fn = fn => h.req \in OfFn(s, fn)
  <2>1. 1 \in DOMAIN s
    BY <1>1
  <2> QED
    BY <1>1, <2>1 DEF OfFn
<1>4. ASSUME NEW q \in OfFn(s, fn) PROVE q \in OfFn(t, fn) \/ (h.fn = fn /\ q = h.req)
  <2>1. PICK i \in DOMAIN s : s[i].fn = fn /\ q = s[i].req
    BY <1>4 DEF OfFn
  <2> QED
    BY <1>1, <2>1 DEF OfFn
<1>5. OfFn(s, fn) = OfFn(t, fn) \cup IF h.fn = fn THEN {h.req} ELSE {}
  BY <1>2, <1>3, <1>4
<1> QED
  BY <1>5 DEF s

LEMMA PrefixLeaving ==
  ASSUME NEW t \in Seq(Frames), NEW h \in Frames
  PROVE  Leaving(<<h>> \o t)
           = Leaving(t) \cup IF h.at = "destroy" THEN {h.req} ELSE {}
<1> DEFINE s == <<h>> \o t
<1>1. /\ DOMAIN s = 1 .. Len(t) + 1 /\ s[1] = h
      /\ \A i \in 1 .. Len(t) : s[i + 1] = t[i]
      /\ \A i \in DOMAIN s : i = 1 \/ (i - 1 \in DOMAIN t /\ s[i] = t[i - 1])
      /\ DOMAIN t = 1 .. Len(t) /\ Len(t) \in Nat
  BY Prefix
<1> HIDE DEF s
<1>2. ASSUME NEW q \in Leaving(t) PROVE q \in Leaving(s)
  <2>1. PICK i \in DOMAIN t : t[i].at = "destroy" /\ q = t[i].req
    BY <1>2 DEF Leaving
  <2>2. i + 1 \in DOMAIN s /\ s[i + 1] = t[i]
    BY <1>1, <2>1
  <2> QED
    BY <2>1, <2>2 DEF Leaving
<1>3. h.at = "destroy" => h.req \in Leaving(s)
  <2>1. 1 \in DOMAIN s
    BY <1>1
  <2> QED
    BY <1>1, <2>1 DEF Leaving
<1>4. ASSUME NEW q \in Leaving(s)
      PROVE  q \in Leaving(t) \/ (h.at = "destroy" /\ q = h.req)
  <2>1. PICK i \in DOMAIN s : s[i].at = "destroy" /\ q = s[i].req
    BY <1>4 DEF Leaving
  <2> QED
    BY <1>1, <2>1 DEF Leaving
<1>5. Leaving(s) = Leaving(t) \cup IF h.at = "destroy" THEN {h.req} ELSE {}
  BY <1>2, <1>3, <1>4
<1> QED
  BY <1>5 DEF s

\* What may be called from where
LEMMA PrefixOK ==
  ASSUME NEW t \in Seq(Frames), NEW h \in Frames
  PROVE  StackOK(<<h>> \o t)
           <=> StackOK(t) /\ (h.fn = "feed" \/ (Bottom(t) /\ h.req \notin Leaving(t)))
<1> DEFINE s == <<h>> \o t
<1>1. /\ s \in Seq(Frames) /\ DOMAIN s = 1 .. Len(t) + 1 /\ s[1] = h
      /\ \A i \in 1 .. Len(t) : s[i + 1] = t[i]
      /\ \A i \in DOMAIN s : i = 1 \/ (i - 1 \in DOMAIN t /\ s[i] = t[i - 1])
      /\ DOMAIN t = 1 .. Len(t) /\ Len(t) \in Nat
  BY Prefix
<1> HIDE DEF s
<1>2. ASSUME StackOK(s)
      PROVE  StackOK(t) /\ (h.fn = "feed" \/ (Bottom(t) /\ h.req \notin Leaving(t)))
  <2>1. ASSUME NEW i \in DOMAIN t, NEW j \in DOMAIN t, i < j
        PROVE  t[i].fn = "feed" \/ (t[j].at = "destroy" /\ t[j].req # t[i].req)
    <3>1. i + 1 \in DOMAIN s /\ j + 1 \in DOMAIN s /\ i + 1 < j + 1
      BY <1>1, <2>1
    <3>2. s[i + 1] = t[i] /\ s[j + 1] = t[j]
      BY <1>1
    <3> QED
      BY <1>2, <3>1, <3>2 DEF StackOK
  <2>2. ASSUME h.fn # "feed", NEW j \in DOMAIN t
        PROVE  t[j].at = "destroy" /\ t[j].req # h.req
    <3>1. 1 \in DOMAIN s /\ j + 1 \in DOMAIN s /\ 1 < j + 1
      BY <1>1, <2>2
    <3>2. s[1] = h /\ s[j + 1] = t[j]
      BY <1>1
    <3> QED
      BY <1>2, <2>2, <3>1, <3>2 DEF StackOK
  <2> QED
    BY <2>1, <2>2 DEF StackOK, Bottom, Leaving
<1>3. ASSUME StackOK(t), h.fn = "feed" \/ (Bottom(t) /\ h.req \notin Leaving(t))
      PROVE  StackOK(s)
  <2> SUFFICES ASSUME NEW i \in DOMAIN s, NEW j \in DOMAIN s, i < j
               PROVE  s[i].fn = "feed" \/ (s[j].at = "destroy" /\ s[j].req # s[i].req)
    BY <1>1 DEF StackOK
  <2>1. j - 1 \in DOMAIN t /\ s[j] = t[j - 1]
    BY <1>1
  <2>2. CASE i = 1
    BY <1>1, <1>3, <2>1, <2>2 DEF Bottom, Leaving
  <2>3. CASE i # 1
    <3>1. i - 1 \in DOMAIN t /\ s[i] = t[i - 1] /\ i - 1 < j - 1
      BY <1>1, <2>3
    <3> QED
      BY <1>3, <2>1, <3>1 DEF StackOK
  <2> QED
    BY <2>2, <2>3
<1>4. StackOK(s)
        <=> StackOK(t) /\ (h.fn = "feed" \/ (Bottom(t) /\ h.req \notin Leaving(t)))
  BY <1>2, <1>3
<1> QED
  BY <1>4 DEF s

\* At the bottom nothing is fed and everything that is finished is unlinked.
LEMMA BottomSets ==
  ASSUME NEW t \in Seq(Frames), Bottom(t)
  PROVE  Decs(t) = {} /\ Feeds(t) = {} /\ Ended(t) = Leaving(t)
<1>1. \A i \in DOMAIN t : t[i] \in Frames
  OBVIOUS
<1>2. \A i \in DOMAIN t : t[i].at = "destroy" /\ t[i].fn = "finish"
  BY <1>1 DEF Bottom, Frames
<1> QED
  BY <1>2 DEF Decs, Feeds, Ended, OfFn, Leaving

LEMMA HeadTail ==
  ASSUME NEW s \in Seq(Frames), s # <<>>
  PROVE  Head(s) \in Frames /\ Tail(s) \in Seq(Frames) /\ s = <<Head(s)>> \o Tail(s)
OBVIOUS

\* What the guards of EioGroup.tla and Linked say of the stack
GuardsRead ==
  /\ \A r \in Reqs : Finishing(r, {"destroy"}) <=> r \in Leaving(stack)
  /\ \A r \in Reqs : Open(r) <=> r \in alive \ Ended(stack)
  /\ Linked = {r \in alive : grp[r] # No /\ r \notin Leaving(stack)}
  /\ Leaving(stack) \subseteq Ended(stack)

LEMMA FinishingIs == StackOK(stack) => GuardsRead
<1> SUFFICES ASSUME StackOK(stack) PROVE GuardsRead
  OBVIOUS
<1>1. \A i \in DOMAIN stack : stack[i] \in Frames
  BY DEF StackOK
<1>2. ASSUME NEW i \in DOMAIN stack, NEW r, NEW at
      PROVE  stack[i] = Frame("finish", r, at)
               <=> stack[i].fn = "finish" /\ stack[i].req = r /\ stack[i].at = at
  BY <1>1 DEF Frame, Frames
<1>3. \A i \in DOMAIN stack : stack[i].at = "destroy" => stack[i].fn = "finish"
  BY <1>1 DEF Frames
<1>4. \A r : Finishing(r, {"destroy"}) <=> r \in Leaving(stack)
  BY <1>2, <1>3 DEF Finishing, Leaving
<1>5. \A i \in DOMAIN stack : stack[i].fn = "finish" =>
        stack[i].at \in {"start", "callback", "unlink", "destroy"}
  BY <1>1 DEF Frames
<1>6. \A r : Finishing(r, {"start", "callback", "unlink", "destroy"})
               <=> r \in Ended(stack)
  BY <1>2, <1>5 DEF Finishing, Ended, OfFn
<1>7. Leaving(stack) \subseteq Ended(stack)
  BY <1>3 DEF Leaving, Ended, OfFn
<1> QED
  BY <1>4, <1>6, <1>7 DEF Open, Linked, GuardsRead

LEMMA FinishingNext == StackOK(stack)' => GuardsRead'
BY FinishingIs, PTL

\* The frame h on the stack t
On(h, t) == <<h>> \o t

\* The same for each function
LEMMA PrefixFinish ==
  ASSUME NEW t \in Seq(Frames), NEW h \in Frames, h.fn = "finish",
         NEW n, n = On(h, t)
  PROVE  /\ n \in Seq(Frames)
         /\ StackOK(n) <=> StackOK(t) /\ Bottom(t) /\ h.req \notin Leaving(t)
         /\ Ended(n) = Ended(t) \cup {h.req}
         /\ Decs(n) = Decs(t)
         /\ Feeds(n) = Feeds(t)
         /\ h.at = "destroy" => Leaving(n) = Leaving(t) \cup {h.req}
         /\ h.at # "destroy" => Leaving(n) = Leaving(t)
<1>1. /\ n \in Seq(Frames)
      /\ StackOK(n) <=> StackOK(t) /\ Bottom(t) /\ h.req \notin Leaving(t)
  BY PrefixOK DEF On
<1>2. /\ Ended(n) = Ended(t) \cup IF h.fn = "finish" THEN {h.req} ELSE {}
      /\ Decs(n) = Decs(t) \cup IF h.fn = "dec" THEN {h.req} ELSE {}
      /\ Feeds(n) = Feeds(t) \cup IF h.fn = "feed" THEN {h.req} ELSE {}
  BY PrefixOfFn DEF Ended, Decs, Feeds, On
<1>3. Leaving(n) = Leaving(t) \cup IF h.at = "destroy" THEN {h.req} ELSE {}
  BY PrefixLeaving DEF On
<1> QED
  BY <1>1, <1>2, <1>3

LEMMA PrefixDec ==
  ASSUME NEW t \in Seq(Frames), NEW h \in Frames, h.fn = "dec",
         NEW n, n = On(h, t)
  PROVE  /\ n \in Seq(Frames)
         /\ StackOK(n) <=> StackOK(t) /\ Bottom(t) /\ h.req \notin Leaving(t)
         /\ Ended(n) = Ended(t)
         /\ Decs(n) = Decs(t) \cup {h.req}
         /\ Feeds(n) = Feeds(t)
         /\ h.at = "destroy" => Leaving(n) = Leaving(t) \cup {h.req}
         /\ h.at # "destroy" => Leaving(n) = Leaving(t)
<1>1. /\ n \in Seq(Frames)
      /\ StackOK(n) <=> StackOK(t) /\ Bottom(t) /\ h.req \notin Leaving(t)
  BY PrefixOK DEF On
<1>2. /\ Ended(n) = Ended(t) \cup IF h.fn = "finish" THEN {h.req} ELSE {}
      /\ Decs(n) = Decs(t) \cup IF h.fn = "dec" THEN {h.req} ELSE {}
      /\ Feeds(n) = Feeds(t) \cup IF h.fn = "feed" THEN {h.req} ELSE {}
  BY PrefixOfFn DEF Ended, Decs, Feeds, On
<1>3. Leaving(n) = Leaving(t) \cup IF h.at = "destroy" THEN {h.req} ELSE {}
  BY PrefixLeaving DEF On
<1> QED
  BY <1>1, <1>2, <1>3

LEMMA PrefixFeed ==
  ASSUME NEW t \in Seq(Frames), NEW h \in Frames, h.fn = "feed",
         NEW n, n = On(h, t)
  PROVE  /\ n \in Seq(Frames)
         /\ StackOK(n) <=> StackOK(t)
         /\ Ended(n) = Ended(t)
         /\ Decs(n) = Decs(t)
         /\ Feeds(n) = Feeds(t) \cup {h.req}
         /\ h.at = "destroy" => Leaving(n) = Leaving(t) \cup {h.req}
         /\ h.at # "destroy" => Leaving(n) = Leaving(t)
<1>1. n \in Seq(Frames) /\ (StackOK(n) <=> StackOK(t))
  BY PrefixOK DEF On
<1>2. /\ Ended(n) = Ended(t) \cup IF h.fn = "finish" THEN {h.req} ELSE {}
      /\ Decs(n) = Decs(t) \cup IF h.fn = "dec" THEN {h.req} ELSE {}
      /\ Feeds(n) = Feeds(t) \cup IF h.fn = "feed" THEN {h.req} ELSE {}
  BY PrefixOfFn DEF Ended, Decs, Feeds, On
<1>3. Leaving(n) = Leaving(t) \cup IF h.at = "destroy" THEN {h.req} ELSE {}
  BY PrefixLeaving DEF On
<1> QED
  BY <1>1, <1>2, <1>3

LEMMA PrefixBottom ==
  ASSUME NEW t \in Seq(Frames), Bottom(t), NEW h \in Frames, h.at = "destroy",
         NEW n, n = On(h, t)
  PROVE  Bottom(n)
<1>1. /\ n[1] = h
      /\ \A i \in DOMAIN n : i = 1 \/ (i - 1 \in DOMAIN t /\ n[i] = t[i - 1])
  BY Prefix DEF On
<1> QED
  BY <1>1 DEF Bottom

\* Every frame is one that the actions make.
LEMMA FramesMade ==
  /\ \A r \in Reqs, at \in {"start", "callback", "unlink", "destroy"} :
       \E h \in Frames : /\ h = Frame("finish", r, at)
                         /\ h.fn = "finish" /\ h.req = r /\ h.at = at
  /\ \A g \in Groups :
       \E h \in Frames : /\ h = Frame("dec", g, "test")
                         /\ h.fn = "dec" /\ h.req = g /\ h.at = "test"
  /\ \A g \in Groups, at \in {"test", "feeder"} :
       \E h \in Frames : /\ h = Frame("feed", g, at)
                         /\ h.fn = "feed" /\ h.req = g /\ h.at = at
<1>1. \A r \in Reqs, at \in {"start", "callback", "unlink", "destroy"} :
        Frame("finish", r, at) \in Frames
  BY DEF Frame, Frames
<1>2. \A g \in Groups : Frame("dec", g, "test") \in Frames
  BY DEF Frame, Frames
<1>3. \A g \in Groups, at \in {"test", "feeder"} : Frame("feed", g, at) \in Frames
  BY DEF Frame, Frames
<1>4. \A fn, r, at : /\ Frame(fn, r, at).fn = fn
                     /\ Frame(fn, r, at).req = r /\ Frame(fn, r, at).at = at
  BY DEF Frame
<1> QED
  BY <1>1, <1>2, <1>3, <1>4

\* The frame on top, and what is under it
LEMMA Top ==
  ASSUME StackOK(stack), NEW fn, NEW r, NEW at, Running(fn, r, at)
  PROVE  \E h \in Frames, c, n \in Seq(Frames) :
           /\ h = Frame(fn, r, at) /\ h.fn = fn /\ h.req = r /\ h.at = at
           /\ c = Caller /\ n = stack /\ n = On(h, c)
<1>1. stack \in Seq(Frames) /\ stack # <<>> /\ Head(stack) = Frame(fn, r, at)
  BY DEF StackOK, Running
<1>2. PICK h \in Frames, c \in Seq(Frames) :
        h = Frame(fn, r, at) /\ c = Caller /\ stack = On(h, c)
  BY <1>1, HeadTail DEF Caller, On
<1>3. h.fn = fn /\ h.req = r /\ h.at = at
  BY <1>2 DEF Frame
<1>4. PICK n \in Seq(Frames) : n = stack
  BY <1>1
<1>5. n = On(h, c)
  BY <1>2, <1>4
<1> QED
  BY <1>2, <1>3, <1>4, <1>5

LEMMA NewStack ==
  ASSUME NEW n, stack' = n
  PROVE  /\ Ended(stack)' = Ended(n) /\ Leaving(stack)' = Leaving(n)
         /\ Decs(stack)' = Decs(n) /\ Feeds(stack)' = Feeds(n)
         /\ StackOK(n) => StackOK(stack)'
<1>1. Ended(stack)' = Ended(n) /\ Decs(stack)' = Decs(n) /\ Feeds(stack)' = Feeds(n)
  BY DEF Ended, Decs, Feeds, OfFn
<1>2. Leaving(stack)' = Leaving(n)
  BY DEF Leaving
<1>3. StackOK(n) => StackOK(stack)'
  BY DEF StackOK
<1> QED
  BY <1>1, <1>2, <1>3

LEMMA SameStack ==
  ASSUME UNCHANGED stack
  PROVE  /\ Ended(stack)' = Ended(stack) /\ Leaving(stack)' = Leaving(stack)
         /\ Decs(stack)' = Decs(stack) /\ Feeds(stack)' = Feeds(stack)
         /\ StackOK(stack) => StackOK(stack)'
<1>1. PICK n : n = stack
  OBVIOUS
<1> QED
  BY <1>1, NewStack

-----------------------------------------------------------------------------
(***************************************************************************)
(* What the actions do to the stack.                                       *)
(***************************************************************************)
SameFrames ==
  /\ StackOK(stack)'
  /\ Ended(stack)' = Ended(stack) /\ Leaving(stack)' = Leaving(stack)
  /\ Decs(stack)' = Decs(stack) /\ Feeds(stack)' = Feeds(stack)

LEMMA StackFeed ==
  ASSUME StackOK(stack), NEW g \in Groups, stack' = <<Feeding(g)>> \o stack
  PROVE  /\ StackOK(stack)'
         /\ Ended(stack)' = Ended(stack) /\ Leaving(stack)' = Leaving(stack)
         /\ Decs(stack)' = Decs(stack) /\ Feeds(stack)' = Feeds(stack) \cup {g}
<1>1. PICK h \in Frames : h = Feeding(g) /\ h.fn = "feed" /\ h.req = g /\ h.at = "test"
  BY FramesMade DEF Feeding
<1>2. PICK n, t : n = On(h, t) /\ t = stack /\ t \in Seq(Frames)
  BY DEF StackOK
<1>3. /\ StackOK(n) /\ Ended(n) = Ended(t) /\ Leaving(n) = Leaving(t)
      /\ Decs(n) = Decs(t) /\ Feeds(n) = Feeds(t) \cup {g}
  BY <1>1, <1>2, PrefixFeed
<1>4. stack' = n
  BY <1>1, <1>2 DEF On
<1> QED
  BY <1>2, <1>3, <1>4, NewStack

LEMMA StackPoll ==
  ASSUME stack = <<>>
  PROVE  /\ Ended(stack) = {} /\ Leaving(stack) = {}
         /\ Decs(stack) = {} /\ Feeds(stack) = {}
         /\ \A r \in Reqs : stack' = <<Frame("finish", r, "start")>> =>
              /\ StackOK(stack)'
              /\ Ended(stack)' = {r} /\ Leaving(stack)' = {}
              /\ Decs(stack)' = {} /\ Feeds(stack)' = {}
<1>1. PICK t \in Seq(Frames) :
        /\ t = <<>> /\ StackOK(t) /\ Bottom(t)
        /\ Ended(t) = {} /\ Leaving(t) = {} /\ Decs(t) = {} /\ Feeds(t) = {}
  <2>1. /\ <<>> \in Seq(Frames) /\ StackOK(<<>>) /\ Bottom(<<>>)
        /\ Ended(<<>>) = {} /\ Leaving(<<>>) = {} /\ Decs(<<>>) = {} /\ Feeds(<<>>) = {}
    BY DEF StackOK, Bottom, Ended, Leaving, Decs, Feeds, OfFn
  <2> QED
    BY <2>1
<1>2. ASSUME NEW r \in Reqs, stack' = <<Frame("finish", r, "start")>>
      PROVE  /\ StackOK(stack)'
             /\ Ended(stack)' = {r} /\ Leaving(stack)' = {}
             /\ Decs(stack)' = {} /\ Feeds(stack)' = {}
  <2>1. PICK h \in Frames : /\ h = Frame("finish", r, "start")
                            /\ h.fn = "finish" /\ h.req = r /\ h.at = "start"
    BY FramesMade
  <2>2. PICK n : n = On(h, t)
    OBVIOUS
  <2>3. StackOK(t) /\ Bottom(t) /\ h.req \notin Leaving(t) /\ h.at # "destroy"
    BY <1>1, <2>1
  <2>4. /\ StackOK(n) /\ Ended(n) = Ended(t) \cup {r} /\ Leaving(n) = Leaving(t)
        /\ Decs(n) = Decs(t) /\ Feeds(n) = Feeds(t)
    BY <2>1, <2>2, <2>3, PrefixFinish
  <2>5. stack' = n
    BY <1>1, <1>2, <2>1, <2>2 DEF On
  <2> QED
    BY <1>1, <2>4, <2>5, NewStack
<1> QED
  BY <1>1, <1>2

LEMMA StackRelabel ==
  ASSUME StackOK(stack), NEW r, NEW at \in {"start", "callback"},
         Running("finish", r, at), NEW next_at \in {"callback", "unlink"},
         stack' = <<Frame("finish", r, next_at)>> \o Caller
  PROVE  SameFrames /\ r \in Ended(stack)
<1>1. PICK h \in Frames, c, s \in Seq(Frames) :
        /\ h.fn = "finish" /\ h.req = r /\ h.at = at
        /\ c = Caller /\ s = stack /\ s = On(h, c)
  BY Top
<1>2. /\ StackOK(c) /\ Bottom(c) /\ r \notin Leaving(c)
      /\ Ended(s) = Ended(c) \cup {r} /\ Leaving(s) = Leaving(c)
      /\ Decs(s) = Decs(c) /\ Feeds(s) = Feeds(c)
  BY <1>1, PrefixFinish
<1>3. PICK k \in Frames : /\ k = Frame("finish", r, next_at)
                          /\ k.fn = "finish" /\ k.req = r /\ k.at = next_at
  <2>1. r \in Reqs
    BY <1>1 DEF Frames, Reqs
  <2> QED
    BY <2>1, FramesMade
<1>4. PICK n : n = On(k, c)
  OBVIOUS
<1>5. /\ StackOK(n) /\ Ended(n) = Ended(s) /\ Leaving(n) = Leaving(s)
      /\ Decs(n) = Decs(s) /\ Feeds(n) = Feeds(s)
  BY <1>2, <1>3, <1>4, PrefixFinish
<1>6. stack' = n
  BY <1>1, <1>3, <1>4 DEF On
<1> QED
  BY <1>1, <1>2, <1>5, <1>6, NewStack DEF SameFrames

LEMMA StackUnlink ==
  ASSUME StackOK(stack), NEW r, Running("finish", r, "unlink")
  PROVE  /\ r \in Reqs /\ r \notin Leaving(stack)
         /\ Ended(stack) = Leaving(stack) \cup {r}
         /\ Decs(stack) = {} /\ Feeds(stack) = {}
         /\ stack' = <<Frame("finish", r, "destroy")>> \o Caller =>
              /\ StackOK(stack)' /\ Ended(stack)' = Ended(stack)
              /\ Leaving(stack)' = Ended(stack)
              /\ Decs(stack)' = {} /\ Feeds(stack)' = {}
         /\ \A g \in Groups \ Ended(stack) :
              stack' = DecFrames(g) \o <<Frame("finish", r, "destroy")>> \o Caller =>
                /\ StackOK(stack)' /\ Ended(stack)' = Ended(stack)
                /\ Leaving(stack)' = Ended(stack)
                /\ Decs(stack)' = {g} /\ Feeds(stack)' = {g}
<1>1. PICK h \in Frames, c, s \in Seq(Frames) :
        /\ h.fn = "finish" /\ h.req = r /\ h.at = "unlink"
        /\ c = Caller /\ s = stack /\ s = On(h, c)
  BY Top
<1>2. /\ StackOK(c) /\ Bottom(c) /\ r \notin Leaving(c)
      /\ Ended(s) = Ended(c) \cup {r} /\ Leaving(s) = Leaving(c)
      /\ Decs(s) = Decs(c) /\ Feeds(s) = Feeds(c)
  BY <1>1, PrefixFinish
<1>3. Decs(c) = {} /\ Feeds(c) = {} /\ Ended(c) = Leaving(c)
  BY <1>2, BottomSets
<1>4. r \in Reqs
  BY <1>1 DEF Frames, Reqs
<1>5. PICK k \in Frames : /\ k = Frame("finish", r, "destroy")
                          /\ k.fn = "finish" /\ k.req = r /\ k.at = "destroy"
  BY <1>4, FramesMade
<1>6. PICK n : n = On(k, c)
  OBVIOUS
<1>7. /\ n \in Seq(Frames) /\ StackOK(n) /\ Ended(n) = Ended(s) /\ Leaving(n) = Ended(s)
      /\ Decs(n) = {} /\ Feeds(n) = {}
  BY <1>2, <1>3, <1>5, <1>6, PrefixFinish
<1>8. Bottom(n)
  BY <1>2, <1>5, <1>6, PrefixBottom
<1>9. ASSUME NEW g \in Groups \ Ended(s),
             stack' = DecFrames(g) \o <<Frame("finish", r, "destroy")>> \o Caller
      PROVE  /\ StackOK(stack)' /\ Ended(stack)' = Ended(s)
             /\ Leaving(stack)' = Ended(s)
             /\ Decs(stack)' = {g} /\ Feeds(stack)' = {g}
  <2>1. PICK i \in Frames :
          i = Feeding(g) /\ i.fn = "feed" /\ i.req = g /\ i.at = "test"
    BY FramesMade DEF Feeding
  <2>2. PICK j \in Frames :
          j = Frame("dec", g, "test") /\ j.fn = "dec" /\ j.req = g /\ j.at = "test"
    BY FramesMade
  <2>3. PICK d, f : d = On(j, n) /\ f = On(i, d)
    OBVIOUS
  <2>4. /\ d \in Seq(Frames) /\ StackOK(d)
        /\ Ended(d) = Ended(s) /\ Leaving(d) = Ended(s)
        /\ Decs(d) = {g} /\ Feeds(d) = {}
    BY <1>7, <1>8, <1>9, <2>2, <2>3, PrefixDec
  <2>5. /\ StackOK(f) /\ Ended(f) = Ended(s) /\ Leaving(f) = Ended(s)
        /\ Decs(f) = {g} /\ Feeds(f) = {g}
    BY <2>1, <2>3, <2>4, PrefixFeed
  <2>6. stack' = <<i, j>> \o <<k>> \o c
    BY <1>1, <1>5, <1>9, <2>1, <2>2 DEF DecFrames
  <2>7. <<i, j>> = <<i>> \o <<j>>
    OBVIOUS
  <2>8. <<i, j>> \o <<k>> \o c = <<i>> \o (<<j>> \o (<<k>> \o c))
    <3>1. <<i>> \in Seq(Frames) /\ <<j>> \in Seq(Frames) /\ <<k>> \in Seq(Frames)
      OBVIOUS
    <3> QED
      BY <2>7, <3>1, ConcatAssociative
  <2>9. stack' = f
    BY <1>6, <2>3, <2>6, <2>8 DEF On
  <2> QED
    BY <2>5, <2>9, NewStack
<1>10. stack' = <<Frame("finish", r, "destroy")>> \o Caller => stack' = n
  BY <1>1, <1>5, <1>6 DEF On
<1>11. /\ Ended(stack) = Ended(s) /\ Leaving(stack) = Leaving(s)
       /\ Decs(stack) = Decs(s) /\ Feeds(stack) = Feeds(s)
  BY <1>1
<1> QED
  BY <1>2, <1>3, <1>4, <1>7, <1>9, <1>10, <1>11, NewStack

LEMMA StackDec ==
  ASSUME StackOK(stack), NEW g, Running("dec", g, "test")
  PROVE  /\ g \in Groups /\ g \notin Ended(stack)
         /\ Ended(stack) = Leaving(stack)
         /\ Decs(stack) = {g} /\ Feeds(stack) = {}
         /\ stack' = Caller =>
              /\ StackOK(stack)' /\ Ended(stack)' = Ended(stack)
              /\ Leaving(stack)' = Leaving(stack)
              /\ Decs(stack)' = {} /\ Feeds(stack)' = {}
         /\ stack' = <<Frame("finish", g, "start")>> \o Caller =>
              /\ StackOK(stack)' /\ Ended(stack)' = Ended(stack) \cup {g}
              /\ Leaving(stack)' = Leaving(stack)
              /\ Decs(stack)' = {} /\ Feeds(stack)' = {}
<1>1. PICK h \in Frames, c, s \in Seq(Frames) :
        /\ h.fn = "dec" /\ h.req = g /\ h.at = "test"
        /\ c = Caller /\ s = stack /\ s = On(h, c)
  BY Top
<1>2. /\ StackOK(c) /\ Bottom(c) /\ g \notin Leaving(c)
      /\ Ended(s) = Ended(c) /\ Leaving(s) = Leaving(c)
      /\ Decs(s) = Decs(c) \cup {g} /\ Feeds(s) = Feeds(c)
  BY <1>1, PrefixDec
<1>3. Decs(c) = {} /\ Feeds(c) = {} /\ Ended(c) = Leaving(c)
  BY <1>2, BottomSets
<1>4. g \in Groups
  BY <1>1 DEF Frames
<1>5. PICK k \in Frames : /\ k = Frame("finish", g, "start")
                          /\ k.fn = "finish" /\ k.req = g /\ k.at = "start"
  BY <1>4, FramesMade DEF Reqs
<1>6. PICK n : n = On(k, c)
  OBVIOUS
<1>7. /\ StackOK(n) /\ Ended(n) = Ended(s) \cup {g} /\ Leaving(n) = Leaving(s)
      /\ Decs(n) = {} /\ Feeds(n) = {}
  BY <1>2, <1>3, <1>5, <1>6, PrefixFinish
<1>8. stack' = <<Frame("finish", g, "start")>> \o Caller => stack' = n
  BY <1>1, <1>5, <1>6 DEF On
<1>9. stack' = Caller => stack' = c
  BY <1>1
<1>10. /\ Ended(stack) = Ended(s) /\ Leaving(stack) = Leaving(s)
       /\ Decs(stack) = Decs(s) /\ Feeds(stack) = Feeds(s)
  BY <1>1
<1> QED
  BY <1>2, <1>3, <1>4, <1>7, <1>8, <1>9, <1>10, NewStack

LEMMA StackDestroy ==
  ASSUME StackOK(stack), NEW r, Running("finish", r, "destroy"), stack' = Caller
  PROVE  /\ Ended(stack) = Leaving(stack) /\ r \in Ended(stack)
         /\ Decs(stack) = {} /\ Feeds(stack) = {}
         /\ StackOK(stack)'
         /\ Ended(stack)' = Ended(stack) \ {r} /\ Leaving(stack)' = Leaving(stack) \ {r}
         /\ Decs(stack)' = {} /\ Feeds(stack)' = {}
<1>1. PICK h \in Frames, c, s \in Seq(Frames) :
        /\ h.fn = "finish" /\ h.req = r /\ h.at = "destroy"
        /\ c = Caller /\ s = stack /\ s = On(h, c)
  BY Top
<1>2. /\ StackOK(c) /\ Bottom(c) /\ r \notin Leaving(c)
      /\ Ended(s) = Ended(c) \cup {r} /\ Leaving(s) = Leaving(c) \cup {r}
      /\ Decs(s) = Decs(c) /\ Feeds(s) = Feeds(c)
  BY <1>1, PrefixFinish
<1>3. Decs(c) = {} /\ Feeds(c) = {} /\ Ended(c) = Leaving(c)
  BY <1>2, BottomSets
<1>4. stack' = c
  BY <1>1
<1>5. /\ Ended(stack) = Ended(s) /\ Leaving(stack) = Leaving(s)
      /\ Decs(stack) = Decs(s) /\ Feeds(stack) = Feeds(s)
  BY <1>1
<1> QED
  BY <1>2, <1>3, <1>4, <1>5, NewStack

LEMMA StackFed ==
  ASSUME StackOK(stack), NEW g, NEW at, Running("feed", g, at)
  PROVE  /\ g \in Groups /\ g \in Feeds(stack)
         /\ \A next_at \in {"test", "feeder"} :
              stack' = <<Frame("feed", g, next_at)>> \o Caller => SameFrames
         /\ stack' = Caller =>
              /\ StackOK(stack)'
              /\ Ended(stack)' = Ended(stack) /\ Leaving(stack)' = Leaving(stack)
              /\ Decs(stack)' = Decs(stack)
              /\ Feeds(stack)' \cup {g} = Feeds(stack)
<1>1. PICK h \in Frames, c, s \in Seq(Frames) :
        /\ h.fn = "feed" /\ h.req = g /\ h.at = at
        /\ c = Caller /\ s = stack /\ s = On(h, c)
  BY Top
<1>2. g \in Groups /\ h.at # "destroy"
  BY <1>1 DEF Frames
<1>3. /\ StackOK(c) /\ Ended(s) = Ended(c) /\ Decs(s) = Decs(c)
      /\ Feeds(s) = Feeds(c) \cup {g} /\ Leaving(s) = Leaving(c)
  BY <1>1, <1>2, PrefixFeed
<1>4. /\ Ended(stack) = Ended(s) /\ Leaving(stack) = Leaving(s)
      /\ Decs(stack) = Decs(s) /\ Feeds(stack) = Feeds(s)
  BY <1>1
<1>5. ASSUME NEW next_at \in {"test", "feeder"},
             stack' = <<Frame("feed", g, next_at)>> \o Caller
      PROVE  SameFrames
  <2>1. PICK k \in Frames : /\ k = Frame("feed", g, next_at)
                            /\ k.fn = "feed" /\ k.req = g /\ k.at = next_at
    BY <1>2, FramesMade
  <2>2. PICK n : n = On(k, c)
    OBVIOUS
  <2>3. /\ StackOK(n) /\ Ended(n) = Ended(s) /\ Leaving(n) = Leaving(s)
        /\ Decs(n) = Decs(s) /\ Feeds(n) = Feeds(s)
    BY <1>3, <2>1, <2>2, PrefixFeed
  <2>4. stack' = n
    BY <1>1, <1>5, <2>1, <2>2 DEF On
  <2> QED
    BY <1>4, <2>3, <2>4, NewStack DEF SameFrames
<1>6. stack' = Caller => stack' = c
  BY <1>1
<1> QED
  BY <1>2, <1>3, <1>4, <1>5, <1>6, NewStack

-----------------------------------------------------------------------------
(***************************************************************************)
(* The inductive invariant.                                                *)
(***************************************************************************)
TypeOK ==
  /\ fresh \subseteq Reqs /\ alive \subseteq Reqs
  /\ IsFiniteSet(results) /\ nreqs = Cardinality(results)
  /\ grp \in [Reqs -> Groups \cup {No}]
  /\ next \in [Reqs -> Reqs \cup {No}] /\ prev \in [Reqs -> Reqs \cup {No}]
  /\ first \in [Groups -> Reqs \cup {No}] /\ size \in [Groups -> Nat]
  /\ limit \in [Groups -> Int] /\ feed \in [Groups -> BOOLEAN]

\* Where a request is: with the workers, delayed, or being finished
PlacesOK ==
  /\ fresh \cap alive = {}
  /\ results \subseteq alive /\ delayed \subseteq alive \cap Groups
  /\ Ended(stack) \subseteq alive
  /\ results \cap (delayed \cup Ended(stack)) = {}
  /\ alive \subseteq results \cup delayed \cup Ended(stack)
  /\ Decs(stack) \cup Feeds(stack) \subseteq alive

\* The members of g
Of(g) == {r \in Linked : grp[r] = g}

MembersOK ==
  /\ \A r \in Reqs \ alive : grp[r] = No
  /\ \A r \in Linked : grp[r] \in alive \ Ended(stack)
  /\ \A g \in Groups : size[g] = Cardinality(Of(g))

\* Every pointer has its counterpart.
PointersOK ==
  /\ \A g \in Groups : first[g] # No =>
       first[g] \in Linked /\ grp[first[g]] = g /\ prev[first[g]] = No
  /\ \A r \in Linked :
       /\ prev[r] = No => first[grp[r]] = r
       /\ prev[r] # No => prev[r] \in Linked /\ next[prev[r]] = r
       /\ next[r] # No =>
            next[r] \in Linked /\ grp[next[r]] = grp[r] /\ prev[next[r]] = r

\* No list and no nesting of groups has a cycle: any set of members has one
\* before all others, and any set of requests one that contains none of it.
ListsEnd ==
  \A T \in SUBSET Linked : T # {} => \E t \in T : prev[t] \notin T

NestingEnds ==
  \A T \in SUBSET Reqs : T # {} =>
    \E t \in T : \A r \in T \cap Linked : grp[r] # t

\* A delayed group still has members, or grp_dec is about to finish it.
DelayedOK ==
  \A g \in delayed \ Ended(stack) : size[g] # 0 \/ g \in Decs(stack)

FeedOK ==
  /\ \A g \in Groups : feed[g] => g \in alive
  /\ \A g \in Groups \ Ended(stack) :
       feed[g] /\ Wanting(g) => g \in Feeds(stack)

IInv == /\ TypeOK /\ StackOK(stack) /\ PlacesOK
        /\ MembersOK /\ PointersOK /\ ListsEnd /\ NestingEnds
        /\ DelayedOK /\ FeedOK

-----------------------------------------------------------------------------
(***************************************************************************)
(* The lists.                                                              *)
(***************************************************************************)
LEMMA ReqsFinite ==
  /\ IsFiniteSet(Reqs) /\ Groups \subseteq Reqs /\ No \notin Reqs
  /\ TypeOK => \A g : IsFiniteSet(Of(g)) /\ Of(g) \subseteq Reqs
<1>1. IsFiniteSet(Reqs) /\ Groups \subseteq Reqs /\ No \notin Reqs
  BY GroupAssumption, FS_Union DEF Reqs
<1>2. ASSUME TypeOK, NEW g PROVE IsFiniteSet(Of(g)) /\ Of(g) \subseteq Reqs
  <2>1. Of(g) \subseteq Reqs
    BY <1>2 DEF TypeOK, Of, Linked
  <2> QED
    BY <1>1, <2>1, FS_Subset
<1> QED
  BY <1>1, <1>2

\* The lists do not change.
LEMMA KeepLists ==
  ASSUME Linked' = Linked, UNCHANGED <<first, size>>,
         \A r \in Linked : grp'[r] = grp[r] /\ next'[r] = next[r] /\ prev'[r] = prev[r],
         PointersOK, ListsEnd, NestingEnds
  PROVE  PointersOK' /\ ListsEnd' /\ NestingEnds' /\ \A g : Of(g)' = Of(g)
<1>1. PointersOK'
  BY DEF PointersOK
<1>2. ListsEnd'
  BY DEF ListsEnd
<1>3. NestingEnds'
  BY DEF NestingEnds
<1>4. ASSUME NEW g PROVE Of(g)' = Of(g)
  BY DEF Of
<1> QED
  BY <1>1, <1>2, <1>3, <1>4

\* What eio_grp_add does to the lists
LEMMA AddLists ==
  ASSUME TypeOK, StackOK(stack), PlacesOK, MembersOK, PointersOK, ListsEnd, NestingEnds,
         NEW g \in Groups, NEW r \in Reqs, Add(g, r)
  PROVE  /\ Linked' = Linked \cup {r} /\ r \notin Linked
         /\ PointersOK' /\ ListsEnd' /\ NestingEnds'
         /\ grp'[r] = g /\ \A q \in Reqs \ {r} : grp'[q] = grp[q]
         /\ g \in alive \ Ended(stack) /\ r \in alive
<1>1. GuardsRead /\ GuardsRead' /\ Leaving(stack)' = Leaving(stack)
  <2>1. StackOK(stack)' /\ Leaving(stack)' = Leaving(stack)
    BY SameStack DEF Add
  <2> QED
    BY <2>1, FinishingIs, FinishingNext
<1>2. /\ g \in alive \ Ended(stack) /\ r \in alive /\ r \notin Leaving(stack)
      /\ grp[r] = No /\ g # No /\ r # No
  BY <1>1, ReqsFinite DEF Add, GuardsRead
<1>3. /\ grp' = [grp EXCEPT ![r] = g] /\ next' = [next EXCEPT ![r] = first[g]]
      /\ prev' = [q \in Reqs |-> IF q = r THEN No
                                 ELSE IF q = first[g] THEN r ELSE prev[q]]
      /\ first' = [first EXCEPT ![g] = r] /\ alive' = alive
  BY DEF Add
<1>4. Linked' = Linked \cup {r} /\ r \notin Linked /\ Linked \subseteq Reqs
  BY <1>1, <1>2, <1>3 DEF GuardsRead, TypeOK
<1>5. PICK S \in SUBSET Reqs :
        g \in S /\ r \notin S /\ \A p \in S : grp[p] \in S \cup {No}
  BY <1>2 DEF Add, AllAbove, Chain
<1>6. PointersOK'
  <2>1. ASSUME NEW h \in Groups, first'[h] # No
        PROVE  first'[h] \in Linked' /\ grp'[first'[h]] = h /\ prev'[first'[h]] = No
    <3>1. CASE h = g
      BY <1>3, <1>4, <3>1 DEF TypeOK
    <3>2. CASE h # g
      <4>1. first'[h] = first[h]
        BY <1>3, <3>2 DEF TypeOK
      <4>2. /\ first[h] \in Linked /\ grp[first[h]] = h /\ prev[first[h]] = No
            /\ first[h] # first[g]
        BY <2>1, <3>2, <4>1 DEF PointersOK
      <4> QED
        BY <1>3, <1>4, <4>1, <4>2 DEF TypeOK
    <3> QED
      BY <3>1, <3>2
  <2>2. ASSUME NEW q \in Linked'
        PROVE  /\ prev'[q] = No => first'[grp'[q]] = q
               /\ prev'[q] # No => prev'[q] \in Linked' /\ next'[prev'[q]] = q
               /\ next'[q] # No => /\ next'[q] \in Linked' /\ grp'[next'[q]] = grp'[q]
                                   /\ prev'[next'[q]] = q
    <3>1. CASE q = r
      <4>1. prev'[q] = No /\ grp'[q] = g /\ first'[g] = r /\ next'[q] = first[g]
        BY <1>3, <3>1 DEF TypeOK
      <4>2. first[g] # No => first[g] \in Linked /\ grp[first[g]] = g
        BY DEF PointersOK
      <4> QED
        BY <1>3, <1>4, <3>1, <4>1, <4>2 DEF TypeOK
    <3>2. CASE q # r
      <4>1. q \in Linked /\ grp'[q] = grp[q] /\ next'[q] = next[q]
        BY <1>3, <1>4, <3>2 DEF TypeOK
      <4>2. grp[q] \in Groups
        BY <1>1, <4>1 DEF GuardsRead, TypeOK
      <4>3. next[q] # No => /\ next[q] \in Linked /\ grp[next[q]] = grp[q]
                            /\ prev[next[q]] = q
        BY <4>1 DEF PointersOK
      <4>4. next[q] # No => next[q] # first[g]
        BY <1>4, <4>1, <4>3, ReqsFinite DEF PointersOK
      <4>5. CASE q = first[g]
        <5>1. prev'[q] = r /\ next'[r] = q
          BY <1>3, <1>4, <3>2, <4>1, <4>5 DEF TypeOK
        <5> QED
          BY <1>2, <1>3, <1>4, <4>1, <4>3, <4>4, <5>1 DEF TypeOK
      <4>6. CASE q # first[g]
        <5>1. prev'[q] = prev[q]
          BY <1>3, <1>4, <3>2, <4>1, <4>6 DEF TypeOK
        <5>2. prev[q] = No => first[grp[q]] = q /\ grp[q] # g
          BY <4>1, <4>6 DEF PointersOK
        <5>3. prev[q] # No => prev[q] \in Linked /\ next[prev[q]] = q
          BY <4>1 DEF PointersOK
        <5> QED
          BY <1>3, <1>4, <4>1, <4>2, <4>3, <4>4, <5>1, <5>2, <5>3 DEF TypeOK
      <4> QED
        BY <4>5, <4>6
    <3> QED
      BY <3>1, <3>2
  <2> QED
    BY <2>1, <2>2 DEF PointersOK
<1>7. ListsEnd'
  <2> SUFFICES ASSUME NEW T \in SUBSET Linked', T # {}
               PROVE  \E t \in T : prev'[t] \notin T
    BY DEF ListsEnd
  <2>1. CASE r \in T
    <3>1. prev'[r] = No /\ No \notin T
      BY <1>3, <1>4, ReqsFinite
    <3> QED
      BY <2>1, <3>1
  <2>2. CASE r \notin T
    <3>1. PICK t \in T : prev[t] \notin T
      BY <1>4, <2>2 DEF ListsEnd
    <3>2. prev'[t] \in {r, prev[t]}
      BY <1>3, <1>4, <2>2, <3>1
    <3> QED
      BY <2>2, <3>1, <3>2
  <2> QED
    BY <2>1, <2>2
<1>8. NestingEnds'
  <2> SUFFICES ASSUME NEW T \in SUBSET Reqs, T # {}
               PROVE  \E t \in T : \A q \in T \cap Linked' : grp'[q] # t
    BY DEF NestingEnds
  <2>1. CASE T \subseteq S
    <3>1. PICK t \in T : \A q \in T \cap Linked : grp[q] # t
      BY DEF NestingEnds
    <3>2. r \notin T
      BY <1>5, <2>1
    <3> QED
      BY <1>3, <1>4, <3>1, <3>2 DEF TypeOK
  <2>2. CASE ~(T \subseteq S)
    <3>1. PICK t \in T \ S : \A q \in (T \ S) \cap Linked : grp[q] # t
      BY <2>2 DEF NestingEnds
    <3>2. ASSUME NEW q \in T \cap Linked', grp'[q] = t PROVE FALSE
      <4>1. q # r
        BY <1>3, <1>5, <3>1, <3>2 DEF TypeOK
      <4>2. q \in Linked /\ grp[q] = t
        BY <1>3, <1>4, <3>2, <4>1 DEF TypeOK
      <4>3. q \in S
        BY <3>1, <3>2, <4>2
      <4>4. t # No
        BY <3>1, ReqsFinite
      <4> QED
        BY <1>5, <3>1, <4>2, <4>3, <4>4
    <3> QED
      BY <3>1, <3>2
  <2> QED
    BY <2>1, <2>2
<1> QED
  BY <1>2, <1>3, <1>4, <1>6, <1>7, <1>8 DEF TypeOK

\* What the end of eio_finish does to them, for a member of g
LEMMA UnlinkLists ==
  ASSUME TypeOK, StackOK(stack), PlacesOK, MembersOK, PointersOK, ListsEnd, NestingEnds,
         NEW r \in Reqs, Unlink(r), grp[r] # No
  PROVE  /\ Linked' = Linked \ {r} /\ r \in Linked
         /\ PointersOK' /\ ListsEnd' /\ NestingEnds'
         /\ grp' = grp /\ grp[r] \in alive \ Ended(stack) /\ grp[r] \in Groups
         /\ stack' = DecFrames(grp[r]) \o <<Frame("finish", r, "destroy")>> \o Caller
<1> DEFINE g == grp[r]
           n == next[r]
           p == prev[r]
<1>1. /\ prev' = IF n # No THEN [prev EXCEPT ![n] = p] ELSE prev
      /\ next' = IF p # No THEN [next EXCEPT ![p] = n] ELSE next
      /\ first' = IF first[g] = r THEN [first EXCEPT ![g] = n] ELSE first
      /\ grp' = grp /\ alive' = alive
      /\ stack' = DecFrames(g) \o <<Frame("finish", r, "destroy")>> \o Caller
  BY DEF Unlink, FirstWithout
<1>2. /\ r \in Ended(stack) /\ r \notin Leaving(stack)
      /\ Ended(stack) = Leaving(stack) \cup {r}
  BY StackUnlink DEF Unlink
<1>3. GuardsRead
  BY FinishingIs
<1>4. r \in Linked /\ Linked \subseteq Reqs
  BY <1>2, <1>3 DEF GuardsRead, PlacesOK, TypeOK
<1>5. g \in alive \ Ended(stack) /\ g \in Groups
  BY <1>4 DEF MembersOK, TypeOK
<1>6. StackOK(stack)' /\ Leaving(stack)' = Leaving(stack) \cup {r}
  BY <1>1, <1>2, <1>5, StackUnlink DEF Unlink
<1>7. Linked' = Linked \ {r}
  BY <1>1, <1>3, <1>6, FinishingNext DEF GuardsRead
<1>8. /\ n # No => n \in Linked /\ grp[n] = g /\ prev[n] = r
      /\ p # No => p \in Linked /\ grp[p] = g /\ next[p] = r
      /\ p = No <=> first[g] = r
  <2>1. n # No => n \in Linked /\ grp[n] = g /\ prev[n] = r
    BY <1>4 DEF PointersOK
  <2>2. p # No => p \in Linked /\ next[p] = r
    BY <1>4 DEF PointersOK
  <2>3. p # No => grp[p] = g
    BY <1>4, <2>2, ReqsFinite DEF PointersOK
  <2>4. p = No <=> first[g] = r
    BY <1>4, <1>5, ReqsFinite DEF PointersOK
  <2> QED
    BY <2>1, <2>2, <2>3, <2>4
<1>9. p # r /\ n # r
  <2>1. PICK t \in {r} : prev[t] \notin {r}
    BY <1>4 DEF ListsEnd
  <2> QED
    BY <1>4, <1>8, <2>1, ReqsFinite
<1>10. \A q \in Linked \ {r} :
         /\ prev'[q] = IF q = n THEN p ELSE prev[q]
         /\ next'[q] = IF q = p THEN n ELSE next[q]
  BY <1>1, <1>4, ReqsFinite DEF TypeOK
<1>11. \A h \in Groups : first'[h] = IF h = g /\ p = No THEN n ELSE first[h]
  BY <1>1, <1>8 DEF TypeOK
<1> HIDE DEF g, n, p
<1>12. PointersOK'
  <2>1. ASSUME NEW h \in Groups, first'[h] # No
        PROVE  first'[h] \in Linked' /\ grp'[first'[h]] = h /\ prev'[first'[h]] = No
    <3>1. CASE h = g /\ p = No
      BY <1>1, <1>7, <1>8, <1>9, <1>10, <1>11, <2>1, <3>1
    <3>2. CASE ~(h = g /\ p = No)
      <4>1. first'[h] = first[h] /\ first[h] # No
        BY <1>11, <2>1, <3>2
      <4>2. first[h] \in Linked /\ grp[first[h]] = h /\ prev[first[h]] = No
        BY <4>1 DEF PointersOK
      <4>3. first[h] # r
        BY <1>8, <3>2, <4>2 DEF g
      <4>4. first[h] # n
        BY <1>4, <1>8, <4>1, <4>2, ReqsFinite
      <4> QED
        BY <1>1, <1>7, <1>10, <4>1, <4>2, <4>3, <4>4
    <3> QED
      BY <3>1, <3>2
  <2>2. ASSUME NEW q \in Linked'
        PROVE  /\ prev'[q] = No => first'[grp'[q]] = q
               /\ prev'[q] # No => prev'[q] \in Linked' /\ next'[prev'[q]] = q
               /\ next'[q] # No => /\ next'[q] \in Linked' /\ grp'[next'[q]] = grp'[q]
                                   /\ prev'[next'[q]] = q
    <3>1. q \in Linked /\ q # r /\ q \in Reqs /\ grp[q] \in Groups
      BY <1>3, <1>4, <1>7 DEF GuardsRead, TypeOK
    <3>2. /\ prev[q] = No => first[grp[q]] = q
          /\ prev[q] # No => prev[q] \in Linked /\ next[prev[q]] = q
          /\ next[q] # No => /\ next[q] \in Linked /\ grp[next[q]] = grp[q]
                             /\ prev[next[q]] = q
      BY <3>1 DEF PointersOK
    <3>3. prev'[q] = No => first'[grp'[q]] = q
      <4>1. CASE q = n
        BY <1>1, <1>8, <1>10, <1>11, <3>1, <4>1, ReqsFinite
      <4>2. CASE q # n
        <5>1. prev'[q] = prev[q]
          BY <1>10, <3>1, <4>2
        <5>2. prev[q] = No => first[grp[q]] = q /\ ~(grp[q] = g /\ p = No)
          BY <1>8, <3>1, <3>2
        <5> QED
          BY <1>1, <1>11, <3>1, <5>1, <5>2
      <4> QED
        BY <4>1, <4>2
    <3>4. prev'[q] # No => prev'[q] \in Linked' /\ next'[prev'[q]] = q
      <4>1. CASE q = n
        BY <1>7, <1>8, <1>9, <1>10, <3>1, <4>1
      <4>2. CASE q # n
        <5>1. prev'[q] = prev[q]
          BY <1>10, <3>1, <4>2
        <5>2. prev[q] # No => prev[q] # r /\ prev[q] # p
          BY <1>8, <3>1, <3>2, <4>2 DEF n
        <5> QED
          BY <1>7, <1>10, <3>2, <5>1, <5>2
      <4> QED
        BY <4>1, <4>2
    <3>5. next'[q] # No => /\ next'[q] \in Linked' /\ grp'[next'[q]] = grp'[q]
                           /\ prev'[next'[q]] = q
      <4>1. CASE q = p
        <5>1. next'[q] = n /\ grp[q] = g
          BY <1>8, <1>10, <3>1, <4>1, ReqsFinite
        <5>2. n # No => n \in Linked \ {r} /\ grp[n] = g /\ prev'[n] = q
          BY <1>8, <1>9, <1>10, <4>1
        <5> QED
          BY <1>1, <1>7, <5>1, <5>2
      <4>2. CASE q # p
        <5>1. next'[q] = next[q]
          BY <1>10, <3>1, <4>2
        <5>2. next[q] # No => next[q] # r /\ next[q] # n
          BY <1>8, <3>1, <3>2, <4>2 DEF p
        <5> QED
          BY <1>1, <1>7, <1>10, <3>2, <5>1, <5>2
      <4> QED
        BY <4>1, <4>2
    <3> QED
      BY <3>3, <3>4, <3>5
  <2> QED
    BY <2>1, <2>2 DEF PointersOK
<1>13. ListsEnd'
  <2> SUFFICES ASSUME NEW T \in SUBSET Linked', T # {}
               PROVE  \E t \in T : prev'[t] \notin T
    BY DEF ListsEnd
  <2>1. PICK t \in T \cup {r} : prev[t] \notin T \cup {r}
    BY <1>4, <1>7 DEF ListsEnd
  <2>2. CASE n \notin T
    <3>1. PICK u \in T : prev[u] \notin T
      BY <1>7 DEF ListsEnd
    <3> QED
      BY <1>7, <1>10, <2>2, <3>1
  <2>3. CASE n \in T /\ t = r
    BY <1>7, <1>10, <2>1, <2>3 DEF p
  <2>4. CASE n \in T /\ t # r
    <3>1. n # No
      BY <1>4, <1>7, <2>4, ReqsFinite
    <3>2. t # n
      BY <1>8, <2>1, <3>1
    <3> QED
      BY <1>7, <1>10, <2>1, <2>4, <3>2
  <2> QED
    BY <2>2, <2>3, <2>4
<1>14. NestingEnds'
  BY <1>1, <1>7 DEF NestingEnds
<1> QED
  BY <1>1, <1>4, <1>5, <1>7, <1>12, <1>13, <1>14 DEF g

-----------------------------------------------------------------------------
(***************************************************************************)
(* Each action preserves the invariant.                                    *)
(***************************************************************************)
LEMMA InitIInv == Init => IInv
<1> SUFFICES ASSUME Init PROVE IInv
  OBVIOUS
<1>1. /\ StackOK(<<>>)
      /\ Ended(<<>>) = {} /\ Leaving(<<>>) = {} /\ Decs(<<>>) = {} /\ Feeds(<<>>) = {}
  BY DEF StackOK, Ended, Leaving, Decs, Feeds, OfFn
<1>2. /\ StackOK(stack) /\ Ended(stack) = {} /\ Leaving(stack) = {}
      /\ Decs(stack) = {} /\ Feeds(stack) = {}
  BY <1>1 DEF Init
<1>3. Linked = {} /\ \A g : Of(g) = {}
  BY DEF Init, Linked, Of
<1>4. TypeOK
  BY FS_EmptySet, ReqsFinite DEF Init, TypeOK
<1>5. PlacesOK
  BY <1>2 DEF Init, PlacesOK
<1>6. MembersOK
  BY <1>3, FS_EmptySet DEF Init, MembersOK
<1>7. PointersOK /\ ListsEnd /\ NestingEnds
  BY <1>3 DEF Init, PointersOK, ListsEnd, NestingEnds
<1>8. DelayedOK /\ FeedOK
  BY DEF Init, DelayedOK, FeedOK
<1> QED
  BY <1>2, <1>4, <1>5, <1>6, <1>7, <1>8 DEF IInv

\* Nobody's place and nobody's list changes: cancelling, and the calls of
\* callbacks and feeders.
LEMMA QuietStep ==
  ASSUME IInv, SameFrames, cancelled \subseteq cancelled',
         UNCHANGED <<queueVars, alive, listVars, delayed, limit, feed>>
  PROVE  IInv'
<1> USE DEF queueVars, listVars
<1>1. GuardsRead /\ GuardsRead'
  BY FinishingIs, FinishingNext DEF IInv, SameFrames
<1>2. Linked' = Linked
  BY <1>1 DEF GuardsRead, SameFrames
<1>3. PointersOK' /\ ListsEnd' /\ NestingEnds' /\ \A g : Of(g)' = Of(g)
  BY <1>2, KeepLists DEF IInv
<1>4. TypeOK'
  BY DEF IInv, TypeOK
<1>5. PlacesOK'
  BY DEF IInv, PlacesOK, SameFrames
<1>6. MembersOK'
  BY <1>2, <1>3 DEF IInv, MembersOK, SameFrames
<1>7. DelayedOK'
  BY DEF IInv, DelayedOK, SameFrames
<1>8. FeedOK'
  BY DEF IInv, FeedOK, SameFrames, Wanting, BelowLimit
<1> QED
  BY <1>3, <1>4, <1>5, <1>6, <1>7, <1>8 DEF IInv, SameFrames

LEMMA SubmitStep ==
  ASSUME IInv, NEW r \in Reqs, Submit(r)
  PROVE  IInv'
<1> USE DEF listVars, feedVars
<1>1. SameFrames
  BY SameStack DEF IInv, Submit, SameFrames
<1>2. GuardsRead /\ GuardsRead'
  BY <1>1, FinishingIs, FinishingNext DEF IInv, SameFrames
<1>3. r \in fresh /\ r \notin alive /\ r \notin results /\ grp[r] = No
  BY DEF IInv, Submit, PlacesOK, MembersOK
<1>4. Linked' = Linked
  BY <1>1, <1>2, <1>3 DEF GuardsRead, SameFrames, Submit
<1>5. PointersOK' /\ ListsEnd' /\ NestingEnds' /\ \A g : Of(g)' = Of(g)
  BY <1>4, KeepLists DEF IInv, Submit
<1>6. TypeOK'
  BY <1>3, FS_AddElement DEF IInv, TypeOK, Submit
<1>7. PlacesOK'
  BY <1>1, <1>3 DEF IInv, PlacesOK, SameFrames, Submit
<1>8. MembersOK'
  BY <1>1, <1>4, <1>5 DEF IInv, MembersOK, SameFrames, Submit
<1>9. DelayedOK'
  BY <1>1 DEF IInv, DelayedOK, SameFrames, Submit
<1>10. FeedOK'
  BY <1>1 DEF IInv, FeedOK, SameFrames, Wanting, BelowLimit, Submit
<1> QED
  BY <1>1, <1>5, <1>6, <1>7, <1>8, <1>9, <1>10 DEF IInv, SameFrames

LEMMA AddStep ==
  ASSUME IInv, NEW g \in Groups, NEW r \in Reqs, Add(g, r)
  PROVE  IInv'
<1> USE DEF queueVars
<1>1. SameFrames
  BY SameStack DEF IInv, Add, SameFrames
<1>2. /\ Linked' = Linked \cup {r} /\ r \notin Linked
      /\ PointersOK' /\ ListsEnd' /\ NestingEnds'
      /\ grp'[r] = g /\ \A q \in Reqs \ {r} : grp'[q] = grp[q]
      /\ g \in alive \ Ended(stack) /\ r \in alive
  BY AddLists DEF IInv
<1>3. Linked \subseteq Reqs
  BY DEF IInv, TypeOK, Linked
<1>4. Of(g)' = Of(g) \cup {r} /\ r \notin Of(g)
  BY <1>2, <1>3 DEF Of
<1>5. \A h \in Groups \ {g} : Of(h)' = Of(h)
  BY <1>2, <1>3 DEF Of
<1>6. \A h \in Groups : size[h] = Cardinality(Of(h)) /\ size[h] \in Nat
  BY DEF IInv, MembersOK, TypeOK
<1>7. Cardinality(Of(g) \cup {r}) = size[g] + 1
  BY <1>4, <1>6, ReqsFinite, FS_AddElement DEF IInv
<1>8. TypeOK'
  BY DEF IInv, TypeOK, Add, Reqs
<1>9. \A h \in Groups : size'[h] = IF h = g THEN size[g] + 1 ELSE size[h]
  BY DEF IInv, TypeOK, Add
<1>10. PlacesOK'
  BY <1>1 DEF IInv, PlacesOK, SameFrames, Add
<1>11. MembersOK'
  <2>1. \A q \in Reqs \ alive' : grp'[q] = No
    BY <1>2 DEF IInv, MembersOK, Add
  <2>2. \A q \in Linked' : grp'[q] \in alive' \ Ended(stack)'
    BY <1>1, <1>2, <1>3 DEF IInv, MembersOK, SameFrames, Add
  <2>3. \A h \in Groups : size'[h] = Cardinality(Of(h)')
    BY <1>4, <1>5, <1>6, <1>7, <1>9
  <2>4. ASSUME NEW h \in Groups PROVE size'[h] = Cardinality(Of(h))'
    BY <2>3
  <2> QED
    BY <2>1, <2>2, <2>4 DEF MembersOK
<1>12. DelayedOK'
  BY <1>1, <1>6, <1>9 DEF IInv, DelayedOK, PlacesOK, SameFrames, Add
<1>13. FeedOK'
  <2>1. \A h \in Groups : Wanting(h)' => Wanting(h)
    BY <1>6, <1>9 DEF IInv, TypeOK, Wanting, BelowLimit, Add
  <2> QED
    BY <1>1, <2>1 DEF IInv, FeedOK, SameFrames, Add
<1> QED
  BY <1>1, <1>2, <1>8, <1>10, <1>11, <1>12, <1>13 DEF IInv, SameFrames

\* eio_grp_feed and eio_grp_limit
LEMMA FeedStep ==
  ASSUME IInv, NEW g \in Groups, NEW n \in Limits, Feed(g, n) \/ Limit(g, n)
  PROVE  IInv'
<1> USE DEF queueVars, listVars
<1>1. /\ Open(g) /\ stack' = <<Feeding(g)>> \o stack
      /\ limit' = [limit EXCEPT ![g] = n]
      /\ feed' = [feed EXCEPT ![g] = TRUE] \/ feed' = feed
      /\ UNCHANGED <<queueVars, alive, listVars, delayed, cancelled>>
  BY DEF Feed, Limit
<1>2. /\ StackOK(stack)' /\ Ended(stack)' = Ended(stack)
      /\ Leaving(stack)' = Leaving(stack) /\ Decs(stack)' = Decs(stack)
      /\ Feeds(stack)' = Feeds(stack) \cup {g}
  BY <1>1, StackFeed DEF IInv
<1>3. GuardsRead /\ GuardsRead'
  BY <1>2, FinishingIs, FinishingNext DEF IInv
<1>4. g \in alive
  BY <1>1 DEF Open
<1>5. Linked' = Linked
  BY <1>1, <1>2, <1>3 DEF GuardsRead
<1>6. PointersOK' /\ ListsEnd' /\ NestingEnds' /\ \A h : Of(h)' = Of(h)
  BY <1>1, <1>5, KeepLists DEF IInv
<1>7. TypeOK'
  BY <1>1, GroupAssumption DEF IInv, TypeOK
<1>8. PlacesOK'
  BY <1>1, <1>2, <1>4 DEF IInv, PlacesOK
<1>9. MembersOK'
  BY <1>1, <1>2, <1>5, <1>6 DEF IInv, MembersOK
<1>10. DelayedOK'
  BY <1>1, <1>2 DEF IInv, DelayedOK
<1>11. FeedOK'
  <2>1. \A h \in Groups \ {g} : (Wanting(h)' => Wanting(h)) /\ feed'[h] = feed[h]
    BY <1>1 DEF IInv, TypeOK, Wanting, BelowLimit
  <2> QED
    BY <1>1, <1>2, <1>4, <2>1 DEF IInv, FeedOK
<1> QED
  BY <1>2, <1>6, <1>7, <1>8, <1>9, <1>10, <1>11 DEF IInv

\* grp_try_feed returns: the group is at its limit, cancelled, or has no feeder
\* any more.
LEMMA FedStep ==
  ASSUME IInv, NEW g, NEW at, Running("feed", g, at), stack' = Caller,
         UNCHANGED <<queueVars, alive, listVars, delayed, limit, cancelled>>,
         \/ feed' = feed /\ ~(Wanting(g) /\ feed[g])
         \/ feed' = [feed EXCEPT ![g] = FALSE]
  PROVE  IInv'
<1> USE DEF queueVars, listVars
<1>1. /\ g \in Groups
      /\ StackOK(stack)' /\ Ended(stack)' = Ended(stack)
      /\ Leaving(stack)' = Leaving(stack) /\ Decs(stack)' = Decs(stack)
      /\ Feeds(stack)' \cup {g} = Feeds(stack)
  BY StackFed DEF IInv
<1>2. GuardsRead /\ GuardsRead'
  BY <1>1, FinishingIs, FinishingNext DEF IInv
<1>3. Linked' = Linked
  BY <1>1, <1>2 DEF GuardsRead
<1>4. PointersOK' /\ ListsEnd' /\ NestingEnds' /\ \A h : Of(h)' = Of(h)
  BY <1>3, KeepLists DEF IInv
<1>5. TypeOK'
  BY DEF IInv, TypeOK
<1>6. PlacesOK'
  BY <1>1 DEF IInv, PlacesOK
<1>7. MembersOK'
  BY <1>1, <1>3, <1>4 DEF IInv, MembersOK
<1>8. DelayedOK'
  BY <1>1 DEF IInv, DelayedOK
<1>9. FeedOK'
  <2>1. \A h \in Groups : Wanting(h)' = Wanting(h)
    BY DEF Wanting, BelowLimit
  <2>2. \A h \in Groups : feed'[h] = feed[h] \/ (h = g /\ ~feed'[h])
    BY DEF IInv, TypeOK
  <2>3. feed'[g] /\ Wanting(g)' => FALSE
    BY <1>1, <2>1 DEF IInv, TypeOK
  <2>4. \A h \in Groups : feed'[h] => feed[h]
    BY <2>2
  <2> QED
    BY <1>1, <2>1, <2>3, <2>4 DEF IInv, FeedOK
<1> QED
  BY <1>1, <1>4, <1>5, <1>6, <1>7, <1>8, <1>9 DEF IInv

LEMMA PollStep ==
  ASSUME IInv, NEW r \in Reqs, Poll(r)
  PROVE  IInv'
<1> USE DEF listVars, feedVars
<1>1. /\ Ended(stack) = {} /\ Leaving(stack) = {}
      /\ Decs(stack) = {} /\ Feeds(stack) = {}
  BY StackPoll DEF Poll
<1>2. r \in results /\ results' = results \ {r} /\ r \in alive /\ r \notin delayed
  BY DEF Poll, IInv, PlacesOK
<1>3. \/ MustWait(r) /\ delayed' = delayed \cup {r} /\ UNCHANGED stack
      \/ ~MustWait(r) /\ delayed' = delayed /\ stack' = <<Frame("finish", r, "start")>>
  BY DEF Poll, Delay
<1>4. /\ StackOK(stack)' /\ Leaving(stack)' = {}
      /\ Decs(stack)' = {} /\ Feeds(stack)' = {}
      /\ Ended(stack)' = IF MustWait(r) THEN {} ELSE {r}
  BY <1>1, <1>3, StackPoll, SameStack DEF Poll, IInv
<1>5. GuardsRead /\ GuardsRead'
  BY <1>4, FinishingIs, FinishingNext DEF IInv
<1>6. Linked' = Linked
  BY <1>1, <1>4, <1>5 DEF GuardsRead, Poll
<1>7. PointersOK' /\ ListsEnd' /\ NestingEnds' /\ \A h : Of(h)' = Of(h)
  BY <1>6, KeepLists DEF IInv, Poll
<1>8. TypeOK'
  <2>1. IsFiniteSet(results) /\ nreqs = Cardinality(results)
    BY DEF IInv, TypeOK
  <2>2. IsFiniteSet(results \ {r}) /\ Cardinality(results \ {r}) = nreqs - 1
    BY <1>2, <2>1, FS_RemoveElement
  <2> QED
    BY <1>2, <2>2 DEF IInv, TypeOK, Poll
<1>9. PlacesOK'
  BY <1>1, <1>2, <1>3, <1>4 DEF IInv, PlacesOK, Poll, MustWait
<1>10. MembersOK'
  <2>1. ~MustWait(r) => \A q \in Linked : grp[q] # r
    <3>1. ASSUME ~MustWait(r), NEW q \in Linked, grp[q] = r PROVE FALSE
      <4>1. r \in Groups /\ size[r] = 0
        BY <1>5, <3>1, ReqsFinite DEF IInv, TypeOK, GuardsRead, MustWait
      <4>2. Cardinality(Of(r)) = 0 /\ q \in Of(r)
        BY <3>1, <4>1 DEF IInv, MembersOK, Of
      <4> QED
        BY <4>2, ReqsFinite, FS_EmptySet DEF IInv
    <3> QED
      BY <3>1
  <2>2. \A q \in Linked : grp[q] \in alive \ Ended(stack)'
    BY <1>1, <1>4, <2>1 DEF IInv, MembersOK
  <2> QED
    BY <1>6, <1>7, <2>2 DEF IInv, MembersOK, Poll
<1>11. DelayedOK'
  BY <1>1, <1>3, <1>4 DEF IInv, DelayedOK, Poll, MustWait
<1>12. FeedOK'
  <2>1. \A h \in Groups : Wanting(h)' = Wanting(h)
    BY DEF Wanting, BelowLimit, Poll
  <2> QED
    BY <1>1, <1>4, <2>1 DEF IInv, FeedOK, Poll
<1> QED
  BY <1>4, <1>7, <1>8, <1>9, <1>10, <1>11, <1>12 DEF IInv

LEMMA UnlinkStep ==
  ASSUME IInv, NEW r \in Reqs, Unlink(r)
  PROVE  IInv'
<1> USE DEF queueVars, feedVars
<1>1. /\ r \notin Leaving(stack) /\ Ended(stack) = Leaving(stack) \cup {r}
      /\ Decs(stack) = {} /\ Feeds(stack) = {}
  BY StackUnlink DEF IInv, Unlink
<1>2. CASE grp[r] = No
  <2>1. /\ stack' = <<Frame("finish", r, "destroy")>> \o Caller /\ UNCHANGED listVars
        /\ UNCHANGED <<queueVars, alive, delayed, feedVars, cancelled>>
    BY <1>2 DEF Unlink
  <2>2. /\ StackOK(stack)' /\ Ended(stack)' = Ended(stack)
        /\ Leaving(stack)' = Ended(stack)
        /\ Decs(stack)' = {} /\ Feeds(stack)' = {}
    BY <2>1, StackUnlink DEF IInv, Unlink
  <2>3. GuardsRead /\ GuardsRead'
    BY <2>2, FinishingIs, FinishingNext DEF IInv
  <2>4. Linked' = Linked
    BY <1>1, <1>2, <2>1, <2>2, <2>3 DEF GuardsRead, listVars
  <2>5. PointersOK' /\ ListsEnd' /\ NestingEnds' /\ \A h : Of(h)' = Of(h)
    BY <2>1, <2>4, KeepLists DEF IInv, listVars
  <2>6. TypeOK'
    BY <2>1 DEF IInv, TypeOK, listVars
  <2>7. PlacesOK'
    BY <2>1, <2>2 DEF IInv, PlacesOK
  <2>8. MembersOK'
    BY <2>1, <2>2, <2>4, <2>5 DEF IInv, MembersOK, listVars
  <2>9. DelayedOK'
    BY <1>1, <2>1, <2>2 DEF IInv, DelayedOK, listVars
  <2>10. FeedOK'
    <3>1. \A h \in Groups : Wanting(h)' = Wanting(h)
      BY <2>1 DEF Wanting, BelowLimit, listVars
    <3> QED
      BY <1>1, <2>1, <2>2, <3>1 DEF IInv, FeedOK
  <2> QED
    BY <2>2, <2>5, <2>6, <2>7, <2>8, <2>9, <2>10 DEF IInv
<1>3. CASE grp[r] # No
  <2>1. PICK g \in Groups : g = grp[r]
    BY <1>3, UnlinkLists DEF IInv
  <2>2. /\ Linked' = Linked \ {r} /\ r \in Linked
        /\ PointersOK' /\ ListsEnd' /\ NestingEnds'
        /\ grp' = grp /\ g \in alive \ Ended(stack)
        /\ stack' = DecFrames(g) \o <<Frame("finish", r, "destroy")>> \o Caller
    BY <1>3, <2>1, UnlinkLists DEF IInv
  <2>3. /\ StackOK(stack)' /\ Ended(stack)' = Ended(stack)
        /\ Leaving(stack)' = Ended(stack)
        /\ Decs(stack)' = {g} /\ Feeds(stack)' = {g}
    BY <2>2, StackUnlink DEF IInv, Unlink
  <2>4. /\ prev' = IF next[r] # No THEN [prev EXCEPT ![next[r]] = prev[r]] ELSE prev
        /\ next' = IF prev[r] # No THEN [next EXCEPT ![prev[r]] = next[r]] ELSE next
        /\ first' = IF first[g] = r THEN [first EXCEPT ![g] = next[r]] ELSE first
        /\ size' = [size EXCEPT ![g] = @ - 1]
        /\ UNCHANGED <<queueVars, alive, delayed, feedVars, cancelled>>
    BY <1>3, <2>1 DEF Unlink, FirstWithout
  <2>5. Of(g)' = Of(g) \ {r} /\ r \in Of(g)
    BY <2>1, <2>2 DEF Of
  <2>6. \A h \in Groups \ {g} : Of(h)' = Of(h)
    BY <2>1, <2>2 DEF Of
  <2>7. \A h \in Groups : size[h] = Cardinality(Of(h)) /\ size[h] \in Nat
    BY DEF IInv, MembersOK, TypeOK
  <2>8. Cardinality(Of(g) \ {r}) = size[g] - 1 /\ size[g] - 1 \in Nat
    <3>1. IsFiniteSet(Of(g))
      BY ReqsFinite DEF IInv
    <3>2. Cardinality(Of(g) \ {r}) = Cardinality(Of(g)) - 1
      BY <2>5, <3>1, FS_RemoveElement
    <3>3. Cardinality(Of(g) \ {r}) \in Nat
      BY <3>1, FS_RemoveElement, FS_CardinalityType
    <3> QED
      BY <2>7, <3>2, <3>3
  <2>9. \A h \in Groups : size'[h] = IF h = g THEN size[g] - 1 ELSE size[h]
    BY <2>4 DEF IInv, TypeOK
  <2>10. TypeOK'
    BY <2>1, <2>2, <2>4, <2>8 DEF IInv, TypeOK
  <2>11. PlacesOK'
    BY <1>1, <2>2, <2>3, <2>4 DEF IInv, PlacesOK
  <2>12. MembersOK'
    <3>1. \A q \in Reqs \ alive' : grp'[q] = No
      BY <2>2, <2>4 DEF IInv, MembersOK
    <3>2. \A q \in Linked' : grp'[q] \in alive' \ Ended(stack)'
      BY <2>2, <2>3, <2>4 DEF IInv, MembersOK
    <3>3. \A h \in Groups : size'[h] = Cardinality(Of(h)')
      BY <2>5, <2>6, <2>7, <2>8, <2>9
    <3>4. ASSUME NEW h \in Groups PROVE size'[h] = Cardinality(Of(h))'
      BY <3>3
    <3> QED
      BY <3>1, <3>2, <3>4 DEF MembersOK
  <2>13. DelayedOK'
    BY <1>1, <2>3, <2>4, <2>9 DEF IInv, DelayedOK, PlacesOK
  <2>14. FeedOK'
    <3>1. \A h \in Groups \ {g} : Wanting(h)' = Wanting(h)
      BY <2>4, <2>9 DEF Wanting, BelowLimit
    <3> QED
      BY <1>1, <2>3, <2>4, <3>1 DEF IInv, FeedOK
  <2> QED
    BY <2>2, <2>3, <2>10, <2>11, <2>12, <2>13, <2>14 DEF IInv
<1> QED
  BY <1>2, <1>3

LEMMA GrpDecStep ==
  ASSUME IInv, NEW g, GrpDec(g)
  PROVE  IInv'
<1> USE DEF queueVars, listVars, feedVars
<1>1. /\ g \in Groups /\ g \notin Ended(stack) /\ Ended(stack) = Leaving(stack)
      /\ Decs(stack) = {g} /\ Feeds(stack) = {}
  BY StackDec DEF IInv, GrpDec
<1>2. /\ StackOK(stack)' /\ Leaving(stack)' = Leaving(stack)
      /\ Decs(stack)' = {} /\ Feeds(stack)' = {}
      /\ Ended(stack)' = IF Last(g) THEN Ended(stack) \cup {g} ELSE Ended(stack)
  BY StackDec DEF IInv, GrpDec
<1>3. GuardsRead /\ GuardsRead'
  BY <1>2, FinishingIs, FinishingNext DEF IInv
<1>4. Linked' = Linked
  BY <1>2, <1>3 DEF GuardsRead, GrpDec
<1>5. PointersOK' /\ ListsEnd' /\ NestingEnds' /\ \A h : Of(h)' = Of(h)
  BY <1>4, KeepLists DEF IInv, GrpDec
<1>6. TypeOK'
  BY DEF IInv, TypeOK, GrpDec
<1>7. PlacesOK'
  BY <1>1, <1>2 DEF IInv, PlacesOK, GrpDec, Last
<1>8. MembersOK'
  <2>1. Last(g) => \A q \in Linked : grp[q] # g
    <3>1. ASSUME Last(g), NEW q \in Linked, grp[q] = g PROVE FALSE
      <4>1. Cardinality(Of(g)) = 0 /\ q \in Of(g)
        BY <1>1, <3>1 DEF IInv, MembersOK, Of, Last
      <4> QED
        BY <4>1, ReqsFinite, FS_EmptySet DEF IInv
    <3> QED
      BY <3>1
  <2>2. \A q \in Linked : grp[q] \in alive \ Ended(stack)'
    BY <1>2, <2>1 DEF IInv, MembersOK
  <2> QED
    BY <1>4, <1>5, <2>2 DEF IInv, MembersOK, GrpDec
<1>9. DelayedOK'
  BY <1>1, <1>2 DEF IInv, DelayedOK, GrpDec, Last
<1>10. FeedOK'
  <2>1. \A h \in Groups : Wanting(h)' = Wanting(h)
    BY DEF Wanting, BelowLimit, GrpDec
  <2> QED
    BY <1>1, <1>2, <2>1 DEF IInv, FeedOK, GrpDec
<1> QED
  BY <1>2, <1>5, <1>6, <1>7, <1>8, <1>9, <1>10 DEF IInv

LEMMA DestroyStep ==
  ASSUME IInv, NEW r \in Reqs, Destroy(r)
  PROVE  IInv'
<1> USE DEF queueVars
<1>1. /\ Ended(stack) = Leaving(stack) /\ r \in Ended(stack)
      /\ Decs(stack) = {} /\ Feeds(stack) = {}
      /\ StackOK(stack)'
      /\ Ended(stack)' = Ended(stack) \ {r} /\ Leaving(stack)' = Leaving(stack) \ {r}
      /\ Decs(stack)' = {} /\ Feeds(stack)' = {}
  BY StackDestroy DEF IInv, Destroy
<1>2. GuardsRead /\ GuardsRead'
  BY <1>1, FinishingIs, FinishingNext DEF IInv
<1>3. r \notin Linked /\ Linked \subseteq Reqs
  BY <1>1, <1>2 DEF GuardsRead, IInv, TypeOK
<1>4. Linked' = Linked
  BY <1>1, <1>2 DEF GuardsRead, IInv, TypeOK, Destroy
<1>5. PointersOK' /\ ListsEnd' /\ NestingEnds' /\ \A h : Of(h)' = Of(h)
  <2>1. \A q \in Linked :
          grp'[q] = grp[q] /\ next'[q] = next[q] /\ prev'[q] = prev[q]
    BY <1>3 DEF IInv, TypeOK, Destroy
  <2> QED
    BY <1>4, <2>1, KeepLists DEF IInv, Destroy
<1>6. TypeOK'
  BY DEF IInv, TypeOK, Destroy
<1>7. PlacesOK'
  BY <1>1 DEF IInv, PlacesOK, Destroy
<1>8. MembersOK'
  <2>1. \A q \in Reqs \ alive' : grp'[q] = No
    BY DEF IInv, MembersOK, TypeOK, Destroy
  <2>2. ASSUME NEW q \in Linked PROVE grp[q] \in alive' \ Ended(stack)'
    <3>1. grp[q] \in alive \ Ended(stack)
      BY DEF IInv, MembersOK
    <3> QED
      BY <1>1, <3>1 DEF Destroy
  <2>3. \A q \in Linked' : grp'[q] \in alive' \ Ended(stack)'
    BY <1>3, <1>4, <2>2 DEF IInv, TypeOK, Destroy
  <2> QED
    BY <1>5, <2>1, <2>3 DEF IInv, MembersOK, Destroy
<1>9. DelayedOK'
  BY <1>1 DEF IInv, DelayedOK, Destroy
<1>10. FeedOK'
  <2>1. \A h \in Groups \ {r} : Wanting(h)' => Wanting(h)
    BY DEF IInv, TypeOK, Wanting, BelowLimit, Destroy
  <2>2. \A h \in Groups : feed'[h] <=> feed[h] /\ h # r
    BY DEF IInv, TypeOK, Destroy
  <2> QED
    BY <1>1, <2>1, <2>2 DEF IInv, FeedOK, Destroy
<1> QED
  BY <1>1, <1>5, <1>6, <1>7, <1>8, <1>9, <1>10 DEF IInv

LEMMA NextIInv == IInv /\ [Next]_vars => IInv'
<1> SUFFICES ASSUME IInv, [Next]_vars PROVE IInv'
  OBVIOUS
<1> USE DEF queueVars, listVars, feedVars
<1>1. ASSUME NEW r \in Reqs, Cancel(r) PROVE IInv'
  BY <1>1, QuietStep, SameStack DEF Cancel, IInv, SameFrames
<1>2. ASSUME NEW g \in Groups, GrpCancel(g) PROVE IInv'
  BY <1>2, QuietStep, SameStack DEF GrpCancel, IInv, SameFrames
<1>3. ASSUME NEW r \in Reqs, FinishStart(r) PROVE IInv'
  <2>1. SameFrames
    BY <1>3, StackRelabel DEF FinishStart, IInv
  <2> QED
    BY <1>3, <2>1, QuietStep DEF FinishStart
<1>4. ASSUME NEW r \in Reqs, CallbackReturns(r) PROVE IInv'
  <2>1. SameFrames
    BY <1>4, StackRelabel DEF CallbackReturns, IInv
  <2> QED
    BY <1>4, <2>1, QuietStep DEF CallbackReturns
<1>5. ASSUME NEW g \in Reqs, TryFeed(g) PROVE IInv'
  <2>1. SameFrames
    BY <1>5, StackFed DEF TryFeed, IInv
  <2> QED
    BY <1>5, <2>1, QuietStep DEF TryFeed
<1>6. ASSUME NEW g \in Reqs, TryFeedNothing(g) PROVE IInv'
  BY <1>6, FedStep DEF TryFeedNothing
<1>7. ASSUME NEW g \in Reqs, TryFeedDone(g) PROVE IInv'
  BY <1>7, FedStep DEF TryFeedDone
<1>8. ASSUME NEW g \in Reqs, FeederReturns(g) PROVE IInv'
  <2>1. CASE g \in added
    <3>1. SameFrames
      BY <1>8, <2>1, StackFed DEF FeederReturns, Feeding, IInv
    <3> QED
      BY <1>8, <2>1, <3>1, QuietStep DEF FeederReturns
  <2>2. CASE g \notin added
    BY <1>8, <2>2, FedStep DEF FeederReturns
  <2> QED
    BY <2>1, <2>2
<1>9. CASE UNCHANGED vars
  BY <1>9, QuietStep, SameStack DEF vars, IInv, SameFrames
<1> QED
  BY <1>1, <1>2, <1>3, <1>4, <1>5, <1>6, <1>7, <1>8, <1>9,
     SubmitStep, AddStep, FeedStep, PollStep, UnlinkStep, GrpDecStep, DestroyStep
     DEF Next, Library, Done

\* Every request is with the workers, delayed or being finished, the lists are
\* whole, and the C stack nests as eio_finish, grp_dec and grp_try_feed can.
THEOREM GroupInvariant == Spec => []IInv
BY InitIInv, NextIInv, PTL DEF Spec

-----------------------------------------------------------------------------
(***************************************************************************)
(* The properties.                                                         *)
(***************************************************************************)

\* The list that eio_grp_add and eio_finish keep holds exactly the members of a
\* group, in both directions, and size counts them, for lists of any length.
THEOREM GroupLists == Spec => []ListsMatch
<1>1. IInv => ListsMatch
  <2> SUFFICES ASSUME IInv PROVE ListsMatch
    OBVIOUS
  <2>1. ASSUME NEW g \in Groups PROVE ListOf(g) = Of(g)
    <3>1. Linked \subseteq Reqs
      BY DEF IInv, TypeOK, Linked
    <3>2. Of(g) \in SUBSET Reqs
      BY <3>1 DEF Of
    <3>3. first[g] \in Of(g) \cup {No}
      BY DEF IInv, PointersOK, Of
    <3>4. \A p \in Of(g) : next[p] \in Of(g) \cup {No}
      BY DEF IInv, PointersOK, Of
    <3>5. ListOf(g) \subseteq Of(g)
      BY <3>2, <3>3, <3>4 DEF ListOf, Chain
    <3>6. ASSUME NEW S \in SUBSET Reqs, first[g] \in S \cup {No},
                 \A p \in S : next[p] \in S \cup {No}
          PROVE  Of(g) \subseteq S
      <4> SUFFICES ASSUME Of(g) \ S # {} PROVE FALSE
        OBVIOUS
      <4>1. Of(g) \ S \in SUBSET Linked
        BY DEF Of
      <4>2. PICK t \in Of(g) \ S : prev[t] \notin Of(g) \ S
        BY <4>1 DEF IInv, ListsEnd
      <4>3. t \in Linked /\ grp[t] = g /\ t \in Reqs
        BY <3>1, <4>2 DEF Of
      <4>4. CASE prev[t] = No
        BY <3>6, <4>2, <4>3, <4>4, ReqsFinite DEF IInv, PointersOK
      <4>5. CASE prev[t] # No
        <5>1. prev[t] \in Linked /\ next[prev[t]] = t
          BY <4>3, <4>5 DEF IInv, PointersOK
        <5>2. prev[t] \in Of(g)
          BY <4>3, <5>1, ReqsFinite DEF IInv, PointersOK, Of
        <5>3. prev[t] \in S
          BY <4>2, <5>2
        <5> QED
          BY <3>6, <4>2, <4>3, <5>1, <5>3, ReqsFinite
      <4> QED
        BY <4>4, <4>5
    <3>7. Of(g) \subseteq ListOf(g)
      BY <3>2, <3>6 DEF ListOf, Chain
    <3> QED
      BY <3>5, <3>7
  <2> QED
    BY <2>1 DEF IInv, MembersOK, PointersOK, ListsMatch, Of
<1> QED
  BY <1>1, GroupInvariant, PTL

\* A group outlives its members: grp_dec never finishes a group some live
\* request still points to, and eio_poll none that has members.
THEOREM GroupMembersFirst == Spec => []MembersFirst
<1>1. IInv => MembersFirst
  BY FinishingIs DEF IInv, MembersOK, MembersFirst, GuardsRead, PlacesOK, TypeOK
<1> QED
  BY <1>1, GroupInvariant, PTL

\* No request is finished twice, and no frame of eio_finish, grp_dec or
\* grp_try_feed returns to a request that was destroyed meanwhile.
THEOREM GroupFramesLive == Spec => []FramesLive
<1>1. IInv => FramesLive
  <2> SUFFICES ASSUME IInv PROVE FramesLive
    OBVIOUS
  <2>1. \A i \in DOMAIN stack : stack[i] \in Frames
    BY DEF IInv, StackOK
  <2>2. ASSUME NEW i \in DOMAIN stack
        PROVE  /\ stack[i].req \in alive
               /\ stack[i].fn = "finish" => stack[i].req \notin results
    <3>1. stack[i].fn \in {"finish", "dec", "feed"}
      BY <2>1 DEF Frames
    <3>2. stack[i].req \in OfFn(stack, stack[i].fn)
      BY DEF OfFn
    <3> QED
      BY <3>1, <3>2 DEF IInv, PlacesOK, Ended, Decs, Feeds
  <2>3. ASSUME NEW i \in DOMAIN stack, NEW j \in DOMAIN stack,
               stack[i].fn = "finish", stack[j].fn = "finish", i # j
        PROVE  stack[i].req # stack[j].req
    <3>1. i \in Int /\ j \in Int
      BY DEF IInv, StackOK
    <3>2. i < j \/ j < i
      BY <2>3, <3>1
    <3> QED
      BY <2>3, <3>2 DEF IInv, StackOK
  <2> QED
    BY <2>2, <2>3 DEF FramesLive
<1> QED
  BY <1>1, GroupInvariant, PTL

\* flush may stop when eio_nreqs is 0, although delayed groups are not in it:
\* the last of their members finishes them before poll returns.
THEOREM GroupNoneLeft == Spec => []NoneLeftBehind
<1>1. IInv => NoneLeftBehind
  <2> SUFFICES ASSUME IInv, nreqs = 0, stack = <<>>, alive # {} PROVE FALSE
    BY DEF NoneLeftBehind
  <2>1. Ended(stack) = {} /\ Decs(stack) = {}
    BY StackPoll
  <2>2. results = {}
    BY FS_EmptySet DEF IInv, TypeOK
  <2>3. alive \subseteq delayed
    BY <2>1, <2>2 DEF IInv, PlacesOK
  <2>4. PICK t \in alive : \A q \in alive \cap Linked : grp[q] # t
    BY DEF IInv, TypeOK, NestingEnds
  <2>5. t \in Groups /\ size[t] # 0
    BY <2>1, <2>3, <2>4 DEF IInv, DelayedOK, PlacesOK
  <2>6. Of(t) = {}
    BY <2>4 DEF Of, Linked
  <2> QED
    BY <2>5, <2>6, FS_EmptySet DEF IInv, MembersOK
<1> QED
  BY <1>1, GroupInvariant, PTL

\* Whenever a group could take more requests and has a feeder, grp_try_feed is
\* at work for it: a finished member, a raised limit and a new feeder all lead
\* to the feeder, whatever is nested in it.
THEOREM GroupFed == Spec => []FeederFed
<1>1. IInv => FeederFed
  <2> SUFFICES ASSUME IInv, NEW g \in Groups, Open(g), feed[g], Wanting(g)
               PROVE  \E i \in DOMAIN stack : stack[i].fn = "feed" /\ stack[i].req = g
    BY DEF FeederFed
  <2>1. g \notin Ended(stack)
    BY FinishingIs, ReqsFinite DEF IInv, GuardsRead
  <2>2. g \in Feeds(stack)
    BY <2>1 DEF IInv, FeedOK
  <2> QED
    BY <2>2 DEF Feeds, OfFn
<1> QED
  BY <1>1, GroupInvariant, PTL
=============================================================================
