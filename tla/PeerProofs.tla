---------------------------- MODULE PeerProofs ----------------------------
(***************************************************************************)
(* Proofs about module Peer, for any Calls of both ends and any capacities *)
(* of the queues, the slots and the transport; and, in the last section,   *)
(* about one end of it that faces any remote (module PeerOpen).            *)
(***************************************************************************)
EXTENDS PeerOpen, FiniteSetTheorems, SequenceTheorems, TLAPS

\* The handler of a Call has not been started; it has queued its reply or
\* lost its end.
Fresh(c) == serving[c] = "none" /\ ~cancelled[c]
Over(c) == serving[c] = "replied" \/ (serving[c] = "none" /\ cancelled[c])

\* What the Calls know agrees with where their handlers are.
CallInv ==
  \A c \in Call :
    /\ pc[c] \in {"idle", "sending"} => Fresh(c)
    /\ pc[c] \notin {"returning", "returned"} => result[c] = "none"
    /\ answered[c] => Over(c)
    /\ result[c] \in {"reply", "acked"} => Over(c)

\* A frame on its way from s finds the other end as it should.
FrameOK(s, m) ==
  /\ m.kind = "request" =>
       /\ Caller[m.id] = s /\ Fresh(m.id)
       /\ pc[m.id] \notin {"idle", "sending"} /\ result[m.id] \notin {"limit", "unsent"}
  /\ m.kind = "cancel" => Caller[m.id] = s
  /\ m.kind = "reply" => Caller[m.id] # s /\ Over(m.id) /\ ~answered[m.id]

FramesOK(s, q) == \A i \in 1 .. Len(q) : FrameOK(s, q[i])

\* A request and a reply are sent once.
Unique(q) ==
  \A i, j \in 1 .. Len(q) :
    q[i].kind = q[j].kind /\ q[i].id = q[j].id /\ q[i].kind # "cancel" => i = j

Asked(q, n, c) == \E j \in 1 .. n : q[j].kind = "request" /\ q[j].id = c

CancelsBehind(q) ==
  \A i \in 1 .. Len(q) :
    q[i].kind = "cancel" /\ Fresh(q[i].id) => Asked(q, i - 1, q[i].id)

\* A request that has been sent is on its way until its handler starts.
Sent(s, q) ==
  \A c \in Call :
    Caller[c] = s /\ pc[c] \in {"waiting", "cancelling"} /\ Fresh(c)
      => Asked(q, Len(q), c)

SideOK(s) ==
  /\ FramesOK(s, InTransit(s))
  /\ Unique(InTransit(s))
  /\ ~done[Other(s)] => CancelsBehind(InTransit(s))
  /\ ~done[s] /\ ~done[Other(s)] => Sent(s, InTransit(s))

TransitInv == \A s \in Side : SideOK(s)

\* Behind its sweep a closed end has one frame at most to start a handler
\* from, and once it has there is none.
SweepInv ==
  \A s \in Side :
    /\ Len(hand[s]) <= 1
    /\ swept[s] => done[s]
    /\ \A c, d \in MissedByClose(s) : c = d
    /\ hand[s] # <<>> => MissedByClose(s) = {}

IInv ==
  TypeOK /\ SlotAccounting /\ CallInv /\ TransitInv /\ SweepInv /\ NeverDuplicates

USE PeerAssumption DEF connVars, queueVars, slotVars, callVars, handlerVars, vars

----------------------------------------------------------------------------
(* The two ends, and the frames on their way between them.                 *)

\* There is exactly one other end.
LEMMA OtherSide ==
  ASSUME NEW s \in Side
  PROVE  /\ Other(s) \in Side /\ Other(s) # s /\ Other(Other(s)) = s
         /\ \A t \in Side : t = s \/ t = Other(s)
<1>1. IsFiniteSet(Side \ {s}) /\ Cardinality(Side \ {s}) = 1
  BY FS_RemoveElement
<1>2. PICK o : Side \ {s} = {o}
  BY <1>1, FS_Singleton
<1>3. o \in Side /\ o # s /\ \A t \in Side : t = s \/ t = o
  BY <1>2
<1>4. Other(s) = o
  BY <1>3 DEF Other
<1>5. Other(o) = s
  BY <1>3 DEF Other
<1> QED
  BY <1>3, <1>4, <1>5

\* A frame added behind the last one.
LEMMA ConcatAppend ==
  ASSUME NEW S, NEW p \in Seq(S), NEW q \in Seq(S), NEW m \in S
  PROVE  p \o Append(q, m) = Append(p \o q, m)
<1>1. /\ Append(q, m) = q \o <<m>> /\ <<m>> \in Seq(S)
      /\ p \o q \in Seq(S) /\ Append(p \o q, m) = (p \o q) \o <<m>>
  BY AppendIsConcat, ConcatProperties
<1> QED
  BY <1>1, ConcatAssociative

\* A frame taken off one queue and put behind the one before it.
LEMMA MoveHead ==
  ASSUME NEW S, NEW p \in Seq(S), NEW q \in Seq(S), q # <<>>
  PROVE  Head(q) \in S /\ Tail(q) \in Seq(S) /\ Append(p, Head(q)) \o Tail(q) = p \o q
<1>1. Head(q) \in S /\ Tail(q) \in Seq(S) /\ <<Head(q)>> \in Seq(S)
  BY HeadTailProperties
<1>2. <<Head(q)>> \o Tail(q) = q
  <2>1. Len(q) \in Nat \ {0} /\ Len(Tail(q)) = Len(q) - 1
        /\ (\A i \in 1 .. Len(q) - 1 : Tail(q)[i] = q[i + 1]) /\ Head(q) = q[1]
    BY EmptySeq, HeadTailProperties
  <2>2. /\ <<Head(q)>> \o Tail(q) \in Seq(S)
        /\ Len(<<Head(q)>> \o Tail(q)) = Len(q)
        /\ \A i \in 1 .. Len(q) : (<<Head(q)>> \o Tail(q))[i] = q[i]
    BY <1>1, <2>1, ConcatProperties
  <2> QED
    BY <2>2, SeqEqual
<1>3. Append(p, Head(q)) = p \o <<Head(q)>>
  BY <1>1, AppendIsConcat
<1> QED
  BY <1>1, <1>2, <1>3, ConcatAssociative

\* The only frame of a queue taken off the ones behind it.
LEMMA TakeFirst ==
  ASSUME NEW S, NEW h \in Seq(S), NEW w \in Seq(S), NEW o \in Seq(S),
         h # <<>>, Len(h) <= 1,
         NEW p, p = (h \o w) \o o, NEW q, q = (<<>> \o w) \o o
  PROVE  /\ Len(q) \in Nat /\ Len(p) = Len(q) + 1 /\ p[1] = Head(h)
         /\ \A i \in 1 .. Len(q) : q[i] = p[i + 1]
<1>1. Len(h) = 1 /\ h[1] = Head(h)
  <2>1. Len(h) \in Nat \ {0}
    BY EmptySeq
  <2>2. \A n \in Nat \ {0} : n <= 1 => n = 1
    OBVIOUS
  <2>3. Len(h) = 1
    BY ONLY <2>1, <2>2, Len(h) <= 1
  <2> QED
    BY ONLY <2>3, h \in Seq(S)
<1>2. <<>> \o w = w /\ (h \o w) \o o = h \o (w \o o)
  BY ONLY ConcatEmptySeq, ConcatAssociative, h \in Seq(S), w \in Seq(S), o \in Seq(S)
<1>3. q = w \o o /\ p = h \o q /\ q \in Seq(S)
  BY <1>2, ConcatProperties
<1> DEFINE n == Len(q)
<1>4. n \in Nat
  BY <1>3, LenProperties
<1>5. /\ Len(p) = Len(h) + n
      /\ \A i \in 1 .. Len(h) + n : p[i] = IF i <= Len(h) THEN h[i] ELSE q[i - Len(h)]
  BY <1>3, ConcatProperties
<1>6. Len(p) = 1 + n /\ \A i \in 1 .. 1 + n : p[i] = IF i <= 1 THEN h[i] ELSE q[i - 1]
  BY <1>1, <1>5
<1> HIDE DEF n
<1>7. Len(p) = n + 1 /\ p[1] = h[1] /\ \A i \in 1 .. n : q[i] = p[i + 1]
  BY ONLY <1>4, <1>6
<1> QED
  BY <1>1, <1>4, <1>7 DEF n

\* What is on its way in terms of the three queues it passes.
LEMMA Transit ==
  ASSUME TypeOK, NEW s \in Side
  PROVE  /\ InTransit(s) \in Seq(Frame)
         /\ hand[Other(s)] \in Seq(Frame) /\ wire[s] \in Seq(Frame) /\ out[s] \in Seq(Frame)
         /\ hand[Other(s)] \o wire[s] \in Seq(Frame)
         /\ done[s] => InTransit(s) = hand[Other(s)] \o wire[s]
         /\ ~done[s] => InTransit(s) = (hand[Other(s)] \o wire[s]) \o out[s]
<1>1. hand[Other(s)] \in Seq(Frame) /\ wire[s] \in Seq(Frame) /\ out[s] \in Seq(Frame)
  BY OtherSide DEF TypeOK
<1>2. hand[Other(s)] \o wire[s] \in Seq(Frame)
  BY <1>1, ConcatProperties
<1>3. done[s] => InTransit(s) = hand[Other(s)] \o wire[s]
  BY <1>2, ConcatEmptySeq DEF InTransit
<1>4. ~done[s] => InTransit(s) = (hand[Other(s)] \o wire[s]) \o out[s]
  BY DEF InTransit
<1>5. InTransit(s) \in Seq(Frame)
  BY <1>1, <1>2, <1>3, <1>4, ConcatProperties
<1> QED
  BY <1>1, <1>2, <1>3, <1>4, <1>5

\* Steps that move nothing, move a frame on, add one, take one away or close.
LEMMA TransitSame ==
  ASSUME NEW s \in Side, TypeOK, UNCHANGED <<hand, wire>>, done'[s] = done[s],
         ~done[s] => out'[s] = out[s]
  PROVE  InTransit(s)' = InTransit(s)
BY DEF InTransit, Other

\* The write loop moves a frame on: what is in transit is the same.
LEMMA TransitWritten ==
  ASSUME NEW s \in Side, TypeOK, TypeOK', out[s] # <<>>,
         hand' = hand, done' = done, ~done[s],
         out'[s] = Tail(out[s]), wire'[s] = Append(wire[s], Head(out[s]))
  PROVE  InTransit(s)' = InTransit(s)
<1> DEFINE h == hand[Other(s)]
           w == wire[s]
           o == out[s]
<1>1. h \in Seq(Frame) /\ w \in Seq(Frame) /\ o \in Seq(Frame) /\ h \o w \in Seq(Frame)
  BY Transit
<1>2. InTransit(s)' = (h \o Append(w, Head(o))) \o Tail(o) /\ InTransit(s) = (h \o w) \o o
  BY DEF InTransit, Other
<1>0. o # <<>>
  OBVIOUS
<1> HIDE DEF h, w, o
<1>3. Head(o) \in Frame
  BY <1>0, <1>1, HeadTailProperties
<1>4. h \o Append(w, Head(o)) = Append(h \o w, Head(o))
  BY <1>1, <1>3, ConcatAppend
<1>5. Append(h \o w, Head(o)) \o Tail(o) = (h \o w) \o o
  BY <1>0, <1>1, MoveHead
<1> QED
  BY <1>2, <1>4, <1>5

\* The reader takes a frame in hand: what is in transit is the same.
LEMMA TransitRead ==
  ASSUME NEW s \in Side, TypeOK, wire[s] # <<>>, hand[Other(s)] = <<>>,
         out' = out, done' = done,
         hand'[Other(s)] = <<Head(wire[s])>>, wire'[s] = Tail(wire[s])
  PROVE  InTransit(s)' = InTransit(s)
<1>1. wire[s] \in Seq(Frame) /\ <<>> \in Seq(Frame)
  BY Transit, EmptySeq
<1>2. Append(<<>>, Head(wire[s])) \o Tail(wire[s]) = <<>> \o wire[s]
  BY <1>1, MoveHead
<1>3. <<Head(wire[s])>> = Append(<<>>, Head(wire[s]))
  OBVIOUS
<1> QED
  BY <1>2, <1>3 DEF InTransit, Other

\* A queued frame is the last one in transit.
LEMMA TransitAdded ==
  ASSUME NEW s \in Side, TypeOK, NEW m \in Frame, UNCHANGED <<hand, wire, done>>, ~done[s],
         out'[s] = Append(out[s], m)
  PROVE  InTransit(s)' = Append(InTransit(s), m)
<1> DEFINE p == hand[Other(s)] \o wire[s]
<1>1. InTransit(s)' = p \o Append(out[s], m)
  BY DEF InTransit, Other
<1>2. p \in Seq(Frame) /\ out[s] \in Seq(Frame) /\ InTransit(s) = p \o out[s]
  BY Transit
<1> HIDE DEF p
<1> QED
  BY <1>1, <1>2, ConcatAppend

\* A peer that closes loses what it queued: a prefix stays in transit.
LEMMA TransitClosed ==
  ASSUME NEW s \in Side, TypeOK, done'[s],
         hand'[Other(s)] = hand[Other(s)], wire'[s] = wire[s]
  PROVE  /\ Len(InTransit(s)') <= Len(InTransit(s)) /\ Len(InTransit(s)') \in Nat
         /\ \A i \in 1 .. Len(InTransit(s)') : InTransit(s)'[i] = InTransit(s)[i]
<1> DEFINE p == hand[Other(s)] \o wire[s]
<1>1. p \in Seq(Frame) /\ out[s] \in Seq(Frame)
  BY Transit
<1>2. InTransit(s)' = p
  BY <1>1, ConcatEmptySeq DEF InTransit, Other
<1>3. InTransit(s) = p \/ InTransit(s) = p \o out[s]
  BY <1>1, ConcatEmptySeq DEF InTransit
<1> HIDE DEF p
<1>4. /\ Len(p) \in Nat /\ Len(out[s]) \in Nat /\ Len(p \o out[s]) = Len(p) + Len(out[s])
      /\ \A i \in 1 .. Len(p) : (p \o out[s])[i] = p[i]
  <2>1. Len(p) \in Nat /\ Len(out[s]) \in Nat
    BY <1>1, LenProperties
  <2> QED
    BY <1>1, <2>1, ConcatProperties
<1> QED
  BY <1>2, <1>3, <1>4

\* The frame that is dispatched was the first in transit; the rest moves up.
LEMMA TransitTaken ==
  ASSUME NEW s \in Side, TypeOK, UNCHANGED <<wire, out>>, done'[s] = done[s],
         Len(hand[Other(s)]) <= 1, hand[Other(s)] # <<>>, hand'[Other(s)] = <<>>
  PROVE  /\ Len(InTransit(s)') \in Nat /\ Len(InTransit(s)) = Len(InTransit(s)') + 1
         /\ InTransit(s)[1] = Head(hand[Other(s)])
         /\ \A i \in 1 .. Len(InTransit(s)') : InTransit(s)'[i] = InTransit(s)[i + 1]
<1>1. /\ hand[Other(s)] \in Seq(Frame) /\ wire[s] \in Seq(Frame)
      /\ (IF done[s] THEN <<>> ELSE out[s]) \in Seq(Frame)
  BY Transit, EmptySeq
<1>2. /\ InTransit(s) = (hand[Other(s)] \o wire[s]) \o (IF done[s] THEN <<>> ELSE out[s])
      /\ InTransit(s)' = (<<>> \o wire[s]) \o (IF done[s] THEN <<>> ELSE out[s])
  BY DEF InTransit, Other
<1> DEFINE h == hand[Other(s)]
           w == wire[s]
           o == IF done[s] THEN <<>> ELSE out[s]
           p == InTransit(s)
           q == InTransit(s)'
<1>3. h \in Seq(Frame) /\ w \in Seq(Frame) /\ o \in Seq(Frame) /\ h # <<>> /\ Len(h) <= 1
  BY <1>1
<1>4. p = (h \o w) \o o /\ q = (<<>> \o w) \o o
  BY <1>2
<1> SUFFICES /\ Len(q) \in Nat /\ Len(p) = Len(q) + 1 /\ p[1] = Head(h)
             /\ \A i \in 1 .. Len(q) : q[i] = p[i + 1]
  OBVIOUS
<1> HIDE DEF h, w, o, p, q
<1> QED
  BY ONLY <1>3, <1>4, TakeFirst

----------------------------------------------------------------------------
(* What keeps the frames on their way in order.                            *)

\* A step that starts no handler of a Call of s and delivers no reply from s.
Steady(s) ==
  /\ \A t \in Side : done[t] => done'[t]
  /\ \A c \in Call :
       /\ Caller[c] = s => (Fresh(c)' <=> Fresh(c))
       /\ Caller[c] # s /\ answered'[c] => answered[c]
       /\ Over(c) => Over(c)'
       /\ pc[c] \notin {"idle", "sending"} => pc'[c] \notin {"idle", "sending"}
       /\ pc[c] \notin {"idle", "sending"} /\ result'[c] \in {"limit", "unsent"}
            => result[c] \in {"limit", "unsent"}

\* No Call of s has sent its request in this step.
NoneSends(s) ==
  \A c \in Call : Caller[c] = s /\ pc'[c] \in {"waiting", "cancelling"}
                    => pc[c] \in {"waiting", "cancelling"}

\* Every frame on its way is one.
LEMMA TransitFrames ==
  ASSUME NEW s \in Side, TypeOK
  PROVE  /\ Len(InTransit(s)) \in Nat
         /\ \A i \in 1 .. Len(InTransit(s)) :
              /\ InTransit(s)[i] \in Frame
              /\ InTransit(s)[i].id \in Call
              /\ InTransit(s)[i].kind \in {"request", "cancel", "reply"}
<1>1. InTransit(s) \in Seq(Frame)
  BY Transit
<1> DEFINE q == InTransit(s)
<1> HIDE DEF q
<1>2. Len(q) \in Nat /\ \A i \in 1 .. Len(q) : q[i] \in Frame
  BY <1>1, LenProperties, ElementOfSeq DEF q
<1> QED
  BY <1>2 DEF q, Frame

\* Such a step keeps what is left of the frames on their way, whole or cut off
\* by a close.
LEMMA SteadyCut ==
  ASSUME NEW s \in Side, TypeOK, SideOK(s), Steady(s),
         Len(InTransit(s)') <= Len(InTransit(s)), Len(InTransit(s)') \in Nat,
         \A i \in 1 .. Len(InTransit(s)') : InTransit(s)'[i] = InTransit(s)[i],
         done'[s] \/ (Len(InTransit(s)') = Len(InTransit(s)) /\ NoneSends(s))
  PROVE  SideOK(s)'
<1> DEFINE q == InTransit(s)
           r == InTransit(s)'
<1>1. Len(q) \in Nat /\ \A i \in 1 .. Len(q) : q[i] \in Frame /\ q[i].id \in Call
  BY TransitFrames
<1>2. Len(r) \in Nat /\ Len(r) <= Len(q) /\ \A i \in 1 .. Len(r) : r[i] = q[i]
  OBVIOUS
<1>3. \A i \in 1 .. Len(r) : i \in 1 .. Len(q) /\ r[i] = q[i] /\ q[i].id \in Call
  BY ONLY <1>1, <1>2
<1>4. FramesOK(s, q) /\ Unique(q) /\ (~done[Other(s)] => CancelsBehind(q))
  BY DEF SideOK
<1>5. ~done'[s] => (~done[s] /\ ~done'[Other(s)] => Sent(s, q)) /\ NoneSends(s) /\ Len(r) = Len(q)
  BY OtherSide DEF SideOK, Steady
<1>6. ~done'[Other(s)] => ~done[Other(s)]
  BY OtherSide DEF Steady
<1>7. ~done'[s] => ~done[s]
  BY DEF Steady
<1> HIDE DEF q, r
<1>8. ASSUME NEW i \in 1 .. Len(r), NEW m, r[i] = m
      PROVE  FrameOK(s, m)'
  BY ONLY <1>3, <1>4, <1>8, Steady(s) DEF FramesOK, FrameOK, Steady
<1>9. Unique(r)
  BY ONLY <1>3, <1>4 DEF Unique
<1>10. ASSUME ~done'[Other(s)], NEW i \in 1 .. Len(r), r[i].kind = "cancel",
              NEW c, r[i].id = c, Fresh(c)'
       PROVE  \E j \in 1 .. i - 1 : r[j].kind = "request" /\ r[j].id = r[i].id
  <2>1. Fresh(q[i].id) /\ q[i].kind = "cancel"
    BY ONLY <1>3, <1>4, <1>10, Steady(s) DEF Steady, FramesOK, FrameOK
  <2>2. PICK j \in 1 .. i - 1 : q[j].kind = "request" /\ q[j].id = q[i].id
    BY ONLY <1>3, <1>4, <1>6, <1>10, <2>1 DEF CancelsBehind, Asked
  <2>3. j \in 1 .. Len(r)
    BY <1>2, <2>2
  <2> QED
    BY ONLY <1>3, <2>2, <2>3
<1>11. ASSUME ~done'[s], ~done'[Other(s)], NEW c \in Call, Caller[c] = s,
              pc'[c] \in {"waiting", "cancelling"}, Fresh(c)'
       PROVE  \E j \in 1 .. Len(r) : r[j].kind = "request" /\ r[j].id = c
  <2>1. pc[c] \in {"waiting", "cancelling"} /\ Fresh(c)
    BY <1>5, <1>11 DEF NoneSends, Steady
  <2> QED
    BY ONLY <1>3, <1>5, <1>7, <1>11, <2>1 DEF Sent, Asked
<1>12. FramesOK(s, InTransit(s))'
  BY <1>8 DEF FramesOK, FrameOK, Fresh, Over, r
<1>13. Unique(InTransit(s))'
  BY <1>9 DEF Unique, r
<1>14. (~done[Other(s)] => CancelsBehind(InTransit(s)))'
  BY <1>10 DEF CancelsBehind, Asked, Fresh, Other, r
<1>15. (~done[s] /\ ~done[Other(s)] => Sent(s, InTransit(s)))'
  BY <1>11 DEF Sent, Asked, Other, r
<1> QED
  BY <1>12, <1>13, <1>14, <1>15 DEF SideOK

\* And it keeps them when it adds a frame that finds the other end as it should.
LEMMA SteadyAdded ==
  ASSUME NEW s \in Side, TypeOK, SideOK(s), Steady(s), NEW m \in Frame,
         InTransit(s)' = Append(InTransit(s), m), done' = done,
         FrameOK(s, m)',
         m.kind # "cancel" => \A i \in 1 .. Len(InTransit(s)) :
           ~(InTransit(s)[i].kind = m.kind /\ InTransit(s)[i].id = m.id),
         m.kind = "cancel" /\ ~done[s] /\ ~done[Other(s)] /\ Fresh(m.id)
           => Asked(InTransit(s), Len(InTransit(s)), m.id),
         ~done[s],
         \A c \in Call :
           Caller[c] = s /\ pc'[c] \in {"waiting", "cancelling"}
             => pc[c] \in {"waiting", "cancelling"} \/ (m.kind = "request" /\ m.id = c)
  PROVE  SideOK(s)'
<1> DEFINE q == InTransit(s)
           r == InTransit(s)'
           n == Len(q)
<1>1. n \in Nat /\ \A i \in 1 .. n : q[i] \in Frame /\ q[i].id \in Call
  BY TransitFrames
<1>2. Len(r) = n + 1 /\ r[n + 1] = m /\ \A i \in 1 .. n : r[i] = q[i]
  BY Transit, AppendProperties
<1>3. m.id \in Call
  BY DEF Frame
<1>4. FramesOK(s, q) /\ Unique(q) /\ (~done[Other(s)] => CancelsBehind(q))
      /\ (~done[Other(s)] => Sent(s, q))
  BY DEF SideOK
<1>5. /\ m.kind # "cancel" => \A i \in 1 .. n : ~(q[i].kind = m.kind /\ q[i].id = m.id)
      /\ m.kind = "cancel" /\ ~done[Other(s)] /\ Fresh(m.id) => Asked(q, n, m.id)
      /\ FrameOK(s, m)' /\ Steady(s)
  OBVIOUS
<1>6. \A c \in Call : Caller[c] = s /\ pc'[c] \in {"waiting", "cancelling"}
        => pc[c] \in {"waiting", "cancelling"} \/ (m.kind = "request" /\ m.id = c)
  OBVIOUS
<1>7. done' = done
  OBVIOUS
<1>0. Len(q) = n
  OBVIOUS
<1> HIDE DEF n, q, r
<1>8. \A i \in 1 .. Len(r) : i \in 1 .. n \/ i = n + 1
  BY ONLY <1>1, <1>2
<1>9. ASSUME NEW i \in 1 .. Len(r), NEW f, r[i] = f
      PROVE  FrameOK(s, f)'
  <2>1. CASE i \in 1 .. n
    BY ONLY <2>1, <1>0, <1>1, <1>2, <1>4, <1>5, <1>9 DEF FramesOK, FrameOK, Steady
  <2>2. CASE i = n + 1
    BY ONLY <2>2, <1>2, <1>5, <1>9
  <2> QED
    BY <1>8, <2>1, <2>2
<1>10. Unique(r)
  <2>1. \A i \in 1 .. Len(r) : (i \in 1 .. n /\ r[i] = q[i]) \/ (i = n + 1 /\ r[i] = m)
    BY ONLY <1>2, <1>8
  <2>2. \A i, j \in 1 .. n :
          q[i].kind = q[j].kind /\ q[i].id = q[j].id /\ q[i].kind # "cancel" => i = j
    BY ONLY <1>0, <1>4 DEF Unique, n
  <2> QED
    BY ONLY <2>1, <2>2, <1>5 DEF Unique
<1>11. ASSUME ~done[Other(s)], NEW i \in 1 .. Len(r), r[i].kind = "cancel",
              NEW c, r[i].id = c, Fresh(c)'
       PROVE  \E j \in 1 .. i - 1 : r[j].kind = "request" /\ r[j].id = c
  <2>1. CASE i \in 1 .. n
    <3>1. Fresh(q[i].id) /\ q[i].kind = "cancel" /\ q[i].id = c
      BY ONLY <1>0, <1>1, <1>2, <1>4, <1>5, <1>11, <2>1 DEF Steady, FramesOK, FrameOK
    <3>2. PICK j \in 1 .. i - 1 : q[j].kind = "request" /\ q[j].id = q[i].id
      BY ONLY <1>0, <1>4, <1>11, <2>1, <3>1 DEF CancelsBehind, Asked
    <3>3. j \in 1 .. n
      BY <1>1, <2>1, <3>2
    <3> QED
      BY ONLY <1>2, <3>1, <3>2, <3>3
  <2>2. CASE i = n + 1
    <3>1. m.kind = "cancel" /\ m.id = c /\ Fresh(m.id)
      BY ONLY <1>2, <1>3, <1>5, <1>11, <2>2 DEF Steady, FrameOK
    <3>2. PICK j \in 1 .. n : q[j].kind = "request" /\ q[j].id = c
      BY ONLY <1>5, <1>11, <3>1 DEF Asked
    <3>3. j \in 1 .. i - 1
      BY ONLY <1>1, <2>2, <3>2
    <3> QED
      BY ONLY <1>2, <3>2, <3>3
  <2> QED
    BY <1>8, <2>1, <2>2
<1>12. ASSUME ~done[Other(s)], NEW c \in Call, Caller[c] = s,
              pc'[c] \in {"waiting", "cancelling"}, Fresh(c)'
       PROVE  \E j \in 1 .. Len(r) : r[j].kind = "request" /\ r[j].id = c
  <2>1. Fresh(c)
    BY <1>5, <1>12 DEF Steady
  <2>2. CASE pc[c] \in {"waiting", "cancelling"}
    <3>1. PICK j \in 1 .. n : q[j].kind = "request" /\ q[j].id = c
      BY ONLY <1>4, <1>12, <2>1, <2>2 DEF Sent, Asked, n
    <3>2. j \in 1 .. Len(r)
      BY ONLY <1>1, <1>2, <3>1
    <3> QED
      BY ONLY <1>2, <3>1, <3>2
  <2>3. CASE m.kind = "request" /\ m.id = c
    <3>1. n + 1 \in 1 .. Len(r)
      BY ONLY <1>1, <1>2
    <3> QED
      BY ONLY <1>2, <2>3, <3>1
  <2> QED
    BY <1>6, <1>12, <2>2, <2>3
<1>13. FramesOK(s, InTransit(s))'
  BY <1>9 DEF FramesOK, FrameOK, Fresh, Over, r
<1>14. Unique(InTransit(s))'
  BY <1>10 DEF Unique, r
<1>15. (~done[Other(s)] => CancelsBehind(InTransit(s)))'
  BY <1>7, <1>11 DEF CancelsBehind, Asked, Fresh, Other, r
<1>16. (~done[s] /\ ~done[Other(s)] => Sent(s, InTransit(s)))'
  BY <1>7, <1>12 DEF Sent, Asked, Other, r
<1> QED
  BY <1>13, <1>14, <1>15, <1>16 DEF SideOK

\* The reader of the other end takes the first of the frames from s: if it goes
\* on it has started the handler of a request, or delivered a reply, and no
\* frame behind it is for the same handler or waiter.
LEMMA Taken ==
  ASSUME NEW s \in Side, TypeOK, SideOK(s), NEW m \in Frame, InTransit(s)[1] = m,
         Len(InTransit(s)') \in Nat, Len(InTransit(s)) = Len(InTransit(s)') + 1,
         \A i \in 1 .. Len(InTransit(s)') : InTransit(s)'[i] = InTransit(s)[i + 1],
         UNCHANGED <<pc, result>>,
         done'[s] = done[s], done[Other(s)] => done'[Other(s)],
         \A c \in Call :
           /\ Fresh(c)' => Fresh(c)
           /\ Fresh(c) /\ ~Fresh(c)' => m.kind = "request" /\ m.id = c
           /\ Over(c) => Over(c)'
           /\ answered'[c] /\ ~answered[c] => m.kind = "reply" /\ m.id = c,
         m.kind = "request" /\ ~done'[Other(s)] => ~Fresh(m.id)'
  PROVE  SideOK(s)'
<1> DEFINE q == InTransit(s)
           r == InTransit(s)'
           n == Len(r)
<1>1. n \in Nat /\ Len(q) = n + 1 /\ q[1] = m /\ \A i \in 1 .. n : r[i] = q[i + 1]
  OBVIOUS
<1>2. \A i \in 1 .. n + 1 : q[i] \in Frame /\ q[i].id \in Call
  BY TransitFrames
<1>3. FramesOK(s, q) /\ Unique(q) /\ (~done[Other(s)] => CancelsBehind(q))
      /\ (~done[s] /\ ~done[Other(s)] => Sent(s, q))
  BY DEF SideOK
<1>4. \A c \in Call :
        /\ Fresh(c)' => Fresh(c)
        /\ Fresh(c) /\ ~Fresh(c)' => m.kind = "request" /\ m.id = c
        /\ Over(c) => Over(c)'
        /\ answered'[c] /\ ~answered[c] => m.kind = "reply" /\ m.id = c
  OBVIOUS
<1>5. UNCHANGED <<pc, result>> /\ done'[s] = done[s] /\ (~done'[Other(s)] => ~done[Other(s)])
      /\ (m.kind = "request" /\ ~done'[Other(s)] => ~Fresh(m.id)')
  OBVIOUS
<1> HIDE DEF n, q, r
<1>6. \A i \in 1 .. n : i + 1 \in 1 .. n + 1 /\ i + 1 # 1 /\ r[i] = q[i + 1]
  BY ONLY <1>1
<1>7. \A i \in 1 .. n : q[i + 1].kind = m.kind /\ q[i + 1].id = m.id => m.kind = "cancel"
  <2>1. 1 \in 1 .. n + 1
    BY ONLY <1>1
  <2> QED
    BY ONLY <1>1, <1>3, <1>6, <2>1 DEF Unique
<1>8. ASSUME NEW i \in 1 .. n, NEW f, r[i] = f
      PROVE  FrameOK(s, f)'
  <2>1. FrameOK(s, f) /\ f.id \in Call /\ (f.kind = m.kind /\ f.id = m.id => m.kind = "cancel")
    BY ONLY <1>1, <1>2, <1>3, <1>6, <1>7, <1>8 DEF FramesOK
  <2> QED
    BY ONLY <1>4, <1>5, <2>1 DEF FrameOK
<1>9. ASSUME NEW i \in 1 .. n, NEW j \in 1 .. n,
             r[i].kind = r[j].kind, r[i].id = r[j].id, r[i].kind # "cancel"
      PROVE  i = j
  <2>1. i + 1 = j + 1
    BY ONLY <1>1, <1>3, <1>6, <1>9 DEF Unique
  <2> QED
    BY ONLY <1>1, <2>1
<1>10. ASSUME NEW k \in 1 .. n + 1, NEW c \in Call, ~done'[Other(s)], Fresh(c)',
              q[k].kind = "request", q[k].id = c
       PROVE  k - 1 \in 1 .. n /\ r[k - 1] = q[k]
  <2>1. k # 1
    BY ONLY <1>1, <1>5, <1>10
  <2>2. k - 1 \in 1 .. n /\ (k - 1) + 1 = k
    BY ONLY <1>1, <2>1
  <2> QED
    BY ONLY <1>6, <2>2
<1>11. ASSUME ~done'[Other(s)], NEW i \in 1 .. n, r[i].kind = "cancel",
              NEW c, r[i].id = c, Fresh(c)'
       PROVE  \E j \in 1 .. i - 1 : r[j].kind = "request" /\ r[j].id = c
  <2>1. c \in Call /\ Fresh(c) /\ q[i + 1].kind = "cancel" /\ q[i + 1].id = c
    BY ONLY <1>2, <1>4, <1>6, <1>11
  <2>2. PICK k \in 1 .. (i + 1) - 1 : q[k].kind = "request" /\ q[k].id = c
    BY ONLY <1>1, <1>3, <1>5, <1>6, <1>11, <2>1 DEF CancelsBehind, Asked
  <2>3. k \in 1 .. n + 1
    BY ONLY <1>1, <2>2
  <2>4. k - 1 \in 1 .. n /\ r[k - 1] = q[k]
    BY ONLY <1>10, <1>11, <2>1, <2>2, <2>3
  <2>5. k - 1 \in 1 .. i - 1
    BY ONLY <1>1, <2>2, <2>4
  <2> QED
    BY ONLY <2>2, <2>4, <2>5
<1>12. ASSUME ~done'[s], ~done'[Other(s)], NEW c \in Call, Caller[c] = s,
              pc'[c] \in {"waiting", "cancelling"}, Fresh(c)'
       PROVE  \E j \in 1 .. n : r[j].kind = "request" /\ r[j].id = c
  <2>1. Fresh(c)
    BY ONLY <1>4, <1>12
  <2>2. PICK k \in 1 .. n + 1 : q[k].kind = "request" /\ q[k].id = c
    BY ONLY <1>1, <1>3, <1>5, <1>12, <2>1 DEF Sent, Asked
  <2>3. k - 1 \in 1 .. n /\ r[k - 1] = q[k]
    BY ONLY <1>10, <1>12, <2>2
  <2> QED
    BY ONLY <2>2, <2>3
<1>13. FramesOK(s, InTransit(s))'
  BY <1>8 DEF FramesOK, FrameOK, Fresh, Over, n, r
<1>14. Unique(InTransit(s))'
  BY <1>9 DEF Unique, n, r
<1>15. (~done[Other(s)] => CancelsBehind(InTransit(s)))'
  BY <1>11 DEF CancelsBehind, Asked, Fresh, Other, n, r
<1>16. (~done[s] /\ ~done[Other(s)] => Sent(s, InTransit(s)))'
  BY <1>12 DEF Sent, Asked, Other, n, r
<1> QED
  BY <1>13, <1>14, <1>15, <1>16 DEF SideOK

----------------------------------------------------------------------------
(* Types and the state of the Calls, action by action.                     *)

\* The peers start in the invariant.
LEMMA InitIInv == Init => IInv
<1> SUFFICES ASSUME Init PROVE IInv
  OBVIOUS
<1>1. TypeOK
  BY EmptySeq DEF Init, TypeOK, Causes
<1>2. SlotAccounting
  <2>1. \A s \in Side : Active(s) = {}
    BY DEF Init, Active
  <2>2. \A s \in Side : slots[s] = 0 /\ releasing[s] = 0
    BY DEF Init
  <2>3. Cardinality({}) = 0
    BY FS_EmptySet
  <2> QED
    BY <2>1, <2>2, <2>3 DEF SlotAccounting
<1>3. CallInv
  BY DEF Init, CallInv, Fresh
<1>4. TransitInv
  <2> SUFFICES ASSUME NEW s \in Side PROVE SideOK(s)
    BY DEF TransitInv
  <2>1. InTransit(s) = <<>>
    BY OtherSide, EmptySeq, ConcatEmptySeq DEF Init, InTransit
  <2>2. Len(InTransit(s)) = 0
    BY <2>1, EmptySeq
  <2> QED
    BY <2>2 DEF Init, SideOK, FramesOK, Unique, CancelsBehind, Sent
<1>5. SweepInv
  BY EmptySeq DEF Init, SweepInv, MissedByClose
<1> QED
  BY <1>1, <1>2, <1>3, <1>4, <1>5 DEF IInv, Init, NeverDuplicates

\* A finite number of handlers runs at either end.
LEMMA ActiveFinite ==
  ASSUME NEW s \in Side
  PROVE  IsFiniteSet(Active(s)) /\ Cardinality(Active(s)) \in Nat
<1>1. Active(s) \subseteq Call
  BY DEF Active
<1> QED
  BY <1>1, FS_Subset, FS_CardinalityType

\* The first frame of a queue is a frame, and so is what is behind it a queue.
LEMMA QueueTypes ==
  ASSUME TypeOK, NEW s \in Side
  PROVE  /\ \A m \in Frame : Append(out[s], m) \in Seq(Frame) /\ Append(wire[s], m) \in Seq(Frame)
         /\ \A m \in Frame : <<m>> \in Seq(Frame) /\ Len(<<m>>) = 1
         /\ out[s] # <<>> => Head(out[s]) \in Frame /\ Tail(out[s]) \in Seq(Frame)
         /\ wire[s] # <<>> => Head(wire[s]) \in Frame /\ Tail(wire[s]) \in Seq(Frame)
         /\ hand[s] # <<>> => Head(hand[s]) \in Frame
         /\ <<>> \in Seq(Frame) /\ Len(<<>>) = 0
<1>1. out[s] \in Seq(Frame) /\ wire[s] \in Seq(Frame) /\ hand[s] \in Seq(Frame)
  BY DEF TypeOK
<1>2. \A m \in Frame : Append(out[s], m) \in Seq(Frame) /\ Append(wire[s], m) \in Seq(Frame)
  BY <1>1, AppendProperties
<1>3. \A m \in Frame : <<m>> \in Seq(Frame) /\ Len(<<m>>) = 1
  OBVIOUS
<1> QED
  BY <1>1, <1>2, <1>3, HeadTailProperties, EmptySeq

\* A frame that is queued is one, and it is put at the end of the queue.
LEMMA Enqueued ==
  ASSUME TypeOK, NEW s \in Side, NEW c \in Call, NEW k \in {"request", "cancel", "reply"},
         NEW b \in Body, Enqueue(s, k, c, b)
  PROVE  \E m \in Frame :
           /\ m.kind = k /\ m.id = c
           /\ out' \in [Side -> Seq(Frame)] /\ out'[s] = Append(out[s], m)
           /\ \A t \in Side : t # s => out'[t] = out[t]
           /\ UNCHANGED <<wire, hand>>
<1> DEFINE m == [kind |-> k, id |-> c, body |-> b]
<1>1. m \in Frame /\ m.kind = k /\ m.id = c
  BY DEF Frame
<1>2. out' = [out EXCEPT ![s] = Append(out[s], m)] /\ UNCHANGED <<wire, hand>>
  BY DEF Enqueue
<1>3. out \in [Side -> Seq(Frame)]
  BY DEF TypeOK
<1> HIDE DEF m
<1>4. Append(out[s], m) \in Seq(Frame)
  BY <1>1, QueueTypes
<1> QED
  BY <1>1, <1>2, <1>3, <1>4

\* The types of what a step changes, and of what it leaves alone.
ConnType ==
  done \in [Side -> BOOLEAN] /\ swept \in [Side -> BOOLEAN] /\ why \in [Side -> Causes]
QueueType ==
  /\ out \in [Side -> Seq(Frame)] /\ wire \in [Side -> Seq(Frame)]
  /\ hand \in [Side -> Seq(Frame)]
SlotType == slots \in [Side -> 0 .. SlotCap] /\ releasing \in [Side -> Nat]
CallType ==
  /\ pc \in [Call -> {"idle", "sending", "waiting", "cancelling", "acking",
                      "returning", "returned"}]
  /\ ctxDone \in [Call -> BOOLEAN] /\ answered \in [Call -> BOOLEAN]
  /\ result \in [Call -> {"none", "limit", "unsent", "reply", "lost", "acked"}]
HandlerType ==
  /\ serving \in [Call -> {"none", "running", "replying", "replied"}]
  /\ cancelled \in [Call -> BOOLEAN]

\* TypeOK in five parts, each of the variables that actions change together.
LEMMA TypeParts ==
  TypeOK <=> ConnType /\ QueueType /\ SlotType /\ CallType /\ HandlerType
BY DEF TypeOK, ConnType, QueueType, SlotType, CallType, HandlerType

\* The same of the next state.
LEMMA TypePartsNext ==
  TypeOK' <=> ConnType' /\ QueueType' /\ SlotType' /\ CallType' /\ HandlerType'
BY DEF TypeOK, ConnType, QueueType, SlotType, CallType, HandlerType

\* A part of TypeOK whose variables are left alone still holds.
LEMMA TypeKept ==
  ASSUME TypeOK
  PROVE  /\ UNCHANGED connVars => ConnType'
         /\ UNCHANGED queueVars => QueueType'
         /\ UNCHANGED slotVars => SlotType'
         /\ UNCHANGED callVars => CallType'
         /\ UNCHANGED handlerVars => HandlerType'
BY TypeParts DEF ConnType, QueueType, SlotType, CallType, HandlerType

\* Close changes the types of nothing.
LEMMA CloseTypes ==
  ASSUME TypeOK, NEW s \in Side, NEW cause \in Causes, Close(s, cause)
  PROVE  ConnType'
BY TypeParts DEF ConnType, Close

\* The steps of a Call keep the types.
LEMMA CallTypes ==
  ASSUME TypeOK, NEW c \in Call, CallStep(c)
  PROVE  TypeOK'
<1>1. Caller[c] \in Side /\ "good" \in Body /\ "lost" \in Causes
  BY DEF Body, Causes
<1>2. CallType'
  <2>1. CallType
    BY TypeParts
  <2> QED
    BY <2>1 DEF CallStep, CallStart, CallSend, CallWait, CallCancel, CallAck, CallReturn,
       EndContext, Leave, CallType
<1>3. QueueType'
  <2>1. CASE UNCHANGED queueVars
    BY <2>1, TypeKept
  <2>2. CASE \E k \in {"request", "cancel"} : Enqueue(Caller[c], k, c, "good")
    BY <1>1, <2>2, Enqueued, TypeParts DEF QueueType
  <2> QED
    BY <2>1, <2>2 DEF CallStep, CallStart, CallSend, CallWait, CallCancel, CallAck,
       CallReturn, EndContext
<1>4. ConnType'
  <2>1. CASE UNCHANGED connVars
    BY <2>1, TypeKept
  <2>2. CASE Close(Caller[c], "lost")
    BY <1>1, <2>2, CloseTypes
  <2> QED
    BY <2>1, <2>2 DEF CallStep, CallStart, CallSend, CallWait, CallCancel, CallAck,
       CallReturn, EndContext
<1>5. UNCHANGED <<slotVars, handlerVars>>
  BY DEF CallStep, CallStart, CallSend, CallWait, CallCancel, CallAck, CallReturn, EndContext
<1> QED
  BY <1>2, <1>3, <1>4, <1>5, TypeKept, TypePartsNext

\* The steps of a handler keep the types.
LEMMA HandlerTypes ==
  ASSUME TypeOK, NEW c \in Call, HandlerStep(c)
  PROVE  TypeOK'
<1>1. Callee(c) \in Side /\ (\A b \in ReplyBody : b \in Body) /\ "lost" \in Causes
  BY OtherSide DEF Callee, Causes
<1>2. HandlerType' /\ SlotType'
  <2>1. HandlerType /\ SlotType
    BY TypeParts
  <2>2. HandlerType'
    BY <2>1 DEF HandlerStep, HandlerExpire, HandlerReturn, HandlerReply, HandlerFinish,
       HandlerType
  <2>3. UNCHANGED slotVars \/ HandlerFinish(c)
    BY DEF HandlerStep, HandlerExpire, HandlerReturn, HandlerReply
  <2>4. CASE HandlerFinish(c)
    BY <1>1, <2>1, <2>2, <2>4 DEF HandlerFinish, SlotType
  <2> QED
    BY <2>2, <2>3, <2>4, TypeKept
<1>3. QueueType'
  <2>1. CASE UNCHANGED queueVars
    BY <2>1, TypeKept
  <2>2. CASE \E b \in ReplyBody : Enqueue(Callee(c), "reply", c, b)
    BY <1>1, <2>2, Enqueued, TypeParts DEF QueueType
  <2> QED
    BY <2>1, <2>2 DEF HandlerStep, HandlerExpire, HandlerReturn, HandlerReply, HandlerFinish
<1>4. ConnType'
  <2>1. CASE UNCHANGED connVars
    BY <2>1, TypeKept
  <2>2. CASE Close(Callee(c), "lost")
    BY <1>1, <2>2, CloseTypes
  <2> QED
    BY <2>1, <2>2 DEF HandlerStep, HandlerExpire, HandlerReturn, HandlerReply, HandlerFinish
<1>5. UNCHANGED callVars
  BY DEF HandlerStep, HandlerExpire, HandlerReturn, HandlerReply, HandlerFinish
<1> QED
  BY <1>2, <1>3, <1>4, <1>5, TypeKept, TypePartsNext

\* The steps of an end keep the types: a slot is taken where there is one and
\* given back where one is taken.
LEMMA SideTypes ==
  ASSUME TypeOK, SlotAccounting, NEW s \in Side, SideStep(s)
  PROVE  TypeOK'
<1>1. Other(s) \in Side
  BY OtherSide
<1>2. ConnType'
  <2>1. CASE UNCHANGED connVars
    BY <2>1, TypeKept
  <2>2. CASE \E cause \in Causes : Close(s, cause)
    BY <2>2, CloseTypes
  <2>3. CASE Sweep(s)
    BY <2>3, TypeParts DEF Sweep, ConnType
  <2>4. \A cause \in {"lost", "envelope", "duplicate reply", "duplicate request", "slots"} :
          cause \in Causes
    BY DEF Causes
  <2> QED
    BY <2>1, <2>2, <2>3, <2>4 DEF SideStep, UserClose, Write, Read, Dispatch, SlotRelease,
       Refuse, DispatchReply, DispatchCancel, DispatchRequest
<1>3. QueueType'
  <2> DEFINE Q == [Side -> Seq(Frame)]
  <2>1. out \in Q /\ wire \in Q /\ hand \in Q
    BY TypeParts DEF QueueType
  <2>2. CASE UNCHANGED queueVars
    BY <2>2, TypeKept
  <2>6. \A q \in Q, t \in Side, v \in Seq(Frame) : [q EXCEPT ![t] = v] \in Q
    OBVIOUS
  <2> HIDE DEF Q
  <2>3. CASE Write(s)
    <3>1. Head(out[s]) \in Frame /\ Tail(out[s]) \in Seq(Frame)
      BY <2>3, QueueTypes DEF Write
    <3>2. Append(wire[s], Head(out[s])) \in Seq(Frame)
      BY <3>1, QueueTypes
    <3>3. /\ out' = [out EXCEPT ![s] = Tail(out[s])] /\ hand' = hand
          /\ wire' = wire \/ wire' = [wire EXCEPT ![s] = Append(wire[s], Head(out[s]))]
      BY <2>3 DEF Write
    <3>4. out' \in Q /\ wire' \in Q /\ hand' \in Q
      BY ONLY <2>1, <2>6, <3>1, <3>2, <3>3, s \in Side
    <3> QED
      BY <3>4 DEF QueueType, Q
  <2>4. CASE Read(s)
    <3>1. CASE UNCHANGED queueVars
      BY <3>1, TypeKept
    <3>2. CASE wire[Other(s)] # <<>> /\ UNCHANGED connVars
      <4>1. Tail(wire[Other(s)]) \in Seq(Frame) /\ <<Head(wire[Other(s)])>> \in Seq(Frame)
        BY <1>1, <3>2, QueueTypes
      <4>2. /\ hand' = [hand EXCEPT ![s] = <<Head(wire[Other(s)])>>] /\ out' = out
            /\ wire' = [wire EXCEPT ![Other(s)] = Tail(wire[Other(s)])]
        BY <2>4, <3>2 DEF Read
      <4>3. out' \in Q /\ wire' \in Q /\ hand' \in Q
        BY ONLY <1>1, <2>1, <2>6, <4>1, <4>2, s \in Side
      <4> QED
        BY <4>3 DEF QueueType, Q
    <3> QED
      BY <2>4, <3>1, <3>2 DEF Read
  <2>5. CASE Dispatch(s)
    BY <2>1, <2>5, EmptySeq DEF Dispatch, QueueType, Q
  <2> QED
    BY <2>2, <2>3, <2>4, <2>5 DEF SideStep, UserClose, Sweep, SlotRelease
<1>4. SlotType'
  <2>1. CASE UNCHANGED slotVars
    BY <2>1, TypeKept
  <2>2. CASE SlotRelease(s)
    <3>1. slots[s] \in 0 .. SlotCap /\ releasing[s] \in Nat \ {0}
      BY <2>2, TypeParts DEF SlotType, SlotRelease
    <3>2. slots[s] = Cardinality(Active(s)) + releasing[s] /\ Cardinality(Active(s)) \in Nat
      BY ActiveFinite DEF SlotAccounting
    <3>3. slots[s] - 1 \in 0 .. SlotCap /\ releasing[s] - 1 \in Nat
      BY <3>1, <3>2
    <3> QED
      BY <2>2, <3>3, TypeParts DEF SlotType, SlotRelease
  <2>3. CASE slots' = [slots EXCEPT ![s] = @ + 1] /\ ~SlotsFull(s) /\ releasing' = releasing
    <3>1. slots[s] + 1 \in 0 .. SlotCap
      BY <2>3, TypeParts DEF SlotsFull, SlotType
    <3> QED
      BY <2>3, <3>1, TypeParts DEF SlotType
  <2>4. CASE Dispatch(s)
    <3>1. Head(hand[s]).id \in Call
      BY <2>4, QueueTypes DEF Dispatch, Frame
    <3> QED
      BY <2>1, <2>3, <2>4, <3>1 DEF Dispatch, Refuse, DispatchReply, DispatchCancel,
         DispatchRequest
  <2> QED
    BY <2>1, <2>2, <2>4 DEF SideStep, UserClose, Sweep, Write, Read
<1>5. CallType' /\ HandlerType'
  <2>1. CASE UNCHANGED <<callVars, handlerVars>>
    BY <2>1, TypeKept
  <2>2. CASE Sweep(s)
    BY <2>2, TypeParts DEF Sweep, CallType, HandlerType
  <2>3. CASE Dispatch(s)
    BY <2>3, TypeParts DEF Dispatch, Refuse, DispatchReply, DispatchCancel, DispatchRequest,
       CallType, HandlerType
  <2> QED
    BY <2>1, <2>2, <2>3 DEF SideStep, UserClose, Write, Read, SlotRelease
<1> QED
  BY <1>2, <1>3, <1>4, <1>5, TypePartsNext

\* A step of a Call moves its own program counter and no handler.
LEMMA CallSteady ==
  ASSUME TypeOK, CallInv, NEW c \in Call, CallStep(c)
  PROVE  CallInv' /\ \A s \in Side : Steady(s)
<1> USE DEF CallStep, CallStart, CallSend, CallWait, CallCancel, CallAck, CallReturn,
        EndContext, Leave, Close
<1>1. CallType
  BY TypeParts
<1>2. UNCHANGED <<serving, cancelled>>
  OBVIOUS
<1>3. \A d \in Call : (Fresh(d)' <=> Fresh(d)) /\ (Over(d)' <=> Over(d))
  BY <1>2 DEF Fresh, Over
<1>4. \A d \in Call : d # c => pc'[d] = pc[d] /\ result'[d] = result[d] /\ answered'[d] = answered[d]
  BY <1>1 DEF CallType
<1>5. /\ answered'[c] => answered[c]
      /\ pc[c] \notin {"idle", "sending"} =>
           pc'[c] \notin {"idle", "sending"} /\ (result'[c] = result[c] \/ result'[c] \in {"reply", "lost", "acked"})
      /\ pc'[c] \in {"idle", "sending"} => pc[c] \in {"idle", "sending"}
      /\ result'[c] \in {"reply", "acked"} => answered[c] \/ result[c] = result'[c]
      /\ pc'[c] \notin {"returning", "returned"} => result'[c] = result[c] /\ pc[c] \notin {"returning", "returned"}
  BY <1>1 DEF CallType
<1>6. \A t \in Side : done[t] => done'[t]
  BY TypeParts DEF ConnType
<1>7. CallInv'
  BY ONLY <1>3, <1>4, <1>5, CallInv, c \in Call DEF CallInv
<1> QED
  BY <1>3, <1>4, <1>5, <1>6, <1>7 DEF Steady

\* A step of a handler after its start goes on to its end.
LEMMA HandlerSteady ==
  ASSUME TypeOK, CallInv, NEW c \in Call, HandlerStep(c)
  PROVE  CallInv' /\ \A s \in Side : Steady(s)
<1> USE DEF HandlerStep, HandlerExpire, HandlerReturn, HandlerReply, HandlerFinish, Close
<1>1. HandlerType
  BY TypeParts
<1>2. UNCHANGED callVars
  OBVIOUS
<1>3. \A d \in Call : (Fresh(d)' <=> Fresh(d)) /\ (Over(d) => Over(d)')
  BY <1>1 DEF HandlerType, Fresh, Over
<1>4. \A t \in Side : done[t] => done'[t]
  BY TypeParts DEF ConnType
<1> QED
  BY <1>2, <1>3, <1>4 DEF Steady, CallInv

\* So does a step of an end that dispatches nothing.
LEMMA SideSteady ==
  ASSUME TypeOK, CallInv, NEW s \in Side,
         \/ UserClose(s) \/ Sweep(s) \/ Write(s) \/ Read(s) \/ SlotRelease(s)
         \/ UNCHANGED vars
  PROVE  CallInv' /\ \A t \in Side : Steady(t)
<1> USE DEF UserClose, Sweep, Write, Read, SlotRelease, Close
<1>1. HandlerType
  BY TypeParts
<1>2. UNCHANGED <<callVars, serving>> /\ (cancelled' = cancelled \/ Sweep(s))
  OBVIOUS
<1>3. \A d \in Call : (Fresh(d)' <=> Fresh(d)) /\ (Over(d) => Over(d)')
  BY <1>1, <1>2 DEF HandlerType, Fresh, Over, Active
<1>4. \A t \in Side : done[t] => done'[t]
  BY TypeParts DEF ConnType
<1> QED
  BY <1>2, <1>3, <1>4 DEF Steady, CallInv

\* A frame the reader has is the first of those on their way to it.
LEMMA InHand ==
  ASSUME IInv, NEW s \in Side, hand[s] # <<>>
  PROVE  /\ Head(hand[s]) \in Frame /\ Head(hand[s]).id \in Call
         /\ FrameOK(Other(s), Head(hand[s]))
<1>1. Head(hand[s]) \in Frame
  BY QueueTypes DEF IInv
<1>2. TypeOK /\ Len(hand[s]) <= 1 /\ SideOK(Other(s)) /\ Other(s) \in Side /\ Other(Other(s)) = s
  BY OtherSide DEF IInv, SweepInv, TransitInv
<1> DEFINE q == InTransit(Other(s))
           h == hand[s]
<1>3. q = (h \o wire[Other(s)]) \o IF done[Other(s)] THEN <<>> ELSE out[Other(s)]
  BY <1>2 DEF InTransit
<1>4. h \in Seq(Frame) /\ wire[Other(s)] \in Seq(Frame) /\ h # <<>>
      /\ (IF done[Other(s)] THEN <<>> ELSE out[Other(s)]) \in Seq(Frame)
  BY <1>2, Transit, EmptySeq
<1>5. Head(hand[s]) = Head(h)
  OBVIOUS
<1>6. \A i \in 1 .. Len(q) : FrameOK(Other(s), q[i])
  BY <1>2 DEF SideOK, FramesOK
<1> DEFINE w == wire[Other(s)]
           o == IF done[Other(s)] THEN <<>> ELSE out[Other(s)]
           r == (<<>> \o w) \o o
<1>7. q = (h \o w) \o o /\ r = (<<>> \o w) \o o /\ h \in Seq(Frame) /\ w \in Seq(Frame)
      /\ o \in Seq(Frame) /\ h # <<>> /\ Len(h) <= 1
  BY <1>2, <1>3, <1>4
<1> HIDE DEF q, r, h, w, o
<1>8. Len(r) \in Nat /\ Len(q) = Len(r) + 1 /\ q[1] = Head(h)
  BY ONLY <1>7, TakeFirst
<1>9. 1 \in 1 .. Len(q)
  BY ONLY <1>8
<1> QED
  BY <1>1, <1>5, <1>6, <1>8, <1>9 DEF Frame

\* What the reader does with a frame that is the first on its way: a request
\* is for a handler that was never started, a reply for a Call that has none,
\* so that the frame is never refused as a duplicate.
Starts(s, c) ==
  /\ c \notin Active(s) /\ ~SlotsFull(s)
  /\ slots' = [slots EXCEPT ![s] = @ + 1]
  /\ serving' = [serving EXCEPT ![c] = "running"]
  /\ cancelled' = [cancelled EXCEPT ![c] = FALSE]
  /\ UNCHANGED <<connVars, answered>>

Delivers(c) ==
  /\ answered' = [answered EXCEPT ![c] = TRUE]
  /\ UNCHANGED <<connVars, slots, handlerVars>>

\* What dispatch does with the frame in hand, as five alternatives: it ends the
\* reader, starts a handler, fills a reply channel, serves a cancel or drops it.
LEMMA Dispatched ==
  ASSUME IInv, NEW s \in Side, Dispatch(s), NEW m, m = Head(hand[s])
  PROVE  /\ m \in Frame /\ m.id \in Call /\ FrameOK(Other(s), m)
         /\ hand[s] # <<>> /\ hand' = [hand EXCEPT ![s] = <<>>]
         /\ UNCHANGED <<out, wire, releasing, pc, ctxDone, result>>
         /\ \/ \E cause \in {"envelope", "slots"} : Refuse(s, cause)
            \/ m.kind = "request" /\ Starts(s, m.id)
            \/ m.kind = "reply" /\ Delivers(m.id)
            \/ m.kind # "request" /\ DispatchCancel(s, m.id)
            \/ m.kind # "request" /\ UNCHANGED <<connVars, slots, answered, handlerVars>>
<1>1. m \in Frame /\ m.id \in Call /\ FrameOK(Other(s), m) /\ hand[s] # <<>>
  BY InHand DEF Dispatch
<1>2. /\ hand' = [hand EXCEPT ![s] = <<>>]
      /\ UNCHANGED <<out, wire, releasing, pc, ctxDone, result>>
      /\ \/ Refuse(s, "envelope")
         \/ m.kind = "reply" /\ DispatchReply(s, m.id)
         \/ m.kind = "cancel" /\ DispatchCancel(s, m.id)
         \/ m.kind = "request" /\ DispatchRequest(s, m.id)
  BY DEF Dispatch
<1>3. m.kind = "request" => m.id \notin Active(s)
  BY <1>1 DEF FrameOK, Fresh, Active
<1>4. m.kind = "reply" => ~answered[m.id]
  BY <1>1 DEF FrameOK
<1> QED
  BY <1>1, <1>2, <1>3, <1>4 DEF DispatchReply, DispatchRequest, Starts, Delivers

\* The frame that the reader takes leaves the Calls, and the frames on their
\* way in either direction, as they should be.
LEMMA DispatchKeeps ==
  ASSUME IInv, TypeOK', NEW s \in Side, Dispatch(s)
  PROVE  CallInv' /\ TransitInv'
<1> PICK m : m = Head(hand[s])
  OBVIOUS
<1> DEFINE o == Other(s)
<1>1. /\ m \in Frame /\ m.id \in Call /\ FrameOK(o, m)
      /\ hand[s] # <<>> /\ hand' = [hand EXCEPT ![s] = <<>>]
      /\ UNCHANGED <<out, wire, releasing, pc, ctxDone, result>>
      /\ \/ \E cause \in {"envelope", "slots"} : Refuse(s, cause)
         \/ m.kind = "request" /\ Starts(s, m.id)
         \/ m.kind = "reply" /\ Delivers(m.id)
         \/ m.kind # "request" /\ DispatchCancel(s, m.id)
         \/ m.kind # "request" /\ UNCHANGED <<connVars, slots, answered, handlerVars>>
  BY Dispatched
<1>2. o \in Side /\ o # s /\ Other(o) = s /\ \A t \in Side : t = s \/ t = o
  BY OtherSide
<1>3. TypeOK /\ CallInv /\ SideOK(s) /\ SideOK(o) /\ Len(hand[s]) <= 1
  BY <1>2 DEF IInv, TransitInv, SweepInv
<1>4. HandlerType /\ CallType /\ ConnType /\ QueueType
  BY <1>3, TypeParts
<1>5. m = Head(hand[s])
  OBVIOUS
<1> HIDE DEF o
<1>6. m.kind = "request" => Caller[m.id] = o /\ Fresh(m.id) /\ pc[m.id] \notin {"idle", "sending"}
  BY <1>1 DEF FrameOK
<1>7. m.kind = "reply" => Caller[m.id] = s /\ Over(m.id)
  BY <1>1, <1>2 DEF FrameOK
<1>8. /\ done'[o] = done[o] /\ (done[s] => done'[s])
      /\ m.kind = "request" /\ ~done'[s] => Starts(s, m.id)
  BY <1>1, <1>2, <1>4 DEF Refuse, Close, Starts, Delivers, DispatchCancel, ConnType
<1>9. \A c \in Call :
        /\ Fresh(c)' => Fresh(c)
        /\ Fresh(c) /\ ~Fresh(c)' => m.kind = "request" /\ m.id = c
        /\ Over(c) => Over(c)'
        /\ answered'[c] /\ ~answered[c] => m.kind = "reply" /\ m.id = c
  BY <1>1, <1>4, <1>6 DEF Refuse, Starts, Delivers, DispatchCancel, Active, Fresh, Over,
     HandlerType, CallType
<1>10. m.kind = "request" /\ ~done'[s] => ~Fresh(m.id)'
  BY <1>1, <1>4, <1>8 DEF Starts, Fresh, HandlerType
<1>11. CallInv'
  BY <1>1, <1>3, <1>6, <1>7, <1>9 DEF CallInv
<1>12. SideOK(o)'
  <2>1. /\ Len(InTransit(o)') \in Nat /\ Len(InTransit(o)) = Len(InTransit(o)') + 1
        /\ InTransit(o)[1] = m
        /\ \A i \in 1 .. Len(InTransit(o)') : InTransit(o)'[i] = InTransit(o)[i + 1]
    BY <1>1, <1>2, <1>3, <1>4, <1>5, <1>8, TransitTaken DEF QueueType
  <2> QED
    BY <1>1, <1>2, <1>3, <1>8, <1>9, <1>10, <2>1, Taken
<1>13. SideOK(s)'
  <2>1. hand'[Other(s)] = hand[Other(s)] /\ wire'[s] = wire[s]
    BY <1>1, <1>2, <1>4, OtherSide DEF QueueType
  <2>2. Steady(s)
    <3>1. \A c \in Call : Caller[c] = s => (Fresh(c)' <=> Fresh(c))
      BY <1>2, <1>6, <1>9
    <3>2. \A c \in Call : Caller[c] # s /\ answered'[c] => answered[c]
      BY <1>7, <1>9
    <3>3. \A t \in Side : done[t] => done'[t]
      BY <1>2, <1>8
    <3> QED
      BY <1>1, <1>9, <3>1, <3>2, <3>3 DEF Steady
  <2>3. NoneSends(s)
    BY <1>1 DEF NoneSends
  <2>4. CASE done'[s]
    BY <1>3, <2>1, <2>2, <2>4, SteadyCut, TransitClosed
  <2>5. CASE ~done'[s]
    <3>1. InTransit(s)' = InTransit(s)
      BY <1>1, <1>8, <2>1, <2>5 DEF InTransit, Other
    <3>2. Len(InTransit(s)) \in Nat
      BY <1>3, TransitFrames
    <3> QED
      BY <1>3, <2>2, <2>3, <3>1, <3>2, SteadyCut
  <2> QED
    BY <2>4, <2>5
<1> QED
  BY <1>2, <1>11, <1>12, <1>13 DEF TransitInv

\* A step that queues and delivers nothing, and may close an end.
LEMMA SilentKeeps ==
  ASSUME TypeOK, TransitInv, UNCHANGED queueVars,
         \A t \in Side : Steady(t), \A t \in Side : done'[t] \/ NoneSends(t)
  PROVE  TransitInv'
<1> SUFFICES ASSUME NEW s \in Side PROVE SideOK(s)'
  BY DEF TransitInv
<1>1. SideOK(s) /\ Steady(s)
  BY DEF TransitInv
<1>2. CASE done'[s]
  BY <1>1, <1>2, SteadyCut, TransitClosed
<1>3. CASE ~done'[s]
  <2>1. InTransit(s)' = InTransit(s)
    BY <1>1, <1>3 DEF InTransit, Other, Steady
  <2> QED
    BY <1>1, <1>3, <2>1, SteadyCut, TransitFrames
<1> QED
  BY <1>2, <1>3

\* A step that queues one frame at s.
LEMMA QueuedKeeps ==
  ASSUME TypeOK, TransitInv, NEW s \in Side, NEW m \in Frame,
         out'[s] = Append(out[s], m), \A t \in Side : t # s => out'[t] = out[t],
         UNCHANGED <<wire, hand, done>>, \A t \in Side : Steady(t),
         \A t \in Side : t # s => NoneSends(t),
         FrameOK(s, m)',
         ~done[s] /\ m.kind # "cancel" => \A i \in 1 .. Len(InTransit(s)) :
           ~(InTransit(s)[i].kind = m.kind /\ InTransit(s)[i].id = m.id),
         m.kind = "cancel" /\ ~done[s] /\ ~done[Other(s)] /\ Fresh(m.id)
           => Asked(InTransit(s), Len(InTransit(s)), m.id),
         \A c \in Call :
           Caller[c] = s /\ pc'[c] \in {"waiting", "cancelling"}
             => pc[c] \in {"waiting", "cancelling"} \/ (m.kind = "request" /\ m.id = c)
  PROVE  TransitInv'
<1> SUFFICES ASSUME NEW t \in Side PROVE SideOK(t)'
  BY DEF TransitInv
<1>1. SideOK(t) /\ Steady(t)
  BY DEF TransitInv
<1>2. CASE done[t] \/ t # s
  <2>1. InTransit(t)' = InTransit(t)
    BY <1>2 DEF InTransit, Other
  <2>2. Len(InTransit(t)) \in Nat
    BY TransitFrames
  <2>3. done'[t] \/ NoneSends(t)
    BY <1>2
  <2> QED
    BY <1>1, <2>1, <2>2, <2>3, SteadyCut
<1>3. CASE t = s /\ ~done[s]
  <2>1. InTransit(s)' = Append(InTransit(s), m)
    BY <1>3, TransitAdded
  <2> QED
    BY <1>1, <1>3, <2>1, SteadyAdded
<1> QED
  BY <1>2, <1>3

\* A Call that queues nothing.
LEMMA CallNotSends ==
  ASSUME TypeOK, NEW c \in Call, CallStep(c), UNCHANGED queueVars
  PROVE  \A t \in Side : NoneSends(t)
<1>1. CallType
  BY TypeParts
<1>2. \A d \in Call : pc'[d] \in {"waiting", "cancelling"} => pc[d] \in {"waiting", "cancelling"}
  <2>1. CASE CallSend(c)
    <3>1. ~\E k \in {"request"} : Enqueue(Caller[c], k, c, "good")
      <4> SUFFICES ASSUME Enqueue(Caller[c], "request", c, "good") PROVE FALSE
        OBVIOUS
      <4>1. Caller[c] \in Side /\ "good" \in Body
        BY DEF Body
      <4>2. PICK m \in Frame : out'[Caller[c]] = Append(out[Caller[c]], m)
        BY <4>1, Enqueued
      <4>3. out[Caller[c]] \in Seq(Frame)
        BY <4>1 DEF TypeOK
      <4>4. Len(out'[Caller[c]]) = Len(out[Caller[c]]) + 1 /\ Len(out[Caller[c]]) \in Nat
        BY <4>2, <4>3, AppendProperties, LenProperties
      <4> QED
        BY <4>4
    <3> QED
      BY <1>1, <2>1, <3>1 DEF CallSend, Leave, CallType
  <2>2. CASE ~CallSend(c)
    BY <1>1, <2>2 DEF CallStep, CallStart, CallWait, CallCancel, CallAck, CallReturn,
       EndContext, Leave, CallType
  <2> QED
    BY <2>1, <2>2
<1> QED
  BY <1>2 DEF NoneSends

\* The frames that the Calls send.
LEMMA CallKeeps ==
  ASSUME IInv, NEW c \in Call, CallStep(c)
  PROVE  TransitInv'
<1>1. TypeOK /\ CallInv /\ TransitInv
  BY DEF IInv
<1>2. \A t \in Side : Steady(t)
  BY <1>1, CallSteady
<1> DEFINE s == Caller[c]
<1>3. s \in Side /\ "good" \in Body
  BY DEF Body
<1>4. CASE UNCHANGED queueVars
  BY <1>1, <1>2, <1>4, SilentKeeps, CallNotSends
<1>5. ASSUME CallSend(c), Enqueue(s, "request", c, "good"), pc' = [pc EXCEPT ![c] = "waiting"]
      PROVE  TransitInv'
  <2>1. PICK m \in Frame :
          /\ m.kind = "request" /\ m.id = c
          /\ out'[s] = Append(out[s], m)
          /\ \A t \in Side : t # s => out'[t] = out[t]
          /\ UNCHANGED <<wire, hand>>
    BY <1>1, <1>3, <1>5, Enqueued
  <2>2. /\ pc[c] = "sending" /\ UNCHANGED <<connVars, handlerVars, answered>>
        /\ result[c] = "none" /\ Fresh(c) /\ (result' = result)
    <3>1. pc[c] = "sending" /\ UNCHANGED <<connVars, handlerVars>>
      BY <1>5 DEF CallSend
    <3>2. pc'[c] = "waiting"
      BY <1>1, <1>5, TypeParts DEF CallType
    <3>3. UNCHANGED <<answered, result>>
      BY <1>5, <3>2, <1>1, TypeParts DEF CallSend, Leave, CallType
    <3> QED
      BY <1>1, <3>1, <3>3 DEF CallInv
  <2>3. \A d \in Call : pc'[d] = IF d = c THEN "waiting" ELSE pc[d]
    BY <1>1, <1>5, TypeParts DEF CallType
  <2>4. FrameOK(s, m)'
    BY <1>1, <2>1, <2>2, <2>3 DEF FrameOK, Fresh
  <2>5. \A i \in 1 .. Len(InTransit(s)) :
          ~(InTransit(s)[i].kind = m.kind /\ InTransit(s)[i].id = m.id)
    BY <1>1, <1>3, <2>1, <2>2 DEF TransitInv, SideOK, FramesOK, FrameOK
  <2>6. \A t \in Side : t # s => NoneSends(t)
    BY <2>3 DEF NoneSends
  <2>7. \A d \in Call :
          Caller[d] = s /\ pc'[d] \in {"waiting", "cancelling"}
            => pc[d] \in {"waiting", "cancelling"} \/ (m.kind = "request" /\ m.id = d)
    BY <2>1, <2>3
  <2> QED
    BY <1>1, <1>2, <1>3, <2>1, <2>2, <2>4, <2>5, <2>6, <2>7, QueuedKeeps
<1>6. ASSUME CallCancel(c), Enqueue(s, "cancel", c, "good"), UNCHANGED connVars
      PROVE  TransitInv'
  <2>1. PICK m \in Frame :
          /\ m.kind = "cancel" /\ m.id = c
          /\ out'[s] = Append(out[s], m)
          /\ \A t \in Side : t # s => out'[t] = out[t]
          /\ UNCHANGED <<wire, hand>>
    BY <1>1, <1>3, <1>6, Enqueued
  <2>2. /\ pc[c] = "cancelling"
        /\ \A d \in Call : pc'[d] = IF d = c THEN "acking" ELSE pc[d]
    BY <1>1, <1>6, TypeParts DEF CallCancel, CallType
  <2>3. FrameOK(s, m)'
    BY <2>1 DEF FrameOK
  <2>4. ~done[s] /\ ~done[Other(s)] /\ Fresh(m.id) => Asked(InTransit(s), Len(InTransit(s)), m.id)
    BY <1>1, <1>3, <2>1, <2>2 DEF TransitInv, SideOK, Sent
  <2>5. \A t \in Side : NoneSends(t)
    BY <2>2 DEF NoneSends
  <2>6. \A d \in Call :
          Caller[d] = s /\ pc'[d] \in {"waiting", "cancelling"}
            => pc[d] \in {"waiting", "cancelling"} \/ (m.kind = "request" /\ m.id = d)
    BY <2>2
  <2> QED
    BY <1>1, <1>2, <1>3, <1>6, <2>1, <2>3, <2>4, <2>5, <2>6, QueuedKeeps
<1> QED
  BY <1>4, <1>5, <1>6 DEF CallStep, CallStart, CallSend, CallWait, CallCancel, CallAck,
     CallReturn, EndContext

\* The reply that a handler sends.
LEMMA HandlerKeeps ==
  ASSUME IInv, NEW c \in Call, HandlerStep(c)
  PROVE  TransitInv'
<1>1. TypeOK /\ CallInv /\ TransitInv
  BY DEF IInv
<1>2. \A t \in Side : Steady(t)
  BY <1>1, HandlerSteady
<1>3. \A t \in Side : NoneSends(t)
  BY DEF HandlerStep, HandlerExpire, HandlerReturn, HandlerReply, HandlerFinish, NoneSends
<1> DEFINE s == Callee(c)
<1>4. s \in Side /\ Caller[c] # s /\ \A b \in ReplyBody : b \in Body
  BY OtherSide DEF Callee
<1>5. CASE UNCHANGED queueVars
  BY <1>1, <1>2, <1>3, <1>5, SilentKeeps
<1>6. ASSUME HandlerReply(c), NEW b \in ReplyBody, Enqueue(s, "reply", c, b), UNCHANGED connVars
      PROVE  TransitInv'
  <2>1. PICK m \in Frame :
          /\ m.kind = "reply" /\ m.id = c
          /\ out'[s] = Append(out[s], m)
          /\ \A t \in Side : t # s => out'[t] = out[t]
          /\ UNCHANGED <<wire, hand>>
    BY <1>1, <1>4, <1>6, Enqueued
  <2>2. serving[c] = "replying" /\ serving'[c] = "replied" /\ UNCHANGED callVars
    BY <1>1, <1>6, TypeParts DEF HandlerReply, HandlerType
  <2>3. ~Over(c) /\ ~answered[c]
    BY <1>1, <2>2 DEF Over, CallInv
  <2>4. FrameOK(s, m)'
    BY <1>4, <2>1, <2>2, <2>3 DEF FrameOK, Over
  <2>5. \A i \in 1 .. Len(InTransit(s)) :
          ~(InTransit(s)[i].kind = m.kind /\ InTransit(s)[i].id = m.id)
    BY <1>1, <1>4, <2>1, <2>3 DEF TransitInv, SideOK, FramesOK, FrameOK
  <2>6. \A d \in Call :
          Caller[d] = s /\ pc'[d] \in {"waiting", "cancelling"}
            => pc[d] \in {"waiting", "cancelling"} \/ (m.kind = "request" /\ m.id = d)
    BY <2>2
  <2> QED
    BY <1>1, <1>2, <1>3, <1>4, <1>6, <2>1, <2>4, <2>5, <2>6, QueuedKeeps
<1> QED
  BY <1>5, <1>6 DEF HandlerStep, HandlerExpire, HandlerReturn, HandlerReply, HandlerFinish

\* The frames that the writer and the reader move.
LEMMA SideKeeps ==
  ASSUME IInv, TypeOK', NEW s \in Side, SideStep(s)
  PROVE  TransitInv'
<1>1. TypeOK /\ CallInv /\ TransitInv /\ ConnType /\ QueueType
  BY TypeParts DEF IInv
<1>2. CASE Dispatch(s)
  BY <1>2, DispatchKeeps
<1>3. CASE UserClose(s) \/ Sweep(s) \/ SlotRelease(s)
  <2>1. UNCHANGED <<queueVars, callVars>>
    BY <1>3 DEF UserClose, Sweep, SlotRelease
  <2>2. \A t \in Side : Steady(t) /\ NoneSends(t)
    BY <1>1, <1>3, <2>1, SideSteady DEF NoneSends
  <2> QED
    BY <1>1, <2>1, <2>2, SilentKeeps
<1>4. CASE Write(s)
  <2>1. \A t \in Side : Steady(t) /\ NoneSends(t) /\ SideOK(t)
    BY <1>1, <1>4, SideSteady DEF Write, NoneSends, TransitInv
  <2>2. /\ ~done[s] /\ out[s] # <<>> /\ hand' = hand
        /\ \A t \in Side : t # s => out'[t] = out[t] /\ wire'[t] = wire[t] /\ done'[t] = done[t]
        /\ \/ done'[s] /\ wire' = wire
           \/ done' = done /\ out'[s] = Tail(out[s])
                /\ wire'[s] = Append(wire[s], Head(out[s]))
    BY <1>1, <1>4 DEF Write, Close, QueueType, ConnType
  <2> SUFFICES ASSUME NEW t \in Side PROVE SideOK(t)'
    BY DEF TransitInv
  <2>3. CASE t = s /\ done'[s] /\ wire' = wire
    BY <1>1, <2>1, <2>2, <2>3, SteadyCut, TransitClosed
  <2>4. CASE InTransit(t)' = InTransit(t)
    BY <1>1, <2>1, <2>4, SteadyCut, TransitFrames
  <2>5. CASE t # s
    <3>1. InTransit(t)' = InTransit(t)
      BY <2>2, <2>5 DEF InTransit, Other
    <3> QED
      BY <2>4, <3>1
  <2>6. CASE t = s /\ done' = done
    <3>1. CASE out'[s] = Tail(out[s]) /\ wire'[s] = Append(wire[s], Head(out[s]))
      BY <1>1, <2>2, <2>4, <2>6, <3>1, TransitWritten
    <3> QED
      BY <2>2, <2>3, <2>6, <3>1
  <2> QED
    BY <2>2, <2>3, <2>5, <2>6
<1>5. CASE Read(s)
  <2> DEFINE o == Other(s)
  <2>0. o \in Side /\ o # s /\ Other(o) = s /\ \A t \in Side : t = s \/ t = o
    BY OtherSide
  <2>1. \A t \in Side : Steady(t) /\ NoneSends(t) /\ SideOK(t)
    BY <1>1, <1>5, SideSteady DEF Read, NoneSends, TransitInv
  <2>2. CASE UNCHANGED <<wire, hand>>
    <3>1. UNCHANGED queueVars
      BY <1>5, <2>2 DEF Read
    <3> QED
      BY <1>1, <2>1, <3>1, SilentKeeps
  <2>3. CASE wire[o] # <<>> /\ UNCHANGED connVars
    <3>1. /\ hand[s] = <<>> /\ hand'[s] = <<Head(wire[o])>> /\ hand'[o] = hand[o]
          /\ wire'[o] = Tail(wire[o]) /\ wire'[s] = wire[s] /\ out' = out /\ done' = done
      BY <1>1, <1>5, <2>0, <2>3 DEF Read, QueueType
    <3>2. InTransit(o)' = InTransit(o)
      BY <1>1, <2>0, <2>3, <3>1, TransitRead
    <3>3. InTransit(s)' = InTransit(s)
      BY <2>0, <3>1 DEF InTransit, Other
    <3>4. ASSUME NEW t \in Side, InTransit(t)' = InTransit(t)
          PROVE  SideOK(t)'
      BY <1>1, <2>1, <3>4, SteadyCut, TransitFrames
    <3> QED
      BY <2>0, <3>2, <3>3, <3>4 DEF TransitInv
  <2> QED
    BY <1>5, <2>2, <2>3 DEF Read
<1> QED
  BY <1>2, <1>3, <1>4, <1>5 DEF SideStep

----------------------------------------------------------------------------
(* Slots, sweeps and duplicates.                                           *)

\* A step that starts and ends no handler leaves the count of slots right.
LEMMA SlotsKept ==
  ASSUME SlotAccounting, UNCHANGED slotVars, \A s \in Side : Active(s)' = Active(s)
  PROVE  SlotAccounting'
BY DEF SlotAccounting

\* A step that moves no handler leaves the count of slots right.
LEMMA SlotsSame ==
  ASSUME SlotAccounting, UNCHANGED <<serving, slotVars>>
  PROVE  SlotAccounting'
BY SlotsKept DEF Active

\* The steps of a Call, and those of an end that neither start a handler nor
\* give a slot back, move no handler.
LEMMA NoHandlerMoves ==
  /\ \A c \in Call : CallStep(c) => UNCHANGED <<serving, slotVars>>
  /\ \A s \in Side : UserClose(s) \/ Sweep(s) \/ Write(s) \/ Read(s)
                       => UNCHANGED <<serving, slotVars>>
BY DEF CallStep, CallStart, CallSend, CallWait, CallCancel, CallAck, CallReturn, EndContext,
   UserClose, Sweep, Write, Read

\* A handler that ends keeps its token until it has left p.active.
LEMMA HandlerSlots ==
  ASSUME TypeOK, SlotAccounting, NEW c \in Call, HandlerStep(c)
  PROVE  SlotAccounting'
<1>1. HandlerType /\ SlotType
  BY TypeParts
<1>2. CASE HandlerExpire(c)
  BY <1>2, SlotsSame DEF HandlerExpire
<1>3. CASE HandlerReturn(c) \/ HandlerReply(c)
  <2>1. \A s \in Side : Active(s)' = Active(s)
    BY <1>1, <1>3 DEF HandlerReturn, HandlerReply, Active, HandlerType
  <2> QED
    BY <1>3, <2>1, SlotsKept DEF HandlerReturn, HandlerReply
<1>4. CASE HandlerFinish(c)
  <2> DEFINE s == Callee(c)
  <2>1. s \in Side /\ Caller[c] # s /\ \A t \in Side : t = s \/ t = Caller[c]
    BY OtherSide DEF Callee
  <2>2. /\ Active(s)' = Active(s) \ {c} /\ c \in Active(s)
        /\ \A t \in Side : t # s => Active(t)' = Active(t)
    BY <1>1, <1>4, <2>1 DEF HandlerFinish, Active, HandlerType
  <2>3. Cardinality(Active(s)') = Cardinality(Active(s)) - 1
    <3>1. IsFiniteSet(Active(s))
      BY <2>1, ActiveFinite
    <3> DEFINE A == Active(s)
    <3>2. Active(s)' = A \ {c} /\ c \in A /\ IsFiniteSet(A)
      BY <2>2, <3>1
    <3> HIDE DEF A
    <3>3. Cardinality(A \ {c}) = Cardinality(A) - 1
      BY ONLY <3>2, FS_RemoveElement
    <3> QED
      BY <3>2, <3>3 DEF A
  <2>4. /\ slots' = slots /\ releasing'[s] = releasing[s] + 1
        /\ \A t \in Side : t # s => releasing'[t] = releasing[t]
    BY <1>1, <1>4, <2>1 DEF HandlerFinish, SlotType
  <2>5. slots[s] = Cardinality(Active(s)) + releasing[s]
        /\ slots[s] \in Nat /\ releasing[s] \in Nat /\ Cardinality(Active(s)) \in Nat
    BY <1>1, <2>1, ActiveFinite DEF SlotAccounting, SlotType
  <2>6. slots'[s] = Cardinality(Active(s)') + releasing'[s]
    BY <2>3, <2>4, <2>5
  <2> HIDE DEF s
  <2> QED
    BY <2>1, <2>2, <2>4, <2>6 DEF SlotAccounting
<1> QED
  BY <1>2, <1>3, <1>4 DEF HandlerStep

\* A handler that is over gives its token back once.
LEMMA ReleaseSlots ==
  ASSUME TypeOK, SlotAccounting, NEW s \in Side, SlotRelease(s)
  PROVE  SlotAccounting'
<1>1. \A t \in Side : Active(t)' = Active(t)
  BY DEF SlotRelease, Active
<1>2. SlotType /\ slots[s] \in Nat /\ releasing[s] \in Nat /\ Cardinality(Active(s)) \in Nat
  BY TypeParts, ActiveFinite DEF SlotType
<1>3. /\ slots'[s] = slots[s] - 1 /\ releasing'[s] = releasing[s] - 1
      /\ \A t \in Side : t # s => slots'[t] = slots[t] /\ releasing'[t] = releasing[t]
  BY <1>2 DEF SlotRelease, SlotType
<1>4. slots[s] = Cardinality(Active(s)) + releasing[s]
  BY DEF SlotAccounting
<1>5. slots'[s] = Cardinality(Active(s)) + releasing'[s]
  BY <1>2, <1>3, <1>4
<1> QED
  BY <1>1, <1>3, <1>5 DEF SlotAccounting

\* A dispatch takes a token with the handler it starts, if the other end asks
\* under IDs of its own, and with nothing else.
LEMMA DispatchSlots ==
  ASSUME TypeOK, SlotAccounting, NEW s \in Side, Dispatch(s), NEW m, m = Head(hand[s]),
         m.kind = "request" => Caller[m.id] = Other(s)
  PROVE  SlotAccounting'
<1>1. HandlerType /\ SlotType /\ m \in Frame /\ m.id \in Call /\ releasing' = releasing
  BY TypeParts, QueueTypes DEF Dispatch, Frame
<1>2. UNCHANGED <<serving, slots>> \/ (m.kind = "request" /\ Starts(s, m.id))
  BY DEF Dispatch, Refuse, DispatchReply, DispatchCancel, DispatchRequest, Starts
<1>3. CASE UNCHANGED <<serving, slots>>
  BY <1>1, <1>3, SlotsSame
<1>4. CASE m.kind = "request" /\ Starts(s, m.id)
  <2>1. Caller[m.id] = Other(s) /\ Other(s) # s /\ \A t \in Side : t = s \/ t = Other(s)
    BY <1>4, OtherSide
  <2>2. /\ Active(s)' = Active(s) \cup {m.id} /\ m.id \notin Active(s)
        /\ \A t \in Side : t # s => Active(t)' = Active(t)
    BY <1>1, <1>4, <2>1 DEF Starts, Active, HandlerType
  <2>3. Cardinality(Active(s)') = Cardinality(Active(s)) + 1
    BY <2>2, ActiveFinite, FS_AddElement
  <2>4. slots'[s] = slots[s] + 1 /\ \A t \in Side : t # s => slots'[t] = slots[t]
    BY <1>1, <1>4 DEF Starts, SlotType
  <2>5. slots[s] = Cardinality(Active(s)) + releasing[s]
        /\ slots[s] \in Nat /\ releasing[s] \in Nat /\ Cardinality(Active(s)) \in Nat
    BY <1>1, ActiveFinite DEF SlotAccounting, SlotType
  <2>6. slots'[s] = Cardinality(Active(s)') + releasing[s]
    BY <2>3, <2>4, <2>5
  <2> QED
    BY <1>1, <2>2, <2>4, <2>6 DEF SlotAccounting
<1> QED
  BY <1>2, <1>3, <1>4

\* A slot is taken with the start of a handler and given back behind its end.
LEMMA StepSlots ==
  ASSUME IInv, [Next]_vars
  PROVE  SlotAccounting'
<1>1. TypeOK /\ SlotAccounting
  BY DEF IInv
<1>2. ASSUME NEW s \in Side, Dispatch(s)
      PROVE  SlotAccounting'
  <2> PICK m : m = Head(hand[s])
    OBVIOUS
  <2>1. m.kind = "request" => Caller[m.id] = Other(s)
    BY <1>2, InHand DEF Dispatch, FrameOK
  <2> QED
    BY <1>1, <1>2, <2>1, DispatchSlots
<1>3. CASE UNCHANGED vars
  BY <1>1, <1>3, SlotsSame
<1> QED
  BY <1>1, <1>2, <1>3, SlotsSame, NoHandlerMoves, HandlerSlots, ReleaseSlots DEF Next, SideStep

\* A frame in hand that would start a handler is of a Call of the other end.
OwnRequest(s) ==
  hand[s] # <<>> /\ Head(hand[s]).kind = "request" => Caller[Head(hand[s]).id] = Other(s)

\* A handler behind a sweep has been started from the frame that the reader
\* had in hand, of which a closed end takes no more, whatever the other end is.
LEMMA SweepKept ==
  ASSUME TypeOK, SweepInv,
         \/ \E c \in Call : CallStep(c) \/ HandlerStep(c)
         \/ \E s \in Side : SideStep(s) /\ OwnRequest(s)
         \/ /\ UNCHANGED <<hand, swept, handlerVars>>
            /\ \A s \in Side : done[s] => done'[s]
  PROVE  SweepInv'
<1>1. HandlerType /\ QueueType /\ ConnType
  BY TypeParts
<1> DEFINE Missed(c, s) == Caller[c] # s /\ swept[s] /\ serving[c] = "running" /\ ~cancelled[c]
<1>2. \A s \in Side, c \in Call : c \in MissedByClose(s) <=> Missed(c, s)
  BY DEF MissedByClose, Active
<1>3. \A s \in Side, c \in Call : c \in MissedByClose(s)' <=> Missed(c, s)'
  BY DEF MissedByClose, Active
<1>4. \A s \in Side : MissedByClose(s) \subseteq Call /\ MissedByClose(s)' \subseteq Call
  BY DEF MissedByClose, Active
<1>5. ASSUME \A s \in Side : /\ hand'[s] = hand[s] \/ hand'[s] = <<>>
                                 \/ (~done[s] /\ Len(hand'[s]) <= 1)
                             /\ swept'[s] => swept[s] /\ done'[s],
             \A c \in Call, s \in Side : Missed(c, s)' => Missed(c, s)
      PROVE  SweepInv'
  <2> SUFFICES ASSUME NEW s \in Side
               PROVE  /\ Len(hand'[s]) <= 1
                      /\ swept'[s] => done'[s]
                      /\ \A c, d \in MissedByClose(s)' : c = d
                      /\ hand'[s] # <<>> => MissedByClose(s)' = {}
    BY DEF SweepInv
  <2>1. MissedByClose(s)' \subseteq MissedByClose(s)
    BY <1>2, <1>3, <1>4, <1>5
  <2>2. Len(hand'[s]) <= 1
    BY <1>1, <1>5, EmptySeq DEF SweepInv
  <2>3. ~done[s] => MissedByClose(s) = {}
    BY <1>1 DEF SweepInv, MissedByClose
  <2> QED
    BY <1>1, <1>5, <2>1, <2>2, <2>3 DEF SweepInv
<1>6. ASSUME NEW c \in Call, CallStep(c) \/ HandlerStep(c)
      PROVE  SweepInv'
  <2>1. hand' = hand /\ swept' = swept /\ \A s \in Side : done[s] => done'[s]
    BY <1>1, <1>6 DEF CallStep, CallStart, CallSend, CallWait, CallCancel, CallAck, CallReturn,
       EndContext, HandlerStep, HandlerExpire, HandlerReturn, HandlerReply, HandlerFinish,
       Enqueue, Close, ConnType
  <2>2. \A d \in Call, s \in Side : Missed(d, s)' => Missed(d, s)
    BY <1>1, <1>6, <2>1 DEF CallStep, CallStart, CallSend, CallWait, CallCancel, CallAck,
       CallReturn, EndContext, HandlerStep, HandlerExpire, HandlerReturn, HandlerReply,
       HandlerFinish, HandlerType
  <2> HIDE DEF Missed
  <2> QED
    BY <1>1, <1>5, <2>1, <2>2 DEF SweepInv
<1>7. ASSUME NEW t \in Side, UserClose(t) \/ Write(t) \/ Read(t) \/ SlotRelease(t)
      PROVE  SweepInv'
  <2>1. UNCHANGED <<swept, serving, cancelled>> /\ \A s \in Side : done[s] => done'[s]
    BY <1>1, <1>7 DEF UserClose, Write, Read, SlotRelease, Close, ConnType
  <2>2. \A s \in Side : hand'[s] = hand[s] \/ (~done[s] /\ Len(hand'[s]) <= 1)
    <3>1. CASE hand' = hand
      BY <3>1
    <3>2. CASE wire[Other(t)] # <<>> /\ ~done[t]
                 /\ hand' = [hand EXCEPT ![t] = <<Head(wire[Other(t)])>>]
      <4>1. Head(wire[Other(t)]) \in Frame
        BY <1>1, <3>2, OtherSide, QueueTypes
      <4> PICK h : h = <<Head(wire[Other(t)])>>
        OBVIOUS
      <4>2. Len(h) = 1
        BY <4>1
      <4>3. hand' = [hand EXCEPT ![t] = h]
        BY <3>2
      <4> QED
        BY <1>1, <3>2, <4>2, <4>3 DEF QueueType
    <3> QED
      BY <1>7, <3>1, <3>2 DEF UserClose, Write, Read, SlotRelease
  <2> QED
    BY <1>1, <1>5, <2>1, <2>2 DEF SweepInv
<1>8. ASSUME NEW t \in Side, Sweep(t)
      PROVE  SweepInv'
  <2>1. hand' = hand /\ done' = done /\ serving' = serving /\ done[t]
        /\ \A s \in Side : s # t => swept'[s] = swept[s]
    BY <1>1, <1>8 DEF Sweep, ConnType
  <2>2. \A c \in Call : (cancelled[c] => cancelled'[c]) /\ (c \in Active(t) => cancelled'[c])
    BY <1>1, <1>8 DEF Sweep, HandlerType
  <2>3. MissedByClose(t)' = {}
    BY <2>1, <2>2 DEF MissedByClose, Active
  <2>4. \A s \in Side : s # t => MissedByClose(s)' \subseteq MissedByClose(s)
    BY <2>1, <2>2 DEF MissedByClose, Active
  <2> QED
    BY <1>1, <2>1, <2>3, <2>4 DEF SweepInv
<1>9. ASSUME NEW t \in Side, Dispatch(t), OwnRequest(t)
      PROVE  SweepInv'
  <2> PICK m : m = Head(hand[t])
    OBVIOUS
  <2>1. /\ m.id \in Call /\ (m.kind = "request" => Caller[m.id] = Other(t)) /\ hand[t] # <<>>
        /\ hand' = [hand EXCEPT ![t] = <<>>]
        /\ \/ \E cause \in Causes : Refuse(t, cause)
           \/ m.kind = "request" /\ Starts(t, m.id)
           \/ Delivers(m.id)
           \/ DispatchCancel(t, m.id)
           \/ UNCHANGED <<connVars, slots, answered, handlerVars>>
    <3>1. hand[t] # <<>> /\ hand' = [hand EXCEPT ![t] = <<>>] /\ m \in Frame
      BY <1>9, QueueTypes DEF Dispatch
    <3>2. m.id \in Call /\ (m.kind = "request" => Caller[m.id] = Other(t))
      BY <1>9, <3>1 DEF Frame, OwnRequest
    <3>3. \/ \E cause \in Causes : Refuse(t, cause)
          \/ m.kind = "request" /\ Starts(t, m.id)
          \/ Delivers(m.id)
          \/ DispatchCancel(t, m.id)
          \/ UNCHANGED <<connVars, slots, answered, handlerVars>>
      BY <1>9 DEF Dispatch, DispatchReply, DispatchRequest, Starts, Delivers, Causes
    <3> QED
      BY <3>1, <3>2, <3>3
  <2>2. /\ hand'[t] = <<>> /\ \A s \in Side : s # t => hand'[s] = hand[s]
        /\ swept' = swept /\ \A s \in Side : done[s] => done'[s]
    BY <1>1, <2>1 DEF Refuse, Close, Starts, Delivers, DispatchCancel, QueueType, ConnType
  <2>3. CASE m.kind = "request" /\ Starts(t, m.id)
    <3>1. Caller[m.id] = Other(t) /\ Other(t) \in Side /\ Other(t) # t
          /\ \A s \in Side : s = t \/ s = Other(t)
      BY <2>1, <2>3, OtherSide
    <3>2. /\ \A c \in Call : c # m.id => serving'[c] = serving[c] /\ cancelled'[c] = cancelled[c]
          /\ UNCHANGED connVars
      BY <1>1, <2>3 DEF Starts, HandlerType
    <3>3. MissedByClose(t)' \subseteq {m.id}
      <4>1. MissedByClose(t) = {}
        BY <2>1 DEF SweepInv
      <4> QED
        BY <1>2, <1>3, <1>4, <3>2, <4>1
    <3>4. \A s \in Side : s # t => MissedByClose(s)' \subseteq MissedByClose(s)
      BY <1>2, <1>3, <1>4, <3>1, <3>2
    <3>5. Len(hand'[t]) <= 1
      BY <2>2, EmptySeq
    <3> HIDE DEF Missed
    <3> QED
      BY <1>1, <2>2, <3>2, <3>3, <3>4, <3>5 DEF SweepInv
  <2>4. CASE serving' = serving /\ \A c \in Call : cancelled[c] => cancelled'[c]
    <3>1. \A c \in Call, s \in Side : Missed(c, s)' => Missed(c, s)
      BY <2>2, <2>4
    <3> HIDE DEF Missed
    <3>2. \A s \in Side : hand'[s] = hand[s] \/ hand'[s] = <<>>
      BY <2>2
    <3> QED
      BY <1>1, <1>5, <2>2, <3>1, <3>2 DEF SweepInv
  <2> QED
    BY <1>1, <2>1, <2>3, <2>4 DEF Refuse, Delivers, DispatchCancel, HandlerType
<1>10. CASE UNCHANGED <<hand, swept, handlerVars>> /\ \A s \in Side : done[s] => done'[s]
  BY <1>10 DEF SweepInv, MissedByClose, Active
<1> QED
  BY <1>6, <1>7, <1>8, <1>9, <1>10 DEF SideStep

\* Two SDK ends: what a reader has in hand is a frame the other end sent.
LEMMA StepSweep ==
  ASSUME IInv, [Next]_vars
  PROVE  SweepInv'
<1>1. TypeOK /\ SweepInv
  BY DEF IInv
<1>2. \A s \in Side : OwnRequest(s)
  BY InHand DEF OwnRequest, FrameOK
<1>3. CASE UNCHANGED vars
  BY <1>1, <1>3, SweepKept
<1> QED
  BY <1>1, <1>2, <1>3, SweepKept DEF Next

\* No end is closed over a duplicate.
LEMMA StepDuplicates ==
  ASSUME IInv, [Next]_vars
  PROVE  NeverDuplicates'
<1>1. NeverDuplicates /\ ConnType
  BY TypeParts DEF IInv
<1>2. ASSUME UNCHANGED why
      PROVE  NeverDuplicates'
  BY <1>1, <1>2 DEF NeverDuplicates
<1>3. ASSUME NEW s \in Side, NEW cause \in {"lost", "envelope", "slots"}, Close(s, cause)
      PROVE  NeverDuplicates'
  BY <1>1, <1>3 DEF Close, NeverDuplicates, ConnType
<1>4. ASSUME NEW c \in Call, CallStep(c)
      PROVE  NeverDuplicates'
  <2>1. Caller[c] \in Side
    OBVIOUS
  <2> QED
    BY <1>2, <1>3, <1>4, <2>1 DEF CallStep, CallStart, CallSend, CallWait, CallCancel, CallAck,
       CallReturn, EndContext
<1>5. ASSUME NEW c \in Call, HandlerStep(c)
      PROVE  NeverDuplicates'
  <2>1. Callee(c) \in Side
    BY OtherSide DEF Callee
  <2> QED
    BY <1>2, <1>3, <1>5, <2>1 DEF HandlerStep, HandlerExpire, HandlerReturn, HandlerReply,
       HandlerFinish
<1>6. ASSUME NEW s \in Side, Dispatch(s)
      PROVE  NeverDuplicates'
  <2> PICK m : m = Head(hand[s])
    OBVIOUS
  <2> QED
    BY <1>2, <1>3, <1>6, Dispatched DEF Refuse, Starts, Delivers, DispatchCancel
<1>7. ASSUME NEW s \in Side, UserClose(s) \/ Sweep(s) \/ Write(s) \/ Read(s) \/ SlotRelease(s)
      PROVE  NeverDuplicates'
  BY <1>2, <1>3, <1>7 DEF UserClose, Sweep, Write, Read, SlotRelease
<1> QED
  BY <1>2, <1>4, <1>5, <1>6, <1>7 DEF Next, SideStep

----------------------------------------------------------------------------
(* The invariant, and what follows from it.                                *)

\* Every step keeps every part of the invariant.
LEMMA StepIInv == IInv /\ [Next]_vars => IInv'
<1> SUFFICES ASSUME IInv, [Next]_vars PROVE IInv'
  OBVIOUS
<1>1. TypeOK /\ SlotAccounting /\ CallInv /\ TransitInv
  BY DEF IInv
<1>2. TypeOK' /\ CallInv' /\ TransitInv'
  <2>1. ASSUME NEW c \in Call, CallStep(c)
        PROVE  TypeOK' /\ CallInv' /\ TransitInv'
    BY <1>1, <2>1, CallTypes, CallSteady, CallKeeps
  <2>2. ASSUME NEW c \in Call, HandlerStep(c)
        PROVE  TypeOK' /\ CallInv' /\ TransitInv'
    BY <1>1, <2>2, HandlerTypes, HandlerSteady, HandlerKeeps
  <2>3. ASSUME NEW s \in Side, SideStep(s)
        PROVE  TypeOK' /\ CallInv' /\ TransitInv'
    <3>1. TypeOK'
      BY <1>1, <2>3, SideTypes
    <3>2. TransitInv'
      BY <2>3, <3>1, SideKeeps
    <3>3. CallInv'
      BY <1>1, <2>3, <3>1, SideSteady, DispatchKeeps DEF SideStep
    <3> QED
      BY <3>1, <3>2, <3>3
  <2>4. CASE UNCHANGED vars
    <3>1. TypeOK'
      BY <1>1, <2>4, TypeKept, TypePartsNext
    <3>2. PICK s : s \in Side
      BY FS_EmptySet
    <3>3. CallInv' /\ \A t \in Side : Steady(t)
      BY <1>1, <2>4, <3>2, SideSteady
    <3>4. \A t \in Side : NoneSends(t)
      BY <2>4 DEF NoneSends
    <3>5. TransitInv'
      BY <1>1, <2>4, <3>3, <3>4, SilentKeeps
    <3> QED
      BY <3>1, <3>3, <3>5
  <2> QED
    BY <2>1, <2>2, <2>3, <2>4 DEF Next
<1>3. SlotAccounting' /\ SweepInv' /\ NeverDuplicates'
  BY StepSlots, StepSweep, StepDuplicates
<1> QED
  BY <1>2, <1>3 DEF IInv

\* The inductive invariant of the two peers.
THEOREM Invariant == Spec => []IInv
BY InitIInv, StepIInv, PTL DEF Spec

\* Every variable keeps its type: above all a channel of slots never holds
\* more tokens than it has room for, nor gives one back that it has not.
THEOREM TypeCorrect == Spec => []TypeOK
<1>1. IInv => TypeOK
  BY DEF IInv
<1> QED
  BY <1>1, Invariant, PTL

\* Each token in p.slots belongs to one handler goroutine of that end.
THEOREM Slots == Spec => []SlotAccounting
<1>1. IInv => SlotAccounting
  BY DEF IInv
<1> QED
  BY <1>1, Invariant, PTL

\* No reader meets an ID it serves or a second reply, so that neither end
\* closes the stream over a duplicate of its own making.
THEOREM Duplicates == Spec => []NeverDuplicates
<1>1. IInv => NeverDuplicates
  BY DEF IInv
<1> QED
  BY <1>1, Invariant, PTL

\* A cancel frame never overtakes its request on the way to the handler.
THEOREM CancelBehind == Spec => []CancelBehindRequest
<1>1. IInv => CancelBehindRequest
  BY DEF IInv, TransitInv, SideOK, CancelsBehind, Asked, Fresh, CancelBehindRequest
<1> QED
  BY <1>1, Invariant, PTL

\* What SweepInv says of two of them, as a number.
LEMMA SweepCounts == SweepInv => AtMostOneMissedByClose
<1> SUFFICES ASSUME SweepInv, NEW s \in Side PROVE Cardinality(MissedByClose(s)) <= 1
  BY DEF AtMostOneMissedByClose
<1>1. \A c, d \in MissedByClose(s) : c = d
  BY DEF SweepInv
<1> DEFINE M == MissedByClose(s)
<1> HIDE DEF M
<1>2. CASE M = {}
  BY <1>2, FS_EmptySet DEF M
<1>3. CASE M # {}
  <2>1. PICK c : M = {c}
    BY <1>1, <1>3 DEF M
  <2>2. Cardinality({c}) = 1
    BY FS_Singleton
  <2> QED
    BY <2>1, <2>2 DEF M
<1> QED
  BY <1>2, <1>3

\* One handler at most runs on behind the sweep of a Close.
THEOREM MissedByOneClose == Spec => []AtMostOneMissedByClose
<1>1. IInv => AtMostOneMissedByClose
  BY SweepCounts DEF IInv
<1> QED
  BY <1>1, Invariant, PTL

----------------------------------------------------------------------------
(* The peers implement the contract of a Call.                             *)

\* What moves neither a handler nor a result is not seen by the contract.
LEMMA NothingSeen ==
  ASSUME \A c \in Call : Effect(c)' = Effect(c), UNCHANGED result
  PROVE  UNCHANGED Contract!rpcVars
<1>1. \A c \in Call : Report(c)' = Report(c)
  BY DEF Report
<1> QED
  BY <1>1 DEF Contract!rpcVars

\* Steps of a Call are silent or they tell its caller what it came to.
LEMMA CallRefines ==
  ASSUME IInv, NEW c \in Call, CallStep(c)
  PROVE  Contract!Report(c) \/ UNCHANGED Contract!rpcVars
<1>1. TypeOK /\ CallInv /\ CallType
  BY TypeParts DEF IInv
<1>2. \A d \in Call : Effect(d)' = Effect(d)
  BY DEF CallStep, CallStart, CallSend, CallWait, CallCancel, CallAck, CallReturn, EndContext,
     Effect
<1>3. CASE UNCHANGED result
  BY <1>2, <1>3, NothingSeen
<1>4. ASSUME NEW r \in {"limit", "unsent", "reply", "acked", "lost"}, result[c] = "none",
             result' = [result EXCEPT ![c] = r],
             r \in {"limit", "unsent"} => Fresh(c), r \in {"reply", "acked"} => Over(c)
      PROVE  Contract!Report(c)
  <2> DEFINE R == CASE r \in {"limit", "unsent"} -> "never"
                    [] r \in {"reply", "acked"} -> "over"
                    [] r = "lost" -> "unknown"
  <2>1. /\ R \in {"never", "over", "unknown"}
        /\ R = "never" => Effect(c) = "none"
        /\ R = "over" => Effect(c) = "over"
    BY <1>4 DEF Effect, Fresh, Over
  <2>2. Report(c) = "none" /\ Report(c)' = R
    BY <1>1, <1>4 DEF Report, CallType
  <2>3. \A d \in Call : d # c => Report(d)' = Report(d)
    BY <1>1, <1>4 DEF Report, CallType
  <2> HIDE DEF R
  <2> QED
    BY <1>2, <2>1, <2>2, <2>3 DEF Contract!Report
<1>5. \/ UNCHANGED result
      \/ \E r \in {"limit", "unsent", "reply", "acked", "lost"} :
           /\ result' = [result EXCEPT ![c] = r]
           /\ pc[c] \in {"idle", "sending", "waiting", "acking"}
           /\ r \in {"limit", "unsent"} => pc[c] \in {"idle", "sending"}
           /\ r \in {"reply", "acked"} => answered[c]
  BY DEF CallStep, CallStart, CallSend, CallWait, CallCancel, CallAck, CallReturn, EndContext,
     Leave
<1> QED
  BY <1>1, <1>3, <1>4, <1>5 DEF CallInv

\* Steps of a handler are silent or they finish the effect of its Call.
LEMMA HandlerRefines ==
  ASSUME IInv, NEW c \in Call, HandlerStep(c)
  PROVE  Contract!Finish(c) \/ UNCHANGED Contract!rpcVars
<1>1. HandlerType
  BY TypeParts DEF IInv
<1>2. CASE HandlerExpire(c) \/ HandlerReturn(c) \/ HandlerFinish(c)
  <2>1. \A d \in Call : Effect(d)' = Effect(d)
    BY <1>1, <1>2 DEF HandlerExpire, HandlerReturn, HandlerFinish, Effect, HandlerType
  <2>2. UNCHANGED result
    BY <1>2 DEF HandlerExpire, HandlerReturn, HandlerFinish
  <2> QED
    BY <2>1, <2>2, NothingSeen
<1>3. CASE HandlerReply(c)
  <2>1. /\ Effect(c) = "running" /\ Effect(c)' = "over"
        /\ \A d \in Call : d # c => Effect(d)' = Effect(d)
    BY <1>1, <1>3 DEF HandlerReply, Effect, HandlerType
  <2>2. \A d \in Call : Report(d)' = Report(d)
    BY <1>3 DEF HandlerReply, Report
  <2> QED
    BY <2>1, <2>2 DEF Contract!Finish
<1> QED
  BY <1>2, <1>3 DEF HandlerStep

\* Steps of an end are silent, or its reader begins the effect of a Call.
LEMMA SideRefines ==
  ASSUME IInv, NEW s \in Side, SideStep(s)
  PROVE  (\E c \in Call : Contract!Begin(c)) \/ UNCHANGED Contract!rpcVars
<1>1. HandlerType
  BY TypeParts DEF IInv
<1>2. CASE UserClose(s) \/ Sweep(s) \/ Write(s) \/ Read(s) \/ SlotRelease(s)
  <2>1. \A c \in Call : Effect(c)' = Effect(c)
    BY <1>1, <1>2 DEF UserClose, Sweep, Write, Read, SlotRelease, Active, Effect, HandlerType
  <2>2. UNCHANGED result
    BY <1>2 DEF UserClose, Sweep, Write, Read, SlotRelease
  <2> QED
    BY <2>1, <2>2, NothingSeen
<1>3. CASE Dispatch(s)
  <2> PICK m : m = Head(hand[s])
    OBVIOUS
  <2>1. /\ m.id \in Call /\ FrameOK(Other(s), m) /\ UNCHANGED result
        /\ \/ \E cause \in {"envelope", "slots"} : Refuse(s, cause)
           \/ m.kind = "request" /\ Starts(s, m.id)
           \/ m.kind = "reply" /\ Delivers(m.id)
           \/ m.kind # "request" /\ DispatchCancel(s, m.id)
           \/ m.kind # "request" /\ UNCHANGED <<connVars, slots, answered, handlerVars>>
    BY <1>3, Dispatched
  <2>2. CASE m.kind = "request" /\ Starts(s, m.id)
    <3>1. Effect(m.id) = "none" /\ Report(m.id) # "never"
      <4>1. Fresh(m.id) /\ result[m.id] \notin {"limit", "unsent"}
        BY <2>1, <2>2 DEF FrameOK
      <4>2. result[m.id] \in {"none", "reply", "lost", "acked"}
        BY <2>1, <4>1, TypeParts DEF IInv, CallType
      <4> QED
        BY <4>1, <4>2 DEF Fresh, Effect, Report
    <3> PICK c \in Call : c = m.id
      BY <2>1
    <3>2. serving' = [serving EXCEPT ![c] = "running"] /\ cancelled' = [cancelled EXCEPT ![c] = FALSE]
      BY <2>2 DEF Starts
    <3>3. Effect(c)' = "running" /\ \A d \in Call : d # c => Effect(d)' = Effect(d)
      BY <1>1, <3>2 DEF Effect, HandlerType
    <3>4. \A d \in Call : Report(d)' = Report(d)
      BY <2>1 DEF Report
    <3>5. Contract!Begin(c)
      BY <3>1, <3>3, <3>4 DEF Contract!Begin
    <3> QED
      BY <3>5
  <2>3. CASE serving' = serving /\ \A c \in Call : serving[c] = "none" => cancelled'[c] = cancelled[c]
    <3>1. \A c \in Call : Effect(c)' = Effect(c)
      BY <2>3 DEF Effect
    <3> QED
      BY <2>1, <3>1, NothingSeen
  <2> QED
    BY <1>1, <2>1, <2>2, <2>3 DEF Refuse, Delivers, DispatchCancel, Active, HandlerType
<1> QED
  BY <1>2, <1>3 DEF SideStep

\* Two ends keep what a Call promises: its handler runs at most once, never
\* when the Call reports that it was not sent, and is over when the Call
\* returns with a reply or an acknowledged cancellation.
THEOREM Refinement == Spec => ImplementsRpc
<1>1. Init => Contract!RpcInit
  BY DEF Init, Contract!RpcInit, Effect, Report
<1>2. IInv /\ [Next]_vars => [Contract!RpcNext]_(Contract!rpcVars)
  <2> SUFFICES ASSUME IInv, [Next]_vars
               PROVE  Contract!RpcNext \/ UNCHANGED Contract!rpcVars
    OBVIOUS
  <2>1. CASE UNCHANGED vars
    <3>1. \A c \in Call : Effect(c)' = Effect(c)
      BY <2>1 DEF Effect
    <3> QED
      BY <2>1, <3>1, NothingSeen
  <2>2. ASSUME NEW c \in Call, CallStep(c) \/ HandlerStep(c)
        PROVE  Contract!RpcNext \/ UNCHANGED Contract!rpcVars
    BY <2>2, CallRefines, HandlerRefines DEF Contract!RpcNext
  <2>3. ASSUME NEW s \in Side, SideStep(s)
        PROVE  Contract!RpcNext \/ UNCHANGED Contract!rpcVars
    BY <2>3, SideRefines DEF Contract!RpcNext
  <2> QED
    BY <2>1, <2>2, <2>3 DEF Next
<1> QED
  BY <1>1, <1>2, Invariant, PTL DEF Spec, ImplementsRpc, Contract!RpcSpec

----------------------------------------------------------------------------
(* One end that faces any remote.                                          *)

\* What a remote that writes any frames cannot break.  It answers no IDs but
\* those of its peer and asks under no others than its own; a closed end
\* starts at most one handler more; a reader that has refused a frame has closed
\* its end and has nothing in hand.
Asker(m) == m.kind = "request" => Caller[m.id] = Remote

OpenInv ==
  /\ TypeOK /\ SlotAccounting /\ SweepInv
  /\ \A i \in 1 .. Len(wire[Remote]) : Asker(wire[Remote][i])
  /\ hand[Local] # <<>> => Asker(Head(hand[Local]))
  /\ why[Local] \notin {"none", "lost"} => done[Local] /\ hand[Local] = <<>>

\* The end starts in this invariant.
LEMMA InitOpen == Init => OpenInv
<1> SUFFICES ASSUME Init PROVE OpenInv
  OBVIOUS
<1>1. TypeOK /\ SlotAccounting /\ SweepInv
  BY InitIInv DEF IInv
<1>2. Remote \in Side /\ Local \in Side
  BY OtherSide, LocalAssumption DEF Remote
<1>3. wire[Remote] = <<>> /\ hand[Local] = <<>> /\ why[Local] = "none" /\ Len(<<>>) = 0
  BY <1>2, EmptySeq DEF Init
<1> QED
  BY <1>1, <1>3 DEF OpenInv

\* What the remote does keeps the types, and moves no handler.
LEMMA RemoteTypes ==
  ASSUME TypeOK, RemoteWrite \/ RemoteRead \/ RemoteClose
  PROVE  TypeOK' /\ UNCHANGED <<serving, slotVars, hand>>
<1>1. Remote \in Side /\ Local \in Side /\ "lost" \in Causes
  BY OtherSide, LocalAssumption DEF Remote, Causes
<1>2. UNCHANGED <<out, hand, slotVars, callVars, handlerVars>>
  BY DEF RemoteWrite, RemoteRead, RemoteClose
<1>3. ConnType'
  BY <1>1, CloseTypes, TypeKept DEF RemoteWrite, RemoteRead, RemoteClose
<1>4. QueueType'
  <2> DEFINE Q == [Side -> Seq(Frame)]
  <2>1. out \in Q /\ wire \in Q /\ hand \in Q
    BY TypeParts DEF QueueType
  <2>2. \A q \in Q, t \in Side, v \in Seq(Frame) : [q EXCEPT ![t] = v] \in Q
    OBVIOUS
  <2> HIDE DEF Q
  <2>3. CASE RemoteWrite
    <3>1. PICK m \in RemoteFrame : wire' = [wire EXCEPT ![Remote] = Append(wire[Remote], m)]
      BY <2>3 DEF RemoteWrite
    <3>2. Append(wire[Remote], m) \in Seq(Frame)
      BY <1>1, QueueTypes DEF RemoteFrame
    <3> QED
      BY <1>1, <1>2, <2>1, <2>2, <3>1, <3>2 DEF QueueType, Q
  <2>4. CASE RemoteRead
    <3>1. Tail(wire[Local]) \in Seq(Frame) /\ wire' = [wire EXCEPT ![Local] = Tail(wire[Local])]
      BY <1>1, <2>4, QueueTypes DEF RemoteRead
    <3> QED
      BY <1>1, <1>2, <2>1, <2>2, <3>1 DEF QueueType, Q
  <2>5. CASE RemoteClose
    BY <2>5, TypeKept DEF RemoteClose
  <2> QED
    BY <2>3, <2>4, <2>5
<1> QED
  BY <1>2, <1>3, <1>4, TypeKept, TypePartsNext

\* Every step of the end and of its remote keeps the types.
LEMMA OpenTypes ==
  ASSUME OpenInv, [OpenNext]_vars
  PROVE  TypeOK'
<1>1. TypeOK /\ SlotAccounting /\ Local \in Side
  BY LocalAssumption DEF OpenInv
<1>2. CASE UNCHANGED vars
  BY <1>1, <1>2, TypeKept, TypePartsNext
<1> QED
  BY <1>1, <1>2, RemoteTypes, CallTypes, HandlerTypes, SideTypes DEF OpenNext, LocalStep

\* And the slots: all that the end serves is asked under IDs of the remote's.
LEMMA OpenSlots ==
  ASSUME OpenInv, [OpenNext]_vars
  PROVE  SlotAccounting'
<1>1. TypeOK /\ SlotAccounting /\ Local \in Side /\ Remote = Other(Local)
  BY LocalAssumption DEF OpenInv, Remote
<1>2. ASSUME Dispatch(Local)
      PROVE  SlotAccounting'
  <2> PICK m : m = Head(hand[Local])
    OBVIOUS
  <2>1. m.kind = "request" => Caller[m.id] = Other(Local)
    BY <1>1, <1>2 DEF Dispatch, OpenInv, Asker
  <2> QED
    BY <1>1, <1>2, <2>1, DispatchSlots
<1>3. CASE UNCHANGED vars
  BY <1>1, <1>3, SlotsSame
<1> QED
  BY <1>1, <1>2, <1>3, SlotsSame, RemoteTypes, NoHandlerMoves, HandlerSlots, ReleaseSlots
  DEF OpenNext, LocalStep, SideStep

\* And how far its close has got: the frame it has in hand is one of those.
LEMMA OpenSweep ==
  ASSUME OpenInv, [OpenNext]_vars
  PROVE  SweepInv'
<1>1. TypeOK /\ SweepInv /\ Local \in Side /\ Remote = Other(Local)
  BY LocalAssumption DEF OpenInv, Remote
<1>2. OwnRequest(Local)
  BY <1>1 DEF OpenInv, Asker, OwnRequest
<1>3. CASE RemoteWrite \/ RemoteRead \/ RemoteClose \/ UNCHANGED vars
  <2>1. UNCHANGED <<hand, swept, handlerVars>> /\ \A s \in Side : done[s] => done'[s]
    BY <1>1, <1>3, TypeParts DEF RemoteWrite, RemoteRead, RemoteClose, Close, ConnType
  <2> QED
    BY <1>1, <2>1, SweepKept
<1> QED
  BY <1>1, <1>2, <1>3, SweepKept DEF OpenNext, LocalStep

\* The frames of the remote stay such as it writes, on their way and in hand.
LEMMA OpenFrames ==
  ASSUME OpenInv, [OpenNext]_vars, TypeOK'
  PROVE  /\ \A i \in 1 .. Len(wire'[Remote]) : Asker(wire'[Remote][i])
         /\ hand'[Local] # <<>> => Asker(Head(hand'[Local]))
<1>1. /\ TypeOK /\ Local \in Side /\ Remote \in Side /\ Remote = Other(Local) /\ Remote # Local
      /\ wire[Remote] \in Seq(Frame) /\ hand[Local] \in Seq(Frame)
  BY LocalAssumption, OtherSide DEF OpenInv, Remote, TypeOK
<1>2. /\ \A i \in 1 .. Len(wire[Remote]) : Asker(wire[Remote][i])
      /\ hand[Local] # <<>> => Asker(Head(hand[Local]))
  BY DEF OpenInv
<1>3. CASE wire'[Remote] = wire[Remote] /\ (hand'[Local] = hand[Local] \/ hand'[Local] = <<>>)
  BY <1>2, <1>3
<1>4. CASE RemoteWrite
  <2>1. PICK m \in RemoteFrame : wire' = [wire EXCEPT ![Remote] = Append(wire[Remote], m)]
    BY <1>4 DEF RemoteWrite
  <2>2. m \in Frame /\ Asker(m)
    <3>1. m \in Frame /\ m.id \in Call /\ (m.kind = "reply" <=> Caller[m.id] = Local)
      BY DEF RemoteFrame, Frame
    <3>2. Caller[m.id] \in Side
      BY <3>1
    <3> QED
      BY <1>1, <3>1, <3>2, OtherSide DEF Asker
  <2>3. /\ wire'[Remote] = Append(wire[Remote], m) /\ hand' = hand
    BY <1>1, <1>4, <2>1 DEF RemoteWrite, TypeOK
  <2> DEFINE w == wire[Remote]
  <2>4. /\ Len(w) \in Nat /\ Len(Append(w, m)) = Len(w) + 1 /\ Append(w, m)[Len(w) + 1] = m
        /\ \A i \in 1 .. Len(w) : Append(w, m)[i] = w[i]
    BY <1>1, <2>2, AppendProperties, LenProperties
  <2>5. \A i \in 1 .. Len(w) : Asker(w[i])
    BY <1>2
  <2> HIDE DEF w
  <2>6. \A i \in 1 .. Len(Append(w, m)) : Asker(Append(w, m)[i])
    <3> SUFFICES ASSUME NEW i \in 1 .. Len(Append(w, m)) PROVE Asker(Append(w, m)[i])
      OBVIOUS
    <3>1. CASE i = Len(w) + 1
      BY <2>2, <2>4, <3>1
    <3>2. CASE i \in 1 .. Len(w)
      BY <2>4, <2>5, <3>2
    <3> QED
      BY <2>4, <3>1, <3>2
  <2> QED
    BY <1>2, <2>3, <2>6 DEF w
<1>5. CASE Read(Local) /\ ~UNCHANGED queueVars
  <2>1. /\ wire[Remote] # <<>> /\ wire'[Remote] = Tail(wire[Remote])
        /\ hand'[Local] = <<Head(wire[Remote])>>
    BY <1>1, <1>5 DEF Read, TypeOK
  <2> DEFINE w == wire[Remote]
  <2>2. w \in Seq(Frame) /\ w # <<>> /\ \A i \in 1 .. Len(w) : Asker(w[i])
    BY <1>1, <1>2, <2>1
  <2> HIDE DEF w
  <2>3. /\ Len(w) \in Nat \ {0} /\ Head(w) = w[1] /\ Len(Tail(w)) = Len(w) - 1
        /\ \A i \in 1 .. Len(w) - 1 : Tail(w)[i] = w[i + 1]
    BY <2>2, HeadTailProperties, EmptySeq
  <2>4. Asker(Head(w)) /\ \A i \in 1 .. Len(Tail(w)) : Asker(Tail(w)[i])
    BY <2>2, <2>3
  <2>5. \A f : Head(<<f>>) = f
    OBVIOUS
  <2> QED
    BY <2>1, <2>4, <2>5 DEF w
<1>6. \/ wire'[Remote] = wire[Remote] /\ (hand'[Local] = hand[Local] \/ hand'[Local] = <<>>)
      \/ RemoteWrite
      \/ Read(Local) /\ ~UNCHANGED queueVars
  <2>1. ASSUME NEW c \in Call, CallStep(c) \/ HandlerStep(c)
        PROVE  UNCHANGED <<wire, hand>>
    BY <2>1 DEF CallStep, CallStart, CallSend, CallWait, CallCancel, CallAck, CallReturn,
       EndContext, HandlerStep, HandlerExpire, HandlerReturn, HandlerReply, HandlerFinish, Enqueue
  <2>2. RemoteRead \/ RemoteClose => wire'[Remote] = wire[Remote] /\ hand' = hand
    BY <1>1 DEF RemoteRead, RemoteClose, TypeOK
  <2>3. Write(Local) => wire'[Remote] = wire[Remote] /\ hand' = hand
    BY <1>1 DEF Write, TypeOK
  <2>4. Dispatch(Local) => wire' = wire /\ hand'[Local] = <<>>
    BY <1>1 DEF Dispatch, TypeOK
  <2>5. UserClose(Local) \/ Sweep(Local) \/ SlotRelease(Local) => UNCHANGED <<wire, hand>>
    BY DEF UserClose, Sweep, SlotRelease
  <2> QED
    BY <2>1, <2>2, <2>3, <2>4, <2>5 DEF OpenNext, LocalStep, SideStep
<1> QED
  BY <1>3, <1>4, <1>5, <1>6

\* A reader takes its last frame when it refuses one: its end is closed then,
\* and it takes no other.
LEMMA OpenRefused ==
  ASSUME OpenInv, [OpenNext]_vars
  PROVE  why'[Local] \notin {"none", "lost"} => done'[Local] /\ hand'[Local] = <<>>
<1>1. TypeOK /\ Local \in Side /\ Remote \in Side /\ Remote # Local
  BY LocalAssumption, OtherSide DEF OpenInv, Remote
<1>2. why[Local] \notin {"none", "lost"} => done[Local] /\ hand[Local] = <<>>
  BY DEF OpenInv
<1>3. \A s \in Side : Close(s, "lost") =>
        /\ why'[Local] \in {why[Local], "lost"}
        /\ done[Local] => done'[Local]
  BY <1>1 DEF Close, TypeOK
<1>4. CASE Dispatch(Local)
  <2>1. hand'[Local] = <<>> /\ hand[Local] # <<>>
    BY <1>1, <1>4 DEF Dispatch, TypeOK
  <2>2. UNCHANGED connVars \/ done'[Local]
    BY <1>1, <1>4 DEF Dispatch, Refuse, DispatchReply, DispatchCancel, DispatchRequest, Close,
       TypeOK
  <2> QED
    BY <1>2, <2>1, <2>2
<1>5. CASE Read(Local)
  <2>1. ~done[Local] /\ (UNCHANGED connVars \/ (Close(Local, "lost") /\ hand' = hand))
    BY <1>5 DEF Read
  <2> QED
    BY <1>1, <1>2, <1>3, <2>1
<1>6. ASSUME UNCHANGED hand,
             UNCHANGED connVars \/ UNCHANGED <<done, why>> \/ \E s \in Side : Close(s, "lost")
      PROVE  why'[Local] \notin {"none", "lost"} => done'[Local] /\ hand'[Local] = <<>>
  BY <1>2, <1>3, <1>6
<1>7. \A c \in Call : Caller[c] \in Side /\ Callee(c) \in Side
  BY OtherSide DEF Callee
<1>8. ASSUME NEW c \in Call, CallStep(c) \/ HandlerStep(c)
      PROVE  /\ UNCHANGED hand
             /\ UNCHANGED connVars \/ \E s \in Side : Close(s, "lost")
  BY <1>7, <1>8 DEF CallStep, CallStart, CallSend, CallWait, CallCancel, CallAck, CallReturn,
     EndContext, HandlerStep, HandlerExpire, HandlerReturn, HandlerReply, HandlerFinish, Enqueue
<1>9. ASSUME RemoteWrite \/ RemoteRead \/ RemoteClose \/ UserClose(Local) \/ Sweep(Local)
             \/ Write(Local) \/ SlotRelease(Local) \/ UNCHANGED vars
      PROVE  /\ UNCHANGED hand
             /\ UNCHANGED connVars \/ UNCHANGED <<done, why>> \/ \E s \in Side : Close(s, "lost")
  BY <1>1, <1>9 DEF RemoteWrite, RemoteRead, RemoteClose, UserClose, Sweep, Write, SlotRelease
<1> QED
  BY <1>4, <1>5, <1>6, <1>8, <1>9 DEF OpenNext, LocalStep, SideStep

\* The inductive invariant of the end, whatever its remote writes.
THEOREM OpenInvariant == OpenSpec => []OpenInv
<1>1. OpenInv /\ [OpenNext]_vars => OpenInv'
  <2> SUFFICES ASSUME OpenInv, [OpenNext]_vars PROVE OpenInv'
    OBVIOUS
  <2>1. TypeOK' /\ SlotAccounting' /\ SweepInv'
    BY OpenTypes, OpenSlots, OpenSweep
  <2>2. /\ \A i \in 1 .. Len(wire'[Remote]) : Asker(wire'[Remote][i])
        /\ hand'[Local] # <<>> => Asker(Head(hand'[Local]))
    BY <2>1, OpenFrames
  <2> QED
    BY <2>1, <2>2, OpenRefused DEF OpenInv, Remote, Other, Asker
<1> QED
  BY <1>1, InitOpen, PTL DEF OpenSpec

\* No remote makes an end take a slot it has not, or give one back twice: each
\* token belongs to one handler goroutine.
THEOREM OpenSlotsOwned == OpenSpec => [](TypeOK /\ SlotAccounting)
<1>1. OpenInv => TypeOK /\ SlotAccounting
  BY DEF OpenInv
<1> QED
  BY <1>1, OpenInvariant, PTL

\* One handler at most runs on behind the sweep of a Close, though the remote
\* goes on asking, under IDs it has used before or not.
THEOREM OpenMissedByOneClose == OpenSpec => []AtMostOneMissedByClose
<1>1. OpenInv => AtMostOneMissedByClose
  BY SweepCounts DEF OpenInv
<1> QED
  BY <1>1, OpenInvariant, PTL

\* Behind a frame that the reader refused no request starts a handler.
THEOREM RefusalIsFinal == OpenSpec => NothingAfterRefusal
<1>1. ASSUME OpenInv, [OpenNext]_vars, why[Local] \notin {"none", "lost"},
             NEW c \in Call, serving[c] = "none"
      PROVE  serving'[c] = "none"
  <2>1. ~Dispatch(Local) /\ TypeOK
    BY <1>1 DEF OpenInv, Dispatch
  <2>2. CASE UNCHANGED serving
    BY <1>1, <2>2
  <2>3. ASSUME NEW d \in Call, HandlerStep(d)
        PROVE  serving'[c] = "none"
    BY <1>1, <2>1, <2>3 DEF HandlerStep, HandlerExpire, HandlerReturn, HandlerReply,
       HandlerFinish, TypeOK
  <2>4. RemoteWrite \/ RemoteRead \/ RemoteClose \/ SlotRelease(Local) => UNCHANGED serving
    BY DEF RemoteWrite, RemoteRead, RemoteClose, SlotRelease
  <2> QED
    BY <1>1, <2>1, <2>2, <2>3, <2>4, NoHandlerMoves, LocalAssumption
    DEF OpenNext, LocalStep, SideStep
<1>2. OpenInv /\ [OpenNext]_vars =>
        [why[Local] \notin {"none", "lost"} =>
           \A c \in Call : serving[c] = "none" => serving'[c] = "none"]_vars
  BY <1>1
<1> QED
  BY <1>2, OpenInvariant, PTL DEF OpenSpec, NothingAfterRefusal

=============================================================================
