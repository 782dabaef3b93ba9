------------------------- MODULE FrameStreamProofs -------------------------
(***************************************************************************)
(* Proofs about FrameStream: the two ends of the stream never lose step,   *)
(* for any sizes of headers, payloads and stream, and any number of        *)
(* frames.                                                                 *)
(*                                                                         *)
(* All the frames ever begun are imagined on one tape, header and payload  *)
(* in turn.  What the stream and the reader's buffer hold is the piece of  *)
(* the tape between the reader's place and the writer's.  Only a new frame *)
(* changes the tape, and only behind what the stream has taken.            *)
(***************************************************************************)
EXTENDS FrameStream, TLAPS, SequenceTheorems, WellFoundedInduction

\* Of the constants, most steps need their kinds only.
LEMMA Sizes ==
  /\ HeaderLen \in Nat /\ HeaderLen > 0
  /\ WriterMax \in Nat /\ WriterMax > 0 /\ ReaderMax \in Nat
BY FrameAssumption

USE Sizes

\* The frames whose writing has begun, and the k-th of them.
Frames == IF wpc = "idle" THEN Len(sent) ELSE Len(sent) + 1
FrameNo(k) == IF k <= Len(sent) THEN sent[k] ELSE frame

\* A frame that WriteFrame accepts.
Legal(f) == f \in Payload /\ f \in Seq(Byte) /\ Len(f) \in 1 .. WriterMax

Types ==
  /\ stream \in Seq(Byte) /\ buf \in Seq(Byte) /\ left \in Seq(Byte)
  /\ sent \in Seq(Payload) /\ got \in Seq(Payload)
  /\ cut \in BOOLEAN /\ size \in Nat
  /\ wpc \in {"idle", "header", "payload"}
  /\ rpc \in {"header", "payload", "eof", "unexpected", "size"}

\* What is left to write ends the header or the payload that is being written.
WriterInv ==
  /\ wpc # "idle" => Legal(frame)
  /\ wpc = "header" =>
       /\ Len(left) \in 1 .. HeaderLen
       /\ \A i \in 1 .. Len(left) :
            left[i] = Header(Len(frame))[HeaderLen - Len(left) + i]
  /\ wpc = "payload" =>
       /\ Len(left) \in 1 .. Len(frame)
       /\ \A i \in 1 .. Len(left) : left[i] = frame[Len(frame) - Len(left) + i]

Tape == [Nat -> Byte]
Marks == [Nat -> Nat]

\* The frames lie on the tape one behind the other; pos[k] bytes are before the
\* frame behind the k-th.
Laid(tape, pos) ==
  /\ \A k \in 1 .. Frames :
       /\ Legal(FrameNo(k))
       /\ pos[k] = pos[k - 1] + HeaderLen + Len(FrameNo(k))
       /\ \A i \in 1 .. HeaderLen : tape[pos[k - 1] + i] = Header(Len(FrameNo(k)))[i]
       /\ \A i \in 1 .. Len(FrameNo(k)) : tape[pos[k - 1] + HeaderLen + i] = FrameNo(k)[i]
  /\ \A j, k \in 0 .. Frames : j < k => pos[j + 1] <= pos[k]

\* The bytes of the tape before those of the reader's buffer.
Before(pos) == pos[Len(got)] + (IF rpc = "payload" THEN HeaderLen ELSE 0)

\* Until it ends, the reader is within the frame behind those it returned.
ReaderInv(tape, pos) ==
  rpc \in {"header", "payload"} =>
    /\ Len(got) <= Len(sent)
    /\ \A k \in 1 .. Len(got) : got[k] = sent[k]
    /\ Len(buf) <= Wanted
    /\ Before(pos) + Len(buf) + Len(stream) = pos[Len(sent)] + Begun
    /\ \A i \in 1 .. Len(buf) : buf[i] = tape[Before(pos) + i]
    /\ \A i \in 1 .. Len(stream) : stream[i] = tape[Before(pos) + Len(buf) + i]
    /\ rpc = "payload" => Len(got) < Frames /\ size = Len(FrameNo(Len(got) + 1))

InStep ==
  \E tape \in Tape, pos \in Marks : Laid(tape, pos) /\ ReaderInv(tape, pos)

IInv ==
  /\ Types /\ WriterInv /\ InStep
  /\ rpc \in {"eof", "unexpected"} => cut
  /\ EndMissesOnlyHeader
----------------------------------------------------------------------------
(* Headers.                                                                *)

\* A set of numbers that is not empty has a least.
LEMMA Smallest ==
  ASSUME NEW S \in SUBSET Nat, S # {}
  PROVE  \E n \in S : \A m \in S : n <= m
<1>1. \E n \in S : \A m \in S : ~ (<<m, n>> \in OpToRel(<, Nat))
  BY WFMin, NatLessThanWellFounded, Zenon
<1>2. PICK n \in S : \A m \in S : ~(m < n)
  BY <1>1, Zenon DEF OpToRel
<1> QED
  BY <1>2

\* Induction, of the numbers in a set.
LEMMA Induct ==
  ASSUME NEW S, 0 \in S, \A n \in Nat : n \in S => n + 1 \in S
  PROVE  \A n \in Nat : n \in S
<1> SUFFICES ASSUME Nat \ S # {} PROVE FALSE
  OBVIOUS
<1>1. PICK n \in Nat \ S : \A m \in Nat \ S : n <= m
  BY Smallest
<1>2. n - 1 \in Nat /\ n - 1 \in S
  BY <1>1
<1> QED
  BY <1>1, <1>2

\* f starts with first, and what it is at each later place is made of the one
\* before.
Steps(V) == [Nat -> [V -> V]]
Repeats(f, V, first, Step, len) ==
  /\ f \in [0 .. len -> V] /\ f[0] = first
  /\ \A k \in 1 .. len : f[k] = Step[k][f[k - 1]]

\* There is such a function.
LEMMA Recursive ==
  ASSUME NEW V, NEW first \in V, NEW Step \in Steps(V), NEW len \in Nat
  PROVE  \E f : Repeats(f, V, first, Step, len)
<1> DEFINE Is(f, m) == Repeats(f, V, first, Step, m)
           S == {m \in Nat : \E f : Is(f, m)}
<1> USE DEF Repeats, Steps
<1>1. 0 \in S
  <2>1. Is([k \in 0 .. 0 |-> first], 0)
    OBVIOUS
  <2> QED
    BY <2>1
<1>2. ASSUME NEW m \in Nat, m \in S PROVE m + 1 \in S
  <2>1. PICK f : Is(f, m)
    BY <1>2
  <2> PICK g : g = [k \in 0 .. m + 1 |-> IF k <= m THEN f[k] ELSE Step[m + 1][f[m]]]
    OBVIOUS
  <2>2. g \in [0 .. m + 1 -> V]
    BY <2>1
  <2>3. Is(g, m + 1)
    BY <2>1, <2>2
  <2> HIDE DEF Is
  <2> QED
    BY <2>3
<1>3. len \in S
  <2> HIDE DEF S
  <2> QED
    BY <1>1, <1>2, Induct
<1> QED
  BY <1>3

\* n over and over divided by Base.
LEMMA AboveDef ==
  ASSUME NEW n \in Nat, NEW a, a = Above(n)
  PROVE  /\ a[0] = n /\ \A k \in 0 .. HeaderLen : a[k] \in Nat
         /\ \A k \in 1 .. HeaderLen : a[k] = a[k - 1] \div Base
<1> DEFINE Div(x) == x \div Base
<1>1. \A x \in Nat : Div(x) \in Nat
  BY FrameAssumption
<1>2. a = CHOOSE f : f = [k \in 0 .. HeaderLen |-> IF k = 0 THEN n ELSE Div(f[k - 1])]
  BY Zenon DEF Above
<1> HIDE DEF Div
<1> DEFINE Step == [k \in Nat |-> [x \in Nat |-> Div(x)]]
<1>3. Step \in Steps(Nat)
  BY <1>1 DEF Steps
<1>4. \A k, x \in Nat : Step[k][x] = Div(x)
  OBVIOUS
<1> HIDE DEF Step
<1>5. PICK f : Repeats(f, Nat, n, Step, HeaderLen)
  BY <1>3, Recursive
<1>6. \A k \in 1 .. HeaderLen : k \in Nat /\ f[k - 1] \in Nat /\ f[k] = Div(f[k - 1])
  BY <1>4, <1>5 DEF Repeats
<1>7. f = [k \in 0 .. HeaderLen |-> IF k = 0 THEN n ELSE Div(f[k - 1])]
  BY <1>5, <1>6 DEF Repeats
<1>8. a = [k \in 0 .. HeaderLen |-> IF k = 0 THEN n ELSE Div(a[k - 1])]
  BY <1>2, <1>7, Zenon
<1>9. a[0] = n /\ \A k \in 1 .. HeaderLen : a[k] = Div(a[k - 1])
  <2>1. \A k \in 0 .. HeaderLen : a[k] = IF k = 0 THEN n ELSE Div(a[k - 1])
    BY ONLY <1>8, Zenon
  <2> QED
    BY <2>1
<1> DEFINE S == {i \in Nat : i <= HeaderLen => a[i] \in Nat}
<1>10. 0 \in S
  BY <1>9
<1>11. ASSUME NEW i \in Nat, i \in S PROVE i + 1 \in S
  BY <1>1, <1>9, <1>11
<1>12. \A k \in Nat : k \in S
  <2> HIDE DEF S
  <2> QED
    BY <1>10, <1>11, Induct
<1> QED
  BY <1>9, <1>12 DEF Div

\* What Size makes of the bytes of a header, one after the other.
LEMMA SizeDef ==
  ASSUME NEW header \in [1 .. HeaderLen -> Byte]
  PROVE  \E v : /\ v[0] = 0 /\ Size(header) = v[HeaderLen]
                /\ \A k \in 1 .. HeaderLen : v[k] = Base * v[k - 1] + header[k]
<1> DEFINE Then(k, x) == Base * x + header[k]
<1>1. \A k \in 1 .. HeaderLen, x \in Nat : Then(k, x) \in Nat
  <2> TAKE k \in 1 .. HeaderLen, x \in Nat
  <2>1. header[k] \in Nat
    BY FrameAssumption DEF Byte
  <2> PICK b \in Nat : b = Base
    BY FrameAssumption
  <2>2. b * x \in Nat
    OBVIOUS
  <2> QED
    BY <2>1, <2>2
<1> DEFINE v == CHOOSE f : f = [k \in 0 .. HeaderLen |-> IF k = 0 THEN 0 ELSE Then(k, f[k - 1])]
<1>2. Size(header) = v[HeaderLen]
  BY Zenon DEF Size
<1> HIDE DEF Then
<1> DEFINE Step == [k \in Nat |-> [x \in Nat |-> IF k \in 1 .. HeaderLen THEN Then(k, x) ELSE 0]]
<1>3. Step \in Steps(Nat)
  BY <1>1 DEF Steps
<1>4. \A k \in 1 .. HeaderLen, x \in Nat : Step[k][x] = Then(k, x)
  OBVIOUS
<1> HIDE DEF Step
<1>5. PICK f : Repeats(f, Nat, 0, Step, HeaderLen)
  BY <1>3, Recursive
<1>6. \A k \in 1 .. HeaderLen : f[k - 1] \in Nat /\ f[k] = Then(k, f[k - 1])
  BY <1>4, <1>5 DEF Repeats
<1>7. f = [k \in 0 .. HeaderLen |-> IF k = 0 THEN 0 ELSE Then(k, f[k - 1])]
  BY <1>5, <1>6 DEF Repeats
<1>8. v = [k \in 0 .. HeaderLen |-> IF k = 0 THEN 0 ELSE Then(k, v[k - 1])]
  BY <1>7, Zenon
<1> HIDE DEF v
<1>9. v[0] = 0 /\ \A k \in 1 .. HeaderLen : v[k] = Then(k, v[k - 1])
  BY <1>8
<1> QED
  BY <1>2, <1>9 DEF Then

\* Division does not change which of two numbers is the greater.
LEMMA AboveMonotonic ==
  ASSUME NEW n \in 0 .. WriterMax
  PROVE  Above(n)[HeaderLen] = 0
<1> PICK a, w : a = Above(n) /\ w = Above(WriterMax)
  OBVIOUS
<1>1. /\ a[0] = n /\ \A k \in 0 .. HeaderLen : a[k] \in Nat
      /\ \A k \in 1 .. HeaderLen : a[k] = a[k - 1] \div Base
  BY AboveDef
<1>2. /\ w[0] = WriterMax /\ \A k \in 0 .. HeaderLen : w[k] \in Nat
      /\ \A k \in 1 .. HeaderLen : w[k] = w[k - 1] \div Base
  BY AboveDef
<1> DEFINE S == {k \in Nat : k <= HeaderLen => a[k] <= w[k]}
<1>3. 0 \in S
  BY <1>1, <1>2
<1>4. ASSUME NEW k \in Nat, k \in S PROVE k + 1 \in S
  <2> SUFFICES ASSUME k + 1 <= HeaderLen PROVE a[k + 1] <= w[k + 1]
    OBVIOUS
  <2>1. k + 1 \in 1 .. HeaderLen /\ (k + 1) - 1 = k /\ k \in 0 .. HeaderLen
    OBVIOUS
  <2>2. a[k] \in Nat /\ w[k] \in Nat /\ a[k] <= w[k]
    BY <1>1, <1>2, <1>4, <2>1
  <2>3. a[k] \div Base <= w[k] \div Base
    BY <2>2, FrameAssumption
  <2> QED
    BY <1>1, <1>2, <2>1, <2>3
<1>5. HeaderLen \in S
  <2> HIDE DEF S
  <2> QED
    BY <1>3, <1>4, Induct
<1> QED
  BY <1>1, <1>2, <1>5, HeaderAssumption

\* A number is made of its quotient and its remainder.
LEMMA Divided ==
  ASSUME NEW m \in Nat, NEW b \in Nat \ {0}
  PROVE  b * (m \div b) + (m % b) = m
OBVIOUS

\* The header of a size is HeaderLen bytes and gives the size back.
THEOREM SizeOfHeader ==
  ASSUME NEW n \in 0 .. WriterMax
  PROVE  Header(n) \in [1 .. HeaderLen -> Byte] /\ Size(Header(n)) = n
<1> PICK a, h : a = Above(n) /\ h = Header(n)
  OBVIOUS
<1>1. /\ a[0] = n /\ \A k \in 0 .. HeaderLen : a[k] \in Nat
      /\ \A k \in 1 .. HeaderLen : a[k] = a[k - 1] \div Base
  BY AboveDef
<1>2. h = [i \in 1 .. HeaderLen |-> a[HeaderLen - i] % Base]
  BY DEF Header
<1>3. h \in [1 .. HeaderLen -> Byte]
  <2>1. ASSUME NEW i \in 1 .. HeaderLen PROVE (a[HeaderLen - i] % Base) \in Byte
    <3>1. a[HeaderLen - i] \in Nat
      BY <1>1
    <3> QED
      BY <3>1, FrameAssumption DEF Byte
  <2> QED
    BY <1>2, <2>1
<1>4. PICK v : /\ v[0] = 0 /\ Size(h) = v[HeaderLen]
               /\ \A k \in 1 .. HeaderLen : v[k] = Base * v[k - 1] + h[k]
  BY <1>3, SizeDef
<1> DEFINE S == {k \in Nat : k <= HeaderLen => v[k] = a[HeaderLen - k]}
<1>5. 0 \in S
  BY <1>4, AboveMonotonic
<1>6. ASSUME NEW k \in Nat, k \in S PROVE k + 1 \in S
  <2> SUFFICES ASSUME k + 1 <= HeaderLen PROVE v[k + 1] = a[HeaderLen - (k + 1)]
    OBVIOUS
  <2> PICK m : m = a[HeaderLen - (k + 1)]
    OBVIOUS
  <2>1. m \in Nat /\ a[HeaderLen - k] = m \div Base
    BY <1>1
  <2>2. h[k + 1] = m % Base
    BY <1>2
  <2>3. v[k + 1] = Base * (m \div Base) + (m % Base)
    BY <1>4, <1>6, <2>1, <2>2
  <2>4. Base * (m \div Base) + (m % Base) = m
    BY <2>1, FrameAssumption, Divided
  <2> QED
    BY <2>3, <2>4
<1>7. HeaderLen \in S
  <2> HIDE DEF S
  <2> QED
    BY <1>5, <1>6, Induct
<1> QED
  BY <1>1, <1>3, <1>4, <1>7
----------------------------------------------------------------------------
(* Sequences.                                                              *)

\* s followed by the first n of t.
LEMMA TakenBehind ==
  ASSUME NEW S, NEW front \in Seq(S), NEW back \in Seq(S), NEW num \in Nat, num <= Len(back),
         NEW length \in Nat, length = Len(front), NEW res, res = front \o SubSeq(back, 1, num)
  PROVE  /\ res \in Seq(S) /\ Len(res) = length + num
         /\ \A i \in 1 .. length : res[i] = front[i]
         /\ \A i \in 1 .. num : res[length + i] = back[i]
<1> DEFINE part == SubSeq(back, 1, num)
<1>1. Len(back) \in Nat /\ Len(front) \in Nat
  BY LenProperties
<1>2. part \in Seq(S) /\ Len(part) = num /\ \A i \in 1 .. num : part[i] = back[i]
  <2>1. \A i \in 1 .. num : back[i] \in S
    BY <1>1, ElementOfSeq
  <2> QED
    BY <1>1, <2>1, SubSeqProperties
<1>3. res = front \o part
  OBVIOUS
<1> HIDE DEF part
<1>4. /\ res \in Seq(S) /\ Len(res) = Len(front) + Len(part)
      /\ \A i \in 1 .. Len(front) + Len(part) : res[i] = IF i <= Len(front) THEN front[i] ELSE part[i - Len(front)]
  BY <1>2, <1>3, ConcatProperties
<1>5. ASSUME NEW i \in 1 .. num PROVE res[Len(front) + i] = back[i]
  <2>1. Len(front) + i \in 1 .. Len(front) + Len(part) /\ ~(Len(front) + i <= Len(front)) /\ (Len(front) + i) - Len(front) = i
    BY <1>1, <1>2
  <2> QED
    BY <1>2, <1>4, <2>1
<1> QED
  BY <1>1, <1>2, <1>4, <1>5

\* back without its first num.
LEMMA Dropped ==
  ASSUME NEW S, NEW back \in Seq(S), NEW length \in Nat, length = Len(back), NEW num \in Nat, num <= length,
         NEW res, res = SubSeq(back, num + 1, length)
  PROVE  /\ res \in Seq(S) /\ Len(res) = length - num
         /\ \A i \in 1 .. length - num : res[i] = back[num + i]
<1>1. Len(back) \in Nat
  BY LenProperties
<1>2. \A i \in num + 1 .. Len(back) : back[i] \in S
  BY <1>1, ElementOfSeq
<1> QED
  BY <1>1, <1>2, SubSeqProperties
----------------------------------------------------------------------------
(* The writer.                                                             *)

\* A payload that is not empty and within the limit is legal.
LEMMA LegalFrame ==
  ASSUME NEW f \in Payload, f # <<>>, ~(Len(f) > WriterMax)
  PROVE  Legal(f)
<1>1. PICK n \in 0 .. WriterMax + 1 : f \in [1 .. n -> Byte]
  BY DEF Payload
<1>2. f \in Seq(Byte)
  BY <1>1, SeqDef
<1>3. Len(f) \in Nat /\ Len(f) # 0
  BY <1>2, LenProperties, EmptySeq
<1> QED
  BY <1>2, <1>3 DEF Legal

\* The header of a legal frame.
LEMMA HeaderOf ==
  ASSUME NEW f, Legal(f)
  PROVE  /\ Header(Len(f)) \in Seq(Byte) /\ Len(Header(Len(f))) = HeaderLen
         /\ \A i \in 1 .. HeaderLen : Header(Len(f))[i] \in Byte
         /\ Size(Header(Len(f))) = Len(f)
<1> DEFINE h == Header(Len(f))
<1>1. h \in [1 .. HeaderLen -> Byte] /\ Size(h) = Len(f)
  BY SizeOfHeader DEF Legal
<1> HIDE DEF h
<1>2. h \in Seq(Byte) /\ Len(h) = HeaderLen
  BY <1>1, SeqDef, LenProperties
<1> QED
  BY <1>1, <1>2 DEF h

\* The tape extended behind a place by a header and a payload.
Extended(tape, end, h, f, m) ==
  [i \in Nat |-> IF i <= end THEN tape[i]
                ELSE IF i - end <= HeaderLen THEN h[i - end]
                ELSE IF i - (end + HeaderLen) <= m THEN f[i - (end + HeaderLen)]
                ELSE tape[i]]

\* It is a tape, and holds what it should.
LEMMA TapeExtended ==
  ASSUME NEW tape \in Tape, NEW end \in Nat, NEW m \in Nat, NEW h, NEW f,
         \A i \in 1 .. HeaderLen : h[i] \in Byte,
         \A i \in 1 .. m : f[i] \in Byte,
         NEW longer, longer = Extended(tape, end, h, f, m)
  PROVE    /\ longer \in Tape
           /\ \A i \in Nat : i <= end => longer[i] = tape[i]
           /\ \A i \in 1 .. HeaderLen : longer[end + i] = h[i]
           /\ \A i \in 1 .. m : longer[end + HeaderLen + i] = f[i]
<1> DEFINE Value(i) == IF i <= end THEN tape[i]
                       ELSE IF i - end <= HeaderLen THEN h[i - end]
                       ELSE IF i - (end + HeaderLen) <= m THEN f[i - (end + HeaderLen)]
                       ELSE tape[i]
<1>1. ASSUME NEW i \in Nat PROVE Value(i) \in Byte
  <2>1. CASE i <= end
    BY <2>1 DEF Tape
  <2>2. CASE ~(i <= end) /\ i - end <= HeaderLen
    <3>1. i - end \in 1 .. HeaderLen
      BY <2>2
    <3> QED
      BY <2>2, <3>1
  <2>3. CASE ~(i <= end) /\ ~(i - end <= HeaderLen) /\ i - (end + HeaderLen) <= m
    <3>1. i - (end + HeaderLen) \in 1 .. m
      BY <2>3
    <3> QED
      BY <2>3, <3>1
  <2> QED
    BY <2>1, <2>2, <2>3 DEF Tape
<1>2. ASSUME NEW i \in Nat, i <= end PROVE Value(i) = tape[i]
  BY <1>2
<1>3. ASSUME NEW i \in 1 .. HeaderLen PROVE end + i \in Nat /\ Value(end + i) = h[i]
  <2>1. end + i \in Nat /\ ~(end + i <= end) /\ (end + i) - end = i /\ i <= HeaderLen
    OBVIOUS
  <2> QED
    BY <2>1
<1>4. ASSUME NEW i \in 1 .. m
      PROVE  end + HeaderLen + i \in Nat /\ Value(end + HeaderLen + i) = f[i]
  <2>1. /\ end + HeaderLen + i \in Nat /\ ~(end + HeaderLen + i <= end)
        /\ ~((end + HeaderLen + i) - end <= HeaderLen)
        /\ (end + HeaderLen + i) - (end + HeaderLen) = i /\ i <= m
    OBVIOUS
  <2> QED
    BY <2>1
<1>5. longer = [i \in Nat |-> Value(i)]
  BY DEF Extended
<1> HIDE DEF Value
<1>6. longer \in Tape
  BY <1>1, <1>5 DEF Tape
<1> QED
  BY <1>2, <1>3, <1>4, <1>5, <1>6

\* A new frame is put on the tape behind the others.
LEMMA NewFrame ==
  ASSUME Types, InStep, wpc = "idle", NEW f, Legal(f),
         wpc' = "header", frame' = f, left' = Header(Len(f)),
         UNCHANGED <<stream, cut, sent, readerVars>>
  PROVE  InStep'
<1>1. PICK tape \in Tape, pos \in Marks : Laid(tape, pos) /\ ReaderInv(tape, pos)
  BY DEF InStep
<1>2. PICK n, m, h, end : n = Len(sent) /\ m = Len(f) /\ h = Header(Len(f)) /\ end = pos[Len(sent)]
  OBVIOUS
<1>3. n \in Nat /\ m \in 1 .. WriterMax /\ f \in Seq(Byte) /\ end \in Nat
  BY <1>2, LenProperties DEF Types, Legal, Marks
<1>n. n \in Nat /\ m \in Nat /\ end \in Nat
  BY <1>3
<1>4. /\ \A i \in 1 .. HeaderLen : h[i] \in Byte
      /\ \A i \in 1 .. m : f[i] \in Byte
      /\ Len(h) = HeaderLen
  BY <1>2, <1>3, HeaderOf, ElementOfSeq
<1>t. PICK tape2, pos2 : /\ tape2 = Extended(tape, end, h, f, m)
                         /\ pos2 = [pos EXCEPT ![n + 1] = end + HeaderLen + m]
  OBVIOUS
<1>5. /\ tape2 \in Tape
      /\ \A i \in Nat : i <= end => tape2[i] = tape[i]
      /\ \A i \in 1 .. HeaderLen : tape2[end + i] = h[i]
      /\ \A i \in 1 .. m : tape2[end + HeaderLen + i] = f[i]
  <2>1. \A i \in 1 .. HeaderLen : h[i] \in Byte
    BY <1>4
  <2>2. \A i \in 1 .. m : f[i] \in Byte
    BY <1>4
  <2> QED
    BY <1>n, <1>t, <2>1, <2>2, TapeExtended
<1>6. /\ pos2 \in Marks /\ pos2[n + 1] = end + HeaderLen + m
      /\ \A k \in 0 .. n : pos2[k] = pos[k]
  <2>1. end + HeaderLen + m \in Nat
    BY <1>n
  <2>2. PICK x, l : x = end + HeaderLen + m /\ l = n + 1
    OBVIOUS
  <2>3. x \in Nat /\ l \in Nat /\ pos2 = [pos EXCEPT ![l] = x]
    BY <1>n, <1>t, <2>1, <2>2
  <2>4. pos2 \in Marks /\ pos2[l] = x /\ \A k \in Nat : k # l => pos2[k] = pos[k]
    BY <2>3 DEF Marks
  <2>5. \A k \in 0 .. n : k \in Nat /\ k # l
    BY <1>n, <2>2
  <2> QED
    BY <2>2, <2>4, <2>5
<1>7. Frames = n /\ Frames' = n + 1 /\ \A k \in 1 .. n : FrameNo(k) = sent[k] /\ FrameNo(k)' = sent[k]
  BY <1>2, <1>3 DEF Frames, FrameNo, Types
<1>8. FrameNo(n + 1)' = f
  BY <1>2, <1>3 DEF FrameNo
<1>9. \A k \in 0 .. n : pos[k] \in Nat /\ pos2[k] \in Nat /\ pos[k] <= end
  <2> SUFFICES ASSUME NEW k \in 0 .. n PROVE pos[k] \in Nat /\ pos2[k] \in Nat /\ pos[k] <= end
    OBVIOUS
  <2>1. k \in Nat /\ pos[k] \in Nat /\ pos2[k] \in Nat
    <3>1. k \in Nat
      BY <1>n
    <3> QED
      BY <1>6, <3>1 DEF Marks
  <2>2. CASE k = n
    BY <1>2, <1>3, <2>1, <2>2
  <2>3. CASE k # n
    <3>1. k < n /\ k + 1 \in 1 .. n /\ n \in 0 .. n /\ (k + 1) - 1 = k
      BY <1>3, <2>3
    <3>2. pos[k + 1] <= end
      BY <1>1, <1>2, <1>7, <3>1 DEF Laid
    <3>3. pos[k + 1] = pos[k] + HeaderLen + Len(FrameNo(k + 1)) /\ Len(FrameNo(k + 1)) \in Nat
      BY <1>1, <1>7, <3>1 DEF Laid, Legal
    <3>4. pos[k + 1] \in Nat
      <4>1. k + 1 \in Nat
        BY <2>1
      <4> QED
        BY <4>1 DEF Marks
    <3>5. PICK a, b, l : a = pos[k] /\ b = pos[k + 1] /\ l = Len(FrameNo(k + 1))
      OBVIOUS
    <3>6. a <= end
      <4>1. a \in Nat /\ b \in Nat /\ l \in Nat /\ b = a + HeaderLen + l /\ b <= end
        BY <2>1, <3>2, <3>3, <3>4, <3>5
      <4> QED
        BY ONLY <1>n, <4>1, Sizes
    <3> QED
      BY <2>1, <3>5, <3>6
  <2> QED
    BY <2>2, <2>3
<1>11. Laid(tape2, pos2)'
  <2>1. ASSUME NEW k \in 1 .. n + 1
        PROVE  /\ Legal(FrameNo(k)')
               /\ pos2[k] = pos2[k - 1] + HeaderLen + Len(FrameNo(k)')
               /\ \A i \in 1 .. HeaderLen : tape2[pos2[k - 1] + i] = Header(Len(FrameNo(k)'))[i]
               /\ \A i \in 1 .. Len(FrameNo(k)') :
                    tape2[pos2[k - 1] + HeaderLen + i] = FrameNo(k)'[i]
    <3>1. CASE k = n + 1
      <4>1. k - 1 = n /\ n \in 0 .. n /\ FrameNo(k)' = f
        BY <1>3, <1>8, <3>1
      <4>2. pos2[k - 1] = end
        BY <1>2, <1>6, <4>1
      <4> QED
        <5>1. pos2[k] = pos2[k - 1] + HeaderLen + Len(f)
          BY <1>2, <1>6, <3>1, <4>2
        <5>2. /\ \A i \in 1 .. HeaderLen : tape2[pos2[k - 1] + i] = Header(Len(f))[i]
              /\ \A i \in 1 .. Len(f) : tape2[pos2[k - 1] + HeaderLen + i] = f[i]
          BY <1>2, <1>5, <4>2
        <5> QED
          BY <4>1, <5>1, <5>2
    <3>2. CASE k \in 1 .. n
      <4> DEFINE g == FrameNo(k)
      <4>1. /\ Legal(g) /\ pos[k] = pos[k - 1] + HeaderLen + Len(g)
            /\ \A i \in 1 .. HeaderLen : tape[pos[k - 1] + i] = Header(Len(g))[i]
            /\ \A i \in 1 .. Len(g) : tape[pos[k - 1] + HeaderLen + i] = g[i]
        BY <1>1, <1>7, <3>2 DEF Laid
      <4>2. FrameNo(k)' = g
        BY <1>7, <3>2
      <4>3. /\ k - 1 \in 0 .. n /\ k \in 0 .. n /\ pos2[k] = pos[k] /\ pos2[k - 1] = pos[k - 1]
            /\ pos[k - 1] \in Nat /\ pos[k] \in Nat /\ pos[k] <= end /\ Len(g) \in Nat
        <5>1. k - 1 \in 0 .. n /\ k \in 0 .. n
          BY <1>3, <3>2
        <5>2. pos2[k] = pos[k] /\ pos2[k - 1] = pos[k - 1]
          BY <1>6, <5>1
        <5>3. pos[k - 1] \in Nat /\ pos[k] \in Nat /\ pos[k] <= end
          BY <1>9, <5>1
        <5>4. Len(g) \in Nat
          BY <4>1 DEF Legal
        <5> QED
          BY <5>1, <5>2, <5>3, <5>4
      <4>4. /\ \A i \in 1 .. HeaderLen : tape2[pos[k - 1] + i] = tape[pos[k - 1] + i]
            /\ \A i \in 1 .. Len(g) :
                 tape2[pos[k - 1] + HeaderLen + i] = tape[pos[k - 1] + HeaderLen + i]
        <5>1. PICK a, b, c, l : a = pos[k - 1] /\ b = pos[k] /\ c = HeaderLen /\ l = Len(g)
          OBVIOUS
        <5>2. a \in Nat /\ b \in Nat /\ c \in Nat /\ l \in Nat /\ b = a + c + l /\ b <= end
          BY <4>1, <4>3, <5>1
        <5>3. \A i \in 1 .. c : a + i \in Nat /\ a + i <= end
          BY ONLY <1>3, <5>2
        <5>4. \A i \in 1 .. l : a + c + i \in Nat /\ a + c + i <= end
          BY ONLY <1>3, <5>2
        <5> QED
          BY <1>5, <5>1, <5>3, <5>4
      <4> QED
        BY <4>1, <4>2, <4>3, <4>4
    <3>3. k = n + 1 \/ k \in 1 .. n
      BY <1>n
    <3> QED
      BY <3>1, <3>2, <3>3
  <2>2. ASSUME NEW j \in 0 .. n + 1, NEW k \in 0 .. n + 1, j < k
        PROVE  pos2[j + 1] <= pos2[k]
    <3>1. CASE k \in 0 .. n
      <4>1. j \in 0 .. n /\ j + 1 \in 0 .. n
        BY <1>3, <2>2, <3>1
      <4>2. pos[j + 1] <= pos[k]
        BY <1>1, <1>7, <2>2, <3>1, <4>1 DEF Laid
      <4> QED
        BY <1>6, <3>1, <4>1, <4>2
    <3>2. CASE k = n + 1 /\ j + 1 = k
      BY <1>3, <1>6, <3>2
    <3>3. CASE k = n + 1 /\ j + 1 # k
      <4>1. j + 1 \in 0 .. n
        BY <1>3, <2>2, <3>3
      <4>2. pos[j + 1] <= end /\ pos[j + 1] \in Nat /\ pos2[j + 1] = pos[j + 1]
        BY <1>6, <1>9, <4>1
      <4>3. pos2[k] = end + HeaderLen + m
        BY <1>6, <3>3
      <4> QED
        BY <1>3, <4>2, <4>3
    <3>4. k \in 0 .. n \/ k = n + 1
      BY <1>3
    <3> QED
      BY <3>1, <3>2, <3>3, <3>4
  <2> QED
    BY <1>7, <2>1, <2>2 DEF Laid
<1>12. ReaderInv(tape2, pos2)'
  <2> SUFFICES ASSUME rpc \in {"header", "payload"} PROVE ReaderInv(tape2, pos2)'
    BY DEF ReaderInv, readerVars
  <2>1. PICK g, b, s, at : g = Len(got) /\ b = Len(buf) /\ s = Len(stream) /\ at = Before(pos)
    OBVIOUS
  <2>2. g \in Nat /\ b \in Nat /\ s \in Nat
    BY <2>1, LenProperties DEF Types
  <2>3. /\ g <= n
        /\ \A k \in 1 .. g : got[k] = sent[k]
        /\ b <= Wanted
        /\ at + b + s = end + 0
        /\ \A i \in 1 .. b : buf[i] = tape[at + i]
        /\ \A i \in 1 .. s : stream[i] = tape[at + b + i]
        /\ rpc = "payload" => g < n /\ size = Len(FrameNo(g + 1))
    BY <1>1, <1>2, <1>7, <2>1 DEF ReaderInv, Begun
  <2>4. Begun' = 0
    BY <1>2, <1>4, <2>2 DEF Begun
  <2>5. g \in 0 .. n /\ n \in 0 .. n
    BY <1>3, <2>2, <2>3
  <2>6. pos2[g] = pos[g] /\ pos2[n] = end /\ pos[g] \in Nat
    BY <1>2, <1>6, <1>9, <2>5
  <2>7. Before(pos2)' = at /\ at \in Nat
    <3>1. pos2[Len(got)] = pos[Len(got)] /\ pos[Len(got)] \in Nat
      BY <2>1, <2>6
    <3>2. (rpc = "payload")' = (rpc = "payload") /\ got' = got
      BY DEF readerVars
    <3>3. Before(pos2)' = Before(pos)
      BY <3>1, <3>2 DEF Before
    <3>4. Before(pos) \in Nat
      <4>1. PICK x : x = pos[Len(got)]
        OBVIOUS
      <4>2. x \in Nat /\ Before(pos) = x + (IF rpc = "payload" THEN HeaderLen ELSE 0)
        BY <3>1, <4>1 DEF Before
      <4> QED
        BY ONLY <4>2, Sizes
    <3> QED
      BY <2>1, <3>3, <3>4
  <2>8. /\ \A i \in 1 .. b : at + i \in Nat /\ at + i <= end
        /\ \A i \in 1 .. s : at + b + i \in Nat /\ at + b + i <= end
    <3>1. at \in Nat /\ at + b + s = end
      BY <1>n, <2>2, <2>3, <2>7
    <3> QED
      BY ONLY <1>n, <2>2, <3>1
  <2>9. /\ \A i \in 1 .. b : buf[i] = tape2[at + i]
        /\ \A i \in 1 .. s : stream[i] = tape2[at + b + i]
    BY <1>5, <2>3, <2>8
  <2>10. ASSUME rpc = "payload" PROVE g < Frames' /\ size = Len(FrameNo(g + 1)')
    <3>1. g + 1 \in 1 .. n /\ g < n + 1
      <4>1. g < n
        BY <2>3, <2>10
      <4> QED
        BY ONLY <1>n, <2>2, <4>1
    <3> QED
      BY <1>7, <2>3, <2>10, <3>1
  <2>11. Wanted' = Wanted
    BY DEF Wanted, readerVars
  <2>12. UNCHANGED <<rpc, got, sent, buf, stream, size>>
    BY DEF readerVars
  <2> QED
    BY <1>2, <2>1, <2>3, <2>4, <2>6, <2>7, <2>9, <2>10, <2>11, <2>12 DEF ReaderInv
<1> QED
  BY <1>5, <1>6, <1>11, <1>12 DEF InStep
\* The places at which the two ends stand are numbers.
LEMMA Places ==
  ASSUME Types, NEW pos \in Marks
  PROVE  pos[Len(sent)] \in Nat /\ pos[Len(got)] \in Nat /\ Before(pos) \in Nat
<1>1. Len(sent) \in Nat /\ Len(got) \in Nat
  BY LenProperties DEF Types
<1>2. PICK x : x = pos[Len(got)]
  OBVIOUS
<1>3. x \in Nat /\ Before(pos) = x + (IF rpc = "payload" THEN HeaderLen ELSE 0)
  BY <1>1, <1>2 DEF Before, Marks
<1>4. Before(pos) \in Nat
  BY ONLY <1>3, Sizes
<1> QED
  BY <1>1, <1>4 DEF Marks

\* How much of the frame that is being written has been taken.
LEMMA BegunBounds ==
  ASSUME Types, WriterInv
  PROVE  /\ Begun \in Nat /\ Len(left) \in Nat /\ Len(sent) \in Nat /\ Frames \in Nat
         /\ wpc = "idle" => Begun = 0 /\ Frames = Len(sent)
         /\ wpc # "idle" => /\ Legal(frame) /\ Begun < HeaderLen + Len(frame)
                            /\ Frames = Len(sent) + 1 /\ FrameNo(Frames) = frame
<1>1. Len(left) \in Nat /\ Len(sent) \in Nat
  BY LenProperties DEF Types
<1>2. CASE wpc = "idle"
  BY <1>1, <1>2 DEF Begun, Frames
<1>3. CASE wpc # "idle"
  <2>1. wpc \in {"header", "payload"} /\ Legal(frame) /\ Len(frame) \in Nat /\ Len(frame) > 0
    BY <1>3 DEF Types, WriterInv, Legal
  <2>2. Frames = Len(sent) + 1 /\ Frames \in Nat /\ ~(Frames <= Len(sent))
    BY <1>1, <1>3 DEF Frames
  <2>3. FrameNo(Frames) = frame
    BY <2>2 DEF FrameNo
  <2>4. Begun \in Nat /\ Begun < HeaderLen + Len(frame)
    <3>1. CASE wpc = "header"
      BY <1>1, <2>1, <3>1 DEF WriterInv, Begun
    <3>2. CASE wpc = "payload"
      BY <1>1, <2>1, <3>2 DEF WriterInv, Begun
    <3> QED
      BY <2>1, <3>1, <3>2
  <2> QED
    BY <1>1, <1>3, <2>1, <2>2, <2>3, <2>4
<1> QED
  BY <1>2, <1>3

\* What is left to write are the tape's next bytes.
LEMMA LeftOnTape ==
  ASSUME Types, WriterInv, wpc # "idle", NEW tape, NEW pos \in Marks, Laid(tape, pos)
  PROVE  /\ pos[Len(sent)] \in Nat
         /\ pos[Len(sent) + 1] = pos[Len(sent)] + HeaderLen + Len(frame)
         /\ \A i \in 1 .. Len(left) : left[i] = tape[pos[Len(sent)] + Begun + i]
<1>1. PICK n, l, m, p : n = Len(sent) /\ l = Len(left) /\ m = Len(frame) /\ p = pos[Len(sent)]
  OBVIOUS
<1>2. /\ n \in Nat /\ l \in Nat /\ m \in Nat /\ m > 0 /\ p \in Nat /\ Legal(frame)
      /\ Frames = n + 1 /\ FrameNo(n + 1) = frame /\ n + 1 \in 1 .. Frames /\ (n + 1) - 1 = n
  <2>1. n \in Nat /\ l \in Nat /\ p \in Nat
    BY <1>1, BegunBounds, Places
  <2>2. /\ Legal(frame) /\ m \in Nat /\ m > 0
        /\ Frames = n + 1 /\ FrameNo(Frames) = frame
    BY <1>1, BegunBounds DEF Legal
  <2> QED
    BY <2>1, <2>2
<1>3. /\ pos[n + 1] = p + HeaderLen + m
      /\ \A i \in 1 .. HeaderLen : tape[p + i] = Header(m)[i]
      /\ \A i \in 1 .. m : tape[p + HeaderLen + i] = frame[i]
  <2>1. PICK k : k = n + 1
    OBVIOUS
  <2>2. k \in 1 .. Frames /\ k - 1 = n /\ FrameNo(k) = frame
    BY <1>2, <2>1
  <2>3. /\ pos[k] = pos[k - 1] + HeaderLen + Len(FrameNo(k))
        /\ \A i \in 1 .. HeaderLen : tape[pos[k - 1] + i] = Header(Len(FrameNo(k)))[i]
        /\ \A i \in 1 .. Len(FrameNo(k)) : tape[pos[k - 1] + HeaderLen + i] = FrameNo(k)[i]
    BY <2>2 DEF Laid
  <2> QED
    BY <1>1, <2>1, <2>2, <2>3
<1>4. ASSUME NEW i \in 1 .. l PROVE left[i] = tape[p + Begun + i]
  <2>1. CASE wpc = "header"
    <3>1. /\ l <= HeaderLen /\ Begun = HeaderLen - l /\ left[i] = Header(m)[HeaderLen - l + i]
      BY <1>1, <2>1 DEF WriterInv, Begun
    <3>2. HeaderLen - l + i \in 1 .. HeaderLen /\ p + (HeaderLen - l + i) = p + Begun + i
      BY <1>2, <3>1
    <3> QED
      BY <1>3, <3>1, <3>2
  <2>2. CASE wpc = "payload"
    <3>1. l <= m /\ Begun = HeaderLen + m - l /\ left[i] = frame[m - l + i]
      BY <1>1, <2>2 DEF WriterInv, Begun
    <3>2. m - l + i \in 1 .. m /\ p + HeaderLen + (m - l + i) = p + Begun + i
      BY <1>2, <3>1
    <3> QED
      BY <1>3, <3>1, <3>2
  <2> QED
    BY <2>1, <2>2 DEF Types
<1> QED
  BY <1>1, <1>2, <1>3, <1>4

\* Write takes n bytes: the stream grows by the tape's next.
LEMMA StreamGrows ==
  ASSUME Types, WriterInv, InStep, wpc # "idle", NEW n \in Nat, Take(n),
         UNCHANGED <<rpc, buf, size, got>>, Frames' = Frames,
         \A k \in 1 .. Frames : FrameNo(k)' = FrameNo(k),
         \/ sent' = sent /\ Begun' = Begun + n
         \/ /\ sent' = Append(sent, frame) /\ Begun' = 0
            /\ Begun + n = HeaderLen + Len(frame)
  PROVE  InStep'
<1>1. PICK tape \in Tape, pos \in Marks : Laid(tape, pos) /\ ReaderInv(tape, pos)
  BY DEF InStep
<1>2. Laid(tape, pos)'
  <2>1. PICK N : N = Frames
    OBVIOUS
  <2>2. N = Frames' /\ \A k \in 1 .. N : FrameNo(k)' = FrameNo(k)
    BY <2>1
  <2>3. ASSUME NEW k \in 1 .. N
        PROVE  /\ Legal(FrameNo(k)')
               /\ pos[k] = pos[k - 1] + HeaderLen + Len(FrameNo(k)')
               /\ \A i \in 1 .. HeaderLen : tape[pos[k - 1] + i] = Header(Len(FrameNo(k)'))[i]
               /\ \A i \in 1 .. Len(FrameNo(k)') :
                    tape[pos[k - 1] + HeaderLen + i] = FrameNo(k)'[i]
    <3>1. PICK x : x = FrameNo(k)
      OBVIOUS
    <3>2. x = FrameNo(k)'
      BY <2>2, <3>1
    <3>3. /\ Legal(x)
          /\ pos[k] = pos[k - 1] + HeaderLen + Len(x)
          /\ \A i \in 1 .. HeaderLen : tape[pos[k - 1] + i] = Header(Len(x))[i]
          /\ \A i \in 1 .. Len(x) : tape[pos[k - 1] + HeaderLen + i] = x[i]
      BY <1>1, <2>1, <3>1 DEF Laid
    <3> QED
      BY <3>2, <3>3
  <2>4. \A j, k \in 0 .. N : j < k => pos[j + 1] <= pos[k]
    BY <1>1, <2>1 DEF Laid
  <2> QED
    BY <2>2, <2>3, <2>4 DEF Laid
<1>3. ReaderInv(tape, pos)'
  <2> SUFFICES ASSUME rpc \in {"header", "payload"} PROVE ReaderInv(tape, pos)'
    BY DEF ReaderInv
  <2>1. PICK b, s, at, p, q : /\ b = Len(buf) /\ s = Len(stream) /\ at = Before(pos)
                              /\ p = pos[Len(sent)] /\ q = Begun
    OBVIOUS
  <2>2. /\ b \in Nat /\ s \in Nat /\ p \in Nat /\ q \in Nat
        /\ at + b + s = p + q
    BY <1>1, <2>1, LenProperties, BegunBounds, Places DEF ReaderInv, Types
  <2>3. at \in Nat
    BY <2>1, Places
  <2>4. Before(pos)' = at
    BY <2>1 DEF Before
  <2>5. /\ Len(stream') = s + n
        /\ \A i \in 1 .. s : stream'[i] = stream[i]
        /\ \A i \in 1 .. n : stream'[s + i] = left[i]
        /\ n \in 0 .. Len(left)
    <3>1. n \in 0 .. Len(left) /\ stream \in Seq(Byte) /\ left \in Seq(Byte)
      BY BegunBounds DEF Types, Take
    <3>2. PICK r : r = stream'
      OBVIOUS
    <3>3. r = stream \o SubSeq(left, 1, n)
      BY <3>2 DEF Take
    <3>4. /\ Len(r) = s + n
          /\ \A i \in 1 .. s : r[i] = stream[i]
          /\ \A i \in 1 .. n : r[s + i] = left[i]
      <4>1. PICK x, y : x = stream /\ y = left
        OBVIOUS
      <4>2. n \in Nat /\ n <= Len(y) /\ x \in Seq(Byte) /\ y \in Seq(Byte) /\ r = x \o SubSeq(y, 1, n)
              /\ s \in Nat /\ s = Len(x)
        BY <2>1, <2>2, <3>1, <3>3, <4>1
      <4>3. /\ Len(r) = s + n
            /\ \A i \in 1 .. s : r[i] = x[i]
            /\ \A i \in 1 .. n : r[s + i] = y[i]
        BY <4>2, TakenBehind
      <4> QED
        BY <4>1, <4>3
    <3> QED
      BY <2>1, <3>1, <3>2, <3>4
  <2>6. ASSUME NEW i \in 1 .. s + n PROVE stream'[i] = tape[at + b + i]
    <3>1. CASE i \in 1 .. s
      BY <1>1, <2>1, <2>5, <3>1 DEF ReaderInv
    <3>2. CASE i \notin 1 .. s
      <4>1. PICK j : j = i - s
        OBVIOUS
      <4>2. j \in 1 .. n /\ i = s + j /\ at + b + i = p + q + j
        BY <2>2, <2>3, <3>2, <4>1
      <4>3. j \in 1 .. Len(left)
        BY <2>5, <4>2
      <4>4. left[j] = tape[p + q + j]
        BY <1>1, <2>1, <4>3, LeftOnTape
      <4> QED
        BY <2>5, <4>2, <4>4
    <3> QED
      BY <3>1, <3>2
  <2>7. pos[Len(sent')] + Begun' = at + b + (s + n)
    <3>1. CASE sent' = sent /\ Begun' = Begun + n
      <4>1. p + (q + n) = at + b + (s + n)
        BY ONLY <2>2, <2>3, n \in Nat
      <4> QED
        BY <2>1, <3>1, <4>1
    <3>2. CASE sent' = Append(sent, frame) /\ Begun' = 0 /\ Begun + n = HeaderLen + Len(frame)
      <4>1. Len(sent') = Len(sent) + 1 /\ Len(frame) \in Nat
        BY <3>2, BegunBounds DEF Legal, Types
      <4>2. pos[Len(sent')] = p + HeaderLen + Len(frame)
        BY <1>1, <2>1, <4>1, LeftOnTape
      <4>3. PICK m : m = Len(frame)
        OBVIOUS
      <4>4. m \in Nat /\ q + n = HeaderLen + m
        BY <2>1, <3>2, <4>1, <4>3
      <4>5. (p + HeaderLen + m) + 0 = at + b + (s + n)
        BY ONLY <2>2, <2>3, <4>4, n \in Nat, Sizes
      <4> QED
        BY <3>2, <4>2, <4>3, <4>5
    <3> QED
      BY <3>1, <3>2
  <2>8. /\ Len(sent) \in Nat /\ Len(sent') \in Nat /\ Len(sent) <= Len(sent')
        /\ \A k \in 1 .. Len(sent) : sent'[k] = sent[k]
    <3>1. CASE sent' = sent
      BY <3>1, BegunBounds
    <3>2. CASE sent' = Append(sent, frame)
      <4>1. frame \in Payload /\ sent \in Seq(Payload)
        BY BegunBounds DEF Legal, Types
      <4>2. Len(sent') = Len(sent) + 1 /\ \A k \in 1 .. Len(sent) : sent'[k] = sent[k]
        BY <3>2, <4>1, AppendProperties
      <4> QED
        BY <4>2, BegunBounds
    <3> QED
      BY <3>1, <3>2
  <2>9. PICK g : g = Len(got)
    OBVIOUS
  <2>10. /\ g <= Len(sent) /\ g \in Nat /\ \A k \in 1 .. g : got[k] = sent[k]
         /\ b <= Wanted /\ \A i \in 1 .. b : buf[i] = tape[at + i]
         /\ rpc = "payload" => g < Frames /\ size = Len(FrameNo(g + 1))
    BY <1>1, <2>1, <2>9, LenProperties DEF ReaderInv, Types
  <2>11. g <= Len(sent') /\ \A k \in 1 .. g : got[k] = sent'[k]
    <3>1. PICK l, m : l = Len(sent) /\ m = Len(sent')
      OBVIOUS
    <3>2. g \in Nat /\ l \in Nat /\ m \in Nat /\ g <= l /\ l <= m
      BY <2>8, <2>10, <3>1
    <3>3. g <= m /\ \A k \in 1 .. g : k \in 1 .. l
      BY ONLY <3>2
    <3> QED
      BY <2>8, <2>10, <3>1, <3>3
  <2>12. rpc = "payload" => g < Frames' /\ size = Len(FrameNo(g + 1)')
    <3> SUFFICES ASSUME rpc = "payload" PROVE g < Frames' /\ size = Len(FrameNo(g + 1)')
      OBVIOUS
    <3>1. g \in Nat /\ Frames \in Nat /\ g < Frames /\ size = Len(FrameNo(g + 1))
      BY <2>10, BegunBounds
    <3>2. g + 1 \in 1 .. Frames
      BY <3>1
    <3> QED
      BY <3>1, <3>2
  <2>13. Wanted' = Wanted
    BY DEF Wanted
  <2> QED
    BY <2>1, <2>4, <2>5, <2>6, <2>7, <2>9, <2>10, <2>11, <2>12, <2>13 DEF ReaderInv
<1> QED
  BY <1>2, <1>3 DEF InStep
----------------------------------------------------------------------------
(* The reader.                                                             *)

\* The reader changes neither the tape nor how much of it has been written.
LEMMA ReaderKeeps ==
  ASSUME NEW tape, NEW pos, UNCHANGED writerVars
  PROVE  /\ Laid(tape, pos) => Laid(tape, pos)'
         /\ Begun' = Begun /\ Frames' = Frames
         /\ \A k : FrameNo(k)' = FrameNo(k)
BY DEF writerVars, Laid, Begun, Frames, FrameNo

\* Read gives n bytes: they move from the stream to the buffer.
LEMMA ReadsOn ==
  ASSUME Types, InStep, NEW n \in Nat, ReadSome(n)
  PROVE  InStep'
<1>1. PICK tape \in Tape, pos \in Marks : Laid(tape, pos) /\ ReaderInv(tape, pos)
  BY DEF InStep
<1>2. UNCHANGED <<writerVars, rpc, size, got>> /\ UNCHANGED sent
  BY DEF ReadSome, writerVars
<1>3. PICK b, s, at, x, y, x2, y2 :
        /\ b = Len(buf) /\ s = Len(stream) /\ at = Before(pos)
        /\ x = buf /\ y = stream /\ x2 = buf' /\ y2 = stream'
  OBVIOUS
<1>4. /\ b \in Nat /\ s \in Nat /\ at \in Nat /\ n <= s
      /\ x \in Seq(Byte) /\ y \in Seq(Byte) /\ b = Len(x) /\ s = Len(y)
      /\ x2 = x \o SubSeq(y, 1, n) /\ y2 = SubSeq(y, n + 1, s)
  BY <1>3, LenProperties, Places DEF ReadSome, Types
<1>5. /\ Len(x2) = b + n
      /\ \A i \in 1 .. b : x2[i] = x[i]
      /\ \A i \in 1 .. n : x2[b + i] = y[i]
  BY <1>4, TakenBehind
<1>6. Len(y2) = s - n /\ \A i \in 1 .. s - n : y2[i] = y[n + i]
  BY <1>4, Dropped
<1>7. /\ Len(got) <= Len(sent)
      /\ \A k \in 1 .. Len(got) : got[k] = sent[k]
      /\ at + b + s = pos[Len(sent)] + Begun
      /\ \A i \in 1 .. b : x[i] = tape[at + i]
      /\ \A i \in 1 .. s : y[i] = tape[at + b + i]
      /\ rpc = "payload" => Len(got) < Frames /\ size = Len(FrameNo(Len(got) + 1))
  BY <1>1, <1>3 DEF ReaderInv, ReadSome
<1>8. Before(pos)' = at
  BY <1>2, <1>3 DEF Before
<1>9. Len(x2) <= Wanted'
  <2>1. PICK w : w = Wanted
    OBVIOUS
  <2>2. w = Wanted' /\ n <= w - b
    BY <1>2, <1>3, <2>1 DEF Wanted, ReadSome
  <2>3. w \in Nat
    BY <2>1 DEF Wanted, Types
  <2> QED
    BY <1>4, <1>5, <2>2, <2>3
<1>10. at + (b + n) + (s - n) = at + b + s
  BY <1>4
<1>11. ASSUME NEW i \in 1 .. b + n PROVE x2[i] = tape[at + i]
  <2>1. CASE i \in 1 .. b
    BY <1>5, <1>7, <2>1
  <2>2. CASE i \notin 1 .. b
    <3>1. PICK j : j = i - b
      OBVIOUS
    <3>2. j \in 1 .. n /\ j \in 1 .. s /\ i = b + j /\ at + b + j = at + i
      BY <1>4, <2>2, <3>1
    <3> QED
      BY <1>5, <1>7, <3>2
  <2> QED
    BY <2>1, <2>2
<1>12. ASSUME NEW i \in 1 .. s - n PROVE y2[i] = tape[at + (b + n) + i]
  <2>1. n + i \in 1 .. s /\ at + b + (n + i) = at + (b + n) + i
    BY <1>4
  <2> QED
    BY <1>6, <1>7, <2>1
<1>13. ReaderInv(tape, pos)'
  <2>1. Begun' = Begun /\ Frames' = Frames /\ FrameNo(Len(got) + 1)' = FrameNo(Len(got) + 1)
    BY <1>2, ReaderKeeps
  <2>2. pos[Len(sent')] + Begun' = at + (b + n) + (s - n)
    BY <1>2, <1>7, <1>10, <2>1
  <2> QED
    BY <1>2, <1>3, <1>5, <1>6, <1>7, <1>8, <1>9, <1>11, <1>12, <2>1, <2>2 DEF ReaderInv
<1> QED
  BY <1>1, <1>2, <1>13, ReaderKeeps DEF InStep

\* A whole header is that of the frame behind those returned, which has begun.
LEMMA HeaderRead ==
  ASSUME Types, WriterInv, InStep, rpc = "header", Len(buf) = HeaderLen
  PROVE  /\ Len(got) < Frames /\ Legal(FrameNo(Len(got) + 1))
         /\ buf = Header(Len(FrameNo(Len(got) + 1)))
<1>1. PICK tape \in Tape, pos \in Marks : Laid(tape, pos) /\ ReaderInv(tape, pos)
  BY DEF InStep
<1>2. PICK g, n, s, p, q, N : /\ g = Len(got) /\ n = Len(sent) /\ s = Len(stream)
                              /\ p = pos[Len(got)] /\ q = Begun /\ N = Frames
  OBVIOUS
<1>3. g \in Nat /\ n \in Nat /\ s \in Nat /\ p \in Nat /\ q \in Nat /\ N \in Nat
  BY <1>2, LenProperties, Places, BegunBounds DEF Types
<1>4. /\ g <= n /\ p + HeaderLen + s = pos[n] + q
      /\ \A i \in 1 .. HeaderLen : buf[i] = tape[p + i]
  <2>1. Before(pos) = p
    BY <1>2, <1>3 DEF Before
  <2> QED
    BY <1>1, <1>2, <2>1 DEF ReaderInv
<1>5. g < N
  <2>1. CASE g < n
    <3>1. N = n \/ N = n + 1
      BY <1>2 DEF Frames
    <3> QED
      BY <1>3, <2>1, <3>1
  <2>2. CASE g = n
    <3>1. q # 0
      <4>1. p + HeaderLen + s = p + q
        BY <1>2, <1>4, <2>2
      <4> QED
        BY ONLY <1>3, <4>1, Sizes
    <3>2. N = n + 1
      BY <1>2, <3>1, BegunBounds
    <3> QED
      BY <1>3, <2>2, <3>2
  <2> QED
    BY <1>3, <1>4, <2>1, <2>2
<1>6. PICK f, k : f = FrameNo(Len(got) + 1) /\ k = g + 1
  OBVIOUS
<1>7. k \in 1 .. Frames /\ k - 1 = g /\ f = FrameNo(k)
  BY <1>2, <1>3, <1>5, <1>6
<1>8. Legal(f) /\ \A i \in 1 .. HeaderLen : tape[p + i] = Header(Len(f))[i]
  BY <1>1, <1>2, <1>7 DEF Laid
<1>9. buf = Header(Len(f))
  <2>1. PICK x, y : x = buf /\ y = Header(Len(f))
    OBVIOUS
  <2>2. x \in Seq(Byte) /\ y \in Seq(Byte) /\ Len(x) = HeaderLen /\ Len(y) = HeaderLen
    BY <1>8, <2>1, HeaderOf DEF Types
  <2>3. \A i \in 1 .. HeaderLen : x[i] = y[i]
    BY <1>4, <1>8, <2>1
  <2>4. x = y
    BY <2>2, <2>3, SeqEqual
  <2> QED
    BY <2>1, <2>4
<1> QED
  BY <1>2, <1>5, <1>6, <1>8, <1>9

\* With a header the reader turns to a payload of the size that was written.
LEMMA HeaderTaken ==
  ASSUME Types, WriterInv, InStep, ReadHeader
  PROVE  InStep'
<1>1. PICK tape \in Tape, pos \in Marks : Laid(tape, pos) /\ ReaderInv(tape, pos)
  BY DEF InStep
<1>2. UNCHANGED <<stream, cut, writerVars, got>> /\ UNCHANGED sent
  BY DEF ReadHeader, writerVars
<1>3. Laid(tape, pos)'
  BY <1>1, <1>2, ReaderKeeps
<1>4. CASE rpc' = "size"
  BY <1>3, <1>4 DEF InStep, ReaderInv
<1>5. CASE rpc' # "size"
  <2>1. rpc' = "payload" /\ buf' = <<>> /\ size' = Size(buf)
    BY <1>5 DEF ReadHeader
  <2>2. PICK f : f = FrameNo(Len(got) + 1)
    OBVIOUS
  <2>3. rpc = "header" /\ Len(buf) = HeaderLen
    BY DEF ReadHeader
  <2>4. Len(got) < Frames /\ Legal(f) /\ buf = Header(Len(f))
    BY <2>2, <2>3, HeaderRead
  <2>5. size' = Len(f) /\ Len(f) \in Nat
    BY <2>1, <2>4, HeaderOf DEF Legal
  <2>6. PICK s, p, q, e : /\ s = Len(stream) /\ p = pos[Len(got)]
                          /\ q = Begun /\ e = pos[Len(sent)]
    OBVIOUS
  <2>7. p \in Nat /\ s \in Nat /\ Before(pos) = p
    BY <2>3, <2>6, Places, LenProperties DEF Before, Types
  <2>8. /\ Len(got) <= Len(sent) /\ \A k \in 1 .. Len(got) : got[k] = sent[k]
        /\ p + HeaderLen + s = e + q
        /\ \A i \in 1 .. s : stream[i] = tape[p + HeaderLen + i]
    BY <1>1, <2>3, <2>6, <2>7 DEF ReaderInv
  <2>9. Before(pos)' = p + HeaderLen
    BY <1>2, <2>1, <2>6 DEF Before
  <2>10. Len(buf') = 0 /\ p + HeaderLen + 0 = p + HeaderLen /\ Wanted' = Len(f)
    BY <2>1, <2>5, <2>7 DEF Wanted
  <2>11. Begun' = Begun /\ Frames' = Frames /\ FrameNo(Len(got) + 1)' = f
    BY <1>2, <2>2, ReaderKeeps
  <2>12. ReaderInv(tape, pos)'
    BY <1>2, <2>1, <2>4, <2>5, <2>6, <2>8, <2>9, <2>10, <2>11 DEF ReaderInv
  <2> QED
    BY <1>3, <2>12 DEF InStep
<1> QED
  BY <1>4, <1>5
\* What an end or a whole payload is measured against: the reader stands within
\* the frame behind those it returned, and if that is not the one being written
\* the whole of it has been.
LEMMA Standing ==
  ASSUME Types, WriterInv, NEW tape \in Tape, NEW pos \in Marks,
         Laid(tape, pos), ReaderInv(tape, pos), rpc \in {"header", "payload"},
         NEW g, g = Len(got), g < Len(sent)
  PROVE  /\ g \in Nat /\ Legal(FrameNo(g + 1)) /\ FrameNo(g + 1) = sent[g + 1]
         /\ pos[g] \in Nat /\ pos[g + 1] \in Nat /\ pos[Len(sent)] \in Nat
         /\ pos[g + 1] = pos[g] + HeaderLen + Len(FrameNo(g + 1))
         /\ pos[g + 1] <= pos[Len(sent)]
<1>1. PICK n, k, N : n = Len(sent) /\ k = g + 1 /\ N = Frames
  OBVIOUS
<1>2. g \in Nat /\ n \in Nat /\ g < n
  BY <1>1, LenProperties DEF Types
<1>3. n <= N /\ N \in Nat
  BY <1>1, <1>2 DEF Frames
<1>4. /\ k \in 1 .. N /\ k - 1 = g /\ k <= n /\ k \in Nat
      /\ g \in 0 .. N /\ n \in 0 .. N
  BY <1>1, <1>2, <1>3
<1>5. Legal(FrameNo(k)) /\ pos[k] = pos[g] + HeaderLen + Len(FrameNo(k))
  BY <1>1, <1>4 DEF Laid
<1>6. pos[g + 1] <= pos[n]
  BY <1>1, <1>2, <1>4 DEF Laid
<1>7. FrameNo(k) = sent[k]
  BY <1>1, <1>4 DEF FrameNo
<1>8. pos[g] \in Nat /\ pos[k] \in Nat /\ pos[n] \in Nat
  BY <1>2, <1>4 DEF Marks
<1> QED
  BY <1>1, <1>2, <1>5, <1>6, <1>7, <1>8

\* A whole payload is the next of those whose WriteFrame succeeded.
LEMMA PayloadRead ==
  ASSUME Types, WriterInv, NEW tape \in Tape, NEW pos \in Marks,
         Laid(tape, pos), ReaderInv(tape, pos), rpc = "payload", Len(buf) = size
  PROVE  Len(got) < Len(sent) /\ buf = sent[Len(got) + 1]
<1>1. PICK g, n, s, p, q, e, f : /\ g = Len(got) /\ n = Len(sent) /\ s = Len(stream)
                                 /\ p = pos[Len(got)] /\ q = Begun /\ e = pos[Len(sent)]
                                 /\ f = FrameNo(Len(got) + 1)
  OBVIOUS
<1>2. g \in Nat /\ n \in Nat /\ s \in Nat /\ p \in Nat /\ q \in Nat /\ e \in Nat
  BY <1>1, LenProperties, Places, BegunBounds DEF Types
<1>3. /\ g <= n /\ g < Frames /\ size = Len(f)
      /\ (p + HeaderLen) + Len(f) + s = e + q
      /\ \A i \in 1 .. Len(f) : buf[i] = tape[(p + HeaderLen) + i]
  <2>1. Before(pos) = p + HeaderLen
    BY <1>1 DEF Before
  <2> QED
    BY <1>1, <2>1 DEF ReaderInv
<1>4. g < n
  <2> SUFFICES ASSUME g = n PROVE FALSE
    BY <1>2, <1>3
  <2>1. wpc # "idle"
    <3> SUFFICES ASSUME wpc = "idle" PROVE FALSE
      OBVIOUS
    <3>1. Frames = n
      BY <1>1 DEF Frames
    <3>2. n < n
      BY <1>3, <3>1
    <3> QED
      BY ONLY <1>2, <3>2
  <2>2. Legal(frame) /\ q < HeaderLen + Len(frame) /\ FrameNo(n + 1) = frame
    BY <1>1, <2>1, BegunBounds
  <2>3. f = frame /\ e = p
    BY <1>1, <2>2
  <2>4. PICK m : m = Len(frame)
    OBVIOUS
  <2>5. m \in Nat /\ q < HeaderLen + m /\ (p + HeaderLen) + m + s = p + q
    BY <1>3, <2>2, <2>3, <2>4 DEF Legal
  <2> QED
    BY ONLY <1>2, <2>5, Sizes
<1>5. Legal(f) /\ f = sent[g + 1]
  BY <1>1, <1>4, Standing
<1>6. \A i \in 1 .. Len(f) : tape[(p + HeaderLen) + i] = f[i]
  <2>1. PICK k : k = g + 1
    OBVIOUS
  <2>2. k \in 1 .. Frames /\ k - 1 = g /\ FrameNo(k) = f
    <3>1. Frames \in Nat
      BY BegunBounds
    <3>2. FrameNo(k) = f
      BY <1>1, <2>1
    <3> QED
      BY ONLY <1>2, <1>3, <2>1, <3>1, <3>2
  <2> QED
    BY <1>1, <2>2 DEF Laid
<1>7. buf = f
  <2>1. PICK x : x = buf
    OBVIOUS
  <2>2. x \in Seq(Byte) /\ f \in Seq(Byte) /\ Len(x) = Len(f) /\ Len(f) \in Nat
    BY <1>3, <1>5, <2>1 DEF Types, Legal
  <2>3. \A i \in 1 .. Len(f) : x[i] = f[i]
    BY <1>3, <1>6, <2>1
  <2>4. x = f
    BY <2>2, <2>3, SeqEqual
  <2> QED
    BY <2>1, <2>4
<1> QED
  BY <1>1, <1>4, <1>5, <1>7

\* With a whole payload the reader turns to the next header.
LEMMA PayloadTaken ==
  ASSUME Types, WriterInv, InStep, ReadPayload
  PROVE  InStep'
<1>1. PICK tape \in Tape, pos \in Marks : Laid(tape, pos) /\ ReaderInv(tape, pos)
  BY DEF InStep
<1>2. UNCHANGED <<stream, writerVars>> /\ UNCHANGED sent
  BY DEF ReadPayload, writerVars
<1>3. /\ rpc = "payload" /\ Len(buf) = size
      /\ rpc' = "header" /\ buf' = <<>> /\ got' = Append(got, buf)
  BY DEF ReadPayload
<1>4. PICK g, s, p, q, e, k : /\ g = Len(got) /\ s = Len(stream) /\ k = Len(got) + 1
                              /\ p = pos[Len(got)] /\ q = Begun /\ e = pos[Len(sent)]
  OBVIOUS
<1>5. g < Len(sent) /\ buf = sent[k]
  BY <1>1, <1>3, <1>4, PayloadRead
<1>6. /\ g \in Nat /\ s \in Nat /\ p \in Nat /\ q \in Nat /\ e \in Nat /\ Len(sent) \in Nat
      /\ k \in Nat /\ k <= Len(sent)
  BY <1>1, <1>4, <1>5, LenProperties, Places, BegunBounds DEF Types
<1>7. /\ buf \in Payload /\ got \in Seq(Payload)
  <2>1. k \in 1 .. Len(sent)
    BY <1>4, <1>6
  <2> QED
    BY <1>5, <2>1, ElementOfSeq DEF Types
<1>8. /\ Len(got') = k /\ \A i \in 1 .. g : got'[i] = got[i]
      /\ got'[k] = buf
  BY <1>3, <1>4, <1>7, AppendProperties
<1>9. /\ \A i \in 1 .. g : got[i] = sent[i]
      /\ (p + HeaderLen) + size + s = e + q
      /\ \A i \in 1 .. s : stream[i] = tape[(p + HeaderLen) + size + i]
      /\ size = Len(FrameNo(k))
  <2>1. Before(pos) = p + HeaderLen
    BY <1>3, <1>4 DEF Before
  <2> QED
    BY <1>1, <1>3, <1>4, <2>1 DEF ReaderInv
<1>10. pos[k] = (p + HeaderLen) + size
  <2>1. pos[g + 1] = pos[g] + HeaderLen + Len(FrameNo(g + 1))
    BY <1>1, <1>3, <1>4, <1>5, Standing
  <2> QED
    BY <1>4, <1>9, <2>1
<1>11. Before(pos)' = pos[k] + 0
  BY <1>3, <1>8 DEF Before
<1>12. ASSUME NEW i \in 1 .. k PROVE got'[i] = sent[i]
  <2>1. i \in 1 .. g \/ i = k
    BY <1>4, <1>6
  <2> QED
    BY <1>5, <1>8, <1>9, <2>1
<1>13. Begun' = Begun /\ sent' = sent /\ stream' = stream
  BY <1>2, ReaderKeeps
<1>14. PICK a : a = pos[k]
  OBVIOUS
<1>15. a \in Nat /\ a + 0 = a
  BY <1>6, <1>14 DEF Marks
<1>16. /\ Before(pos)' = a /\ Len(buf') = 0 /\ a + 0 + s = e + q
       /\ \A i \in 1 .. s : stream[i] = tape[a + 0 + i]
       /\ Len(buf') <= Wanted'
  BY <1>3, <1>9, <1>10, <1>11, <1>14, <1>15 DEF Wanted
<1>17. ReaderInv(tape, pos)'
  BY <1>3, <1>4, <1>6, <1>8, <1>12, <1>13, <1>16 DEF ReaderInv
<1> QED
  BY <1>1, <1>2, <1>17, ReaderKeeps DEF InStep

\* An end of the stream within or before a header or a payload.
LEMMA EndTold ==
  ASSUME Types, WriterInv, InStep, ReadEnds
  PROVE  EndMissesOnlyHeader'
<1>1. PICK tape \in Tape, pos \in Marks : Laid(tape, pos) /\ ReaderInv(tape, pos)
  BY DEF InStep
<1>2. /\ rpc \in {"header", "payload"} /\ Len(buf) < Wanted /\ Len(stream) = 0
      /\ rpc' = EndOf(buf) /\ UNCHANGED <<sent, got>> /\ Begun' = Begun
  BY ReaderKeeps DEF ReadEnds, writerVars
<1>3. PICK g, n, b, p, q, e : /\ g = Len(got) /\ n = Len(sent) /\ b = Len(buf)
                              /\ p = pos[Len(got)] /\ q = Begun /\ e = pos[Len(sent)]
  OBVIOUS
<1>4. /\ g \in Nat /\ n \in Nat /\ b \in Nat /\ p \in Nat /\ q \in Nat /\ e \in Nat
  BY <1>3, LenProperties, Places, BegunBounds DEF Types
<1>5. /\ g <= n /\ \A k \in 1 .. g : got[k] = sent[k]
      /\ Before(pos) + b + 0 = e + q
      /\ rpc = "payload" => size = Len(FrameNo(g + 1))
  BY <1>1, <1>2, <1>3 DEF ReaderInv
<1>6. /\ rpc = "header" => p + b = e + q /\ b < HeaderLen
      /\ rpc = "payload" => p + HeaderLen + b = e + q /\ b < Len(FrameNo(g + 1))
  <2>1. CASE rpc = "header"
    <3>1. Before(pos) = p /\ Wanted = HeaderLen
      BY <1>3, <1>4, <2>1 DEF Before, Wanted
    <3>2. p + b + 0 = e + q /\ b < HeaderLen
      BY <1>2, <1>3, <1>5, <3>1
    <3> QED
      BY <1>4, <2>1, <3>2
  <2>2. CASE rpc = "payload"
    <3>1. Before(pos) = p + HeaderLen /\ Wanted = size
      BY <1>3, <2>2 DEF Before, Wanted
    <3>2. p + HeaderLen + b + 0 = e + q /\ b < Len(FrameNo(g + 1))
      BY <1>2, <1>3, <1>5, <2>2, <3>1
    <3> QED
      BY <1>4, <2>2, <3>2
  <2> QED
    BY <1>2, <2>1, <2>2
<1>7. g = n
  <2> SUFFICES ASSUME g < n PROVE FALSE
    BY <1>4, <1>5
  <2>1. PICK a, m : a = pos[g + 1] /\ m = Len(FrameNo(g + 1))
    OBVIOUS
  <2>2. a \in Nat /\ m \in Nat /\ a = p + HeaderLen + m /\ a <= e
    BY <1>1, <1>2, <1>3, <2>1, Standing DEF Legal
  <2>3. \/ p + b = e + q /\ b < HeaderLen
        \/ p + HeaderLen + b = e + q /\ b < m
    BY <1>2, <1>6, <2>1
  <2> QED
    BY ONLY <1>4, <2>2, <2>3, Sizes
<1>8. got = sent
  <2>1. PICK x, y : x = got /\ y = sent
    OBVIOUS
  <2>2. x \in Seq(Payload) /\ y \in Seq(Payload) /\ Len(x) = n /\ Len(y) = n
    BY <1>3, <1>7, <2>1 DEF Types
  <2>3. \A k \in 1 .. n : x[k] = y[k]
    BY <1>5, <1>7, <2>1
  <2>4. x = y
    BY <2>2, <2>3, SeqEqual
  <2> QED
    BY <2>1, <2>4
<1>9. e = p
  BY <1>3, <1>7
<1>10. \/ q = b /\ b < HeaderLen
       \/ q = HeaderLen + b
  <2>1. \/ p + b = p + q /\ b < HeaderLen
        \/ p + HeaderLen + b = p + q
    BY <1>2, <1>6, <1>9
  <2> QED
    BY ONLY <1>4, <2>1, Sizes
<1>11. buf = <<>> <=> b = 0
  BY <1>3, EmptySeq DEF Types
<1>12. CASE b = 0
  <2>1. rpc' = "eof"
    BY <1>2, <1>11, <1>12 DEF EndOf
  <2>2. q \in {0, HeaderLen}
    BY <1>4, <1>10, <1>12
  <2> QED
    BY <1>2, <1>3, <1>8, <2>1, <2>2 DEF EndMissesOnlyHeader
<1>13. CASE b # 0
  <2>1. rpc' = "unexpected"
    BY <1>2, <1>11, <1>13 DEF EndOf
  <2>2. q \notin {0, HeaderLen}
    BY <1>4, <1>10, <1>13
  <2> QED
    BY <1>2, <1>3, <1>8, <2>1, <2>2 DEF EndMissesOnlyHeader
<1> QED
  BY <1>12, <1>13
----------------------------------------------------------------------------
(* The invariant.                                                          *)

\* Nothing is on the tape at first.
LEMMA InitIInv == Init => IInv
<1> SUFFICES ASSUME Init PROVE IInv
  OBVIOUS
<1>1. \A S : <<>> \in Seq(S)
  BY EmptySeq
<1>2. Len(<<>>) = 0
  OBVIOUS
<1>3. Types /\ WriterInv
  BY <1>1 DEF Init, Types, WriterInv
<1>4. EndMissesOnlyHeader /\ (rpc \in {"eof", "unexpected"} => cut)
  BY DEF Init, EndMissesOnlyHeader
<1>5. InStep
  <2>1. 0 \in Byte
    BY FrameAssumption DEF Byte
  <2>2. PICK tape, pos : tape = [i \in Nat |-> 0] /\ pos = [k \in Nat |-> 0]
    OBVIOUS
  <2>3. tape \in Tape /\ pos \in Marks /\ pos[0] = 0
    BY <2>1, <2>2 DEF Tape, Marks
  <2>4. Frames = 0 /\ Begun = 0 /\ Len(got) = 0 /\ Len(sent) = 0
        /\ Len(buf) = 0 /\ Len(stream) = 0 /\ rpc = "header"
    BY <1>2 DEF Init, Frames, Begun
  <2>5. Laid(tape, pos)
    BY <2>4 DEF Laid
  <2>6. Before(pos) = 0 /\ Wanted = HeaderLen
    BY <2>3, <2>4 DEF Before, Wanted
  <2>7. ReaderInv(tape, pos)
    BY <2>3, <2>4, <2>6 DEF ReaderInv
  <2> QED
    BY <2>3, <2>5, <2>7 DEF InStep
<1> QED
  BY <1>3, <1>4, <1>5 DEF IInv

\* What Write leaves of a header or a payload is still its end.
LEMMA LeftAfter ==
  ASSUME Types, WriterInv, NEW n \in Nat, Take(n)
  PROVE  /\ Unwritten(n) \in Seq(Byte) /\ Len(Unwritten(n)) = Len(left) - n
         /\ \A i \in 1 .. Len(left) - n : Unwritten(n)[i] = left[n + i]
         /\ wpc # "idle" /\ n <= Len(left) /\ Len(left) \in Nat
         /\ stream' \in Seq(Byte)
<1>1. PICK x, y, l, u, s : x = stream /\ y = left /\ l = Len(left) /\ u = Unwritten(n)
                           /\ s = Len(stream)
  OBVIOUS
<1>2. /\ x \in Seq(Byte) /\ y \in Seq(Byte) /\ l \in Nat /\ l = Len(y) /\ n <= l
      /\ u = SubSeq(y, n + 1, l) /\ wpc # "idle" /\ s \in Nat /\ s = Len(x)
  BY <1>1, LenProperties DEF Types, Take, Unwritten
<1>3. u \in Seq(Byte) /\ Len(u) = l - n /\ \A i \in 1 .. l - n : u[i] = y[n + i]
  <2>1. u \in Seq(Byte)
    BY <1>2, Dropped
  <2>2. Len(u) = l - n
    BY <1>2, Dropped
  <2>3. \A i \in 1 .. l - n : u[i] = y[n + i]
    BY <1>2, Dropped
  <2> QED
    BY <2>1, <2>2, <2>3
<1>4. PICK r : r = x \o SubSeq(y, 1, n)
  OBVIOUS
<1>5. r \in Seq(Byte)
  BY <1>2, <1>4, TakenBehind
<1>6. stream' = r
  BY <1>1, <1>4 DEF Take
<1> QED
  BY <1>1, <1>2, <1>3, <1>5, <1>6

\* The writer's invariant when it goes on with what is left.
LEMMA WriterGoesOn ==
  ASSUME Types, WriterInv, NEW n \in Nat, Take(n), left' = Unwritten(n),
         Unwritten(n) # <<>>, UNCHANGED <<wpc, frame, sent>>
  PROVE  WriterInv' /\ Begun' = Begun + n /\ Frames' = Frames
         /\ \A k \in 1 .. Frames : FrameNo(k)' = FrameNo(k)
<1>1. PICK l, k, m, y, u : l = Len(left) /\ k = Len(left') /\ m = Len(frame)
                           /\ y = left /\ u = left'
  OBVIOUS
<1>2. /\ l \in Nat /\ n <= l /\ k = l - n /\ wpc # "idle"
      /\ \A i \in 1 .. k : u[i] = y[n + i]
  BY <1>1, LeftAfter
<1>3. k > 0 /\ k \in Nat
  <2>1. k # 0
    BY <1>1, LeftAfter, EmptySeq
  <2> QED
    BY <1>2, <2>1
<1>4. Legal(frame) /\ m \in Nat
  BY <1>1, <1>2 DEF WriterInv, Legal
<1>5. CASE wpc = "header"
  <2>1. l \in 1 .. HeaderLen /\ \A i \in 1 .. l : y[i] = Header(m)[HeaderLen - l + i]
    BY <1>1, <1>5 DEF WriterInv
  <2>2. k \in 1 .. HeaderLen
    BY <1>2, <1>3, <2>1
  <2>3. ASSUME NEW i \in 1 .. k PROVE u[i] = Header(m)[HeaderLen - k + i]
    <3>1. n + i \in 1 .. l /\ HeaderLen - l + (n + i) = HeaderLen - k + i
      BY <1>2, <1>3
    <3>2. u[i] = y[n + i] /\ y[n + i] = Header(m)[HeaderLen - l + (n + i)]
      BY <1>2, <2>1, <3>1
    <3> QED
      BY <3>1, <3>2
  <2>4. Begun' = HeaderLen - k /\ Begun = HeaderLen - l
    BY <1>1, <1>5 DEF Begun
  <2>5. Begun' = Begun + n
    BY <1>2, <1>3, <2>4
  <2> QED
    BY <1>1, <1>4, <1>5, <2>2, <2>3, <2>5 DEF WriterInv, Frames, FrameNo
<1>6. CASE wpc = "payload"
  <2>1. l \in 1 .. m /\ \A i \in 1 .. l : y[i] = frame[m - l + i]
    BY <1>1, <1>6 DEF WriterInv
  <2>2. k \in 1 .. m
    BY <1>2, <1>3, <1>4, <2>1
  <2>3. ASSUME NEW i \in 1 .. k PROVE u[i] = frame[m - k + i]
    <3>1. n + i \in 1 .. l /\ m - l + (n + i) = m - k + i
      BY <1>2, <1>3, <1>4
    <3>2. u[i] = y[n + i] /\ y[n + i] = frame[m - l + (n + i)]
      BY <1>2, <2>1, <3>1
    <3> QED
      BY <3>1, <3>2
  <2>4. Begun' = HeaderLen + m - k /\ Begun = HeaderLen + m - l
    BY <1>1, <1>6 DEF Begun
  <2>5. Begun' = Begun + n
    BY <1>2, <1>3, <1>4, <2>4
  <2> QED
    BY <1>1, <1>4, <1>6, <2>2, <2>3, <2>5 DEF WriterInv, Frames, FrameNo
<1> QED
  BY <1>2, <1>5, <1>6 DEF Types
\* The invariant does not depend on the number of calls, and lets the end close.
LEMMA Stays ==
  ASSUME IInv, UNCHANGED <<stream, wpc, frame, left, sent, readerVars>>, cut' \in {cut, TRUE}
  PROVE  IInv'
<1>1. UNCHANGED <<rpc, buf, size, got>>
  BY DEF readerVars
<1>2. Begun' = Begun /\ Frames' = Frames /\ Wanted' = Wanted /\ \A k : FrameNo(k)' = FrameNo(k)
  BY <1>1 DEF Begun, Frames, Wanted, FrameNo
<1>3. PICK tape \in Tape, pos \in Marks : Laid(tape, pos) /\ ReaderInv(tape, pos)
  BY DEF IInv, InStep
<1>4. Laid(tape, pos)'
  BY <1>2, <1>3 DEF Laid
<1>5. ReaderInv(tape, pos)'
  <2>1. Before(pos)' = Before(pos)
    BY <1>1 DEF Before
  <2> QED
    BY <1>1, <1>2, <1>3, <2>1 DEF ReaderInv
<1>6. (Types /\ WriterInv)'
  BY <1>1 DEF IInv, Types, WriterInv
<1>7. EndMissesOnlyHeader' /\ (rpc' \in {"eof", "unexpected"} => cut')
  BY <1>1, <1>2 DEF IInv, EndMissesOnlyHeader
<1> QED
  BY <1>4, <1>5, <1>6, <1>7 DEF IInv, InStep

\* The writer's steps keep the invariant.
LEMMA WriteFrameKeeps ==
  ASSUME IInv, NEW f \in Payload, WriteFrame(f)
  PROVE  IInv'
<1>1. /\ Types /\ WriterInv /\ InStep /\ wpc = "idle" /\ rpc \notin {"eof", "unexpected"}
      /\ UNCHANGED <<stream, cut, sent, readerVars>> /\ UNCHANGED <<rpc, buf, size, got>>
  BY DEF IInv, WriteFrame, readerVars
<1>2. CASE UNCHANGED <<wpc, frame, left>>
  BY <1>1, <1>2, Stays
<1>3. CASE ~UNCHANGED <<wpc, frame, left>>
  <2>1. /\ f # <<>> /\ ~(Len(f) > WriterMax)
        /\ wpc' = "header" /\ frame' = f /\ left' = Header(Len(f))
    BY <1>3 DEF WriteFrame
  <2>2. Legal(f)
    BY <2>1, LegalFrame
  <2>3. InStep'
    BY <1>1, <2>1, <2>2, NewFrame
  <2>4. PICK h : h = Header(Len(f))
    OBVIOUS
  <2>5. h \in Seq(Byte) /\ Len(h) = HeaderLen
    BY <2>2, <2>4, HeaderOf
  <2>6. Types'
    BY <1>1, <2>1, <2>4, <2>5 DEF Types
  <2>7. WriterInv'
    <3>1. HeaderLen \in 1 .. HeaderLen /\ \A i : HeaderLen - HeaderLen + i = 0 + i
      OBVIOUS
    <3>2. \A i \in 1 .. HeaderLen : HeaderLen - HeaderLen + i = i
      OBVIOUS
    <3> QED
      BY <2>1, <2>2, <2>4, <2>5, <3>1, <3>2 DEF WriterInv
  <2> QED
    BY <1>1, <2>3, <2>6, <2>7 DEF IInv, EndMissesOnlyHeader
<1> QED
  BY <1>2, <1>3

\* Write takes n bytes.
LEMMA WriteSomeKeeps ==
  ASSUME IInv, NEW n \in Nat, WriteSome(n) \/ WriteFails(n)
  PROVE  IInv'
<1>1. /\ Types /\ WriterInv /\ InStep /\ rpc \notin {"eof", "unexpected"} /\ Take(n)
      /\ UNCHANGED <<frame, rpc, buf, size, got>> /\ cut' \in BOOLEAN
  BY DEF IInv, Types, WriteSome, WriteFails, Take, readerVars
<1>2. wpc # "idle" /\ Unwritten(n) \in Seq(Byte) /\ stream' \in Seq(Byte)
  BY <1>1, LeftAfter
<1>3. Legal(frame) /\ frame \in Payload /\ frame \in Seq(Byte) /\ Len(frame) \in 1 .. WriterMax
  BY <1>1, <1>2 DEF WriterInv, Legal
<1>4. CASE left' = Unwritten(n) /\ Unwritten(n) # <<>> /\ UNCHANGED <<wpc, sent>>
  <2>1. /\ WriterInv' /\ Begun' = Begun + n /\ Frames' = Frames
        /\ \A k \in 1 .. Frames : FrameNo(k)' = FrameNo(k)
    BY <1>1, <1>4, WriterGoesOn
  <2>2. InStep'
    BY <1>1, <1>2, <1>4, <2>1, StreamGrows
  <2>3. Types'
    BY <1>1, <1>2, <1>4 DEF Types
  <2> QED
    BY <1>1, <2>1, <2>2, <2>3 DEF IInv, EndMissesOnlyHeader
<1>5. CASE /\ Unwritten(n) = <<>> /\ wpc = "header"
           /\ wpc' = "payload" /\ left' = frame /\ UNCHANGED sent
  <2>1. PICK l, m : l = Len(left) /\ m = Len(frame)
    OBVIOUS
  <2>2. l \in Nat /\ n = l /\ m \in 1 .. WriterMax /\ l \in 1 .. HeaderLen
    BY <1>1, <1>3, <1>5, <2>1, LeftAfter DEF WriterInv
  <2>3. Begun = HeaderLen - l /\ Begun' = HeaderLen + m - m
    BY <1>1, <1>5, <2>1 DEF Begun
  <2>4. Begun' = Begun + n
    BY <2>2, <2>3
  <2>5. Frames' = Frames /\ \A k \in 1 .. Frames : FrameNo(k)' = FrameNo(k)
    BY <1>1, <1>5 DEF Frames, FrameNo
  <2>6. InStep'
    BY <1>1, <1>2, <1>5, <2>4, <2>5, StreamGrows
  <2>7. WriterInv'
    <3>1. m \in 1 .. m /\ \A i \in 1 .. m : m - m + i = i
      BY <2>2
    <3> QED
      BY <1>1, <1>3, <1>5, <2>1, <3>1 DEF WriterInv
  <2>8. Types'
    BY <1>1, <1>2, <1>3, <1>5 DEF Types
  <2> QED
    BY <1>1, <2>6, <2>7, <2>8 DEF IInv, EndMissesOnlyHeader
<1>6. CASE /\ Unwritten(n) = <<>> /\ wpc = "payload"
           /\ wpc' = "idle" /\ left' = <<>> /\ sent' = Append(sent, frame)
  <2>1. PICK l, m, c : l = Len(left) /\ m = Len(frame) /\ c = Len(sent)
    OBVIOUS
  <2>2. l \in Nat /\ n = l /\ m \in 1 .. WriterMax /\ c \in Nat
    BY <1>1, <1>3, <1>6, <2>1, LeftAfter, LenProperties DEF Types
  <2>3. Begun' = 0 /\ Begun = HeaderLen + m - l
    BY <1>6, <2>1 DEF Begun
  <2>4. Begun + n = HeaderLen + m
    BY <2>2, <2>3
  <2>5. /\ sent' \in Seq(Payload) /\ Len(sent') = c + 1
        /\ \A k \in 1 .. c : sent'[k] = sent[k]
        /\ sent'[c + 1] = frame
    BY <1>1, <1>3, <1>6, <2>1, AppendProperties DEF Types
  <2>6. Frames = c + 1 /\ Frames' = c + 1
    BY <1>6, <2>1, <2>5 DEF Frames
  <2>7. ASSUME NEW k \in 1 .. c + 1 PROVE FrameNo(k)' = FrameNo(k)
    <3>1. CASE k \in 1 .. c
      <4>1. k <= c /\ k <= c + 1
        BY <2>2, <3>1
      <4> QED
        BY <2>1, <2>5, <3>1, <4>1 DEF FrameNo
    <3>2. CASE k = c + 1
      <4>1. ~(k <= c) /\ k <= c + 1
        BY <2>2, <3>2
      <4> QED
        BY <2>1, <2>5, <3>2, <4>1 DEF FrameNo
    <3> QED
      BY <2>2, <3>1, <3>2
  <2>8. Frames' = Frames /\ \A k \in 1 .. Frames : FrameNo(k)' = FrameNo(k)
    BY <2>6, <2>7
  <2>9. InStep'
    BY <1>1, <1>2, <1>6, <2>1, <2>3, <2>4, <2>8, StreamGrows
  <2>10. WriterInv'
    BY <1>6 DEF WriterInv
  <2>11. Types'
    <3>1. <<>> \in Seq(Byte)
      BY EmptySeq
    <3> QED
      BY <1>1, <1>2, <1>6, <2>5, <3>1 DEF Types
  <2> QED
    BY <1>1, <2>9, <2>10, <2>11 DEF IInv, EndMissesOnlyHeader
<1>7. WriteFails(n) => Unwritten(n) # <<>>
  <2> SUFFICES ASSUME WriteFails(n) PROVE Unwritten(n) # <<>>
    OBVIOUS
  <2>1. PICK l, u : l = Len(left) /\ u = Len(Unwritten(n))
    OBVIOUS
  <2>2. l \in Nat /\ u = l - n /\ n < l
    BY <1>1, <2>1, LeftAfter DEF WriteFails
  <2>3. u # 0
    BY <2>2
  <2> QED
    BY <1>2, <2>1, <2>3, EmptySeq
<1> QED
  BY <1>4, <1>5, <1>6, <1>7 DEF WriteSome, WriteFails

\* Every step keeps the invariant.
LEMMA StepIInv == IInv /\ [Next]_vars => IInv'
<1> SUFFICES ASSUME IInv, [Next]_vars PROVE IInv'
  OBVIOUS
<1>1. /\ Types /\ WriterInv /\ InStep /\ EndMissesOnlyHeader
      /\ rpc \in {"eof", "unexpected"} => cut
  BY DEF IInv
<1>2. ASSUME NEW f \in Payload, WriteFrame(f) PROVE IInv'
  BY <1>2, WriteFrameKeeps
<1>3. ASSUME NEW n \in Nat, WriteSome(n) \/ WriteFails(n) PROVE IInv'
  BY <1>3, WriteSomeKeeps
<1>4. ASSUME NEW n \in Nat, ReadSome(n) PROVE IInv'
  <2>1. InStep'
    BY <1>1, <1>4, ReadsOn
  <2>2. PICK s, x, y : s = Len(stream) /\ x = stream /\ y = buf
    OBVIOUS
  <2>3. /\ s \in Nat /\ s = Len(x) /\ n <= s /\ x \in Seq(Byte) /\ y \in Seq(Byte)
        /\ stream' = SubSeq(x, n + 1, s) /\ buf' = y \o SubSeq(x, 1, n)
    BY <1>1, <1>4, <2>2, LenProperties DEF ReadSome, Types
  <2>4. PICK x2, y2, b : x2 = SubSeq(x, n + 1, s) /\ y2 = y \o SubSeq(x, 1, n) /\ b = Len(y)
    OBVIOUS
  <2>5. b \in Nat
    BY <2>3, <2>4, LenProperties
  <2>6. x2 \in Seq(Byte)
    BY <2>3, <2>4, Dropped
  <2>7. y2 \in Seq(Byte)
    BY <2>3, <2>4, <2>5, TakenBehind
  <2>8. Types' /\ WriterInv'
    BY <1>1, <1>4, <2>3, <2>4, <2>6, <2>7 DEF ReadSome, Types, WriterInv, writerVars
  <2> QED
    BY <1>4, <2>1, <2>8 DEF ReadSome, IInv, EndMissesOnlyHeader
<1>5. CASE Cut
  BY <1>5, Stays DEF Cut, writerVars
<1>6. CASE ReadHeader
  <2>1. InStep'
    BY <1>1, <1>6, HeaderTaken
  <2>2. <<>> \in Seq(Byte)
    BY EmptySeq
  <2>3. Types' /\ WriterInv'
    <3>1. UNCHANGED <<stream, cut, wpc, frame, left, sent, got>>
      BY <1>6 DEF ReadHeader, writerVars
    <3>2. buf' \in Seq(Byte) /\ size' \in Nat /\ rpc' \in {"payload", "size"}
      <4>1. CASE Size(buf) \in 1 .. ReaderMax
        BY <1>6, <2>2, <4>1 DEF ReadHeader
      <4>2. CASE Size(buf) \notin 1 .. ReaderMax
        BY <1>1, <1>6, <4>2 DEF ReadHeader, Types
      <4> QED
        BY <4>1, <4>2
    <3> QED
      BY <1>1, <3>1, <3>2 DEF Types, WriterInv
  <2> QED
    BY <1>6, <2>1, <2>3 DEF ReadHeader, IInv, EndMissesOnlyHeader
<1>7. CASE ReadPayload
  <2>1. InStep'
    BY <1>1, <1>7, PayloadTaken
  <2>2. <<>> \in Seq(Byte)
    BY EmptySeq
  <2>3. Len(got) < Len(sent) /\ buf = sent[Len(got) + 1]
    BY <1>1, <1>7, PayloadRead DEF InStep, ReadPayload
  <2>4. buf \in Payload
    <3>1. PICK g : g = Len(got)
      OBVIOUS
    <3>2. g \in Nat /\ Len(sent) \in Nat /\ g < Len(sent)
      BY <1>1, <2>3, <3>1, LenProperties DEF Types
    <3>3. g + 1 \in 1 .. Len(sent)
      BY <3>2
    <3> QED
      BY <1>1, <2>3, <3>1, <3>3, ElementOfSeq DEF Types
  <2>5. Types'
    BY <1>1, <1>7, <2>2, <2>4, AppendProperties DEF ReadPayload, Types, writerVars
  <2>6. WriterInv'
    BY <1>1, <1>7 DEF ReadPayload, WriterInv, writerVars
  <2> QED
    BY <1>7, <2>1, <2>5, <2>6 DEF ReadPayload, IInv, EndMissesOnlyHeader
<1>8. CASE ReadEnds
  <2>1. EndMissesOnlyHeader'
    BY <1>1, <1>8, EndTold
  <2>2. Types' /\ WriterInv' /\ cut' = TRUE /\ rpc' \in {"eof", "unexpected"}
    BY <1>1, <1>8 DEF ReadEnds, EndOf, Types, WriterInv, writerVars
  <2>3. PICK tape \in Tape, pos \in Marks : Laid(tape, pos)
    BY <1>1 DEF InStep
  <2>4. Laid(tape, pos)'
    BY <1>8, <2>3, ReaderKeeps DEF ReadEnds
  <2>5. ReaderInv(tape, pos)'
    BY <2>2 DEF ReaderInv
  <2> QED
    BY <2>1, <2>2, <2>4, <2>5 DEF IInv, InStep
<1>9. CASE UNCHANGED vars
  BY <1>9, Stays DEF vars, writerVars
<1>10. \A n \in 0 .. StreamCap : n \in Nat
  OBVIOUS
<1> QED
  BY <1>2, <1>3, <1>4, <1>5, <1>6, <1>7, <1>8, <1>9, <1>10 DEF Next

\* The writer and the reader never lose step.
THEOREM Invariant == Spec => []IInv
BY InitIInv, StepIInv, PTL DEF Spec

\* Type correctness of the stream, the writer and the reader.
THEOREM TypeCorrect == Spec => []Types
<1>1. IInv => Types
  BY DEF IInv
<1> QED
  BY <1>1, Invariant, PTL

\* Whatever short writes, short reads and cuts there are, what ReadFrame makes
\* of the end of its input is true: with io.EOF nothing is missing, or a frame
\* of which exactly the header arrived; io.ErrUnexpectedEOF is a frame cut
\* anywhere else.
THEOREM EndIsTrue == Spec => []EndMissesOnlyHeader
<1>1. IInv => EndMissesOnlyHeader
  BY DEF IInv
<1> QED
  BY <1>1, Invariant, PTL

----------------------------------------------------------------------------
(* The channel.                                                            *)

\* Every step is one of the channel's, or none.
LEMMA StepRefines ==
  ASSUME IInv, [Next]_vars
  PROVE  [Channel!ChannelNext]_(Channel!channelVars)
<1> DEFINE Ended == rpc \notin {"header", "payload"}
<1>1. /\ Types /\ WriterInv /\ InStep
  BY DEF IInv
<1>2. ASSUME NEW f \in Payload, WriteFrame(f)
      PROVE  UNCHANGED <<sent, got, rpc>>
  BY <1>2 DEF WriteFrame, readerVars
<1>3. ASSUME NEW n \in Nat, WriteSome(n) \/ WriteFails(n)
      PROVE  /\ UNCHANGED <<got, rpc>>
             /\ frame \in Payload
             /\ sent' = sent \/ sent' = Append(sent, frame)
  <2>1. frame \in Payload
    BY <1>1, <1>3, LeftAfter DEF WriteSome, WriteFails, WriterInv, Legal
  <2> QED
    BY <1>3, <2>1 DEF WriteSome, WriteFails, readerVars
<1>4. ASSUME NEW n \in Nat, ReadSome(n)
      PROVE  UNCHANGED <<sent, got, rpc>>
  BY <1>4 DEF ReadSome, writerVars
<1>5. CASE Cut \/ UNCHANGED vars
  BY <1>5 DEF Cut, vars, writerVars, readerVars, Channel!channelVars
<1>6. CASE ReadHeader
  BY <1>6 DEF ReadHeader, writerVars, Channel!ChannelNext, Channel!End, Channel!channelVars
<1>7. CASE ReadPayload
  <2>1. Len(got) < Len(sent) /\ buf = sent[Len(got) + 1]
    BY <1>1, <1>7, PayloadRead DEF InStep, ReadPayload
  <2> QED
    BY <1>7, <2>1 DEF ReadPayload, writerVars, Channel!ChannelNext, Channel!Deliver
<1>8. CASE ReadEnds
  BY <1>8 DEF ReadEnds, EndOf, writerVars, Channel!ChannelNext, Channel!End
<1>9. \A n \in 0 .. StreamCap : n \in Nat
  OBVIOUS
<1> QED
  BY <1>2, <1>3, <1>4, <1>5, <1>6, <1>7, <1>8, <1>9
     DEF Next, Channel!ChannelNext, Channel!Send, Channel!channelVars

\* FrameStream implements FrameChannel: frames arrive in order, once and whole.
THEOREM Refinement == Spec => ImplementsChannel
<1>1. Init => Channel!ChannelInit
  BY DEF Init, Channel!ChannelInit
<1>2. IInv /\ [Next]_vars => [Channel!ChannelNext]_(Channel!channelVars)
  BY StepRefines
<1> QED
  BY <1>1, <1>2, Invariant, PTL DEF Spec, ImplementsChannel, Channel!ChannelSpec
=============================================================================
