-------------------------- MODULE TransferProofs --------------------------
(***************************************************************************)
(* Proofs about module Transfer, for any bytes, any limit and any size of  *)
(* the chunks in either direction.                                         *)
(***************************************************************************)
EXTENDS Transfer, SequenceTheorems, TLAPS

Bytes == Seq(Byte)
Kept == Seq(Byte \cup {Damaged})

\* Before the last chunk is sent nothing is committed, and then only what the
\* host holds: a put that succeeds has compared it with the data.
PutInv ==
  /\ TypeOK
  /\ result \in {"start", "sending", "large"} => committed = <<>>
  /\ result \in {"sent", "host", "mismatch", "nil"} =>
       committed = IF Last(End) THEN <<stored>> ELSE <<>>
  /\ result = "nil" => Last(End) /\ stored = data

\* The cursor counts what was written, but for a chunk whose write failed, and
\* nothing is written beyond the size in the receipt.
ReadInv ==
  /\ Read!TypeOK
  /\ IF readResult = "write" THEN readOff <= Len(written) ELSE readOff = Len(written)
  /\ receipt = <<>> => readOff = 0 /\ written = <<>> /\ readResult # "nil"
  /\ receipt # <<>> =>
       /\ receipt[1].id /\ receipt[1].size \in 0 .. MaxResourceBytes
       /\ Len(written) <= receipt[1].size
  /\ readResult = "nil" =>
       written = receipt[1].sha256 /\ Len(written) = receipt[1].size

USE ResourceAssumption, TransferAssumption DEF vars, readVars, Read!vars

----------------------------------------------------------------------------
(* PutResource.                                                            *)

\* Contents of bounded length are sequences of bytes.
LEMMA ContentSeq ==
  ASSUME NEW n \in Nat, NEW d \in Content(n)
  PROVE  d \in Bytes /\ Len(d) \in 0 .. n
<1>1. PICK k \in 0 .. n : d \in [1 .. k -> Byte]
  BY DEF Content
<1>2. d \in Seq(Byte) /\ Len(d) = k
  BY <1>1, SeqDef, LenProperties
<1> QED
  BY <1>2 DEF Bytes

\* A byte of the data may be damaged, and the data is as good as kept.
LEMMA KeptBytes == Bytes \subseteq Kept
BY SeqMonotonic DEF Bytes, Kept

\* The end of a chunk is within the data, and beyond its beginning unless the
\* data is empty.
LEMMA EndTypes ==
  ASSUME TypeOK
  PROVE  /\ data \in Bytes /\ Len(data) \in Nat /\ off \in Nat
         /\ End \in off .. Len(data)
         /\ ~Last(End) => End \in 0 .. Len(data) - 1
         /\ Last(End) <=> off + ChunkBytes >= Len(data)
<1>1. data \in Bytes /\ Len(data) \in Nat
  BY ContentSeq DEF TypeOK, Data
<1> DEFINE n == Len(data)
<1>2. n \in Nat /\ off \in {0} \cup 0 .. n - 1
  BY <1>1 DEF TypeOK
<1>3. End = IF off + ChunkBytes < n THEN off + ChunkBytes ELSE n
  BY DEF End
<1> HIDE DEF n
<1>4. End \in off .. n /\ (End # n => End \in 0 .. n - 1) /\ (End = n <=> off + ChunkBytes >= n)
  BY <1>2, <1>3
<1> QED
  BY <1>1, <1>2, <1>4 DEF Last, n

\* What the host stores of a chunk is a sequence of bytes, damaged or not.
LEMMA StoresTypes ==
  ASSUME TypeOK, NEW chunk \in Bytes, HostStores(chunk)
  PROVE  stored' \in Kept
<1>1. stored \in Kept /\ chunk \in Kept
  BY KeptBytes DEF TypeOK, Kept
<1>2. CASE stored' = stored \o chunk
  BY <1>1, <1>2, ConcatProperties DEF Kept
<1>3. CASE chunk # <<>> /\ stored' = stored \o [chunk EXCEPT ![1] = Damaged]
  <2> DEFINE damaged == [chunk EXCEPT ![1] = Damaged]
  <2>1. 1 \in 1 .. Len(chunk)
    BY <1>3, EmptySeq DEF Bytes
  <2>2. damaged \in Kept
    BY <1>1, <2>1, ExceptSeq DEF Kept
  <2>3. stored' = stored \o damaged
    BY <1>3
  <2> HIDE DEF damaged
  <2> QED
    BY <1>1, <2>2, <2>3, ConcatProperties DEF Kept
<1> QED
  BY <1>1, <1>2, <1>3 DEF HostStores

\* Nothing is sent at first.
LEMMA InitPut == Init => PutInv
<1> SUFFICES ASSUME Init PROVE PutInv
  OBVIOUS
<1>1. <<>> \in Seq(Byte \cup {Damaged}) /\ <<>> \in Seq(Seq(Byte \cup {Damaged}))
  BY EmptySeq
<1> QED
  BY <1>1 DEF Init, PutInv, TypeOK

\* Every step of PutResource keeps what was sent in step with the cursor.
LEMMA StepPut == PutInv /\ [Next]_vars => PutInv'
<1> SUFFICES ASSUME PutInv, [Next]_vars PROVE PutInv'
  OBVIOUS
<1>1. TypeOK
  BY DEF PutInv
<1>2. CASE Start
  BY <1>2 DEF Start, PutInv, TypeOK, Last, End
<1>3. CASE Send
  <2> DEFINE chunk == SubSeq(data, off + 1, End)
  <2>1. chunk \in Bytes
    <3>1. /\ data \in Seq(Byte) /\ Len(data) \in Nat /\ off + 1 \in Int /\ End \in Int
          /\ off \in Nat /\ End \in off .. Len(data)
      BY <1>1, EndTypes DEF Bytes
    <3>2. \A i \in off + 1 .. End : i \in 1 .. Len(data)
      BY <3>1
    <3>3. \A i \in off + 1 .. End : data[i] \in Byte
      BY <3>1, <3>2, ElementOfSeq
    <3> QED
      BY <3>1, <3>3, SubSeqProperties DEF Bytes
  <2>2. /\ result = "sending" /\ result' = "sent" /\ HostStores(chunk)
        /\ committed' = IF Last(End) THEN Append(committed, stored') ELSE committed
        /\ UNCHANGED <<data, off>>
    BY <1>3 DEF Send
  <2>3. committed = <<>>
    BY <2>2 DEF PutInv
  <2> HIDE DEF chunk
  <2>4. stored' \in Kept
    BY <1>1, <2>1, <2>2, StoresTypes
  <2> PICK now : now = stored'
    OBVIOUS
  <2>5. now \in Kept /\ committed' = IF Last(End) THEN <<now>> ELSE <<>>
    BY <2>2, <2>3, <2>4
  <2>6. <<now>> \in Seq(Kept) /\ <<>> \in Seq(Kept)
    BY <2>5, EmptySeq
  <2>7. committed' \in Seq(Kept)
    BY ONLY <2>5, <2>6
  <2>8. TypeOK'
    BY <1>1, <2>2, <2>5, <2>7 DEF TypeOK, Kept
  <2>9. Last(End)' <=> Last(End)
    BY <2>2 DEF Last, End
  <2> QED
    BY <2>2, <2>5, <2>8, <2>9 DEF PutInv
<1>4. CASE HostFails
  BY <1>4 DEF HostFails, PutInv, TypeOK, Last, End
<1>5. ASSUME NEW id \in BOOLEAN, HostAnswers(id)
      PROVE  PutInv'
  <2>1. CASE Last(End)
    <3>1. UNCHANGED <<off, data, stored, committed>>
      BY <1>5, <2>1 DEF HostAnswers
    <3>2. result' = IF ReceiptMatches(id, stored) THEN "nil" ELSE "mismatch"
      BY <1>5, <2>1 DEF HostAnswers
    <3>3. Last(End)' <=> Last(End)
      BY <3>1 DEF Last, End
    <3>4. committed = <<stored>>
      BY <1>5, <2>1 DEF HostAnswers, PutInv
    <3> QED
      BY <1>1, <2>1, <3>1, <3>2, <3>3, <3>4 DEF PutInv, TypeOK, ReceiptMatches
  <2>2. CASE ~Last(End)
    <3>1. /\ result = "sent" /\ off' = End /\ result' = "sending"
          /\ UNCHANGED <<data, stored, committed>>
      BY <1>5, <2>2 DEF HostAnswers
    <3>2. End \in 0 .. Len(data) - 1
      BY <1>1, <2>2, EndTypes
    <3>3. committed = <<>>
      BY <2>2, <3>1 DEF PutInv
    <3> QED
      BY <1>1, <3>1, <3>2, <3>3 DEF PutInv, TypeOK
  <2> QED
    BY <2>1, <2>2
<1>6. CASE UNCHANGED vars
  BY <1>6 DEF PutInv, TypeOK, Last, End
<1> QED
  BY <1>2, <1>3, <1>4, <1>5, <1>6 DEF Next

----------------------------------------------------------------------------
(* ReadResourceTo.                                                         *)

\* Nothing is read at first.
LEMMA InitRead == Read!Init => ReadInv
<1> SUFFICES ASSUME Read!Init PROVE ReadInv
  OBVIOUS
<1>1. <<>> \in Seq(Read!Receipt) /\ <<>> \in Seq(Byte) /\ Len(<<>>) = 0
  BY EmptySeq
<1> QED
  BY <1>1 DEF Read!Init, ReadInv, Read!TypeOK

\* What has been written, with the part of a chunk that the writer took, is
\* as long as the two together.
LEMMA WrittenMore ==
  ASSUME NEW w \in Bytes, NEW d \in Bytes, NEW k \in 0 .. Len(d)
  PROVE  /\ w \o SubSeq(d, 1, k) \in Bytes
         /\ Len(w \o SubSeq(d, 1, k)) = Len(w) + k /\ Len(w) \in Nat /\ Len(d) \in Nat
         /\ w \o d \in Bytes /\ Len(w \o d) = Len(w) + Len(d)
<1>1. Len(w) \in Nat /\ Len(d) \in Nat
  BY LenProperties DEF Bytes
<1>2. \A i \in 1 .. k : d[i] \in Byte
  BY <1>1, ElementOfSeq DEF Bytes
<1>3. SubSeq(d, 1, k) \in Bytes /\ Len(SubSeq(d, 1, k)) = k
  <2>1. 1 \in Int /\ k \in Int /\ (IF 1 <= k THEN k - 1 + 1 ELSE 0) = k
    BY <1>1
  <2> QED
    BY <1>2, <2>1, SubSeqProperties DEF Bytes
<1> QED
  BY <1>1, <1>3, ConcatProperties DEF Bytes

\* Once the receipt is held to the first one it bounds the chunk.
LEMMA Bound ==
  ASSUME ReadInv, readResult = "asking", NEW r \in Read!Chunk, NEW p \in Read!Receipt,
         Read!CursorHolds(r), Read!ReceiptHolds(r, p, Read!First(p))
  PROVE  /\ Read!First(p) = p /\ p.id /\ p.size \in 0 .. MaxResourceBytes
         /\ r.data \in Bytes /\ written \in Bytes /\ readOff = Len(written)
         /\ r.nextOffset = Len(written) + Len(r.data)
         /\ r.nextOffset <= p.size /\ r.nextOffset <= MaxResourceBytes
<1>1. r.data \in Content(MaxChunk)
  BY DEF Read!Chunk, Read!Content, Content
<1>2. r.data \in Bytes
  BY <1>1, ContentSeq
<1>3. Read!First(p) = p /\ p.id /\ p.size \in 0 .. MaxResourceBytes /\ r.nextOffset <= p.size
  BY DEF Read!ReceiptHolds
<1>4. written \in Bytes /\ readOff = Len(written)
  BY DEF ReadInv, Read!TypeOK, Bytes
<1> QED
  BY <1>2, <1>3, <1>4 DEF Read!CursorHolds

\* Every step of ReadResourceTo keeps what was written in step with the cursor.
LEMMA StepRead == ReadInv /\ [Read!Next]_(Read!vars) => ReadInv'
<1> SUFFICES ASSUME ReadInv, [Read!Next]_(Read!vars) PROVE ReadInv'
  OBVIOUS
<1>1. CASE Read!Ask
  BY <1>1 DEF Read!Ask, ReadInv, Read!TypeOK
<1>2. ASSUME NEW why \in {"host", "cursor", "receipt"}, Read!Return(why)
      PROVE  ReadInv'
  BY <1>2 DEF Read!Return, ReadInv, Read!TypeOK
<1>3. ASSUME NEW r \in Read!Chunk, NEW p \in Read!Receipt,
             Read!CursorHolds(r), Read!WriteFails(r, p) \/ Read!Copy(r, p)
      PROVE  ReadInv'
  <2> DEFINE n == Len(written)
             l == Len(r.data)
  <2>1. readResult = "asking" /\ Read!ReceiptHolds(r, p, Read!First(p))
    BY <1>3 DEF Read!WriteFails, Read!Copy
  <2>2. /\ Read!First(p) = p /\ p.id /\ p.size \in 0 .. MaxResourceBytes
        /\ r.data \in Bytes /\ written \in Bytes /\ readOff = n
        /\ r.nextOffset = n + l
        /\ r.nextOffset <= p.size /\ r.nextOffset <= MaxResourceBytes
    BY <1>3, <2>1, Bound
  <2>3. receipt' = <<p>>
    BY <1>3, <2>2 DEF Read!WriteFails, Read!Copy
  <2>4. /\ receipt' \in Seq(Read!Receipt) /\ Len(receipt') <= 1
        /\ receipt' # <<>> /\ receipt'[1] = p
    BY <2>3
  <2>5. n \in Nat /\ l \in Nat
    BY <2>2, WrittenMore, LenProperties DEF Bytes
  <2>6. CASE Read!WriteFails(r, p)
    <3>1. PICK k \in 0 .. l : written' = written \o SubSeq(r.data, 1, k)
      BY <2>6 DEF Read!WriteFails
    <3>2. written' \in Bytes /\ Len(written') = n + k
      BY <2>2, <3>1, WrittenMore
    <3>3. readOff' = readOff /\ readResult' = "write"
      BY <2>6 DEF Read!WriteFails
    <3> HIDE DEF n, l
    <3>4. readOff' <= Len(written') /\ Len(written') <= p.size
      BY <2>2, <2>5, <3>1, <3>2, <3>3
    <3>5. Read!TypeOK'
      BY <2>4, <3>2, <3>3 DEF ReadInv, Read!TypeOK, Bytes
    <3> QED
      BY <2>2, <2>4, <3>3, <3>4, <3>5 DEF ReadInv
  <2>7. CASE Read!Copy(r, p)
    <3>1. /\ written' = written \o r.data /\ readOff' = r.nextOffset
          /\ readResult' = IF ~r.eof THEN "reading"
                           ELSE IF Read!Complete(r, p) THEN "nil" ELSE "checksum"
      BY <2>2, <2>7 DEF Read!Copy
    <3>2. written' \in Bytes /\ Len(written') = n + l
      BY <2>2, <2>5, <3>1, WrittenMore
    <3> HIDE DEF n, l
    <3>3. readOff' = Len(written') /\ readOff' \in 0 .. MaxResourceBytes /\ Len(written') <= p.size
      BY <2>2, <2>5, <3>1, <3>2
    <3>4. Read!TypeOK'
      BY <2>4, <3>1, <3>2, <3>3 DEF ReadInv, Read!TypeOK, Bytes
    <3>5. readResult' = "nil" => written' = p.sha256 /\ Len(written') = p.size
      BY <2>2, <3>1, <3>2 DEF Read!Complete
    <3> QED
      BY <2>2, <2>4, <3>1, <3>3, <3>4, <3>5 DEF ReadInv
  <2> QED
    BY <1>3, <2>6, <2>7
<1>4. CASE UNCHANGED Read!vars
  BY <1>4 DEF ReadInv, Read!TypeOK
<1>5. CASE Read!Answered
  <2>1. \/ \E why \in {"host", "cursor", "receipt"} : Read!Return(why)
        \/ \E r \in Read!Chunk, p \in Read!Receipt :
             Read!CursorHolds(r) /\ (Read!WriteFails(r, p) \/ Read!Copy(r, p))
    BY <1>5 DEF Read!Answered, Read!HostFails, Read!RejectCursor, Read!RejectReceipt
  <2> QED
    BY <1>2, <1>3, <2>1
<1> QED
  BY <1>1, <1>4, <1>5 DEF Read!Next

----------------------------------------------------------------------------
(* The two transfers.                                                      *)

\* Both invariants hold throughout: the read moves nothing of the put.
THEOREM Invariant == TransferSpec => [](PutInv /\ ReadInv)
<1>1. TransferInit => PutInv /\ ReadInv
  BY InitPut, InitRead DEF TransferInit
<1>2. PutInv /\ ReadInv /\ [TransferNext]_<<vars, readVars>> => (PutInv /\ ReadInv)'
  <2>1. [TransferNext]_<<vars, readVars>> => [Next]_vars /\ [Read!Next]_(Read!vars)
    BY DEF TransferNext, PutStep, ReadStep
  <2> QED
    BY <2>1, StepPut, StepRead
<1> QED
  BY <1>1, <1>2, PTL DEF TransferSpec

\* Both loops keep the types of what they read and write.
THEOREM TypeCorrect == TransferSpec => [](TypeOK /\ Read!TypeOK)
<1>1. PutInv /\ ReadInv => TypeOK /\ Read!TypeOK
  BY DEF PutInv, ReadInv
<1> QED
  BY <1>1, Invariant, PTL

\* PutResource commits at most once, and only in the call that sent the last
\* byte, whatever the host stores and however it fails.
THEOREM CommitsLast == TransferSpec => []CommitIsLast
<1>1. PutInv => CommitIsLast
  <2> SUFFICES ASSUME PutInv PROVE CommitIsLast
    OBVIOUS
  <2>1. Last(End) <=> off + ChunkBytes >= Len(data)
    BY EndTypes DEF PutInv
  <2>2. Len(<<>>) = 0 /\ Len(<<stored>>) = 1
    OBVIOUS
  <2>3. committed = <<>> \/ (committed = <<stored>> /\ Last(End)
                               /\ result \notin {"start", "sending", "large"})
    BY DEF PutInv, TypeOK
  <2>4. CASE committed = <<>>
    BY <2>2, <2>4 DEF CommitIsLast
  <2>5. CASE committed = <<stored>> /\ Last(End) /\ result \notin {"start", "sending", "large"}
    <3>1. Len(committed) <= 1
      BY <2>5
    <3> QED
      BY <2>1, <2>5, <3>1 DEF CommitIsLast
  <2> QED
    BY <2>3, <2>4, <2>5
<1> QED
  BY <1>1, Invariant, PTL

\* What the writer is given stays within one receipt, whatever the host
\* answers, and a success is all of it.
THEOREM Announced == TransferSpec => []WrittenAsAnnounced
<1>1. ReadInv => WrittenAsAnnounced
  <2> SUFFICES ASSUME ReadInv PROVE WrittenAsAnnounced
    OBVIOUS
  <2>1. readOff <= Len(written)
    BY DEF ReadInv, Read!TypeOK
  <2>2. receipt \in Seq(Read!Receipt) /\ Len(receipt) <= 1
    BY DEF ReadInv, Read!TypeOK
  <2>3. receipt # <<>> => Len(receipt) = 1
    <3> DEFINE n == Len(receipt)
    <3>1. receipt # <<>> => n \in Nat \ {0}
      BY <2>2, EmptySeq
    <3>2. n <= 1
      BY <2>2
    <3> HIDE DEF n
    <3>3. receipt # <<>> => n = 1
      BY <3>1, <3>2
    <3> QED
      BY <3>3 DEF n
  <2> QED
    BY <2>1, <2>3 DEF ReadInv, WrittenAsAnnounced, Read!WrittenAsAnnounced
<1> QED
  BY <1>1, Invariant, PTL

\* A put that succeeded is whole and undamaged at the host, and is read back
\* as it was sent.
THEOREM RoundTrips == TransferSpec => []RoundTrip
<1>1. PutInv /\ ReadInv => RoundTrip
  BY DEF PutInv, ReadInv, RoundTrip
<1> QED
  BY <1>1, Invariant, PTL

=============================================================================
