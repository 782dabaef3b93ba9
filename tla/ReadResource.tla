--------------------------- MODULE ReadResource ---------------------------
(***************************************************************************)
(* ReadResourceTo of pluginapi/special/runtime.go: a resource is read in   *)
(* chunks from a host that may answer anything, and copied to a writer.    *)
(* SHA-256 is taken to be injective: a digest is the content it is of, or  *)
(* something that is the digest of nothing.                                *)
(***************************************************************************)
EXTENDS ResourceLimits

CONSTANTS
  MaxChunk,  \* bound on the bytes of one answer (the code has none)
  Bogus      \* a well-formed digest of no content

\* A receipt: whether its ID is the one asked for and its digest 64 long, the
\* size and the digest.  One size beyond each bound is enough to tell.
Receipt == [id : BOOLEAN, size : -1 .. MaxResourceBytes + 1,
            sha256 : Content(MaxResourceBytes) \cup {Bogus}]

\* An answer but for its receipt.
Chunk == [data : Content(MaxChunk), nextOffset : -1 .. MaxResourceBytes + MaxChunk,
          eof : BOOLEAN]

VARIABLES
  off,      \* the cursor
  receipt,  \* the receipt of the first chunk, a sequence of at most one
  written,  \* what w was given, and what was hashed
  result    \* at the head of the loop, in ReadResource, or how it returned

vars == <<off, receipt, written, result>>

TypeOK ==
  /\ off \in 0 .. MaxResourceBytes
  /\ receipt \in Seq(Receipt) /\ Len(receipt) <= 1
  /\ written \in Seq(Byte)
  /\ result \in {"reading", "asking", "nil", "host", "cursor", "receipt", "write",
                 "checksum"}

Init == off = 0 /\ receipt = <<>> /\ written = <<>> /\ result = "reading"

----------------------------------------------------------------------------
(* Seeded faults: the definitions below as a plausible bug would have them. *)
(* They are part of no specification; each property is tried on one.        *)

\* Seeded fault: an empty chunk before the end is accepted.
FaultCursorStill(r) ==
  r.nextOffset = off + Len(r.data) /\ r.nextOffset <= MaxResourceBytes

\* Seeded fault: the size is compared but not the digest.
FaultComplete(r, first) == r.nextOffset = first.size /\ first.sha256 # Bogus

----------------------------------------------------------------------------

CursorHolds(r) ==
  /\ r.nextOffset = off + Len(r.data)
  /\ r.eof \/ r.data # <<>>
  /\ r.nextOffset <= MaxResourceBytes

\* The receipt of the first chunk binds all of them.
First(p) == IF off = 0 THEN p ELSE receipt[1]

ReceiptHolds(r, p, first) ==
  /\ first.id /\ p = first
  /\ first.size \in 0 .. MaxResourceBytes
  /\ r.nextOffset <= first.size

Complete(r, first) ==
  r.nextOffset = first.size /\ written \o r.data = first.sha256

Ask ==
  /\ result = "reading" /\ result' = "asking"
  /\ UNCHANGED <<off, receipt, written>>

Return(why) ==
  /\ result = "asking" /\ result' = why
  /\ UNCHANGED <<off, receipt, written>>

\* ReadResource fails, as when the phase of the Host has ended.
HostFails == Return("host")

RejectCursor(r) == ~CursorHolds(r) /\ Return("cursor")

RejectReceipt(r, p) == ~ReceiptHolds(r, p, First(p)) /\ Return("receipt")

\* The writer fails and may have taken part of the chunk.
WriteFails(r, p) ==
  /\ ReceiptHolds(r, p, First(p))
  /\ result = "asking" /\ result' = "write"
  /\ receipt' = <<First(p)>>
  /\ \E k \in 0 .. Len(r.data) : written' = written \o SubSeq(r.data, 1, k)
  /\ UNCHANGED off

Copy(r, p) ==
  /\ ReceiptHolds(r, p, First(p))
  /\ result = "asking"
  /\ receipt' = <<First(p)>>
  /\ written' = written \o r.data
  /\ off' = r.nextOffset
  /\ result' = IF ~r.eof THEN "reading"
               ELSE IF Complete(r, First(p)) THEN "nil" ELSE "checksum"

\* ReadResource returns: with an error, or with the chunk r and its receipt p.
Answered ==
  \/ HostFails
  \/ \E r \in Chunk :
       \/ RejectCursor(r)
       \/ /\ CursorHolds(r)
          /\ \E p \in Receipt : RejectReceipt(r, p) \/ WriteFails(r, p) \/ Copy(r, p)

Next == Ask \/ Answered

Spec == Init /\ [][Next]_vars

----------------------------------------------------------------------------

\* What the writer is given never exceeds what the receipt announced, not
\* even in a read that fails later, so that a caller can reserve for it; and
\* success means all of it: what was written has the size and the digest of
\* one receipt, sent with the first chunk, within the limit.
WrittenAsAnnounced ==
  /\ off <= Len(written)
  /\ written # <<>> =>
       Len(written) <= receipt[1].size /\ receipt[1].size <= MaxResourceBytes
  /\ result = "nil" =>
       /\ Len(receipt) = 1 /\ receipt[1].id
       /\ written = receipt[1].sha256
       /\ Len(written) = receipt[1].size
=============================================================================
