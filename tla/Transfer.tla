----------------------------- MODULE Transfer -----------------------------
(***************************************************************************)
(* The two resource transfers of pluginapi/special/runtime.go one after    *)
(* the other: PutResource, and once it has succeeded ReadResourceTo of the *)
(* same resource, from a host that answers the read whatever it likes.     *)
(***************************************************************************)
EXTENDS PutResource

CONSTANTS MaxChunk, Bogus

ASSUME TransferAssumption == MaxChunk \in Nat

VARIABLES readOff, receipt, written, readResult

readVars == <<readOff, receipt, written, readResult>>

Read == INSTANCE ReadResource WITH off <- readOff, result <- readResult

TransferInit == Init /\ Read!Init

PutStep == Next /\ UNCHANGED readVars

ReadStep == result = "nil" /\ Read!Next /\ UNCHANGED vars

TransferNext == PutStep \/ ReadStep

\* The loops run on, and the host answers every call in some way.
TransferSpec ==
  /\ TransferInit /\ [][TransferNext]_<<vars, readVars>>
  /\ WF_<<vars, readVars>>(TransferNext)

----------------------------------------------------------------------------

\* A put that succeeded is whole and undamaged at the host, also when the
\* data is empty or ends on a chunk boundary; and whoever reads it back under
\* the receipt of the put has the data.
RoundTrip ==
  result = "nil" =>
    /\ committed = <<data>>
    /\ readResult = "nil" /\ receipt[1].sha256 = committed[1] => written = data

\* What the writer is given never exceeds what the receipt announced, and
\* success means all of it, under one receipt.
WrittenAsAnnounced == Read!WrittenAsAnnounced

\* Whatever the host answers, both loops end: a chunk that is not the last
\* moves the cursor, which cannot pass the limit.
TransferEnds ==
  <>(\/ result \notin {"start", "sending", "sent", "nil"}
     \/ readResult \notin {"reading", "asking"})
=============================================================================
