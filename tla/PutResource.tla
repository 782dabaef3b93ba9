---------------------------- MODULE PutResource ----------------------------
(***************************************************************************)
(* PutResource of pluginapi/special/runtime.go: data is sent to the host   *)
(* in chunks, the last with commit set, and the receipt of the committed   *)
(* resource is held against the data.                                      *)
(*                                                                         *)
(* The host is outside the repository.  It may store a chunk and fail to   *)
(* say so, fail without storing it, or store it damaged; it says truly, in *)
(* its receipt, what it committed, or answers with another resource's.     *)
(* SHA-256 is taken to be injective: a digest is the content it is of.     *)
(***************************************************************************)
EXTENDS ResourceLimits

CONSTANT Damaged  \* what a damaged byte becomes, in no data

VARIABLES
  data,      \* the parameter
  off,       \* the loop variable
  result,    \* at the head of the loop, in Resource, or how it returned
  stored,    \* external: what the host holds under the ID
  committed  \* external: the contents the host committed, in order

vars == <<data, off, result, stored, committed>>

\* One byte over the limit is enough to tell.
Data == Content(MaxResourceBytes + 1)

TypeOK ==
  /\ data \in Data
  /\ off \in {0} \cup 0 .. Len(data) - 1
  /\ result \in {"start", "sending", "sent", "nil", "large", "host", "mismatch"}
  /\ stored \in Seq(Byte \cup {Damaged})
  /\ committed \in Seq(Seq(Byte \cup {Damaged}))

Init ==
  /\ data \in Data /\ off = 0 /\ result = "start"
  /\ stored = <<>> /\ committed = <<>>

----------------------------------------------------------------------------
(* Seeded faults: the definitions below as a plausible bug would have them. *)
(* They are part of no specification; each property is tried on one.        *)

\* Seeded fault: only the size in the receipt is compared.
FaultReceiptMatches(id, content) == id /\ Len(content) = Len(data)

\* Seeded fault: a chunk that failed is sent again.
FaultHostFails ==
  /\ result = "sent" /\ result' = "sending"
  /\ UNCHANGED <<data, off, stored, committed>>

----------------------------------------------------------------------------

End == IF off + ChunkBytes < Len(data) THEN off + ChunkBytes ELSE Len(data)

Last(end) == end = Len(data)

Start ==
  /\ result = "start"
  /\ result' = IF Len(data) > MaxResourceBytes THEN "large" ELSE "sending"
  /\ UNCHANGED <<data, off, stored, committed>>

\* External: what Host.Resource makes of a chunk.
HostStores(chunk) ==
  \/ stored' = stored \o chunk
  \/ chunk # <<>> /\ stored' = stored \o [chunk EXCEPT ![1] = Damaged]
  \/ UNCHANGED stored

Send ==
  /\ result = "sending" /\ result' = "sent"
  /\ HostStores(SubSeq(data, off + 1, End))
  /\ committed' = IF Last(End) THEN Append(committed, stored') ELSE committed
  /\ UNCHANGED <<data, off>>

HostFails ==
  /\ result = "sent" /\ result' = "host"
  /\ UNCHANGED <<data, off, stored, committed>>

ReceiptMatches(id, content) == id /\ content = data

\* The host answers; id tells whether the receipt is of this resource.
HostAnswers(id) ==
  /\ result = "sent"
  /\ \/ /\ Last(End)
        /\ result' = IF ReceiptMatches(id, stored) THEN "nil" ELSE "mismatch"
        /\ UNCHANGED off
     \/ /\ ~Last(End)
        /\ off' = End /\ result' = "sending"
  /\ UNCHANGED <<data, stored, committed>>

Next == Start \/ Send \/ HostFails \/ \E id \in BOOLEAN : HostAnswers(id)

Spec == Init /\ [][Next]_vars

----------------------------------------------------------------------------

\* A call commits at most once, even when the host's answer is lost, and only
\* in the call that sent the last byte: nothing is committed half sent unless
\* the host itself dropped a chunk it acknowledged.
CommitIsLast ==
  /\ Len(committed) <= 1
  /\ committed # <<>> => /\ off + ChunkBytes >= Len(data)
                         /\ result \notin {"start", "sending", "large"}
=============================================================================
