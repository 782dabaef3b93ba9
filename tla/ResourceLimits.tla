-------------------------- MODULE ResourceLimits --------------------------
(* Resources and their limits: the constants of pluginapi/special/types.go *)
(* that PutResource and ReadResourceTo share.                              *)
EXTENDS Integers, Sequences

CONSTANTS
  Byte,             \* the bytes of a resource
  ChunkBytes,       \* 256 KiB
  MaxResourceBytes  \* 256 MiB

ASSUME ResourceAssumption ==
  ChunkBytes \in Nat \ {0} /\ MaxResourceBytes \in Nat

Content(n) == UNION {[1 .. k -> Byte] : k \in 0 .. n}
=============================================================================
