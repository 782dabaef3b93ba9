---------------------------- MODULE MCOcrWorker ----------------------------
(* Two initializations, two recognitions and a shutdown, for TLC. *)
EXTENDS OcrWorker

CONSTANTS i1, i2, r1, r2, s1

MCCall == {i1, i2, r1, r2, s1}
MCKind == [c \in MCCall |-> IF c \in {i1, i2} THEN "initialize"
                            ELSE IF c = s1 THEN "shutdown" ELSE "recognize"]
=============================================================================
