---------------------------- MODULE FrameStream ----------------------------
(***************************************************************************)
(* WriteFrame and ReadFrame of pluginapi/frame.go at the two ends of a     *)
(* byte stream that takes and gives any number of bytes at a time and may  *)
(* be cut anywhere; what it took before the cut can still be read.  The    *)
(* writer stops after a write that failed, as the SDK's writers do.        *)
(*                                                                         *)
(* A payload is its bytes: what JSON makes of them is left out, and so are *)
(* the errors of encoding.                                                 *)
(***************************************************************************)
EXTENDS Integers, Sequences

CONSTANTS
  Base,       \* 256: the values of a byte are 0 .. Base - 1
  HeaderLen,  \* 4: the bytes of a header
  WriterMax,  \* maxBytes of the writer
  ReaderMax,  \* maxBytes of the reader
  StreamCap,  \* bytes the stream holds
  MaxFrames   \* bound on the frames written

ASSUME FrameAssumption ==
  /\ Base \in Nat \ {0, 1} /\ HeaderLen \in Nat \ {0}
  /\ WriterMax \in Nat \ {0} /\ ReaderMax \in Nat \ {0}
  /\ StreamCap \in Nat \ {0} /\ MaxFrames \in Nat

Byte == 0 .. Base - 1

\* One byte over the limit is enough to tell.
Payload == UNION {[1 .. n -> Byte] : n \in 0 .. WriterMax + 1}

VARIABLES
  stream,  \* the bytes in the stream
  cut,     \* its writing end is closed
  wpc,     \* idle, or in writeAll of the header or the payload
  frame,   \* the payload being written
  left,    \* value of writeAll: the bytes not yet written
  calls,   \* calls of WriteFrame (bounds them)
  rpc,     \* in ReadFull of the header or the payload, or how ReadFrame failed
  buf,     \* what that ReadFull has read
  size,    \* the size in the header
  sent,    \* the payloads whose WriteFrame returned nil
  got      \* the payloads ReadFrame returned

writerVars == <<wpc, frame, left, calls, sent>>
readerVars == <<rpc, buf, size, got>>
vars == <<stream, cut, writerVars, readerVars>>

Init ==
  /\ stream = <<>> /\ cut = FALSE
  /\ wpc = "idle" /\ frame = <<>> /\ left = <<>> /\ calls = 0 /\ sent = <<>>
  /\ rpc = "header" /\ buf = <<>> /\ size = 0 /\ got = <<>>

----------------------------------------------------------------------------

\* binary.BigEndian: n without its last k bytes, the header of a size, and the
\* size of a header.
Above(n) ==
  LET above[k \in 0 .. HeaderLen] == IF k = 0 THEN n ELSE above[k - 1] \div Base
  IN  above

Header(n) == [i \in 1 .. HeaderLen |-> Above(n)[HeaderLen - i] % Base]

Size(header) ==
  LET value[k \in 0 .. HeaderLen] ==
        IF k = 0 THEN 0 ELSE Base * value[k - 1] + header[k]
  IN  value[HeaderLen]

\* Every size the writer lets pass fits in a header.
ASSUME HeaderAssumption == Above(WriterMax)[HeaderLen] = 0

----------------------------------------------------------------------------
(* Seeded faults: the definitions below as a plausible bug would have them. *)
(* They are part of no specification; each property is tried on one.        *)

\* Seeded fault: a short write counts as a whole one.
FaultUnwritten(n) == <<>>

\* Seeded fault: an end within a frame is not told from one between two.
FaultEndOf(part) == "eof"

----------------------------------------------------------------------------
(* WriteFrame.                                                             *)

WriteFrame(f) ==
  /\ wpc = "idle" /\ ~cut
  /\ calls < MaxFrames /\ calls' = calls + 1
  /\ IF f = <<>> \/ Len(f) > WriterMax THEN UNCHANGED <<wpc, frame, left>>
     ELSE wpc' = "header" /\ frame' = f /\ left' = Header(Len(f))
  /\ UNCHANGED <<stream, cut, sent, readerVars>>

Take(n) ==
  /\ wpc \in {"header", "payload"} /\ ~cut
  /\ n <= Len(left) /\ Len(stream) + n <= StreamCap
  /\ stream' = stream \o SubSeq(left, 1, n)

Unwritten(n) == SubSeq(left, n + 1, Len(left))

\* Write takes n bytes; writeAll goes on until none is left.
WriteSome(n) ==
  /\ n > 0 /\ Take(n)
  /\ \/ /\ Unwritten(n) # <<>>
        /\ left' = Unwritten(n)
        /\ UNCHANGED <<wpc, sent>>
     \/ /\ Unwritten(n) = <<>> /\ wpc = "header"
        /\ wpc' = "payload" /\ left' = frame
        /\ UNCHANGED sent
     \/ /\ Unwritten(n) = <<>> /\ wpc = "payload"
        /\ wpc' = "idle" /\ left' = <<>>
        /\ sent' = Append(sent, frame)
  /\ UNCHANGED <<cut, frame, calls, readerVars>>

\* Write takes n bytes and fails.
WriteFails(n) ==
  /\ n < Len(left) /\ Take(n)
  /\ left' = Unwritten(n)
  /\ cut' = TRUE
  /\ UNCHANGED <<wpc, frame, calls, sent, readerVars>>

\* The writing end closes, or its process is gone.
Cut ==
  /\ ~cut /\ cut' = TRUE
  /\ UNCHANGED <<stream, writerVars, readerVars>>

----------------------------------------------------------------------------
(* ReadFrame, one after the other.                                         *)

Wanted == IF rpc = "header" THEN HeaderLen ELSE size

\* Read gives ReadFull n bytes; ReadFull goes on until it has all.
ReadSome(n) ==
  /\ rpc \in {"header", "payload"}
  /\ n > 0 /\ n <= Len(stream) /\ n <= Wanted - Len(buf)
  /\ buf' = buf \o SubSeq(stream, 1, n)
  /\ stream' = SubSeq(stream, n + 1, Len(stream))
  /\ UNCHANGED <<cut, writerVars, rpc, size, got>>

ReadHeader ==
  /\ rpc = "header" /\ Len(buf) = HeaderLen
  /\ IF Size(buf) \in 1 .. ReaderMax
     THEN rpc' = "payload" /\ buf' = <<>> /\ size' = Size(buf)
     ELSE rpc' = "size" /\ UNCHANGED <<buf, size>>
  /\ UNCHANGED <<stream, cut, writerVars, got>>

ReadPayload ==
  /\ rpc = "payload" /\ Len(buf) = size
  /\ rpc' = "header" /\ buf' = <<>> /\ size' = 0
  /\ got' = Append(got, buf)
  /\ UNCHANGED <<stream, cut, writerVars>>

\* io.ReadFull: an end before the first byte it wants is io.EOF, a later one
\* io.ErrUnexpectedEOF, be it of the header or of the payload.
EndOf(part) == IF part = <<>> THEN "eof" ELSE "unexpected"

ReadEnds ==
  /\ rpc \in {"header", "payload"} /\ Len(buf) < Wanted
  /\ cut /\ stream = <<>>
  /\ rpc' = EndOf(buf)
  /\ UNCHANGED <<stream, cut, writerVars, buf, size, got>>

----------------------------------------------------------------------------

Next ==
  \/ \E f \in Payload : WriteFrame(f)
  \/ \E n \in 0 .. StreamCap :
       WriteSome(n) \/ WriteFails(n) \/ ReadSome(n)
  \/ Cut \/ ReadHeader \/ ReadPayload \/ ReadEnds

Spec == Init /\ [][Next]_vars

----------------------------------------------------------------------------

\* Whatever short writes, short reads and cuts there are, frames arrive in
\* order, once and whole: the two ends never lose step.
Channel == INSTANCE FrameChannel WITH ended <- rpc \notin {"header", "payload"}

ImplementsChannel == Channel!ChannelSpec

\* How many bytes of the frame being written the stream has taken.
Begun ==
  CASE wpc = "idle" -> 0
    [] wpc = "header" -> HeaderLen - Len(left)
    [] wpc = "payload" -> HeaderLen + Len(frame) - Len(left)

\* What an end tells: with io.EOF every frame whose WriteFrame succeeded has
\* been delivered, and what is missing is nothing or a frame of which exactly
\* the header arrived; io.ErrUnexpectedEOF means a frame cut anywhere else.
EndMissesOnlyHeader ==
  /\ rpc = "eof" => got = sent /\ Begun \in {0, HeaderLen}
  /\ rpc = "unexpected" => got = sent /\ Begun \notin {0, HeaderLen}
=============================================================================
