---------------------------- MODULE FrameChannel ----------------------------
(***************************************************************************)
(* What pluginapi/frame.go makes of a byte stream: a channel of frames     *)
(* that delivers those written to it in order, each once and whole, and    *)
(* then ends, perhaps before it has delivered them all.                    *)
(***************************************************************************)
EXTENDS Naturals, Sequences

CONSTANT Payload

VARIABLES sent, got, ended

channelVars == <<sent, got, ended>>

ChannelInit == sent = <<>> /\ got = <<>> /\ ended = FALSE

Send(f) == sent' = Append(sent, f) /\ UNCHANGED <<got, ended>>

Deliver ==
  /\ ~ended /\ Len(got) < Len(sent)
  /\ got' = Append(got, sent[Len(got) + 1])
  /\ UNCHANGED <<sent, ended>>

End == ~ended /\ ended' = TRUE /\ UNCHANGED <<sent, got>>

ChannelNext == (\E f \in Payload : Send(f)) \/ Deliver \/ End

ChannelSpec == ChannelInit /\ [][ChannelNext]_channelVars
=============================================================================
