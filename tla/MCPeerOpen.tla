---------------------------- MODULE MCPeerOpen ----------------------------
(* One SDK end and a remote that is not the SDK, for TLC. *)
EXTENDS PeerOpen, TLC

CONSTANTS sdk, foreign, c1, r1

MCSide == {sdk, foreign}

\* The SDK end makes one Call and serves one request ID, which comes again.
MCCall == {c1, r1}
MCCaller == c1 :> sdk @@ r1 :> foreign
=============================================================================
