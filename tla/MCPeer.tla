------------------------------ MODULE MCPeer ------------------------------
(* Two SDK ends of one stream, for TLC. *)
EXTENDS Peer, TLC

CONSTANTS host, plugin, h1, h2

MCSide == {host, plugin}

\* The host calls, the plugin serves.
OneWayCall == {h1, h2}
OneWayCaller == h1 :> host @@ h2 :> host
OneWaySymmetry == Permutations(OneWayCall)
=============================================================================
