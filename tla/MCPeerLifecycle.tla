-------------------------- MODULE MCPeerLifecycle --------------------------
(* A host that prepares, and a provider with one callback, for TLC. *)
EXTENDS PeerLifecycle, TLC

CONSTANTS hostEnd, pluginEnd, prepare, callback, only

MCSide == {hostEnd, pluginEnd}
MCHostCall == {prepare}
MCCallback == {callback}
MCCall == {prepare, callback}
MCCaller == prepare :> hostEnd @@ callback :> pluginEnd

MCRun == {only}
MCUnits == only :> 1
MCAsks == prepare :> [method |-> "prepare", run |-> only, unit |-> 0]
=============================================================================
