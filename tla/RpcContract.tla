---------------------------- MODULE RpcContract ----------------------------
(***************************************************************************)
(* What a Call of the special peer (pluginapi/special/peer.go) promises    *)
(* its caller about the remote handler: it runs at most once; a Call that  *)
(* reports it was never sent has no effect and never will have one; a Call *)
(* that came back with a reply, or with a cancellation the remote          *)
(* acknowledged, has its effect behind it.                                 *)
(***************************************************************************)
CONSTANT Call

VARIABLES
  effect,  \* [Call -> {"none", "running", "over"}]: the remote handler
  report   \* [Call -> {"none", "never", "over", "unknown"}]: what it came to

rpcVars == <<effect, report>>

RpcInit ==
  /\ effect = [c \in Call |-> "none"]
  /\ report = [c \in Call |-> "none"]

Begin(c) ==
  /\ effect[c] = "none" /\ report[c] # "never"
  /\ effect' = [effect EXCEPT ![c] = "running"]
  /\ UNCHANGED report

Finish(c) ==
  /\ effect[c] = "running"
  /\ effect' = [effect EXCEPT ![c] = "over"]
  /\ UNCHANGED report

\* A Call whose end or stream is lost knows nothing of its effect.
Report(c) ==
  /\ report[c] = "none"
  /\ \E r \in {"never", "over", "unknown"} :
       /\ r = "never" => effect[c] = "none"
       /\ r = "over" => effect[c] = "over"
       /\ report' = [report EXCEPT ![c] = r]
  /\ UNCHANGED effect

RpcNext == \E c \in Call : Begin(c) \/ Finish(c) \/ Report(c)

RpcSpec == RpcInit /\ [][RpcNext]_rpcVars
=============================================================================
