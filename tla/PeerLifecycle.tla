--------------------------- MODULE PeerLifecycle ---------------------------
(***************************************************************************)
(* Serve (pluginapi/special/server.go) behind its peer: modules Peer and   *)
(* Lifecycle in one state.  The host makes its requests in turn through    *)
(* its end of the stream; the plugin's end hands each to the handler of    *)
(* Serve; the provider calls the host back through that same end, and      *)
(* waits for the answer before its method returns.                         *)
(*                                                                         *)
(* A handler goroutine is both the goroutine that Peer has running and the *)
(* invocation that Lifecycle has under way: the request's dispatch starts  *)
(* both, the handler's return ends both, and a cancelled handler is one    *)
(* whose phase has lost its context.                                       *)
(***************************************************************************)
EXTENDS Peer

CONSTANTS
  HostCall,  \* the Calls the host makes, one after the other
  Asks,      \* [HostCall -> request of Lifecycle]
  Callback,  \* the Calls the provider makes through its Host
  Provider,  \* the provider's goroutine: it runs the method it is in
  Run, Units, MaxUnit, None  \* as in Lifecycle

ASSUME CompositionAssumption ==
  /\ Call = HostCall \cup Callback
  /\ None \notin HostCall
  /\ \A c \in HostCall, b \in Callback : Caller[c] # Caller[b]

VARIABLES
  state, lastUnit, frozen, gate, stage, req, ctx, answer, host, phase, helper,
  stale, leaked, prepared, runs, seen, closing, closed  \* as in Lifecycle

serveVars == <<state, lastUnit, frozen, gate, stage, req, ctx, answer, host,
               phase, helper, stale, leaked, prepared, runs, seen, closing, closed>>
allVars == <<vars, serveVars>>

Serve == INSTANCE Lifecycle
  WITH Inv <- HostCall, Helper <- {Provider}, pc <- stage

Composed == Init /\ Serve!Init

----------------------------------------------------------------------------
(* Steps of the two peers.                                                 *)

\* The handler a dispatch has started, and those a cancel frame, a deadline
\* or the closing of the plugin's end has cancelled before they left Serve.
Started == {c \in HostCall : serving[c] = "none" /\ serving'[c] = "running"}
Ended ==
  {c \in HostCall : /\ serving[c] = "running" /\ ~cancelled[c] /\ cancelled'[c]
                    /\ stage[c] \in {"called", "provider", "leaving"}}

Handed ==
  \/ \E c \in Started : Serve!Arrive(c) /\ req'[c] = Asks[c]
  \/ Ended # {} /\ Serve!CancelContexts(Ended)
  \/ Started = {} /\ Ended = {} /\ UNCHANGED serveVars

\* The host makes a Call when the one before it has returned.
HostCalls(c) ==
  /\ \A o \in HostCall : pc[o] \in {"idle", "returned"}
  /\ CallStart(c)
  /\ UNCHANGED serveVars

\* The handler of Serve returns to the peer; the host answers a callback.
ServeReturns(c) == Serve!Reply(c) /\ HandlerReturn(c)
HostReturns(b) == HandlerReturn(b) /\ UNCHANGED serveVars

\* What the peers' own goroutines do.
Transport(c) ==
  /\ Goroutine(c) \/ HandlerExpire(c) \/ HandlerReply(c) \/ HandlerFinish(c)
  /\ Handed

Carry(s) ==
  /\ Sweep(s) \/ Write(s) \/ Read(s) \/ Dispatch(s) \/ SlotRelease(s)
  /\ Handed

\* An owner gives up its end, as Serve does when its context ends, without a
\* look at its handlers; the host gives up the Call it is in.
Abandon ==
  /\ \/ \E s \in Side : UserClose(s)
     \/ \E c \in HostCall : pc[c] # "idle" /\ EndContext(c)
  /\ UNCHANGED serveVars

\* The context of a callback derives from the one of the method, and ends
\* with it.
CallbackEnds(b) ==
  /\ \E c \in HostCall : phase[Provider] = c /\ ctx[c] = "ended"
  /\ EndContext(b)
  /\ UNCHANGED serveVars

----------------------------------------------------------------------------
(* Steps of Serve and of its provider.                                     *)

Calling == \E b \in Callback : pc[b] \notin {"idle", "returned"}

ServeRuns(c) ==
  /\ Serve!Decide(c) \/ Serve!Revoke(c) \/ Serve!Unlock(c)
  /\ UNCHANGED vars

\* A provider method returns when no callback of it is under way.
Idle == helper[Provider] = "idle" /\ ~Calling

MethodEnds(c) ==
  /\ Idle
  /\ Serve!ProviderEnds(c)
  /\ UNCHANGED vars

\* The method is given its Host and uses it for the callbacks it has left.
UsesHost(c) ==
  /\ stage[c] = "provider" /\ Idle
  /\ \E b \in Callback : pc[b] = "idle"
  /\ \/ Serve!GiveHost(Provider, c)
     \/ phase[Provider] = c /\ Serve!CallbackCheck(Provider)
  /\ UNCHANGED vars

\* remoteHost.invoke makes its Call under the caller's own context.
Sends(b) ==
  /\ Serve!CallbackSend(Provider)
  /\ CallStart(b)

----------------------------------------------------------------------------

ComposedNext ==
  \/ \E c \in HostCall : \/ HostCalls(c) \/ ServeReturns(c) \/ ServeRuns(c)
                         \/ MethodEnds(c) \/ UsesHost(c)
  \/ \E b \in Callback : HostReturns(b) \/ Sends(b) \/ CallbackEnds(b)
  \/ \E c \in Call : Transport(c)
  \/ \E s \in Side : Carry(s)
  \/ Abandon

\* The goroutines of both peers run, the deadline of a request passes, and
\* the end of a context reaches those derived from it.  The host owes no
\* answer to a callback.
PeersRun ==
  \/ \E c \in Call :
       Goroutine(c) \/ HandlerExpire(c) \/ HandlerReply(c) \/ HandlerFinish(c)
  \/ \E s \in Side : Sweep(s) \/ Write(s) \/ Read(s) \/ Dispatch(s) \/ SlotRelease(s)
  \/ \E b \in Callback : CallbackEnds(b)

\* The goroutines of Serve run, and a provider method whose context has ended
\* returns.
ServeProceeds ==
  \/ \E c \in HostCall :
       \/ Serve!Decide(c) \/ Serve!HandlerLeaves(c)
       \/ ctx[c] = "ended" /\ Idle /\ Serve!ProviderEnds(c)
  \/ Serve!CallbackSend(Provider)

\* Each Call is made once, so that every behaviour comes to rest and weak
\* fairness of one disjunction is that of each of its actions.
ComposedSpec ==
  /\ Composed /\ [][ComposedNext]_allVars
  /\ WF_vars(PeersRun) /\ WF_serveVars(ServeProceeds)

----------------------------------------------------------------------------
(* Properties.                                                             *)

\* A Call that came back from the handler, with its reply or with the
\* acknowledgement of its cancellation, has left the lifecycle slot free: a
\* host that makes its requests in turn is never told that the lifecycle is
\* busy, however it gave up the last one.
FreeWhenBack ==
  \A c \in HostCall : result[c] \in {"reply", "acked"} => gate # c

\* In the end every Call that was made has returned, at either end and with no
\* deadline but those the SDK sets: with a host that leaves a callback
\* unanswered, a close at any moment, one Call inside the other.
CallsReturn == <>[](\A c \in Call : pc[c] \in {"idle", "returned"})

\* When one end has closed, for whatever reason, so has the other in the end.
CloseSpreads == <>[](\A s \in Side : done[s] => done[Other(s)])

\* No provider method is kept for ever, though Serve closes its peer and
\* returns while one is under way: a method that heeds its context returns,
\* for the callback it waits for does too.
ProviderLetsGo == <>[](\A c \in HostCall : stage[c] # "provider")
=============================================================================
