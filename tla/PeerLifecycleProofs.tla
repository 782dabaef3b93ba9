------------------------ MODULE PeerLifecycleProofs ------------------------
(***************************************************************************)
(* Proofs about module PeerLifecycle, for any Calls of the host and of the *)
(* provider and any capacities of the peers.  What is proved of module     *)
(* Peer holds of the composition, each step of which is one of the peers.  *)
(***************************************************************************)
EXTENDS PeerLifecycle, PeerProofs

Holding == {"provider", "leaving", "revoked"}

\* A request is with Serve as long as its handler goroutine runs, and the
\* lifecycle slot is held on the way from TryLock to Unlock.
SharedInv ==
  /\ stage \in [HostCall -> {"idle", "called", "left"} \cup Holding]
  /\ gate \in HostCall \cup {None}
  /\ \A c \in HostCall : stage[c] = "idle" <=> serving[c] # "running"
  /\ gate # None => stage[gate] \in Holding

USE PeerAssumption, CompositionAssumption
    DEF connVars, queueVars, slotVars, callVars, handlerVars, vars, serveVars, allVars,
        Serve!gateVars, Serve!invVars, Serve!hostVars, Serve!seenVars, Serve!vars

----------------------------------------------------------------------------
(* The composition takes the steps of its two parts.                       *)

\* Each step of the composition is one of the peers, or leaves them alone.
LEMMA StepPeer == ComposedNext => [Next]_vars
<1> SUFFICES ASSUME ComposedNext PROVE [Next]_vars
  OBVIOUS
<1>1. HostCall \subseteq Call /\ Callback \subseteq Call
  OBVIOUS
<1>2. ASSUME NEW c \in Call, CallStart(c) \/ EndContext(c) \/ HandlerReturn(c) \/ Transport(c)
      PROVE  Next
  BY <1>2 DEF Transport, Goroutine, Next, CallStep, HandlerStep
<1>3. ASSUME NEW s \in Side, UserClose(s) \/ Carry(s)
      PROVE  Next
  BY <1>3 DEF Carry, Next, SideStep
<1>4. \/ UNCHANGED vars
      \/ \E c \in Call : CallStart(c) \/ EndContext(c) \/ HandlerReturn(c) \/ Transport(c)
      \/ \E s \in Side : UserClose(s) \/ Carry(s)
  BY <1>1 DEF ComposedNext, HostCalls, ServeReturns, ServeRuns, MethodEnds, UsesHost,
     HostReturns, Sends, CallbackEnds, Abandon
<1> QED
  BY <1>2, <1>3, <1>4

\* Each step of the composition is one of Serve and its provider, or leaves
\* them alone.
LEMMA StepServe == ComposedNext => [Serve!Next]_(Serve!vars)
<1> SUFFICES ASSUME ComposedNext PROVE Serve!Next \/ UNCHANGED Serve!vars
  OBVIOUS
<1>1. ASSUME NEW c \in HostCall,
             \/ Serve!Arrive(c) \/ Serve!Decide(c) \/ Serve!ProviderEnds(c)
             \/ Serve!Revoke(c) \/ Serve!Unlock(c) \/ Serve!Reply(c)
             \/ Serve!GiveHost(Provider, c)
      PROVE  Serve!Next
  BY <1>1 DEF Serve!Next, Serve!HandlerLeaves
<1>2. CASE Serve!CallbackCheck(Provider) \/ Serve!CallbackSend(Provider)
  BY <1>2 DEF Serve!Next
<1>3. CASE Serve!CancelContexts(Ended)
  <2>1. Ended \in SUBSET HostCall
    BY DEF Ended
  <2> QED
    BY <1>3, <2>1 DEF Serve!Next
<1>4. CASE Handed
  BY <1>1, <1>3, <1>4 DEF Handed, Started
<1>5. \/ UNCHANGED Serve!vars \/ Handed
      \/ Serve!CallbackCheck(Provider) \/ Serve!CallbackSend(Provider)
      \/ \E c \in HostCall :
           \/ Serve!Decide(c) \/ Serve!ProviderEnds(c) \/ Serve!Revoke(c) \/ Serve!Unlock(c)
           \/ Serve!Reply(c) \/ Serve!GiveHost(Provider, c)
  BY DEF ComposedNext, HostCalls, ServeReturns, ServeRuns, MethodEnds, UsesHost,
     HostReturns, Sends, CallbackEnds, Abandon, Transport, Carry
<1> QED
  BY <1>1, <1>2, <1>4, <1>5

\* The composition is a behaviour of its peers and of Serve: what is proved of
\* either of them holds in it.
THEOREM BothParts == ComposedSpec => Spec /\ Serve!Spec
<1>1. Composed => Init /\ Serve!Init
  BY DEF Composed
<1>2. [ComposedNext]_allVars => [Next]_vars /\ [Serve!Next]_(Serve!vars)
  BY StepPeer, StepServe
<1> QED
  BY <1>1, <1>2, PTL DEF ComposedSpec, Spec, Serve!Spec

----------------------------------------------------------------------------
(* Serve and its peer agree on the requests that are under way.            *)

\* The state of Serve before the first request.
LEMMA InitShared == Composed => SharedInv
BY DEF Composed, Init, Serve!Init, SharedInv

\* A step that starts no handler and ends none leaves the requests with Serve
\* as they are.
LEMMA ServeAlone ==
  ASSUME SharedInv, UNCHANGED <<stage, gate>>,
         \A c \in HostCall : serving'[c] = "running" <=> serving[c] = "running"
  PROVE  SharedInv'
BY DEF SharedInv

\* A transport step starts one handler at most, and then it ends no context;
\* a handler it starts is not cancelled, and one that is stays so.
LEMMA OneStarted ==
  ASSUME IInv, (\E c \in Call : Transport(c)) \/ (\E s \in Side : Carry(s))
  PROVE  /\ \A c \in HostCall :
              serving'[c] = "running" <=> serving[c] = "running" \/ c \in Started
         /\ \A c, d \in Started : c = d
         /\ Started # {} => Ended = {}
         /\ \A c \in HostCall :
              /\ c \in Started => ~cancelled'[c]
              /\ serving[c] = "running" /\ cancelled[c] => cancelled'[c]
<1>1. HandlerType
  BY TypeParts DEF IInv
<1>2. HostCall \subseteq Call
  OBVIOUS
<1>3. ASSUME \A c \in HostCall : serving'[c] = "running" <=> serving[c] = "running"
      PROVE  Started = {}
  BY <1>3 DEF Started
<1>4. ASSUME NEW c \in Call, Transport(c)
      PROVE  \A d \in HostCall : /\ serving'[d] = "running" <=> serving[d] = "running"
                                 /\ cancelled[d] => cancelled'[d]
  BY <1>1, <1>2, <1>4 DEF Transport, Goroutine, CallSend, CallWait, CallCancel, CallAck,
     CallReturn, HandlerExpire, HandlerReply, HandlerFinish, HandlerType
<1>5. ASSUME NEW s \in Side, Sweep(s) \/ Write(s) \/ Read(s) \/ SlotRelease(s)
      PROVE  \A d \in HostCall : /\ serving'[d] = "running" <=> serving[d] = "running"
                                 /\ cancelled[d] => cancelled'[d]
  BY <1>2, <1>5 DEF Sweep, Write, Read, SlotRelease
<1>6. ASSUME NEW s \in Side, Dispatch(s)
      PROVE  \/ serving' = serving /\ \A d \in Call : cancelled[d] => cancelled'[d]
             \/ \E c \in Call : /\ serving[c] = "none"
                                /\ serving' = [serving EXCEPT ![c] = "running"]
                                /\ cancelled' = [cancelled EXCEPT ![c] = FALSE]
  <2> PICK m : m = Head(hand[s])
    OBVIOUS
  <2>1. /\ m.id \in Call /\ FrameOK(Other(s), m)
        /\ \/ \E cause \in {"envelope", "slots"} : Refuse(s, cause)
           \/ m.kind = "request" /\ Starts(s, m.id)
           \/ m.kind = "reply" /\ Delivers(m.id)
           \/ m.kind # "request" /\ DispatchCancel(s, m.id)
           \/ m.kind # "request" /\ UNCHANGED <<connVars, slots, answered, handlerVars>>
    BY <1>6, Dispatched
  <2> QED
    BY <1>1, <2>1 DEF Refuse, Starts, Delivers, DispatchCancel, FrameOK, Fresh, HandlerType
<1>7. ASSUME NEW c \in Call, serving[c] = "none",
             serving' = [serving EXCEPT ![c] = "running"],
             cancelled' = [cancelled EXCEPT ![c] = FALSE]
      PROVE  /\ \A d \in HostCall :
                  serving'[d] = "running" <=> serving[d] = "running" \/ d \in Started
             /\ \A d \in Started : d = c
             /\ Ended = {} /\ ~cancelled'[c]
             /\ \A d \in HostCall : serving[d] = "running" /\ cancelled[d] => cancelled'[d]
  <2>1. \A d \in Call : /\ serving'[d] = IF d = c THEN "running" ELSE serving[d]
                        /\ cancelled'[d] <=> d # c /\ cancelled[d]
    BY <1>1, <1>7 DEF HandlerType
  <2> QED
    BY <1>2, <1>7, <2>1 DEF Started, Ended
<1> QED
  BY <1>3, <1>4, <1>5, <1>6, <1>7 DEF Carry

\* What the peers hand to Serve: a request, or the end of its context.
LEMMA StepHanded ==
  ASSUME IInv, SharedInv, Handed,
         (\E c \in Call : Transport(c)) \/ (\E s \in Side : Carry(s))
  PROVE  SharedInv'
<1>1. /\ \A c \in HostCall :
           serving'[c] = "running" <=> serving[c] = "running" \/ c \in Started
      /\ \A c, d \in Started : c = d
      /\ Started # {} => Ended = {}
  BY OneStarted
<1>2. ASSUME NEW c \in Started, Serve!Arrive(c)
      PROVE  SharedInv'
  <2>1. c \in HostCall /\ \A d \in HostCall : d \in Started <=> d = c
    BY <1>1 DEF Started
  <2>2. /\ stage[c] = "idle" /\ gate' = gate
        /\ stage' = [stage EXCEPT ![c] = "called"]
    BY <1>2 DEF Serve!Arrive
  <2>3. \A d \in HostCall : stage'[d] = IF d = c THEN "called" ELSE stage[d]
    BY <2>1, <2>2 DEF SharedInv
  <2> QED
    BY <1>1, <2>1, <2>2, <2>3 DEF SharedInv, Holding
<1>3. CASE Started = {} /\ UNCHANGED <<stage, gate>>
  BY <1>1, <1>3, ServeAlone
<1> QED
  BY <1>1, <1>2, <1>3 DEF Handed, Serve!CancelContexts

\* Serve moves a request on by its own: it is not handed back before it has
\* left the slot.
LEMMA StepServeAlone ==
  ASSUME SharedInv, NEW c \in HostCall, UNCHANGED serving,
         \/ Serve!Decide(c) \/ Serve!Revoke(c) \/ Serve!Unlock(c) \/ Serve!ProviderEnds(c)
  PROVE  SharedInv'
<1>1. ASSUME stage[c] # "idle",
             NEW to \in {"left"} \cup Holding, stage' = [stage EXCEPT ![c] = to],
             \/ gate' = None
             \/ gate' = c /\ to \in Holding
             \/ gate' = gate /\ (stage[c] \in Holding => to \in Holding)
      PROVE  SharedInv'
  <2>1. \A d \in HostCall : stage'[d] = IF d = c THEN to ELSE stage[d]
    BY <1>1 DEF SharedInv
  <2>2. stage' \in [HostCall -> {"idle", "called", "left"} \cup Holding]
    BY <1>1 DEF SharedInv
  <2>3. to # "idle"
    BY <1>1 DEF Holding
  <2> QED
    BY <1>1, <2>1, <2>2, <2>3 DEF SharedInv
<1>2. CASE Serve!Busy(c)
  BY <1>1, <1>2 DEF Serve!Busy, Holding
<1>3. CASE Serve!Refuse(c) \/ Serve!CleanAgain(c)
  BY <1>1, <1>3 DEF Serve!Refuse, Serve!CleanAgain, Serve!Skip, Serve!Lock, Holding
<1>4. CASE Serve!EnterPrepare(c) \/ Serve!EnterRun(c) \/ Serve!EnterCleanup(c) \/ Serve!EnterOther(c)
  BY <1>1, <1>4 DEF Serve!EnterPrepare, Serve!EnterRun, Serve!EnterCleanup, Serve!EnterOther,
     Serve!Enter, Serve!Lock, Holding
<1>5. CASE Serve!ProviderEnds(c)
  BY <1>1, <1>5 DEF Serve!ProviderEnds, Serve!EndPrepare, Serve!EndRun, Serve!EndCleanup,
     Serve!EndOther, Serve!Panic, Serve!Return, Holding
<1>6. CASE Serve!Revoke(c) \/ Serve!Unlock(c)
  BY <1>1, <1>6 DEF Serve!Revoke, Serve!Unlock, Holding
<1> QED
  BY <1>2, <1>3, <1>4, <1>5, <1>6 DEF Serve!Decide

\* The handler of Serve returns to its peer with the slot given back.
LEMMA StepReturns ==
  ASSUME IInv, SharedInv, NEW c \in HostCall, ServeReturns(c)
  PROVE  SharedInv'
<1>1. /\ stage[c] = "left" /\ stage' = [stage EXCEPT ![c] = "idle"] /\ gate' = gate
      /\ serving' = [serving EXCEPT ![c] = "replying"]
  BY DEF ServeReturns, Serve!Reply, HandlerReturn
<1>2. HandlerType /\ c \in Call /\ HostCall \subseteq Call
  BY TypeParts DEF IInv
<1>3. \A d \in HostCall : /\ stage'[d] = IF d = c THEN "idle" ELSE stage[d]
                          /\ serving'[d] = IF d = c THEN "replying" ELSE serving[d]
  BY <1>1, <1>2 DEF SharedInv, HandlerType
<1> QED
  BY <1>1, <1>3 DEF SharedInv, Holding

\* Every step of the composition keeps the two in agreement.
LEMMA StepShared == IInv /\ SharedInv /\ [ComposedNext]_allVars => SharedInv'
<1> SUFFICES ASSUME IInv, SharedInv, [ComposedNext]_allVars PROVE SharedInv'
  OBVIOUS
<1>1. HandlerType
  BY TypeParts DEF IInv
<1>2. CASE UNCHANGED <<stage, gate, serving>>
  BY <1>2, ServeAlone
<1>3. ASSUME NEW c \in HostCall, ServeReturns(c)
      PROVE  SharedInv'
  BY <1>3, StepReturns
<1>4. ASSUME NEW c \in HostCall, ServeRuns(c) \/ MethodEnds(c)
      PROVE  SharedInv'
  BY <1>4, StepServeAlone DEF ServeRuns, MethodEnds
<1>5. ASSUME NEW c \in HostCall, HostCalls(c) \/ UsesHost(c)
      PROVE  UNCHANGED <<stage, gate, serving>>
  BY <1>5 DEF HostCalls, CallStart, UsesHost, Serve!GiveHost, Serve!CallbackCheck
<1>6. ASSUME NEW b \in Callback, HostReturns(b)
      PROVE  SharedInv'
  <2>1. \A c \in HostCall : c # b
    OBVIOUS
  <2>2. \A c \in HostCall : serving'[c] = serving[c]
    BY <1>1, <1>6, <2>1 DEF HostReturns, HandlerReturn, HandlerType
  <2>3. UNCHANGED <<stage, gate>>
    BY <1>6 DEF HostReturns
  <2> QED
    BY <2>2, <2>3, ServeAlone
<1>7. ASSUME NEW b \in Callback, Sends(b) \/ CallbackEnds(b)
      PROVE  UNCHANGED <<stage, gate, serving>>
  BY <1>7 DEF Sends, CallbackEnds, Serve!CallbackSend, CallStart, EndContext
<1>8. CASE (\E c \in Call : Transport(c)) \/ (\E s \in Side : Carry(s))
  <2>1. Handed
    BY <1>8 DEF Transport, Carry
  <2> QED
    BY <1>8, <2>1, StepHanded
<1>9. CASE Abandon
  BY <1>2, <1>9 DEF Abandon, UserClose, EndContext
<1>10. CASE UNCHANGED allVars
  BY <1>2, <1>10
<1> QED
  BY <1>2, <1>3, <1>4, <1>5, <1>6, <1>7, <1>8, <1>9, <1>10 DEF ComposedNext

\* A Call of the host that came back from the handler finds the lifecycle slot
\* free: it is never told that the lifecycle is busy by its own last Call.
THEOREM FreeOnReturn == ComposedSpec => []FreeWhenBack
<1>1. IInv /\ SharedInv => FreeWhenBack
  <2> SUFFICES ASSUME IInv, SharedInv, NEW c \in HostCall, result[c] \in {"reply", "acked"}
               PROVE  gate # c
    BY DEF FreeWhenBack
  <2>1. Over(c)
    BY DEF IInv, CallInv
  <2>2. stage[c] = "idle"
    BY <2>1 DEF SharedInv, Over
  <2> QED
    BY <2>2 DEF SharedInv, Holding
<1>2. ComposedSpec => []IInv
  BY BothParts, Invariant, PTL
<1>3. ComposedSpec => []SharedInv
  BY <1>2, InitShared, StepShared, PTL DEF ComposedSpec
<1> QED
  BY <1>1, <1>2, <1>3, PTL

----------------------------------------------------------------------------
(* The context of a phase is that of its handler at the peer.              *)

\* Serve counts the context of a request as ended, from the time it has it
\* until it revokes the Host, exactly when the peer has cancelled the handler;
\* and a Host that is still of a phase has the context of that phase.
ContextInv ==
  /\ ctx \in [HostCall -> {"open", "ended"}]
  /\ host \in [{Provider} -> {"none", "open", "ended", "revoked"}]
  /\ phase \in [{Provider} -> HostCall \cup {None}]
  /\ \A c \in HostCall : stage[c] = "idle" => ctx[c] = "open"
  /\ \A c \in HostCall :
       stage[c] \in {"called", "provider", "leaving"} => (ctx[c] = "ended" <=> cancelled[c])
  /\ host[Provider] \in {"open", "ended"} => phase[Provider] # None
  /\ phase[Provider] # None =>
       /\ stage[phase[Provider]] \in {"provider", "leaving"}
       /\ host[Provider] = ctx[phase[Provider]]

\* Before the first request there is no Host and no context has ended.
LEMMA InitContext == Composed => ContextInv
BY DEF Composed, Init, Serve!Init, ContextInv

\* What leaves the contexts and the Host alone, on the side of Serve and of
\* the peer, leaves them in agreement.
LEMMA ContextAlone ==
  ASSUME ContextInv, UNCHANGED <<ctx, host, phase, stage, cancelled>>
  PROVE  ContextInv'
BY DEF ContextInv

\* So does a request that Serve moves on, unless it goes past its Revoke.
LEMMA ContextMoved ==
  ASSUME SharedInv, ContextInv, NEW c \in HostCall, NEW to \in {"left"} \cup Holding,
         stage[c] # "idle", stage' = [stage EXCEPT ![c] = to],
         UNCHANGED <<ctx, host, phase, cancelled>>,
         to \in {"provider", "leaving"} => stage[c] \in {"called", "provider", "leaving"},
         stage[c] \in {"provider", "leaving"} => to \in {"provider", "leaving"}
  PROVE  ContextInv'
<1>1. \A d \in HostCall : stage'[d] = IF d = c THEN to ELSE stage[d]
  BY DEF SharedInv
<1>2. to # "idle" /\ to # "called"
  BY DEF Holding
<1>3. phase[Provider] \in HostCall \cup {None}
  BY DEF ContextInv
<1> QED
  BY <1>1, <1>2, <1>3 DEF ContextInv

\* A step of Serve or of its provider, with the peers at rest.
LEMMA ContextServe ==
  ASSUME SharedInv, ContextInv, NEW c \in HostCall, UNCHANGED cancelled,
         \/ Serve!Decide(c) \/ Serve!Revoke(c) \/ Serve!Unlock(c)
         \/ Serve!ProviderEnds(c)
  PROVE  ContextInv'
<1>1. CASE Serve!Busy(c)
  BY <1>1, ContextMoved DEF Serve!Busy
<1>2. CASE Serve!Refuse(c) \/ Serve!CleanAgain(c)
  BY <1>2, ContextMoved DEF Serve!Refuse, Serve!CleanAgain, Serve!Skip, Serve!Lock, Holding
<1>3. CASE Serve!EnterPrepare(c) \/ Serve!EnterRun(c) \/ Serve!EnterCleanup(c) \/ Serve!EnterOther(c)
  BY <1>3, ContextMoved DEF Serve!EnterPrepare, Serve!EnterRun, Serve!EnterCleanup,
     Serve!EnterOther, Serve!Enter, Serve!Lock, Holding
<1>4. CASE Serve!ProviderEnds(c)
  BY <1>4, ContextMoved DEF Serve!ProviderEnds, Serve!EndPrepare, Serve!EndRun,
     Serve!EndCleanup, Serve!EndOther, Serve!Panic, Serve!Return, Holding
<1>5. CASE Serve!Unlock(c)
  BY <1>5, ContextMoved DEF Serve!Unlock
<1>6. CASE Serve!Revoke(c)
  <2>1. /\ stage[c] = "leaving" /\ UNCHANGED ctx
        /\ \A d \in HostCall : stage'[d] = IF d = c THEN "revoked" ELSE stage[d]
    BY <1>6 DEF Serve!Revoke, SharedInv
  <2>2. /\ host' = [h \in {Provider} |-> IF phase[h] = c THEN "revoked" ELSE host[h]]
        /\ phase' = [h \in {Provider} |-> IF phase[h] = c THEN None ELSE phase[h]]
    BY <1>6 DEF Serve!Revoke
  <2>3. phase[Provider] \in HostCall \cup {None}
    BY DEF ContextInv
  <2> QED
    BY <2>1, <2>2, <2>3 DEF ContextInv
<1> QED
  BY <1>1, <1>2, <1>3, <1>4, <1>5, <1>6 DEF Serve!Decide

\* The provider is given a Host with the context of its phase, which it keeps.
LEMMA ContextGiven ==
  ASSUME SharedInv, ContextInv, NEW c \in HostCall, UNCHANGED cancelled,
         Serve!GiveHost(Provider, c)
  PROVE  ContextInv'
<1>1. /\ stage[c] = "provider" /\ UNCHANGED <<stage, ctx>>
      /\ host' = [host EXCEPT ![Provider] = ctx[c]]
      /\ phase' = [phase EXCEPT ![Provider] = c]
  BY DEF Serve!GiveHost
<1>2. host'[Provider] = ctx[c] /\ phase'[Provider] = c
  BY <1>1 DEF ContextInv
<1>3. ctx[c] \in {"open", "ended"} /\ c # None
  BY DEF ContextInv
<1> QED
  BY <1>1, <1>2, <1>3 DEF ContextInv

\* The handler returns: the next request of that goroutine has a new context.
LEMMA ContextReturns ==
  ASSUME SharedInv, ContextInv, NEW c \in HostCall, ServeReturns(c)
  PROVE  ContextInv'
<1>1. /\ stage[c] = "left" /\ UNCHANGED <<host, phase, cancelled>>
      /\ stage' = [stage EXCEPT ![c] = "idle"] /\ ctx' = [ctx EXCEPT ![c] = "open"]
  BY DEF ServeReturns, Serve!Reply, HandlerReturn
<1>2. \A d \in HostCall : /\ stage'[d] = IF d = c THEN "idle" ELSE stage[d]
                          /\ ctx'[d] = IF d = c THEN "open" ELSE ctx[d]
  BY <1>1 DEF SharedInv, ContextInv
<1>3. phase[Provider] \in HostCall \cup {None}
  BY DEF ContextInv
<1> QED
  BY <1>1, <1>2, <1>3 DEF ContextInv

\* Whatever the peers hand to Serve it can take: it has no request yet of a
\* handler that starts, and a context that ends had not ended before.  Handed
\* holds no step of the peers back.
LEMMA ServeTakes ==
  ASSUME SharedInv, ContextInv
  PROVE  /\ \A c \in Started : stage[c] = "idle" /\ ctx[c] = "open"
         /\ \A c \in Ended : /\ stage[c] \in {"called", "provider", "leaving"}
                             /\ ctx[c] = "open"
BY DEF SharedInv, ContextInv, Started, Ended

\* A step of the peers' goroutines hands Serve what it does to the contexts.
LEMMA ContextHanded ==
  ASSUME IInv, SharedInv, ContextInv, Handed,
         (\E c \in Call : Transport(c)) \/ (\E s \in Side : Carry(s))
  PROVE  ContextInv'
<1>1. /\ \A c, d \in Started : c = d
      /\ Started # {} => Ended = {}
      /\ \A c \in HostCall :
           /\ c \in Started => ~cancelled'[c]
           /\ serving[c] = "running" /\ cancelled[c] => cancelled'[c]
  BY OneStarted
<1>2. \A c \in HostCall : stage[c] \in {"called", "provider", "leaving"} =>
        (cancelled'[c] <=> cancelled[c] \/ c \in Ended)
  BY <1>1 DEF SharedInv, Ended
<1>3. phase[Provider] \in HostCall \cup {None}
  BY DEF ContextInv
<1>4. ASSUME NEW c \in Started, Serve!Arrive(c)
      PROVE  ContextInv'
  <2>1. /\ c \in HostCall /\ Ended = {} /\ ~cancelled'[c]
        /\ stage[c] = "idle" /\ ctx[c] = "open" /\ UNCHANGED <<ctx, host, phase>>
        /\ stage' = [stage EXCEPT ![c] = "called"]
    BY <1>1, <1>4, ServeTakes DEF Started, Serve!Arrive
  <2>2. \A d \in HostCall : stage'[d] = IF d = c THEN "called" ELSE stage[d]
    BY <2>1 DEF SharedInv
  <2> QED
    BY <1>2, <1>3, <2>1, <2>2 DEF ContextInv
<1>5. ASSUME Ended # {}, Serve!CancelContexts(Ended)
      PROVE  ContextInv'
  <2>1. /\ ctx' = [c \in HostCall |-> IF c \in Ended THEN "ended" ELSE ctx[c]]
        /\ host' = [h \in {Provider} |->
                      IF phase[h] \in Ended /\ host[h] = "open" THEN "ended" ELSE host[h]]
        /\ UNCHANGED <<stage, phase>>
    BY <1>5 DEF Serve!CancelContexts
  <2>2. \A c \in Ended : /\ c \in HostCall /\ ctx[c] = "open"
                         /\ stage[c] \in {"called", "provider", "leaving"}
    BY ServeTakes DEF Ended
  <2>3. None \notin Ended
    BY <2>2
  <2> QED
    BY <1>2, <1>3, <2>1, <2>2, <2>3 DEF ContextInv
<1>6. ASSUME Ended = {}, UNCHANGED serveVars
      PROVE  ContextInv'
  BY <1>2, <1>6 DEF ContextInv
<1> QED
  BY <1>4, <1>5, <1>6 DEF Handed

\* Every step of the composition keeps the contexts in agreement.
LEMMA StepContext ==
  IInv /\ SharedInv /\ ContextInv /\ [ComposedNext]_allVars => ContextInv'
<1> SUFFICES ASSUME IInv, SharedInv, ContextInv, [ComposedNext]_allVars PROVE ContextInv'
  OBVIOUS
<1>1. ASSUME NEW c \in HostCall, ServeReturns(c)
      PROVE  ContextInv'
  BY <1>1, ContextReturns
<1>2. ASSUME NEW c \in HostCall, ServeRuns(c) \/ MethodEnds(c)
      PROVE  ContextInv'
  BY <1>2, ContextServe DEF ServeRuns, MethodEnds
<1>3. ASSUME NEW c \in HostCall, UsesHost(c)
      PROVE  ContextInv'
  <2>1. CASE Serve!GiveHost(Provider, c)
    BY <1>3, <2>1, ContextGiven DEF UsesHost
  <2>2. CASE Serve!CallbackCheck(Provider)
    BY <1>3, <2>2, ContextAlone DEF UsesHost, Serve!CallbackCheck
  <2> QED
    BY <1>3, <2>1, <2>2 DEF UsesHost
<1>4. ASSUME NEW c \in HostCall, HostCalls(c)
      PROVE  ContextInv'
  BY <1>4, ContextAlone DEF HostCalls, CallStart
<1>5. ASSUME NEW b \in Callback, HostReturns(b) \/ Sends(b) \/ CallbackEnds(b)
      PROVE  ContextInv'
  BY <1>5, ContextAlone DEF HostReturns, Sends, CallbackEnds, HandlerReturn,
     Serve!CallbackSend, CallStart, EndContext
<1>6. CASE (\E c \in Call : Transport(c)) \/ (\E s \in Side : Carry(s))
  <2>1. Handed
    BY <1>6 DEF Transport, Carry
  <2> QED
    BY <1>6, <2>1, ContextHanded
<1>7. CASE Abandon
  BY <1>7, ContextAlone DEF Abandon, UserClose, EndContext
<1>8. CASE UNCHANGED allVars
  BY <1>8, ContextAlone
<1> QED
  BY <1>1, <1>2, <1>3, <1>4, <1>5, <1>6, <1>7, <1>8 DEF ComposedNext

\* The Host a provider has been given for a request can be used exactly as long
\* as the peer has the handler of that request running and has not cancelled
\* it: with a cancel frame, the deadline or the close the Host's context ends,
\* and with nothing else before Serve revokes it.
HostOfHandler ==
  \A c \in HostCall : phase[Provider] = c =>
    serving[c] = "running" /\ host[Provider] = IF cancelled[c] THEN "ended" ELSE "open"

\* No Host outlives the handler it was made for, nor its context, and none is
\* cut off while both last.
THEOREM HostsEndWithHandlers == ComposedSpec => []HostOfHandler
<1>1. SharedInv /\ ContextInv => HostOfHandler
  <2> SUFFICES ASSUME SharedInv, ContextInv, NEW c \in HostCall, phase[Provider] = c
               PROVE  /\ serving[c] = "running"
                      /\ host[Provider] = IF cancelled[c] THEN "ended" ELSE "open"
    BY DEF HostOfHandler
  <2>1. stage[c] \in {"provider", "leaving"} /\ host[Provider] = ctx[c]
    BY DEF ContextInv
  <2>2. ctx[c] \in {"open", "ended"} /\ (ctx[c] = "ended" <=> cancelled[c])
    BY <2>1 DEF ContextInv
  <2> QED
    BY <2>1, <2>2 DEF SharedInv
<1>2. ComposedSpec => []IInv
  BY BothParts, Invariant, PTL
<1>3. ComposedSpec => []SharedInv
  BY <1>2, InitShared, StepShared, PTL DEF ComposedSpec
<1>4. ComposedSpec => []ContextInv
  BY <1>2, <1>3, InitContext, StepContext, PTL DEF ComposedSpec
<1> QED
  BY <1>1, <1>3, <1>4, PTL

=============================================================================
