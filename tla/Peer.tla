------------------------------- MODULE Peer -------------------------------
(***************************************************************************)
(* The duplex RPC peer of pluginapi/special/peer.go, at both ends of one   *)
(* stream.  Either end issues Calls and serves the other's.  Each end has  *)
(* a reader and a writer goroutine, one goroutine per Call in progress and *)
(* one per request being handled; all of them interleave freely.           *)
(*                                                                         *)
(* Time is abstract: a timer that has been started may fire at any moment. *)
(* A frame is its kind, its ID and whether it is acceptable.  Every Call   *)
(* draws a fresh ID from an atomic counter under its end's own prefix, so  *)
(* the Call itself stands for its ID.                                      *)
(***************************************************************************)
EXTENDS Integers, Sequences, FiniteSets

CONSTANTS
  Side,        \* the two ends of the stream
  Call,        \* the Calls that may be made, over both ends
  Caller,      \* [Call -> Side]: the end that makes the Call
  MaxPending,  \* 32: Calls registered at one end
  OutCap,      \* 32: frames queued for the writer of one end
  SlotCap,     \* 8: handler goroutines at one end
  WireCap,     \* frames the transport holds in one direction
  ReplyBody    \* the bodies a handler's reply may have, a subset of Body

\* "bad" is an envelope the reader refuses (for a reply: an error whose text
\* is empty, so that it has neither payload nor error); "huge" exceeds the
\* frame limit, which only the writer finds out.
Body == {"good", "bad", "huge"}

ASSUME PeerAssumption ==
  /\ IsFiniteSet(Side) /\ Cardinality(Side) = 2
  /\ IsFiniteSet(Call)
  /\ Caller \in [Call -> Side]
  /\ MaxPending \in Nat \ {0} /\ OutCap \in Nat \ {0}
  /\ SlotCap \in Nat \ {0} /\ WireCap \in Nat \ {0}
  /\ ReplyBody \subseteq Body

Frame == [kind : {"request", "cancel", "reply"}, id : Call, body : Body]

VARIABLES
  done,       \* p.done is closed and so is the stream's own end
  swept,      \* Close has cancelled the handlers it found in p.active
  why,        \* what closed this end first (history)
  out,        \* p.out, the queue of the writer
  wire,       \* frames an end has written that the other has not read
  hand,       \* the frame the reader has read and not yet dispatched
  slots,      \* tokens in p.slots
  releasing,  \* handler goroutines between delete(p.active) and <-p.slots
  pc,         \* where each Call is
  ctxDone,    \* the context of each Call has ended
  answered,   \* the Call's one-place reply channel is full
  result,     \* how each Call returned
  serving,    \* where the handler goroutine of each request is
  cancelled   \* the context of that handler has ended

connVars == <<done, swept, why>>
queueVars == <<out, wire, hand>>
slotVars == <<slots, releasing>>
callVars == <<pc, ctxDone, answered, result>>
handlerVars == <<serving, cancelled>>
vars == <<connVars, queueVars, slotVars, callVars, handlerVars>>

Other(s) == CHOOSE o \in Side : o # s

Callee(c) == Other(Caller[c])

\* p.pending and p.active are deferred-deleted by the goroutine that added
\* the entry, so each is the set of goroutines between those two points.
Pending(s) == {c \in Call : Caller[c] = s /\ pc[c] \notin {"idle", "returned"}}
Active(s) == {c \in Call : Caller[c] # s /\ serving[c] # "none"}

\* "lost": its owner, a broken pipe, the end of the stream or a timeout;
\* the others name the frame its reader refused.
Causes == {"none", "lost", "envelope", "duplicate request", "duplicate reply",
           "slots"}

TypeOK ==
  /\ done \in [Side -> BOOLEAN]
  /\ swept \in [Side -> BOOLEAN]
  /\ why \in [Side -> Causes]
  /\ out \in [Side -> Seq(Frame)]
  /\ wire \in [Side -> Seq(Frame)]
  /\ hand \in [Side -> Seq(Frame)]
  /\ slots \in [Side -> 0 .. SlotCap]
  /\ releasing \in [Side -> Nat]
  /\ pc \in [Call -> {"idle", "sending", "waiting", "cancelling", "acking",
                      "returning", "returned"}]
  /\ ctxDone \in [Call -> BOOLEAN]
  /\ answered \in [Call -> BOOLEAN]
  /\ result \in [Call -> {"none", "limit", "unsent", "reply", "lost", "acked"}]
  /\ serving \in [Call -> {"none", "running", "replying", "replied"}]
  /\ cancelled \in [Call -> BOOLEAN]

Init ==
  /\ done = [s \in Side |-> FALSE]
  /\ swept = [s \in Side |-> FALSE]
  /\ why = [s \in Side |-> "none"]
  /\ out = [s \in Side |-> <<>>]
  /\ wire = [s \in Side |-> <<>>]
  /\ hand = [s \in Side |-> <<>>]
  /\ slots = [s \in Side |-> 0]
  /\ releasing = [s \in Side |-> 0]
  /\ pc = [c \in Call |-> "idle"]
  /\ ctxDone = [c \in Call |-> FALSE]
  /\ answered = [c \in Call |-> FALSE]
  /\ result = [c \in Call |-> "none"]
  /\ serving = [c \in Call |-> "none"]
  /\ cancelled = [c \in Call |-> FALSE]

----------------------------------------------------------------------------
(* Close.  The first caller closes done and the stream, then takes the     *)
(* mutex and cancels every registered handler: the sweep is a later step.  *)

Close(s, cause) ==
  /\ done' = [done EXCEPT ![s] = TRUE]
  /\ why' = [why EXCEPT ![s] = IF done[s] THEN @ ELSE cause]
  /\ UNCHANGED swept

Sweep(s) ==
  /\ done[s] /\ ~swept[s]
  /\ swept' = [swept EXCEPT ![s] = TRUE]
  /\ cancelled' = [c \in Call |-> cancelled[c] \/ c \in Active(s)]
  /\ UNCHANGED <<done, why, queueVars, slotVars, callVars, serving>>

\* The owner of the peer closes it, or its process ends.
UserClose(s) ==
  /\ ~done[s]
  /\ Close(s, "lost")
  /\ UNCHANGED <<queueVars, slotVars, callVars, handlerVars>>

----------------------------------------------------------------------------
(* send(ctx, m): the ready cases of the select are in the callers below.   *)

HasRoom(s) == Len(out[s]) < OutCap

Enqueue(s, kind, c, body) ==
  /\ HasRoom(s)
  /\ out' = [out EXCEPT ![s] = Append(@, [kind |-> kind, id |-> c, body |-> body])]
  /\ UNCHANGED <<wire, hand>>

\* Leave the body of Call with a result; CallReturn runs the deferred delete.
Leave(c, r) ==
  /\ pc' = [pc EXCEPT ![c] = "returning"]
  /\ result' = [result EXCEPT ![c] = r]
  /\ UNCHANGED ctxDone

----------------------------------------------------------------------------
(* Seeded faults: the actions below as a plausible bug would have them.    *)
(* They are part of no specification; each property is tried on one.       *)

\* Seeded fault: a Call whose context ended before its send cancels anyway.
FaultCallSend(c) ==
  /\ pc[c] = "sending"
  /\ \/ /\ ctxDone[c] \/ done[Caller[c]]
        /\ pc' = [pc EXCEPT ![c] = "cancelling"]
        /\ UNCHANGED queueVars
     \/ /\ Enqueue(Caller[c], "request", c, "good")
        /\ pc' = [pc EXCEPT ![c] = "waiting"]
  /\ UNCHANGED <<connVars, slotVars, ctxDone, answered, result, handlerVars>>

\* Seeded fault: the wait for the reply does not watch p.done.
FaultCallWait(c) ==
  /\ pc[c] = "waiting"
  /\ \/ /\ answered[c]
        /\ answered' = [answered EXCEPT ![c] = FALSE]
        /\ Leave(c, "reply")
     \/ /\ ctxDone[c]
        /\ pc' = [pc EXCEPT ![c] = "cancelling"]
        /\ UNCHANGED <<ctxDone, answered, result>>
  /\ UNCHANGED <<connVars, queueVars, slotVars, handlerVars>>

\* Seeded fault: the acknowledgement is not waited for.
FaultCallAck(c) ==
  /\ pc[c] = "acking"
  /\ Leave(c, "acked")
  /\ UNCHANGED <<connVars, queueVars, slotVars, answered, handlerVars>>

\* Seeded fault: the second wait has no timeout of its own.
FaultCallAckUntimed(c) ==
  /\ pc[c] = "acking"
  /\ \/ /\ answered[c]
        /\ answered' = [answered EXCEPT ![c] = FALSE]
        /\ Leave(c, "acked")
     \/ /\ done[Caller[c]]
        /\ Leave(c, "lost")
        /\ UNCHANGED answered
  /\ UNCHANGED <<connVars, queueVars, slotVars, handlerVars>>

\* Seeded fault: closing the end does not fail its ReadFrame.
FaultRead(s) ==
  /\ hand[s] = <<>>
  /\ wire[Other(s)] # <<>>
  /\ hand' = [hand EXCEPT ![s] = <<Head(wire[Other(s)])>>]
  /\ wire' = [wire EXCEPT ![Other(s)] = Tail(@)]
  /\ UNCHANGED <<connVars, out, slotVars, callVars, handlerVars>>

\* Seeded fault: the slots are counted one too late.
FaultSlotsFull(s) == slots[s] > SlotCap

\* Seeded fault: a reply that was queued may be sent again.
FaultHandlerReply(c) ==
  /\ serving[c] = "replying"
  /\ \E next \in {"replying", "replied"} : serving' = [serving EXCEPT ![c] = next]
  /\ \E b \in ReplyBody : Enqueue(Callee(c), "reply", c, b)
  /\ UNCHANGED <<connVars, slotVars, callVars, cancelled>>

\* Seeded fault: the reply is sent with no timeout, nor a look at p.done.
FaultHandlerReplyUntimed(c) ==
  /\ serving[c] = "replying"
  /\ serving' = [serving EXCEPT ![c] = "replied"]
  /\ \E b \in ReplyBody : Enqueue(Callee(c), "reply", c, b)
  /\ UNCHANGED <<connVars, slotVars, callVars, cancelled>>

\* Seeded fault: a finished handler keeps its slot.
FaultHandlerFinish(c) ==
  /\ serving[c] = "replied"
  /\ serving' = [serving EXCEPT ![c] = "none"]
  /\ cancelled' = [cancelled EXCEPT ![c] = TRUE]
  /\ UNCHANGED <<connVars, queueVars, slotVars, callVars>>

----------------------------------------------------------------------------
(* Call.                                                                   *)

CallStart(c) ==
  /\ pc[c] = "idle"
  /\ \/ /\ Cardinality(Pending(Caller[c])) >= MaxPending
        /\ pc' = [pc EXCEPT ![c] = "returned"]
        /\ result' = [result EXCEPT ![c] = "limit"]
     \/ /\ Cardinality(Pending(Caller[c])) < MaxPending
        /\ pc' = [pc EXCEPT ![c] = "sending"]
        /\ UNCHANGED result
  /\ UNCHANGED <<connVars, queueVars, slotVars, ctxDone, answered, handlerVars>>

CallSend(c) ==
  /\ pc[c] = "sending"
  /\ \/ /\ ctxDone[c] \/ done[Caller[c]]
        /\ Leave(c, "unsent")
        /\ UNCHANGED <<queueVars, answered>>
     \/ /\ Enqueue(Caller[c], "request", c, "good")
        /\ pc' = [pc EXCEPT ![c] = "waiting"]
        /\ UNCHANGED <<ctxDone, answered, result>>
  /\ UNCHANGED <<connVars, slotVars, handlerVars>>

CallWait(c) ==
  /\ pc[c] = "waiting"
  /\ \/ /\ answered[c]
        /\ answered' = [answered EXCEPT ![c] = FALSE]
        /\ Leave(c, "reply")
     \/ /\ done[Caller[c]]
        /\ Leave(c, "lost")
        /\ UNCHANGED answered
     \/ /\ ctxDone[c]
        /\ pc' = [pc EXCEPT ![c] = "cancelling"]
        /\ UNCHANGED <<ctxDone, answered, result>>
  /\ UNCHANGED <<connVars, queueVars, slotVars, handlerVars>>

\* The cancel frame is sent under a one-second context of its own; when that
\* send fails the peer is closed.
CallCancel(c) ==
  /\ pc[c] = "cancelling"
  /\ pc' = [pc EXCEPT ![c] = "acking"]
  /\ \/ /\ Enqueue(Caller[c], "cancel", c, "good")
        /\ UNCHANGED connVars
     \/ /\ Close(Caller[c], "lost")
        /\ UNCHANGED queueVars
  /\ UNCHANGED <<slotVars, ctxDone, answered, result, handlerVars>>

\* The reply of the cancelled handler is the acknowledgement; without it the
\* same one-second context closes the peer.
CallAck(c) ==
  /\ pc[c] = "acking"
  /\ \/ /\ answered[c]
        /\ answered' = [answered EXCEPT ![c] = FALSE]
        /\ Leave(c, "acked")
        /\ UNCHANGED connVars
     \/ /\ done[Caller[c]]
        /\ Leave(c, "lost")
        /\ UNCHANGED <<connVars, answered>>
     \/ /\ Close(Caller[c], "lost")
        /\ Leave(c, "lost")
        /\ UNCHANGED answered
  /\ UNCHANGED <<queueVars, slotVars, handlerVars>>

CallReturn(c) ==
  /\ pc[c] = "returning"
  /\ pc' = [pc EXCEPT ![c] = "returned"]
  /\ UNCHANGED <<connVars, queueVars, slotVars, ctxDone, answered, result,
                 handlerVars>>

\* The caller's context is cancelled or reaches its deadline.
EndContext(c) ==
  /\ pc[c] \in {"idle", "sending", "waiting"} /\ ~ctxDone[c]
  /\ ctxDone' = [ctxDone EXCEPT ![c] = TRUE]
  /\ UNCHANGED <<connVars, queueVars, slotVars, pc, answered, result, handlerVars>>

----------------------------------------------------------------------------
(* write.  A frame over the limit or a broken pipe closes the end.         *)

Write(s) ==
  /\ ~done[s] /\ out[s] # <<>>
  /\ out' = [out EXCEPT ![s] = Tail(@)]
  /\ \/ /\ Head(out[s]).body = "huge" \/ done[Other(s)]
        /\ Close(s, "lost")
        /\ UNCHANGED wire
     \/ /\ Head(out[s]).body # "huge" /\ ~done[Other(s)]
        /\ Len(wire[s]) < WireCap
        /\ wire' = [wire EXCEPT ![s] = Append(@, Head(out[s]))]
        /\ UNCHANGED connVars
  /\ UNCHANGED <<hand, slotVars, callVars, handlerVars>>

----------------------------------------------------------------------------
(* read.  ReadFrame and the dispatch are apart: Close may come in between. *)

Read(s) ==
  /\ ~done[s] /\ hand[s] = <<>>
  /\ \/ /\ wire[Other(s)] # <<>>
        /\ hand' = [hand EXCEPT ![s] = <<Head(wire[Other(s)])>>]
        /\ wire' = [wire EXCEPT ![Other(s)] = Tail(@)]
        /\ UNCHANGED connVars
     \/ /\ wire[Other(s)] = <<>> /\ done[Other(s)]
        /\ Close(s, "lost")
        /\ UNCHANGED <<wire, hand>>
  /\ UNCHANGED <<out, slotVars, callVars, handlerVars>>

Refuse(s, cause) ==
  /\ Close(s, cause)
  /\ UNCHANGED <<slots, answered, handlerVars>>

SlotsFull(s) == slots[s] = SlotCap

DispatchReply(s, c) ==
  \/ /\ c \in Pending(s) /\ ~answered[c]
     /\ answered' = [answered EXCEPT ![c] = TRUE]
     /\ UNCHANGED <<connVars, slots, handlerVars>>
  \/ /\ c \in Pending(s) /\ answered[c]
     /\ Refuse(s, "duplicate reply")
  \/ /\ c \notin Pending(s)
     /\ UNCHANGED <<connVars, slots, answered, handlerVars>>

DispatchCancel(s, c) ==
  /\ cancelled' = [cancelled EXCEPT ![c] = @ \/ c \in Active(s)]
  /\ UNCHANGED <<connVars, slots, answered, serving>>

DispatchRequest(s, c) ==
  \/ /\ c \in Active(s)
     /\ Refuse(s, "duplicate request")
  \/ /\ c \notin Active(s) /\ SlotsFull(s)
     /\ Refuse(s, "slots")
  \/ /\ c \notin Active(s) /\ ~SlotsFull(s)
     /\ slots' = [slots EXCEPT ![s] = @ + 1]
     /\ serving' = [serving EXCEPT ![c] = "running"]
     /\ cancelled' = [cancelled EXCEPT ![c] = FALSE]
     /\ UNCHANGED <<connVars, answered>>

Dispatch(s) ==
  /\ hand[s] # <<>>
  /\ hand' = [hand EXCEPT ![s] = <<>>]
  /\ LET m == Head(hand[s])
     IN  \/ m.body = "bad" /\ Refuse(s, "envelope")
         \/ m.body # "bad" /\ m.kind = "reply" /\ DispatchReply(s, m.id)
         \/ m.body # "bad" /\ m.kind = "cancel" /\ DispatchCancel(s, m.id)
         \/ m.body # "bad" /\ m.kind = "request" /\ DispatchRequest(s, m.id)
  /\ UNCHANGED <<out, wire, releasing, pc, ctxDone, result>>

----------------------------------------------------------------------------
(* handle.                                                                 *)

\* The deadline carried by the request passes.
HandlerExpire(c) ==
  /\ serving[c] = "running" /\ ~cancelled[c]
  /\ cancelled' = [cancelled EXCEPT ![c] = TRUE]
  /\ UNCHANGED <<connVars, queueVars, slotVars, callVars, serving>>

\* The handler returns a value or an error, or its panic is recovered.
HandlerReturn(c) ==
  /\ serving[c] = "running"
  /\ serving' = [serving EXCEPT ![c] = "replying"]
  /\ UNCHANGED <<connVars, queueVars, slotVars, callVars, cancelled>>

\* The reply is sent under a five-second context; a failed send closes.
HandlerReply(c) ==
  /\ serving[c] = "replying"
  /\ serving' = [serving EXCEPT ![c] = "replied"]
  /\ \/ /\ \E b \in ReplyBody : Enqueue(Callee(c), "reply", c, b)
        /\ UNCHANGED connVars
     \/ /\ Close(Callee(c), "lost")
        /\ UNCHANGED queueVars
  /\ UNCHANGED <<slotVars, callVars, cancelled>>

HandlerFinish(c) ==
  /\ serving[c] = "replied"
  /\ serving' = [serving EXCEPT ![c] = "none"]
  /\ cancelled' = [cancelled EXCEPT ![c] = TRUE]
  /\ releasing' = [releasing EXCEPT ![Callee(c)] = @ + 1]
  /\ UNCHANGED <<connVars, queueVars, slots, callVars>>

SlotRelease(s) ==
  /\ releasing[s] > 0
  /\ releasing' = [releasing EXCEPT ![s] = @ - 1]
  /\ slots' = [slots EXCEPT ![s] = @ - 1]
  /\ UNCHANGED <<connVars, queueVars, callVars, handlerVars>>

----------------------------------------------------------------------------

CallStep(c) ==
  \/ CallStart(c) \/ CallSend(c) \/ CallWait(c) \/ CallCancel(c)
  \/ CallAck(c) \/ CallReturn(c) \/ EndContext(c)

HandlerStep(c) ==
  \/ HandlerExpire(c) \/ HandlerReturn(c) \/ HandlerReply(c) \/ HandlerFinish(c)

SideStep(s) ==
  \/ UserClose(s) \/ Sweep(s) \/ Write(s) \/ Read(s) \/ Dispatch(s)
  \/ SlotRelease(s)

Next ==
  \/ \E c \in Call : CallStep(c) \/ HandlerStep(c)
  \/ \E s \in Side : SideStep(s)

Spec == Init /\ [][Next]_vars

\* What the goroutine of a Call does once it has started.
Goroutine(c) ==
  CallSend(c) \/ CallWait(c) \/ CallCancel(c) \/ CallAck(c) \/ CallReturn(c)

----------------------------------------------------------------------------
(* Safety.                                                                 *)

\* Every token in p.slots belongs to one handler goroutine, which gives it
\* back exactly once however it ended: by value, error, panic, cancellation,
\* or in an end that was closed under it (handle's deferred function).
SlotAccounting ==
  \A s \in Side : slots[s] = Cardinality(Active(s)) + releasing[s]

\* What the end s has sent and the other has not dispatched.  A closed end
\* writes nothing more.
InTransit(s) ==
  hand[Other(s)] \o wire[s] \o IF done[s] THEN <<>> ELSE out[s]

\* A cancel frame is behind its request: the remote has already registered
\* the handler, or will before it reads the cancel, so that the cancel is
\* never dropped as one for an unknown ID while the request goes on.
CancelBehindRequest ==
  \A s \in Side : ~done[Other(s)] => \A i \in 1 .. Len(InTransit(s)) :
    LET q == InTransit(s)
    IN  q[i].kind = "cancel" /\ serving[q[i].id] = "none" /\ ~cancelled[q[i].id]
          => \E j \in 1 .. i - 1 : q[j].kind = "request" /\ q[j].id = q[i].id

\* Close cancels the handlers it finds.  The reader may still hold one frame
\* it had read before, so that one handler at most starts behind the sweep
\* and is left to its own deadline.
MissedByClose(s) ==
  {c \in Active(s) : swept[s] /\ serving[c] = "running" /\ ~cancelled[c]}

AtMostOneMissedByClose == \A s \in Side : Cardinality(MissedByClose(s)) <= 1

\* Two SDK ends never break the protocol between themselves: a reader never
\* meets an ID it is already serving nor a second reply, whatever was
\* cancelled, timed out or lost.
NeverDuplicates ==
  \A s \in Side : why[s] \notin {"duplicate request", "duplicate reply"}

----------------------------------------------------------------------------
(* What a Call promises.                                                   *)

\* The effect of a Call is its handler, from the dispatch of the request to
\* the moment its reply is queued or its end is closed.
Effect(c) ==
  IF serving[c] = "none" /\ ~cancelled[c] THEN "none"
  ELSE IF serving[c] \in {"running", "replying"} THEN "running" ELSE "over"

Report(c) ==
  CASE result[c] = "none" -> "none"
    [] result[c] \in {"limit", "unsent"} -> "never"
    [] result[c] \in {"reply", "acked"} -> "over"
    [] result[c] = "lost" -> "unknown"

Contract == INSTANCE RpcContract
  WITH effect <- [c \in Call |-> Effect(c)], report <- [c \in Call |-> Report(c)]

\* Two SDK ends keep the contract of a Call, through queues, cancellation,
\* timeouts and a stream that is closed under it: "Cancellation acknowledged
\* after the handler has returned", and a failed send is one that never was.
ImplementsRpc == Contract!RpcSpec
=============================================================================
