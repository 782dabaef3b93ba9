----------------------------- MODULE PeerOpen -----------------------------
(***************************************************************************)
(* One SDK end of a stream, the end Local, facing a remote that is not the *)
(* SDK: it writes any frame at any time, whether or not it answers         *)
(* anything, leaves what it is sent unread, and goes away when it likes.   *)
(* The remote's goroutines do not exist: of its state only its written     *)
(* frames and its closing are used.                                        *)
(***************************************************************************)
EXTENDS Peer

CONSTANT Local

ASSUME LocalAssumption == Local \in Side

Remote == Other(Local)

\* A frame over the limit is refused by ReadFrame as a bad envelope is, and a
\* bad envelope whatever it carries: the bad cancels stand for them all.  The
\* IDs of p.active and p.pending are apart: a request under an ID this end
\* drew is a request under one more ID, and a reply to a request of the
\* remote's own is one to an ID that is not pending.
RemoteFrame ==
  {m \in Frame : /\ m.body = "good" \/ (m.body = "bad" /\ m.kind = "cancel")
                 /\ m.kind = "reply" <=> Caller[m.id] = Local}

RemoteWrite ==
  /\ ~done[Remote] /\ Len(wire[Remote]) < WireCap
  /\ \E m \in RemoteFrame : wire' = [wire EXCEPT ![Remote] = Append(@, m)]
  /\ UNCHANGED <<connVars, out, hand, slotVars, callVars, handlerVars>>

RemoteRead ==
  /\ ~done[Remote] /\ wire[Local] # <<>>
  /\ wire' = [wire EXCEPT ![Local] = Tail(@)]
  /\ UNCHANGED <<connVars, out, hand, slotVars, callVars, handlerVars>>

RemoteClose ==
  /\ ~done[Remote]
  /\ Close(Remote, "lost")
  /\ UNCHANGED <<queueVars, slotVars, callVars, handlerVars>>

LocalStep ==
  \/ \E c \in Call : Caller[c] = Local /\ CallStep(c)
  \/ \E c \in Call : Caller[c] = Remote /\ HandlerStep(c)
  \/ SideStep(Local)

OpenNext == RemoteWrite \/ RemoteRead \/ RemoteClose \/ LocalStep

OpenSpec == Init /\ [][OpenNext]_vars

\* The SDK's goroutines run; the remote owes nothing.  A handler whose
\* context has ended returns.
OpenFairness ==
  /\ \A c \in Call : Caller[c] = Local => WF_vars(Goroutine(c))
  /\ \A c \in Call : Caller[c] = Remote =>
       /\ WF_vars(HandlerReply(c) \/ HandlerFinish(c))
       /\ WF_vars(HandlerExpire(c))
       /\ WF_vars(cancelled[c] /\ HandlerReturn(c))
  /\ WF_vars(Sweep(Local)) /\ WF_vars(SlotRelease(Local)) /\ WF_vars(Write(Local))
  /\ WF_vars(Read(Local)) /\ WF_vars(Dispatch(Local))

OpenFairSpec == OpenSpec /\ OpenFairness

----------------------------------------------------------------------------

\* A reader that has refused a frame is gone: no request behind that frame
\* starts a handler, whatever else the remote has written, although handlers
\* started before, the writer and the remote go on.
NothingAfterRefusal ==
  [][why[Local] \notin {"none", "lost"} =>
       \A c \in Call : serving[c] = "none" => serving'[c] = "none"]_vars

\* No remote keeps a handler goroutine, by leaving its reply unread, by
\* repeating its request or by going away.
OpenHandlersEnd ==
  \A c \in {r \in Call : Caller[r] = Remote} :
    serving[c] # "none" ~> serving[c] = "none"

\* No remote keeps a Call whose context has ended, by leaving it unread or
\* unanswered.
OpenCallsEnd ==
  \A c \in {q \in Call : Caller[q] = Local} :
    pc[c] # "idle" /\ ctxDone[c] ~> pc[c] = "returned"
=============================================================================
