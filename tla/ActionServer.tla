--------------------------- MODULE ActionServer ---------------------------
(***************************************************************************)
(* Server.Serve of pluginapi/server.go: one loop that reads requests, and  *)
(* a goroutine per execute, bounded by a semaphore whose capacity the      *)
(* handshake sets.  Responses are written by all of them under a mutex, a  *)
(* frame in two writes (header, payload).  The host is whatever may be     *)
(* read: any request at any time, a frame that is refused, or the end of   *)
(* the input.                                                              *)
(***************************************************************************)
EXTENDS Integers, Sequences, FiniteSets

CONSTANTS
  Id,       \* request IDs
  MaxConc,  \* 64: the largest MaxConcurrency a handshake may settle on
  Main,     \* the read loop as a writer of responses
  None      \* nobody

ASSUME ServerAssumption ==
  /\ IsFiniteSet(Id) /\ Main \notin Id /\ None \notin Id /\ Main # None
  /\ MaxConc \in Nat \ {0}

Method == {"handshake", "health", "execute", "cancel", "shutdown"}
Request == [id : Id, method : Method, target : Id]
Part == [id : Id, method : Method, part : {"header", "payload"}]

VARIABLES
  loop,       \* where the read loop is
  cur,        \* the request it is serving, a sequence of at most one
  next,       \* what it does after the response it writes: read or leave
  handshaken, conc, seen,  \* variables of Serve; conc is cap(s.sem)
  sem,        \* tokens in s.sem
  active,     \* the keys of s.active
  worker,     \* where the goroutine of each execute is
  cancelled,  \* requests whose context has ended
  writer,     \* who holds writeMu
  out,        \* what has been written
  broken,     \* s.Out fails
  ctxDone     \* the context Serve was called with has ended

loopVars == <<loop, cur, next>>
stateVars == <<handshaken, conc, seen>>
workVars == <<sem, active, worker, cancelled>>
outVars == <<writer, out, broken>>
vars == <<loopVars, stateVars, workVars, outVars, ctxDone>>

TypeOK ==
  /\ loop \in {"reading", "handshaking", "checking", "acquiring", "draining",
               "stopping", "replying", "writing", "leaving", "waiting", "returned"}
  /\ cur \in Seq(Request) /\ Len(cur) <= 1
  /\ next \in {"read", "leave"}
  /\ handshaken \in BOOLEAN
  /\ conc \in 1 .. MaxConc
  /\ seen \subseteq Id
  /\ sem \in 0 .. MaxConc
  /\ active \subseteq Id
  /\ worker \in [Id -> {"none", "executing", "responding", "writing", "responded",
                        "removed", "released", "done"}]
  /\ cancelled \subseteq Id
  /\ writer \in Id \cup {Main, None}
  /\ out \in Seq(Part)
  /\ broken \in BOOLEAN
  /\ ctxDone \in BOOLEAN

Init ==
  /\ loop = "reading" /\ cur = <<>> /\ next = "read"
  /\ handshaken = FALSE /\ conc = 1 /\ seen = {}
  /\ sem = 0 /\ active = {} /\ worker = [i \in Id |-> "none"] /\ cancelled = {}
  /\ writer = None /\ out = <<>> /\ broken = FALSE /\ ctxDone = FALSE

Idle == \A i \in Id : worker[i] \in {"none", "done"}
Request0 == Head(cur)

----------------------------------------------------------------------------
(* Seeded faults: the definitions below as a plausible bug would have them. *)
(* They are part of no specification; each property is tried on one.        *)

\* Seeded fault: any MaxConcurrency is accepted.
FaultCompatible(c) == TRUE

\* Seeded fault: the response to a cancel goes to the request it cancels.
FaultReplyId(r) == IF r.method = "cancel" THEN r.target ELSE r.id

\* Seeded fault: a response is written without the mutex.
FaultMutexFree == TRUE

\* Seeded fault: what runs is not waited for.
FaultWaited == TRUE

\* Seeded fault: only the requests that wait for their write are cancelled.
FaultToCancel == {i \in active : worker[i] # "executing"}

\* Seeded fault: a write that fails leaves the mutex locked.
FaultWriteTorn(w) == writer = w /\ broken /\ UNCHANGED <<writer, out, broken>>

----------------------------------------------------------------------------
(* The read loop.                                                          *)

Go(where) == loop' = where

Leave == Go("leaving") /\ next' = "leave" /\ UNCHANGED cur

\* The end of the input, a frame ReadFrame or the envelope check refuses, an
\* unknown method, parameters that do not decode.
ReadFails ==
  /\ loop = "reading"
  /\ Leave
  /\ UNCHANGED <<stateVars, workVars, outVars, ctxDone>>

\* A reused ID, a request before the handshake, a second handshake.
Refused(r) ==
  \/ r.id \in seen
  \/ r.method # "handshake" /\ ~handshaken
  \/ r.method = "handshake" /\ handshaken

ReadRefused ==
  /\ loop = "reading"
  /\ \E r \in Request : Refused(r) /\ seen' = seen \cup {r.id}
  /\ Leave
  /\ UNCHANGED <<handshaken, conc, workVars, outVars, ctxDone>>

Accept(m, where) ==
  /\ loop = "reading"
  /\ \E r \in Request :
       /\ r.method = m /\ ~Refused(r)
       /\ cur' = <<r>>
       /\ seen' = seen \cup {r.id}
  /\ Go(where)
  /\ UNCHANGED <<next, handshaken, conc, outVars, ctxDone>>

ReadHandshake == Accept("handshake", "handshaking") /\ UNCHANGED workVars
ReadHealth == Accept("health", "checking") /\ UNCHANGED workVars
ReadExecute == Accept("execute", "acquiring") /\ UNCHANGED workVars

\* s.cancel: what is active is cancelled and the answer says so.
ReadCancel ==
  /\ Accept("cancel", "replying")
  /\ cancelled' = cancelled \cup ({cur'[1].target} \cap active)
  /\ UNCHANGED <<sem, active, worker>>

\* s.cancelAll
ToCancel == active

ReadShutdown ==
  /\ Accept("shutdown", "draining")
  /\ cancelled' = cancelled \cup ToCancel
  /\ UNCHANGED <<sem, active, worker>>

Compatible(c) == c \in 1 .. MaxConc

\* Handler.Handshake returns: with a result, with one that is incompatible,
\* or with an error, which is answered and then returned.
HandshakeEnds ==
  /\ loop = "handshaking"
  /\ \/ /\ \E c \in 0 .. MaxConc + 1 : Compatible(c) /\ conc' = c
        /\ sem' = 0
        /\ Go("replying") /\ UNCHANGED <<next, cur>>
     \/ Leave /\ UNCHANGED <<conc, sem>>
     \/ Go("replying") /\ next' = "leave" /\ UNCHANGED <<cur, conc, sem>>
  /\ UNCHANGED <<handshaken, seen, active, worker, cancelled, outVars, ctxDone>>

HealthEnds ==
  /\ loop = "checking"
  /\ Go("replying")
  /\ UNCHANGED <<next, cur, stateVars, workVars, outVars, ctxDone>>

SemFree == sem < conc

\* The context of the request derives from that of Serve.
StartExecute ==
  /\ loop = "acquiring" /\ SemFree
  /\ sem' = sem + 1
  /\ active' = active \cup {Request0.id}
  /\ worker' = [worker EXCEPT ![Request0.id] = "executing"]
  /\ cancelled' = IF ctxDone THEN cancelled \cup {Request0.id} ELSE cancelled
  /\ Go("reading") /\ cur' = <<>>
  /\ UNCHANGED <<next, stateVars, outVars, ctxDone>>

AbandonExecute ==
  /\ loop = "acquiring" /\ ctxDone
  /\ Leave
  /\ UNCHANGED <<stateVars, workVars, outVars, ctxDone>>

\* workers.Wait
Waited == Idle

Drained ==
  /\ loop = "draining" /\ Waited
  /\ Go("stopping")
  /\ UNCHANGED <<cur, next, stateVars, workVars, outVars, ctxDone>>

\* Handler.Shutdown returns; the response tells how.
ShutdownEnds ==
  /\ loop = "stopping"
  /\ Go("replying") /\ next' = "leave"
  /\ UNCHANGED <<cur, stateVars, workVars, outVars, ctxDone>>

\* The deferred function.
LoopLeaves ==
  \/ /\ loop = "leaving"
     /\ cancelled' = cancelled \cup ToCancel
     /\ Go("waiting")
     /\ UNCHANGED <<cur, next, stateVars, sem, active, worker, outVars, ctxDone>>
  \/ /\ loop = "waiting" /\ Waited
     /\ Go("returned")
     /\ UNCHANGED <<cur, next, stateVars, workVars, outVars, ctxDone>>

----------------------------------------------------------------------------
(* respond and WriteFrame.                                                 *)

ReplyId(r) == r.id

MutexFree == writer = None

WriteHeader(w, r) ==
  /\ MutexFree /\ ~broken
  /\ writer' = w
  /\ out' = Append(out, [id |-> ReplyId(r), method |-> r.method, part |-> "header"])
  /\ UNCHANGED broken

WritePayload(w, r) ==
  /\ writer = w /\ ~broken
  /\ writer' = None
  /\ out' = Append(out, [id |-> ReplyId(r), method |-> r.method, part |-> "payload"])
  /\ UNCHANGED broken

\* A result that does not encode or exceeds the frame limit, or a broken pipe
\* at the header: nothing is written.  A pipe broken at the payload.
WriteNothing(w) == MutexFree /\ UNCHANGED outVars
WriteTorn(w) == writer = w /\ broken /\ writer' = None /\ UNCHANGED <<out, broken>>

BreakPipe ==
  /\ ~broken /\ broken' = TRUE
  /\ UNCHANGED <<loopVars, stateVars, workVars, writer, out, ctxDone>>

LoopReplies ==
  \/ /\ loop = "replying" /\ WriteHeader(Main, Request0)
     /\ Go("writing") /\ UNCHANGED <<cur, next, stateVars, workVars, ctxDone>>
  \/ /\ loop = "writing" /\ WritePayload(Main, Request0)
     /\ Go(IF next = "read" THEN "reading" ELSE "leaving")
     /\ cur' = <<>>
     /\ handshaken' = (handshaken \/ next = "read")
     /\ UNCHANGED <<next, conc, seen, workVars, ctxDone>>
  \/ /\ \/ loop = "replying" /\ WriteNothing(Main)
        \/ loop = "writing" /\ WriteTorn(Main)
     /\ Leave /\ UNCHANGED <<stateVars, workVars, ctxDone>>

----------------------------------------------------------------------------
(* The goroutine of an execute.                                            *)

At(i, from, to) ==
  /\ worker[i] = from
  /\ worker' = [worker EXCEPT ![i] = to]
  /\ UNCHANGED <<loopVars, stateVars, ctxDone>>

Execute(i) == [id |-> i, method |-> "execute", target |-> i]

ExecuteReturns(i) ==
  /\ At(i, "executing", "responding")
  /\ UNCHANGED <<sem, active, cancelled, outVars>>

\* The error of respond is dropped.
ExecuteReplies(i) ==
  /\ \/ At(i, "responding", "writing") /\ WriteHeader(i, Execute(i))
     \/ At(i, "writing", "responded") /\ WritePayload(i, Execute(i))
     \/ At(i, "responding", "responded") /\ WriteNothing(i)
     \/ At(i, "writing", "responded") /\ WriteTorn(i)
  /\ UNCHANGED <<sem, active, cancelled>>

RemoveActive(i) ==
  /\ At(i, "responded", "removed")
  /\ active' = active \ {i}
  /\ cancelled' = cancelled \cup {i}
  /\ UNCHANGED <<sem, outVars>>

ReleaseSem(i) ==
  /\ At(i, "removed", "released")
  /\ sem' = sem - 1
  /\ UNCHANGED <<active, cancelled, outVars>>

WorkerDone(i) ==
  /\ At(i, "released", "done")
  /\ UNCHANGED <<sem, active, cancelled, outVars>>

\* The deadline of the request.
Expire(i) ==
  /\ i \in active \ cancelled
  /\ cancelled' = cancelled \cup {i}
  /\ UNCHANGED <<loopVars, stateVars, sem, active, worker, outVars, ctxDone>>

\* The context of Serve ends, and with it those of the requests.
EndContext ==
  /\ ~ctxDone /\ ctxDone' = TRUE
  /\ cancelled' = cancelled \cup active
  /\ UNCHANGED <<loopVars, stateVars, sem, active, worker, outVars>>

----------------------------------------------------------------------------

Reads == ReadFails \/ ReadRefused \/ ReadHandshake \/ ReadHealth \/ ReadExecute
           \/ ReadCancel \/ ReadShutdown

HandlerEnds == HandshakeEnds \/ HealthEnds \/ ShutdownEnds

LoopRuns == StartExecute \/ AbandonExecute \/ Drained \/ LoopLeaves \/ LoopReplies

WorkerRuns(i) == ExecuteReplies(i) \/ RemoveActive(i) \/ ReleaseSem(i) \/ WorkerDone(i)

Next ==
  \/ Reads \/ HandlerEnds \/ LoopRuns \/ BreakPipe \/ EndContext
  \/ \E i \in Id : ExecuteReturns(i) \/ WorkerRuns(i) \/ Expire(i)

Spec == Init /\ [][Next]_vars

\* The loop and the goroutines run, which supposes that the host reads what
\* is written; handlers return, an execute at the latest when its context has
\* ended.  Nothing makes the host write, nor the input or a context end.
Fairness ==
  /\ WF_vars(LoopRuns) /\ WF_vars(HandlerEnds)
  /\ \A i \in Id : /\ WF_vars(WorkerRuns(i))
                   /\ WF_vars(i \in cancelled /\ ExecuteReturns(i))

FairSpec == Spec /\ Fairness

----------------------------------------------------------------------------
(* Properties.                                                             *)

Headers == {k \in 1 .. Len(out) : out[k].part = "header"}

\* A request is answered at most once, under its own ID, whoever answers:
\* its goroutine, the loop, a cancel for it or the shutdown.
OneResponse ==
  \A j, k \in Headers : out[j].id = out[k].id => j = k

\* Frames are never interleaved: after the header of a response comes its
\* payload, unless the pipe broke between them.
WholeFrames ==
  \A k \in Headers :
    k < Len(out) => out[k + 1] = [out[k] EXCEPT !.part = "payload"]

\* Handler.Shutdown, and whoever called Serve, find nothing at work: no
\* execution, no write.
QuietWhenStopping ==
  loop \in {"stopping", "returned"} => Idle /\ writer = None

\* Serve returns once it has decided to: after a shutdown, the end of the
\* input or a violation of the protocol, also with executions in progress.
LeavingReturns == loop \in {"draining", "leaving"} ~> loop = "returned"

\* An execution whose context has ended gives up its place, also when its
\* response cannot be written; and an execute that waits for one, while no
\* cancel can be read, gets it when all those in progress have so ended.
CancelledIsReleased ==
  /\ \A i \in Id : worker[i] = "executing" /\ i \in cancelled ~> worker[i] = "done"
  /\ loop = "acquiring" /\ active \subseteq cancelled ~> loop # "acquiring"

\* pluginapi/server.go:33 (in Chinese): Serve runs until shutdown, EOF, a
\* protocol violation or the end of the context.
ContextEndsServe == ctxDone ~> loop = "returned"
=============================================================================
