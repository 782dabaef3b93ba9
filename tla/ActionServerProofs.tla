------------------------ MODULE ActionServerProofs ------------------------
(***************************************************************************)
(* Proofs about module ActionServer, for any number of requests and any    *)
(* limit on the executions at once.                                        *)
(***************************************************************************)
EXTENDS ActionServer, FiniteSetTheorems, SequenceTheorems, TLAPS

\* The stages in which the loop owes the answer to the request it serves.
Owing == {"handshaking", "checking", "acquiring", "draining", "stopping", "replying"}

\* The loop serves a request of its own, seen before: no goroutine has its ID.
LoopInv ==
  loop \in Owing \cup {"writing"} =>
    /\ cur # <<>>
    /\ Request0.id \in seen
    /\ worker[Request0.id] = "none"

\* Goroutines start after the handshake, each for a request that was seen.
StartedInv ==
  /\ ~handshaken => \A i \in Id : worker[i] = "none"
  /\ loop = "handshaking" => ~handshaken
  /\ loop = "acquiring" => handshaken
  /\ \A i \in Id : worker[i] # "none" => i \in seen

\* The mutex is held exactly between the two writes of a response.
MutexInv ==
  /\ writer = Main <=> loop = "writing"
  /\ \A i \in Id : writer = i <=> worker[i] = "writing"

\* The header of a response of the loop or of a goroutine.
HeaderOf(w) ==
  IF w = Main
  THEN [id |-> Request0.id, method |-> Request0.method, part |-> "header"]
  ELSE [id |-> w, method |-> "execute", part |-> "header"]

\* The last header is without payload while its writer holds the mutex, and
\* for ever once the pipe broke in between.
FrameInv ==
  /\ writer # None => out # <<>> /\ out[Len(out)] = HeaderOf(writer)
  /\ writer = None /\ ~broken /\ out # <<>> => out[Len(out)].part = "payload"

\* Whoever still owes a response has written no header.
AnswerInv ==
  \A k \in Headers :
    /\ out[k].id \in seen
    /\ loop \in Owing => out[k].id # Request0.id
    /\ worker[out[k].id] \notin {"executing", "responding"}

\* The goroutines that hold a token of the semaphore.
Holders == {i \in Id : worker[i] \in {"executing", "responding", "writing",
                                      "responded", "removed"}}

SemInv == sem = Cardinality(Holders) /\ sem <= conc

IInv ==
  /\ TypeOK /\ LoopInv /\ StartedInv /\ MutexInv /\ SemInv
  /\ FrameInv /\ AnswerInv
  /\ OneResponse /\ WholeFrames /\ QuietWhenStopping

USE ServerAssumption DEF Owing, loopVars, stateVars, workVars, outVars, vars

ControlInv ==
  TypeOK /\ LoopInv /\ StartedInv /\ MutexInv /\ SemInv /\ QuietWhenStopping

\* The server starts in the invariant.
LEMMA InitIInv == Init => IInv
<1> SUFFICES ASSUME Init PROVE IInv
  OBVIOUS
<1>1. Holders = {}
  BY DEF Init, Holders
<1>2. SemInv
  BY <1>1, FS_EmptySet DEF Init, SemInv
<1>3. TypeOK
  <2>1. <<>> \in Seq(Request) /\ <<>> \in Seq(Part) /\ Len(<<>>) <= 1
    BY EmptySeq
  <2>2. 1 \in 1 .. MaxConc /\ 0 \in 0 .. MaxConc
    OBVIOUS
  <2>3. Init
    OBVIOUS
  <2> QED
    BY ONLY <2>1, <2>2, <2>3 DEF Init, TypeOK
<1>4. Headers = {}
  BY DEF Init, Headers
<1>5. LoopInv /\ StartedInv /\ MutexInv /\ FrameInv /\ QuietWhenStopping
  BY DEF Init, LoopInv, StartedInv, MutexInv, FrameInv, QuietWhenStopping
<1> QED
  BY <1>2, <1>3, <1>4, <1>5 DEF IInv, AnswerInv, OneResponse, WholeFrames

\* As long as the goroutines keep their tokens the count of them is right.
LEMMA SameHolders ==
  ASSUME SemInv, Holders' = Holders, sem' = sem, conc' = conc
  PROVE  SemInv'
BY DEF SemInv

\* The holders are finitely many.
LEMMA HoldersFinite == IsFiniteSet(Holders) /\ Cardinality(Holders) \in Nat
BY FS_Subset, FS_CardinalityType DEF Holders

\* A request read and accepted is new.
LEMMA AcceptControl ==
  ASSUME ControlInv, NEW m \in Method, NEW where \in Owing,
         where = "handshaking" <=> m = "handshake",
         where = "acquiring" => m = "execute",
         where # "stopping",
         Accept(m, where), cancelled' \subseteq Id,
         sem' = sem, active' = active, worker' = worker
  PROVE  ControlInv'
<1> USE DEF ControlInv, Accept, Go
<1> PICK r \in Request : r.method = m /\ ~Refused(r) /\ cur' = <<r>> /\ seen' = seen \cup {r.id}
  OBVIOUS
<1>1. TypeOK'
  BY DEF TypeOK, Request
<1>2. LoopInv'
  BY DEF LoopInv, StartedInv, Refused, Request0, Request, TypeOK
<1>3. StartedInv'
  BY DEF StartedInv, Refused, Request, TypeOK
<1>4. MutexInv'
  BY DEF MutexInv
<1>5. SemInv'
  BY SameHolders DEF Holders
<1>6. QuietWhenStopping'
  BY DEF QuietWhenStopping
<1> QED
  BY <1>1, <1>2, <1>3, <1>4, <1>5, <1>6

\* What the loop does with a request that it read, or that it cannot read.
LEMMA ReadsControl ==
  ASSUME ControlInv, Reads
  PROVE  ControlInv'
<1>1. CASE ReadFails \/ ReadRefused
  <2> USE <1>1 DEF ControlInv, ReadFails, ReadRefused, Leave, Go
  <2>1. TypeOK'
    BY DEF TypeOK, Request
  <2>2. LoopInv' /\ StartedInv' /\ MutexInv' /\ QuietWhenStopping'
    BY DEF LoopInv, StartedInv, MutexInv, QuietWhenStopping
  <2>3. SemInv'
    BY SameHolders DEF Holders
  <2> QED
    BY <2>1, <2>2, <2>3
<1>2. CASE ReadHandshake
  BY <1>2, AcceptControl DEF ReadHandshake, ControlInv, TypeOK, Method
<1>3. CASE ReadHealth
  BY <1>3, AcceptControl DEF ReadHealth, ControlInv, TypeOK, Method
<1>4. CASE ReadExecute
  BY <1>4, AcceptControl DEF ReadExecute, ControlInv, TypeOK, Method
<1>5. CASE ReadCancel
  <2>1. cancelled' \subseteq Id
    BY <1>5 DEF ReadCancel, ControlInv, TypeOK
  <2> QED
    BY <1>5, <2>1, AcceptControl DEF ReadCancel, Method
<1>6. CASE ReadShutdown
  <2>1. cancelled' \subseteq Id
    BY <1>6 DEF ReadShutdown, ControlInv, TypeOK, ToCancel
  <2> QED
    BY <1>6, <2>1, AcceptControl DEF ReadShutdown, Method
<1> QED
  BY <1>1, <1>2, <1>3, <1>4, <1>5, <1>6 DEF Reads

\* The handshake settles the capacity while no goroutine holds a token.
LEMMA HandlerEndsControl ==
  ASSUME ControlInv, HandlerEnds
  PROVE  ControlInv'
<1> USE DEF ControlInv, Go, Leave
<1>1. CASE HandshakeEnds
  <2> USE <1>1 DEF HandshakeEnds, Compatible
  <2>1. TypeOK'
    BY DEF TypeOK
  <2>2. LoopInv' /\ StartedInv' /\ MutexInv' /\ QuietWhenStopping'
    BY DEF LoopInv, StartedInv, MutexInv, QuietWhenStopping, Request0
  <2>3. Holders = {} /\ Holders' = {}
    BY DEF StartedInv, Holders
  <2>4. SemInv'
    BY <2>3, FS_EmptySet DEF SemInv, TypeOK
  <2> QED
    BY <2>1, <2>2, <2>4
<1>2. CASE HealthEnds \/ ShutdownEnds
  <2> USE <1>2 DEF HealthEnds, ShutdownEnds
  <2>1. TypeOK'
    BY DEF TypeOK
  <2>2. LoopInv' /\ StartedInv' /\ MutexInv' /\ QuietWhenStopping'
    BY DEF LoopInv, StartedInv, MutexInv, QuietWhenStopping, Request0
  <2>3. SemInv'
    BY SameHolders DEF Holders
  <2> QED
    BY <2>1, <2>2, <2>3
<1> QED
  BY <1>1, <1>2 DEF HandlerEnds

\* The goroutine of an execute is started with a token of its own.
LEMMA StartControl ==
  ASSUME ControlInv, StartExecute
  PROVE  ControlInv'
<1> USE DEF ControlInv, StartExecute, Go
<1>1. Request0.id \in Id /\ worker[Request0.id] = "none" /\ Request0.id \in seen
  BY DEF TypeOK, LoopInv, Request0, Request
<1>2. TypeOK'
  BY <1>1 DEF TypeOK, SemFree
<1>3. LoopInv' /\ StartedInv' /\ MutexInv' /\ QuietWhenStopping'
  BY <1>1 DEF TypeOK, LoopInv, StartedInv, MutexInv, QuietWhenStopping
<1>4. Holders' = Holders \cup {Request0.id} /\ Request0.id \notin Holders
  BY <1>1 DEF Holders, TypeOK
<1>5. Cardinality(Holders') = Cardinality(Holders) + 1
  BY <1>4, HoldersFinite, FS_AddElement
<1>6. SemInv'
  BY <1>5, HoldersFinite DEF SemInv, SemFree, TypeOK
<1> QED
  BY <1>2, <1>3, <1>6

\* The other steps of the loop leave the goroutines alone.
LEMMA LoopControl ==
  ASSUME ControlInv, AbandonExecute \/ Drained \/ LoopLeaves \/ LoopReplies
  PROVE  ControlInv'
<1> USE DEF ControlInv, AbandonExecute, Drained, LoopLeaves, LoopReplies, Go, Leave,
        WriteHeader, WritePayload, WriteNothing, WriteTorn, MutexFree, Waited, ToCancel
<1>1. worker' = worker /\ sem' = sem /\ conc' = conc /\ active' = active /\ seen' = seen
  OBVIOUS
<1>2. out' \in Seq(Part)
  <2> DEFINE p(x) == [id |-> Request0.id, method |-> Request0.method, part |-> x]
  <2>1. \/ out' = out
        \/ cur # <<>> /\ \E x \in {"header", "payload"} : out' = Append(out, p(x))
    BY DEF LoopInv, ReplyId
  <2>2. cur # <<>> => Request0 \in Request
    BY DEF TypeOK, Request0
  <2>3. cur # <<>> => \A x \in {"header", "payload"} : p(x) \in Part
    BY <2>2 DEF Request, Part
  <2> HIDE DEF p
  <2>4. \A e \in Part : Append(out, e) \in Seq(Part)
    BY AppendProperties DEF TypeOK
  <2>5. out \in Seq(Part)
    BY DEF TypeOK
  <2> QED
    BY ONLY <2>1, <2>3, <2>4, <2>5
<1>3. TypeOK'
  <2>1. /\ loop' \in {"reading", "leaving", "waiting", "returned", "stopping", "writing"}
        /\ (cur' = cur \/ cur' = <<>>) /\ next' \in {"read", "leave"}
        /\ handshaken' \in BOOLEAN /\ cancelled' \subseteq Id
        /\ writer' \in {writer, Main, None} /\ UNCHANGED <<broken, ctxDone>>
    BY DEF TypeOK
  <2>2. cur' \in Seq(Request) /\ Len(cur') <= 1
    <3>1. <<>> \in Seq(Request) /\ Len(<<>>) <= 1
      BY EmptySeq
    <3>2. cur \in Seq(Request) /\ Len(cur) <= 1
      BY DEF TypeOK
    <3> QED
      BY ONLY <2>1, <3>1, <3>2
  <2>3. TypeOK /\ UNCHANGED <<worker, sem, conc, active, seen>>
    BY <1>1
  <2> QED
    BY ONLY ServerAssumption, <1>2, <2>1, <2>2, <2>3 DEF TypeOK
<1>4. LoopInv' /\ StartedInv'
  BY <1>1 DEF LoopInv, StartedInv, Request0
<1>5. MutexInv'
  BY <1>1 DEF TypeOK, MutexInv
<1>6. QuietWhenStopping'
  BY <1>1 DEF TypeOK, MutexInv, QuietWhenStopping, Idle
<1>7. SemInv'
  BY <1>1, SameHolders DEF Holders
<1> QED
  BY <1>3, <1>4, <1>5, <1>6, <1>7

\* A goroutine writes its response, withdraws its request and gives back its
\* token, in this order.
LEMMA WorkerControl ==
  ASSUME ControlInv, NEW i \in Id, ExecuteReturns(i) \/ WorkerRuns(i)
  PROVE  ControlInv'
<1> USE DEF ControlInv, At
<1>1. worker[i] # "none" /\ ~Idle
  BY DEF ExecuteReturns, WorkerRuns, ExecuteReplies, RemoveActive, ReleaseSem, WorkerDone, Idle
<1>2. UNCHANGED <<loopVars, stateVars, ctxDone>>
  BY DEF ExecuteReturns, WorkerRuns, ExecuteReplies, RemoveActive, ReleaseSem, WorkerDone
<1>3. /\ LoopInv' /\ StartedInv' /\ QuietWhenStopping'
      /\ worker' \in [Id -> {"none", "executing", "responding", "writing", "responded",
                             "removed", "released", "done"}]
  BY <1>1, <1>2 DEF LoopInv, StartedInv, QuietWhenStopping, Request0, TypeOK,
     ExecuteReturns, WorkerRuns, ExecuteReplies, RemoveActive, ReleaseSem, WorkerDone
<1>4. CASE ExecuteReplies(i)
  <2> USE <1>4 DEF ExecuteReplies, WriteHeader, WritePayload, WriteNothing, WriteTorn, MutexFree
  <2>1. out' \in Seq(Part)
    <3> DEFINE p(x) == [id |-> i, method |-> "execute", part |-> x]
    <3>1. out' = out \/ \E x \in {"header", "payload"} : out' = Append(out, p(x))
      BY DEF Execute, ReplyId
    <3>2. \A x \in {"header", "payload"} : p(x) \in Part
      BY DEF Part, Method
    <3> HIDE DEF p
    <3>3. \A e \in Part : Append(out, e) \in Seq(Part)
      BY AppendProperties DEF TypeOK
    <3>4. out \in Seq(Part)
      BY DEF TypeOK
    <3> QED
      BY ONLY <3>1, <3>2, <3>3, <3>4
  <2>2. TypeOK'
    BY <1>2, <1>3, <2>1 DEF TypeOK
  <2>3. MutexInv'
    BY <1>2 DEF TypeOK, MutexInv
  <2>4. SemInv'
    BY <1>2, SameHolders DEF Holders, TypeOK
  <2> QED
    BY <1>3, <2>2, <2>3, <2>4
<1>5. CASE ExecuteReturns(i) \/ RemoveActive(i) \/ WorkerDone(i)
  <2> USE <1>5 DEF ExecuteReturns, RemoveActive, WorkerDone
  <2>1. TypeOK'
    BY <1>2, <1>3 DEF TypeOK
  <2>2. MutexInv'
    BY <1>2 DEF TypeOK, MutexInv
  <2>3. SemInv'
    BY <1>2, SameHolders DEF Holders, TypeOK
  <2> QED
    BY <1>3, <2>1, <2>2, <2>3
<1>6. CASE ReleaseSem(i)
  <2> USE <1>6 DEF ReleaseSem
  <2>1. Holders' = Holders \ {i} /\ i \in Holders
    BY DEF Holders, TypeOK
  <2>2. Cardinality(Holders') = sem - 1 /\ sem - 1 \in Nat
    <3>1. Cardinality(Holders') = Cardinality(Holders) - 1
      BY <2>1, HoldersFinite, FS_RemoveElement
    <3>2. Cardinality(Holders') \in Nat
      BY <2>1, HoldersFinite, FS_RemoveElement, FS_CardinalityType
    <3> QED
      BY <3>1, <3>2 DEF SemInv
  <2>3. SemInv'
    BY <1>2, <2>2 DEF SemInv, TypeOK
  <2>4. TypeOK'
    BY <1>2, <1>3, <2>2 DEF TypeOK
  <2>5. MutexInv'
    BY <1>2 DEF TypeOK, MutexInv
  <2> QED
    BY <1>3, <2>3, <2>4, <2>5
<1> QED
  BY <1>4, <1>5, <1>6 DEF WorkerRuns

\* A pipe that breaks and a context that ends change none of this.
LEMMA StepControl ==
  ASSUME ControlInv, [Next]_vars
  PROVE  ControlInv'
<1>1. ASSUME UNCHANGED vars \/ BreakPipe \/ EndContext \/ \E i \in Id : Expire(i)
      PROVE  ControlInv'
  <2> USE <1>1 DEF ControlInv, BreakPipe, EndContext, Expire
  <2>1. TypeOK'
    BY DEF TypeOK
  <2>2. LoopInv' /\ StartedInv' /\ MutexInv' /\ QuietWhenStopping'
    BY DEF LoopInv, StartedInv, MutexInv, QuietWhenStopping, Request0, Idle
  <2>3. SemInv'
    BY SameHolders DEF Holders
  <2> QED
    BY <2>1, <2>2, <2>3
<1> QED
  BY <1>1, ReadsControl, HandlerEndsControl, StartControl, LoopControl, WorkerControl
     DEF Next, LoopRuns


----------------------------------------------------------------------------
(* What is written.                                                        *)

OutputInv == FrameInv /\ AnswerInv /\ OneResponse /\ WholeFrames

\* What has been written stays, and what is written comes behind it.
LEMMA Appended ==
  ASSUME TypeOK, NEW p \in Part, out' = Append(out, p)
  PROVE  /\ out' \in Seq(Part) /\ out' # <<>>
         /\ Len(out) \in Nat /\ Len(out') = Len(out) + 1
         /\ \A k \in 1 .. Len(out) : out'[k] = out[k]
         /\ out'[Len(out')] = p
         /\ Headers' = IF p.part = "header" THEN Headers \cup {Len(out')} ELSE Headers
<1>1. out \in Seq(Part)
  BY DEF TypeOK
<1>2. /\ out' \in Seq(Part) /\ out' # <<>>
      /\ Len(out) \in Nat /\ Len(out') = Len(out) + 1
      /\ \A k \in 1 .. Len(out) : out'[k] = out[k]
      /\ out'[Len(out')] = p
  BY <1>1, AppendProperties, LenProperties
<1>3. Headers' = IF p.part = "header" THEN Headers \cup {Len(out')} ELSE Headers
  BY ONLY <1>2 DEF Headers
<1> QED
  BY <1>2, <1>3

\* What has been written is of requests.
LEMMA HeaderIds ==
  ASSUME TypeOK
  PROVE  \A k \in Headers : out[k].id \in Id
<1>1. out \in Seq(Part)
  BY DEF TypeOK
<1>2. \A k \in 1 .. Len(out) : out[k] \in Part
  BY <1>1, ElementOfSeq
<1> QED
  BY ONLY <1>2 DEF Headers, Part

\* The headers and payloads that the loop writes.
LEMMA ServedRequest ==
  ASSUME TypeOK, cur # <<>>
  PROVE  \A x \in {"header", "payload"} :
           [id |-> Request0.id, method |-> Request0.method, part |-> x] \in Part
<1>1. Request0 \in Request
  BY DEF TypeOK, Request0
<1> QED
  BY <1>1 DEF Request, Part

\* A header is written where no frame is open, by who has written none.
LEMMA HeaderAppended ==
  ASSUME TypeOK, OutputInv, NEW h \in Part, h.part = "header",
         out' = Append(out, h), writer = None, ~broken,
         \A k \in Headers : out[k].id # h.id
  PROVE  OneResponse' /\ WholeFrames'
<1> USE Appended
<1>1. Headers' = Headers \cup {Len(out')} /\ out'[Len(out')] = h
  OBVIOUS
<1>2. Headers \subseteq 1 .. Len(out) /\ \A k \in Headers : out[k].part = "header"
  BY DEF Headers
<1>3. OneResponse'
  BY <1>1, <1>2 DEF OutputInv, OneResponse
<1>4. Len(out) \notin Headers
  BY <1>2 DEF OutputInv, FrameInv
<1>5. ASSUME NEW k \in Headers', k < Len(out')
      PROVE  k \in Headers /\ k < Len(out) /\ out'[k] = out[k] /\ out'[k + 1] = out[k + 1]
  BY <1>1, <1>2, <1>4, <1>5
<1>6. WholeFrames'
  BY <1>5 DEF OutputInv, WholeFrames
<1> QED
  BY <1>3, <1>6

\* A payload is written behind its own header.
LEMMA PayloadAppended ==
  ASSUME TypeOK, OutputInv, NEW h \in Part, out # <<>>, out[Len(out)] = h,
         out' = Append(out, [h EXCEPT !.part = "payload"])
  PROVE  OneResponse' /\ WholeFrames'
<1> DEFINE p == [h EXCEPT !.part = "payload"]
<1>0. p \in Part /\ p.part = "payload"
  BY DEF Part
<1>1. Headers' = Headers /\ out'[Len(out')] = p /\ Len(out') = Len(out) + 1
  BY <1>0, Appended
<1>2. Headers \subseteq 1 .. Len(out) /\ \A k \in Headers : out'[k] = out[k]
  BY <1>0, Appended DEF Headers
<1>3. OneResponse'
  BY <1>1, <1>2 DEF OutputInv, OneResponse
<1>4. ASSUME NEW k \in Headers, k < Len(out)
      PROVE  out'[k] = out[k] /\ out'[k + 1] = out[k + 1]
  BY <1>0, <1>2, <1>4, Appended
<1>5. ASSUME NEW k \in Headers, k = Len(out)
      PROVE  out'[k] = h /\ out'[k + 1] = p
  BY <1>1, <1>2, <1>5
<1>6. \A k \in Headers : k < Len(out') => k < Len(out) \/ k = Len(out)
  BY <1>0, <1>1, <1>2, Appended
<1>7. WholeFrames'
  BY <1>1, <1>2, <1>4, <1>5, <1>6 DEF OutputInv, WholeFrames
<1> QED
  BY <1>3, <1>7

\* A step that writes nothing keeps what is written in order.
LEMMA SameOutput ==
  ASSUME OutputInv, out' = out
  PROVE  OneResponse' /\ WholeFrames' /\ Headers' = Headers
BY DEF OutputInv, OneResponse, WholeFrames, Headers

\* The request that the loop reads is new, so nothing answers it yet.
LEMMA ReadsOutput ==
  ASSUME ControlInv, OutputInv, Reads
  PROVE  OutputInv'
<1> USE DEF Reads, ReadHandshake, ReadHealth, ReadExecute, ReadCancel, ReadShutdown,
        Accept, ReadFails, ReadRefused, Leave, Go
<1>1. /\ out' = out /\ writer' = writer /\ broken' = broken /\ worker' = worker
      /\ loop = "reading" /\ seen \subseteq seen'
      /\ loop' = "leaving" \/ \E r \in Request : ~Refused(r) /\ cur' = <<r>>
  OBVIOUS
<1>2. writer # Main
  BY <1>1 DEF ControlInv, MutexInv
<1>3. FrameInv'
  BY <1>1, <1>2 DEF OutputInv, FrameInv, HeaderOf
<1>4. AnswerInv'
  BY <1>1, SameOutput DEF OutputInv, AnswerInv, Refused, Request0
<1> QED
  BY <1>1, <1>3, <1>4, SameOutput DEF OutputInv

\* Neither do the handlers of the loop write, nor the start of a goroutine,
\* nor the end of a request or of Serve.
LEMMA SilentOutput ==
  ASSUME ControlInv, OutputInv,
         \/ HandlerEnds \/ StartExecute \/ AbandonExecute \/ Drained \/ LoopLeaves
         \/ BreakPipe \/ EndContext \/ UNCHANGED vars
         \/ \E i \in Id : ExecuteReturns(i) \/ RemoveActive(i) \/ ReleaseSem(i)
                            \/ WorkerDone(i) \/ Expire(i)
  PROVE  OutputInv'
<1> USE DEF HandlerEnds, HandshakeEnds, HealthEnds, ShutdownEnds, StartExecute,
        AbandonExecute, Drained, LoopLeaves, BreakPipe, EndContext, ExecuteReturns,
        RemoveActive, ReleaseSem, WorkerDone, Expire, At, Leave, Go
<1>1. /\ out' = out /\ writer' = writer /\ (broken => broken') /\ seen' = seen
      /\ cur' = cur \/ StartExecute
      /\ loop' \in Owing => loop' = loop \/ loop \in Owing
  OBVIOUS
<1>2. \A i \in Id : worker'[i] \in {"executing", "responding"} =>
        \/ worker[i] \in {"executing", "responding"}
        \/ StartExecute /\ i = Request0.id
  BY DEF ControlInv, TypeOK
<1>3. StartExecute => loop = "acquiring" /\ loop' = "reading"
  OBVIOUS
<1>4. writer = Main => cur' = cur
  BY <1>1, <1>3 DEF ControlInv, MutexInv
<1>5. FrameInv'
  BY <1>1, <1>4 DEF OutputInv, FrameInv, HeaderOf, Request0
<1>6. \A k \in Headers : out[k].id \in Id
  BY HeaderIds DEF ControlInv
<1>7. AnswerInv'
  BY <1>1, <1>2, <1>3, <1>6, SameOutput DEF OutputInv, AnswerInv, Request0
<1> QED
  BY <1>1, <1>5, <1>7, SameOutput DEF OutputInv

\* The loop writes its response and no longer owes it.
LEMMA LoopOutput ==
  ASSUME ControlInv, OutputInv, LoopReplies
  PROVE  OutputInv'
<1> USE DEF ControlInv, LoopReplies, Go, Leave, WriteHeader, WritePayload, WriteNothing,
        WriteTorn, MutexFree
<1>1. worker' = worker /\ seen' = seen /\ broken' = broken /\ loop' \notin Owing
  OBVIOUS
<1>2. CASE WriteHeader(Main, Request0) /\ loop = "replying" /\ cur' = cur
  <2> DEFINE h == [id |-> Request0.id, method |-> Request0.method, part |-> "header"]
  <2>1. h \in Part /\ h.part = "header" /\ h.id = Request0.id
    BY <1>2, ServedRequest DEF LoopInv
  <2>2. out' = Append(out, h) /\ writer = None /\ writer' = Main /\ ~broken
    BY <1>2 DEF ReplyId
  <2>3. h = HeaderOf(Main)'
    BY <1>2 DEF HeaderOf, Request0
  <2>4. h.id \in seen /\ worker[h.id] = "none" /\ \A k \in Headers : out[k].id # h.id
    BY <1>2, <2>1 DEF LoopInv, OutputInv, AnswerInv
  <2> HIDE DEF h
  <2>5. OneResponse' /\ WholeFrames'
    BY <2>1, <2>2, <2>4, HeaderAppended
  <2>6. FrameInv'
    BY <2>1, <2>2, <2>3, Appended DEF FrameInv
  <2>7. AnswerInv'
    <3>1. /\ Headers' = Headers \cup {Len(out')} /\ out'[Len(out')] = h
          /\ \A k \in Headers : out'[k] = out[k]
      BY <2>1, <2>2, Appended DEF Headers
    <3> QED
      BY <1>1, <2>4, <3>1 DEF OutputInv, AnswerInv
  <2> QED
    BY <2>5, <2>6, <2>7 DEF OutputInv
<1>3. CASE WritePayload(Main, Request0) /\ loop = "writing"
  <2> DEFINE h == HeaderOf(Main)
             p == [h EXCEPT !.part = "payload"]
  <2>1. h \in Part /\ p \in Part /\ p.part = "payload"
    BY <1>3, ServedRequest DEF LoopInv, HeaderOf
  <2>2. out' = Append(out, p) /\ writer = Main /\ writer' = None
    BY <1>3 DEF ReplyId, HeaderOf
  <2>3. out # <<>> /\ out[Len(out)] = h
    BY <2>2 DEF OutputInv, FrameInv
  <2> HIDE DEF h
  <2>4. OneResponse' /\ WholeFrames'
    BY <2>1, <2>2, <2>3, PayloadAppended
  <2>5. FrameInv'
    BY <2>1, <2>2, Appended DEF FrameInv
  <2>6. AnswerInv'
    <3>1. Headers' = Headers /\ \A k \in Headers : out'[k] = out[k]
      BY <2>1, <2>2, Appended DEF Headers
    <3> QED
      BY <1>1, <3>1 DEF OutputInv, AnswerInv
  <2> QED
    BY <2>4, <2>5, <2>6 DEF OutputInv
<1>4. CASE out' = out /\ writer' = None /\ (writer = None \/ broken)
  <2>1. FrameInv'
    BY <1>1, <1>4 DEF OutputInv, FrameInv
  <2>2. AnswerInv'
    BY <1>1, <1>4, SameOutput DEF OutputInv, AnswerInv
  <2> QED
    BY <1>4, <2>1, <2>2, SameOutput DEF OutputInv
<1> QED
  BY <1>2, <1>3, <1>4

\* A goroutine writes its response and no longer owes it.
LEMMA WorkerOutput ==
  ASSUME ControlInv, OutputInv, NEW i \in Id, ExecuteReplies(i)
  PROVE  OutputInv'
<1> USE DEF ControlInv, ExecuteReplies, At, WriteHeader, WritePayload, WriteNothing,
        WriteTorn, MutexFree
<1>1. /\ loop' = loop /\ cur' = cur /\ seen' = seen /\ broken' = broken
      /\ worker' \in [Id -> {"none", "executing", "responding", "writing", "responded",
                             "removed", "released", "done"}]
      /\ worker'[i] \notin {"executing", "responding"}
      /\ \A k \in Id : k # i => worker'[k] = worker[k]
  BY DEF TypeOK
<1>2. i \in seen /\ (loop \in Owing => i # Request0.id)
  BY DEF LoopInv, StartedInv
<1>3. \A k \in Headers : out[k].id \in Id
  BY HeaderIds
<1> DEFINE h == HeaderOf(i)
           p == [h EXCEPT !.part = "payload"]
<1>4. h \in Part /\ h.part = "header" /\ h.id = i /\ p \in Part /\ p.part = "payload"
  BY DEF HeaderOf, Part, Method
<1>5. h' = h
  BY DEF HeaderOf
<1>6. CASE At(i, "responding", "writing") /\ WriteHeader(i, Execute(i))
  <2>2. out' = Append(out, h) /\ writer = None /\ writer' = i /\ ~broken
    BY <1>6 DEF ReplyId, Execute, HeaderOf
  <2>4. \A k \in Headers : out[k].id # h.id
    BY <1>4, <1>6 DEF OutputInv, AnswerInv
  <2> HIDE DEF h
  <2>5. OneResponse' /\ WholeFrames'
    BY <1>4, <2>2, <2>4, HeaderAppended
  <2>6. FrameInv'
    <3>1. HeaderOf(writer)' = h
      BY <1>5, <2>2 DEF h, HeaderOf
    <3> QED
      BY <1>4, <2>2, <3>1, Appended DEF FrameInv
  <2>7. AnswerInv'
    <3>1. /\ Headers' = Headers \cup {Len(out')} /\ out'[Len(out')] = h
          /\ \A k \in Headers : out'[k] = out[k]
      BY <1>4, <2>2, Appended DEF Headers
    <3> QED
      BY <1>1, <1>2, <1>3, <1>4, <3>1 DEF OutputInv, AnswerInv, Request0
  <2> QED
    BY <2>5, <2>6, <2>7 DEF OutputInv
<1>7. CASE WritePayload(i, Execute(i))
  <2>2. out' = Append(out, p) /\ writer = i /\ writer' = None
    BY <1>7 DEF ReplyId, Execute, HeaderOf
  <2>3. out # <<>> /\ out[Len(out)] = h
    BY <2>2 DEF OutputInv, FrameInv
  <2> HIDE DEF h
  <2>4. OneResponse' /\ WholeFrames'
    BY <1>4, <2>2, <2>3, PayloadAppended
  <2>5. FrameInv'
    BY <1>4, <2>2, Appended DEF FrameInv
  <2>6. AnswerInv'
    <3>1. Headers' = Headers /\ \A k \in Headers : out'[k] = out[k]
      BY <1>4, <2>2, Appended DEF Headers
    <3> QED
      BY <1>1, <1>3, <3>1 DEF OutputInv, AnswerInv, Request0
  <2> QED
    BY <2>4, <2>5, <2>6 DEF OutputInv
<1>8. CASE out' = out /\ writer' = None /\ (writer = None \/ broken)
  <2>1. FrameInv'
    BY <1>1, <1>8 DEF OutputInv, FrameInv
  <2>2. AnswerInv'
    BY <1>1, <1>3, <1>8, SameOutput DEF OutputInv, AnswerInv, Request0
  <2> QED
    BY <1>8, <2>1, <2>2, SameOutput DEF OutputInv
<1> QED
  BY <1>6, <1>7, <1>8

\* No step leaves the invariant.
LEMMA StepIInv ==
  ASSUME IInv, [Next]_vars
  PROVE  IInv'
<1>1. ControlInv /\ OutputInv
  BY DEF IInv, ControlInv, OutputInv
<1>2. ControlInv'
  BY <1>1, StepControl
<1>3. OutputInv'
  BY <1>1, ReadsOutput, SilentOutput, LoopOutput, WorkerOutput
     DEF Next, LoopRuns, WorkerRuns
<1> QED
  BY <1>2, <1>3 DEF IInv, ControlInv, OutputInv

\* The invariant holds throughout.
THEOREM Invariant == Spec => []IInv
BY InitIInv, StepIInv, PTL DEF Spec

\* Every variable keeps its type; the semaphore never holds more tokens than
\* the largest capacity a handshake may settle on.
THEOREM TypeCorrect == Spec => []TypeOK
<1>1. IInv => TypeOK
  BY DEF IInv
<1> QED
  BY <1>1, Invariant, PTL

\* No request is answered twice, by the loop, a goroutine, a cancel for it or
\* the shutdown.
THEOREM AnsweredOnce == Spec => []OneResponse
<1>1. IInv => OneResponse
  BY DEF IInv
<1> QED
  BY <1>1, Invariant, PTL

\* The payload of a response follows its header, whoever else has one to write.
THEOREM FramesWhole == Spec => []WholeFrames
<1>1. IInv => WholeFrames
  BY DEF IInv
<1> QED
  BY <1>1, Invariant, PTL

\* Handler.Shutdown and the return of Serve find no execution and no write.
THEOREM Quiet == Spec => []QuietWhenStopping
<1>1. IInv => QuietWhenStopping
  BY DEF IInv
<1> QED
  BY <1>1, Invariant, PTL

\* As many executions hold a token as the semaphore counts, and never more
\* than the handshake allowed.
THEOREM Bounded == Spec => [](Cardinality(Holders) = sem /\ sem <= conc)
<1>1. IInv => Cardinality(Holders) = sem /\ sem <= conc
  BY DEF IInv, SemInv
<1> QED
  BY <1>1, Invariant, PTL

=============================================================================
