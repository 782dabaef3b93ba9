----------------------------- MODULE OcrWorker -----------------------------
(***************************************************************************)
(* Handler of pluginapi/ocr/worker/handler.go: the local OCR worker that   *)
(* pluginapi's Server calls.  One mutex serialises Execute and Shutdown;   *)
(* contexts end at any time, the one of a call that waits for the mutex    *)
(* included.                                                               *)
(*                                                                         *)
(* External: the Factory, the Recognizer it opens, the host that grants    *)
(* the image, and the file system.  A Recognizer, and the Identity that    *)
(* comes with it, stands for the initialize call that opened it.           *)
(***************************************************************************)

CONSTANTS
  Call,  \* the calls that may be made of the Handler
  Kind,  \* [Call -> {"initialize", "recognize", "shutdown"}]
  None   \* no Call

ASSUME OcrAssumption ==
  /\ None \notin Call
  /\ Kind \in [Call -> {"initialize", "recognize", "shutdown"}]

VARIABLES
  pc,         \* where each call is
  ctxDone,    \* its context has ended
  outcome,    \* how it returned
  reported,   \* the Identity a passed call answered with
  used,       \* the Recognizer a recognize call has used
  mu,         \* who holds h.mu
  recognizer, \* h.recognizer
  identity,   \* h.identity
  opened,     \* external: Recognizers opened and not closed
  file        \* external: output/result.json, who wrote it and whether wholly

callVars == <<pc, ctxDone, outcome, reported, used>>
modelVars == <<recognizer, identity, opened>>
vars == <<callVars, mu, modelVars, file>>

Holding == {"opening", "imaging", "recognizing", "writing", "written", "closing"}

TypeOK ==
  /\ pc \in [Call -> {"idle", "waiting", "returned"} \cup Holding]
  /\ ctxDone \in [Call -> BOOLEAN]
  /\ outcome \in [Call -> {"none", "passed", "failed", "failed by context", "error"}]
  /\ reported \in [Call -> Call \cup {None}] /\ used \in [Call -> Call \cup {None}]
  /\ mu \in Call \cup {None}
  /\ recognizer \in Call \cup {None} /\ identity \in Call \cup {None}
  /\ opened \subseteq Call
  /\ file \in [by : Call \cup {None}, whole : BOOLEAN]
  /\ \A c \in Call : pc[c] \in Holding => mu = c

Init ==
  /\ pc = [c \in Call |-> "idle"] /\ ctxDone = [c \in Call |-> FALSE]
  /\ outcome = [c \in Call |-> "none"]
  /\ reported = [c \in Call |-> None] /\ used = [c \in Call |-> None]
  /\ mu = None /\ recognizer = None /\ identity = None
  /\ opened = {} /\ file = [by |-> None, whole |-> FALSE]

----------------------------------------------------------------------------

\* The deferred Unlock is part of every return.
Return(c, how) ==
  /\ pc' = [pc EXCEPT ![c] = "returned"]
  /\ outcome' = [outcome EXCEPT ![c] = how]
  /\ mu' = None

\* failed(code, err) of an error that is the context's own, or of another.
ReturnFailed(c) ==
  \/ Return(c, "failed")
  \/ ctxDone[c] /\ Return(c, "failed by context")

Go(c, where) == pc' = [pc EXCEPT ![c] = where] /\ UNCHANGED <<outcome, mu>>

----------------------------------------------------------------------------
(* Seeded faults: the definitions below as a plausible bug would have them. *)
(* They are part of no specification; each property is tried on one.        *)

\* Seeded fault: Shutdown does not take the mutex.
FaultMuFree(c) == mu = None \/ Kind[c] = "shutdown"

\* Seeded fault: the Recognizer is kept only when there is no error.
FaultOpenPartly(c) ==
  /\ opened' = opened \cup {c} /\ ReturnFailed(c)
  /\ UNCHANGED <<recognizer, identity, reported>>

\* Seeded fault: the identity is set the first time only.
FaultOpenWholly(c) ==
  /\ opened' = opened \cup {c} /\ recognizer' = c
  /\ identity' = IF identity = None THEN c ELSE identity
  /\ reported' = [reported EXCEPT ![c] = identity']
  /\ Return(c, "passed")

\* Seeded fault: the mutex is not released when the context has ended.
FaultExpired(c) ==
  /\ ctxDone[c] /\ Kind[c] # "shutdown"
  /\ pc' = [pc EXCEPT ![c] = "returned"]
  /\ outcome' = [outcome EXCEPT ![c] = "error"]
  /\ mu' = c

----------------------------------------------------------------------------

\* Execute or Shutdown is called; a deadline may have passed before.
Enter(c) ==
  /\ pc[c] = "idle" /\ Go(c, "waiting")
  /\ UNCHANGED <<ctxDone, reported, used, modelVars, file>>

EndContext(c) ==
  /\ pc[c] \notin {"idle", "returned"} /\ ~ctxDone[c]
  /\ ctxDone' = [ctxDone EXCEPT ![c] = TRUE]
  /\ UNCHANGED <<pc, outcome, reported, used, mu, modelVars, file>>

\* ctx.Err() is looked at once the mutex is held.
Expired(c) ==
  ctxDone[c] /\ Kind[c] # "shutdown" /\ Return(c, "error")

\* Another version or capability, arguments that do not decode, a model that
\* is or is not there already.
Refused(c) ==
  /\ ~ctxDone[c] /\ Kind[c] # "shutdown"
  /\ Return(c, "failed")

Admitted(c) ==
  /\ \/ /\ Kind[c] = "initialize" /\ recognizer = None /\ ~ctxDone[c]
        /\ pc' = [pc EXCEPT ![c] = "opening"]
     \/ /\ Kind[c] = "recognize" /\ recognizer # None /\ ~ctxDone[c]
        /\ pc' = [pc EXCEPT ![c] = "imaging"]
     \/ /\ Kind[c] = "shutdown" /\ recognizer # None
        /\ pc' = [pc EXCEPT ![c] = "closing"]
  /\ mu' = c
  /\ UNCHANGED outcome

NothingToClose(c) ==
  Kind[c] = "shutdown" /\ recognizer = None /\ Return(c, "passed")

MuFree(c) == mu = None

Lock(c) ==
  /\ pc[c] = "waiting" /\ MuFree(c)
  /\ Expired(c) \/ Refused(c) \/ Admitted(c) \/ NothingToClose(c)
  /\ UNCHANGED <<ctxDone, reported, used, modelVars, file>>

\* h.Open returns a Recognizer, an error, or both: then the Recognizer is
\* kept, for Shutdown to close, and the identity is left as it was.  Or it
\* returns neither: the call passes and the next one finds no model.
OpenWholly(c) ==
  /\ opened' = opened \cup {c} /\ recognizer' = c /\ identity' = c
  /\ reported' = [reported EXCEPT ![c] = c]
  /\ Return(c, "passed")

OpenPartly(c) ==
  /\ opened' = opened \cup {c} /\ recognizer' = c
  /\ ReturnFailed(c)
  /\ UNCHANGED <<identity, reported>>

OpenNothing(c) ==
  /\ identity' = c
  /\ reported' = [reported EXCEPT ![c] = c]
  /\ Return(c, "passed")
  /\ UNCHANGED <<recognizer, opened>>

OpenNot(c) == ReturnFailed(c) /\ UNCHANGED <<modelVars, reported>>

Open(c) ==
  /\ pc[c] = "opening"
  /\ OpenWholly(c) \/ OpenPartly(c) \/ OpenNothing(c) \/ OpenNot(c)
  /\ UNCHANGED <<ctxDone, used, file>>

\* readImage: no such file or not the one described; the last thing it does
\* is to look at the context, whose error is an error like the others.
ReadImage(c) ==
  /\ pc[c] = "imaging"
  /\ ReturnFailed(c) \/ (~ctxDone[c] /\ Go(c, "recognizing"))
  /\ UNCHANGED <<ctxDone, reported, used, modelVars, file>>

Recognize(c) ==
  /\ pc[c] = "recognizing"
  /\ used' = [used EXCEPT ![c] = recognizer]
  /\ \/ Go(c, "writing")
     \/ Return(c, IF ctxDone[c] THEN "error" ELSE "failed")
  /\ UNCHANGED <<ctxDone, reported, modelVars, file>>

\* result: the file is truncated, unless the result is too large or the file
\* does not open, and then written.
Truncate(c) ==
  /\ pc[c] = "writing"
  /\ \/ Go(c, "written") /\ file' = [by |-> c, whole |-> FALSE]
     \/ (Return(c, "failed") \/ Return(c, "error")) /\ UNCHANGED file
  /\ UNCHANGED <<ctxDone, reported, used, modelVars>>

WriteResult(c) ==
  /\ pc[c] = "written"
  /\ \/ /\ file' = [file EXCEPT !.whole = TRUE]
        /\ reported' = [reported EXCEPT ![c] = identity]
        /\ Return(c, "passed")
     \/ Return(c, "error") /\ UNCHANGED <<file, reported>>
  /\ UNCHANGED <<ctxDone, used, modelVars>>

\* A Close that fails leaves the Recognizer where it was.
Close(c) ==
  /\ pc[c] = "closing"
  /\ \/ /\ opened' = opened \ {recognizer} /\ recognizer' = None
        /\ Return(c, "passed")
     \/ Return(c, "error") /\ UNCHANGED <<opened, recognizer>>
  /\ UNCHANGED <<ctxDone, reported, used, identity, file>>

----------------------------------------------------------------------------

Work(c) == Lock(c) \/ Open(c) \/ ReadImage(c) \/ Recognize(c) \/ Truncate(c)
             \/ WriteResult(c) \/ Close(c)

Next == \E c \in Call : Enter(c) \/ EndContext(c) \/ Work(c)

Spec == Init /\ [][Next]_vars

\* A goroutine that can go on does, the Factory and the Recognizer return,
\* and sync.Mutex starves nobody: no call is made twice here, so that each
\* competes with finitely many others for the mutex.
FairSpec == Spec /\ \A c \in Call : WF_vars(Work(c))

----------------------------------------------------------------------------

\* What the Factory opened, also when it failed, is what the next Shutdown
\* closes: nothing else stays open, and what is kept is not closed.
NothingLeaks == opened = {recognizer} \ {None}

\* A Recognizer is not closed while it recognizes, also when Shutdown is
\* called with an Execute in progress.
InUseIsOpen == \A c \in Call : pc[c] = "recognizing" => recognizer \in opened

\* Every call returns, those that waited for the mutex included.
CallsReturn == \A c \in Call : pc[c] = "waiting" ~> pc[c] = "returned"

\* What a recognition that passed has told.  It used a model some initialize
\* opened; if that initialize passed, the Identity reported is the model's, and
\* if it failed and left its Recognizer, it is none or one that an initialize
\* did pass with, but never of a model that is open.  There is a result file:
\* a whole one, its own or a later one, or one that a call has truncated which
\* is still writing or returned an error.
PassedIsTrue ==
  \A c \in Call : Kind[c] = "recognize" /\ outcome[c] = "passed" =>
    /\ used[c] \in Call /\ Kind[used[c]] = "initialize"
    /\ IF outcome[used[c]] = "passed" THEN reported[c] = used[c]
       ELSE reported[c] # None =>
              outcome[reported[c]] = "passed" /\ reported[c] \notin opened
    /\ file.by \in Call
    /\ file.whole \/ pc[file.by] = "written" \/ outcome[file.by] = "error"

\* docs/ocr-contract.md:32 (in Chinese): a classifiable failure is expressed
\* by an ExecuteResult; a cancellation or a deadline stays an error.
CancellationStaysError == \A c \in Call : outcome[c] # "failed by context"
=============================================================================
