-------------------------- MODULE OcrWorkerProofs --------------------------
(***************************************************************************)
(* Proofs about module OcrWorker, for any number of calls of any kinds and *)
(* any factory.                                                            *)
(***************************************************************************)
EXTENDS OcrWorker, TLAPS

\* A call is between its Lock and its return exactly while it holds the mutex.
MutexInv ==
  /\ \A c \in Call : pc[c] \in Holding <=> mu = c
  /\ \A c \in Call : pc[c] # "returned" => outcome[c] = "none"

\* Each stage past Lock is of one kind and finds the model as Lock left it.
StageInv ==
  \A c \in Call :
    /\ pc[c] = "opening" => Kind[c] = "initialize" /\ recognizer = None
    /\ pc[c] \in {"imaging", "recognizing", "writing", "written"} =>
         Kind[c] = "recognize" /\ recognizer # None
    /\ pc[c] = "closing" => Kind[c] = "shutdown" /\ recognizer # None

\* The Handler's Identity is of its Recognizer if that one's initialize passed,
\* and always of an initialize that did.
ModelInv ==
  \A i \in Call :
    /\ recognizer = i => /\ pc[i] = "returned" /\ Kind[i] = "initialize"
                         /\ outcome[i] = "passed" => identity = i
    /\ identity = i => outcome[i] = "passed"

\* A recognition that has its items has them from the Recognizer still there.
UseInv ==
  \A c \in Call :
    /\ \A i \in Call : used[c] = i => pc[i] = "returned" /\ Kind[i] = "initialize"
    /\ pc[c] \in {"writing", "written"} => used[c] = recognizer

\* The file is of the call that is writing it or of one that has returned.
FileInv ==
  \A c \in Call :
    /\ pc[c] = "written" => file.by = c
    /\ file.by = c => pc[c] \in {"written", "returned"}

\* The halves of PassedIsTrue: whose Identity a passed recognition reports, and
\* what has become of the file.
IdentityInv ==
  \A c \in Call : Kind[c] = "recognize" /\ outcome[c] = "passed" =>
    /\ used[c] \in Call
    /\ IF outcome[used[c]] = "passed" THEN reported[c] = used[c]
       ELSE reported[c] # None =>
              outcome[reported[c]] = "passed" /\ reported[c] \notin opened

WholeInv ==
  /\ \A c \in Call : Kind[c] = "recognize" /\ outcome[c] = "passed" => file.by # None
  /\ \A c \in Call : file.by = c =>
       file.whole \/ pc[c] = "written" \/ outcome[c] = "error"

IInv ==
  /\ TypeOK /\ MutexInv /\ StageInv /\ NothingLeaks
  /\ ModelInv /\ UseInv /\ FileInv /\ IdentityInv /\ WholeInv

USE OcrAssumption DEF vars, callVars, modelVars, Holding

\* The Handler starts in the invariant.
LEMMA InitIInv == Init => IInv
BY DEF Init, IInv, TypeOK, MutexInv, StageInv, NothingLeaks, ModelInv, UseInv, FileInv,
       IdentityInv, WholeInv

\* What passed recognitions have reported stays true when another call returns,
\* a factory's included that has opened a Recognizer meanwhile.
LEMMA ReportsKept ==
  ASSUME IInv, NEW c \in Call, pc[c] # "returned",
         \A d \in Call \ {c} :
           outcome'[d] = outcome[d] /\ used'[d] = used[d] /\ reported'[d] = reported[d],
         outcome'[c] = "passed" => Kind[c] # "recognize",
         opened' \subseteq opened \cup {c}
  PROVE  IdentityInv'
<1> SUFFICES ASSUME NEW d \in Call, Kind[d] = "recognize", outcome'[d] = "passed"
             PROVE  /\ used'[d] \in Call
                    /\ IF outcome'[used'[d]] = "passed" THEN reported'[d] = used'[d]
                       ELSE reported'[d] # None =>
                              outcome'[reported'[d]] = "passed" /\ reported'[d] \notin opened'
  BY DEF IdentityInv
<1>1. d # c /\ outcome[d] = "passed" /\ used'[d] = used[d] /\ reported'[d] = reported[d]
  OBVIOUS
<1> PICK u, i : u = used[d] /\ i = reported[d]
  OBVIOUS
<1>2. /\ u \in Call
      /\ IF outcome[u] = "passed" THEN i = u
         ELSE i # None => outcome[i] = "passed" /\ i \notin opened
  BY <1>1 DEF IInv, IdentityInv
<1>3. u # c
  BY <1>2 DEF IInv, UseInv
<1>4. i \in Call \cup {None} /\ outcome[c] # "passed"
  BY <1>1 DEF IInv, TypeOK, MutexInv
<1> QED
  BY <1>1, <1>2, <1>3, <1>4

\* So does what they have used, when nobody writes a result.
LEMMA UsesKept ==
  ASSUME IInv, NEW c \in Call, pc'[c] = "returned",
         \A d \in Call \ {c} : pc'[d] = pc[d],
         \A d \in Call : pc'[d] \notin Holding,
         UNCHANGED used
  PROVE  UseInv'
<1>1. \A d, i \in Call : used[d] = i => pc'[i] = "returned" /\ Kind[i] = "initialize"
  BY DEF IInv, UseInv
<1>2. \A d \in Call : pc'[d] \notin {"writing", "written"}
  OBVIOUS
<1> QED
  BY <1>1, <1>2 DEF UseInv

\* And what is known of the file.
LEMMA FileKept ==
  ASSUME IInv, NEW c \in Call, pc[c] # "returned",
         \A d \in Call \ {c} : pc'[d] = pc[d] /\ outcome'[d] = outcome[d],
         outcome'[c] = "passed" => Kind[c] # "recognize",
         pc[c] = "written" => outcome'[c] = "error" \/ pc'[c] = "written",
         UNCHANGED file
  PROVE  WholeInv'
<1>1. \A d \in Call : Kind[d] = "recognize" /\ outcome'[d] = "passed" => file.by # None
  BY DEF IInv, WholeInv
<1>2. ASSUME NEW d \in Call, file.by = d
      PROVE  file.whole \/ pc'[d] = "written" \/ outcome'[d] = "error"
  <2>1. CASE d = c
    BY <1>2, <2>1 DEF IInv, FileInv
  <2>2. CASE d # c
    BY <1>2, <2>2 DEF IInv, WholeInv
  <2> QED
    BY <2>1, <2>2
<1> QED
  BY <1>1, <1>2 DEF WholeInv

\* A call that waits for the mutex.
LEMMA EnterKeeps ==
  ASSUME IInv,
         NEW c \in Call,
         Enter(c)
  PROVE  IInv'
<1> USE DEF IInv
<1>a. pc'[c] = "waiting" /\ \A d \in Call \ {c} : pc'[d] = pc[d]
  BY DEF TypeOK, Enter, Go
<1>b. pc[c] = "idle" /\ UNCHANGED <<used, recognizer>>
  BY DEF Enter
<1>1. TypeOK'
  BY DEF TypeOK, Enter, Go
<1>2. MutexInv'
  BY DEF TypeOK, MutexInv, Enter, Go
<1>3. StageInv'
  BY <1>a, <1>b DEF StageInv
<1>4. NothingLeaks'
  BY DEF TypeOK, StageInv, NothingLeaks, Enter, Go
<1>5. ModelInv'
  BY DEF TypeOK, MutexInv, StageInv, ModelInv, Enter, Go
<1>6. UseInv'
  BY <1>a, <1>b DEF UseInv
<1>7. FileInv'
  BY DEF TypeOK, MutexInv, FileInv, Enter, Go
<1>8. IdentityInv'
  BY DEF IdentityInv, Enter, Go
<1>9. WholeInv'
  BY DEF TypeOK, MutexInv, FileInv, WholeInv, Enter, Go
<1> QED
  BY <1>1, <1>2, <1>3, <1>4, <1>5, <1>6, <1>7, <1>8, <1>9

\* A context that ends.
LEMMA EndContextKeeps ==
  ASSUME IInv,
         NEW c \in Call,
         EndContext(c)
  PROVE  IInv'
<1> USE DEF IInv
<1>1. TypeOK'
  BY DEF TypeOK, EndContext
<1>2. MutexInv'
  BY DEF TypeOK, MutexInv, EndContext
<1>3. StageInv'
  BY DEF TypeOK, MutexInv, StageInv, EndContext
<1>4. NothingLeaks'
  BY DEF TypeOK, StageInv, NothingLeaks, EndContext
<1>5. ModelInv'
  BY DEF ModelInv, EndContext
<1>6. UseInv'
  BY DEF UseInv, EndContext
<1>7. FileInv'
  BY DEF FileInv, EndContext
<1>8. IdentityInv'
  BY DEF IdentityInv, EndContext
<1>9. WholeInv'
  BY DEF WholeInv, EndContext
<1> QED
  BY <1>1, <1>2, <1>3, <1>4, <1>5, <1>6, <1>7, <1>8, <1>9

\* A call that returns without a change but its own outcome: a refusal, an error,
\* a Shutdown with nothing to close.
LEMMA FailureKeeps ==
  ASSUME IInv,
         NEW c \in Call,
         NEW how \in {"passed", "failed", "failed by context", "error"},
         how = "passed" => Kind[c] = "shutdown",
         pc[c] = "written" => how = "error",
         (pc[c] = "waiting" /\ mu = None) \/ pc[c] \in Holding,
         Return(c, how),
         UNCHANGED <<ctxDone, reported, used, modelVars, file>>
  PROVE  IInv'
<1> USE DEF IInv
<1>a. \A d \in Call \ {c} : pc[d] \notin Holding
  <2>1. CASE pc[c] = "waiting" /\ mu = None
    BY <2>1 DEF MutexInv
  <2>2. CASE pc[c] \in Holding
    BY <2>2 DEF MutexInv
  <2> QED
    BY <2>1, <2>2
<1>b. \A d \in Call \ {c} :
        /\ pc'[d] = pc[d] /\ outcome'[d] = outcome[d]
        /\ used'[d] = used[d] /\ reported'[d] = reported[d]
  BY DEF TypeOK, Return
<1>c. pc'[c] = "returned" /\ outcome'[c] = how
  BY DEF TypeOK, Return
<1>e. \A d \in Call : pc'[d] \notin Holding
  BY <1>a, <1>b, <1>c
<1>d. \A d \in Call : used[d] # c /\ used'[d] = used[d]
  BY DEF UseInv
<1>1. TypeOK'
  BY DEF TypeOK, Return
<1>2. MutexInv'
  BY DEF TypeOK, MutexInv, Return
<1>3. StageInv'
  BY <1>e DEF StageInv
<1>4. NothingLeaks'
  BY DEF TypeOK, StageInv, NothingLeaks, Return
<1>5. ModelInv'
  <2>1. \A i \in Call : (recognizer = i => i # c) /\ (identity = i => i # c)
    BY DEF MutexInv, ModelInv
  <2> QED
    BY <1>b, <2>1 DEF ModelInv
<1>6. UseInv'
  BY <1>b, <1>c, <1>e, UsesKept
<1>7. FileInv'
  BY <1>b, <1>c DEF FileInv
<1>8. IdentityInv'
  BY <1>b, <1>c, ReportsKept DEF Holding
<1>9. WholeInv'
  BY <1>b, <1>c, FileKept DEF StageInv
<1> QED
  BY <1>1, <1>2, <1>3, <1>4, <1>5, <1>6, <1>7, <1>8, <1>9

\* An initialize that goes on past its Lock.
LEMMA InitializeKeeps ==
  ASSUME IInv,
         NEW c \in Call,
         pc[c] = "waiting" /\ mu = None,
         Kind[c] = "initialize" /\ recognizer = None,
         pc' = [pc EXCEPT ![c] = "opening"],
         mu' = c,
         UNCHANGED <<outcome, ctxDone, reported, used, modelVars, file>>
  PROVE  IInv'
<1> USE DEF IInv
<1>a. \A d \in Call \ {c} : pc[d] \notin Holding
  BY DEF MutexInv
<1>b. \A d \in Call \ {c} :
        /\ pc'[d] = pc[d] /\ outcome'[d] = outcome[d]
        /\ used'[d] = used[d] /\ reported'[d] = reported[d]
  BY DEF TypeOK
<1>c. pc'[c] = "opening"
  BY DEF TypeOK
<1>1. TypeOK'
  BY DEF TypeOK
<1>2. MutexInv'
  BY DEF TypeOK, MutexInv
<1>3. StageInv'
  BY <1>a, <1>b, <1>c DEF StageInv
<1>4. NothingLeaks'
  BY DEF TypeOK, StageInv, NothingLeaks
<1>5. ModelInv'
  <2>1. \A i \in Call : recognizer = i => i # c
    BY DEF ModelInv
  <2> QED
    BY <1>b, <2>1,
       UNCHANGED <<outcome, recognizer, identity>> DEF ModelInv
<1>6. UseInv'
  BY <1>a, <1>b, <1>c DEF UseInv
<1>7. FileInv'
  BY DEF TypeOK, MutexInv, FileInv
<1>8. IdentityInv'
  BY <1>a, <1>b, <1>c DEF MutexInv, StageInv, ModelInv, UseInv, IdentityInv
<1>9. WholeInv'
  BY DEF TypeOK, MutexInv, FileInv, WholeInv
<1> QED
  BY <1>1, <1>2, <1>3, <1>4, <1>5, <1>6, <1>7, <1>8, <1>9

\* A recognize that goes on past its Lock.
LEMMA RecognizeKeeps ==
  ASSUME IInv,
         NEW c \in Call,
         pc[c] = "waiting" /\ mu = None,
         Kind[c] = "recognize" /\ recognizer # None,
         pc' = [pc EXCEPT ![c] = "imaging"],
         mu' = c,
         UNCHANGED <<outcome, ctxDone, reported, used, modelVars, file>>
  PROVE  IInv'
<1> USE DEF IInv
<1>a. \A d \in Call \ {c} : pc[d] \notin Holding
  BY DEF MutexInv
<1>b. \A d \in Call \ {c} :
        /\ pc'[d] = pc[d] /\ outcome'[d] = outcome[d]
        /\ used'[d] = used[d] /\ reported'[d] = reported[d]
  BY DEF TypeOK
<1>c. pc'[c] = "imaging"
  BY DEF TypeOK
<1>1. TypeOK'
  BY DEF TypeOK
<1>2. MutexInv'
  BY DEF TypeOK, MutexInv
<1>3. StageInv'
  BY <1>a, <1>b, <1>c DEF StageInv
<1>4. NothingLeaks'
  BY DEF TypeOK, StageInv, NothingLeaks
<1>5. ModelInv'
  <2>1. \A i \in Call : recognizer = i => i # c
    BY DEF ModelInv
  <2> QED
    BY <1>b, <2>1,
       UNCHANGED <<outcome, recognizer, identity>> DEF ModelInv
<1>6. UseInv'
  BY <1>a, <1>b, <1>c DEF UseInv
<1>7. FileInv'
  BY DEF TypeOK, MutexInv, FileInv
<1>8. IdentityInv'
  BY <1>a, <1>b, <1>c DEF MutexInv, StageInv, ModelInv, UseInv, IdentityInv
<1>9. WholeInv'
  BY DEF TypeOK, MutexInv, FileInv, WholeInv
<1> QED
  BY <1>1, <1>2, <1>3, <1>4, <1>5, <1>6, <1>7, <1>8, <1>9

\* A Shutdown that has something to close.
LEMMA ShutdownKeeps ==
  ASSUME IInv,
         NEW c \in Call,
         pc[c] = "waiting" /\ mu = None,
         Kind[c] = "shutdown" /\ recognizer # None,
         pc' = [pc EXCEPT ![c] = "closing"],
         mu' = c,
         UNCHANGED <<outcome, ctxDone, reported, used, modelVars, file>>
  PROVE  IInv'
<1> USE DEF IInv
<1>a. \A d \in Call \ {c} : pc[d] \notin Holding
  BY DEF MutexInv
<1>b. \A d \in Call \ {c} :
        /\ pc'[d] = pc[d] /\ outcome'[d] = outcome[d]
        /\ used'[d] = used[d] /\ reported'[d] = reported[d]
  BY DEF TypeOK
<1>c. pc'[c] = "closing"
  BY DEF TypeOK
<1>1. TypeOK'
  BY DEF TypeOK
<1>2. MutexInv'
  BY DEF TypeOK, MutexInv
<1>3. StageInv'
  BY <1>a, <1>b, <1>c DEF StageInv
<1>4. NothingLeaks'
  BY DEF TypeOK, StageInv, NothingLeaks
<1>5. ModelInv'
  <2>1. \A i \in Call : recognizer = i => i # c
    BY DEF ModelInv
  <2> QED
    BY <1>b, <2>1,
       UNCHANGED <<outcome, recognizer, identity>> DEF ModelInv
<1>6. UseInv'
  BY <1>a, <1>b, <1>c DEF UseInv
<1>7. FileInv'
  BY DEF TypeOK, MutexInv, FileInv
<1>8. IdentityInv'
  BY <1>a, <1>b, <1>c DEF MutexInv, StageInv, ModelInv, UseInv, IdentityInv
<1>9. WholeInv'
  BY DEF TypeOK, MutexInv, FileInv, WholeInv
<1> QED
  BY <1>1, <1>2, <1>3, <1>4, <1>5, <1>6, <1>7, <1>8, <1>9

\* A factory that opened a model.
LEMMA OpenWhollyKeeps ==
  ASSUME IInv,
         NEW c \in Call,
         pc[c] = "opening",
         OpenWholly(c),
         UNCHANGED <<ctxDone, used, file>>
  PROVE  IInv'
<1> USE DEF IInv
<1>a. \A d \in Call \ {c} : pc[d] \notin Holding
  BY DEF MutexInv
<1>b. \A d \in Call \ {c} :
        /\ pc'[d] = pc[d] /\ outcome'[d] = outcome[d]
        /\ used'[d] = used[d] /\ reported'[d] = reported[d]
  BY DEF TypeOK, OpenWholly, Return
<1>c. pc'[c] = "returned" /\ outcome'[c] = "passed" /\ reported'[c] = c
  BY DEF TypeOK, OpenWholly, Return
<1>e. \A d \in Call : pc'[d] \notin Holding
  BY <1>a, <1>b, <1>c
<1>1. TypeOK'
  BY DEF TypeOK, OpenWholly, Return
<1>2. MutexInv'
  BY DEF TypeOK, MutexInv, OpenWholly, Return
<1>3. StageInv'
  BY <1>e DEF StageInv
<1>4. NothingLeaks'
  BY DEF TypeOK, StageInv, NothingLeaks, OpenWholly, Return
<1>5. ModelInv'
  <2>1. recognizer' = c /\ identity' = c
    BY DEF OpenWholly
  <2>2. Kind[c] = "initialize"
    BY DEF StageInv
  <2> QED
    BY <1>c, <2>1, <2>2 DEF ModelInv
<1>6. UseInv'
  BY <1>b, <1>c, <1>e, UsesKept
<1>7. FileInv'
  BY <1>b, <1>c DEF FileInv
<1>8. IdentityInv'
  BY <1>a, <1>b, <1>c DEF MutexInv, StageInv, ModelInv, UseInv, IdentityInv, OpenWholly, Return
<1>9. WholeInv'
  BY <1>b, <1>c, FileKept DEF StageInv
<1> QED
  BY <1>1, <1>2, <1>3, <1>4, <1>5, <1>6, <1>7, <1>8, <1>9

\* A factory that returned neither.
LEMMA OpenNothingKeeps ==
  ASSUME IInv,
         NEW c \in Call,
         pc[c] = "opening",
         OpenNothing(c),
         UNCHANGED <<ctxDone, used, file>>
  PROVE  IInv'
<1> USE DEF IInv
<1>a. \A d \in Call \ {c} : pc[d] \notin Holding
  BY DEF MutexInv
<1>b. \A d \in Call \ {c} :
        /\ pc'[d] = pc[d] /\ outcome'[d] = outcome[d]
        /\ used'[d] = used[d] /\ reported'[d] = reported[d]
  BY DEF TypeOK, OpenNothing, Return
<1>c. pc'[c] = "returned" /\ outcome'[c] = "passed" /\ reported'[c] = c
  BY DEF TypeOK, OpenNothing, Return
<1>e. \A d \in Call : pc'[d] \notin Holding
  BY <1>a, <1>b, <1>c
<1>1. TypeOK'
  BY DEF TypeOK, OpenNothing, Return
<1>2. MutexInv'
  BY DEF TypeOK, MutexInv, OpenNothing, Return
<1>3. StageInv'
  BY <1>e DEF StageInv
<1>4. NothingLeaks'
  BY DEF TypeOK, StageInv, NothingLeaks, OpenNothing, Return
<1>5. ModelInv'
  <2>1. recognizer' = None /\ identity' = c
    BY DEF StageInv, OpenNothing
  <2> QED
    BY <1>c, <2>1 DEF ModelInv
<1>6. UseInv'
  BY <1>b, <1>c, <1>e, UsesKept
<1>7. FileInv'
  BY <1>b, <1>c DEF FileInv
<1>8. IdentityInv'
  BY <1>a, <1>b, <1>c DEF MutexInv, StageInv, ModelInv, UseInv, IdentityInv, OpenNothing, Return
<1>9. WholeInv'
  BY <1>b, <1>c, FileKept DEF StageInv
<1> QED
  BY <1>1, <1>2, <1>3, <1>4, <1>5, <1>6, <1>7, <1>8, <1>9

\* A factory that opened one and failed.
LEMMA OpenPartlyKeeps ==
  ASSUME IInv,
         NEW c \in Call,
         pc[c] = "opening",
         NEW how \in {"failed", "failed by context"},
         Return(c, how),
         opened' = opened \cup {c} /\ recognizer' = c,
         UNCHANGED <<identity, reported, ctxDone, used, file>>
  PROVE  IInv'
<1> USE DEF IInv
<1>a. \A d \in Call \ {c} : pc[d] \notin Holding
  BY DEF MutexInv
<1>b. \A d \in Call \ {c} :
        /\ pc'[d] = pc[d] /\ outcome'[d] = outcome[d]
        /\ used'[d] = used[d] /\ reported'[d] = reported[d]
  BY DEF TypeOK, Return
<1>c. pc'[c] = "returned" /\ outcome'[c] # "passed"
  BY DEF TypeOK, Return
<1>e. \A d \in Call : pc'[d] \notin Holding
  BY <1>a, <1>b, <1>c
<1>d. \A d \in Call : used[d] # c /\ used'[d] = used[d]
  BY DEF UseInv
<1>1. TypeOK'
  BY DEF TypeOK, Return
<1>2. MutexInv'
  BY DEF TypeOK, MutexInv, Return
<1>3. StageInv'
  BY <1>e DEF StageInv
<1>4. NothingLeaks'
  BY DEF TypeOK, StageInv, NothingLeaks, Return
<1>5. ModelInv'
  BY DEF TypeOK, MutexInv, StageInv, ModelInv, Return
<1>6. UseInv'
  BY <1>b, <1>c, <1>e, UsesKept
<1>7. FileInv'
  BY <1>b, <1>c DEF FileInv
<1>8. IdentityInv'
  BY <1>b, <1>c, ReportsKept DEF Holding
<1>9. WholeInv'
  BY <1>b, <1>c, FileKept DEF StageInv
<1> QED
  BY <1>1, <1>2, <1>3, <1>4, <1>5, <1>6, <1>7, <1>8, <1>9

\* An image that was read.
LEMMA ReadImageKeeps ==
  ASSUME IInv,
         NEW c \in Call,
         pc[c] = "imaging",
         Go(c, "recognizing"),
         UNCHANGED <<ctxDone, reported, used, modelVars, file>>
  PROVE  IInv'
<1> USE DEF IInv
<1>a. \A d \in Call \ {c} : pc[d] \notin Holding
  BY DEF MutexInv
<1>b. \A d \in Call \ {c} :
        /\ pc'[d] = pc[d] /\ outcome'[d] = outcome[d]
        /\ used'[d] = used[d] /\ reported'[d] = reported[d]
  BY DEF TypeOK, Go
<1>c. pc'[c] = "recognizing"
  BY DEF TypeOK, Go
<1>1. TypeOK'
  BY DEF TypeOK, Go
<1>2. MutexInv'
  BY DEF TypeOK, MutexInv, Go
<1>3. StageInv'
  BY <1>a, <1>b, <1>c DEF StageInv
<1>4. NothingLeaks'
  BY DEF TypeOK, StageInv, NothingLeaks, Go
<1>5. ModelInv'
  <2>1. \A i \in Call : recognizer = i => i # c
    BY DEF ModelInv
  <2> QED
    BY <1>b, <2>1 DEF ModelInv, Go
<1>6. UseInv'
  BY <1>a, <1>b, <1>c DEF UseInv
<1>7. FileInv'
  BY DEF TypeOK, MutexInv, FileInv, Go
<1>8. IdentityInv'
  BY <1>a, <1>b, <1>c DEF MutexInv, StageInv, ModelInv, UseInv, IdentityInv, Go
<1>9. WholeInv'
  <2>1. outcome'[c] = "none"
    BY DEF MutexInv, Go
  <2> QED
    BY <1>b, <2>1, FileKept DEF MutexInv
<1> QED
  BY <1>1, <1>2, <1>3, <1>4, <1>5, <1>6, <1>7, <1>8, <1>9

\* A recognition that has its items.
LEMMA RecognizedKeeps ==
  ASSUME IInv,
         NEW c \in Call,
         pc[c] = "recognizing",
         used' = [used EXCEPT ![c] = recognizer],
         Go(c, "writing"),
         UNCHANGED <<ctxDone, reported, modelVars, file>>
  PROVE  IInv'
<1> USE DEF IInv
<1>a. \A d \in Call \ {c} : pc[d] \notin Holding
  BY DEF MutexInv
<1>b. \A d \in Call \ {c} :
        /\ pc'[d] = pc[d] /\ outcome'[d] = outcome[d]
        /\ used'[d] = used[d] /\ reported'[d] = reported[d]
  BY DEF TypeOK, Go
<1>c. pc'[c] = "writing" /\ used'[c] = recognizer
  BY DEF TypeOK, Go
<1>1. TypeOK'
  BY DEF TypeOK, Go
<1>2. MutexInv'
  BY DEF TypeOK, MutexInv, Go
<1>3. StageInv'
  BY <1>a, <1>b, <1>c DEF StageInv
<1>4. NothingLeaks'
  BY DEF TypeOK, StageInv, NothingLeaks, Go
<1>5. ModelInv'
  <2>1. \A i \in Call : recognizer = i => i # c
    BY DEF ModelInv
  <2> QED
    BY <1>b, <2>1 DEF ModelInv, Go
<1>6. UseInv'
  BY <1>a, <1>b, <1>c DEF UseInv, ModelInv
<1>7. FileInv'
  BY DEF TypeOK, MutexInv, FileInv, Go
<1>8. IdentityInv'
  BY <1>a, <1>b, <1>c DEF MutexInv, StageInv, ModelInv, UseInv, IdentityInv, Go
<1>9. WholeInv'
  <2>1. outcome'[c] = "none"
    BY DEF MutexInv, Go
  <2> QED
    BY <1>b, <2>1, FileKept DEF MutexInv
<1> QED
  BY <1>1, <1>2, <1>3, <1>4, <1>5, <1>6, <1>7, <1>8, <1>9

\* A recognition that has none.
LEMMA UnrecognizedKeeps ==
  ASSUME IInv,
         NEW c \in Call,
         pc[c] = "recognizing",
         used' = [used EXCEPT ![c] = recognizer],
         NEW how \in {"error", "failed"},
         Return(c, how),
         UNCHANGED <<ctxDone, reported, modelVars, file>>
  PROVE  IInv'
<1> USE DEF IInv
<1>a. \A d \in Call \ {c} : pc[d] \notin Holding
  BY DEF MutexInv
<1>b. \A d \in Call \ {c} :
        /\ pc'[d] = pc[d] /\ outcome'[d] = outcome[d]
        /\ used'[d] = used[d] /\ reported'[d] = reported[d]
  BY DEF TypeOK, Return
<1>c. pc'[c] = "returned" /\ outcome'[c] = how /\ used'[c] = recognizer
  BY DEF TypeOK, Return
<1>e. \A d \in Call : pc'[d] \notin Holding
  BY <1>a, <1>b, <1>c
<1>1. TypeOK'
  BY DEF TypeOK, Return
<1>2. MutexInv'
  BY DEF TypeOK, MutexInv, Return
<1>3. StageInv'
  BY <1>e DEF StageInv
<1>4. NothingLeaks'
  BY DEF TypeOK, StageInv, NothingLeaks, Return
<1>5. ModelInv'
  <2>1. \A i \in Call : (recognizer = i => i # c) /\ (identity = i => i # c)
    BY DEF MutexInv, ModelInv
  <2> QED
    BY <1>b, <2>1 DEF ModelInv
<1>6. UseInv'
  BY <1>b, <1>c, <1>e DEF UseInv, ModelInv
<1>7. FileInv'
  BY <1>b, <1>c DEF FileInv
<1>8. IdentityInv'
  BY <1>a, <1>b, <1>c DEF MutexInv, StageInv, ModelInv, UseInv, IdentityInv, Return
<1>9. WholeInv'
  BY <1>b, <1>c, FileKept DEF StageInv
<1> QED
  BY <1>1, <1>2, <1>3, <1>4, <1>5, <1>6, <1>7, <1>8, <1>9

\* The file is truncated.
LEMMA TruncateKeeps ==
  ASSUME IInv,
         NEW c \in Call,
         pc[c] = "writing",
         Go(c, "written"),
         file' = [by |-> c, whole |-> FALSE],
         UNCHANGED <<ctxDone, reported, used, modelVars>>
  PROVE  IInv'
<1> USE DEF IInv
<1>a. \A d \in Call \ {c} : pc[d] \notin Holding
  BY DEF MutexInv
<1>b. \A d \in Call \ {c} :
        /\ pc'[d] = pc[d] /\ outcome'[d] = outcome[d]
        /\ used'[d] = used[d] /\ reported'[d] = reported[d]
  BY DEF TypeOK, Go
<1>c. pc'[c] = "written"
  BY DEF TypeOK, Go
<1>1. TypeOK'
  BY DEF TypeOK, Go
<1>2. MutexInv'
  BY DEF TypeOK, MutexInv, Go
<1>3. StageInv'
  BY <1>a, <1>b, <1>c DEF StageInv
<1>4. NothingLeaks'
  BY DEF TypeOK, StageInv, NothingLeaks, Go
<1>5. ModelInv'
  <2>1. \A i \in Call : recognizer = i => i # c
    BY DEF ModelInv
  <2> QED
    BY <1>b, <2>1 DEF ModelInv, Go
<1>6. UseInv'
  BY <1>a, <1>b, <1>c DEF UseInv
<1>7. FileInv'
  BY <1>a, <1>b, <1>c DEF FileInv, Holding
<1>8. IdentityInv'
  BY <1>a, <1>b, <1>c DEF MutexInv, StageInv, ModelInv, UseInv, IdentityInv, Go
<1>9. WholeInv'
  <2>1. file'.by = c
    OBVIOUS
  <2> QED
    BY <1>c, <2>1 DEF WholeInv
<1> QED
  BY <1>1, <1>2, <1>3, <1>4, <1>5, <1>6, <1>7, <1>8, <1>9

\* The file is written.
LEMMA WriteKeeps ==
  ASSUME IInv,
         NEW c \in Call,
         pc[c] = "written",
         file' = [file EXCEPT !.whole = TRUE],
         reported' = [reported EXCEPT ![c] = identity],
         Return(c, "passed"),
         UNCHANGED <<ctxDone, used, modelVars>>
  PROVE  IInv'
<1> USE DEF IInv
<1>a. \A d \in Call \ {c} : pc[d] \notin Holding
  BY DEF MutexInv
<1>b. \A d \in Call \ {c} :
        /\ pc'[d] = pc[d] /\ outcome'[d] = outcome[d]
        /\ used'[d] = used[d] /\ reported'[d] = reported[d]
  BY DEF TypeOK, Return
<1>c. pc'[c] = "returned" /\ outcome'[c] = "passed" /\ reported'[c] = identity
  BY DEF TypeOK, Return
<1>e. \A d \in Call : pc'[d] \notin Holding
  BY <1>a, <1>b, <1>c
<1>1. TypeOK'
  BY DEF TypeOK, Return
<1>2. MutexInv'
  BY DEF TypeOK, MutexInv, Return
<1>3. StageInv'
  BY <1>e DEF StageInv
<1>4. NothingLeaks'
  BY DEF TypeOK, StageInv, NothingLeaks, Return
<1>5. ModelInv'
  <2>1. \A i \in Call : (recognizer = i => i # c) /\ (identity = i => i # c)
    BY DEF MutexInv, ModelInv
  <2> QED
    BY <1>b, <2>1 DEF ModelInv
<1>6. UseInv'
  BY <1>b, <1>c, <1>e, UsesKept
<1>7. FileInv'
  BY DEF TypeOK, MutexInv, FileInv, Return
<1>8. IdentityInv'
  <2> PICK u : u = recognizer
    OBVIOUS
  <2>1. u \in Call /\ used[c] = u /\ u # c /\ opened = {u}
    <3>1. u \in Call /\ used[c] = u
      BY DEF TypeOK, StageInv, UseInv
    <3>2. u # c
      BY <3>1 DEF ModelInv
    <3>3. opened = {u}
      BY <3>1 DEF NothingLeaks
    <3> QED
      BY <3>1, <3>2, <3>3
  <2>2. outcome[u] = "passed" => identity = u
    BY <2>1 DEF ModelInv
  <2>3. identity # None => identity \in Call /\ identity # c /\ outcome[identity] = "passed"
    BY DEF TypeOK, MutexInv, ModelInv
  <2>4. outcome[u] # "passed" /\ identity # None => identity \notin opened
    BY <2>1, <2>3
  <2> SUFFICES ASSUME NEW d \in Call, Kind[d] = "recognize", outcome'[d] = "passed"
               PROVE  /\ used'[d] \in Call
                      /\ IF outcome'[used'[d]] = "passed" THEN reported'[d] = used'[d]
                         ELSE reported'[d] # None =>
                                outcome'[reported'[d]] = "passed" /\ reported'[d] \notin opened'
    BY DEF IdentityInv
  <2>5. CASE d = c
    BY <1>b, <1>c, <2>1, <2>2, <2>3, <2>4, <2>5
  <2>6. CASE d # c
    <3> PICK w, i : w = used[d] /\ i = reported[d]
      OBVIOUS
    <3>1. /\ w \in Call
          /\ IF outcome[w] = "passed" THEN i = w
             ELSE i # None => outcome[i] = "passed" /\ i \notin opened
      BY <1>b, <2>6 DEF IdentityInv
    <3>2. w # c
      BY <3>1 DEF UseInv
    <3>3. i \in Call \cup {None} /\ outcome[c] # "passed"
      BY DEF TypeOK, MutexInv
    <3> QED
      BY <1>b, <2>6, <3>1, <3>2, <3>3
  <2> QED
    BY <2>5, <2>6
<1>9. WholeInv'
  <2>1. file.by = c /\ file \in [by : Call \cup {None}, whole : BOOLEAN]
    BY DEF TypeOK, FileInv
  <2>2. file'.by = c /\ file'.whole
    BY <2>1
  <2> QED
    BY <2>2 DEF WholeInv
<1> QED
  BY <1>1, <1>2, <1>3, <1>4, <1>5, <1>6, <1>7, <1>8, <1>9

\* The Recognizer is closed.
LEMMA CloseKeeps ==
  ASSUME IInv,
         NEW c \in Call,
         pc[c] = "closing",
         opened' = opened \ {recognizer} /\ recognizer' = None,
         Return(c, "passed"),
         UNCHANGED <<ctxDone, reported, used, identity, file>>
  PROVE  IInv'
<1> USE DEF IInv
<1>a. \A d \in Call \ {c} : pc[d] \notin Holding
  BY DEF MutexInv
<1>b. \A d \in Call \ {c} :
        /\ pc'[d] = pc[d] /\ outcome'[d] = outcome[d]
        /\ used'[d] = used[d] /\ reported'[d] = reported[d]
  BY DEF TypeOK, Return
<1>c. pc'[c] = "returned" /\ outcome'[c] = "passed"
  BY DEF TypeOK, Return
<1>e. \A d \in Call : pc'[d] \notin Holding
  BY <1>a, <1>b, <1>c
<1>1. TypeOK'
  BY DEF TypeOK, Return
<1>2. MutexInv'
  BY DEF TypeOK, MutexInv, Return
<1>3. StageInv'
  BY <1>e DEF StageInv
<1>4. NothingLeaks'
  BY DEF TypeOK, StageInv, NothingLeaks, Return
<1>5. ModelInv'
  BY DEF TypeOK, MutexInv, StageInv, ModelInv, Return
<1>6. UseInv'
  BY <1>b, <1>c, <1>e, UsesKept
<1>7. FileInv'
  BY <1>b, <1>c DEF FileInv
<1>8. IdentityInv'
  BY <1>a, <1>b, <1>c DEF MutexInv, StageInv, ModelInv, UseInv, IdentityInv, Return
<1>9. WholeInv'
  BY <1>b, <1>c, FileKept DEF StageInv
<1> QED
  BY <1>1, <1>2, <1>3, <1>4, <1>5, <1>6, <1>7, <1>8, <1>9

\* Every step of a call, of its context or of the factory keeps the invariant.
LEMMA StepIInv == IInv /\ [Next]_vars => IInv'
<1> SUFFICES ASSUME IInv, [Next]_vars PROVE IInv'
  OBVIOUS
<1>1. ASSUME NEW c \in Call, Enter(c) PROVE IInv'
  BY <1>1, EnterKeeps
<1>2. ASSUME NEW c \in Call, EndContext(c) PROVE IInv'
  BY <1>2, EndContextKeeps
<1>3. ASSUME NEW c \in Call, Lock(c) PROVE IInv'
  <2>1. CASE Expired(c)
    BY <1>3, <2>1, FailureKeeps DEF Lock, MuFree, Expired
  <2>2. CASE Refused(c)
    BY <1>3, <2>2, FailureKeeps DEF Lock, MuFree, Refused
  <2>3. CASE NothingToClose(c)
    BY <1>3, <2>3, FailureKeeps DEF Lock, MuFree, NothingToClose
  <2>4. CASE Admitted(c)
    BY <1>3, <2>4, InitializeKeeps, RecognizeKeeps, ShutdownKeeps DEF Lock, MuFree, Admitted
  <2> QED
    BY <1>3, <2>1, <2>2, <2>3, <2>4 DEF Lock
<1>4. ASSUME NEW c \in Call, Open(c) PROVE IInv'
  <2>1. CASE OpenWholly(c)
    BY <1>4, <2>1, OpenWhollyKeeps DEF Open
  <2>2. CASE OpenPartly(c)
    BY <1>4, <2>2, OpenPartlyKeeps DEF Open, OpenPartly, ReturnFailed
  <2>3. CASE OpenNothing(c)
    BY <1>4, <2>3, OpenNothingKeeps DEF Open
  <2>4. CASE OpenNot(c)
    BY <1>4, <2>4, FailureKeeps DEF Open, OpenNot, ReturnFailed
  <2> QED
    BY <1>4, <2>1, <2>2, <2>3, <2>4 DEF Open
<1>5. ASSUME NEW c \in Call, ReadImage(c) PROVE IInv'
  <2>1. CASE ReturnFailed(c)
    BY <1>5, <2>1, FailureKeeps DEF ReadImage, ReturnFailed
  <2>2. CASE Go(c, "recognizing")
    BY <1>5, <2>2, ReadImageKeeps DEF ReadImage
  <2> QED
    BY <1>5, <2>1, <2>2 DEF ReadImage
<1>6. ASSUME NEW c \in Call, Recognize(c) PROVE IInv'
  <2>1. CASE Go(c, "writing")
    BY <1>6, <2>1, RecognizedKeeps DEF Recognize
  <2>2. CASE Return(c, IF ctxDone[c] THEN "error" ELSE "failed")
    BY <1>6, <2>2, UnrecognizedKeeps DEF Recognize
  <2> QED
    BY <1>6, <2>1, <2>2 DEF Recognize
<1>7. ASSUME NEW c \in Call, Truncate(c) PROVE IInv'
  BY <1>7, TruncateKeeps, FailureKeeps DEF Truncate
<1>8. ASSUME NEW c \in Call, WriteResult(c) PROVE IInv'
  BY <1>8, WriteKeeps, FailureKeeps DEF WriteResult
<1>9. ASSUME NEW c \in Call, Close(c) PROVE IInv'
  BY <1>9, CloseKeeps, FailureKeeps DEF Close
<1>10. CASE UNCHANGED vars
  <2>1. TypeOK'
    BY <1>10 DEF IInv, TypeOK
  <2>2. MutexInv'
    BY <1>10 DEF IInv, MutexInv
  <2>3. StageInv'
    BY <1>10 DEF IInv, StageInv
  <2>4. NothingLeaks'
    BY <1>10 DEF IInv, NothingLeaks
  <2>5. ModelInv'
    BY <1>10 DEF IInv, ModelInv
  <2>6. UseInv'
    BY <1>10 DEF IInv, UseInv
  <2>7. FileInv'
    BY <1>10 DEF IInv, FileInv
  <2>8. IdentityInv'
    BY <1>10 DEF IInv, IdentityInv
  <2>9. WholeInv'
    BY <1>10 DEF IInv, WholeInv
  <2> QED
    BY <2>1, <2>2, <2>3, <2>4, <2>5, <2>6, <2>7, <2>8, <2>9 DEF IInv
<1> QED
  BY <1>1, <1>2, <1>3, <1>4, <1>5, <1>6, <1>7, <1>8, <1>9, <1>10 DEF Next, Work

\* The invariant of module OcrWorker.
THEOREM Invariant == Spec => []IInv
BY InitIInv, StepIInv, PTL DEF Spec

\* Type correctness of OcrWorker, with the mutex: a call past its Lock holds it.
THEOREM TypeCorrect == Spec => []TypeOK
<1>1. IInv => TypeOK
  BY DEF IInv
<1> QED
  BY <1>1, Invariant, PTL

\* What a factory opened, a failed one included, is kept for the next Shutdown.
THEOREM NoLeaks == Spec => []NothingLeaks
<1>1. IInv => NothingLeaks
  BY DEF IInv
<1> QED
  BY <1>1, Invariant, PTL

\* Shutdown closes no Recognizer that an Execute is using.
THEOREM NoUseAfterClose == Spec => []InUseIsOpen
<1>1. IInv => InUseIsOpen
  BY DEF IInv, StageInv, NothingLeaks, InUseIsOpen
<1> QED
  BY <1>1, Invariant, PTL

\* A passed recognition used a model that some initialize opened and reports
\* its Identity if that initialize passed.  If it failed and left its Recognizer
\* behind, the Identity reported is not the model's: it is none, or one an
\* initialize passed with whose model is not open.  A file that is not whole is
\* of a call that is still writing it or has returned an error.
THEOREM TrueResults == Spec => []PassedIsTrue
<1>1. IInv => PassedIsTrue
  <2> SUFFICES ASSUME IInv, NEW c \in Call, Kind[c] = "recognize", outcome[c] = "passed"
               PROVE  /\ used[c] \in Call /\ Kind[used[c]] = "initialize"
                      /\ IF outcome[used[c]] = "passed" THEN reported[c] = used[c]
                         ELSE reported[c] # None =>
                                outcome[reported[c]] = "passed" /\ reported[c] \notin opened
                      /\ file.by \in Call
                      /\ file.whole \/ pc[file.by] = "written" \/ outcome[file.by] = "error"
    BY DEF PassedIsTrue
  <2>1. /\ used[c] \in Call
        /\ IF outcome[used[c]] = "passed" THEN reported[c] = used[c]
           ELSE reported[c] # None =>
                  outcome[reported[c]] = "passed" /\ reported[c] \notin opened
    BY DEF IInv, IdentityInv
  <2>2. Kind[used[c]] = "initialize"
    BY <2>1 DEF IInv, UseInv
  <2>3. file.by \in Call /\ file.by # None
    BY DEF IInv, TypeOK, WholeInv
  <2>4. file.whole \/ pc[file.by] = "written" \/ outcome[file.by] = "error"
    BY <2>3 DEF IInv, WholeInv
  <2> QED
    BY <2>1, <2>2, <2>3, <2>4
<1> QED
  BY <1>1, Invariant, PTL
=============================================================================
