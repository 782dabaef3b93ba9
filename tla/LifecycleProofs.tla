-------------------------- MODULE LifecycleProofs --------------------------
(***************************************************************************)
(* Proofs about module Lifecycle, for any number of handler goroutines,    *)
(* helpers, runs and units.                                                *)
(***************************************************************************)
EXTENDS Lifecycle, FiniteSetTheorems, TLAPS

Holding == {"provider", "leaving", "revoked"}

\* The lifecycle slot is held by the goroutine between TryLock and Unlock.
GateInv ==
  /\ \A i \in Inv : pc[i] \in Holding => gate = i
  /\ gate # None => pc[gate] \in Holding

\* The state of Serve agrees with what the provider saw.
StateInv ==
  /\ state = "new" => prepared = "no"
  /\ state = "preparing" => prepared = "entered"
  /\ state = "prepare_failed" => prepared = "failed"
  /\ state \in {"prepared", "running", "finished"} => prepared = "ok"
  /\ closing <=> state \in {"cleaning", "cleaned"}
  /\ closed <=> state = "cleaned"

\* The frozen run is the one prepared, and units count up from 1 within it.
RunInv ==
  /\ prepared = "no" <=> frozen = None
  /\ seen = IF frozen = None THEN {} ELSE {frozen}
  /\ runs = lastUnit
  /\ lastUnit > 0 => frozen # None /\ lastUnit <= Limit(frozen)

\* A phase still in the provider finds the state as it left it.
MethodInv ==
  \A i \in Inv : pc[i] = "provider" =>
    /\ req[i].method = "prepare" => state = "preparing"
    /\ req[i].method = "run" => state = "running"
    /\ req[i].method = "cleanup" => state = "cleaning"

\* An open Host belongs to a goroutine that has yet to revoke it.
HostInv ==
  \A h \in Helper : host[h] = "open" =>
    phase[h] \in Inv /\ pc[phase[h]] \in {"provider", "leaving"}

\* A helper that has sent a stale callback has been revoked: it starts no
\* other before it is given a Host again.
StaleInv ==
  \A h \in Helper :
    stale[h] > 0 => stale[h] = 1 /\ helper[h] = "idle" /\ host[h] = "revoked"

IInv ==
  TypeOK /\ GateInv /\ StateInv /\ RunInv /\ MethodInv /\ HostInv /\ StaleInv

USE LifecycleAssumption DEF vars, gateVars, invVars, hostVars, seenVars

\* The fields of a request are those its set gives them.
LEMMA RequestFields ==
  ASSUME NEW r \in Request
  PROVE  r.method \in Method /\ r.run \in Run \cup {None} /\ r.unit \in 0 .. MaxUnit
BY DEF Request

\* What an idle handler goroutine holds is a request by its type.
LEMMA NoRequestTyped == NoRequest \in Request
BY DEF NoRequest, Request, Method, Phase

\* Serve starts in the invariant.
LEMMA InitIInv == Init => IInv
<1> SUFFICES ASSUME Init PROVE IInv
  OBVIOUS
<1> USE DEF Init, Contract!ContractInit
<1>1. TypeOK
  BY NoRequestTyped DEF TypeOK, State
<1>2. GateInv /\ MethodInv /\ HostInv /\ StaleInv
  BY DEF GateInv, MethodInv, HostInv, StaleInv, Holding
<1>3. StateInv /\ RunInv
  BY DEF StateInv, RunInv
<1> QED
  BY <1>1, <1>2, <1>3 DEF IInv

\* Every step of a handler goroutine, of the provider or of a helper keeps it.
LEMMA StepIInv == IInv /\ [Next]_vars => IInv'
<1> SUFFICES ASSUME IInv, [Next]_vars PROVE IInv'
  OBVIOUS
<1> USE DEF IInv, TypeOK, GateInv, StateInv, RunInv, MethodInv, HostInv, StaleInv,
    Holding, State
<1>1. ASSUME NEW i \in Inv, Arrive(i) PROVE IInv'
  BY <1>1, RequestFields DEF Arrive
<1>2. ASSUME NEW i \in Inv, Busy(i) PROVE IInv'
  BY <1>2, RequestFields DEF Busy
<1>3. ASSUME NEW i \in Inv, Refuse(i) PROVE IInv'
  BY <1>3, RequestFields DEF Refuse, Skip, Lock
<1>4. ASSUME NEW i \in Inv, CleanAgain(i) PROVE IInv'
  BY <1>4, RequestFields DEF CleanAgain, Skip, Lock, AlreadyClean
<1>5. ASSUME NEW i \in Inv, EnterPrepare(i) PROVE IInv'
  BY <1>5, RequestFields DEF EnterPrepare, Enter, Lock, Admitted, Identified, Method, Phase
<1>6. ASSUME NEW i \in Inv, EnterRun(i) PROVE IInv'
  BY <1>6, RequestFields DEF EnterRun, Enter, Lock, Admitted, Identified, UnitOf
<1>7. ASSUME NEW i \in Inv, EnterCleanup(i) PROVE IInv'
  BY <1>7, RequestFields DEF EnterCleanup, Enter, Lock, Admitted, Identified
<1>8. ASSUME NEW i \in Inv, EnterOther(i) PROVE IInv'
  BY <1>8, RequestFields DEF EnterOther, Enter, Lock, Method, Phase
<1>9. ASSUME NEW i \in Inv, EndPrepare(i) PROVE IInv'
  BY <1>9, RequestFields DEF EndPrepare, Return
<1>10. ASSUME NEW i \in Inv, EndRun(i) PROVE IInv'
  BY <1>10, RequestFields DEF EndRun, Return
<1>11. ASSUME NEW i \in Inv, EndCleanup(i) PROVE IInv'
  <2>1. CASE /\ Return(i, "cleanup", "ok") /\ state' = "cleaned" /\ closed' = TRUE
             /\ UNCHANGED <<prepared, runs, seen, closing>>
    <3>1. state = "cleaning" /\ closing = TRUE
      BY <2>1 DEF Return
    <3>2. TypeOK'
      BY <2>1 DEF Return
    <3>3. GateInv' /\ MethodInv' /\ HostInv' /\ StaleInv'
      BY <2>1 DEF Return
    <3>4. StateInv' /\ RunInv'
      BY <2>1, <3>1 DEF Return
    <3> QED
      BY <3>2, <3>3, <3>4
  <2>2. CASE Return(i, "cleanup", "error") /\ UNCHANGED <<state, seenVars>>
    BY <2>2 DEF Return
  <2> QED
    BY <1>11, <2>1, <2>2 DEF EndCleanup
<1>12. ASSUME NEW i \in Inv, EndOther(i) PROVE IInv'
  BY <1>12, RequestFields DEF EndOther, Return
<1>13. ASSUME NEW i \in Inv, Panic(i) PROVE IInv'
  BY <1>13, RequestFields DEF Panic, Return
<1>14. ASSUME NEW i \in Inv, Revoke(i) PROVE IInv'
  BY <1>14, RequestFields DEF Revoke
<1>15. ASSUME NEW i \in Inv, Unlock(i) PROVE IInv'
  BY <1>15, RequestFields DEF Unlock
<1>16. ASSUME NEW i \in Inv, Reply(i) PROVE IInv'
  BY <1>16, NoRequestTyped DEF Reply
<1>17. ASSUME NEW S \in SUBSET Inv, CancelContexts(S) PROVE IInv'
  BY <1>17, RequestFields DEF CancelContexts
<1>18. ASSUME NEW h \in Helper, CallbackCheck(h) PROVE IInv'
  BY <1>18 DEF CallbackCheck
<1>19. ASSUME NEW h \in Helper, CallbackSend(h) PROVE IInv'
  <2>1. leaked' \in BOOLEAN
    BY <1>19 DEF CallbackSend
  <2>2. /\ helper' \in [Helper -> {"idle", "checked"}]
        /\ stale' \in [Helper -> Nat]
        /\ UNCHANGED <<gateVars, invVars, host, phase, seenVars>>
    BY <1>19 DEF CallbackSend
  <2>3. StaleInv'
    BY <1>19 DEF CallbackSend
  <2> QED
    BY <2>1, <2>2, <2>3
<1>20. ASSUME NEW h \in Helper, \E i \in Inv : GiveHost(h, i) PROVE IInv'
  BY <1>20 DEF GiveHost
<1>21. CASE UNCHANGED vars
  BY <1>21
<1> QED
  BY <1>1, <1>2, <1>3, <1>4, <1>5, <1>6, <1>7, <1>8, <1>9, <1>10, <1>11, <1>12, <1>13,
     <1>14, <1>15, <1>16, <1>17, <1>18, <1>19, <1>20, <1>21
     DEF Next, Decide, ProviderEnds, HandlerLeaves

\* The invariant of module Lifecycle: every state of Serve's variables, of its
\* mutex and of the Hosts it handed out satisfies the six parts above.
THEOREM Invariant == Spec => []IInv
<1> QED
  BY InitIInv, StepIInv, PTL DEF Spec

\* Type correctness of Lifecycle.
THEOREM TypeCorrect == Spec => []TypeOK
<1>1. IInv => TypeOK
  BY DEF IInv
<1> QED
  BY <1>1, Invariant, PTL

\* Mutual exclusion of provider methods (gate in server.go): with any number
\* of requests in progress at most one is inside the provider, and it is the
\* one that holds the lifecycle slot.
THEOREM MutualExclusion == Spec => []OneProviderMethod
<1>1. ASSUME IInv PROVE OneProviderMethod
  <2> USE <1>1 DEF IInv, GateInv, Holding, InProvider
  <2>1. \A i \in InProvider : gate = i
    OBVIOUS
  <2>2. InProvider \subseteq {gate}
    BY <2>1
  <2>3. Cardinality(InProvider) <= Cardinality({gate}) /\ Cardinality({gate}) = 1
    BY <2>2, FS_Singleton, FS_Subset
  <2>4. Cardinality(InProvider) \in Nat
    BY <2>2, FS_Singleton, FS_Subset, FS_CardinalityType
  <2> QED
    BY <2>1, <2>3, <2>4 DEF OneProviderMethod
<1> QED
  BY <1>1, Invariant, PTL

\* Units are run in order, once each, of one run and within its limit.
THEOREM UnitsAreUnique == Spec => []UnitsOnce
<1>1. IInv => UnitsOnce
  BY DEF IInv, RunInv, TypeOK, UnitsOnce
<1> QED
  BY <1>1, Invariant, PTL

\* A Host that can still start callbacks belongs to the phase that holds the
\* lifecycle slot.
THEOREM HostWithinPhase == Spec => []HostNeedsSlot
<1>1. IInv => HostNeedsSlot
  BY DEF IInv, HostInv, GateInv, Holding, HostNeedsSlot
<1> QED
  BY <1>1, Invariant, PTL

\* However many helpers outlive their phase, each gets one stale callback
\* through at most.
THEOREM StaleCallbacksBounded == Spec => []AtMostOneStaleCallback
<1>1. IInv => AtMostOneStaleCallback
  BY DEF IInv, StaleInv, TypeOK, AtMostOneStaleCallback
<1> QED
  BY <1>1, Invariant, PTL

\* From the invariant, a step that enters a phase enters it for the run seen.
LEMMA StepPhasesShareRun ==
  ASSUME IInv, [Next]_vars,
         NEW i \in Inv, pc[i] = "called", pc'[i] = "provider",
         req[i].method \in Phase, prepared # "no"
  PROVE  seen' = {req[i].run}
<1> USE DEF IInv, TypeOK, StateInv, RunInv, Phase
<1>1. PICK j \in Inv : Decide(j)
  BY DEF Next, Arrive, ProviderEnds, EndPrepare, EndRun, EndCleanup, EndOther,
     Panic, Return, HandlerLeaves, Revoke, Unlock, Reply, CancelContexts,
     CallbackCheck, CallbackSend, GiveHost
<1>2. j = i
  BY <1>1 DEF Decide, Busy, Refuse, CleanAgain, Skip, EnterPrepare, EnterRun,
     EnterCleanup, EnterOther, Enter, Lock
<1>3. EnterPrepare(i) \/ EnterRun(i) \/ EnterCleanup(i)
  BY <1>1, <1>2 DEF Decide, Busy, Refuse, CleanAgain, Skip, EnterOther, Enter, Lock
<1>4. ~EnterPrepare(i)
  BY DEF EnterPrepare, Enter, Admitted
<1>5. req[i].run = frozen
  BY <1>3, <1>4 DEF EnterRun, EnterCleanup, Enter, Admitted, Identified
<1> QED
  BY <1>3, <1>4, <1>5 DEF EnterRun, EnterCleanup

\* After a preparation every phase the provider sees is of that run.
THEOREM OneRun == Spec => PhasesShareRun
<1>1. IInv /\ [Next]_vars =>
        \A i \in Inv : pc[i] = "called" /\ pc'[i] = "provider"
          /\ req[i].method \in Phase /\ prepared # "no" => seen' = {req[i].run}
  BY StepPhasesShareRun
<1> QED
  BY <1>1, Invariant, PTL DEF Spec, PhasesShareRun

\* From the invariant, no step but EnterCleanup leaves the state of a panic.
LEMMA StepPanicNeedsCleanup ==
  ASSUME IInv, [Next]_vars, gate = None, state \in {"preparing", "running"}
  PROVE  closing' \/ UNCHANGED <<state, seenVars>>
<1> USE DEF IInv, TypeOK, GateInv, Holding, StateInv, RunInv
<1>1. ASSUME NEW i \in Inv, Decide(i) PROVE closing' \/ UNCHANGED <<state, seenVars>>
  BY <1>1 DEF Decide, Busy, Refuse, CleanAgain, Skip, EnterPrepare, EnterRun,
     EnterCleanup, EnterOther, Enter, Lock, Admitted
<1>2. ASSUME NEW i \in Inv, ProviderEnds(i) PROVE FALSE
  BY <1>2 DEF ProviderEnds, EndPrepare, EndRun, EndCleanup, EndOther, Panic, Return
<1>3. ASSUME NEW i \in Inv, HandlerLeaves(i) \/ Arrive(i)
      PROVE  UNCHANGED <<state, seenVars>>
  BY <1>3 DEF HandlerLeaves, Revoke, Unlock, Reply, Arrive
<1>4. ASSUME NEW h \in Helper,
             CallbackCheck(h) \/ CallbackSend(h) \/ \E i \in Inv : GiveHost(h, i)
      PROVE  UNCHANGED <<state, seenVars>>
  BY <1>4 DEF CallbackCheck, CallbackSend, GiveHost
<1>5. ASSUME NEW S \in SUBSET Inv, CancelContexts(S)
      PROVE  UNCHANGED <<state, seenVars>>
  BY <1>5 DEF CancelContexts
<1> QED
  BY <1>1, <1>2, <1>3, <1>4, <1>5 DEF Next

\* A panic in Prepare or Run leaves nothing but the cleanup: server.go sets
\* the state before the provider method and only a return sets the next one.
THEOREM PanicLeavesCleanup == Spec => PanicNeedsCleanup
<1>1. IInv /\ [Next]_vars =>
        (gate = None /\ state \in {"preparing", "running"} =>
           closing' \/ UNCHANGED <<state, seenVars>>)
  BY StepPanicNeedsCleanup
<1> QED
  BY <1>1, Invariant, PTL DEF Spec, PanicNeedsCleanup

\* From the invariant, a step of Serve is a step of RunContract or a stutter.
LEMMA StepContract ==
  ASSUME IInv, [Next]_vars
  PROVE  [Contract!ContractNext]_(Contract!contractVars)
<1> USE DEF IInv, TypeOK, StateInv, RunInv, MethodInv, Contract!contractVars
<1>1. ASSUME NEW i \in Inv, EnterPrepare(i) PROVE Contract!EnterPrepare(req[i].run)
  BY <1>1 DEF EnterPrepare, Enter, Admitted, Contract!EnterPrepare
<1>2. ASSUME NEW i \in Inv, EnterRun(i) PROVE Contract!EnterRun(req[i].run)
  <2>1. /\ req[i].run = frozen /\ frozen \in Run
        /\ UnitOf(req[i]) = lastUnit + 1 /\ UnitOf(req[i]) <= Limit(req[i].run)
        /\ prepared = "ok" /\ ~closing
    BY <1>2 DEF EnterRun, Enter, Admitted, Identified
  <2>2. Contract!Limit(frozen) \in Int
    BY <2>1 DEF Contract!Limit
  <2>3. runs < Contract!Limit(frozen)
    BY <2>1, <2>2 DEF Limit
  <2> QED
    BY <1>2, <2>1, <2>3 DEF EnterRun, Contract!EnterRun
<1>3. ASSUME NEW i \in Inv, EnterPrepare(i) \/ EnterRun(i) \/ EnterCleanup(i)
      PROVE  req[i].run \in Run
  BY <1>3, RequestFields
     DEF EnterPrepare, EnterRun, EnterCleanup, Enter, Admitted, Identified
<1>4. ASSUME NEW i \in Inv, EnterCleanup(i) PROVE Contract!EnterCleanup(req[i].run)
  BY <1>4 DEF EnterCleanup, Enter, Admitted, Identified, Contract!EnterCleanup
<1>5. ASSUME NEW i \in Inv, EndPrepare(i) PROVE Contract!EndPrepare
  BY <1>5 DEF EndPrepare, Return, Contract!EndPrepare
<1>6. ASSUME NEW i \in Inv, EndCleanup(i)
      PROVE  Contract!EndCleanup \/ UNCHANGED Contract!contractVars
  BY <1>6 DEF EndCleanup, Return, Contract!EndCleanup
<1>7. ASSUME NEW i \in Inv,
             \/ Arrive(i) \/ Busy(i) \/ Refuse(i) \/ CleanAgain(i) \/ EnterOther(i)
             \/ EndRun(i) \/ EndOther(i) \/ Panic(i) \/ HandlerLeaves(i)
      PROVE  UNCHANGED Contract!contractVars
  BY <1>7 DEF Arrive, Busy, Refuse, CleanAgain, Skip, EnterOther, EndRun, EndOther,
     Panic, HandlerLeaves, Revoke, Unlock, Reply
<1>8. ASSUME NEW h \in Helper,
             CallbackCheck(h) \/ CallbackSend(h) \/ \E i \in Inv : GiveHost(h, i)
      PROVE  UNCHANGED Contract!contractVars
  BY <1>8 DEF CallbackCheck, CallbackSend, GiveHost
<1>9. ASSUME NEW S \in SUBSET Inv, CancelContexts(S)
      PROVE  UNCHANGED Contract!contractVars
  BY <1>9 DEF CancelContexts
<1>10. CASE UNCHANGED vars
  BY <1>10
<1> QED
  BY <1>1, <1>2, <1>3, <1>4, <1>5, <1>6, <1>7, <1>8, <1>9, <1>10
     DEF Next, Decide, ProviderEnds, Contract!ContractNext

\* The handler of Serve keeps the promise of module RunContract to its
\* provider: one preparation, then units in order of that run, none of either
\* once a cleanup has begun, and no cleanup after one that succeeded.
THEOREM Refinement == Spec => ImplementsContract
<1>1. Init => Contract!ContractInit
  BY DEF Init
<1> QED
  BY <1>1, StepContract, Invariant, PTL DEF Spec, ImplementsContract, Contract!ContractSpec

=============================================================================
