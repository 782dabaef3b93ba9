----------------------------- MODULE Lifecycle -----------------------------
(***************************************************************************)
(* The handler Serve installs in its peer (pluginapi/special/server.go)    *)
(* and the Host it hands to the provider.  Each Inv is a handler goroutine *)
(* of that peer (special/peer.go, at most 8 of them); it takes one request *)
(* after another.  The lifecycle slot is a mutex that is only tried, so    *)
(* what a request decides under it is one step, and the provider method,   *)
(* in which anything else may happen, is the gap between two.              *)
(*                                                                         *)
(* A Helper is a goroutine of the provider that uses the Host of some      *)
(* phase; nothing makes it stop when that phase does.                      *)
(***************************************************************************)
EXTENDS Integers, FiniteSets

CONSTANTS
  Inv,     \* the handler goroutines of the plugin's peer
  Helper,  \* goroutines of the provider that call its Host
  Run,     \* what identifies a run: RunID and compiled input
  Units,   \* [Run -> Int]: Compiled.Units
  MaxUnit, \* bound on the unit numbers a request carries
  None     \* no invocation, no run

ASSUME LifecycleAssumption ==
  /\ IsFiniteSet(Inv)
  /\ None \notin Inv /\ None \notin Run
  /\ Units \in [Run -> Int]
  /\ MaxUnit \in Nat

\* "inspect" stands for health, describe, template, compile and
\* report.render, which neither read nor write the state kept here.
Phase == {"prepare", "run", "cleanup"}
Method == Phase \cup {"inspect", "snapshot", "report.prepare"}

\* Of a request only what its method reads.  A request for a phase whose JSON
\* does not decode or whose run ID is empty has run None.
Request ==
  {r \in [method : Method, run : Run \cup {None}, unit : 0 .. MaxUnit] :
     /\ r.method \in Phase \/ r.run = None
     /\ (r.method = "run" /\ r.run # None) \/ r.unit = 0}

NoRequest == [method |-> "inspect", run |-> None, unit |-> 0]

State == {"new", "preparing", "prepared", "prepare_failed", "running",
          "finished", "cleaning", "cleaned"}

VARIABLES
  state, lastUnit, frozen,  \* the variables of Serve; frozen is frozenRun
  gate,      \* who holds the lifecycle mutex
  pc,        \* where each handler goroutine is
  req,       \* the request it serves
  ctx,       \* the context of that request, which phaseCtx derives from
  answer,    \* what the request came to
  host,      \* phaseCtx of the Host a helper has: none, open, ended (with
             \* the request's context) or revoked (its method was left)
  phase,     \* the invocation that Host belongs to, until it is revoked
  helper,    \* idle, or past the check of h.ctx.Err() in invoke
  stale,     \* callbacks each helper sent for a phase that had ended (history)
  leaked,    \* such a callback was sent while a cleanup ran (history)
  prepared, runs, seen, closing, closed  \* what the provider saw (history)

gateVars == <<state, lastUnit, frozen, gate>>
invVars == <<pc, req, ctx, answer>>
hostVars == <<host, phase, helper, stale, leaked>>
seenVars == <<prepared, runs, seen, closing, closed>>
vars == <<gateVars, invVars, hostVars, seenVars>>

Contract == INSTANCE RunContract

Limit(r) == Contract!Limit(r)

InProvider == {i \in Inv : pc[i] = "provider"}

TypeOK ==
  /\ state \in State
  /\ lastUnit \in Nat
  /\ frozen \in Run \cup {None}
  /\ gate \in Inv \cup {None}
  /\ pc \in [Inv -> {"idle", "called", "provider", "leaving", "revoked", "left"}]
  /\ req \in [Inv -> Request]
  /\ ctx \in [Inv -> {"open", "ended"}]
  /\ answer \in [Inv -> {"none", "busy", "rejected", "ok", "error"}]
  /\ host \in [Helper -> {"none", "open", "ended", "revoked"}]
  /\ phase \in [Helper -> Inv \cup {None}]
  /\ helper \in [Helper -> {"idle", "checked"}]
  /\ stale \in [Helper -> Nat]
  /\ leaked \in BOOLEAN
  /\ prepared \in {"no", "entered", "ok", "failed"}
  /\ runs \in Nat
  /\ seen \subseteq Run
  /\ closing \in BOOLEAN /\ closed \in BOOLEAN

Init ==
  /\ state = "new" /\ lastUnit = 0 /\ frozen = None /\ gate = None
  /\ pc = [i \in Inv |-> "idle"]
  /\ req = [i \in Inv |-> NoRequest]
  /\ ctx = [i \in Inv |-> "open"]
  /\ answer = [i \in Inv |-> "none"]
  /\ host = [h \in Helper |-> "none"]
  /\ phase = [h \in Helper |-> None]
  /\ helper = [h \in Helper |-> "idle"]
  /\ stale = [h \in Helper |-> 0]
  /\ leaked = FALSE
  /\ Contract!ContractInit

----------------------------------------------------------------------------
(* Seeded faults: the definitions below as a plausible bug would have them. *)
(* They are part of no specification; each property is tried on one.        *)

\* Seeded fault: the result of TryLock is not looked at.
FaultLock(i) ==
  /\ pc[i] = "called"
  /\ gate' = i
  /\ UNCHANGED <<req, ctx, hostVars>>

\* Seeded fault: a run that never came back does not stop the next unit.
FaultAdmitted(r) ==
  \/ r.method = "prepare" /\ r.run # None /\ state = "new"
  \/ /\ r.method = "run" /\ r.run # None /\ frozen = r.run
     /\ state \in {"prepared", "running", "finished"}
     /\ r.unit = lastUnit + 1 /\ r.unit <= Limit(r.run)

\* Seeded fault: the unit is not recorded.
FaultEnterRun(i) ==
  /\ pc[i] = "called" /\ gate = None
  /\ req[i].method = "run" /\ state \in {"prepared", "finished"}
  /\ req[i].unit = lastUnit + 1
  /\ gate' = i /\ pc' = [pc EXCEPT ![i] = "provider"] /\ state' = "running"
  /\ runs' = runs + 1
  /\ UNCHANGED <<lastUnit, frozen, req, ctx, answer, hostVars, prepared, seen,
                 closing, closed>>

\* Seeded fault: a cleanup that fails restores a state to run from.
FaultEndCleanup(i) ==
  /\ pc[i] = "provider" /\ req[i].method = "cleanup"
  /\ pc' = [pc EXCEPT ![i] = "leaving"]
  /\ state' = IF lastUnit > 0 THEN "finished" ELSE "new"
  /\ UNCHANGED <<lastUnit, frozen, gate, req, ctx, answer, hostVars, seenVars>>

\* Seeded fault: a panic is recorded in a state the other methods do not know.
FaultPanic(i) ==
  /\ pc[i] = "provider"
  /\ pc' = [pc EXCEPT ![i] = "leaving"]
  /\ state' = "failed"
  /\ UNCHANGED <<lastUnit, frozen, gate, req, ctx, answer, hostVars, seenVars>>

\* Seeded fault: the way out after an error skips the unlock.
FaultUnlock(i) ==
  /\ pc[i] = "revoked"
  /\ gate' = IF answer[i] = "error" THEN gate ELSE None
  /\ pc' = [pc EXCEPT ![i] = "left"]
  /\ UNCHANGED <<state, lastUnit, frozen, req, ctx, answer, hostVars, seenVars>>

\* Seeded fault: invoke does not look at the context of the phase.
FaultCallbackCheck(h) ==
  /\ helper[h] = "idle" /\ host[h] # "none"
  /\ helper' = [helper EXCEPT ![h] = "checked"]
  /\ UNCHANGED <<gateVars, invVars, host, phase, stale, leaked, seenVars>>

----------------------------------------------------------------------------
(* A request arrives and finds a handler goroutine.                        *)

Arrive(i) ==
  /\ pc[i] = "idle"
  /\ \E r \in Request : req' = [req EXCEPT ![i] = r]
  /\ pc' = [pc EXCEPT ![i] = "called"]
  /\ UNCHANGED <<gateVars, ctx, answer, hostVars, seenVars>>

\* gate.TryLock fails: the request is refused whatever it asks for.
Busy(i) ==
  /\ pc[i] = "called" /\ gate # None
  /\ pc' = [pc EXCEPT ![i] = "left"]
  /\ answer' = [answer EXCEPT ![i] = "busy"]
  /\ UNCHANGED <<gateVars, req, ctx, hostVars, seenVars>>

Lock(i) ==
  /\ pc[i] = "called" /\ gate = None
  /\ gate' = i
  /\ UNCHANGED <<req, ctx, hostVars>>

\* The unit a run request names: an input without units has one.
UnitOf(r) == IF r.unit = 0 /\ Units[r.run] = 0 THEN 1 ELSE r.unit

\* The checks common to the phases, then those of the phase itself.
Identified(r) ==
  /\ r.run # None
  /\ r.method # "prepare" /\ frozen # None => r.run = frozen

Admitted(r) ==
  \/ r.method = "prepare" /\ Identified(r) /\ state = "new"
  \/ /\ r.method = "run" /\ Identified(r) /\ state \in {"prepared", "finished"}
     /\ UnitOf(r) = lastUnit + 1 /\ UnitOf(r) <= Limit(r.run)
  \/ r.method = "cleanup" /\ Identified(r) /\ state # "cleaned"
  \/ r.method = "snapshot" /\ state \in {"finished", "cleaned"}
  \/ r.method \in {"inspect", "report.prepare"}

\* A cleanup of what is already cleaned succeeds without the provider.
AlreadyClean(r) == r.method = "cleanup" /\ Identified(r) /\ state = "cleaned"

Skip(i, a) ==
  /\ Lock(i)
  /\ pc' = [pc EXCEPT ![i] = "leaving"]
  /\ answer' = [answer EXCEPT ![i] = a]
  /\ UNCHANGED <<state, lastUnit, frozen, seenVars>>

\* Also an unknown method, parameters that do not decode, and an optional
\* interface the provider does not have.
Refuse(i) ==
  /\ \/ ~Admitted(req[i]) /\ ~AlreadyClean(req[i])
     \/ req[i].method \notin Phase
  /\ Skip(i, "rejected")

CleanAgain(i) == AlreadyClean(req[i]) /\ Skip(i, "ok")

Enter(i, m) ==
  /\ req[i].method = m /\ Admitted(req[i])
  /\ Lock(i)
  /\ pc' = [pc EXCEPT ![i] = "provider"]
  /\ UNCHANGED answer

EnterPrepare(i) ==
  /\ Enter(i, "prepare")
  /\ frozen' = req[i].run
  /\ state' = "preparing"
  /\ prepared' = "entered" /\ seen' = seen \cup {req[i].run}
  /\ UNCHANGED <<lastUnit, runs, closing, closed>>

EnterRun(i) ==
  /\ Enter(i, "run")
  /\ lastUnit' = UnitOf(req[i])
  /\ state' = "running"
  /\ runs' = runs + 1 /\ seen' = seen \cup {req[i].run}
  /\ UNCHANGED <<frozen, prepared, closing, closed>>

EnterCleanup(i) ==
  /\ Enter(i, "cleanup")
  /\ state' = "cleaning"
  /\ closing' = TRUE
  /\ UNCHANGED <<lastUnit, frozen, prepared, runs, seen, closed>>

EnterOther(i) ==
  /\ \E m \in Method \ Phase : Enter(i, m)
  /\ UNCHANGED <<state, lastUnit, frozen, seenVars>>

----------------------------------------------------------------------------
(* The provider method returns, or panics: the deferred calls run, what is *)
(* written after the call is not, and handle in special/peer.go answers    *)
(* with an error.                                                          *)

Return(i, m, a) ==
  /\ pc[i] = "provider" /\ req[i].method = m
  /\ pc' = [pc EXCEPT ![i] = "leaving"]
  /\ answer' = [answer EXCEPT ![i] = a]
  /\ UNCHANGED <<lastUnit, frozen, gate, req, ctx, hostVars>>

EndPrepare(i) ==
  \/ /\ Return(i, "prepare", "ok")
     /\ state' = "prepared" /\ prepared' = "ok"
     /\ UNCHANGED <<runs, seen, closing, closed>>
  \/ /\ Return(i, "prepare", "error")
     /\ state' = "prepare_failed" /\ prepared' = "failed"
     /\ UNCHANGED <<runs, seen, closing, closed>>

EndRun(i) ==
  /\ \E a \in {"ok", "error"} : Return(i, "run", a)
  /\ state' = "finished"
  /\ UNCHANGED seenVars

EndCleanup(i) ==
  \/ /\ Return(i, "cleanup", "ok")
     /\ state' = "cleaned" /\ closed' = TRUE
     /\ UNCHANGED <<prepared, runs, seen, closing>>
  \/ /\ Return(i, "cleanup", "error")
     /\ UNCHANGED <<state, seenVars>>

EndOther(i) ==
  /\ \E m \in Method \ Phase, a \in {"ok", "error"} : Return(i, m, a)
  /\ UNCHANGED <<state, seenVars>>

Panic(i) ==
  /\ \E m \in Method : Return(i, m, "error")
  /\ UNCHANGED <<state, seenVars>>

\* defer revoke(): the last registered, so the first to run.
Revoke(i) ==
  /\ pc[i] = "leaving"
  /\ pc' = [pc EXCEPT ![i] = "revoked"]
  /\ host' = [h \in Helper |-> IF phase[h] = i THEN "revoked" ELSE host[h]]
  /\ phase' = [h \in Helper |-> IF phase[h] = i THEN None ELSE phase[h]]
  /\ UNCHANGED <<gateVars, req, ctx, answer, helper, stale, leaked, seenVars>>

\* defer gate.Unlock()
Unlock(i) ==
  /\ pc[i] = "revoked"
  /\ gate' = None
  /\ pc' = [pc EXCEPT ![i] = "left"]
  /\ UNCHANGED <<state, lastUnit, frozen, req, ctx, answer, hostVars, seenVars>>

\* The peer sends the reply once the handler has returned.
Reply(i) ==
  /\ pc[i] = "left"
  /\ pc' = [pc EXCEPT ![i] = "idle"]
  /\ req' = [req EXCEPT ![i] = NoRequest]
  /\ ctx' = [ctx EXCEPT ![i] = "open"]
  /\ answer' = [answer EXCEPT ![i] = "none"]
  /\ UNCHANGED <<gateVars, hostVars, seenVars>>

\* A cancel frame or a deadline ends one request, the closing of the peer all;
\* nobody reads a context that ends once its Host is revoked.
CancelContexts(S) ==
  /\ S # {}
  /\ \A i \in S : pc[i] \in {"called", "provider", "leaving"} /\ ctx[i] = "open"
  /\ ctx' = [i \in Inv |-> IF i \in S THEN "ended" ELSE ctx[i]]
  /\ host' = [h \in Helper |->
                IF phase[h] \in S /\ host[h] = "open" THEN "ended" ELSE host[h]]
  /\ UNCHANGED <<gateVars, pc, req, answer, phase, helper, stale, leaked, seenVars>>

----------------------------------------------------------------------------
(* The Host: remoteHost.invoke looks at the context of the phase, then     *)
(* calls the peer; the two are not one step.                               *)

GiveHost(h, i) ==
  /\ pc[i] = "provider" /\ req[i].method \in Phase \cup {"report.prepare"}
  /\ helper[h] = "idle"
  /\ host' = [host EXCEPT ![h] = ctx[i]]
  /\ phase' = [phase EXCEPT ![h] = i]
  /\ stale' = [stale EXCEPT ![h] = 0]
  /\ UNCHANGED <<gateVars, invVars, helper, leaked, seenVars>>

CallbackCheck(h) ==
  /\ helper[h] = "idle" /\ host[h] = "open"
  /\ helper' = [helper EXCEPT ![h] = "checked"]
  /\ UNCHANGED <<gateVars, invVars, host, phase, stale, leaked, seenVars>>

CallbackSend(h) ==
  /\ helper[h] = "checked"
  /\ helper' = [helper EXCEPT ![h] = "idle"]
  /\ \/ /\ host[h] = "revoked"
        /\ stale' = [stale EXCEPT ![h] = @ + 1]
        /\ leaked' = (leaked \/ \E i \in InProvider : req[i].method = "cleanup")
     \/ /\ host[h] # "revoked"
        /\ UNCHANGED <<stale, leaked>>
  /\ UNCHANGED <<gateVars, invVars, host, phase, seenVars>>

----------------------------------------------------------------------------

Decide(i) ==
  \/ Busy(i) \/ Refuse(i) \/ CleanAgain(i)
  \/ EnterPrepare(i) \/ EnterRun(i) \/ EnterCleanup(i) \/ EnterOther(i)

ProviderEnds(i) ==
  \/ EndPrepare(i) \/ EndRun(i) \/ EndCleanup(i) \/ EndOther(i) \/ Panic(i)

HandlerLeaves(i) == Revoke(i) \/ Unlock(i) \/ Reply(i)

Next ==
  \/ \E i \in Inv : Arrive(i) \/ Decide(i) \/ ProviderEnds(i) \/ HandlerLeaves(i)
  \/ \E S \in SUBSET Inv : CancelContexts(S)
  \/ \E h \in Helper : \/ CallbackCheck(h) \/ CallbackSend(h)
                       \/ \E i \in Inv : GiveHost(h, i)

Spec == Init /\ [][Next]_vars

----------------------------------------------------------------------------
(* Properties.                                                             *)

\* "cleanup is rejected while a provider method is still active": no two
\* provider methods ever overlap, a cancelled one included, for it keeps the
\* lifecycle slot until it really returns.
OneProviderMethod ==
  /\ Cardinality(InProvider) <= 1
  /\ \A i \in InProvider : gate = i

\* A Host can start a callback only while the phase it was made for holds
\* the lifecycle slot: revoke comes before Unlock.
HostNeedsSlot == \A h \in Helper : host[h] = "open" => gate = phase[h]

\* A helper that outlives its phase gets at most one callback through: the
\* one whose check came before the revocation.
AtMostOneStaleCallback == \A h \in Helper : stale[h] <= 1

\* Units run in order and once each, a failed or panicked one too, and no
\* more of them than the compiled input has.
UnitsOnce ==
  /\ runs = lastUnit
  /\ runs > 0 => \E r \in Run : seen = {r} /\ runs <= Limit(r)

\* Whatever phase is entered after a preparation is of the run prepared.
PhasesShareRun ==
  [][\A i \in Inv :
       pc[i] = "called" /\ pc'[i] = "provider" /\ req[i].method \in Phase
         /\ prepared # "no" => seen' = {req[i].run}]_vars

\* A preparation or run that panicked leaves the instance fit for nothing
\* but its cleanup.
PanicNeedsCleanup ==
  [][gate = None /\ state \in {"preparing", "running"} =>
       closing' \/ UNCHANGED <<state, seenVars>>]_vars

\* What the provider sees is what it is promised (module RunContract).
ImplementsContract == Contract!ContractSpec
=============================================================================
