---------------------------- MODULE RunContract ----------------------------
(***************************************************************************)
(* What one provider instance is promised by the SDK that serves it        *)
(* (pluginapi/special/server.go): it is prepared at most once, runs units  *)
(* 1, 2, ... of that one run only after a successful preparation, and sees *)
(* neither preparation nor run once its cleanup has begun.                 *)
(***************************************************************************)
EXTENDS Integers

CONSTANTS
  Run,    \* what identifies a run: its RunID and compiled input
  Units   \* [Run -> Int]: the units its compiled input asks for

\* max(r.Compiled.Units, 1)
Limit(r) == IF Units[r] > 1 THEN Units[r] ELSE 1

VARIABLES
  prepared,  \* "no", "entered", "ok" or "failed": the provider's Prepare
  runs,      \* how many times its Run was entered
  seen,      \* the runs it was prepared for or ran
  closing,   \* its Cleanup was entered
  closed     \* its Cleanup has succeeded

contractVars == <<prepared, runs, seen, closing, closed>>

ContractInit ==
  /\ prepared = "no" /\ runs = 0 /\ seen = {}
  /\ closing = FALSE /\ closed = FALSE

EnterPrepare(r) ==
  /\ prepared = "no" /\ ~closing
  /\ prepared' = "entered" /\ seen' = {r}
  /\ UNCHANGED <<runs, closing, closed>>

EndPrepare ==
  /\ prepared = "entered" /\ ~closing
  /\ prepared' \in {"ok", "failed"}
  /\ UNCHANGED <<runs, seen, closing, closed>>

EnterRun(r) ==
  /\ prepared = "ok" /\ seen = {r} /\ ~closing
  /\ runs < Limit(r) /\ runs' = runs + 1
  /\ UNCHANGED <<prepared, seen, closing, closed>>

\* A cleanup that failed may be entered again, one that succeeded may not.
EnterCleanup(r) ==
  /\ ~closed
  /\ prepared # "no" => seen = {r}
  /\ closing' = TRUE
  /\ UNCHANGED <<prepared, runs, seen, closed>>

EndCleanup ==
  /\ closing /\ ~closed
  /\ closed' = TRUE
  /\ UNCHANGED <<prepared, runs, seen, closing>>

ContractNext ==
  \/ \E r \in Run : EnterPrepare(r) \/ EnterRun(r) \/ EnterCleanup(r)
  \/ EndPrepare \/ EndCleanup

ContractSpec == ContractInit /\ [][ContractNext]_contractVars
=============================================================================
