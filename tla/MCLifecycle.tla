---------------------------- MODULE MCLifecycle ----------------------------
(* One provider instance, for TLC. *)
EXTENDS Lifecycle, TLC

CONSTANTS i1, i2, h1, two, unset

\* One run compiled to two units, one whose input names no units.
MCRun == {two, unset}
MCUnits == two :> 2 @@ unset :> 0

Goroutines == Permutations({i1, i2})

\* docs/special-protocol.md:15 (in Chinese): the Host of a phase is void once
\* that phase has ended, and cannot carry a callback of an old execution into
\* the cleanup.
OldHostIsVoid == ~leaked
=============================================================================
