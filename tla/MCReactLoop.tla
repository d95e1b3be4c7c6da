----------------------------- MODULE MCReactLoop -----------------------------
(***************************************************************************)
(* Small instances of ReactLoop: the calls, the batches made of them and    *)
(* which builtins the allowlist grants.                                     *)
(***************************************************************************)
EXTENDS ReactLoop

CONSTANTS read, write, ask, plan, remember

MCExternal == {read, write}
MCSideEffect == {write}
MCBuiltin == {ask, plan, remember}

\* remember_note is not on the allowlist, so proposing it is answered "blocked".
MCAllowed == {ask}

\* Repeats and oscillations of a read-only and a mutating batch.
StuckBatches == {<<read>>, <<write>>}

\* Batches that are split over several acts, on both sides of the verifier.
SplitBatches == {<<write>>, <<read, plan, remember>>, <<ask>>}
SplitVerifierBatches == {<<read>>, <<ask, read>>}

NoBatches == {}
OneBatch == {<<read>>}
=============================================================================
