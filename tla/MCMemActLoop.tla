---------------------------- MODULE MCMemActLoop ----------------------------
(* Small instances of MemActLoop: its calls and the batches made of them. *)
EXTENDS MemActLoop

CONSTANTS read, write, ask, recall, remember

MCExternal == {read, write}
MCBuiltin == {ask, recall, remember}

\* remember_note is not on the allowlist.
MCAllowed == {ask, recall}

MCBatches == {<<read, read>>, <<read, ask, recall, write>>, <<ask>>, <<remember, read>>}
=============================================================================
