---------------------------- MODULE MCCodeActLoop ----------------------------
(* Small instances of CodeActLoop: its calls and the batches made of them. *)
EXTENDS CodeActLoop

CONSTANTS read, write, ask, recall, remember

MCExternal == {Code, read, write}
MCBuiltin == {ask, recall, remember}

\* remember_note is not on the allowlist.
MCAllowed == {ask, recall}

MCBatches == {<<read, read>>, <<read, ask, recall, write>>, <<remember, read>>}
MCVerifierBatches == {<<read>>, <<ask, write>>}
=============================================================================
