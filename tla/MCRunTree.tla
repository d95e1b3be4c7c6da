------------------------------- MODULE MCRunTree -------------------------------
(* Small instances of RunTree: the toolsets of two builds, and what is granted. *)
EXTENDS RunTree

CONSTANTS read

MCTools == {read}

\* Two builds, each without something the other has.
MCToolsets == {Names \ {read}, Names \ {Memory}}

MCFactory == {read, Memory, Delegate}
MCGrants == {{read, Memory, Delegate, AskUser}, {read, Schedule}}
\* Of a child that works alone, and of one that may delegate and ask its user.
MCRequests == {{read, Memory}, {read, Delegate, AskUser}}

\* The root and the run it starts propose this many calls.
MCMaxCalls == <<2, 1>>
=============================================================================
