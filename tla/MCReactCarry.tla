----------------------------- MODULE MCReactCarry -----------------------------
(***************************************************************************)
(* A small instance of ReactCarry: two media references, of which one can be  *)
(* pending, and a batch that is split by a question.                         *)
(***************************************************************************)
EXTENDS ReactCarry, MCReactLoop, TLC

CONSTANTS m1, m2

AskingBatch == {<<read, ask, read>>}
MCCaptures == {<<>>, <<m1>>, <<m2>>, <<m1, m2>>, <<m2, m1>>}
MCSymmetry == Permutations({m1, m2})
=============================================================================
