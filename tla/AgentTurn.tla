------------------------------ MODULE AgentTurn ------------------------------
(***************************************************************************)
(* What an agent loop promises its host, without saying how: within a budget *)
(* of thinking steps it works, may stop to ask its user, and ends either    *)
(* with the model's own answer or, once it has a reason to, by concluding.   *)
(* A turn that began to conclude neither thinks nor asks again, is never     *)
(* reported as answered, and its report names the reason it concluded for.   *)
(***************************************************************************)
EXTENDS Naturals

CONSTANT Budget   \* thinking steps per turn

VARIABLES
  phase,     \* working, asking, concluding, ended or failed
  thoughts,  \* thinking steps spent
  reason,    \* why the turn concludes
  verdict    \* what the turn reported when it ended

vars == <<phase, thoughts, reason, verdict>>

Reasons == {"iteration_budget", "stuck", "operator_conclude"}

Init ==
  /\ phase = "working"
  /\ thoughts = 0
  /\ reason = "none"
  /\ verdict = "none"

Think ==
  /\ phase = "working"
  /\ thoughts < Budget
  /\ thoughts' = thoughts + 1
  /\ phase' \in {"working", "failed"}
  /\ UNCHANGED <<reason, verdict>>

Ask ==
  /\ phase = "working"
  /\ phase' = "asking"
  /\ UNCHANGED <<thoughts, reason, verdict>>

Reply ==
  /\ phase = "asking"
  /\ phase' = "working"
  /\ UNCHANGED <<thoughts, reason, verdict>>

Answer ==
  /\ phase = "working"
  /\ thoughts > 0
  /\ phase' = "ended"
  /\ verdict' = "final_answer"
  /\ UNCHANGED <<thoughts, reason>>

\* The budget is a reason only when it is spent; the operator's word costs a
\* thinking step that is not used to think.
Conclude ==
  /\ phase = "working"
  /\ phase' = "concluding"
  /\ \/ /\ thoughts = Budget
        /\ reason' = "iteration_budget"
        /\ thoughts' = thoughts
     \/ /\ thoughts < Budget
        /\ reason' = "operator_conclude"
        /\ thoughts' = thoughts + 1
     \/ /\ thoughts > 0
        /\ reason' = "stuck"
        /\ thoughts' = thoughts
  /\ UNCHANGED verdict

Report ==
  /\ phase = "concluding"
  /\ phase' = "ended"
  /\ verdict' = reason
  /\ UNCHANGED <<thoughts, reason>>

\* A model call or a tool call that cannot be used fails the run.
Fail ==
  /\ phase \in {"working", "concluding"}
  /\ phase' = "failed"
  /\ UNCHANGED <<thoughts, reason, verdict>>

Next == Think \/ Ask \/ Reply \/ Answer \/ Conclude \/ Report \/ Fail

Spec == Init /\ [][Next]_vars
=============================================================================
