------------------------------ MODULE ToolBatch ------------------------------
(***************************************************************************)
(* How the CodeAct and MemAct loops work off a batch of tool calls: the act, *)
(* observe and handle_user_response nodes of adapters/codeact_runtime.py and *)
(* adapters/memact_runtime.py.  The batch is a durable queue: act hands out  *)
(* one builtin or the ordinary calls up to the next builtin, observe takes   *)
(* the results into the transcript and goes back for the rest.  What a call  *)
(* answers does not steer these loops, only that it was handled does.        *)
(***************************************************************************)
EXTENDS Integers, SequencesExt

CONSTANTS
  External,   \* calls of ordinary tools
  Builtin,    \* builtin_effect_tools: calls mapped to an effect of their own
  AskUser,    \* the ask_user call
  Allowed,    \* builtin calls the effective allowlist grants
  Batches     \* batches the model may propose

ASSUME BatchAssumption ==
  /\ External \intersect Builtin = {}
  /\ AskUser \in Builtin
  /\ Allowed \subseteq Builtin
  /\ Batches \subseteq Seq(External \union Builtin) \ {<<>>}

VARIABLES
  node,     \* RunState.current_node, or how the run stands
  queue,    \* temp.pending_tool_calls
  results,  \* temp.tool_results: the calls that came back, and how
  batch,    \* the batch that entered the queue last, or the code that was run
  handled   \* its calls whose outcome the transcript holds, and how they came by it

batchVars == <<queue, results, batch, handled>>

Calls == External \union Builtin
Handled == [call : Calls, how : {"ran", "refused", "asked"}]

Took(call, how) == [call |-> call, how |-> how]

\* A batch enters the queue.
Propose(calls) ==
  /\ queue' = calls
  /\ batch' = calls
  /\ handled' = <<>>
  /\ UNCHANGED results

\* A builtin the allowlist does not grant is answered without running.
ActBlocked ==
  /\ node = "act"
  /\ Head(queue) \in Builtin \ Allowed
  /\ queue' = Tail(queue)
  /\ results' = <<Took(Head(queue), "refused")>>
  /\ node' = "observe"
  /\ UNCHANGED <<batch, handled>>

\* Mutant: the question stays in the queue.
MutantActAskUser ==
  /\ node = "act"
  /\ Head(queue) = AskUser
  /\ AskUser \in Allowed
  /\ node' = "waiting"
  /\ UNCHANGED batchVars

\* The question is the assistant's word, and the run waits for the user.
ActAskUser ==
  /\ node = "act"
  /\ Head(queue) = AskUser
  /\ AskUser \in Allowed
  /\ queue' = Tail(queue)
  /\ handled' = Append(handled, Took(AskUser, "asked"))
  /\ node' = "waiting"
  /\ UNCHANGED <<results, batch>>

\* Delegation and memory effects: each comes back as one result, be it an error.
ActBuiltin ==
  /\ node = "act"
  /\ Head(queue) \in Allowed \ {AskUser}
  /\ queue' = Tail(queue)
  /\ results' = <<Took(Head(queue), "ran")>>
  /\ node' = "observe"
  /\ UNCHANGED <<batch, handled>>

\* The ordinary calls before the next builtin go out as one TOOL_CALLS effect.
PrefixLength == Max({k \in 0..Len(queue) : \A j \in 1..k : queue[j] \notin Builtin})

\* Mutant: the builtin behind the prefix leaves the queue with it.
MutantRest == SubSeq(queue, PrefixLength + 2, Len(queue))

Rest == SubSeq(queue, PrefixLength + 1, Len(queue))

ActBatch ==
  /\ node = "act"
  /\ Head(queue) \notin Builtin
  /\ queue' = Rest
  /\ results' = [k \in 1..PrefixLength |-> Took(queue[k], "ran")]
  /\ node' = "observe"
  /\ UNCHANGED <<batch, handled>>

ActQueue == ActBlocked \/ ActAskUser \/ ActBuiltin \/ ActBatch

\* The results become tool messages; with the queue worked off the loop is
\* back at its first node.
ObserveQueue(first) ==
  /\ node = "observe"
  /\ handled' = handled \o results
  /\ results' = <<>>
  /\ node' = IF queue # <<>> THEN "act" ELSE first
  /\ UNCHANGED <<queue, batch>>

\* The user answers, or the question's clock expires: the run resumes.
UserReplies ==
  /\ node = "waiting"
  /\ node' = "handle_user_response"
  /\ UNCHANGED batchVars

ResumeQueue(first) ==
  /\ node = "handle_user_response"
  /\ node' = IF queue # <<>> THEN "act" ELSE first
  /\ UNCHANGED batchVars

NoBatch ==
  /\ queue = <<>>
  /\ results = <<>>
  /\ batch = <<>>
  /\ handled = <<>>

-----------------------------------------------------------------------------
(* Properties *)

BatchTypes ==
  /\ queue \in Seq(Calls)
  /\ results \in Seq(Handled)
  /\ batch \in Seq(Calls)
  /\ handled \in Seq(Handled)

InBatch == {"act", "observe", "waiting", "handle_user_response"}

\* act_node: a durable queue, to preserve ordering and avoid dropping calls when
\* builtins are interleaved with normal tools.  However a batch is split, asked
\* about and refused, each of its calls is handled once, in the order proposed;
\* nothing the allowlist withholds runs; and the loop goes on to something else
\* only when the whole batch is handled.
CallsAccountedFor ==
  LET log == handled \o results
  IN  /\ batch = [k \in DOMAIN log |-> log[k].call] \o queue
      /\ \A k \in DOMAIN log : log[k].call \in Builtin \ Allowed <=> log[k].how = "refused"
      /\ node \notin InBatch => queue = <<>> /\ results = <<>>
=============================================================================
