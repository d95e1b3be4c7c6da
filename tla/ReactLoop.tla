------------------------------ MODULE ReactLoop ------------------------------
(***************************************************************************)
(* The ReAct loop of one run (adapters/react_runtime.py): the workflow     *)
(* nodes reason, parse, act, observe, handle_user_response, maybe_review,   *)
(* review, review_parse, done and max_iterations, plus reset_react_turn,    *)
(* which re-enters the loop when a visit workflow composes it.              *)
(*                                                                         *)
(* The runtime ticks one node at a time: it runs the handler, executes the  *)
(* effect the handler returned, stores the effect's result and moves to the *)
(* next node.  One action is one such tick, the effect's result being       *)
(* chosen among what the model, the verifier, the tools or the user may     *)
(* answer.  The transcript (context.messages), media refs, public updates,  *)
(* advisory hints and act_seq are not part of this module.                  *)
(***************************************************************************)
EXTENDS StuckStreak

CONSTANTS
  External,         \* calls of ordinary tools
  SideEffect,       \* those is_side_effect_tool classifies as mutating
  Builtin,          \* calls the loop maps to an effect of their own
  AskUser,          \* the ask_user call
  UpdatePlan,       \* the update_plan call: needs no allowlist entry
  Allowed,          \* builtin calls the effective allowlist grants
  Batches,          \* batches the model may propose
  VerifierBatches,  \* batches the verifier may force
  Answers,          \* what a call may come back with
  Blocked,          \* the answer of a builtin that is not allowed
  MaxIterations,    \* resolve_max_iterations(_limits, scratchpad), at least 1
  ReviewMode,       \* _runtime.review_mode
  MaxReviewRounds,  \* _runtime.review_max_rounds, negative read as 0
  CheckPlan,        \* _runtime.check_plan
  Composed,         \* final_next_node is set: a visit workflow runs the turns
  Turns,            \* bound: turns such a visit has
  MaxMessages       \* bound: messages the operator sends

ASSUME LoopAssumption ==
  /\ MaxIterations \in Nat \ {0}
  /\ MaxReviewRounds \in Nat
  /\ ReviewMode \in BOOLEAN
  /\ CheckPlan \in BOOLEAN
  /\ Composed \in BOOLEAN
  /\ Turns \in Nat \ {0}
  /\ MaxMessages \in Nat
  /\ SideEffect \subseteq External
  /\ External \intersect Builtin = {}
  /\ {AskUser, UpdatePlan} \subseteq Builtin
  /\ Allowed \subseteq Builtin
  /\ Blocked \in Answers
  /\ Succeeding \union Failing \subseteq Answers
  /\ Batches \union VerifierBatches \subseteq Seq(External \union Builtin) \ {<<>>}

VARIABLES
  node,            \* RunState.current_node, or how the run stands
  iteration,       \* scratchpad.iteration
  cycles,          \* scratchpad.cycles
  fence,           \* scratchpad.turn_first_cycle
  nudged,          \* scratchpad.stuck_nudged: key -> hits
  stuck,           \* scratchpad.stuck_streak
  reviewCount,     \* scratchpad.review_count
  reviewSkipped,   \* scratchpad.review_skipped is set
  concluded,       \* scratchpad.concluded_by_operator is set
  queue,           \* temp.pending_tool_calls
  results,         \* temp.tool_results
  reply,           \* the model or verifier response a node is about to read
  forced,          \* temp.review_forced_batch
  formatRetries,   \* temp.tool_format_retries
  concludeRetries, \* temp.max_iterations_conclude_retries
  announced,       \* temp.max_iterations_announced
  inbox,           \* _runtime.inbox
  out,             \* the output of the turn that ended last
  turn,            \* number of the current turn
  sent,            \* messages the operator has sent
  heard,           \* history: nudges a model call has carried since the user last spoke
  h                \* history of the current turn; both are read by properties only

scratchpad == <<iteration, cycles, fence, nudged, stuck, reviewCount, reviewSkipped,
                concluded>>
temp == <<queue, results, reply, forced, formatRetries, concludeRetries, announced>>
vars == <<node, scratchpad, temp, inbox, out, turn, sent, heard, h>>

-----------------------------------------------------------------------------
(* Data *)

Calls == External \union Builtin
Observation == [call : Calls, answer : Answers]
Cycle == [i : Nat, batch : Seq(Calls), obs : Seq(Observation), skipped : BOOLEAN]

NoNudges == [key \in {} |-> 0]
NoStreak == [key |-> NoKey, hits |-> 0, nudged |-> FALSE]
NoReply == [kind |-> "none", batch |-> <<>>]
Codes == {"final_answer", "iteration_budget", "stuck", "operator_conclude"}
Output == [code : Codes, answer : {"model", "stripped", "fallback"}, unreviewed : BOOLEAN]
NoOut == [code |-> "none", answer |-> "none", unreviewed |-> FALSE]

Talk(kinds) == [kind : kinds, batch : {<<>>}]
ModelReply == [kind : {"tools"}, batch : Batches]
              \union Talk({"bad_call", "truncated", "empty", "deferred", "answer"})
VerifierReply == [kind : {"calls"}, batch : VerifierBatches]
                 \union Talk({"complete", "prompt", "silent", "absorbed"})
ConclusionReply == Talk({"text", "nothing", "toolish"})

\* Inbox messages matter by kind; a nudge also by the pattern it names.
Message(kind) == [kind |-> kind, key |-> NoKey]
Nudge(key) == [kind |-> "nudge", key |-> key]
ConcludeWaiting == \E m \in inbox : m.kind = "conclude"
NudgesIn(messages) == {m.key : m \in {x \in messages : x.kind = "nudge"}}

Ended == {"completed", "parked", "failed"}
Nodes == {"reason", "parse", "act", "observe", "waiting", "handle_user_response",
          "maybe_review", "review", "review_parse", "done", "max_iterations"}
         \union Ended

\* What the turn did so far; reset with the turn.
NoHistory ==
  [thinks    |-> 0,       \* LLM calls of reason
   reviews   |-> 0,       \* LLM calls of review
   concludes |-> 0,       \* LLM calls of max_iterations
   announces |-> 0,       \* max_iterations_reached emitted
   repairs   |-> 0,       \* tool-format repairs asked of the model
   rounds    |-> 0,       \* reviews since the model's last tool results
   src       |-> "model", \* who issued the queue
   ran       |-> [batch |-> <<>>, obs |-> <<>>], \* the model's last batch run
   absorbed  |-> FALSE,   \* the verifier failed since the user last replied
   talkedAt  |-> 0,       \* cycles when the user last replied
   cause     |-> "none"]  \* why the turn went to max_iterations or failed

History ==
  [thinks : Nat, reviews : Nat, concludes : Nat, announces : Nat, repairs : Nat,
   rounds : Nat, src : {"model", "verifier"},
   ran : [batch : Seq(Calls), obs : Seq(Observation)], absorbed : BOOLEAN,
   talkedAt : Nat,
   cause : {"none", "iteration_budget", "operator_conclude", "stuck", "bad_call"}]

-----------------------------------------------------------------------------
(* Effects *)

\* LLM_CALL without _absorb_failure: an answer, or the run fails.
CallModel(next, replies) ==
  \/ /\ reply' \in replies
     /\ node' = next
  \/ /\ reply' = NoReply
     /\ node' = "failed"

-----------------------------------------------------------------------------
(* reason *)

\* Mutant: the wall is one iteration late.
MutantBudgetLeft == iteration <= MaxIterations

BudgetLeft == iteration + 1 <= MaxIterations

ReasonOutOfBudget ==
  /\ node = "reason"
  /\ ~BudgetLeft
  /\ node' = "max_iterations"
  /\ h' = [h EXCEPT !.cause = "iteration_budget"]
  /\ UNCHANGED <<scratchpad, temp, inbox, out, turn, sent, heard>>

ReasonConclude ==
  /\ node = "reason"
  /\ BudgetLeft
  /\ ConcludeWaiting
  /\ iteration' = iteration + 1
  /\ concluded' = TRUE
  /\ inbox' = {m \in inbox : m.kind # "conclude"}
  /\ node' = "max_iterations"
  /\ h' = [h EXCEPT !.cause = "operator_conclude"]
  /\ UNCHANGED <<cycles, fence, nudged, stuck, reviewCount, reviewSkipped, temp, out,
                 turn, sent, heard>>

ReasonCall ==
  /\ node = "reason"
  /\ BudgetLeft
  /\ ~ConcludeWaiting
  /\ iteration' = iteration + 1
  /\ inbox' = {}
  /\ CallModel("parse", ModelReply)
  /\ heard' = heard \union NudgesIn(inbox)
  /\ h' = [h EXCEPT !.thinks = @ + 1]
  /\ UNCHANGED <<cycles, fence, nudged, stuck, reviewCount, reviewSkipped, concluded,
                 queue, results, forced, formatRetries, concludeRetries, announced,
                 out, turn, sent>>

-----------------------------------------------------------------------------
(* parse: the cycle is appended first, whatever becomes of it. *)

NewCycle == [i |-> iteration, batch |-> reply.batch, obs |-> <<>>, skipped |-> FALSE]
Proposed == Append(cycles, NewCycle)
Refused == Append(cycles, [NewCycle EXCEPT !.skipped = TRUE])
Verdict == StuckVerdict(Proposed, fence)

\* Mutant: only the newest cycle is looked at.
MutantExecuted == {k \in {Len(cycles)} : k > fence /\ cycles[k].batch # <<>>}

\* The last cycle of the turn, before the new one, whose batch was not refused.
Executed == {k \in (fence + 1)..Len(cycles) : cycles[k].batch # <<>> /\ ~cycles[k].skipped}

RepeatsSideEffect ==
  /\ \E k \in DOMAIN reply.batch : reply.batch[k] \in SideEffect
  /\ Executed # {}
  /\ cycles[Max(Executed)].batch = reply.batch
  /\ AllSucceeded(cycles[Max(Executed)].obs)

ParseProposal ==
  /\ node = "parse"
  /\ reply.kind = "tools"
  /\ reply' = NoReply
  /\ UNCHANGED <<iteration, fence, reviewCount, reviewSkipped, concluded, results, forced,
                 formatRetries, concludeRetries, announced, out, turn, sent>>

ParseStuckStop ==
  /\ ParseProposal
  /\ Verdict # NoVerdict
  /\ MustStop(Verdict, nudged)
  /\ cycles' = Proposed
  /\ stuck' = [key    |-> Verdict.key,
               hits   |-> Hits(Verdict, nudged),
               nudged |-> Verdict.key \in DOMAIN nudged]
  /\ queue' = <<>>
  /\ node' = "max_iterations"
  /\ h' = [h EXCEPT !.cause = "stuck"]
  /\ UNCHANGED <<nudged, inbox, heard>>

\* Only the first detection of a pattern is told to the model.
ParseStuckRefuse ==
  /\ ParseProposal
  /\ Verdict # NoVerdict
  /\ ~MustStop(Verdict, nudged)
  /\ cycles' = Refused
  /\ nudged' = [k \in DOMAIN nudged \union {Verdict.key} |->
                  IF k = Verdict.key THEN Hits(Verdict, nudged) ELSE nudged[k]]
  /\ inbox' = IF Verdict.key \in DOMAIN nudged THEN inbox
              ELSE inbox \union {Nudge(Verdict.key)}
  /\ queue' = <<>>
  /\ node' = "reason"
  /\ UNCHANGED <<stuck, heard, h>>

ParseRepeatGuard ==
  /\ ParseProposal
  /\ Verdict = NoVerdict
  /\ RepeatsSideEffect
  /\ cycles' = Refused
  /\ inbox' = inbox \union {Message("retry")}
  /\ queue' = <<>>
  /\ node' = "reason"
  /\ UNCHANGED <<nudged, stuck, heard, h>>

ParseCalls ==
  /\ ParseProposal
  /\ Verdict = NoVerdict
  /\ ~RepeatsSideEffect
  /\ cycles' = Proposed
  /\ queue' = reply.batch
  /\ node' = "act"
  /\ h' = [h EXCEPT !.src = "model", !.ran = [batch |-> reply.batch, obs |-> <<>>]]
  /\ UNCHANGED <<nudged, stuck, inbox, heard>>

\* No calls were accepted.
ParseSpeech ==
  /\ node = "parse"
  /\ reply.kind # "tools"
  /\ cycles' = Proposed
  /\ reply' = NoReply
  /\ UNCHANGED <<iteration, fence, nudged, stuck, reviewCount, reviewSkipped, concluded,
                 queue, results, forced, concludeRetries, announced, out, turn, sent>>

\* A repair may still be asked for.
RepairLeft == formatRetries < 2 /\ iteration < MaxIterations /\ Batches # {}

ParseBadCall ==
  /\ ParseSpeech
  /\ reply.kind = "bad_call"
  /\ RepairLeft
  /\ formatRetries' = formatRetries + 1
  /\ inbox' = inbox \union {Message("retry")}
  /\ node' = "reason"
  /\ h' = [h EXCEPT !.repairs = @ + 1]
  /\ UNCHANGED heard

\* RuntimeError: the run fails.
ParseBadCallFails ==
  /\ ParseSpeech
  /\ reply.kind = "bad_call"
  /\ ~RepairLeft
  /\ node' = "failed"
  /\ h' = [h EXCEPT !.cause = "bad_call"]
  /\ UNCHANGED <<formatRetries, inbox, heard>>

\* An announced action is retried unless this is the last iteration.
Followthrough == reply.kind = "deferred" /\ CheckPlan /\ iteration < MaxIterations

ParseRetry ==
  /\ ParseSpeech
  /\ reply.kind \in {"truncated", "empty"} \/ Followthrough
  /\ inbox' = inbox \union {Message("retry")}
  /\ node' = "reason"
  /\ UNCHANGED <<formatRetries, heard, h>>

ParseAnswer ==
  /\ ParseSpeech
  /\ reply.kind \in {"answer", "deferred"}
  /\ ~Followthrough
  /\ node' = "maybe_review"
  /\ UNCHANGED <<formatRetries, inbox, heard, h>>

Parse ==
  \/ ParseStuckStop \/ ParseStuckRefuse \/ ParseRepeatGuard \/ ParseCalls
  \/ ParseBadCall \/ ParseBadCallFails \/ ParseRetry \/ ParseAnswer

-----------------------------------------------------------------------------
(* act: the queue is never empty here; every way in leaves a call in it. *)

ActStep ==
  /\ node = "act"
  /\ UNCHANGED <<scratchpad, reply, forced, formatRetries, concludeRetries,
                 announced, inbox, out, turn, sent, heard, h>>

\* A builtin the allowlist does not grant is answered without running.
ActBlocked ==
  /\ ActStep
  /\ Head(queue) \in Builtin \ (Allowed \union {UpdatePlan})
  /\ queue' = Tail(queue)
  /\ results' = <<[call |-> Head(queue), answer |-> Blocked]>>
  /\ node' = "observe"

\* Mutant: the question stays in the queue.
MutantActAskUser ==
  /\ ActStep
  /\ Head(queue) = AskUser
  /\ AskUser \in Allowed
  /\ node' = "waiting"
  /\ UNCHANGED <<queue, results>>

\* ASK_USER: the run waits, and the call gets no result of its own.
ActAskUser ==
  /\ ActStep
  /\ Head(queue) = AskUser
  /\ AskUser \in Allowed
  /\ queue' = Tail(queue)
  /\ node' = "waiting"
  /\ UNCHANGED results

\* update_plan succeeds; memory, delegation and scheduling effects may not.
BuiltinAnswers(call) == IF call = UpdatePlan THEN Succeeding ELSE Answers

ActBuiltin ==
  /\ ActStep
  /\ Head(queue) \in (Allowed \union {UpdatePlan}) \ {AskUser}
  /\ queue' = Tail(queue)
  /\ \E a \in BuiltinAnswers(Head(queue)) :
       results' = <<[call |-> Head(queue), answer |-> a]>>
  /\ node' = "observe"

\* The external calls up to the next builtin go out as one TOOL_CALLS effect.
PrefixLength == Max({k \in 0..Len(queue) : \A j \in 1..k : queue[j] \notin Builtin})

ActBatch ==
  /\ ActStep
  /\ Head(queue) \notin Builtin
  /\ queue' = SubSeq(queue, PrefixLength + 1, Len(queue))
  /\ \E answer \in [1..PrefixLength -> Answers] :
       results' = [k \in 1..PrefixLength |-> [call |-> queue[k], answer |-> answer[k]]]
  /\ node' = "observe"

Act == ActBlocked \/ ActAskUser \/ ActBuiltin \/ ActBatch

-----------------------------------------------------------------------------
(* observe *)

\* The most recent cycle of this iteration: the one that proposed the batch,
\* or the answer the verifier sent back.
CurrentCycle == Max({k \in DOMAIN cycles : cycles[k].i = iteration})

\* Mutant: the results of this act replace those of the earlier ones.
MutantObserved(cycle) == [cycle EXCEPT !.obs = results]

Observed(cycle) == [cycle EXCEPT !.obs = @ \o results]

\* Mutant: any results re-arm the review budget.
MutantReviewCountAfterResults == 0

\* A batch the model issued re-arms the review budget; a forced one does not.
ReviewCountAfterResults == IF forced THEN reviewCount ELSE 0

Observe ==
  /\ node = "observe"
  /\ cycles' = [cycles EXCEPT ![CurrentCycle] = Observed(@)]
  /\ reviewCount' = ReviewCountAfterResults
  /\ results' = <<>>
  /\ forced' = (forced /\ queue # <<>>)
  /\ node' = IF queue # <<>> THEN "act" ELSE "reason"
  /\ h' = IF h.src = "model"
          THEN [h EXCEPT !.rounds = 0, !.ran.obs = @ \o results]
          ELSE h
  /\ UNCHANGED <<iteration, fence, nudged, stuck, reviewSkipped, concluded, queue, reply,
                 formatRetries, concludeRetries, announced, inbox, out, turn, sent, heard>>

-----------------------------------------------------------------------------
(* handle_user_response *)

\* The user answers, or the question's clock expires: the run resumes.
UserReplies ==
  /\ node = "waiting"
  /\ node' = "handle_user_response"
  /\ UNCHANGED <<scratchpad, temp, inbox, out, turn, sent, heard, h>>

HandleUserResponse ==
  /\ node = "handle_user_response"
  /\ reviewSkipped' = FALSE
  /\ stuck' = NoStreak
  /\ nudged' = NoNudges
  /\ announced' = FALSE
  /\ forced' = FALSE
  /\ node' = IF queue # <<>> THEN "act" ELSE "reason"
  /\ heard' = {}
  /\ h' = [h EXCEPT !.rounds = 0, !.absorbed = FALSE, !.talkedAt = Len(cycles)]
  /\ UNCHANGED <<iteration, cycles, fence, reviewCount, concluded, queue, results,
                 reply, formatRetries, concludeRetries, inbox, out, turn, sent>>

-----------------------------------------------------------------------------
(* maybe_review, review, review_parse *)

ReviewDue == ReviewMode /\ reviewCount < MaxReviewRounds

MaybeReview ==
  /\ node = "maybe_review"
  /\ IF ReviewDue
     THEN reviewCount' = reviewCount + 1 /\ node' = "review"
     ELSE reviewCount' = reviewCount /\ node' = "done"
  /\ UNCHANGED <<iteration, cycles, fence, nudged, stuck, reviewSkipped, concluded,
                 temp, inbox, out, turn, sent, heard, h>>

\* The verifier call is absorbed: its failure is a reply like another.
Review ==
  /\ node = "review"
  /\ reply' \in VerifierReply
  /\ node' = "review_parse"
  /\ h' = [h EXCEPT !.reviews = @ + 1, !.rounds = @ + 1]
  /\ UNCHANGED <<scratchpad, queue, results, forced, formatRetries,
                 concludeRetries, announced, inbox, out, turn, sent, heard>>

ReviewParseStep ==
  /\ node = "review_parse"
  /\ reply' = NoReply
  /\ UNCHANGED <<iteration, cycles, fence, nudged, stuck, reviewCount, concluded,
                 results, formatRetries, concludeRetries, announced, out, turn, sent>>

\* The verifier call failed: the held answer stands, and the report says so.
ReviewParseAbsorbed ==
  /\ ReviewParseStep
  /\ reply.kind = "absorbed"
  /\ reviewSkipped' = TRUE
  /\ node' = "done"
  /\ h' = [h EXCEPT !.absorbed = TRUE]
  /\ UNCHANGED <<queue, forced, inbox, heard>>

ReviewParseAccept ==
  /\ ReviewParseStep
  /\ reply.kind \in {"complete", "silent"}
  /\ node' = "done"
  /\ UNCHANGED <<reviewSkipped, queue, forced, inbox, heard, h>>

ReviewParseCalls ==
  /\ ReviewParseStep
  /\ reply.kind = "calls"
  /\ queue' = reply.batch
  /\ forced' = TRUE
  /\ node' = "act"
  /\ h' = [h EXCEPT !.src = "verifier"]
  /\ UNCHANGED <<reviewSkipped, inbox, heard>>

ReviewParsePrompt ==
  /\ ReviewParseStep
  /\ reply.kind = "prompt"
  /\ inbox' = inbox \union {Message("retry")}
  /\ node' = "reason"
  /\ UNCHANGED <<reviewSkipped, queue, forced, heard, h>>

ReviewParse ==
  \/ ReviewParseAbsorbed \/ ReviewParseAccept \/ ReviewParseCalls \/ ReviewParsePrompt

-----------------------------------------------------------------------------
(* done, max_iterations *)

\* A composed turn hands off to the visit workflow; a plain run completes.
EndNode == IF Composed THEN "parked" ELSE "completed"

Done ==
  /\ node = "done"
  /\ out' = [code |-> "final_answer", answer |-> "model", unreviewed |-> reviewSkipped]
  /\ node' = EndNode
  /\ UNCHANGED <<scratchpad, temp, inbox, turn, sent, heard, h>>

ConcludeCall ==
  /\ node = "max_iterations"
  /\ reply = NoReply
  /\ announced' = TRUE
  /\ inbox' = {}
  /\ CallModel("max_iterations", ConclusionReply)
  /\ h' = [h EXCEPT !.concludes = @ + 1,
                    !.announces = IF announced THEN @ ELSE @ + 1]
  /\ UNCHANGED <<scratchpad, queue, results, forced, formatRetries,
                 concludeRetries, out, turn, sent, heard>>

ConcludeStep ==
  /\ node = "max_iterations"
  /\ reply # NoReply
  /\ reply' = NoReply
  /\ UNCHANGED <<scratchpad, queue, results, forced, formatRetries, announced,
                 turn, sent, heard, h>>

\* A conclusion that still calls tools is retried once.
ConcludeRetry ==
  /\ ConcludeStep
  /\ reply.kind = "toolish"
  /\ concludeRetries < 1
  /\ concludeRetries' = concludeRetries + 1
  /\ inbox' = inbox \union {Message("retry")}
  /\ UNCHANGED <<node, out>>

\* Mutant: the operator's request is not named.
MutantStopCode == IF stuck # NoStreak THEN "stuck" ELSE "iteration_budget"

\* _stop_reason: the operator's request is named before a stuck pattern.
StopCode ==
  IF concluded THEN "operator_conclude"
  ELSE IF stuck # NoStreak THEN "stuck"
  ELSE "iteration_budget"

ConcludeFinish ==
  /\ ConcludeStep
  /\ reply.kind = "toolish" => concludeRetries >= 1
  /\ \E answer \in {"model", "stripped", "fallback"} :
       /\ answer = "model" => reply.kind = "text"
       /\ answer = "stripped" => reply.kind = "toolish"
       /\ answer = "fallback" => reply.kind # "text"
       /\ out' = [code |-> StopCode, answer |-> answer, unreviewed |-> reviewSkipped]
  /\ node' = EndNode
  /\ UNCHANGED <<concludeRetries, inbox>>

-----------------------------------------------------------------------------
(* The operator and the visit workflow around the loop *)

\* A steer or conclude command reaches the run's inbox between two ticks.
Send(kind) ==
  /\ sent < MaxMessages
  /\ node \notin {"completed", "failed"}
  /\ sent' = sent + 1
  /\ inbox' = inbox \union {Message(kind)}
  /\ UNCHANGED <<node, scratchpad, temp, out, turn, heard, h>>

\* Mutant: review_skipped survives the turn.
MutantFreshScratch ==
  /\ iteration' = 0
  /\ reviewCount' = 0
  /\ stuck' = NoStreak
  /\ nudged' = NoNudges
  /\ fence' = Len(cycles)
  /\ UNCHANGED <<cycles, concluded, reviewSkipped>>

\* reset_react_turn: what a new turn starts from.
FreshScratch ==
  /\ iteration' = 0
  /\ reviewCount' = 0
  /\ reviewSkipped' = FALSE
  /\ stuck' = NoStreak
  /\ nudged' = NoNudges
  /\ fence' = Len(cycles)
  /\ UNCHANGED <<cycles, concluded>>

\* The carriers of a turn that ended, but for its latch and counters.
FreshCarriers ==
  /\ queue' = <<>>
  /\ results' = <<>>
  /\ reply' = NoReply
  /\ forced' = FALSE

\* Mutant: the count of conclusion retries survives the turn.
MutantFreshTemp ==
  FreshCarriers /\ formatRetries' = 0 /\ announced' = FALSE /\ UNCHANGED concludeRetries

FreshTemp ==
  FreshCarriers /\ formatRetries' = 0 /\ concludeRetries' = 0 /\ announced' = FALSE

NextTurn ==
  /\ node = "parked"
  /\ turn < Turns
  /\ turn' = turn + 1
  /\ FreshScratch
  /\ FreshTemp
  /\ out' = NoOut
  /\ heard' = {}
  /\ h' = NoHistory
  /\ node' = "reason"
  /\ UNCHANGED <<inbox, sent>>

\* Nothing is left to do: the run completed, failed, or its last turn parked.
Finished ==
  /\ node \in Ended
  /\ node = "parked" => turn = Turns
  /\ UNCHANGED vars

-----------------------------------------------------------------------------
(* The state init_node and ensure_react_vars leave behind. *)
Init ==
  /\ node = "reason"
  /\ iteration = 0
  /\ cycles = <<>>
  /\ fence = 0
  /\ nudged = NoNudges
  /\ stuck = NoStreak
  /\ reviewCount = 0
  /\ reviewSkipped = FALSE
  /\ concluded = FALSE
  /\ queue = <<>>
  /\ results = <<>>
  /\ reply = NoReply
  /\ forced = FALSE
  /\ formatRetries = 0
  /\ concludeRetries = 0
  /\ announced = FALSE
  /\ inbox = {}
  /\ out = NoOut
  /\ turn = 1
  /\ sent = 0
  /\ heard = {}
  /\ h = NoHistory

\* One tick of the runtime.
Tick ==
  \/ ReasonOutOfBudget \/ ReasonConclude \/ ReasonCall
  \/ Parse \/ Act \/ Observe \/ HandleUserResponse
  \/ MaybeReview \/ Review \/ ReviewParse
  \/ Done \/ ConcludeCall \/ ConcludeRetry \/ ConcludeFinish

Next ==
  \/ Tick
  \/ UserReplies
  \/ \E kind \in {"guidance", "conclude"} : Send(kind)
  \/ Finished

Spec == Init /\ [][Next]_vars

\* A visit: one turn after the other on the same run variables.
VisitNext == Next \/ NextTurn

VisitSpec == Init /\ [][VisitNext]_vars

\* The host drives a running run tick by tick; an LLM or tool effect returns
\* or fails.  Users, operators and visitors promise nothing.
FairSpec == Spec /\ WF_vars(Tick)
-----------------------------------------------------------------------------
(* Properties *)

ScratchpadOK ==
  /\ iteration \in 0..MaxIterations
  /\ cycles \in Seq(Cycle)
  /\ fence \in Nat
  /\ nudged \in [DOMAIN nudged -> Nat \ {0}]
  /\ reviewCount \in 0..MaxReviewRounds
  /\ reviewSkipped \in BOOLEAN
  /\ concluded \in BOOLEAN

TempOK ==
  /\ queue \in Seq(Calls)
  /\ results \in Seq(Observation)
  /\ reply \in ModelReply \union VerifierReply \union ConclusionReply \union {NoReply}
  /\ forced \in BOOLEAN
  /\ formatRetries \in 0..2
  /\ concludeRetries \in 0..1
  /\ announced \in BOOLEAN

RunOK ==
  /\ node \in Nodes
  /\ out \in Output \union {NoOut}
  /\ turn \in 1..Turns
  /\ sent \in 0..MaxMessages

\* Every variable ranges over what the code can store in it.
TypeOK == ScratchpadOK /\ TempOK /\ RunOK /\ h \in History

\* A turn spends at most two model calls per iteration and two to conclude:
\* retries, refused batches, verifier rounds and forced batches all fit.
CostBound ==
  h.thinks + h.reviews + h.concludes <= 2 * MaxIterations + 2

\* The verifier cannot re-arm its own budget: between two batches the model
\* issued (or the user's word) it judges at most review_max_rounds times, however
\* many batches it forces.
ReviewBudget == h.rounds <= MaxReviewRounds

\* Nobody is stopped unwarned: with the default hard threshold a pattern ends
\* the turn only after a model call has carried the nudge that names it, or
\* when the turn had spent its nudges on other patterns.
NudgedBeforeStopped ==
  (stuck # NoStreak /\ HardThreshold = Absent) =>
    IF stuck.nudged THEN stuck.key \in heard
    ELSE Cardinality(DOMAIN nudged) >= MaxNudges

\* Where parse reaches a verdict on a proposed batch.
Proposing == node = "parse" /\ reply.kind = "tools"

\* The declarative verdict is the one the code's loop computes: same span, same
\* failure class, and silence exactly when the loop stays silent.
VerdictMatchesLoop ==
  Proposing =>
    LET tools == ToolCycles(Proposed, fence)
        w == LoopOver(tools)
        fires == w.run >= ScanAt /\ ~w.differ
        v == RepeatVerdict(tools)
    IN  /\ fires <=> v.kind = "repeat"
        /\ fires => v.span = w.run /\ v.failed = (w.all = {TRUE})

\* A poll whose two newest answers differ is progress: the call being the same is
\* not enough for a repeat verdict, whatever was refused in between.  Nothing is said
\* of an answer further back than the scan reaches.
PollIsNoStreak ==
  Proposing =>
    \A j, k \in (fence + 1)..Len(cycles) :
      /\ j < k
      /\ Len(Proposed) - j < ScanDepth
      /\ cycles[j].obs # <<>> /\ cycles[k].obs # <<>> /\ cycles[j].obs # cycles[k].obs
      /\ \A m \in j..Len(cycles) : cycles[m].batch = reply.batch
      => Verdict.kind # "repeat"

\* A loop keeps its identity while it goes on: refused now and proposed again it is
\* detected again, under the same key and one longer, as far as the scan reaches.
\* The hits that end a turn are counted per key, so a key that drifted would never
\* reach the stop.
LoopKeepsItsKey ==
  Proposing /\ Verdict # NoVerdict /\ StreakThreshold <= ScanDepth =>
    LET tools == ToolCycles(Proposed, fence)
        again == IF Verdict.kind = "repeat" THEN Back(tools, 0).batch
                 ELSE Back(tools, 1).batch
        w == StuckVerdict(Append(Refused, [NewCycle EXCEPT !.batch = again]), fence)
    IN  w.key = Verdict.key /\ w.span = Min({Verdict.span + 1, ScanDepth})

\* The guard sees each loop for what it is, and takes nothing else for one.
StreakIsSound == VerdictMatchesLoop /\ PollIsNoStreak /\ LoopKeepsItsKey

\* How many proposals of one batch it takes, the first in cycle p+1, until the next
\* one is refused as stuck: fewer when all that came back were errors, unless the
\* first of them came back with nothing.
Patience(p) ==
  LET answers == {cycles[k].obs : k \in (p + 1)..Len(cycles)} \ {<<>>}
  IN  IF answers = {} \/ \E a \in answers : ~AllFailed(a) THEN StreakThreshold
      ELSE IF cycles[p + 1].obs # <<>> THEN FailAt
      ELSE Max({StreakThreshold, FailAt})

\* An unanswered or unchanging batch cannot be insisted on: with thresholds the scan
\* can reach, a turn holds at most two proposals of it past its patience, or past
\* the user's last word.
LoopIsCut ==
  (/\ HardThreshold = Absent
   /\ StreakThreshold \in 2..ScanDepth
   /\ FailAt <= ScanDepth) =>
    \A p \in fence..(Len(cycles) - 1) :
      LET run == {cycles[k] : k \in (p + 1)..Len(cycles)}
          answers == {c.obs : c \in run} \ {<<>>}
      IN  /\ \A c \in run : c.batch # <<>>
          /\ \A c, d \in run : c.batch = d.batch
          /\ \A a, b \in answers : a = b
          /\ p > fence => cycles[p].batch \notin {<<>>, cycles[p + 1].batch}
          => Len(cycles) - Max({p, h.talkedAt}) <= Patience(p) + 2

\* Where a batch is still worked off.
Acting == {"act", "observe", "waiting", "handle_user_response"}

\* A refused batch stays unrun, and a batch that ran is recorded whole: one
\* observation per call in the order proposed, except the questions put to the user,
\* over however many acts the queue was split.  What is neither refused nor the last
\* proposal of a turn ran.
RecordIsWhole ==
  \A k \in DOMAIN cycles :
    LET c == cycles[k]
        recorded == {j \in DOMAIN c.batch : c.batch[j] = AskUser => AskUser \notin Allowed}
        ran == c.obs # <<>> \/ (~c.skipped /\ k > fence /\ k < Len(cycles))
    IN  /\ c.skipped => c.obs = <<>>
        /\ node \notin Acting /\ c.batch # <<>> /\ ran =>
             \E place \in [DOMAIN c.obs -> recorded] :
               /\ \A j \in recorded : \E i \in DOMAIN c.obs : place[i] = j
               /\ \A i, j \in DOMAIN c.obs : i < j => place[i] < place[j]
               /\ \A i \in DOMAIN c.obs : c.obs[i].call = c.batch[place[i]]

\* Duplicate side effects: a mutating batch whose calls all succeeded is not run
\* again as the model's next batch, whatever refusals, retries or verifier
\* batches lie between.
NoDuplicateSideEffect ==
  [][ (/\ node = "parse"
       /\ node' = "act"
       /\ \E k \in DOMAIN reply.batch : reply.batch[k] \in SideEffect)
      => ~(h.ran.batch = reply.batch /\ AllSucceeded(h.ran.obs)) ]_vars

\* Each turn that concludes announces it once: the latch is per turn.
AnnouncedOnce ==
  /\ h.announces <= 1
  /\ out.code \notin {"none", "final_answer"} => h.announces = 1

\* A conclusion is stripped of its tool calls only after this turn's own retry.
ConclusionRetried == out.answer = "stripped" => h.concludes = 2

\* The run fails over an unusable tool call only at the end of the budget or
\* after this turn asked the model for two repairs.
RepairsArePerTurn ==
  (node = "failed" /\ h.cause = "bad_call" /\ Batches # {}) =>
    iteration = MaxIterations \/ h.repairs = 2

\* reset_react_turn: latches and counters start each turn of a visit afresh, so
\* no turn skips an announcement, a retry or a repair an earlier one used up.
TurnStartsFresh == AnnouncedOnce /\ ConclusionRetried /\ RepairsArePerTurn

\* The stuck verdict and the unreviewed mark in an output are this turn's.
ReportIsThisTurns ==
  /\ out.code = "stuck" => h.cause = "stuck"
  /\ (out.code # "none" /\ h.cause = "stuck" /\ ~concluded) => out.code = "stuck"
  /\ out.unreviewed => h.absorbed

\* Expected to fail.  docs/hooks.md:251-255: at its next boundary the loop takes an
\* operator's request to conclude, and the turn ends with code operator_conclude.
ConcludeIsTaken ==
  [][node = "reason" /\ ConcludeWaiting /\ node' # node => concluded']_vars

\* docs/hooks.md: reports and complete_output reflect the current turn.  A
\* turn reported as concluded by the operator was.
OperatorStopIsThisTurns ==
  out.code = "operator_conclude" => h.cause = "operator_conclude"

\* The run as its host sees it.
Phase ==
  CASE node = "waiting" -> "asking"
    [] node = "max_iterations" -> "concluding"
    [] node \in {"completed", "parked"} -> "ended"
    [] node = "failed" -> "failed"
    [] OTHER -> "working"

Host == INSTANCE AgentTurn WITH
  Budget   <- MaxIterations,
  phase    <- Phase,
  thoughts <- iteration,
  reason   <- IF h.cause = "bad_call" THEN "none" ELSE h.cause,
  verdict  <- out.code

\* A run of one turn keeps the promise of AgentTurn: in particular no tool runs
\* and no answer is accepted once a turn concludes, and the report names the
\* reason of this very conclusion.
KeepsItsPromise == Host!Spec

\* However the model, the verifier, the tools and the user answer, every turn
\* ends, unless its user leaves a question unanswered for good: questions cannot
\* be asked without end either.
TurnEnds == []<>(node \in Ended) \/ <>[](node = "waiting")
=============================================================================
