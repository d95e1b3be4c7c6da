----------------------------- MODULE CodeActLoop -----------------------------
(***************************************************************************)
(* The CodeAct loop of one run (adapters/codeact_runtime.py): an optional    *)
(* plan, then reason and parse, tool batches (ToolBatch) or a fenced block of *)
(* code, retries of empty replies, a verifier that may force a batch or send  *)
(* the model back to reason, and two terminals.  One action is one tick: the  *)
(* handler, its effect and the effect's result, as in ReactLoop.  Plan texts, *)
(* read hints, media and the transcript are not part of this module.          *)
(***************************************************************************)
EXTENDS ToolBatch

CONSTANTS
  Code,             \* the execute_python call a fenced block becomes
  VerifierBatches,  \* batches the verifier may force
  MaxIterations,    \* resolve_max_iterations(limits, scratchpad), at least 1
  PlanMode,         \* _runtime.plan_mode, and no plan was given
  ReviewMode,       \* _runtime.review_mode
  MaxReviewRounds,  \* _runtime.review_max_rounds, negative read as 0
  FencedFallback    \* fenced_fallback_enabled: code in a reply is run

ASSUME CodeActAssumption ==
  /\ Code \in External
  /\ VerifierBatches \subseteq Seq(Calls) \ {<<>>}
  /\ MaxIterations \in Nat \ {0}
  /\ MaxReviewRounds \in Nat
  /\ {PlanMode, ReviewMode, FencedFallback} \subseteq BOOLEAN

VARIABLES
  iteration,      \* limits.current_iteration
  emptyRetries,   \* scratchpad.empty_response_retry_count
  reviewCount,    \* scratchpad.review_count
  reviewSkipped,  \* scratchpad.review_skipped is set
  reply,          \* the model or verifier response a node is about to read
  held,           \* temp.final_answer
  pendingCode,    \* temp.pending_code is set
  forced,         \* temp.review_forced_batch
  objected,       \* the inbox holds the verifier's next_prompt
  out,            \* the output of the run
  h               \* history, read by properties only

loopVars == <<iteration, emptyRetries, reviewCount, reviewSkipped, held, pendingCode,
              forced, objected, out>>
vars == <<node, batchVars, loopVars, reply, h>>

Nodes == {"plan", "plan_parse", "reason", "parse", "act", "observe", "waiting",
          "handle_user_response", "execute_code", "maybe_review", "review",
          "review_parse", "done", "max_iterations", "completed", "failed"}

NoReply == [kind |-> "none", batch |-> <<>>]
Talk(kinds) == [kind : kinds, batch : {<<>>}]
ModelReply == [kind : {"tools"}, batch : Batches] \union Talk({"empty", "fenced", "answer"})
VerifierReply == [kind : {"calls"}, batch : VerifierBatches]
                 \union Talk({"complete", "prompt", "silent", "absorbed"})

NoOut == [code |-> "none", answer |-> "none", unreviewed |-> FALSE]

NoHistory ==
  [empties  |-> 0,      \* empty replies in a row since a verdict
   rounds   |-> 0,      \* verdicts since the model's last results or the user's word
   forcing  |-> FALSE,  \* the queue was issued by the verifier
   absorbed |-> FALSE,  \* the verifier failed since the user last replied
   unheard  |-> FALSE]  \* the verifier objected and the model was not told since

-----------------------------------------------------------------------------
\* LLM_CALL without _absorb_failure: an answer, or the run fails.
CallModel(next, replies) ==
  /\ \/ reply' \in replies /\ node' = next
     \/ reply' = NoReply /\ node' = "failed"

Plan ==
  /\ node = "plan"
  /\ CallModel("plan_parse", Talk({"answer"}))
  /\ UNCHANGED <<batchVars, loopVars, h>>

PlanParse ==
  /\ node = "plan_parse"
  /\ reply' = NoReply
  /\ node' = "reason"
  /\ UNCHANGED <<batchVars, loopVars, h>>

BudgetLeft == iteration < MaxIterations

ReasonOutOfBudget ==
  /\ node = "reason"
  /\ ~BudgetLeft
  /\ node' = "max_iterations"
  /\ UNCHANGED <<batchVars, loopVars, reply, h>>

\* The inbox is drained into the transcript the call carries.
Reason ==
  /\ node = "reason"
  /\ BudgetLeft
  /\ iteration' = iteration + 1
  /\ objected' = FALSE
  /\ CallModel("parse", ModelReply)
  /\ h' = [h EXCEPT !.unheard = @ /\ ~objected]
  /\ UNCHANGED <<batchVars, emptyRetries, reviewCount, reviewSkipped, held, pendingCode,
                 forced, out>>

-----------------------------------------------------------------------------
(* parse *)

ParseStep ==
  /\ node = "parse"
  /\ reply' = NoReply
  /\ UNCHANGED <<iteration, reviewCount, reviewSkipped, forced, objected, out>>

\* Mutant: a reply that calls tools leaves the count of empty ones.
MutantEmptyRetriesAfterCalls == emptyRetries

EmptyRetriesAfterCalls == 0

ParseCalls ==
  /\ ParseStep
  /\ reply.kind = "tools"
  /\ Propose(reply.batch)
  /\ emptyRetries' = EmptyRetriesAfterCalls
  /\ node' = "act"
  /\ h' = [h EXCEPT !.empties = 0, !.forcing = FALSE]
  /\ UNCHANGED <<held, pendingCode>>

ParseSpeech ==
  /\ ParseStep
  /\ reply.kind # "tools"
  /\ UNCHANGED batchVars

EmptyRetryLeft == emptyRetries < 2

ParseEmptyRetry ==
  /\ ParseSpeech
  /\ reply.kind = "empty"
  /\ EmptyRetryLeft
  /\ emptyRetries' = emptyRetries + 1
  /\ node' = "reason"
  /\ h' = [h EXCEPT !.empties = @ + 1]
  /\ UNCHANGED <<held, pendingCode>>

\* The loop gives up on the model: a canned answer stands in for its own.
ParseEmptyGiveUp ==
  /\ ParseSpeech
  /\ reply.kind = "empty"
  /\ ~EmptyRetryLeft
  /\ emptyRetries' = 0
  /\ held' = "safe"
  /\ node' = "maybe_review"
  /\ h' = [h EXCEPT !.empties = @ + 1]
  /\ UNCHANGED pendingCode

RunsCode == reply.kind = "fenced" /\ FencedFallback

ParseCode ==
  /\ ParseSpeech
  /\ RunsCode
  /\ emptyRetries' = 0
  /\ pendingCode' = TRUE
  /\ node' = "execute_code"
  /\ h' = [h EXCEPT !.empties = 0]
  /\ UNCHANGED held

\* With or without FINAL: any other text is the answer.
ParseAnswer ==
  /\ ParseSpeech
  /\ reply.kind \in {"answer", "fenced"}
  /\ ~RunsCode
  /\ emptyRetries' = 0
  /\ held' = "model"
  /\ node' = "maybe_review"
  /\ h' = [h EXCEPT !.empties = 0]
  /\ UNCHANGED pendingCode

Parse == ParseCalls \/ ParseEmptyRetry \/ ParseEmptyGiveUp \/ ParseCode \/ ParseAnswer

-----------------------------------------------------------------------------
(* act, execute_code, observe, handle_user_response *)

Act ==
  /\ ActQueue
  /\ UNCHANGED <<loopVars, reply, h>>

ExecuteCode ==
  /\ node = "execute_code"
  /\ pendingCode
  /\ pendingCode' = FALSE
  /\ batch' = <<Code>>
  /\ results' = <<Took(Code, "ran")>>
  /\ handled' = <<>>
  /\ node' = "observe"
  /\ h' = [h EXCEPT !.forcing = FALSE]
  /\ UNCHANGED <<queue, iteration, emptyRetries, reviewCount, reviewSkipped, held, forced,
                 objected, out, reply>>

\* Mutant: any results re-arm the review budget.
MutantReviewCountAfterResults == 0

\* A batch the model issued re-arms the review budget; a forced one does not.
ReviewCountAfterResults == IF forced THEN reviewCount ELSE 0

Observe ==
  /\ ObserveQueue("reason")
  /\ reviewCount' = ReviewCountAfterResults
  /\ forced' = (forced /\ queue # <<>>)
  /\ h' = IF h.forcing THEN h ELSE [h EXCEPT !.rounds = 0]
  /\ UNCHANGED <<iteration, emptyRetries, reviewSkipped, held, pendingCode, objected, out,
                 reply>>

HandleUserResponse ==
  /\ ResumeQueue("reason")
  /\ reviewSkipped' = FALSE
  /\ forced' = FALSE
  /\ h' = [h EXCEPT !.rounds = 0, !.forcing = FALSE, !.absorbed = FALSE]
  /\ UNCHANGED <<iteration, emptyRetries, reviewCount, held, pendingCode, objected, out,
                 reply>>

-----------------------------------------------------------------------------
(* maybe_review, review, review_parse *)

ReviewDue == ReviewMode /\ reviewCount < MaxReviewRounds

MaybeReview ==
  /\ node = "maybe_review"
  /\ IF ReviewDue
     THEN reviewCount' = reviewCount + 1 /\ node' = "review"
     ELSE reviewCount' = reviewCount /\ node' = "done"
  /\ UNCHANGED <<batchVars, iteration, emptyRetries, reviewSkipped, held, pendingCode,
                 forced, objected, out, reply, h>>

\* The verifier call is absorbed: its failure is a reply like another.
Review ==
  /\ node = "review"
  /\ reply' \in VerifierReply
  /\ node' = "review_parse"
  /\ h' = [h EXCEPT !.rounds = @ + 1, !.empties = 0]
  /\ UNCHANGED <<batchVars, loopVars>>

ReviewParseStep ==
  /\ node = "review_parse"
  /\ reply' = NoReply
  /\ UNCHANGED <<iteration, emptyRetries, reviewCount, held, pendingCode, out>>

ReviewParseAbsorbed ==
  /\ ReviewParseStep
  /\ reply.kind = "absorbed"
  /\ reviewSkipped' = TRUE
  /\ node' = "done"
  /\ h' = [h EXCEPT !.absorbed = TRUE]
  /\ UNCHANGED <<batchVars, forced, objected>>

ReviewParseAccept ==
  /\ ReviewParseStep
  /\ reply.kind = "complete"
  /\ node' = "done"
  /\ UNCHANGED <<batchVars, reviewSkipped, forced, objected, h>>

ReviewParseCalls ==
  /\ ReviewParseStep
  /\ reply.kind = "calls"
  /\ Propose(reply.batch)
  /\ forced' = TRUE
  /\ node' = "act"
  /\ h' = [h EXCEPT !.forcing = TRUE]
  /\ UNCHANGED <<reviewSkipped, objected>>

\* Mutant: an objection without calls accepts the answer, as ReAct's verifier does.
MutantAfterObjection == "done"

AfterObjection == "reason"

\* Incomplete, and nothing to run: the model goes on, with the prompt if any.
ReviewParseObject ==
  /\ ReviewParseStep
  /\ reply.kind \in {"prompt", "silent"}
  /\ objected' = (objected \/ reply.kind = "prompt")
  /\ node' = AfterObjection
  /\ h' = [h EXCEPT !.unheard = @ \/ reply.kind = "prompt"]
  /\ UNCHANGED <<batchVars, reviewSkipped, forced>>

ReviewParse ==
  ReviewParseAbsorbed \/ ReviewParseAccept \/ ReviewParseCalls \/ ReviewParseObject

-----------------------------------------------------------------------------
(* done, max_iterations *)

Done ==
  /\ node = "done"
  /\ out' = [code |-> "final_answer", answer |-> held, unreviewed |-> reviewSkipped]
  /\ node' = "completed"
  /\ UNCHANGED <<batchVars, iteration, emptyRetries, reviewCount, reviewSkipped, held,
                 pendingCode, forced, objected, reply, h>>

\* Mutant: both terminals report the same outcome.
MutantBudgetOutcome == "final_answer"

BudgetOutcome == "iteration_budget"

\* There is no conclusion call: the answer is the assistant's last words.
OutOfBudget ==
  /\ node = "max_iterations"
  /\ out' = [code |-> BudgetOutcome, answer |-> "last words",
             unreviewed |-> reviewSkipped]
  /\ node' = "completed"
  /\ UNCHANGED <<batchVars, iteration, emptyRetries, reviewCount, reviewSkipped, held,
                 pendingCode, forced, objected, reply, h>>

\* Nothing is left to do.
Finished ==
  /\ node \in {"completed", "failed"}
  /\ UNCHANGED vars

-----------------------------------------------------------------------------
\* The state init_node and ensure_codeact_vars leave behind.
Init ==
  /\ node = IF PlanMode THEN "plan" ELSE "reason"
  /\ NoBatch
  /\ iteration = 0
  /\ emptyRetries = 0
  /\ reviewCount = 0
  /\ reviewSkipped = FALSE
  /\ reply = NoReply
  /\ held = "none"
  /\ pendingCode = FALSE
  /\ forced = FALSE
  /\ objected = FALSE
  /\ out = NoOut
  /\ h = NoHistory

\* One tick of the runtime.
Tick ==
  \/ Plan \/ PlanParse \/ ReasonOutOfBudget \/ Reason \/ Parse
  \/ Act \/ ExecuteCode \/ Observe \/ HandleUserResponse
  \/ MaybeReview \/ Review \/ ReviewParse \/ Done \/ OutOfBudget

Next ==
  \/ Tick
  \/ UserReplies /\ UNCHANGED <<loopVars, reply, h>>
  \/ Finished

\* The host drives the run tick by tick; effects return or fail.  The user
\* promises nothing.
Spec == Init /\ [][Next]_vars /\ WF_vars(Tick)

-----------------------------------------------------------------------------
(* Properties *)

\* Every variable ranges over what the code can store in it.
TypeOK ==
  /\ node \in Nodes
  /\ BatchTypes
  /\ iteration \in 0..MaxIterations
  /\ emptyRetries \in 0..2
  /\ reviewCount \in 0..MaxReviewRounds
  /\ {reviewSkipped, pendingCode, forced, objected} \subseteq BOOLEAN
  /\ reply \in ModelReply \union VerifierReply \union {NoReply}
  /\ held \in {"none", "model", "safe"}
  /\ out \in [code : {"none", "final_answer", "iteration_budget"},
              answer : {"none", "model", "safe", "last words"}, unreviewed : BOOLEAN]

\* observe_node: the verifier cannot re-arm its own budget.  Between two pieces
\* of work the model issued, a tool batch or a block of code, or the user's word,
\* it judges at most review_max_rounds times.
ReviewBudget == h.rounds <= MaxReviewRounds

\* parse_node: only consecutive empty replies count.  The canned answer is given
\* after the third empty reply in a row, never earlier and never later.
GivesUpOnThirdEmpty ==
  /\ h.empties <= 3
  /\ node = "maybe_review" => (held = "safe" <=> h.empties = 3)

\* Both counters: neither the verifier nor an empty reply can be had without end.
RoundsAreCounted == ReviewBudget /\ GivesUpOnThirdEmpty

\* An answer the verifier objected to is not given as final over its objection:
\* the model has been told first, or the budget is spent.
ObjectionIsHeard == out.code = "final_answer" => ~h.unheard

\* The run as its host sees it: giving up over the budget is concluding.
Phase ==
  CASE node = "waiting" -> "asking"
    [] node = "max_iterations" -> "concluding"
    [] node = "completed" -> "ended"
    [] node = "failed" -> "failed"
    [] OTHER -> "working"

Host == INSTANCE AgentTurn WITH
  Budget   <- MaxIterations,
  phase    <- Phase,
  thoughts <- iteration,
  reason   <- IF \/ node = "max_iterations"
                 \/ out.code = "iteration_budget"
              THEN "iteration_budget" ELSE "none",
  verdict  <- out.code

\* A CodeAct run keeps the promise of AgentTurn.
KeepsItsPromise == Host!Spec

\* However the model, the verifier, the tools and the user answer, the run ends,
\* unless its user leaves a question unanswered for good.
RunEnds == <>(node \in {"completed", "failed"}) \/ <>[](node = "waiting")
=============================================================================
