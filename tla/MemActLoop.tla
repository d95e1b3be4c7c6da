------------------------------ MODULE MemActLoop ------------------------------
(***************************************************************************)
(* The MemAct loop of one run (adapters/memact_runtime.py): compose asks the  *)
(* memory for what the newest user message brings to mind, reason and parse   *)
(* think, tool batches are worked off as in CodeAct (ToolBatch), and an       *)
(* answer is a draft until the finalize call has wrapped it in an envelope.   *)
(* One action is one tick, as in ReactLoop.  Memory contents, prompts and the *)
(* transcript other than its user messages are not part of this module.       *)
(***************************************************************************)
EXTENDS ToolBatch

CONSTANTS
  MaxIterations,  \* resolve_max_iterations(limits, scratchpad), at least 1
  Composer,       \* _runtime.memact_composer.enabled
  LoopTail,       \* _runtime.suppress_loop_tail is not set
  MaxMessages     \* bound: guidance messages

ASSUME MemActAssumption ==
  /\ MaxIterations \in Nat \ {0}
  /\ {Composer, LoopTail} \subseteq BOOLEAN
  /\ MaxMessages \in Nat

VARIABLES
  iteration,   \* limits.current_iteration
  stimulus,    \* number of the newest user message: what its compose_key names
  tails,       \* those of the user messages that are loop tails
  appliedKey,  \* memact_composer.applied_key, 0 when there is none
  kgResult,    \* memact_composer.kg_result: none, a dict or something else
  inbox,       \* guidance messages in the inbox
  sent,        \* guidance messages sent so far
  reply,       \* the model response parse is about to read
  draft,       \* temp.draft_answer
  envelope,    \* the response of the finalize call
  answer,      \* temp.final_answer
  skipped,     \* scratchpad.finalize_skipped is set
  out,         \* the output of the run
  h            \* history, read by properties only

memory == <<stimulus, tails, appliedKey, kgResult>>
wrapUp == <<draft, envelope, answer, skipped, out>>
vars == <<node, batchVars, iteration, memory, inbox, sent, reply, wrapUp, h>>

Nodes == {"compose", "reason", "parse", "act", "observe", "waiting",
          "handle_user_response", "finalize", "finalize_parse", "done",
          "max_iterations", "completed", "failed"}

NoReply == [kind |-> "none", batch |-> <<>>]
ModelReply == [kind : {"tools"}, batch : Batches] \union [kind : {"text", "blank"}, batch : {<<>>}]
Envelopes == {"content", "unusable", "absorbed"}
NoOut == [code |-> "none", answer |-> "none", unpolished |-> FALSE]

NoHistory ==
  [queried  |-> {},      \* the stimuli memory was asked about
   again    |-> FALSE,   \* memory was asked about one of them a second time
   said     |-> "none",  \* what the model's last words were
   failed   |-> FALSE]   \* the finalize call failed

-----------------------------------------------------------------------------
(* compose *)

ComposeStep ==
  /\ node = "compose"
  /\ UNCHANGED <<batchVars, iteration, stimulus, tails, inbox, sent, reply, wrapUp>>

\* Mutant: what was composed before is not remembered.
MutantComposed == FALSE

Composed == appliedKey = stimulus /\ kgResult = "none"

ComposeSkip ==
  /\ ComposeStep
  /\ ~Composer \/ Composed
  /\ node' = "reason"
  /\ UNCHANGED <<appliedKey, kgResult, h>>

NoResult == kgResult = "none"

\* The query answers, with a dict or with whatever a host's handler returns, or
\* the run fails.
ComposeQuery ==
  /\ ComposeStep
  /\ Composer
  /\ ~Composed
  /\ NoResult
  /\ \/ kgResult' \in {"dict", "other"} /\ node' = "compose"
     \/ kgResult' = "none" /\ node' = "failed"
  /\ h' = [h EXCEPT !.queried = @ \union {stimulus},
                    !.again = @ \/ stimulus \in h.queried]
  /\ UNCHANGED appliedKey

\* Mutant: a result that is no dict counts as a missing one.
MutantComposeApply ==
  /\ ComposeStep
  /\ Composer
  /\ ~NoResult
  /\ kgResult' = "none"
  /\ appliedKey' = IF kgResult = "dict" THEN stimulus ELSE appliedKey
  /\ node' = IF kgResult = "dict" THEN "reason" ELSE "compose"
  /\ UNCHANGED h

\* A result that is no dict is a failed composition, never a missing one.
ComposeApply ==
  /\ ComposeStep
  /\ Composer
  /\ ~NoResult
  /\ kgResult' = "none"
  /\ appliedKey' = stimulus
  /\ node' = "reason"
  /\ UNCHANGED h

Compose == ComposeSkip \/ ComposeQuery \/ ComposeApply

-----------------------------------------------------------------------------
(* reason, parse *)

BudgetLeft == iteration < MaxIterations

ReasonOutOfBudget ==
  /\ node = "reason"
  /\ ~BudgetLeft
  /\ node' = "max_iterations"
  /\ UNCHANGED <<batchVars, iteration, memory, inbox, sent, reply, wrapUp, h>>

\* What the call carries ends with the user's word: nothing was done since, or
\* the user was asked in the last batch (the results behind the answer no longer
\* follow their announcement and are quoted as the user's).
EndsWithUser == batch = <<>> \/ \E k \in DOMAIN handled : handled[k].how = "asked"

\* place_loop_tail: otherwise the loop position is stored as a user message.
TailPlaced == LoopTail /\ inbox = 0 /\ ~EndsWithUser

\* Drained guidance becomes a user message, and so does the loop tail.
Reason ==
  /\ node = "reason"
  /\ BudgetLeft
  /\ iteration' = iteration + 1
  /\ stimulus' = stimulus + (IF inbox > 0 \/ TailPlaced THEN 1 ELSE 0)
  /\ tails' = tails \union (IF TailPlaced THEN {stimulus + 1} ELSE {})
  /\ inbox' = 0
  /\ \/ reply' \in ModelReply /\ node' = "parse"
     \/ reply' = NoReply /\ node' = "failed"
  /\ UNCHANGED <<batchVars, appliedKey, kgResult, sent, wrapUp, h>>

ParseCalls ==
  /\ node = "parse"
  /\ reply.kind = "tools"
  /\ Propose(reply.batch)
  /\ reply' = NoReply
  /\ node' = "act"
  /\ UNCHANGED <<iteration, memory, inbox, sent, wrapUp, h>>

\* A reply without calls is the draft of the answer, be it blank.
ParseDraft ==
  /\ node = "parse"
  /\ reply.kind # "tools"
  /\ draft' = reply.kind
  /\ reply' = NoReply
  /\ node' = "finalize"
  /\ h' = [h EXCEPT !.said = reply.kind]
  /\ UNCHANGED <<batchVars, iteration, memory, inbox, sent, envelope, answer, skipped, out>>

-----------------------------------------------------------------------------
(* act, observe, handle_user_response: a batch ends back at compose. *)

Act == ActQueue /\ UNCHANGED <<iteration, memory, inbox, sent, reply, wrapUp, h>>

Observe ==
  /\ ObserveQueue("compose")
  /\ UNCHANGED <<iteration, memory, inbox, sent, reply, wrapUp, h>>

\* Mutant: the answer is thought about before it is composed.
MutantAfterResponse == "reason"

AfterResponse == "compose"

HandleUserResponse ==
  /\ ResumeQueue(AfterResponse)
  /\ stimulus' = stimulus + 1
  /\ skipped' = FALSE
  /\ UNCHANGED <<iteration, tails, appliedKey, kgResult, inbox, sent, reply, draft,
                 envelope, answer, out, h>>

-----------------------------------------------------------------------------
(* finalize, finalize_parse, done, max_iterations *)

\* The finalize call is absorbed: its failure is an envelope like another.
Finalize ==
  /\ node = "finalize"
  /\ envelope' \in Envelopes
  /\ node' = "finalize_parse"
  /\ h' = [h EXCEPT !.failed = envelope' = "absorbed"]
  /\ UNCHANGED <<batchVars, iteration, memory, inbox, sent, reply, draft, answer,
                 skipped, out>>

\* Mutant: an envelope that cannot be read empties the answer.
MutantEnveloped == IF envelope = "content" THEN "envelope" ELSE "blank"

\* The envelope's content is the answer, the draft when there is none.
Enveloped == IF envelope = "content" THEN "envelope" ELSE draft

\* Mutant: a call that failed is taken for one without content.
MutantUnpolished == skipped

\* A call that failed is marked, since its memory updates are lost, too.
Unpolished == skipped \/ envelope = "absorbed"

FinalizeParse ==
  /\ node = "finalize_parse"
  /\ answer' = Enveloped
  /\ skipped' = Unpolished
  /\ draft' = "none"
  /\ envelope' = "none"
  /\ node' = "done"
  /\ UNCHANGED <<batchVars, iteration, memory, inbox, sent, reply, out, h>>

Done ==
  /\ node = "done"
  /\ out' = [code |-> "final_answer", answer |-> answer, unpolished |-> skipped]
  /\ node' = "completed"
  /\ UNCHANGED <<batchVars, iteration, memory, inbox, sent, reply, draft, envelope, answer,
                 skipped, h>>

\* Mutant: both terminals report the same outcome.
MutantBudgetOutcome == "final_answer"

BudgetOutcome == "iteration_budget"

\* There is no conclusion call: the held draft, or the assistant's last words.
OutOfBudget ==
  /\ node = "max_iterations"
  /\ out' = [code |-> BudgetOutcome,
             answer |-> IF draft = "text" THEN "text" ELSE "last words",
             unpolished |-> skipped]
  /\ node' = "completed"
  /\ UNCHANGED <<batchVars, iteration, memory, inbox, sent, reply, draft, envelope, answer,
                 skipped, h>>

-----------------------------------------------------------------------------
\* Guidance reaches the run's inbox between two ticks.
Send ==
  /\ sent < MaxMessages
  /\ node \notin {"completed", "failed"}
  /\ sent' = sent + 1
  /\ inbox' = inbox + 1
  /\ UNCHANGED <<node, batchVars, iteration, memory, reply, wrapUp, h>>

\* Nothing is left to do.
Finished ==
  /\ node \in {"completed", "failed"}
  /\ UNCHANGED vars

\* The state init_node and ensure_memact_vars leave behind: the task is the
\* first user message.
Init ==
  /\ node = "compose"
  /\ NoBatch
  /\ iteration = 0
  /\ stimulus = 1
  /\ tails = {}
  /\ appliedKey = 0
  /\ kgResult = "none"
  /\ inbox = 0
  /\ sent = 0
  /\ reply = NoReply
  /\ draft = "none"
  /\ envelope = "none"
  /\ answer = "none"
  /\ skipped = FALSE
  /\ out = NoOut
  /\ h = NoHistory

\* One tick of the runtime.
Tick ==
  \/ Compose \/ ReasonOutOfBudget \/ Reason \/ ParseCalls \/ ParseDraft
  \/ Act \/ Observe \/ HandleUserResponse
  \/ Finalize \/ FinalizeParse \/ Done \/ OutOfBudget

Next ==
  \/ Tick
  \/ UserReplies /\ UNCHANGED <<iteration, memory, inbox, sent, reply, wrapUp, h>>
  \/ Send
  \/ Finished

\* The host drives the run tick by tick; effects return or fail.  The user and
\* the operator promise nothing.
Spec == Init /\ [][Next]_vars /\ WF_vars(Tick)

-----------------------------------------------------------------------------
(* Properties *)

\* Every variable ranges over what the code can store in it.
TypeOK ==
  /\ node \in Nodes
  /\ BatchTypes
  /\ iteration \in 0..MaxIterations
  /\ stimulus \in Nat
  /\ tails \subseteq 1..stimulus
  /\ appliedKey \in 0..stimulus
  /\ kgResult \in {"none", "dict", "other"}
  /\ {inbox, sent} \subseteq 0..MaxMessages
  /\ reply \in ModelReply \union {NoReply}
  /\ draft \in {"none", "text", "blank"}
  /\ envelope \in Envelopes \union {"none"}
  /\ answer \in {"none", "envelope", "text", "blank"}
  /\ skipped \in BOOLEAN

\* compose_node: memory is asked about a message in the user's role at most once,
\* however many tool iterations follow and whatever the query came back with.
QueriedOnce == ~h.again

\* compose_node: a stable composition key, so memory is not asked again on tool
\* iterations.  Memory is asked about what somebody said (the task, guidance, the
\* user's answers), never about the position the loop wrote into the transcript.
AsksOnlyWhatWasSaid == h.queried \intersect tails = {}

\* compose_node runs before reason: with the composer on, the
\* model never thinks before memory was composed for the newest user message,
\* the answer to a question in the middle of a batch included; only guidance
\* drained by the very same call comes too late.
ThinksComposed == (node = "reason" /\ Composer) => appliedKey = stimulus

\* Both: memory is asked when there is something new to ask about, and only then.
AsksWhenNew == QueriedOnce /\ ThinksComposed

\* finalize: a finalize aid must never destroy a held answer.  The run answers
\* blank only if the model did and the envelope holds nothing either; a finalize
\* call that failed is marked in the output, and the answer is the model's own.
AnswerIsKept ==
  out.code = "final_answer" =>
    /\ out.answer = "blank" => h.said = "blank"
    /\ out.unpolished = h.failed
    /\ h.failed => out.answer = h.said

\* The run as its host sees it: giving up over the budget is concluding.
Phase ==
  CASE node = "waiting" -> "asking"
    [] node = "max_iterations" -> "concluding"
    [] node = "completed" -> "ended"
    [] node = "failed" -> "failed"
    [] OTHER -> "working"

Host == INSTANCE AgentTurn WITH
  Budget   <- MaxIterations,
  phase    <- Phase,
  thoughts <- iteration,
  reason   <- IF \/ node = "max_iterations"
                 \/ out.code = "iteration_budget"
              THEN "iteration_budget" ELSE "none",
  verdict  <- out.code

\* A MemAct run keeps the promise of AgentTurn.
KeepsItsPromise == Host!Spec

\* However memory, the model, the tools and the user answer, the run ends, unless
\* its user leaves a question unanswered for good.
RunEnds == <>(node \in {"completed", "failed"}) \/ <>[](node = "waiting")
=============================================================================
