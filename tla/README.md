# A formal model of AbstractAgent

TLA+ modules for the core of AbstractAgent: the three agent loops (ReAct,
CodeAct, MemAct), the guidance that reaches a running agent, the transcript an
agent sends to its model, the runs a task grows into by delegating and
scheduling, and the facades through which a host drives all of it. TLC checks
them on small instances; TLAPS proves their types, every safety invariant and
action property the runs check, and that each loop implements its promise, for
every value of the constants.

Paths are given from the repository's root; `adapters/` and `agents/` stand for
`src/abstractagent/adapters/` and `src/abstractagent/agents/`.

## 1. Inventory

An agent is a workflow: a set of node functions that AbstractRuntime, an external
package, ticks one at a time. A tick loads the run from the run store, calls the
handler of the current node, performs the effect the handler returned (a model
call, a batch of tool calls, a question to the user, a child run, a memory or
event effect), stores the effect's result under a key of `run.vars` and saves the
run. All state of an agent that has to survive a crash is therefore in
`run.vars`: `context` (task, messages), `scratchpad` (counters, cycles), `_runtime`
(settings, inbox), `_temp` (what one node leaves for the next) and `_limits`.

| component | state | operations | what is hard | what makes it correct |
|---|---|---|---|---|
| **ReAct loop** `adapters/react_runtime.py` | iteration, cycles, pending tool calls and results, retry counters, review count, latches, stop report | one per node: reason, parse, act, observe, handle_user_response, maybe_review, review, review_parse, done, max_iterations | five retries lead back to reason; batches are split over several ticks; a verifier forces batches of its own; three causes of concluding compete | a turn ends, within budgets; it is stopped only after a warning; side effects are not repeated; the report names the real cause |
| **Stuck-streak guard** same file | the last cycles of the turn, hits per pattern | detect a repeat or an oscillation, nudge, stop | the history mixes answered, refused, failed and wordy cycles | a loop is seen, a poll is not, and a loop keeps its identity while it lasts |
| **Visit composition** `reset_react_turn` | everything above, across turns | re-enter the loop for the next turn of a visit | state of one turn leaks into the next | every report, latch and counter is the turn's own |
| **CodeAct loop** `adapters/codeact_runtime.py` | the same kinds, plus pending code | plan, plan_parse, execute_code besides the nodes above | empty replies, objections and forced batches interleave | nothing is dropped from a batch; retries and reviews stay bounded; objections are heard |
| **MemAct loop** `adapters/memact_runtime.py` | composer bucket, draft answer, envelope | compose, finalize, finalize_parse besides reason, parse, act, observe | compose re-enters itself outside the iteration budget; user messages arrive from three sides | composed once per message; an answer survives a failed finalize |
| **Guidance** `adapters/loop_hooks.py`, `agents/base.py` | queues per run in host memory; the run's durable inbox | steer from a hook, fold and drain, discard and report at the end, inject_message, discard after failure | threads, crashes, caps, lost updates | at most once, in order, to the right run; what was accepted is absorbed or reported |
| **Transcript repair** `adapters/transcripts.py` | none: a function of the durable messages | stamp ids, repair, place the loop tail | results, questions, guidance and tails interleave | strict providers accept the payload; nothing is lost; the prefix is stable |
| **Agent facades** `agents/*.py` | run id, session messages, handlers | start, step, resume, run_to_completion, inject_message, save, load, cancel | a host may call them in any order, and several facades, a saved reference and a queue of tasks share one store | sessions are kept apart; guidance stays with its task; a session goes on from its last run; ended records are kept |
| **Delegation**, in the act nodes | allowlist, grants | start a child run, schedule a run | grants are inherited, requested by the model, pruned when a tool is missing, and rewritten by a host | no run outgrows what the host granted it or a run above it; a lost grant is announced |
| **Effect idempotency**, in the act nodes | act_seq, the runtime's ledger | number each issued batch | a crash between an effect and the save of its result | a batch is answered by its own result, and a recorded one is not repeated |
| **Task reset** `agents/task_reset.py` | the vars of a finished run | make them fit for the next task | leftovers | the next task starts clean |
| **Media references, public updates** `adapters/media.py`, `adapters/public_updates.py` | one-shot references; an update bound to a batch | attach, stash, restore | retries | shown exactly once, with the right request |
| **Run parameters, hints, prompts, manifests, sandbox, metrics, REPL** | none, or pure I/O | | | |

How they interact. The loops call the hooks' dispatch from every handler, and a
hook may answer by steering the run; reason folds that queue and the durable inbox
into the transcript; the transcript repair turns the transcript into the request;
the conclusion of a turn discards and reports what is left. Hosts reach the same
state from the outside: `inject_message` and the run store's inbox, the facade's
cleanup after a failed run, and answers to a waiting run.

## 2. Modules

| module | models |
|---|---|
| `StuckStreak` | the verdict on a history of cycles and the decision to stop: pure operators |
| `ReactLoop` | one ReAct run, all ten nodes and `reset_react_turn` |
| `ReactCarry` | what rides along with `ReactLoop` from node to node: media references, and the public words of a batch |
| `AgentTurn` | what any of the loops promises its host: the abstract specification |
| `ToolBatch` | how CodeAct and MemAct work off a batch: act, observe, handle_user_response |
| `CodeActLoop` | one CodeAct run, on top of `ToolBatch` |
| `MemActLoop` | one MemAct run, on top of `ToolBatch` |
| `Steering` | guidance from hooks and hosts to several runs ticked by several threads |
| `Transcript` | `sanitize_transcript_messages`: pure operators |
| `TranscriptLoop` | the transcript the ReAct loop grows from any one it was handed, the history window, the repair, and the loop tail |
| `RunTree` | the runs a task grows into, their grants, the ledger of effects, and restarts |
| `AgentFacade` | several facades, a saved reference and a door with its task reset, over one store of runs |
| `Places` | the members of a set of places in order: how a list is filtered |
| `ReactLoopProofs`, `CodeActLoopProofs`, `MemActLoopProofs`, `SteeringProofs`, `RunTreeProofs`, `AgentFacadeProofs`, `TranscriptProofs` | theorems about the module they are named after; the first also about `StuckStreak` and `ReactCarry`, the last about `Transcript` and `TranscriptLoop` |
| `ToolBatchProofs` | lemmas the CodeAct and MemAct proofs cite: one per step of a batch's queue, and what `Max` returns |
| `MC...` | the instances TLC checks: batches, toolsets, handed-over messages, symmetries |

**One action is one tick.** A handler, the effect it returns and the effect's
result are one step; the result is chosen among what the model, the verifier, a
tool or the user may come back with. `node` is the node the runtime ticks next.
The names of the variables are those of the keys they model; each is commented
with its key. A handler with several exits is a disjunction of actions, one per
exit (`Parse == ParseProposal \/ ...`), each with the exit's condition as its guard.
`h`, `heard`, `batch`, `handled`, `owed`, `explained` and `endedBy` are history
variables, there for the properties and for bounds. (In MemActLoop they also say
how the transcript ends, which the code reads from the transcript itself.)

**Data.** A call is a model value; its answer is a member of a small set that
tells success, failure and refusal apart, and two successes when repeats are in
question. A model reply is a kind (`tools`, `answer`, `empty`, `truncated`,
`bad_call`, `deferred`, ...) and a batch. An inbox message matters by its kind.
Integers are unbounded in Python and here.

**Three loops, one promise.** `AgentTurn` says what a host may rely on: a turn
works within a budget of thinking steps, may ask and wait, and either answers or
concludes for a reason it then reports; once it concludes it neither thinks nor
asks again. `ReactLoop`, `CodeActLoop` and `MemActLoop` each instantiate it
with a refinement mapping (`Phase`, the iteration, the reason, the code of the
output), check `KeepsItsPromise` and have it proved.

**ReactCarry** takes every step of `ReactLoop` together with what the same code does
to the pending media references, their stash, the turn's opt-in to public words,
the words of the newest cycle and their binding to a batch. `CarrySpec` therefore
implies `VisitSpec`, which `LoopOfCarry` proves, and every invariant of the loop
holds of it. An update is known by the number of its cycle, which is what the
code makes its id of. Its properties compare with what was captured (`owed`) and
written (`explained`), kept apart from the variables of the code.

**StuckStreak** defines the verdict on a history twice: as a run of equal proposals
whose answers agree (`RepeatSpan`), which is what the guard's docstring describes, and
as the loop the code runs over the scanned cycles (`LoopStart`, `LoopStep`,
`LoopOver`). `StreakIsSound` says that the two agree on every proposal, that a poll is
no streak, and that a streak which goes on keeps its key.

**Transcript** writes the repair without recursion: a message that stays becomes the
entry of itself followed by the results of its calls (`Block`), blocks are joined in
the order of the messages, and neighbouring user entries are merged (`Joined`). An entry
carries its `parts`: which messages it is made of, and whether as itself, as an unpaired
or late result quoted to the user, or as a stand-in for a result that is missing.
In **TranscriptLoop** a host may ask for a history window (`_history_window_view`):
`reason` repairs what the window keeps. The window is the runtime's, so how many turns fit
is left open at every request (`Cuts`): any cut before a user message may be chosen, but
none into the turn in progress if the host marks where it begins (`Marked`); a notice
comes in place of what is left out (`Windowed`).

**Steering** keeps of a node only what touches guidance, but splits a tick into
load, body (with the hooks that fire), and save, and `inject_message` into its load
and its save, because another thread or a crash can come between them: the host may
write a run that is being ticked, and either save then undoes the other. A run may wait
(`Ask`, `Answer`) and may be cancelled at any time, in the middle of a tick, too. `given`
remembers of each message what it met: a run at rest, one being ticked, one that was
closing or one that had ended. `Facade` says that the host drives runs through
`run_to_completion`.

**RunTree** keeps of the loop what `act` hands to the runtime and splits its tick
into handler, ledger lookup, effect, record and save, because a restart can come
between any two, possibly with another build that lacks a tool. `reach` is what the host
granted a run or a run above it, `granted` what it was granted last, `told` what the
run was told it lost, `fresh` the results performed for the batch at hand. Any run may
ask its user (`Ask`, `Respond`), a delegated one too if its explicit list of tools was
granted `ask_user`; its parent waits for it.

**AgentFacade** has one action per public method that changes state. A door is the
host loop of `agents/task_reset.py` that starts the next queued task from the vars
of a finished one; `DoorNames` says whether it names the actor and the session of
the run it starts. `said` holds
the message lists, an entry being the run that wrote it; a list is kept apart from
the run that points to it, because in memory two runs may point to the same one.

## 3. Runs

| run | shows |
|---|---|
| `ReactStuck` | a model that repeats and alternates a read and a write: the code's scan gives the verdict of an independent definition of a loop, and changing answers are none (`StreakIsSound`); a loop is warned about before it is stopped (`NudgedBeforeStopped`) and stopped in bounded time (`LoopIsCut`); a side effect that succeeded is not run again next (`NoDuplicateSideEffect`) |
| `ReactTurn` | one turn with questions, split batches on both sides of a verifier, guidance and conclude requests: `ReviewBudget`, `RecordIsWhole`, `CostBound`, the refinement `KeepsItsPromise`, and `TurnEnds` |
| `ReactVisit` | two turns of a visit: every latch, counter and report is the turn's own (`TurnStartsFresh`, `ReportIsThisTurns`); a captured image is shown until a reply to it is accepted and never after (`MediaIsSeenOnce`); words explain the calls they came with (`WordsStayWithTheirCalls`) |
| `SteerRuns` | two runs on two threads that may wait and be cancelled, with a crash and host writes at any time: guidance reaches its own run at most once and in order (`DeliveredOnceInOrder`), what the inbox of a run at rest took is absorbed or reported (`NothingSilentlyLost`), queues end with their runs (`NoQueueOutlivesItsRun`) and go to their run's own tick (`QueuedIsHandedOver`) |
| `TranscriptTail` | from any transcript of up to three strange messages, with call ids the model may have chosen, questions anywhere in a batch and any window: every request is one a strict provider accepts (`RequestIsAccepted`), with nothing dropped that the window keeps (`NothingDropped`), no false loss but behind a question of the same batch (`LostBehindAQuestion`), and extends the one before while the window stands still (`SentIsPrefix`) |
| `CodeActRun` | a plan, code blocks, split and forced batches, empty replies, objections: every call is handled once and in order (`CallsAccountedFor`), the verifier and the retries are counted (`RoundsAreCounted`), an objection reaches the model before the answer (`ObjectionIsHeard`), `KeepsItsPromise`, `RunEnds` |
| `MemActRun` | questions in the middle of batches and guidance: memory is asked once for each thing the user said (`AsksWhenNew`), an answer survives its finalize call (`AnswerIsKept`), `KeepsItsPromise`, `RunEnds` |
| `RunTree` | a run that delegates, schedules and asks, over a restart that may change the toolset and a host that rewrites an allowlist: `NobodyOutgrowsTheHost`, `LossIsAnnounced`, `AnsweredByItsOwn`, `RecordedOnce`, and every call is answered (`CallsAreAnswered`) unless its run, or one it waits for, waits for ever for its user |
| `FacadeRuns` | two facades, one made anew, a saved reference and a door: `SessionsAreKeptApart`, `GuidanceStaysWithItsTask`, `SessionGoesOn`, `EndedRecordsAreKept` |
| `ReactStaleConclude`, `TranscriptSplit`, `MemActTail` | the first three findings of section 6: TLC finds the property violated |

Four more instances are kept beside the runs, to be tried by hand (`tlc -config X.cfg M`):

| instance | module | shows |
|---|---|---|
| `SteerLands` | `Steering` | a run that is stepped while it runs: guidance lands (`GuidanceLands`), unless the run waits for ever for its user; passes |
| `SteerInbox`, `SteerClosing` | `Steering` | `InboxIsGuaranteed` and `CompletedRunsLeaveNoQueue` are violated: section 6 |
| `ReactLateConclude` | `MCReactLoop` | `ConcludeIsTaken` is violated: section 6 |

Every property of a passing run has a mutant: an operator written next to the
definition it replaces (`Mutant...`), changing it as a plausible bug would, under
which TLC finds that property violated.

**Bounds, and why they are enough.**

* Six iterations (`ReactStuck`) hold detection, nudge, further repeats and stop
  for both thresholds (2 and 3), an oscillation of four cycles, and two patterns one
  after the other. What a scan of 24 cycles does when it is full is left to the theorems;
  eight iterations were tried for `LoopIsCut` alone, and other thresholds at seven.
* Three iterations and two verifier rounds (`ReactTurn`) let a forced batch be
  followed by a batch of the model's and by another review.
* Two turns of two iterations (`ReactVisit`) suffice for leaks: a turn only ever
  inherits from the one before. Two media references, captured in any order, of which one
  can be pending, reach the cap. The part of `ReportIsThisTurns` about format repairs hardly
  comes to bear in two iterations; it is proved for all.
* Two runs, two threads, one crash, one question and two messages (`SteerRuns`) are the
  least that can mix up runs, overtake, or evict: one queue is kept. Liveness (`SteerLands`)
  is about one run, with two messages: runs meet only in the cap and the threads, and
  neither keeps a message from an inbox.
* Three handed-over messages (`TranscriptTail`) hold an announcement of two calls with a
  result and one message in between, in any order and with any ids; seven durable
  messages leave room for two requests with results and tails behind them, and for a second
  turn, before which a window can cut. The run has a host that marks the turn in progress
  (`Marked`), as the window's own documentation asks; one that does not is left to the
  theorems, which hold for both.
* Eight iterations (`CodeActRun`) hold a give-up on three empty replies with code,
  batches and a review before it. Four (`MemActRun`) hold three composes, one of them for
  guidance, with two messages.
* Two runs, two calls of the root and one of the run it starts, one restart and one edit
  (`RunTree`): a grant passes from one run to another, a crash falls between an effect and
  its record, and a run waits for one that waits for its user. Deeper
  trees and more restarts are left to the theorems, which hold for any number of runs.
* Two facades, two runs, two ticks, two messages, one facade made anew
  (`FacadeRuns`): a task, the next one, and a stranger. Both facades are of one
  workflow, so a mismatch of workflows is not exercised by the run; it is part of
  what is proved.

**Fairness.** `WF_vars(Tick)` in the three loops: a host that drives a run goes on
ticking it (`run_to_completion`'s loop), and the runtime's effects return or fail.
Nothing is assumed of users (an answer may never come) or operators (no message is
ever promised); `TurnEnds` and `RunEnds` therefore allow for a run that waits for
ever for its user, and nothing else. In `Steering!FairSpec` a run is loaded by some
thread if it stays neither ended nor waiting, a tick that began goes on, and a host
finishes the write it began; steering, injecting, answering, cancelling, discarding and
crashing are not fair, and `GuidanceLands` has the same way out as `TurnEnds`. In
`RunTree!FairSpec` a run that waits for nobody is stepped and a tick that began goes on
(`WF` of `Step(r)` and of `Effect`). For a child that is an assumption about whoever hosts
the runtime: the repository ticks the root alone and leaves children to the runtime's
scheduler. Users, restarts and edits are not fair, and `CallsAreAnswered` allows for a run
that waits for ever for its own user or for that of a run it waits for. That restarts are
bounded matters: a process that dies in every tick answers nothing.

Deadlock is checked except in the two transcript runs, whose transcript stops growing at its bound; the other modules end in an explicit step
that changes nothing.

## 4. Proofs

Each `...Proofs` module has the same layout: the parts of the inductive
invariant, one lemma per part (or per group of actions) with one step per action,
and the theorems. They rest on the named assumptions about the constants, which say
what kind of value each is and no more; one theorem has a hypothesis of its own
(`Turns = 1`, given in the table).

| module | theorem | says |
|---|---|---|
| `ReactLoopProofs` | `TypeCorrect` | `TypeOK` |
| | `CostIsBounded` | `CostBound`: at most two model calls per iteration and two to conclude |
| | `ReviewIsBounded` | `ReviewBudget`: the verifier cannot re-arm itself |
| | `NobodyStopsUnwarned` | `NudgedBeforeStopped` |
| | `TurnsStartFresh`, `ReportsArePerTurn` | `TurnStartsFresh`, `ReportIsThisTurns` |
| | `SideEffectsAreNotRepeated` | `NoDuplicateSideEffect` |
| | `BatchesAreRecorded` | `RecordIsWhole` |
| | `StreaksAreSound` | `StreakIsSound`: the verdict is the code's loop's, a poll is no streak, a streak keeps its key |
| | `LoopsAreCut` | `LoopIsCut`: what is insisted on is stopped two proposals after the patience with it |
| | `CarryTypeCorrect`, `MediaIsKept`, `WordsAreKept` | with what rides along (`CarrySpec`): types, `MediaIsSeenOnce`, `WordsStayWithTheirCalls` |
| | `Refinement` | with one turn, `Spec => KeepsItsPromise` |
| `CodeActLoopProofs` | `TypeCorrect`, `BatchesAreAccountedFor`, `RoundsAreBounded`, `ObjectionsAreHeard`, `Refinement` | types, `CallsAccountedFor`, `RoundsAreCounted`, `ObjectionIsHeard`, `KeepsItsPromise` |
| `MemActLoopProofs` | `TypeCorrect`, `BatchesAreAccountedFor`, `MemoryIsAskedWhenNew`, `AnswersAreKept`, `Refinement` | types, `CallsAccountedFor`, `AsksWhenNew`, `AnswerIsKept`, `KeepsItsPromise` |
| `SteeringProofs` | `TypeCorrect`, `GuidanceInOrder` | types, `DeliveredOnceInOrder`, for any host |
| | `NothingLost`, `QueuesEnd`, `QueuesAreHandedOver` | `NothingSilentlyLost`, `NoQueueOutlivesItsRun`, `QueuedIsHandedOver` |
| `TranscriptProofs` | `TypeCorrect`, `RequestsAreAccepted`, `NothingIsDropped`, `PrefixIsKept` | types, `RequestIsAccepted`, `NothingDropped`, `SentIsPrefix`, for any transcript handed over and any window |
| | `LossesAreExplained` | `LostBehindAQuestion`, for any batches |
| `RunTreeProofs` | `TypeCorrect`, `Containment`, `WorksOrLoud`, `OwnAnswers`, `PerformedOnce` | types, `NobodyOutgrowsTheHost`, `LossIsAnnounced`, `AnsweredByItsOwn`, `RecordedOnce` |
| `AgentFacadeProofs` | `TypeCorrect`, `SessionsApart`, `GuidanceApart`, `RecordsKept`, `Continuity` | types, `SessionsAreKeptApart`, `GuidanceStaysWithItsTask`, `EndedRecordsAreKept`, `SessionGoesOn` |

The properties are not inductive: each leans on what the control hands from node
to node, or on what several copies of one thing have in common.

**ReAct.** `IInv` is inductive for `VisitSpec`:

* `Handoffs`: act always finds a call in the queue, and only the nodes that read a
  reply have one. Without it `Head(queue)` has no type.
* `CostInv` counts the calls by node: a review is paid by the iteration whose answer
  it judges, and a conclusion has one call per retry so far and at most two.
* `ReviewInv`: the verdicts since the model's own results never exceed
  `reviewCount`; a batch of the verifier's without the `forced` mark is only possible
  right after the user's word, when there are none.
* `NudgeInv`: a nudge is in the inbox until a model call carries it, and parse
  judges a proposal only after such a call.
* `ReportInv`: what a report is made of starts clean with the turn and is set only on
  the way to the conclusion.
* `Outcome` is the conjunction of the properties.

`RanInv` says that the last cycle executed is the model's batch that ran last, which is
what the guard against repeats looks at. `RecordInv` says of the cycle being worked off
that the results it holds, with those not observed yet, are the results of the calls
before the queue (`InPart`), of every other that it is whole: only so does
`RecordIsWhole` survive a batch split over many acts. `WordsInv` says that while calls of a batch
may be left, the binding is of that very cycle and covers them, or there is none and the
batch came without words. `Refinement` needs `Turns = 1` (and `FirstTurn`): over several
turns the report of an operator's stop is not the turn's own, which is the finding
`ReactStaleConclude`.

`MediaInv` adds to `MediaIsSeenOnce` that references wait in one place at a time: while
a request is out they are stashed, and the stash is empty wherever no reply is awaited.

**The stuck-streak guard.** What the scan collects is proved first: the newest
proposals, newest first, as many as its depth (`ToolCyclesAre`), all of them where every
cycle is one (`SuffixIsScanned`), and one more proposal moves them back by one
(`ScanGrows`). `StreaksAreSound` follows in every state in which the turn's fence is no
later than its cycles, for all of it is about one proposal:

* the code's loop keeps `LoopInv`: it has gone through cycles that are alike, knows the
  answer they share and which kinds of failure they hold, or it stopped at one that is
  not (`LoopKeeps`); so where it ends is where the definition says a streak ends
  (`LoopFinds`);
* in a poll two answers that differ lie within the run of equal proposals, which
  therefore is longer than the run of agreeing ones (`PollsAreNoRepeat`);
* one more of the same makes the run one longer (`RunGrows`), keeps its class or needs no
  more than the scan holds (`RepeatGoesOn`), and an alternation continues with its other
  batch (`AlternationGrows`).

`LoopsAreCut` is about a whole turn. A batch is late by as many proposals as it was
proposed past the patience with it (`Late`), and a late one is always detected under its
own key (`InsistedIsDetected`). `CutInv`: no batch is later than the hits its key has
(`Told`), or than the proposals since the user last spoke, and no key has more than two
hits, because the third ends the turn. The theorem has no assumption; the property itself
speaks of thresholds the scan can reach (section 6).

**Transcript.** Each of the four properties is first a fact about `Sanitized` for every
sequence of messages: `Shape` (user entries are apart, calls are followed by their
results, tool entries stand in a run behind an announcement) and `CarriesAll` (what each
message becomes appears once, and nothing else) are shown block by block, with what
`Joined` does to two payloads that have them. The invariant `IInv` says what the loop
adds to the transcript it was handed: nothing blank, results right behind their
announcement unless something came in between (`Held`, `Served`), the queue being the
calls still owed (`Pending`), and the last request being the repair of what the window
kept of a prefix (`Sent`). A window begins with a user message, so it leaves out an
announcement with all its results or with none (`WindowServed`, `WindowCame`), and the
window of a longer transcript with the same cut extends the other's (`WindowExtends`). A
prefix of messages that ends where the assistant speaks has a payload that is a prefix of
the whole's. `LossesAreExplained` adds `Returned`: of the calls done with, each came back
in the run behind its announcement or was done behind a question of its batch.

**Induction.** The library's induction theorems take an operator and cannot be used
here; where a definition goes through a list place by place, the proofs take the least
place at which a claim fails (`WFMin` over the numbers, as `UpTo`), which is the same
argument.

**CodeAct and MemAct.** `BatchInv` is shared: the batch is what was handled followed by
what is queued, stated place by place (`Accounted`), so that taking a prefix, blocking
a call and waiting for an answer are each one lemma of `ToolBatchProofs`. CodeAct adds
`RoundsInv` (verdicts are within `reviewCount`, as in ReAct), `EmptiesInv` (the
retry counter is the number of empty replies in a row), `UnheardInv` (an
objection not yet told is in the inbox) and `HostInv` (what the promise needs:
budget, phase and report agree). MemAct adds `MemoryInv` (memory that was
asked about the newest message holds the result or has composed it, and the model does
not think before that) and `AnswerInv` (the draft is the model's word until it
is given, and a failed finalize call is marked from the time it is read).

**Steering.** Every copy of a run (stored, in a tick, in a host's hand) holds
messages of its own, once and in order, and its queue holds hook messages later than
those (`HeldInv`, `QueueInv`), so it does not matter which copy is saved last; `Scheduled`
says that a run is ticked by one thread at a time. `LossInv` says that every copy,
however old, holds what the run's inbox took while the run was at rest: no copy is older
than that message. `ClosedInv` says that only answers to the events of a closing are
queued behind it. Nothing is assumed of the host or the handlers; what the two properties
leave out, a message that meets a tick and an answer that meets the closing, are the
findings `SteerInbox` and `SteerClosing`. `QueuesAreHandedOver` follows action by action
from what adding to, capping and taking a queue leave of the others.

**RunTree.** `GrantInv` keeps a run and what it is about to hand out within `reach`
and `granted`, and the rest within `told`; `TickInv` says that the tick in flight serves
the call its run has saved as pending, under the next `act_seq`; `LedgerInv` that a
recorded result is an earlier batch's, under a lower number, or the pending batch's own.
A question leaves no record, and the run that waits for its answer holds no result.

**AgentFacade.** `OwnLists` (no two runs write to one list), `BornInv` (whatever is
pointed to was started), `Named` (with a door that names the session no run is without
one) and `InSync` (a facade under which its run ended has taken over what it said),
beside the properties themselves. One lemma gives the shape every
step has (`Shape`, `RunsLast`), so that the two action properties need not look at the
actions again.

**Only model-checked.** Liveness under fairness (`TurnEnds`, `RunEnds`, `GuidanceLands`,
`CallsAreAnswered`) is out of the prover's reach.

## 5. Not modelled

* **Prompts, hints, reports.** Advisory hints add a note to the inbox and change
  no route; the text of prompts and reports, message clamping and the grammar of a
  public update are data no property is about.
* **Settings.** The settings a run is started with are constants. What a child
  inherits of budget, substrates and sampling is left out, and so are
  `update_limits` and the facades' read-only accessors.
* **Parts of CodeAct and MemAct**: their `act_seq`, media and plan updates, the
  memory modules the envelope edits, and of their transcripts all but what steers
  them.
* **Strikes** that bench a slow hook: they are about durations. The payloads of events.
* **Two `inject_message` at a time** on one run: `Steering` has one host that writes. Two
  would overwrite each other as a tick and a host do.
* **How much a history window keeps**: it counts tokens, in AbstractRuntime. Any cut is
  possible here, and the notice is the same as long as the same is left out.
* **`compact_memory` on the newest user message**: `MemActLoop` has no builtin that takes
  messages out of the transcript.
* **A cancel that meets a tick**: whether the tick's save overwrites it is the runtime's
  to say; `Steering` allows both.
* **A host that rewrites an allowlist during a tick** (`RunTree!HostGrant` comes between
  two): the tick's save and the host's would overwrite each other, as in `SteerInbox`.
* **Manifests** are static descriptions; the **sandbox**, **metrics**, **scripts** and the
  **REPL** are I/O around the rest.
* **AbstractRuntime and AbstractCore** are external packages, modelled as this code
  uses them: ticks, effects, ledger and store appear as external actions. An LLM
  call without `_absorb_failure` either answers or fails the run; retries inside the
  runtime are the runtime's.

`PROJECT.json` lists every component with what is missing.

## 6. Findings

1. **`ReactStaleConclude`.** `reset_react_turn` clears the turn's other report fields
   but not `concluded_by_operator`; a later turn of the visit that runs out of
   budget is reported as concluded by the operator. `docs/hooks.md` says that reports
   reflect the current turn.
2. **`TranscriptSplit`.** A batch with `ask_user` before another call puts the
   question and the answer between the announcement and the later call's result. The
   repair then declares that result missing and quotes the real one as a user message,
   against its own rule that only a lost result is called lost.
3. **`MemActTail`.** `compose` takes the newest user-role message as its stimulus;
   the loop tail is stored as a user-role message, so from the third iteration on
   memory is queried for "[loop] iteration N of M.", once per tool iteration.

4. **`ReactLateConclude`** (an instance beside the runs). `reason` looks at the budget before the inbox. A request to
   conclude that waits when the budget is spent is read as guidance by the conclusion
   call, and the turn is reported as `iteration_budget`, budget exhausted, where
   `docs/hooks.md` says that at its next boundary the loop takes the request and the turn
   ends as `operator_conclude`.
5. **`SteerInbox`** (beside the runs). `inject_message` and a tick in flight overwrite each other's save:
   the host's message is gone, and the run completes without having absorbed or reported
   it. `docs/hooks.md` calls this channel guaranteed delivery.
6. **`SteerClosing`** (beside the runs). The terminal discards a run's queue and then emits
   `hook_steer_discarded` and `inbox_undelivered`; what a handler answers to those is
   queued for a run that will drain nothing any more, where `loop_hooks.py` says that a
   dead run's queue cannot grow host memory. (The cap bounds it.)

Three more divergences follow from changing a constant or a property, and are kept
here without a run of their own:

* The queue cap evicts the run steered first, alive or not, while
  `adapters/loop_hooks.py` expects the evicted queue to be a dead run's.
* A `stuck_streak_threshold` above 24 is never reached: the scan is as deep as the hard
  threshold asks, or 24 (`react_runtime.py:2331-2336`), but not as deep as the repeat
  threshold, although `docs/hooks.md` says that a repeat trips there. `LoopIsCut` and
  `LoopKeepsItsKey` are stated for thresholds within the scan.
* An older, different answer inside an unbroken run of identical batches silences
  the repeat verdict that `docs/hooks.md` gives a threshold.

Facts of the run tree and the facades that a reader of the properties should know:

* A batch of tools is keyed with its allowlist. If a grant or the toolset changes
  between a crash and the replay, the key differs and the batch is performed again;
  `RecordedOnce` therefore speaks of one allowlist.
* Memory, variable and spawn effects carry no `act_seq`. What that means for an
  identical later call is the runtime's to say; `AnsweredByItsOwn` speaks of tools.
* `note_pruned_grants` compares with the note of the prune before, so a second,
  identical prune after the grant was restored is silent, while its docstring promises
  one note per prune event. `LossIsAnnounced` holds because the first note said so: `told`
  is what the run was ever told it lost, and a new grant does not reset it.
* A door that starts its run without ids, as the example in `docs/api.md` does
  (`DoorNames = FALSE`), lets a facade of any session attach to it, though it carries
  what another session said; `SessionsDoNotMix` is stated for doors that name the session.
* A refused `attach` leaves the adopted actor in the facade; no run is attached, so the
  session stays its own.
* `cancel` syncs no messages and discards no queue, and `step` on a failed run does not
  discard either, though the docstring in `agents/base.py` calls the facade the
  deterministic discard point. In `Steering` the discard of `run_to_completion` and
  `resume` may come at any time after the end, or never; the cap bounds what stays.
* A child delegated without a list of tools is not granted `ask_user`; one with an explicit
  list may be, and if nobody answers it, its parent waits with it.
* A call id filled in by position can equal one the model chose. Two results then go
  under one id, and the request is still acceptable.

## 7. What is left

In the order of what it would add:

1. `act_seq` and media in CodeAct and MemAct, as `RunTree` and `ReactCarry` have them for
   ReAct.
2. What a child inherits besides its grants: budget, depth of the limits namespace,
   substrates.
3. What the liveness properties rest on, as far as it is safety: a measure that every tick
   of a loop but a wait decreases.
4. An instance of `AgentFacade` with two workflows, and one of `RunTree`'s safety with three
   generations, if the time of a run may grow.
