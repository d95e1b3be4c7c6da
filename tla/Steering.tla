------------------------------- MODULE Steering -------------------------------
(***************************************************************************)
(* Guidance on its way into running agents.  Two channels lead to the inbox *)
(* a loop drains before it thinks: hook handlers steer the run whose event   *)
(* they answer (adapters/loop_hooks.py, queued in host memory), and a host   *)
(* writes a run's durable inbox (BaseAgent.inject_message).                  *)
(*                                                                         *)
(* One LoopHooks instance serves many runs, ticked by several threads.  A    *)
(* tick loads the run from the store, runs one node on that copy (handlers   *)
(* fire meanwhile), and saves it; the host's write is a load and a save too. *)
(* Nothing keeps the two writers of a run apart: a tick may save over the     *)
(* host's message, the host over a tick.  A run may wait for its user for    *)
(* ever, and may be cancelled at any time.                                   *)
(* Of a node only what touches guidance is kept.  Slow-handler strikes and   *)
(* the wording of hook_error are left out.                                   *)
(***************************************************************************)
EXTENDS Integers, FiniteSets, SequencesExt

CONSTANTS
  Runs,            \* runs of the one workflow product
  Threads,         \* threads the host ticks runs on
  Nobody,          \* no run
  MaxPendingRuns,  \* LoopHooks.max_pending_runs
  Facade,          \* the host drives runs through BaseAgent.run_to_completion
  MaxMessages,     \* bound: guidance messages
  MaxQuestions,    \* bound: questions the runs ask their users
  MaxCrashes       \* bound: crashes of the host process

ASSUME SteeringAssumption ==
  /\ Nobody \notin Runs
  /\ MaxPendingRuns \in Nat \ {0}
  /\ Facade \in BOOLEAN
  /\ MaxMessages \in Nat
  /\ MaxQuestions \in Nat
  /\ MaxCrashes \in Nat

VARIABLES
  store,     \* the run store: each run's node, inbox and absorbed guidance
  tick,      \* the tick each thread is in: the run, its copy and how far it is
  injector,  \* the host's copy between the load and the save of inject_message
  pending,   \* LoopHooks._pending: queues by run, the first steered run first
  given,     \* history: the messages, numbered as they were given
  reported,  \* history: messages named by an inbox_undelivered event
  questions, \* questions asked so far
  crashes    \* crashes so far

vars == <<store, tick, injector, pending, given, reported, questions, crashes>>

-----------------------------------------------------------------------------
(* Data *)

Dead == {"completed", "failed", "cancelled"}
Nodes == {"reason", "work", "waiting", "conclude", "concluded", "done"} \union Dead

NewRun == [node |-> "reason", inbox |-> <<>>, seen |-> <<>>]
Idle == [run |-> Nobody, copy |-> NewRun, at |-> "idle", noisy |-> FALSE]
NoInjection == [run |-> Nobody, copy |-> NewRun]

Ticked == {tick[t].run : t \in Threads} \ {Nobody}
Live == {r \in Runs : store[r].node \notin Dead}

\* "to" is what the message met: a run at rest ("live"), a tick of it in flight
\* ("ticked"), a tick that had closed it ("closing"), or a run that ended ("dead").
Give(run, via, to) == given' = Append(given, [run |-> run, via |-> via, to |-> to])
NextId == Len(given) + 1

\* Another message fits the bound, the one being written included.
Room == Len(given) + (IF injector = NoInjection THEN 0 ELSE 1) < MaxMessages

-----------------------------------------------------------------------------
(* LoopHooks: the queues *)

HasQueue(run) == \E k \in DOMAIN pending : pending[k].run = run

\* A run has one queue at most.
PlaceOf(run) == CHOOSE k \in DOMAIN pending : pending[k].run = run

QueueOf(run) == IF HasQueue(run) THEN pending[PlaceOf(run)].queue ELSE <<>>

Without(run) == IF HasQueue(run) THEN RemoveAt(pending, PlaceOf(run)) ELSE pending

Queued(run, message) ==
  IF HasQueue(run)
  THEN [k \in DOMAIN pending |->
          IF pending[k].run = run
          THEN [pending[k] EXCEPT !.queue = Append(@, message)]
          ELSE pending[k]]
  ELSE Append(pending, [run |-> run, queue |-> <<message>>])

\* Mutant: the cap is one queue late.
MutantCapped(queues) == IF Len(queues) > MaxPendingRuns + 1 THEN Tail(queues) ELSE queues

\* Past the cap the queue of the run that was steered first is dropped.
Capped(queues) == IF Len(queues) > MaxPendingRuns THEN Tail(queues) ELSE queues

\* Mutant: the run is an attribute of the instance, not of the thread.
MutantCurrentRun(t) == CHOOSE r \in Runs : r \in Ticked

\* The run whose node thread t executes.
CurrentRun(t) == tick[t].run

\* A handler answers an event with an injection.  Every node emits before and
\* after it drains; once the queue was discarded only the status events remain.
Steer(t) ==
  /\ tick[t].at \in {"body", "after", "discarded"}
  /\ tick[t].at = "discarded" => tick[t].noisy
  /\ Room
  /\ pending' = Capped(Queued(CurrentRun(t), NextId))
  /\ Give(tick[t].run, "hook", IF tick[t].at = "discarded" THEN "closing" ELSE "ticked")
  /\ UNCHANGED <<store, tick, injector, reported, questions, crashes>>

-----------------------------------------------------------------------------
(* A tick *)

Load(t, r) ==
  /\ tick[t] = Idle
  /\ r \notin Ticked
  /\ store[r].node \notin Dead \union {"waiting"}
  /\ tick' = [tick EXCEPT ![t] = [run   |-> r, copy |-> store[r],
                                  at    |-> "body",
                                  noisy |-> FALSE]]
  /\ UNCHANGED <<store, injector, pending, given, reported, questions, crashes>>

\* The node did its work: the copy is left for the save.
Leave(t, copy) ==
  tick' = [tick EXCEPT ![t].copy = copy, ![t].at = "after"]

\* Mutant: the inbox keeps what the transcript got.
MutantDrained(copy, queue) ==
  [copy EXCEPT !.inbox = @ \o queue, !.seen = @ \o copy.inbox \o queue]

\* Mutant: the queue replaces the inbox.
MutantFolded(copy, queue) == [copy EXCEPT !.inbox = <<>>, !.seen = @ \o queue]

\* _fold_hook_steering and _drain_inbox: the run's queue joins its inbox, and
\* the inbox the transcript or the conclusion prompt.
Drained(copy, queue) ==
  [copy EXCEPT !.inbox = <<>>, !.seen = @ \o copy.inbox \o queue]

\* reason or the conclusion call: guidance is absorbed, and the call that
\* carries it answers or fails the run.
Drain(t) ==
  /\ tick[t].at = "body"
  /\ tick[t].copy.node \in {"reason", "conclude"}
  /\ pending' = Without(CurrentRun(t))
  /\ \E next \in {IF tick[t].copy.node = "reason" THEN "work" ELSE "concluded", "failed"} :
       Leave(t, [Drained(tick[t].copy, QueueOf(CurrentRun(t))) EXCEPT !.node = next])
  /\ UNCHANGED <<store, injector, given, reported, questions, crashes>>

\* reason without a call: an operator's conclude request folds the queue into
\* the inbox but leaves the draining to the conclusion; an exhausted budget
\* does neither.
TurnToConclude(t) ==
  /\ tick[t].at = "body"
  /\ tick[t].copy.node = "reason"
  /\ \/ /\ pending' = Without(CurrentRun(t))
        /\ Leave(t, [tick[t].copy EXCEPT !.node = "conclude",
                                         !.inbox = @ \o QueueOf(CurrentRun(t))])
     \/ /\ pending' = pending
        /\ Leave(t, [tick[t].copy EXCEPT !.node = "conclude"])
  /\ UNCHANGED <<store, injector, given, reported, questions, crashes>>

\* The nodes between two reason boundaries, and a conclusion asked for again.
Work(t) ==
  /\ tick[t].at = "body"
  /\ \/ /\ tick[t].copy.node = "work"
        /\ \E next \in {"reason", "conclude", "done", "failed"} :
             Leave(t, [tick[t].copy EXCEPT !.node = next])
     \/ /\ tick[t].copy.node = "concluded"
        /\ Leave(t, [tick[t].copy EXCEPT !.node = "conclude"])
  /\ UNCHANGED <<store, injector, pending, given, reported, questions, crashes>>

\* ask_user, and a call that waits for a child: the run waits.
Ask(t) ==
  /\ tick[t].at = "body"
  /\ tick[t].copy.node = "work"
  /\ questions < MaxQuestions
  /\ questions' = questions + 1
  /\ Leave(t, [tick[t].copy EXCEPT !.node = "waiting"])
  /\ UNCHANGED <<store, injector, pending, given, reported, crashes>>

\* Mutant: the queue is left to the host.
MutantKeptAtTerminal(t) == pending

KeptAtTerminal(t) == Without(CurrentRun(t))

\* Mutant: nothing is said of the inbox.
MutantUndelivered(copy) == {}

\* undelivered_inbox_stats: what is still in the inbox.
Undelivered(copy) == Range(copy.inbox)

\* done, and max_iterations with a usable conclusion: the run completes.  The
\* queue is discarded and the inbox reported, each with an event if there was
\* something to say.
Close(t) ==
  /\ tick[t].at = "body"
  /\ tick[t].copy.node \in {"done", "concluded"}
  /\ pending' = KeptAtTerminal(t)
  /\ reported' = reported \union Undelivered(tick[t].copy)
  /\ tick' = [tick EXCEPT ![t].copy.node = "completed",
                          ![t].at = "discarded",
                          ![t].noisy = HasQueue(CurrentRun(t))
                                       \/ Undelivered(tick[t].copy) # {}]
  /\ UNCHANGED <<store, injector, given, questions, crashes>>

\* The runtime saves what the tick left, over whatever was written meanwhile; it
\* may leave a run that was cancelled meanwhile as it is.
Save(t) ==
  /\ tick[t].at \in {"after", "discarded"}
  /\ \/ store' = [store EXCEPT ![tick[t].run] = tick[t].copy]
     \/ store[tick[t].run].node = "cancelled" /\ store' = store
  /\ tick' = [tick EXCEPT ![t] = Idle]
  /\ UNCHANGED <<injector, pending, given, reported, questions, crashes>>

-----------------------------------------------------------------------------
(* The host *)

\* inject_message reads the run ...
InjectLoad(r) ==
  /\ injector = NoInjection
  /\ Room
  /\ injector' = [run |-> r, copy |-> store[r]]
  /\ UNCHANGED <<store, tick, pending, given, reported, questions, crashes>>

\* ... and writes it back with one more message.  The status is not looked at.
InjectSave ==
  /\ injector # NoInjection
  /\ store' = [store EXCEPT ![injector.run] =
                 [injector.copy EXCEPT !.inbox = Append(@, NextId)]]
  /\ Give(injector.run, "inbox", CASE injector.copy.node \in Dead -> "dead"
                                   [] injector.run \in Ticked      -> "ticked"
                                   [] OTHER                        -> "live")
  /\ injector' = NoInjection
  /\ UNCHANGED <<tick, pending, reported, questions, crashes>>

\* BaseAgent.resume hands the answer to the runtime, and the run goes on.
Answer(r) ==
  /\ store[r].node = "waiting"
  /\ store' = [store EXCEPT ![r].node = "work"]
  /\ UNCHANGED <<tick, injector, pending, given, reported, questions, crashes>>

\* BaseAgent.cancel: a tick in flight does not notice.
Cancel(r) ==
  /\ r \in Live
  /\ store' = [store EXCEPT ![r].node = "cancelled"]
  /\ UNCHANGED <<tick, injector, pending, given, reported, questions, crashes>>

\* Mutant: a run that waits is taken for one that ended.
MutantDiscardDead(r) ==
  /\ Facade
  /\ store[r].node \in {"waiting", "failed", "cancelled"}
  /\ HasQueue(r)
  /\ pending' = Without(r)
  /\ UNCHANGED <<store, tick, injector, given, reported, questions, crashes>>

\* _discard_hook_steering_if_dead, after run_to_completion's last step and resume.
DiscardDead(r) ==
  /\ Facade
  /\ store[r].node \in {"failed", "cancelled"}
  /\ HasQueue(r)
  /\ pending' = Without(r)
  /\ UNCHANGED <<store, tick, injector, given, reported, questions, crashes>>

\* The process dies: what is in the store is all that is left.
Crash ==
  /\ crashes < MaxCrashes
  /\ crashes' = crashes + 1
  /\ tick' = [t \in Threads |-> Idle]
  /\ injector' = NoInjection
  /\ pending' = <<>>
  /\ UNCHANGED <<store, given, reported, questions>>

\* Every run ended and nobody writes.
Finished ==
  /\ Live = {}
  /\ Ticked = {}
  /\ UNCHANGED vars

-----------------------------------------------------------------------------
Init ==
  /\ store = [r \in Runs |-> NewRun]
  /\ tick = [t \in Threads |-> Idle]
  /\ injector = NoInjection
  /\ pending = <<>>
  /\ given = <<>>
  /\ reported = {}
  /\ questions = 0
  /\ crashes = 0

Progress(t) == Drain(t) \/ TurnToConclude(t) \/ Work(t) \/ Ask(t) \/ Close(t) \/ Save(t)

Next ==
  \/ \E t \in Threads : Steer(t) \/ Progress(t)
  \/ \E t \in Threads, r \in Runs : Load(t, r)
  \/ \E r \in Runs : InjectLoad(r) \/ Answer(r) \/ Cancel(r) \/ DiscardDead(r)
  \/ InjectSave
  \/ Crash
  \/ Finished

Spec == Init /\ [][Next]_vars

\* A host steps each of its runs while it is running (on a thread of its own),
\* and finishes its own writes.  No user has to answer.
FairSpec ==
  /\ Spec
  /\ \A r \in Runs : WF_vars(\E t \in Threads : Load(t, r))
  /\ \A t \in Threads : WF_vars(Progress(t))
  /\ WF_vars(InjectSave)

-----------------------------------------------------------------------------
(* Properties *)

RunState == [node : Nodes, inbox : Seq(Nat), seen : Seq(Nat)]

\* Every variable ranges over what the code can store in it; a run has one queue,
\* and no more queues are kept than the cap allows.
TypeOK ==
  /\ store \in [Runs -> RunState]
  /\ tick \in [Threads -> [run : Runs \union {Nobody}, copy : RunState,
                           at : {"idle", "body", "after", "discarded"}, noisy : BOOLEAN]]
  /\ injector \in [run : Runs \union {Nobody}, copy : RunState]
  /\ pending \in Seq([run : Runs, queue : Seq(Nat) \ {<<>>}])
  /\ \A j, k \in DOMAIN pending : pending[j].run = pending[k].run => j = k
  /\ Len(pending) <= MaxPendingRuns
  /\ given \in Seq([run : Runs, via : {"hook", "inbox"},
                    to : {"live", "ticked", "closing", "dead"}])
  /\ reported \subseteq 1..Len(given)
  /\ questions \in 0..MaxQuestions
  /\ crashes \in 0..MaxCrashes

\* docs/hooks.md: steering is per run and at most once.  What a run absorbed or
\* holds was given to that run, each message is there once, and each channel's
\* messages are in the order they were given, whatever crashed in between.
DeliveredOnceInOrder ==
  \A r \in Runs :
    LET held == store[r].seen \o store[r].inbox
    IN  \A j, k \in DOMAIN held :
          /\ given[held[j]].run = r
          /\ j < k => held[j] # held[k]
          /\ j < k /\ given[held[j]].via = given[held[k]].via => held[j] < held[k]

\* inject_message wrote a live run that nobody was ticking.
Accepted(m) == m \in DOMAIN given /\ given[m].via = "inbox" /\ given[m].to = "live"

\* docs/hooks.md: a host that needs guaranteed delivery writes the run's inbox,
\* and is never silently ignored.  A message written between two ticks of a live
\* run is in its record from then on, whatever other ticks and messages raced one
\* another before or after; when the run completes it was absorbed or is reported.
NothingSilentlyLost ==
  \A m \in DOMAIN given :
    LET run == store[given[m].run]
    IN  Accepted(m) =>
          /\ m \in Range(run.seen \o run.inbox)
          /\ run.node = "completed" => m \in Range(run.seen) \union reported

\* Expected to fail.  docs/hooks.md:331-336, without that condition: guidance that
\* inject_message gave a live run is never silently completed over.
InboxIsGuaranteed ==
  \A m \in DOMAIN given :
    LET run == store[given[m].run]
    IN  given[m].via = "inbox" /\ given[m].to # "dead" /\ run.node = "completed"
          => m \in Range(run.seen) \union reported

\* LoopHooks.discard_run: what a run was steered with before it completed neither
\* leaks into a later run nor stays in host memory, and the queues of runs that go
\* on are bounded, too.
NoQueueOutlivesItsRun ==
  /\ \A r \in Runs : store[r].node = "completed"
                     => \A m \in Range(QueueOf(r)) : given[m].to = "closing"
  /\ Len(pending) <= MaxPendingRuns

\* Expected to fail.  loop_hooks.py:379-382, as it is said there: a run that
\* completed leaves no queue.
CompletedRunsLeaveNoQueue ==
  \A r \in Runs : store[r].node = "completed" => ~HasQueue(r)

\* The queue of a run goes to that run and nowhere else: what leaves it is from then
\* on in the copy of the run's own tick, or the run was just closed or had failed or
\* been cancelled, or it was the first of too many queues, or the process died.
QueuedIsHandedOver ==
  [][\A r \in Runs : \A m \in Range(QueueOf(r)) \ Range(QueueOf(r)') :
       \/ \E t \in Threads :
            /\ tick[t].run = r
            /\ \/ m \in Range(tick'[t].copy.seen \o tick'[t].copy.inbox)
               \/ tick'[t].at = "discarded"
       \/ store[r].node \in {"failed", "cancelled"}
       \/ Len(pending) = MaxPendingRuns /\ pending[1].run = r /\ given' # given
       \/ crashes' > crashes]_vars

Landed(m) ==
  /\ m \in DOMAIN given
  /\ \/ m \in Range(store[given[m].run].seen)
     \/ m \in reported
     \/ store[given[m].run].node \in {"failed", "cancelled"}

\* Guidance is not left lying: a message in the inbox of a live run is absorbed,
\* or reported when the run completes, or the run fails or is cancelled, unless the
\* run waits for ever for an answer its user never gives.
GuidanceLands ==
  \A r \in Runs, m \in 1..MaxMessages :
    \/ <>[](store[r].node = "waiting")
    \/ (Accepted(m) /\ given[m].run = r) ~> Landed(m)
=============================================================================
