-------------------------------- MODULE RunTree --------------------------------
(***************************************************************************)
(* What the act nodes hand to the runtime, and what comes back: the runs a    *)
(* task grows into by delegating and scheduling, the tools each of them is    *)
(* granted, and the effects that survive a crash.                             *)
(*                                                                         *)
(* A node that issues no effect, or only a model call, is one step.  The act  *)
(* node is a tick in stages: the handler works on a copy of the run, the      *)
(* runtime looks the effect up in its ledger, performs it if it finds no      *)
(* result, records the result, and saves the run with it.  A restart may      *)
(* come between any two stages, and may bring another toolset.                *)
(***************************************************************************)
EXTENDS Integers, FiniteSets

CONSTANTS
  Tools,        \* ordinary tools: batched into TOOL_CALLS
  Memory,       \* stands for the memory and variable builtins
  Delegate,     \* delegate_agent
  Schedule,     \* schedule_run
  AskUser,      \* ask_user
  Factory,      \* the allowlist the workflow was created with
  Toolsets,     \* the sets of tools a process may have definitions of
  Grants,       \* the allowlists a host may write
  Requests,     \* the tool lists a model may ask for a child, Inherit included
  Inherit,      \* the model names no tools
  Unset,        \* no allowed_tools in the run's vars
  MaxRuns,      \* bound: runs
  MaxCalls,     \* bound: calls each run proposes
  MaxRestarts,  \* bound: restarts
  MaxEdits      \* bound: allowlists written while runs are under way

Spawning == {Delegate, Schedule}
Builtin == {Memory, AskUser} \union Spawning
Names == Tools \union Builtin
Runs == 1..MaxRuns
Root == 1

ASSUME TreeAssumption ==
  /\ Tools \intersect Builtin = {}
  /\ Memory \notin Spawning /\ AskUser \notin Spawning /\ AskUser # Memory
  /\ Delegate # Schedule
  /\ Factory \subseteq Names
  /\ Toolsets \subseteq SUBSET Names
  /\ Grants \subseteq SUBSET Names
  /\ Requests \subseteq {Inherit} \union SUBSET Names
  /\ \A tools \in SUBSET Names : tools \notin {Inherit, Unset}
  /\ MaxRuns \in Nat \ {0}
  /\ MaxCalls \in [Runs -> Nat]
  /\ MaxRestarts \in Nat
  /\ MaxEdits \in Nat

VARIABLES
  run,       \* the runs as saved
  tick,      \* the act tick in flight, in the memory of the process
  ledger,    \* the results the runtime has recorded
  registry,  \* names the process has tool definitions of
  clock,     \* effects performed; the last one's number is its result
  restarts,
  edits,
  h          \* history of each run; properties read it, and MaxCalls

vars == <<run, tick, ledger, registry, clock, restarts, edits, h>>

-----------------------------------------------------------------------------
(* Data *)

NoCall == [name |-> "none", request |-> Inherit]
Call == [name : Names, request : Requests \union {Inherit}]

NoNote == [dropped |-> {}, requested |-> {}]
Note == [dropped : SUBSET Names, requested : SUBSET Names]

\* What an effect is filed under: its payload without the call ids.
Key == [name : Names, tools : SUBSET Names, seq : Nat]
NoKey == [name |-> "none", tools |-> {}, seq |-> 0]

\* A result that no effect produced: an error for the model.
Refusal == 0

Saved ==
  [node   : {"unborn", "reason", "act", "child", "user", "observe", "done"},
   allow  : {Unset} \union SUBSET Names,   \* _runtime.allowed_tools
   note   : Note,                          \* _runtime.allowlist_pruned
   seq    : Nat,                           \* scratchpad.act_seq
   call   : Call \union {NoCall},          \* temp.pending_tool_calls
   result : Nat,                           \* temp.tool_results
   child  : Runs \union {0}]               \* the run it waits for

\* The act node has a call to serve.
Run == {v \in Saved : v.node = "act" => v.call \in Call}

Started(allow) ==
  [node |-> "reason", allow |-> allow, note |-> NoNote, seq |-> 0, call |-> NoCall,
   result |-> Refusal, child |-> 0]
Unborn == [Started({}) EXCEPT !.node = "unborn"]

Tick ==
  [at : {"perform", "record", "save"}, r : Runs, copy : Run, key : Key, result : Nat]
NoTick == [at |-> "none", r |-> Root, copy |-> Unborn, key |-> NoKey, result |-> Refusal]

\* What happened to a run.
History ==
  [asked   : Nat,            \* calls proposed
   granted : SUBSET Names,   \* what it was started with, or the host wrote last
   reach   : SUBSET Names,   \* what the host granted to it or to a run above it
   ran     : SUBSET Names,   \* names it had performed
   told    : SUBSET Names,   \* grants announced as dropped
   fresh   : SUBSET Nat]     \* results performed for the pending call

NewHistory(granted, reach) ==
  [asked |-> 0, granted |-> granted, reach |-> reach, ran |-> {}, told |-> {},
   fresh |-> {}]

Told(x, dropped) == [x EXCEPT !.told = @ \union dropped]
Asked(x, dropped) ==
  [x EXCEPT !.asked = @ + 1, !.told = @ \union dropped, !.fresh = {}]
Did(x, name, result) ==
  [x EXCEPT !.ran = @ \union {name}, !.fresh = @ \union {result}]
Regranted(x, allow) == [x EXCEPT !.granted = allow, !.reach = @ \union allow]

-----------------------------------------------------------------------------
(* The effective allowlist *)

Requested(allow) == IF allow = Unset THEN Factory ELSE allow
Effective(allow) == Requested(allow) \intersect registry
Dropped(allow) == Requested(allow) \ registry

\* Mutant: one note per run.
MutantNotePruned(note, allow) ==
  IF Dropped(allow) = {} \/ note # NoNote THEN note
  ELSE [dropped |-> Dropped(allow), requested |-> Requested(allow)]

\* note_pruned_grants: the last prune stays on record.
NotePruned(note, allow) ==
  IF Dropped(allow) = {} THEN note
  ELSE [dropped |-> Dropped(allow), requested |-> Requested(allow)]

\* ... and is announced unless the record is the same as before.
Announced(v) ==
  LET note == NotePruned(v.note, v.allow)
  IN  IF note = v.note THEN {} ELSE note.dropped

\* The allowlist is kept as it was found effective, what is missing dropped.
Refreshed(v) ==
  [v EXCEPT !.allow = Effective(v.allow), !.note = NotePruned(v.note, v.allow)]

-----------------------------------------------------------------------------
(* reason, observe *)

Idle(r, node) == tick = NoTick /\ run[r].node = node

Reason(r, node, call) ==
  /\ Idle(r, "reason")
  /\ run' = [run EXCEPT ![r] = [Refreshed(@) EXCEPT !.node = node, !.call = call]]
  /\ UNCHANGED <<tick, ledger, registry, clock, restarts, edits>>

\* The model may call what it was not offered.
Propose(r) ==
  \E c \in Call :
    /\ c.name \notin Spawning => c.request = Inherit
    /\ h[r].asked < MaxCalls[r]
    /\ Reason(r, "act", c)
    /\ h' = [h EXCEPT ![r] = Asked(@, Announced(run[r]))]

Answer(r) ==
  /\ Reason(r, "done", NoCall)
  /\ h' = [h EXCEPT ![r] = Told(@, Announced(run[r]))]

Observe(r) ==
  /\ Idle(r, "observe")
  /\ run' = [run EXCEPT ![r].node = "reason", ![r].result = Refusal]
  /\ UNCHANGED <<tick, ledger, registry, clock, restarts, edits, h>>

-----------------------------------------------------------------------------
(* act *)

\* Mutant: what the model asks for is taken from the registry.
MutantChildAllow(c, allow) ==
  IF c.request = Inherit THEN allow \ {c.name, AskUser} ELSE c.request \intersect registry

\* What a delegated or scheduled run is granted: what was asked for of what this
\* run holds.  A child that is not asked for anything neither delegates nor asks
\* the user; a scheduled run never schedules.
ChildAllow(c, allow) ==
  LET asked == IF c.request = Inherit THEN allow ELSE c.request \intersect registry
      held  == asked \intersect allow
  IN  IF c.name = Schedule THEN held \ {Schedule}
      ELSE IF c.request = Inherit THEN held \ {Delegate, AskUser}
      ELSE held

\* The model asked for tools, and none is granted.
NothingGranted(c, allow) ==
  /\ c.name = Delegate
  /\ c.request # Inherit
  /\ c.request \intersect registry # {}
  /\ ChildAllow(c, allow) = {}

Refused(c, allow) ==
  /\ c.name \in Builtin
  /\ c.name \notin allow \/ NothingGranted(c, allow)

\* The call is off the queue, and its result comes next.
Served(v, seq) ==
  [v EXCEPT !.node = "observe", !.call = NoCall, !.result = Refusal, !.seq = seq]

\* Mutant: the call stays where it is.
MutantActRefused(r) ==
  /\ Idle(r, "act")
  /\ Refused(run[r].call, Effective(run[r].allow))
  /\ run' = [run EXCEPT ![r] = Refreshed(@)]
  /\ UNCHANGED <<tick, ledger, registry, clock, restarts, edits, h>>

\* A refused call is answered without an effect.
ActRefused(r) ==
  LET v == Refreshed(run[r])
  IN  /\ Idle(r, "act")
      /\ Refused(run[r].call, v.allow)
      /\ run' = [run EXCEPT ![r] = Served(v, v.seq)]
      /\ h' = [h EXCEPT ![r] = Told(@, Announced(run[r]))]
      /\ UNCHANGED <<tick, ledger, registry, clock, restarts, edits>>

\* Mutants: batches are not numbered; they are numbered by the process.
MutantUnnumbered(v) == v.seq
MutantNumberedByProcess(v) == clock + 1

\* act_seq: the number of the next batch of this run.
NextSeq(v) == v.seq + 1

\* Only a batch of ordinary tools carries a number and the allowlist.
KeyOf(v, c) ==
  [name  |-> c.name,
   tools |-> CASE c.name \in Tools -> v.allow
               [] c.name \in Spawning -> ChildAllow(c, v.allow)
               [] OTHER -> {},
   seq   |-> IF c.name \in Tools THEN NextSeq(v) ELSE 0]

Recorded(r, key) == {e.result : e \in {x \in ledger : x.run = r /\ x.key = key}}

\* The handler, up to the ledger: an effect that has a result there is not
\* performed again.
ActIssue(r) ==
  LET c == run[r].call
      v == Refreshed(run[r])
      key == KeyOf(v, c)
      copy == Served(v, IF c.name \in Tools THEN NextSeq(v) ELSE v.seq)
      begin(at, result) ==
        tick' = [at |-> at, r |-> r, copy |-> copy, key |-> key, result |-> result]
  IN  /\ Idle(r, "act")
      /\ ~Refused(c, v.allow)
      /\ IF Recorded(r, key) = {} THEN begin("perform", Refusal)
         ELSE \E result \in Recorded(r, key) : begin("save", result)
      /\ h' = [h EXCEPT ![r] = Told(@, Announced(run[r]))]
      /\ UNCHANGED <<run, ledger, registry, clock, restarts, edits>>

-----------------------------------------------------------------------------
(* The runtime and its hosts *)

\* A tool or a memory effect runs; the executor refuses a tool the payload does
\* not allow.
Perform ==
  LET name == tick.key.name
      allowed == name \in Tools => name \in tick.key.tools
      result == IF allowed THEN clock + 1 ELSE Refusal
  IN  /\ tick.at = "perform"
      /\ name \notin Spawning \union {AskUser}
      /\ tick' = [tick EXCEPT !.at = "record", !.result = result]
      /\ clock' = IF allowed THEN clock + 1 ELSE clock
      /\ h' = IF allowed THEN [h EXCEPT ![tick.r] = Did(@, name, result)] ELSE h
      /\ UNCHANGED <<run, ledger, registry, restarts, edits>>

\* The question goes to the user, of a delegated run as well as of the root: the
\* run waits for the answer, and no result is on record until then.
Ask ==
  /\ tick.at = "perform"
  /\ tick.key.name = AskUser
  /\ clock' = clock + 1
  /\ tick' = [tick EXCEPT !.at = "save", !.copy.node = "user"]
  /\ h' = [h EXCEPT ![tick.r] = Did(@, AskUser, clock + 1)]
  /\ UNCHANGED <<run, ledger, registry, restarts, edits>>

Waiting(v, child) == [v EXCEPT !.node = "child", !.child = child]

\* A run is started under the next id.  Whoever delegated waits for it; a
\* scheduled one goes its own way.
Spawn ==
  LET name == tick.key.name
  IN  /\ tick.at = "perform"
      /\ name \in Spawning
      /\ clock' = clock + 1
      /\ \E child \in Runs :
           /\ run[child].node = "unborn"
           /\ \A other \in 1..(child - 1) : run[other].node # "unborn"
           /\ run' = [run EXCEPT ![child] = Started(tick.key.tools)]
           /\ tick' = IF name = Delegate
                      THEN [tick EXCEPT !.at = "save", !.copy = Waiting(@, child)]
                      ELSE [tick EXCEPT !.at = "record", !.result = clock + 1]
           /\ h' = [h EXCEPT ![tick.r] = Did(@, name, clock + 1),
                             ![child] = NewHistory(tick.key.tools, h[tick.r].reach)]
      /\ UNCHANGED <<ledger, registry, restarts, edits>>

\* A run that cannot be started is an error for the model.
SpawnFails ==
  /\ tick.at = "perform"
  /\ tick.key.name \in Spawning
  /\ tick' = [tick EXCEPT !.at = "save"]
  /\ UNCHANGED <<run, ledger, registry, clock, restarts, edits, h>>

Record ==
  /\ tick.at = "record"
  /\ ledger' = ledger \union {[run |-> tick.r, key |-> tick.key, result |-> tick.result]}
  /\ tick' = [tick EXCEPT !.at = "save"]
  /\ UNCHANGED <<run, registry, clock, restarts, edits, h>>

Save ==
  /\ tick.at = "save"
  /\ run' = [run EXCEPT ![tick.r] = [tick.copy EXCEPT !.result = tick.result]]
  /\ tick' = NoTick
  /\ UNCHANGED <<ledger, registry, clock, restarts, edits, h>>

\* The child has answered, and its parent resumes with that.
ChildReturns(r) ==
  /\ Idle(r, "child")
  /\ run[run[r].child].node = "done"
  /\ clock' = clock + 1
  /\ run' = [run EXCEPT ![r] = [Served(@, @.seq) EXCEPT !.result = clock + 1, !.child = 0]]
  /\ UNCHANGED <<tick, ledger, registry, restarts, edits, h>>

\* The user answers, and the loop goes on; nobody makes the user answer.
Respond(r) ==
  /\ Idle(r, "user")
  /\ run' = [run EXCEPT ![r].node = "reason"]
  /\ UNCHANGED <<tick, ledger, registry, clock, restarts, edits, h>>

\* The process dies, or is replaced by one with other tools.
Restart(tools) ==
  /\ restarts < MaxRestarts
  /\ restarts' = restarts + 1
  /\ tick' = NoTick
  /\ registry' = tools
  /\ UNCHANGED <<run, ledger, clock, edits, h>>

\* A host writes the allowlist of a run that is under way.
HostGrant(r, allow) ==
  /\ tick = NoTick
  /\ edits < MaxEdits
  /\ run[r].node \notin {"unborn", "done"}
  /\ edits' = edits + 1
  /\ run' = [run EXCEPT ![r].allow = allow]
  /\ h' = [h EXCEPT ![r] = Regranted(@, allow)]
  /\ UNCHANGED <<tick, ledger, registry, clock, restarts>>

Finished ==
  /\ tick = NoTick
  /\ \A r \in Runs : run[r].node \in {"unborn", "done"}
  /\ UNCHANGED vars

Init ==
  /\ \E allow \in Grants \union {Unset} :
       /\ run = [r \in Runs |-> IF r = Root THEN Started(allow) ELSE Unborn]
       /\ h = [r \in Runs |-> IF r = Root
                              THEN NewHistory(Requested(allow), Requested(allow))
                              ELSE NewHistory({}, {})]
  /\ tick = NoTick
  /\ ledger = {}
  /\ registry \in Toolsets
  /\ clock = 0
  /\ restarts = 0
  /\ edits = 0

\* A node of one run.
Step(r) ==
  \/ Propose(r) \/ Answer(r) \/ Observe(r)
  \/ ActRefused(r) \/ ActIssue(r) \/ ChildReturns(r)

\* The rest of an act tick.
Effect == Perform \/ Ask \/ Spawn \/ SpawnFails \/ Record \/ Save

Next ==
  \/ \E r \in Runs : Step(r)
  \/ Effect
  \/ \E r \in Runs : Respond(r)
  \/ \E tools \in Toolsets : Restart(tools)
  \/ \E r \in Runs, allow \in Grants : HostGrant(r, allow)
  \/ Finished

Spec == Init /\ [][Next]_vars

\* The runtime drives every run on that waits for nobody, children included, and
\* an effect that was begun comes to an end.  Whether the user answers is up to the
\* user.
FairSpec == Spec /\ (\A r \in Runs : WF_vars(Step(r))) /\ WF_vars(Effect)

-----------------------------------------------------------------------------
(* Properties *)

\* Every variable ranges over what the code can store in it.
TypeOK ==
  /\ run \in [Runs -> Run]
  /\ tick \in Tick \union {NoTick}
  /\ \A e \in ledger : e.run \in Runs /\ e.key \in Key /\ e.result \in Nat
  /\ registry \in Toolsets
  /\ clock \in Nat
  /\ restarts \in 0..MaxRestarts
  /\ edits \in 0..MaxEdits
  /\ h \in [Runs -> History]

\* A delegated run's exposure is a subset of its parent's, always: no run, however
\* deep in the tree, holds or has run a tool that the host granted neither to it
\* nor to a run above it.
NobodyOutgrowsTheHost ==
  \A r \in Runs :
    /\ Requested(run[r].allow) \subseteq h[r].reach \/ run[r].node = "unborn"
    /\ h[r].ran \subseteq h[r].reach

\* Works or loud: a run has what it was granted last, and whatever is gone from
\* that was announced, through however many restarts with other toolsets.
LossIsAnnounced ==
  \A r \in Runs :
    run[r].node # "unborn" =>
      /\ Requested(run[r].allow) \subseteq h[r].granted
      /\ h[r].granted \ Requested(run[r].allow) \subseteq h[r].told

\* A batch of tools is answered by a result of its own, never by that of an
\* identical earlier batch, whatever was recorded before a restart; it goes
\* without a result only if the run was not allowed to have it performed.
AnsweredByItsOwn ==
  [][ \A r \in Runs :
        (/\ run[r].node = "act"
         /\ run[r].call.name \in Tools
         /\ run'[r].node = "observe")
        => \/ run'[r].result \in h[r].fresh
           \/ run'[r].result = Refusal /\ run[r].call.name \notin run'[r].allow ]_vars

\* A batch whose result is on record is not performed again, unless the allowlist
\* it goes out with has changed in between.
RecordedOnce ==
  [][ (clock' # clock /\ tick.at = "perform" /\ tick.key.name \in Tools)
      => \A e \in ledger : /\ e.run = tick.r
                           /\ e.key.tools = tick.key.tools
                           => e.result \notin h[tick.r].fresh ]_vars

\* A run waits for its user, or for a run it delegated to that does: whoever is in
\* waiting asks, or waits for a run (of a higher id) that is in it too.
WaitsForUser(r) ==
  \E waiting \in SUBSET Runs :
    /\ r \in waiting
    /\ \A q \in waiting :
         \/ run[q].node = "user"
         \/ run[q].node = "child" /\ run[q].child \in waiting

\* Every call is answered in the end, by its effect, by the run it started, by a
\* refusal or by the user, through restarts at any point: only a user who never
\* answers, the run itself or one below it, holds a call up for ever.
CallsAreAnswered ==
  \A r \in Runs :
    \/ <>[]WaitsForUser(r)
    \/ run[r].node \in {"act", "child", "user"} ~> run[r].node \in {"observe", "reason"}
=============================================================================
