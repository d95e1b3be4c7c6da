------------------------------ MODULE AgentFacade ------------------------------
(***************************************************************************)
(* The facades hosts hold (agents/base.py, agents/react.py): objects that      *)
(* remember an identity, the run they are on and what the session said, while  *)
(* the runs live in the runtime's store; and the door that starts one task     *)
(* from the vars of the last (agents/task_reset.py).                           *)
(*                                                                         *)
(* A run is ticked as a whole: it thinks, or it ends; one that waits for its   *)
(* user is resumed as a running one is stepped.  A message list is kept apart  *)
(* from the run that points to it, because in memory two runs may point to the *)
(* same one.  Hook steering and the race of inject_message with a tick are in  *)
(* Steering.                                                                   *)
(***************************************************************************)
EXTENDS Integers, Sequences, FiniteSetsExt

CONSTANTS
  Agents,       \* facades
  Product,      \* the workflow each of them drives
  Identities,   \* what a facade may be configured with: [actor, session]
  None,         \* no id, no facade, no file
  Persistent,   \* stores the runtime may have: TRUE for one that outlives it
  DoorNames,    \* the door starts a task under the ids of the last
  MaxRuns,      \* bound: runs
  MaxTicks,     \* bound: ticks that end no run
  MaxGuided,    \* bound: runs that are given guidance
  MaxRemade     \* bound: facades that are made anew

Runs == 1..MaxRuns
NoRun == 0
Ids == Nat \union {None}

ASSUME FacadeAssumption ==
  /\ Agents \intersect Runs = {}
  /\ Identities \subseteq [actor : Ids, session : Ids]
  /\ None \notin Nat \union Agents
  /\ Persistent \subseteq BOOLEAN
  /\ DoorNames \in BOOLEAN
  /\ MaxRuns \in Nat
  /\ MaxTicks \in Nat
  /\ MaxGuided \in Nat
  /\ MaxRemade \in Nat

VARIABLES
  agent,       \* the facades
  run,         \* the store
  said,        \* message lists; an entry is the run that wrote it
  file,        \* the saved reference
  persistent,  \* the store outlives the process
  minted,      \* ids handed out so far
  remade,
  endedBy      \* history: the facade under which a run ended

vars == <<agent, run, said, file, persistent, minted, remade, endedBy>>

-----------------------------------------------------------------------------
(* Data *)

\* COMPLETED or FAILED, which no facade tells apart here; and CANCELLED.
Ended == {"over", "cancelled"}

Agent == [actor : Ids, session : Ids, current : Runs \union {NoRun}]
Made(id) == [actor |-> id.actor, session |-> id.session, current |-> NoRun]

Run ==
  [status  : {"unborn", "running"} \union Ended,
   product : {Product[a] : a \in Agents} \union {None},
   actor   : Ids,
   session : Ids,
   list    : Runs,         \* the message list context.messages is
   inbox   : SUBSET Runs,         \* guidance, by the run it was meant for
   heard   : SUBSET Runs,         \* guidance it took into its transcript
   ticks   : Nat]

Started(product, actor, session, list) ==
  [status |-> "running", product |-> product, actor |-> actor, session |-> session,
   list |-> list, inbox |-> {}, heard |-> {}, ticks |-> 0]
Unborn(r) == [Started(None, None, None, r) EXCEPT !.status = "unborn"]

File == [run : Runs, product : {Product[a] : a \in Agents}, actor : Ids, session : Ids]

Unused(r) == run[r].status = "unborn" /\ \A q \in 1..(r - 1) : run[q].status # "unborn"

\* Mutant: the cache is left to attach.
MutantSynced(lists, a, r, status) == lists

\* _sync_session_caches_from_state, once a run has ended.
Synced(lists, a, r, status) ==
  IF status \in Ended THEN [lists EXCEPT ![a] = lists[run[r].list]] ELSE lists

-----------------------------------------------------------------------------
(* Runs under a facade *)

Ensured(id) == IF id = None THEN minted + 1 ELSE id

\* Mutant: every task starts a session of its own.
MutantSeed(a) == <<>>

\* A run starts from what the session said.
Seed(a) == said[a]

Start(a) ==
  \E r \in Runs :
    LET actor == Ensured(agent[a].actor)
        session == Ensured(agent[a].session)
    IN  /\ Unused(r)
        /\ run' = [run EXCEPT ![r] = Started(Product[a], actor, session, r)]
        /\ said' = [said EXCEPT ![r] = Seed(a)]
        /\ agent' = [agent EXCEPT ![a] = [actor |-> actor, session |-> session,
                                          current |-> r]]
        /\ minted' = IF None \in {agent[a].actor, agent[a].session} THEN minted + 1
                     ELSE minted
        /\ UNCHANGED <<file, persistent, remade, endedBy>>

Ticks == MapThenSumSet(LAMBDA r : run[r].ticks, Runs)

\* What a tick may leave of a run: it thinks with the guidance it has been given,
\* or ends.
Ticked(v) ==
  {[v EXCEPT !.status = "over"]} \union
  IF Ticks >= MaxTicks THEN {}
  ELSE {[v EXCEPT !.ticks = @ + 1, !.heard = @ \union v.inbox, !.inbox = {}]}

Wrote(r) == [said EXCEPT ![run[r].list] = Append(@, r)]

Credited(a, r, status) ==
  IF status \in Ended THEN [endedBy EXCEPT ![r] = a] ELSE endedBy

\* step, and resume.
Drive(a) ==
  LET r == agent[a].current
  IN  /\ r # NoRun
      /\ run[r].status = "running"
      /\ \E v \in Ticked(run[r]) :
           /\ run' = [run EXCEPT ![r] = v]
           /\ said' = Synced(Wrote(r), a, r, v.status)
           /\ endedBy' = Credited(a, r, v.status)
      /\ UNCHANGED <<agent, file, persistent, minted, remade>>

\* step on a run that has ended: the tick returns it as it is.
StepEnded(a) ==
  LET r == agent[a].current
  IN  /\ r # NoRun
      /\ run[r].status \in Ended
      /\ said' = Synced(said, a, r, run[r].status)
      /\ endedBy' = Credited(a, r, run[r].status)
      /\ UNCHANGED <<agent, run, file, persistent, minted, remade>>

\* cancel syncs nothing: the session goes on without what the run said.
Cancel(a) ==
  LET r == agent[a].current
  IN  /\ r # NoRun
      /\ run[r].status = "running"
      /\ run' = [run EXCEPT ![r].status = "cancelled"]
      /\ UNCHANGED <<agent, said, file, persistent, minted, remade, endedBy>>

\* Runs that were given guidance.
Guided == {r \in Runs : run[r].inbox \union run[r].heard # {}}

\* inject_message looks at no status.
InjectMessage(a) ==
  /\ agent[a].current # NoRun
  /\ Cardinality(Guided \union {agent[a].current}) <= MaxGuided
  /\ run' = [run EXCEPT ![agent[a].current].inbox = @ \union {agent[a].current}]
  /\ UNCHANGED <<agent, said, file, persistent, minted, remade, endedBy>>

-----------------------------------------------------------------------------
(* Identity *)

Adopted(own, theirs) == IF own = None THEN theirs ELSE own

\* Mutant: ids are not compared.
MutantAccepts(own, theirs) == TRUE

\* Two ids disagree only when both are known.
Accepts(own, theirs) == None \in {own, theirs} \/ own = theirs

\* attach, for a facade that has come to x: the ids are checked one after the
\* other, and what was adopted before a refusal stays.
Attached(a, x, r) ==
  LET actor == Adopted(x.actor, run[r].actor)
  IN  IF Product[a] # run[r].product \/ ~Accepts(x.actor, run[r].actor) THEN x
      ELSE IF ~Accepts(x.session, run[r].session) THEN [x EXCEPT !.actor = actor]
      ELSE [actor |-> actor, session |-> Adopted(x.session, run[r].session),
            current |-> r]

Accepted(a, x, r) ==
  /\ Product[a] = run[r].product
  /\ Accepts(x.actor, run[r].actor)
  /\ Accepts(x.session, run[r].session)

\* The facade comes to x, and then attaches to r; the session follows.
AttachAs(a, x, r) ==
  /\ agent' = [agent EXCEPT ![a] = Attached(a, x, r)]
  /\ said' = IF Accepted(a, x, r) THEN [said EXCEPT ![a] = said[run[r].list]] ELSE said
  /\ UNCHANGED <<run, file, persistent, minted, remade, endedBy>>

Attach(a) ==
  \E r \in Runs : run[r].status # "unborn" /\ AttachAs(a, agent[a], r)

\* save_state names the session, and wants a store that outlives the process.
SaveState(a) ==
  LET session == Ensured(agent[a].session)
  IN  /\ agent[a].current # NoRun
      /\ persistent
      /\ file' = [run |-> agent[a].current, product |-> Product[a],
                  actor |-> agent[a].actor, session |-> session]
      /\ agent' = [agent EXCEPT ![a].session = session]
      /\ minted' = IF agent[a].session = None THEN minted + 1 ELSE minted
      /\ UNCHANGED <<run, said, persistent, remade, endedBy>>

\* load_state checks and adopts what the file says, and attaches.
LoadState(a) ==
  LET own == agent[a]
      actor == Adopted(own.actor, file.actor)
      session == Adopted(own.session, file.session)
  IN  /\ file # None
      /\ file.product = Product[a]
      /\ Accepts(own.actor, file.actor)
      /\ IF Accepts(own.session, file.session)
         THEN AttachAs(a, [own EXCEPT !.actor = actor, !.session = session], file.run)
         ELSE /\ agent' = [agent EXCEPT ![a].actor = actor]
              /\ UNCHANGED <<run, said, file, persistent, minted, remade, endedBy>>

ClearState ==
  /\ file' = None
  /\ UNCHANGED <<agent, run, said, persistent, minted, remade, endedBy>>

\* The host makes the facade anew, in another process or in the same one.
Remake(a) ==
  /\ remade < MaxRemade
  /\ remade' = remade + 1
  /\ \E id \in Identities : agent' = [agent EXCEPT ![a] = Made(id)]
  /\ said' = [said EXCEPT ![a] = <<>>]
  /\ UNCHANGED <<run, file, persistent, minted, endedBy>>

-----------------------------------------------------------------------------
(* Hosts without a facade *)

\* Mutant: the list is handed on as it is.  A store that outlives the process
\* reads its own copy.
MutantCarried(next, list) == IF persistent THEN next ELSE list

\* The messages are copied into a list of the next run's own.
Carried(next, list) == next

\* Mutant: _runtime is handed on as it is.
MutantResetInbox(inbox) == inbox

\* Guidance nobody took was for the task before.
ResetInbox(inbox) == {}

\* reset_react_task, and a run started from what it returns.
DoorStart(r, carry) ==
  \E next \in Runs :
    LET v == run[r]
        list == IF carry THEN Carried(next, v.list) ELSE next
        name(id) == IF DoorNames THEN id ELSE None
    IN  /\ v.status \in Ended
        /\ Unused(next)
        /\ run' = [run EXCEPT ![next] =
                     [Started(v.product, name(v.actor), name(v.session), list)
                        EXCEPT !.inbox = ResetInbox(v.inbox)]]
        /\ said' = IF list # next THEN said
                   ELSE [said EXCEPT ![next] = IF carry THEN said[v.list] ELSE <<>>]
        /\ UNCHANGED <<agent, file, persistent, minted, remade, endedBy>>

\* The door, or a scheduler, ticks a run itself.
HostTick(r) ==
  /\ run[r].status = "running"
  /\ \E v \in Ticked(run[r]) : run' = [run EXCEPT ![r] = v]
  /\ said' = Wrote(r)
  /\ UNCHANGED <<agent, file, persistent, minted, remade, endedBy>>

Init ==
  /\ \E id \in [Agents -> Identities] : agent = [a \in Agents |-> Made(id[a])]
  /\ run = [r \in Runs |-> Unborn(r)]
  /\ said = [o \in Agents \union Runs |-> <<>>]
  /\ file = None
  /\ persistent \in Persistent
  /\ minted = 0
  /\ remade = 0
  /\ endedBy = [r \in Runs |-> None]

Next ==
  \/ \E a \in Agents :
       \/ Start(a) \/ Drive(a) \/ StepEnded(a) \/ Cancel(a) \/ InjectMessage(a)
       \/ Attach(a) \/ SaveState(a) \/ LoadState(a) \/ Remake(a)
  \/ ClearState
  \/ \E r \in Runs, carry \in BOOLEAN : DoorStart(r, carry)
  \/ \E r \in Runs : HostTick(r)

Spec == Init /\ [][Next]_vars

-----------------------------------------------------------------------------
(* Properties *)

\* Every variable ranges over what the code can store in it.
TypeOK ==
  /\ agent \in [Agents -> Agent]
  /\ run \in [Runs -> Run]
  /\ said \in [Agents \union Runs -> Seq(Runs)]
  /\ file \in File \union {None}
  /\ persistent \in BOOLEAN
  /\ minted \in Nat
  /\ remade \in 0..MaxRemade
  /\ endedBy \in [Runs -> Agents \union {None}]

\* docs/persistence.md: no accidental cross-agent attachment.  Whatever was
\* attached, refused, saved, loaded and started before, a facade is on a run of its
\* own workflow, actor and session, and so is whoever loads the file.
OneIdentity ==
  /\ \A a \in Agents : agent[a].current # NoRun =>
       LET v == run[agent[a].current]
       IN  /\ v.product = Product[a]
           /\ v.actor \in {None, agent[a].actor}
           /\ v.session \in {None, agent[a].session}
  /\ file # None =>
       LET v == run[file.run]
       IN  /\ v.product = file.product
           /\ v.actor \in {None, file.actor}
           /\ v.session \in {None, file.session}

\* What one session said never turns up in another, through any chain of facades,
\* files and doors, provided the door names the session it works for.
SessionsDoNotMix ==
  DoorNames =>
    /\ \A r \in Runs : \A k \in DOMAIN said[run[r].list] :
         run[r].status # "unborn" => run[said[run[r].list][k]].session = run[r].session
    /\ \A a \in Agents : \A k \in DOMAIN said[a] :
         run[said[a][k]].session = agent[a].session

\* Both: whose run it is and what it is told stay within one session.
SessionsAreKeptApart == OneIdentity /\ SessionsDoNotMix

\* The facade's next task starts from all that its last one said, if that ended
\* in the facade's hands; what a cancelled run said is dropped unless the host
\* steps it once more.
SessionGoesOn ==
  [][ \A a \in Agents :
        LET last == agent[a].current
            next == agent'[a].current
        IN  (/\ last # NoRun /\ endedBy[last] = a
             /\ next # NoRun /\ run[next].status = "unborn")
            => said'[run'[next].list] = said[run[last].list] ]_vars

\* Guidance for one task never amends another.
GuidanceStaysWithItsTask ==
  \A r \in Runs : run[r].inbox \union run[r].heard \subseteq {r}

\* The record of a run that has ended is never rewritten by the runs that follow.
EndedRecordsAreKept ==
  [][ \A r \in Runs : run[r].status \in Ended =>
        /\ run'[r].status = run[r].status
        /\ said'[run'[r].list] = said[run[r].list] ]_vars
================================================================================
