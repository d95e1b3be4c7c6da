--------------------------- MODULE AgentFacadeProofs ---------------------------
(***************************************************************************)
(* Proofs about AgentFacade, for any number of facades, identities, runs and  *)
(* ticks, for stores that outlive the process and for those that do not.      *)
(***************************************************************************)
EXTENDS AgentFacade, TLAPS

-----------------------------------------------------------------------------
(* The inductive invariant *)

Born(r) == run[r].status # "unborn"

\* No two runs write to one message list.
OwnLists == \A r \in Runs : run[r].list = r

\* Whatever is pointed to has been started.
BornInv ==
  /\ \A a \in Agents : agent[a].current # NoRun => Born(agent[a].current)
  /\ file # None => Born(file.run)
  /\ \A o \in Agents \union Runs : \A k \in DOMAIN said[o] : Born(said[o][k])
  /\ \A r \in Runs : endedBy[r] # None => run[r].status \in Ended

\* A door that names the session leaves no run without one.
Named == DoorNames => \A r \in Runs : Born(r) => run[r].session # None

\* A facade under which its run ended has taken over what that run said.
InSync ==
  \A a \in Agents :
    (agent[a].current # NoRun /\ endedBy[agent[a].current] = a)
    => said[a] = said[agent[a].current]

\* The inductive invariant: types, the two separations, and what they rest on.
IInv ==
  /\ TypeOK /\ OwnLists /\ BornInv /\ Named /\ InSync
  /\ SessionsAreKeptApart /\ GuidanceStaysWithItsTask

-----------------------------------------------------------------------------
(* What the helpers return *)

Products == {Product[a] : a \in Agents} \union {None}

\* A run that is started has the fields it is given.
LEMMA StartedFacts ==
  ASSUME NEW product \in Products,
         NEW actor \in Ids, NEW session \in Ids, NEW list \in Runs
  PROVE  LET v == Started(product, actor, session, list)
         IN  /\ v \in Run
             /\ v.status = "running" /\ v.product = product
             /\ v.actor = actor /\ v.session = session /\ v.list = list
             /\ v.inbox = {} /\ v.heard = {}
BY DEF Started, Run, Ended, Products

\* A tick leaves a run's identity alone, and takes guidance from its inbox only.
LEMMA TickedFacts ==
  ASSUME NEW v \in Run, NEW w \in Ticked(v)
  PROVE  /\ w \in Run
         /\ w.status \in {v.status, "over"} /\ w.product = v.product
         /\ w.actor = v.actor /\ w.session = v.session /\ w.list = v.list
         /\ w.inbox \union w.heard \subseteq v.inbox \union v.heard
<1>1. CASE w = [v EXCEPT !.status = "over"]
  BY <1>1 DEF Run, Ended
<1>2. CASE w # [v EXCEPT !.status = "over"]
  <2>1. w = [v EXCEPT !.ticks = v.ticks + 1, !.heard = v.heard \union v.inbox, !.inbox = {}]
    BY <1>2 DEF Ticked
  <2>2. v.ticks + 1 \in Nat
    BY DEF Run
  <2>3. v.heard \union v.inbox \in SUBSET Runs
    BY DEF Run
  <2> QED BY <2>1, <2>2, <2>3 DEF Run
<1> QED BY <1>1, <1>2

\* Making sure of an identity keeps the one there is, or mints one.
LEMMA EnsuredFacts ==
  ASSUME minted \in Nat, NEW id \in Ids
  PROVE  /\ Ensured(id) \in Nat /\ Ensured(id) # None
         /\ id # None => Ensured(id) = id
BY FacadeAssumption DEF Ensured, Ids

\* What a facade is after an attach, refused or not.
LEMMA AttachedFacts ==
  ASSUME NEW a \in Agents, NEW x \in Agent, NEW r \in Runs, run[r] \in Run
  PROVE  LET y == Attached(a, x, r)
         IN  /\ y \in Agent
             /\ x.actor # None => y.actor = x.actor
             /\ x.session # None => y.session = x.session
             /\ ~Accepted(a, x, r) => y.current = x.current /\ y.session = x.session
             /\ Accepted(a, x, r) => /\ y.current = r
                                     /\ run[r].product = Product[a]
                                     /\ run[r].actor \in {None, y.actor}
                                     /\ run[r].session \in {None, y.session}
<1> DEFINE y == Attached(a, x, r)
<1>1. /\ x.actor \in Ids /\ x.session \in Ids /\ x.current \in Runs \union {NoRun}
      /\ x = [actor |-> x.actor, session |-> x.session, current |-> x.current]
  BY DEF Agent
<1>2. run[r].actor \in Ids /\ run[r].session \in Ids
  BY DEF Run
<1>3. CASE Product[a] # run[r].product \/ ~Accepts(x.actor, run[r].actor)
  BY <1>3 DEF Attached, Accepted
<1>4. CASE ~(Product[a] # run[r].product \/ ~Accepts(x.actor, run[r].actor))
           /\ ~Accepts(x.session, run[r].session)
  <2>1. y = [x EXCEPT !.actor = Adopted(x.actor, run[r].actor)]
    BY <1>4 DEF Attached
  <2> QED BY <1>1, <1>2, <1>4, <2>1 DEF Accepted, Adopted, Agent
<1>5. CASE Accepted(a, x, r)
  <2>1. y = [actor |-> Adopted(x.actor, run[r].actor),
             session |-> Adopted(x.session, run[r].session), current |-> r]
    BY <1>5 DEF Attached, Accepted
  <2> QED BY <1>1, <1>2, <1>5, <2>1 DEF Accepted, Accepts, Adopted, Agent
<1> QED BY <1>3, <1>4, <1>5 DEF Accepted

-----------------------------------------------------------------------------
(* The steps that start a run, with the run they start *)

StartOf(a, r) ==
  /\ run[r].status = "unborn"
  /\ run' = [run EXCEPT ![r] = Started(Product[a], Ensured(agent[a].actor),
                                       Ensured(agent[a].session), r)]
  /\ said' = [said EXCEPT ![r] = said[a]]
  /\ agent' = [agent EXCEPT ![a] = [actor |-> Ensured(agent[a].actor),
                                    session |-> Ensured(agent[a].session),
                                    current |-> r]]
  /\ minted' \in {minted, minted + 1}
  /\ UNCHANGED <<file, persistent, remade, endedBy>>

\* Start, without the seed it goes through.
LEMMA StartFacts ==
  ASSUME NEW a \in Agents, Start(a)
  PROVE  \E r \in Runs : StartOf(a, r)
BY DEF Start, StartOf, Unused, Seed

\* The name the door gives, and what it hands on.
Name(id) == IF DoorNames THEN id ELSE None

\* DoorStart of one run and the run it opens.
DoorStartOf(r, carry, next) ==
  /\ run[r].status \in Ended
  /\ run[next].status = "unborn"
  /\ run' = [run EXCEPT ![next] = Started(run[r].product, Name(run[r].actor),
                                          Name(run[r].session), next)]
  /\ said' = [said EXCEPT ![next] = IF carry THEN said[run[r].list] ELSE <<>>]
  /\ UNCHANGED <<agent, file, persistent, minted, remade, endedBy>>

\* DoorStart, without the seed it goes through.
LEMMA DoorStartFacts ==
  ASSUME NEW r \in Runs, NEW carry \in BOOLEAN, DoorStart(r, carry)
  PROVE  \E next \in Runs : DoorStartOf(r, carry, next)
<1>1. PICK next \in Runs :
        /\ run[r].status \in Ended
        /\ Unused(next)
        /\ run' = [run EXCEPT ![next] =
                     [Started(run[r].product, Name(run[r].actor), Name(run[r].session), next)
                        EXCEPT !.inbox = {}]]
        /\ said' = [said EXCEPT ![next] = IF carry THEN said[run[r].list] ELSE <<>>]
        /\ UNCHANGED <<agent, file, persistent, minted, remade, endedBy>>
  BY DEF DoorStart, Carried, ResetInbox, Name
<1>2. [Started(run[r].product, Name(run[r].actor), Name(run[r].session), next)
         EXCEPT !.inbox = {}]
      = Started(run[r].product, Name(run[r].actor), Name(run[r].session), next)
  BY DEF Started
<1> QED BY <1>1, <1>2 DEF DoorStartOf, Unused

-----------------------------------------------------------------------------
(* Runs *)

\* A run that was started stays what it is, and one that has ended stays so.
Lasts(v, w) ==
  /\ v.status # "unborn" => /\ w.status # "unborn" /\ w.product = v.product
                            /\ w.actor = v.actor /\ w.session = v.session
  /\ v.status \in Ended => w.status = v.status

\* No step loses what a run has ended as, or mixes what runs are told.
RunsLast ==
  /\ run' \in [Runs -> Run]
  /\ \A r \in Runs : /\ run'[r].list = r
                     /\ Lasts(run[r], run'[r])
                     /\ run'[r].inbox \union run'[r].heard \subseteq {r}

\* Every step leaves the runs as it found them, but for the one it is about.
LEMMA RunStep ==
  ASSUME TypeOK, OwnLists, GuidanceStaysWithItsTask, Next
  PROVE  RunsLast
<1>1. /\ run \in [Runs -> Run] /\ agent \in [Agents -> Agent] /\ minted \in Nat
      /\ \A a \in Agents : /\ agent[a].actor \in Ids /\ agent[a].session \in Ids
                           /\ agent[a].current \in Runs \union {NoRun}
      /\ \A r \in Runs : /\ run[r].product \in Products
                         /\ run[r].actor \in Ids /\ run[r].session \in Ids
  BY DEF TypeOK, Agent, Run, Products
<1>2. \A r \in Runs : run[r].list = r /\ run[r].inbox \union run[r].heard \subseteq {r}
  BY DEF OwnLists, GuidanceStaysWithItsTask
<1>3. ASSUME UNCHANGED run PROVE RunsLast
  BY <1>1, <1>2, <1>3 DEF RunsLast, Lasts
<1>4. ASSUME NEW r \in Runs, NEW v \in Run, run' = [run EXCEPT ![r] = v], v.list = r,
             Lasts(run[r], v), v.inbox \union v.heard \subseteq {r}
      PROVE  RunsLast
  BY <1>1, <1>2, <1>4 DEF RunsLast, Lasts
<1>5. ASSUME NEW r \in Runs, NEW v \in Ticked(run[r]), run' = [run EXCEPT ![r] = v],
             run[r].status = "running"
      PROVE  RunsLast
  <2>1. /\ v \in Run
        /\ v.status \in {run[r].status, "over"} /\ v.product = run[r].product
        /\ v.actor = run[r].actor /\ v.session = run[r].session /\ v.list = run[r].list
        /\ v.inbox \union v.heard \subseteq run[r].inbox \union run[r].heard
    BY <1>1, TickedFacts
  <2>2. Lasts(run[r], v)
    BY <1>5, <2>1 DEF Lasts, Ended
  <2>3. v.list = r /\ v.inbox \union v.heard \subseteq {r}
    BY <1>2, <2>1
  <2> QED BY <1>4, <1>5, <2>1, <2>2, <2>3
<1>6. ASSUME NEW a \in Agents, Start(a) PROVE RunsLast
  <2>1. PICK r \in Runs : StartOf(a, r)
    BY <1>6, StartFacts
  <2> DEFINE v == Started(Product[a], Ensured(agent[a].actor), Ensured(agent[a].session), r)
  <2>2. Ensured(agent[a].actor) \in Ids /\ Ensured(agent[a].session) \in Ids
    BY <1>1, EnsuredFacts DEF Ids
  <2>6. Product[a] \in Products
    BY DEF Products
  <2>3. v \in Run /\ v.list = r /\ v.inbox = {} /\ v.heard = {}
    BY <2>2, <2>6, StartedFacts
  <2>4. Lasts(run[r], v)
    BY <2>1 DEF StartOf, Lasts, Ended
  <2>5. run' = [run EXCEPT ![r] = v]
    BY <2>1 DEF StartOf
  <2> HIDE DEF v
  <2> QED BY <1>4, <2>3, <2>4, <2>5
<1>7. ASSUME NEW r \in Runs, NEW carry \in BOOLEAN, DoorStart(r, carry) PROVE RunsLast
  <2>1. PICK next \in Runs : DoorStartOf(r, carry, next)
    BY <1>7, DoorStartFacts
  <2> DEFINE v == Started(run[r].product, Name(run[r].actor), Name(run[r].session), next)
  <2>2. Name(run[r].actor) \in Ids /\ Name(run[r].session) \in Ids
    BY <1>1 DEF Name, Ids
  <2>6. run[r].product \in Products
    BY <1>1
  <2>3. v \in Run /\ v.list = next /\ v.inbox = {} /\ v.heard = {}
    BY <2>2, <2>6, StartedFacts
  <2>4. Lasts(run[next], v)
    BY <2>1 DEF DoorStartOf, Lasts, Ended
  <2>5. run' = [run EXCEPT ![next] = v]
    BY <2>1 DEF DoorStartOf
  <2> HIDE DEF v
  <2> QED BY <1>4, <2>3, <2>4, <2>5
<1>8. ASSUME NEW a \in Agents, Drive(a) PROVE RunsLast
  BY <1>1, <1>5, <1>8 DEF Drive
<1>9. ASSUME NEW r \in Runs, HostTick(r) PROVE RunsLast
  BY <1>5, <1>9 DEF HostTick
<1>10. ASSUME NEW a \in Agents, Cancel(a) PROVE RunsLast
  <2> DEFINE r == agent[a].current
             v == [run[r] EXCEPT !.status = "cancelled"]
  <2>1. r \in Runs /\ run[r].status = "running" /\ run' = [run EXCEPT ![r] = v]
    BY <1>1, <1>10 DEF Cancel
  <2>2. v \in Run /\ v.list = run[r].list /\ v.inbox = run[r].inbox /\ v.heard = run[r].heard
    BY <1>1, <2>1 DEF Run, Ended
  <2>3. Lasts(run[r], v)
    BY <1>1, <2>1 DEF Lasts, Run, Ended
  <2> QED BY <1>2, <1>4, <2>1, <2>2, <2>3
<1>11. ASSUME NEW a \in Agents, InjectMessage(a) PROVE RunsLast
  <2> DEFINE r == agent[a].current
             v == [run[r] EXCEPT !.inbox = run[r].inbox \union {r}]
  <2>1. r \in Runs /\ run' = [run EXCEPT ![r] = v]
    BY <1>1, <1>11 DEF InjectMessage
  <2>2. run[r] \in Run /\ run[r].inbox \union {r} \in SUBSET Runs
    BY <1>1, <2>1 DEF Run
  <2>3. v \in Run /\ v.list = run[r].list /\ v.heard = run[r].heard
        /\ v.inbox = run[r].inbox \union {r}
    BY <2>2 DEF Run
  <2>4. Lasts(run[r], v)
    BY <2>2 DEF Lasts, Run
  <2>5. v.list = r /\ v.inbox \union v.heard \subseteq {r}
    BY <1>2, <2>1, <2>3
  <2> HIDE DEF v
  <2> QED BY <1>4, <2>1, <2>3, <2>4, <2>5
<1>12. ASSUME NEW a \in Agents,
              StepEnded(a) \/ Attach(a) \/ SaveState(a) \/ LoadState(a) \/ Remake(a)
       PROVE  UNCHANGED run
  BY <1>12 DEF StepEnded, Attach, AttachAs, SaveState, LoadState, Remake
<1>13. ASSUME ClearState PROVE UNCHANGED run
  BY <1>13 DEF ClearState
<1> QED BY <1>3, <1>6, <1>7, <1>8, <1>9, <1>10, <1>11, <1>12, <1>13 DEF Next

-----------------------------------------------------------------------------
(* Message lists *)

\* A run's tick adds to its own list; under a facade that sees it end, the facade
\* takes the list over.
DriveOf(a, r, v) ==
  /\ run[r].status = "running"
  /\ run' = [run EXCEPT ![r] = v]
  /\ said' \in [Agents \union Runs -> Seq(Runs)]
  /\ \A o \in (Agents \union Runs) \ {a, r} : said'[o] = said[o]
  /\ said'[r] = Append(said[r], r)
  /\ said'[a] = IF v.status \in Ended THEN said'[r] ELSE said[a]
  /\ endedBy' = IF v.status \in Ended THEN [endedBy EXCEPT ![r] = a] ELSE endedBy
  /\ UNCHANGED <<agent, file, persistent, minted, remade>>

\* Drive, by the run the facade holds and what its tick makes of it.
LEMMA DriveFacts ==
  ASSUME TypeOK, OwnLists, NEW a \in Agents, Drive(a)
  PROVE  /\ agent[a].current \in Runs
         /\ \E v \in Ticked(run[agent[a].current]) : DriveOf(a, agent[a].current, v)
<1> DEFINE r == agent[a].current
           wrote == [said EXCEPT ![r] = Append(said[r], r)]
<1>1. r \in Runs /\ run[r].status = "running" /\ run[r].list = r
  BY DEF Drive, TypeOK, Agent, OwnLists
<1>2. PICK v \in Ticked(run[r]) :
        /\ run' = [run EXCEPT ![r] = v]
        /\ said' = Synced(Wrote(r), a, r, v.status)
        /\ endedBy' = Credited(a, r, v.status)
        /\ UNCHANGED <<agent, file, persistent, minted, remade>>
  BY DEF Drive
<1>3. said \in [Agents \union Runs -> Seq(Runs)] /\ a # r
  BY <1>1, FacadeAssumption DEF TypeOK
<1>4. Wrote(r) = wrote
  BY <1>1 DEF Wrote
<1>5. Append(said[r], r) \in Seq(Runs)
  BY <1>1, <1>3
<1>6. wrote \in [Agents \union Runs -> Seq(Runs)]
  BY <1>3, <1>5
<1>7. said' = IF v.status \in Ended THEN [wrote EXCEPT ![a] = wrote[r]] ELSE wrote
  BY <1>1, <1>2, <1>4 DEF Synced
<1>8. said' \in [Agents \union Runs -> Seq(Runs)]
  BY <1>1, <1>6, <1>7
<1>9. DriveOf(a, r, v)
  BY <1>1, <1>2, <1>3, <1>6, <1>7, <1>8 DEF DriveOf, Credited
<1> QED BY <1>1, <1>9

\* An attach that is accepted takes the run's list over.
AttachOf(a, x, r) ==
  /\ agent' = [agent EXCEPT ![a] = Attached(a, x, r)]
  /\ said' = IF Accepted(a, x, r) THEN [said EXCEPT ![a] = said[r]] ELSE said
  /\ UNCHANGED <<run, file, persistent, minted, remade, endedBy>>

\* Attaching, for runs that write to lists of their own.
LEMMA AttachFacts ==
  ASSUME OwnLists, NEW a, NEW x, NEW r \in Runs, AttachAs(a, x, r)
  PROVE  AttachOf(a, x, r)
BY DEF AttachAs, AttachOf, OwnLists

\* What a load does: it attaches as what the file makes of the facade, or it is
\* refused with no more than an actor adopted.
LoadOf(a, x) ==
  /\ file # None
  /\ agent[a].actor # None => x.actor = agent[a].actor
  /\ agent[a].session # None => x.session = agent[a].session
  /\ x \in Agent
  /\ x.current = agent[a].current
  /\ \/ AttachAs(a, x, file.run)
     \/ /\ x.session = agent[a].session
        /\ agent' = [agent EXCEPT ![a] = x]
        /\ UNCHANGED <<run, said, file, persistent, minted, remade, endedBy>>

\* LoadState attaches as what the file makes of the facade, or is refused.
LEMMA LoadFacts ==
  ASSUME TypeOK, NEW a \in Agents, LoadState(a)
  PROVE  \E x : LoadOf(a, x)
<1> DEFINE own == agent[a]
           actor == Adopted(own.actor, file.actor)
           session == Adopted(own.session, file.session)
<1>1. own \in Agent /\ own.actor \in Ids /\ own.session \in Ids
  BY DEF TypeOK, Agent
<1>2. file # None /\ file \in File
  BY DEF LoadState, TypeOK
<1>3. actor \in Ids /\ session \in Ids
  BY <1>1, <1>2 DEF Adopted, File
<1>4. CASE Accepts(own.session, file.session)
  <2> DEFINE x == [own EXCEPT !.actor = actor, !.session = session]
  <2>1. AttachAs(a, x, file.run)
    BY <1>4 DEF LoadState
  <2>2. x \in Agent /\ x.current = own.current /\ x.actor = actor /\ x.session = session
    BY <1>1, <1>3 DEF Agent
  <2>3. LoadOf(a, x)
    BY <1>2, <2>1, <2>2 DEF LoadOf, Adopted
  <2> QED BY <2>3
<1>5. CASE ~Accepts(own.session, file.session)
  <2> DEFINE x == [own EXCEPT !.actor = actor]
  <2>1. x \in Agent /\ x.current = own.current /\ x.actor = actor /\ x.session = own.session
    BY <1>1, <1>3 DEF Agent
  <2>2. /\ agent' = [agent EXCEPT ![a] = x]
        /\ UNCHANGED <<run, said, file, persistent, minted, remade, endedBy>>
    <3>1. /\ agent' = [agent EXCEPT ![a].actor = actor]
          /\ UNCHANGED <<run, said, file, persistent, minted, remade, endedBy>>
      BY <1>5 DEF LoadState
    <3> QED BY <3>1 DEF TypeOK
  <2>3. LoadOf(a, x)
    BY <1>2, <2>1, <2>2 DEF LoadOf, Adopted
  <2> QED BY <2>3
<1> QED BY <1>4, <1>5

-----------------------------------------------------------------------------
(* Types *)

\* save_state changes the facade's session, if it had none, and the file.
SaveOf(a, x) ==
  /\ agent[a].current # NoRun
  /\ x = [actor |-> agent[a].actor, session |-> Ensured(agent[a].session),
          current |-> agent[a].current]
  /\ agent' = [agent EXCEPT ![a] = x]
  /\ file' = [run |-> x.current, product |-> Product[a], actor |-> x.actor,
              session |-> x.session]
  /\ minted' \in {minted, minted + 1}
  /\ UNCHANGED <<run, said, persistent, remade, endedBy>>

\* SaveState writes the facade down under identities it is sure of.
LEMMA SaveFacts ==
  ASSUME TypeOK, NEW a \in Agents, SaveState(a)
  PROVE  \E x \in Agent : SaveOf(a, x)
<1> DEFINE x == [actor |-> agent[a].actor, session |-> Ensured(agent[a].session),
                 current |-> agent[a].current]
<1>1. /\ agent[a] \in Agent /\ agent[a].session \in Ids /\ agent[a].actor \in Ids
      /\ agent[a].current \in Runs \union {NoRun} /\ minted \in Nat
  BY DEF TypeOK, Agent
<1>2. Ensured(agent[a].session) \in Ids
  BY <1>1, EnsuredFacts DEF Ids
<1>3. x \in Agent
  BY <1>1, <1>2 DEF Agent
<1>4. agent' = [agent EXCEPT ![a] = [agent[a] EXCEPT !.session = Ensured(agent[a].session)]]
  BY DEF SaveState, TypeOK
<1>5. [agent[a] EXCEPT !.session = Ensured(agent[a].session)] = x
  BY <1>1 DEF Agent
<1>6. SaveOf(a, x)
  BY <1>4, <1>5 DEF SaveState, SaveOf
<1> QED BY <1>3, <1>6

\* Every step keeps the types.
LEMMA TypeStep ==
  ASSUME TypeOK, OwnLists, GuidanceStaysWithItsTask, Next
  PROVE  TypeOK'
<1>1. /\ agent \in [Agents -> Agent] /\ run \in [Runs -> Run]
      /\ said \in [Agents \union Runs -> Seq(Runs)]
      /\ file \in File \union {None} /\ persistent \in BOOLEAN /\ minted \in Nat
      /\ remade \in 0..MaxRemade /\ endedBy \in [Runs -> Agents \union {None}]
  BY DEF TypeOK
<1>2. run' \in [Runs -> Run]
  BY RunStep DEF RunsLast
<1>3. ASSUME NEW a \in Agents, Start(a) PROVE TypeOK'
  <2>1. PICK r \in Runs : StartOf(a, r)
    BY <1>3, StartFacts
  <2>2. Ensured(agent[a].actor) \in Ids /\ Ensured(agent[a].session) \in Ids
    BY <1>1, EnsuredFacts DEF Agent, Ids
  <2>3. agent' \in [Agents -> Agent]
    BY <1>1, <2>1, <2>2 DEF StartOf, Agent
  <2>4. said' \in [Agents \union Runs -> Seq(Runs)]
    BY <1>1, <2>1 DEF StartOf
  <2>5. minted' \in Nat
    BY <1>1, <2>1 DEF StartOf
  <2> QED BY <1>1, <1>2, <2>1, <2>3, <2>4, <2>5 DEF StartOf, TypeOK
<1>4. ASSUME NEW a \in Agents, Drive(a) PROVE TypeOK'
  <2> DEFINE r == agent[a].current
  <2>1. PICK v \in Ticked(run[r]) : DriveOf(a, r, v)
    BY <1>4, DriveFacts
  <2> QED BY <1>1, <1>2, <2>1 DEF DriveOf, TypeOK
<1>5. ASSUME NEW a \in Agents, StepEnded(a) PROVE TypeOK'
  <2>1. agent[a].current \in Runs /\ said[run[agent[a].current].list] \in Seq(Runs)
    BY <1>1, <1>5 DEF StepEnded, Agent, OwnLists
  <2>2. said' \in [Agents \union Runs -> Seq(Runs)]
    BY <1>1, <1>5, <2>1 DEF StepEnded, Synced
  <2>3. endedBy' \in [Runs -> Agents \union {None}]
    BY <1>1, <1>5, <2>1 DEF StepEnded, Credited
  <2> QED BY <1>1, <1>2, <1>5, <2>2, <2>3 DEF StepEnded, TypeOK
<1>6. ASSUME NEW a \in Agents, Cancel(a) \/ InjectMessage(a) PROVE TypeOK'
  BY <1>1, <1>2, <1>6 DEF Cancel, InjectMessage, TypeOK
<1>7. ASSUME NEW a \in Agents, NEW x \in Agent, NEW r \in Runs, AttachAs(a, x, r)
      PROVE  TypeOK'
  <2>1. AttachOf(a, x, r)
    BY <1>7, AttachFacts
  <2>2. Attached(a, x, r) \in Agent
    BY <1>1, AttachedFacts
  <2>3. agent' \in [Agents -> Agent]
    BY <1>1, <2>1, <2>2 DEF AttachOf
  <2>4. said' \in [Agents \union Runs -> Seq(Runs)]
    BY <1>1, <2>1 DEF AttachOf
  <2> QED BY <1>1, <1>2, <2>1, <2>3, <2>4 DEF AttachOf, TypeOK
<1>8. ASSUME NEW a \in Agents, Attach(a) PROVE TypeOK'
  BY <1>1, <1>7, <1>8 DEF Attach
<1>9. ASSUME NEW a \in Agents, SaveState(a) PROVE TypeOK'
  <2>1. PICK x \in Agent : SaveOf(a, x)
    BY <1>9, SaveFacts
  <2>2. x.current \in Runs /\ x.actor \in Ids /\ x.session \in Ids
    BY <1>1, <2>1 DEF SaveOf, Agent
  <2>3. file' \in File
    BY <2>1, <2>2 DEF SaveOf, File
  <2>4. agent' \in [Agents -> Agent] /\ minted' \in Nat
    BY <1>1, <2>1 DEF SaveOf
  <2> QED BY <1>1, <1>2, <2>1, <2>3, <2>4 DEF SaveOf, TypeOK
<1>10. ASSUME NEW a \in Agents, LoadState(a) PROVE TypeOK'
  <2>1. PICK x : LoadOf(a, x)
    BY <1>10, LoadFacts
  <2>2. file.run \in Runs /\ x \in Agent
    BY <1>1, <2>1 DEF LoadOf, File
  <2>3. CASE AttachAs(a, x, file.run)
    BY <1>7, <2>2, <2>3
  <2>4. CASE ~AttachAs(a, x, file.run)
    BY <1>1, <1>2, <2>1, <2>2, <2>4 DEF LoadOf, TypeOK
  <2> QED BY <2>3, <2>4
<1>11. ASSUME NEW a \in Agents, Remake(a) PROVE TypeOK'
  <2>1. \A id \in Identities : Made(id) \in Agent
    BY FacadeAssumption DEF Made, Agent
  <2>2. agent' \in [Agents -> Agent] /\ said' \in [Agents \union Runs -> Seq(Runs)]
    BY <1>1, <1>11, <2>1 DEF Remake
  <2>3. remade' \in 0..MaxRemade
    BY <1>1, <1>11, FacadeAssumption DEF Remake
  <2> QED BY <1>1, <1>2, <1>11, <2>2, <2>3 DEF Remake, TypeOK
<1>12. ASSUME ClearState PROVE TypeOK'
  BY <1>1, <1>2, <1>12 DEF ClearState, TypeOK
<1>13. ASSUME NEW r \in Runs, NEW carry \in BOOLEAN, DoorStart(r, carry) PROVE TypeOK'
  <2>1. PICK next \in Runs : DoorStartOf(r, carry, next)
    BY <1>13, DoorStartFacts
  <2>2. said[run[r].list] \in Seq(Runs)
    BY <1>1 DEF OwnLists
  <2>3. said' \in [Agents \union Runs -> Seq(Runs)]
    BY <1>1, <2>1, <2>2 DEF DoorStartOf
  <2> QED BY <1>1, <1>2, <2>1, <2>3 DEF DoorStartOf, TypeOK
<1>14. ASSUME NEW r \in Runs, HostTick(r) PROVE TypeOK'
  <2>1. run[r].list = r /\ Append(said[r], r) \in Seq(Runs)
    BY <1>1 DEF OwnLists
  <2>2. said' \in [Agents \union Runs -> Seq(Runs)]
    BY <1>1, <1>14, <2>1 DEF HostTick, Wrote
  <2> QED BY <1>1, <1>2, <1>14, <2>2 DEF HostTick, TypeOK
<1> QED BY <1>3, <1>4, <1>5, <1>6, <1>8, <1>9, <1>10, <1>11, <1>12, <1>13, <1>14 DEF Next

-----------------------------------------------------------------------------
(* The steps, by what they touch *)

\* StepEnded: the facade takes over what its ended run said.
SyncOf(a, r) ==
  /\ r = agent[a].current
  /\ run[r].status \in Ended
  /\ said' = [said EXCEPT ![a] = said[r]]
  /\ endedBy' = [endedBy EXCEPT ![r] = a]
  /\ UNCHANGED <<agent, run, file>>

\* A facade that has become x has no id that contradicts one it had.
Becomes(a, x) ==
  /\ x.current = agent[a].current
  /\ agent[a].actor # None => x.actor = agent[a].actor
  /\ agent[a].session # None => x.session = agent[a].session

\* Attach and LoadState, once the facade has become x.
JoinOf(a, x, r) == Born(r) /\ Becomes(a, x) /\ AttachOf(a, x, r)

\* LoadState, refused over the session.
AdoptOf(a, x) ==
  /\ Becomes(a, x)
  /\ x.session = agent[a].session
  /\ agent' = [agent EXCEPT ![a] = x]
  /\ UNCHANGED <<run, said, file, endedBy>>

\* A facade made anew under an identity.
RemadeOf(a, id) ==
  /\ agent' = [agent EXCEPT ![a] = Made(id)]
  /\ said' = [said EXCEPT ![a] = <<>>]
  /\ UNCHANGED <<run, file, endedBy>>

\* HostTick, by the list it writes to.
TickOf(r) ==
  /\ run[r].status = "running"
  /\ \E v \in Ticked(run[r]) : run' = [run EXCEPT ![r] = v]
  /\ said' = [said EXCEPT ![r] = Append(said[r], r)]
  /\ UNCHANGED <<agent, file, endedBy>>

\* Cancel, InjectMessage, ClearState, and no step.
NoneSpeaks ==
  /\ \A r \in Runs : run[r].status = "unborn" => run'[r] = run[r]
  /\ file' \in {file, None}
  /\ UNCHANGED <<agent, said, endedBy>>

\* The steps by what they do to facades, runs and lists.
Shape ==
  \/ \E a \in Agents, r \in Runs :
       \/ StartOf(a, r)
       \/ SyncOf(a, r)
       \/ r = agent[a].current /\ \E v \in Ticked(run[r]) : DriveOf(a, r, v)
       \/ \E x \in Agent : JoinOf(a, x, r)
  \/ \E a \in Agents, x \in Agent : AdoptOf(a, x) \/ SaveOf(a, x)
  \/ \E a \in Agents, id \in Identities : RemadeOf(a, id)
  \/ \E r \in Runs, carry \in BOOLEAN, next \in Runs : DoorStartOf(r, carry, next)
  \/ \E r \in Runs : TickOf(r)
  \/ NoneSpeaks

\* Every step has one of these shapes.
LEMMA StepShape ==
  ASSUME TypeOK, OwnLists, BornInv, [Next]_vars
  PROVE  Shape
<1>1. ASSUME NEW a \in Agents, Start(a) PROVE Shape
  BY <1>1, StartFacts DEF Shape
<1>2. ASSUME NEW a \in Agents, Drive(a) PROVE Shape
  BY <1>2, DriveFacts DEF Shape
<1>3. ASSUME NEW a \in Agents, StepEnded(a) PROVE Shape
  <2>1. agent[a].current \in Runs
    BY <1>3 DEF TypeOK, Agent, StepEnded
  <2>2. SyncOf(a, agent[a].current)
    BY <1>3, <2>1 DEF StepEnded, Synced, Credited, OwnLists, SyncOf
  <2> QED BY <2>1, <2>2 DEF Shape
<1>4. ASSUME NEW a \in Agents, Cancel(a) \/ InjectMessage(a) PROVE Shape
  <2>1. agent[a].current \in Runs /\ Born(agent[a].current)
    BY <1>4 DEF TypeOK, Agent, BornInv, Cancel, InjectMessage
  <2>2. NoneSpeaks
    BY <1>4, <2>1 DEF TypeOK, Cancel, InjectMessage, NoneSpeaks, Born
  <2> QED BY <2>2 DEF Shape
<1>5. ASSUME NEW a \in Agents, Attach(a) PROVE Shape
  <2>1. PICK r \in Runs : Born(r) /\ AttachAs(a, agent[a], r)
    BY <1>5 DEF Attach, Born
  <2>2. agent[a] \in Agent
    BY DEF TypeOK
  <2>3. JoinOf(a, agent[a], r)
    BY <2>1, AttachFacts DEF JoinOf, Becomes
  <2> QED BY <2>2, <2>3 DEF Shape
<1>6. ASSUME NEW a \in Agents, SaveState(a) PROVE Shape
  BY <1>6, SaveFacts DEF Shape
<1>7. ASSUME NEW a \in Agents, LoadState(a) PROVE Shape
  <2>1. PICK x : LoadOf(a, x)
    BY <1>7, LoadFacts
  <2>2. x \in Agent /\ Becomes(a, x) /\ file.run \in Runs /\ Born(file.run)
    BY <2>1 DEF LoadOf, Becomes, BornInv, TypeOK, File
  <2>3. CASE AttachAs(a, x, file.run)
    <3>1. JoinOf(a, x, file.run)
      BY <2>2, <2>3, AttachFacts DEF JoinOf
    <3> QED BY <2>2, <3>1 DEF Shape
  <2>4. CASE ~AttachAs(a, x, file.run)
    <3>1. AdoptOf(a, x)
      BY <2>1, <2>2, <2>4 DEF LoadOf, AdoptOf
    <3> QED BY <2>2, <3>1 DEF Shape
  <2> QED BY <2>3, <2>4
<1>8. ASSUME NEW a \in Agents, Remake(a) PROVE Shape
  BY <1>8 DEF Remake, RemadeOf, Shape
<1>9. ASSUME ClearState \/ UNCHANGED vars PROVE Shape
  BY <1>9 DEF ClearState, vars, NoneSpeaks, Shape
<1>10. ASSUME NEW r \in Runs, NEW carry \in BOOLEAN, DoorStart(r, carry) PROVE Shape
  BY <1>10, DoorStartFacts DEF Shape
<1>11. ASSUME NEW r \in Runs, HostTick(r) PROVE Shape
  <2>1. TickOf(r)
    BY <1>11 DEF HostTick, Wrote, OwnLists, TickOf
  <2> QED BY <2>1 DEF Shape
<1> QED
  BY <1>1, <1>2, <1>3, <1>4, <1>5, <1>6, <1>7, <1>8, <1>9, <1>10, <1>11 DEF Next

\* The runs last through every step, and through none.
LEMMA RunsLastAlways ==
  ASSUME TypeOK, OwnLists, GuidanceStaysWithItsTask, [Next]_vars
  PROVE  RunsLast
<1>1. CASE Next
  BY <1>1, RunStep
<1>2. CASE UNCHANGED vars
  BY <1>2 DEF vars, RunsLast, Lasts, TypeOK, OwnLists, GuidanceStaysWithItsTask
<1> QED BY <1>1, <1>2

-----------------------------------------------------------------------------
(* The invariant step by step *)

\* What is pointed to has been started, before and after.
LEMMA BornStep ==
  ASSUME TypeOK, BornInv, RunsLast, Shape
  PROVE  BornInv'
<1>1. /\ agent \in [Agents -> Agent] /\ said \in [Agents \union Runs -> Seq(Runs)]
      /\ endedBy \in [Runs -> Agents \union {None}] /\ run \in [Runs -> Run]
      /\ file \in File \union {None}
  BY DEF TypeOK
<1>2. /\ \A a \in Agents : agent[a].current \in Runs \union {NoRun}
      /\ \A o \in Agents \union Runs : \A k \in DOMAIN said[o] : said[o][k] \in Runs
      /\ file # None => file.run \in Runs
  BY <1>1 DEF Agent, File
<1>3. \A r \in Runs : /\ Born(r) => Born(r)'
                      /\ run[r].status \in Ended => run'[r].status \in Ended
  BY DEF RunsLast, Lasts, Born
<1>4. /\ \A a \in Agents : agent[a].current # NoRun =>
           run'[agent[a].current].status # "unborn"
      /\ file # None => run'[file.run].status # "unborn"
      /\ \A o \in Agents \union Runs : \A k \in DOMAIN said[o] :
           run'[said[o][k]].status # "unborn"
      /\ \A r \in Runs : endedBy[r] # None => run'[r].status \in Ended
  <2>1. /\ \A a \in Agents : agent[a].current # NoRun => Born(agent[a].current)
        /\ file # None => Born(file.run)
        /\ \A o \in Agents \union Runs : \A k \in DOMAIN said[o] : Born(said[o][k])
        /\ \A r \in Runs : endedBy[r] # None => run[r].status \in Ended
    BY DEF BornInv
  <2>2. \A r \in Runs : run[r].status # "unborn" => run'[r].status # "unborn"
    BY <1>3 DEF Born
  <2> QED BY <1>2, <1>3, <2>1, <2>2 DEF Born
<1> DEFINE Currents == \A a \in Agents : agent'[a].current # NoRun =>
                         run'[agent'[a].current].status # "unborn"
           Files    == file' # None => run'[file'.run].status # "unborn"
           Entries  == \A o \in Agents \union Runs : \A k \in DOMAIN said'[o] :
                         run'[said'[o][k]].status # "unborn"
           Credits  == \A r \in Runs : endedBy'[r] # None => run'[r].status \in Ended
<1>5. /\ agent' = agent => Currents
      /\ file' \in {file, None} => Files
      /\ said' = said => Entries
      /\ endedBy' = endedBy => Credits
  BY <1>4 DEF Born
<1>6. ASSUME NEW o \in Agents \union Runs, NEW q \in Agents \union Runs,
             said' = [said EXCEPT ![o] = said[q]]
      PROVE  Entries
  BY <1>1, <1>4, <1>6 DEF Born
<1>7. ASSUME NEW o \in Agents \union Runs, said' = [said EXCEPT ![o] = <<>>]
      PROVE  Entries
  BY <1>1, <1>4, <1>7 DEF Born
<1>8. ASSUME NEW a \in Agents, \A b \in Agents \ {a} : agent'[b] = agent[b],
             \/ agent'[a].current \in {agent[a].current, NoRun}
             \/ run'[agent'[a].current].status # "unborn"
      PROVE  Currents
  BY <1>4, <1>8
<1>9. ASSUME NEW r \in Runs, run'[r].status # "unborn",
             \A o \in Agents \union Runs :
               \/ said'[o] = said[o]
               \/ said'[o] = Append(said[r], r)
      PROVE  Entries
  <2> SUFFICES ASSUME NEW o \in Agents \union Runs, NEW k \in DOMAIN said'[o]
               PROVE  run'[said'[o][k]].status # "unborn"
    OBVIOUS
  <2>1. CASE said'[o] = said[o]
    BY <1>4, <2>1
  <2>2. CASE said'[o] = Append(said[r], r)
    <3>1. said[r] \in Seq(Runs) /\ k \in 1..(Len(said[r]) + 1)
      BY <1>1, <2>2
    <3>2. k \in DOMAIN said[r] => said'[o][k] = said[r][k]
      BY <2>2, <3>1
    <3>3. k \notin DOMAIN said[r] => said'[o][k] = r
      BY <2>2, <3>1
    <3> QED BY <1>4, <1>9, <3>2, <3>3
  <2> QED BY <1>9, <2>1, <2>2
<1> HIDE DEF Currents, Files, Entries, Credits
<1>10. ASSUME NEW a \in Agents, NEW r \in Runs, StartOf(a, r) PROVE BornInv'
  <2>1. run'[r].status = "running"
    BY <1>1, <1>10 DEF StartOf, Started
  <2>2. Currents
    BY <1>1, <1>4, <1>10, <2>1 DEF StartOf, Currents
  <2>3. Entries
    BY <1>6, <1>10 DEF StartOf
  <2> QED BY <1>5, <1>10, <2>2, <2>3 DEF StartOf, BornInv, Born, Currents, Files, Entries, Credits
<1>11. ASSUME NEW a \in Agents, NEW r \in Runs, SyncOf(a, r) PROVE BornInv'
  <2>1. Entries
    BY <1>6, <1>11 DEF SyncOf
  <2>2. Credits
    BY <1>1, <1>4, <1>11 DEF SyncOf, Credits
  <2> QED BY <1>5, <1>11, <2>1, <2>2 DEF SyncOf, BornInv, Born, Currents, Files, Entries, Credits
<1>12. ASSUME NEW a \in Agents, NEW r \in Runs, NEW v \in Ticked(run[r]), DriveOf(a, r, v)
       PROVE  BornInv'
  <2>1. run'[r].status # "unborn" /\ run'[r] = v
    BY <1>1, <1>3, <1>12 DEF DriveOf, Born
  <2>2. \A o \in Agents \union Runs : said'[o] = said[o] \/ said'[o] = Append(said[r], r)
    BY <1>12 DEF DriveOf
  <2>3. Entries
    BY <1>9, <2>1, <2>2
  <2>4. Credits
    BY <1>1, <1>4, <1>12, <2>1 DEF DriveOf, Credits
  <2> QED BY <1>5, <1>12, <2>3, <2>4 DEF DriveOf, BornInv, Born, Currents, Files, Entries, Credits
<1>13. ASSUME NEW a \in Agents, NEW x \in Agent, NEW r \in Runs, JoinOf(a, x, r)
       PROVE  BornInv'
  <2>1. /\ Attached(a, x, r) \in Agent
        /\ Attached(a, x, r).current \in {x.current, r}
    BY <1>1, AttachedFacts
  <2>4. /\ \A b \in Agents \ {a} : agent'[b] = agent[b]
        /\ agent'[a].current \in {agent[a].current, r} /\ run'[r].status # "unborn"
    BY <1>1, <1>3, <1>13, <2>1 DEF JoinOf, Becomes, AttachOf, Born
  <2>2. Currents
    BY <1>8, <2>4
  <2>3. Entries
    BY <1>5, <1>6, <1>13 DEF JoinOf, AttachOf
  <2> QED BY <1>5, <1>13, <2>2, <2>3 DEF JoinOf, AttachOf, BornInv, Born, Currents, Files, Entries, Credits
<1>14. ASSUME NEW a \in Agents, NEW x \in Agent, AdoptOf(a, x) PROVE BornInv'
  <2>1. Currents
    <3>1. /\ \A b \in Agents \ {a} : agent'[b] = agent[b]
          /\ agent'[a].current = agent[a].current
      BY <1>1, <1>14 DEF AdoptOf, Becomes
    <3> QED BY <1>8, <3>1
  <2> QED BY <1>5, <1>14, <2>1 DEF AdoptOf, BornInv, Born, Currents, Files, Entries, Credits
<1>15. ASSUME NEW a \in Agents, NEW x \in Agent, SaveOf(a, x) PROVE BornInv'
  <2>1. Currents
    <3>1. /\ \A b \in Agents \ {a} : agent'[b] = agent[b]
          /\ agent'[a].current = agent[a].current
      BY <1>1, <1>15 DEF SaveOf
    <3> QED BY <1>8, <3>1
  <2>2. Files
    BY <1>4, <1>15 DEF SaveOf, Files
  <2> QED BY <1>5, <1>15, <2>1, <2>2 DEF SaveOf, BornInv, Born, Currents, Files, Entries, Credits
<1>16. ASSUME NEW a \in Agents, NEW id \in Identities, RemadeOf(a, id) PROVE BornInv'
  <2>1. Currents
    BY <1>1, <1>4, <1>16 DEF RemadeOf, Made, Currents
  <2>2. Entries
    BY <1>7, <1>16 DEF RemadeOf
  <2> QED BY <1>5, <1>16, <2>1, <2>2 DEF RemadeOf, BornInv, Born, Currents, Files, Entries, Credits
<1>17. ASSUME NEW r \in Runs, NEW carry \in BOOLEAN, NEW next \in Runs,
              DoorStartOf(r, carry, next)
       PROVE  BornInv'
  <2>1. run[r].list \in Runs
    BY <1>1 DEF Run
  <2>2. Entries
    BY <1>6, <1>7, <1>17, <2>1 DEF DoorStartOf
  <2> QED BY <1>5, <1>17, <2>2 DEF DoorStartOf, BornInv, Born, Currents, Files, Entries, Credits
<1>18. ASSUME NEW r \in Runs, TickOf(r) PROVE BornInv'
  <2>1. run'[r].status # "unborn"
    BY <1>3, <1>18 DEF TickOf, Born
  <2>2. Entries
    BY <1>1, <1>9, <1>18, <2>1 DEF TickOf
  <2> QED BY <1>5, <1>18, <2>2 DEF TickOf, BornInv, Born, Currents, Files, Entries, Credits
<1>19. ASSUME NoneSpeaks PROVE BornInv'
  BY <1>5, <1>19 DEF NoneSpeaks, BornInv, Born, Currents, Files, Entries, Credits
<1> QED
  BY <1>10, <1>11, <1>12, <1>13, <1>14, <1>15, <1>16, <1>17, <1>18, <1>19 DEF Shape

\* Under a door that names it, every run has a session.
LEMMA NamedStep ==
  ASSUME TypeOK, Named, RunsLast, Shape
  PROVE  Named'
<1> SUFFICES ASSUME DoorNames, NEW q \in Runs, run'[q].status # "unborn"
             PROVE  run'[q].session # None
  BY DEF Named, Born
<1>1. /\ run \in [Runs -> Run] /\ minted \in Nat
      /\ \A a \in Agents : agent[a].session \in Ids
  BY DEF TypeOK, Agent
<1>2. Born(q) => run'[q].session # None
  BY DEF RunsLast, Lasts, Named, Born
<1>3. ASSUME UNCHANGED run PROVE run'[q].session # None
  BY <1>2, <1>3 DEF Born
<1>4. ASSUME NEW a \in Agents, NEW r \in Runs, StartOf(a, r) PROVE run'[q].session # None
  <2>1. Ensured(agent[a].session) # None
    BY <1>1, EnsuredFacts
  <2>2. run'[r].session # None
    BY <1>1, <1>4, <2>1 DEF StartOf, Started
  <2>3. q # r => run'[q] = run[q]
    BY <1>1, <1>4 DEF StartOf
  <2> QED BY <1>2, <2>2, <2>3 DEF Born
<1>5. ASSUME NEW r \in Runs, NEW carry \in BOOLEAN, NEW next \in Runs,
             DoorStartOf(r, carry, next)
      PROVE  run'[q].session # None
  <2>1. Born(r)
    BY <1>5 DEF DoorStartOf, Born, Ended
  <2>2. run'[next].session = run[r].session
    BY <1>1, <1>5 DEF DoorStartOf, Started, Name
  <2>3. q # next => run'[q] = run[q]
    BY <1>1, <1>5 DEF DoorStartOf
  <2> QED BY <1>2, <2>1, <2>2, <2>3 DEF Born, Named
<1>6. Born(q) \/ run'[q] # run[q]
  BY DEF Born
<1>7. ASSUME NEW a \in Agents, NEW r \in Runs, NEW v, DriveOf(a, r, v)
      PROVE  run'[q].session # None
  BY <1>1, <1>2, <1>6, <1>7 DEF DriveOf, Born
<1>8. ASSUME NEW r \in Runs, TickOf(r) PROVE run'[q].session # None
  BY <1>1, <1>2, <1>6, <1>8 DEF TickOf, Born
<1>9. ASSUME NoneSpeaks PROVE run'[q].session # None
  BY <1>2, <1>6, <1>9 DEF NoneSpeaks, Born
<1>10. ASSUME NEW a \in Agents, NEW x \in Agent, AdoptOf(a, x) \/ SaveOf(a, x)
       PROVE  UNCHANGED run
  BY <1>10 DEF AdoptOf, SaveOf
<1>11. ASSUME NEW a \in Agents, NEW r \in Runs,
              SyncOf(a, r) \/ \E x \in Agent : JoinOf(a, x, r)
       PROVE  UNCHANGED run
  BY <1>11 DEF SyncOf, JoinOf, AttachOf
<1>12. ASSUME NEW a \in Agents, NEW id \in Identities, RemadeOf(a, id) PROVE UNCHANGED run
  BY <1>12 DEF RemadeOf
<1> QED
  BY <1>3, <1>4, <1>5, <1>7, <1>8, <1>9, <1>10, <1>11, <1>12 DEF Shape

\* A facade and the file stay on runs of their own product and identity.
LEMMA IdentityStep ==
  ASSUME TypeOK, BornInv, OneIdentity, RunsLast, Shape
  PROVE  OneIdentity'
<1> DEFINE Fits(v, product, actor, session) == /\ v.product = product
                                               /\ v.actor \in {None, actor}
                                               /\ v.session \in {None, session}
           Agree == \A a \in Agents : agent'[a].current # NoRun =>
                      Fits(run'[agent'[a].current], Product[a], agent'[a].actor,
                           agent'[a].session)
           Filed == file' # None => Fits(run'[file'.run], file'.product, file'.actor,
                                         file'.session)
<1>1. /\ agent \in [Agents -> Agent] /\ run \in [Runs -> Run] /\ minted \in Nat
      /\ \A a \in Agents : /\ agent[a].current \in Runs \union {NoRun}
                           /\ agent[a].actor \in Ids /\ agent[a].session \in Ids
      /\ file # None => file.run \in Runs
  BY DEF TypeOK, Agent, File
<1>2. \A r \in Runs : run[r].status # "unborn" =>
        /\ run'[r].product = run[r].product
        /\ run'[r].actor = run[r].actor /\ run'[r].session = run[r].session
  BY DEF RunsLast, Lasts
<1>3. /\ \A a \in Agents : agent[a].current # NoRun =>
           /\ run[agent[a].current].status # "unborn"
           /\ Fits(run'[agent[a].current], Product[a], agent[a].actor, agent[a].session)
      /\ file # None => Fits(run'[file.run], file.product, file.actor, file.session)
  BY <1>1, <1>2 DEF BornInv, Born, OneIdentity
<1>4. /\ agent' = agent => Agree
      /\ file' \in {file, None} => Filed
  BY <1>3
<1>5. ASSUME NEW a \in Agents, \A b \in Agents \ {a} : agent'[b] = agent[b],
             agent'[a].current # NoRun =>
               Fits(run'[agent'[a].current], Product[a], agent'[a].actor, agent'[a].session)
      PROVE  Agree
  BY <1>3, <1>5
<1>6. Agree /\ Filed => OneIdentity'
  BY DEF OneIdentity
<1> HIDE DEF Agree, Filed
<1>7. ASSUME NEW a \in Agents, NEW r \in Runs, StartOf(a, r) PROVE OneIdentity'
  <2>1. /\ agent'[a].current = r /\ run'[r].product = Product[a]
        /\ run'[r].actor = agent'[a].actor /\ run'[r].session = agent'[a].session
    BY <1>1, <1>7 DEF StartOf, Started
  <2>2. \A b \in Agents \ {a} : agent'[b] = agent[b]
    BY <1>1, <1>7 DEF StartOf
  <2>3. Agree
    BY <1>5, <2>1, <2>2
  <2> QED BY <1>4, <1>6, <1>7, <2>3 DEF StartOf
<1>8. ASSUME NEW a \in Agents, NEW r \in Runs,
             SyncOf(a, r) \/ \E v \in Ticked(run[r]) : DriveOf(a, r, v)
      PROVE  OneIdentity'
  BY <1>4, <1>6, <1>8 DEF SyncOf, DriveOf
<1>9. ASSUME NEW a \in Agents, NEW x \in Agent, Becomes(a, x),
             \A b \in Agents \ {a} : agent'[b] = agent[b],
             agent'[a].current = x.current,
             x.actor # None => agent'[a].actor = x.actor, agent'[a].session = x.session
      PROVE  Agree
  <2> SUFFICES ASSUME agent[a].current # NoRun
               PROVE  Fits(run'[agent[a].current], Product[a], agent'[a].actor,
                           agent'[a].session)
    BY <1>5, <1>9 DEF Becomes
  <2>1. /\ agent[a].actor # None => agent'[a].actor = agent[a].actor
        /\ agent[a].session # None => agent'[a].session = agent[a].session
    BY <1>9 DEF Becomes
  <2> QED BY <1>3, <2>1
<1>10. ASSUME NEW a \in Agents, NEW x \in Agent, NEW r \in Runs, JoinOf(a, x, r)
       PROVE  OneIdentity'
  <2> DEFINE y == Attached(a, x, r)
  <2>1. run[r] \in Run /\ run' = run
    BY <1>1, <1>10 DEF JoinOf, AttachOf
  <2>2. /\ x.actor # None => y.actor = x.actor
        /\ ~Accepted(a, x, r) => y.current = x.current /\ y.session = x.session
        /\ Accepted(a, x, r) => /\ y.current = r
                                /\ Fits(run[r], Product[a], y.actor, y.session)
    BY <2>1, AttachedFacts
  <2>3. /\ agent'[a] = y /\ \A b \in Agents \ {a} : agent'[b] = agent[b]
    BY <1>1, <1>10 DEF JoinOf, AttachOf
  <2> HIDE DEF y
  <2>4. CASE Accepted(a, x, r)
    <3>1. Agree
      BY <1>5, <2>1, <2>2, <2>3, <2>4
    <3> QED BY <1>4, <1>6, <1>10, <3>1 DEF JoinOf, AttachOf
  <2>5. CASE ~Accepted(a, x, r)
    <3>1. Becomes(a, x)
      BY <1>10 DEF JoinOf
    <3>2. Agree
      BY <1>9, <2>2, <2>3, <2>5, <3>1
    <3> QED BY <1>4, <1>6, <1>10, <3>2 DEF JoinOf, AttachOf
  <2> QED BY <2>4, <2>5
<1>11. ASSUME NEW a \in Agents, NEW x \in Agent, AdoptOf(a, x) PROVE OneIdentity'
  <2>1. /\ Becomes(a, x) /\ agent'[a] = x
        /\ \A b \in Agents \ {a} : agent'[b] = agent[b]
    BY <1>1, <1>11 DEF AdoptOf
  <2>2. Agree
    BY <1>9, <2>1
  <2> QED BY <1>4, <1>6, <1>11, <2>2 DEF AdoptOf
<1>12. ASSUME NEW a \in Agents, NEW x \in Agent, SaveOf(a, x) PROVE OneIdentity'
  <2>1. /\ agent'[a] = x /\ \A b \in Agents \ {a} : agent'[b] = agent[b]
        /\ x.current = agent[a].current /\ x.actor = agent[a].actor
        /\ x.session = Ensured(agent[a].session)
    BY <1>1, <1>12 DEF SaveOf
  <2>2. Becomes(a, x)
    BY <1>1, <2>1, EnsuredFacts DEF Becomes
  <2>3. Agree
    BY <1>9, <2>1, <2>2
  <2>4. Fits(run'[x.current], Product[a], x.actor, x.session)
    BY <1>3, <1>12, <2>1, <2>2 DEF SaveOf, Becomes
  <2>5. Filed
    BY <1>12, <2>4 DEF SaveOf, Filed
  <2> QED BY <1>6, <2>3, <2>5
<1>13. ASSUME NEW a \in Agents, NEW id \in Identities, RemadeOf(a, id) PROVE OneIdentity'
  <2>1. agent'[a].current = NoRun /\ \A b \in Agents \ {a} : agent'[b] = agent[b]
    BY <1>1, <1>13 DEF RemadeOf, Made
  <2>2. Agree
    BY <1>5, <2>1
  <2> QED BY <1>4, <1>6, <1>13, <2>2 DEF RemadeOf
<1>14. ASSUME NEW r \in Runs, NEW carry \in BOOLEAN, NEW next \in Runs,
              DoorStartOf(r, carry, next)
       PROVE  OneIdentity'
  BY <1>4, <1>6, <1>14 DEF DoorStartOf
<1>15. ASSUME NEW r \in Runs, TickOf(r) PROVE OneIdentity'
  BY <1>4, <1>6, <1>15 DEF TickOf
<1>16. ASSUME NoneSpeaks PROVE OneIdentity'
  BY <1>4, <1>6, <1>16 DEF NoneSpeaks
<1> QED
  BY <1>7, <1>8, <1>10, <1>11, <1>12, <1>13, <1>14, <1>15, <1>16 DEF Shape

\* A facade that ended its run knows all it said.
LEMMA SyncStep ==
  ASSUME TypeOK, BornInv, InSync, RunsLast, Shape
  PROVE  InSync'
<1>1. /\ agent \in [Agents -> Agent] /\ said \in [Agents \union Runs -> Seq(Runs)]
      /\ endedBy \in [Runs -> Agents \union {None}] /\ run \in [Runs -> Run]
      /\ \A a \in Agents : agent[a].current \in Runs \union {NoRun}
      /\ \A a \in Agents : a \notin Runs /\ a # None
  BY FacadeAssumption DEF TypeOK, Agent
<1>2. \A a \in Agents : agent[a].current # NoRun =>
        /\ run[agent[a].current].status # "unborn"
        /\ endedBy[agent[a].current] = a => said[a] = said[agent[a].current]
  BY DEF BornInv, Born, InSync
<1>3. \A r \in Runs : run[r].status \notin Ended => endedBy[r] = None
  BY DEF BornInv
<1>5. ASSUME NEW a \in Agents, NEW r \in Runs, StartOf(a, r) PROVE InSync'
  <2> SUFFICES ASSUME NEW b \in Agents, agent'[b].current # NoRun,
                      endedBy'[agent'[b].current] = b
               PROVE  said'[b] = said'[agent'[b].current]
    BY DEF InSync
  <2>1. endedBy' = endedBy /\ endedBy[r] = None /\ agent'[a].current = r
    BY <1>1, <1>3, <1>5 DEF StartOf, Ended
  <2>2. b # a
    BY <1>1, <2>1
  <2>3. agent'[b] = agent[b] /\ agent[b].current # r
    BY <1>1, <1>2, <1>5, <2>2 DEF StartOf
  <2>4. said'[b] = said[b] /\ said'[agent[b].current] = said[agent[b].current]
    BY <1>1, <1>5, <2>3 DEF StartOf
  <2> QED BY <1>2, <2>1, <2>3, <2>4
<1>6. ASSUME NEW a \in Agents, NEW r \in Runs, SyncOf(a, r) PROVE InSync'
  <2> SUFFICES ASSUME NEW b \in Agents, agent'[b].current # NoRun,
                      endedBy'[agent'[b].current] = b
               PROVE  said'[b] = said'[agent'[b].current]
    BY DEF InSync
  <2>1. agent' = agent /\ r = agent[a].current /\ endedBy'[r] = a /\ said'[r] = said[r]
        /\ said'[a] = said[r]
    BY <1>1, <1>6 DEF SyncOf
  <2>2. CASE b = a
    BY <2>1, <2>2
  <2>3. CASE b # a
    <3>1. said'[b] = said[b] /\ agent[b].current # r
      BY <1>1, <1>6, <2>1, <2>3 DEF SyncOf
    <3>2. endedBy'[agent[b].current] = endedBy[agent[b].current]
          /\ said'[agent[b].current] = said[agent[b].current]
      BY <1>1, <1>6, <2>1, <2>3, <3>1 DEF SyncOf
    <3> QED BY <1>2, <2>1, <3>1, <3>2
  <2> QED BY <2>2, <2>3
<1>7. ASSUME NEW a \in Agents, NEW r \in Runs, r = agent[a].current,
             NEW v \in Ticked(run[r]), DriveOf(a, r, v)
      PROVE  InSync'
  <2> SUFFICES ASSUME NEW b \in Agents, agent'[b].current # NoRun,
                      endedBy'[agent'[b].current] = b
               PROVE  said'[b] = said'[agent'[b].current]
    BY DEF InSync
  <2>1. agent' = agent /\ endedBy[r] = None
    BY <1>3, <1>7 DEF DriveOf, Ended
  <2>2. v.status \in Ended => endedBy'[r] = a /\ said'[a] = said'[r]
    BY <1>1, <1>7 DEF DriveOf
  <2>3. v.status \notin Ended => endedBy' = endedBy
    BY <1>7 DEF DriveOf
  <2>4. \A q \in Runs \ {r} : endedBy'[q] = endedBy[q] /\ said'[q] = said[q]
    BY <1>1, <1>7 DEF DriveOf
  <2>5. CASE agent[b].current = r
    BY <1>1, <2>1, <2>2, <2>3, <2>5
  <2>6. CASE agent[b].current # r
    <3>1. b # a /\ said'[b] = said[b]
      BY <1>1, <1>7, <2>6 DEF DriveOf
    <3> QED BY <1>1, <1>2, <2>1, <2>4, <2>6, <3>1
  <2> QED BY <2>5, <2>6
<1>8. ASSUME NEW a \in Agents, NEW x \in Agent, NEW r \in Runs, JoinOf(a, x, r)
      PROVE  InSync'
  <2> DEFINE y == Attached(a, x, r)
  <2>1. y.current \in {x.current, r} /\ (Accepted(a, x, r) => y.current = r)
        /\ (~Accepted(a, x, r) => y.current = x.current)
    BY <1>1, AttachedFacts
  <2>2. /\ agent' = [agent EXCEPT ![a] = y] /\ x.current = agent[a].current
        /\ said' = IF Accepted(a, x, r) THEN [said EXCEPT ![a] = said[r]] ELSE said
        /\ endedBy' = endedBy
    BY <1>8 DEF JoinOf, Becomes, AttachOf
  <2> HIDE DEF y
  <2>3. \A q \in Runs : said'[q] = said[q]
    BY <1>1, <2>2
  <2>4. Accepted(a, x, r) => said'[a] = said[r] /\ agent'[a].current = r
    BY <1>1, <2>1, <2>2
  <2>5. ~Accepted(a, x, r) => said'[a] = said[a] /\ agent'[a].current = agent[a].current
    BY <1>1, <2>1, <2>2
  <2>6. \A b \in Agents \ {a} : said'[b] = said[b] /\ agent'[b] = agent[b]
    BY <1>1, <2>2
  <2> QED BY <1>1, <1>2, <2>2, <2>3, <2>4, <2>5, <2>6 DEF InSync
<1>9. ASSUME NEW a \in Agents, NEW x \in Agent, AdoptOf(a, x) \/ SaveOf(a, x)
      PROVE  InSync'
  <2>1. \A b \in Agents : agent'[b].current = agent[b].current
    <3>1. agent'[a] = x /\ x.current = agent[a].current
          /\ \A b \in Agents \ {a} : agent'[b] = agent[b]
      BY <1>1, <1>9 DEF AdoptOf, SaveOf, Becomes
    <3> QED BY <3>1
  <2> QED BY <1>2, <1>9, <2>1 DEF AdoptOf, SaveOf, InSync
<1>10. ASSUME NEW a \in Agents, NEW id \in Identities, RemadeOf(a, id) PROVE InSync'
  <2>1. agent'[a].current = NoRun /\ \A b \in Agents \ {a} : agent'[b] = agent[b]
    BY <1>1, <1>10 DEF RemadeOf, Made
  <2>2. \A o \in (Agents \union Runs) \ {a} : said'[o] = said[o]
    BY <1>1, <1>10 DEF RemadeOf
  <2>3. endedBy' = endedBy
    BY <1>10 DEF RemadeOf
  <2>4. ASSUME NEW b \in Agents, agent'[b].current # NoRun, endedBy'[agent'[b].current] = b
        PROVE  said'[b] = said'[agent'[b].current]
    <3>1. b # a /\ agent'[b] = agent[b] /\ agent[b].current \in Runs
      BY <1>1, <2>1, <2>4
    <3> QED BY <1>1, <1>2, <2>2, <2>3, <2>4, <3>1
  <2> QED BY <2>4 DEF InSync
<1>11. ASSUME NEW r \in Runs, NEW carry \in BOOLEAN, NEW next \in Runs,
              DoorStartOf(r, carry, next)
       PROVE  InSync'
  <2>1. /\ agent' = agent /\ endedBy' = endedBy
        /\ \A o \in (Agents \union Runs) \ {next} : said'[o] = said[o]
    BY <1>1, <1>11 DEF DoorStartOf
  <2>2. \A b \in Agents : agent[b].current # NoRun => agent[b].current # next
    BY <1>1, <1>2, <1>11 DEF DoorStartOf
  <2> QED BY <1>1, <1>2, <2>1, <2>2 DEF InSync
<1>12. ASSUME NEW r \in Runs, TickOf(r) PROVE InSync'
  <2>1. /\ agent' = agent /\ endedBy' = endedBy /\ endedBy[r] = None
        /\ \A o \in (Agents \union Runs) \ {r} : said'[o] = said[o]
    BY <1>1, <1>3, <1>12 DEF TickOf, Ended
  <2> QED BY <1>1, <1>2, <2>1 DEF InSync
<1>13. ASSUME NoneSpeaks PROVE InSync'
  BY <1>2, <1>13 DEF NoneSpeaks, InSync
<1> QED
  BY <1>5, <1>6, <1>7, <1>8, <1>9, <1>10, <1>11, <1>12, <1>13 DEF Shape

\* What a list holds was said in one session: in the run's own, or the facade's.
LEMMA MixStep ==
  ASSUME TypeOK, OwnLists, BornInv, Named, OneIdentity, SessionsDoNotMix, RunsLast, Shape
  PROVE  SessionsDoNotMix'
<1> SUFFICES ASSUME DoorNames PROVE SessionsDoNotMix'
  BY DEF SessionsDoNotMix
<1> DEFINE All(list, session) == \A k \in DOMAIN list : run'[list[k]].session = session
           Told == \A r \in Runs : run'[r].status # "unborn" => All(said'[r], run'[r].session)
           Knows == \A a \in Agents : All(said'[a], agent'[a].session)
<1>1. /\ agent \in [Agents -> Agent] /\ run \in [Runs -> Run] /\ minted \in Nat
      /\ said \in [Agents \union Runs -> Seq(Runs)]
      /\ \A a \in Agents : /\ agent[a].current \in Runs \union {NoRun}
                           /\ agent[a].session \in Ids /\ a \notin Runs
  BY FacadeAssumption DEF TypeOK, Agent
<1>2. \A r \in Runs : run[r].status # "unborn" => /\ run'[r].status # "unborn"
                                                  /\ run'[r].session = run[r].session
                                                  /\ run[r].session # None
  BY DEF RunsLast, Lasts, Named, Born
<1>3. \A o \in Agents \union Runs : \A k \in DOMAIN said[o] :
        said[o][k] \in Runs /\ run[said[o][k]].status # "unborn"
  BY <1>1 DEF BornInv, Born
<1>4. \A r \in Runs : run[r].status # "unborn" => All(said[r], run[r].session)
  BY <1>2, <1>3 DEF OwnLists, SessionsDoNotMix
<1>5. \A a \in Agents : /\ All(said[a], agent[a].session)
                        /\ agent[a].session = None => DOMAIN said[a] = {}
  <2> TAKE a \in Agents
  <2>1. \A k \in DOMAIN said[a] : /\ run'[said[a][k]].session = agent[a].session
                                  /\ agent[a].session # None
    BY <1>2, <1>3 DEF SessionsDoNotMix
  <2> QED BY <2>1
<1>6. Told /\ Knows => SessionsDoNotMix'
  BY DEF RunsLast, SessionsDoNotMix
<1>7. \A list, session : DOMAIN list = {} => All(list, session)
  OBVIOUS
<1> HIDE DEF All
<1>8. (/\ \A r \in Runs : said'[r] = said[r]
       /\ \A r \in Runs : run'[r].status # "unborn" => run[r].status # "unborn") => Told
  BY <1>2, <1>4
<1>9. said' = said /\ agent' = agent => Knows
  BY <1>5
<1>10. ASSUME NEW a \in Agents, \A b \in Agents \ {a} : agent'[b] = agent[b] /\ said'[b] = said[b],
              All(said'[a], agent'[a].session)
       PROVE  Knows
  BY <1>5, <1>10
<1>11. ASSUME NEW r \in Runs, \A q \in Runs \ {r} : run'[q] = run[q] /\ said'[q] = said[q],
              All(said'[r], run'[r].session)
       PROVE  Told
  BY <1>2, <1>4, <1>11
<1>12. \A a \in Agents : All(said[a], Ensured(agent[a].session))
  BY <1>1, <1>5, <1>7, EnsuredFacts
<1>13. ASSUME NEW r \in Runs, run[r].status # "unborn", said'[r] = Append(said[r], r)
       PROVE  All(said'[r], run'[r].session)
  <2>1. All(said[r], run[r].session) /\ run'[r].session = run[r].session
        /\ said[r] \in Seq(Runs)
    BY <1>1, <1>2, <1>4, <1>13
  <2>2. ASSUME NEW k \in DOMAIN said'[r] PROVE run'[said'[r][k]].session = run'[r].session
    <3>1. k \in 1..(Len(said[r]) + 1)
      BY <1>13, <2>1, <2>2
    <3>2. k \in DOMAIN said[r] => said'[r][k] = said[r][k]
      BY <1>13, <2>1, <3>1
    <3>3. k \notin DOMAIN said[r] => said'[r][k] = r
      BY <1>13, <2>1, <3>1
    <3> QED BY <2>1, <3>2, <3>3 DEF All
  <2> QED BY <2>2 DEF All
<1> HIDE DEF Told, Knows
<1>14. ASSUME NEW a \in Agents, NEW r \in Runs, StartOf(a, r) PROVE SessionsDoNotMix'
  <2>1. /\ said'[r] = said[a] /\ said'[a] = said[a]
        /\ agent'[a].session = Ensured(agent[a].session)
        /\ run'[r].session = Ensured(agent[a].session)
    BY <1>1, <1>14 DEF StartOf, Started
  <2>2. /\ \A b \in Agents \ {a} : agent'[b] = agent[b] /\ said'[b] = said[b]
        /\ \A q \in Runs \ {r} : run'[q] = run[q] /\ said'[q] = said[q]
    BY <1>1, <1>14 DEF StartOf
  <2>3. Knows
    BY <1>10, <1>12, <2>1, <2>2
  <2>4. Told
    BY <1>11, <1>12, <2>1, <2>2
  <2> QED BY <1>6, <2>3, <2>4
<1>15. ASSUME NEW a \in Agents, NEW r \in Runs, SyncOf(a, r) PROVE SessionsDoNotMix'
  <2>1. /\ said'[a] = said[r] /\ agent' = agent /\ run' = run
        /\ run[r].status # "unborn"
        /\ \A o \in (Agents \union Runs) \ {a} : said'[o] = said[o]
    BY <1>1, <1>15 DEF SyncOf, Ended
  <2>2. run[r].session = agent[a].session
    <3>1. agent[a].current = r /\ r # NoRun
      BY <1>15 DEF SyncOf, Runs, NoRun
    <3> QED BY <1>2, <2>1, <3>1 DEF OneIdentity
  <2>3. Knows
    BY <1>4, <1>10, <2>1, <2>2
  <2>4. Told
    BY <1>1, <1>8, <2>1
  <2> QED BY <1>6, <2>3, <2>4
<1>16. ASSUME NEW a \in Agents, NEW r \in Runs, r = agent[a].current,
              NEW v \in Ticked(run[r]), DriveOf(a, r, v)
       PROVE  SessionsDoNotMix'
  <2>1. /\ run[r].status # "unborn" /\ agent' = agent
        /\ said'[r] = Append(said[r], r)
        /\ said'[a] = IF v.status \in Ended THEN said'[r] ELSE said[a]
        /\ \A b \in Agents \ {a} : said'[b] = said[b]
        /\ \A q \in Runs \ {r} : run'[q] = run[q] /\ said'[q] = said[q]
    BY <1>1, <1>16 DEF DriveOf
  <2>2. All(said'[r], run'[r].session)
    BY <1>13, <2>1
  <2>3. run'[r].session = agent[a].session
    <3>1. r # NoRun
      BY <1>16 DEF Runs, NoRun
    <3> QED BY <1>2, <1>16, <2>1, <3>1 DEF OneIdentity
  <2>4. Told
    BY <1>11, <2>1, <2>2
  <2>5. Knows
    BY <1>5, <1>10, <2>1, <2>2, <2>3
  <2> QED BY <1>6, <2>4, <2>5
<1>17. ASSUME NEW a \in Agents, NEW x \in Agent, NEW r \in Runs, JoinOf(a, x, r)
       PROVE  SessionsDoNotMix'
  <2> DEFINE y == Attached(a, x, r)
  <2>1. /\ run[r].status # "unborn" /\ run' = run /\ Becomes(a, x)
        /\ agent'[a] = y /\ \A b \in Agents \ {a} : agent'[b] = agent[b]
        /\ said' = IF Accepted(a, x, r) THEN [said EXCEPT ![a] = said[r]] ELSE said
    BY <1>1, <1>17 DEF JoinOf, AttachOf, Born
  <2>2. /\ ~Accepted(a, x, r) => y.session = x.session
        /\ Accepted(a, x, r) => run[r].session \in {None, y.session}
    BY <1>1, AttachedFacts
  <2> HIDE DEF y
  <2>3. \A o \in (Agents \union Runs) \ {a} : said'[o] = said[o]
    BY <1>1, <2>1
  <2>4. Told
    BY <1>1, <1>8, <2>1, <2>3
  <2>5. CASE Accepted(a, x, r)
    <3>1. said'[a] = said[r] /\ run[r].session = y.session
      BY <1>1, <1>2, <2>1, <2>2, <2>5
    <3>2. Knows
      BY <1>4, <1>10, <2>1, <2>3, <3>1
    <3> QED BY <1>6, <2>4, <3>2
  <2>6. CASE ~Accepted(a, x, r)
    <3>1. said'[a] = said[a] /\ agent'[a].session = x.session
      BY <2>1, <2>2, <2>6
    <3>2. All(said'[a], agent'[a].session)
      BY <1>5, <1>7, <2>1, <3>1 DEF Becomes
    <3>3. Knows
      BY <1>10, <2>1, <2>3, <3>2
    <3> QED BY <1>6, <2>4, <3>3
  <2> QED BY <2>5, <2>6
<1>18. ASSUME NEW a \in Agents, NEW x \in Agent, AdoptOf(a, x) \/ SaveOf(a, x)
       PROVE  SessionsDoNotMix'
  <2>1. /\ agent'[a] = x /\ said' = said /\ run' = run
        /\ x.session \in {agent[a].session, Ensured(agent[a].session)}
        /\ \A b \in Agents \ {a} : agent'[b] = agent[b]
    BY <1>1, <1>18 DEF AdoptOf, SaveOf
  <2>2. Knows
    BY <1>5, <1>10, <1>12, <2>1
  <2>3. Told
    BY <1>8, <2>1
  <2> QED BY <1>6, <2>2, <2>3
<1>19. ASSUME NEW a \in Agents, NEW id \in Identities, RemadeOf(a, id)
       PROVE  SessionsDoNotMix'
  <2>1. /\ said'[a] = <<>> /\ run' = run /\ \A b \in Agents \ {a} : agent'[b] = agent[b]
        /\ \A o \in (Agents \union Runs) \ {a} : said'[o] = said[o]
    BY <1>1, <1>19 DEF RemadeOf
  <2>2. Knows
    BY <1>7, <1>10, <2>1
  <2>3. Told
    BY <1>1, <1>8, <2>1
  <2> QED BY <1>6, <2>2, <2>3
<1>20. ASSUME NEW r \in Runs, NEW carry \in BOOLEAN, NEW next \in Runs,
              DoorStartOf(r, carry, next)
       PROVE  SessionsDoNotMix'
  <2>1. /\ run[r].status # "unborn" /\ run'[next].session = run[r].session
        /\ said'[next] = IF carry THEN said[r] ELSE <<>>
        /\ \A q \in Runs \ {next} : run'[q] = run[q] /\ said'[q] = said[q]
        /\ \A a \in Agents : said'[a] = said[a] /\ agent'[a] = agent[a]
    BY <1>1, <1>20 DEF DoorStartOf, Started, Name, OwnLists, Ended
  <2>2. Told
    BY <1>4, <1>7, <1>11, <2>1
  <2>3. Knows
    BY <1>5, <2>1 DEF Knows
  <2> QED BY <1>6, <2>2, <2>3
<1>21. ASSUME NEW r \in Runs, TickOf(r) PROVE SessionsDoNotMix'
  <2>1. /\ run[r].status # "unborn" /\ said'[r] = Append(said[r], r) /\ agent' = agent
        /\ \A q \in Runs \ {r} : run'[q] = run[q] /\ said'[q] = said[q]
        /\ \A a \in Agents : said'[a] = said[a]
    BY <1>1, <1>21 DEF TickOf
  <2>2. Told
    BY <1>11, <1>13, <2>1
  <2>3. Knows
    BY <1>5, <2>1 DEF Knows
  <2> QED BY <1>6, <2>2, <2>3
<1>22. ASSUME NoneSpeaks PROVE SessionsDoNotMix'
  BY <1>6, <1>8, <1>9, <1>22 DEF NoneSpeaks
<1> QED
  BY <1>14, <1>15, <1>16, <1>17, <1>18, <1>19, <1>20, <1>21, <1>22 DEF Shape

-----------------------------------------------------------------------------
(* The theorems *)

\* The program starts in IInv.
LEMMA InvInit == Init => IInv
<1> SUFFICES ASSUME Init PROVE IInv
  OBVIOUS
<1>1. PICK id \in [Agents -> Identities] : agent = [a \in Agents |-> Made(id[a])]
  BY DEF Init
<1>2. /\ agent \in [Agents -> Agent]
      /\ \A a \in Agents : agent[a].current = NoRun
  BY <1>1, FacadeAssumption DEF Made, Agent
<1>3. \A r \in Runs : /\ Unborn(r) \in Run
                      /\ Unborn(r).status = "unborn" /\ Unborn(r).list = r
                      /\ Unborn(r).inbox = {} /\ Unborn(r).heard = {}
  BY FacadeAssumption DEF Unborn, Started, Run, Ids
<1>4. /\ run \in [Runs -> Run]
      /\ \A r \in Runs : /\ run[r].status = "unborn" /\ run[r].list = r
                         /\ run[r].inbox = {} /\ run[r].heard = {}
  BY <1>3 DEF Init
<1>5. /\ said \in [Agents \union Runs -> Seq(Runs)]
      /\ \A o \in Agents \union Runs : DOMAIN said[o] = {}
  BY DEF Init
<1>6. TypeOK
  BY <1>2, <1>4, <1>5, FacadeAssumption DEF Init, TypeOK
<1>7. OwnLists /\ BornInv /\ Named /\ InSync /\ GuidanceStaysWithItsTask
  BY <1>2, <1>4, <1>5 DEF Init, OwnLists, BornInv, Born, Named, InSync,
                          GuidanceStaysWithItsTask
<1>8. SessionsAreKeptApart
  BY <1>2, <1>4, <1>5 DEF Init, SessionsAreKeptApart, OneIdentity, SessionsDoNotMix
<1> QED BY <1>6, <1>7, <1>8 DEF IInv

\* Every step keeps it.
LEMMA InvStep == IInv /\ [Next]_vars => IInv'
<1> SUFFICES ASSUME IInv, [Next]_vars PROVE IInv'
  OBVIOUS
<1> USE DEF IInv, SessionsAreKeptApart
<1>1. RunsLast /\ Shape
  BY RunsLastAlways, StepShape
<1>2. OwnLists' /\ GuidanceStaysWithItsTask'
  BY <1>1 DEF RunsLast, OwnLists, GuidanceStaysWithItsTask
<1>3. TypeOK'
  <2>1. CASE Next
    BY <2>1, TypeStep
  <2>2. CASE UNCHANGED vars
    BY <2>2 DEF vars, TypeOK
  <2> QED BY <2>1, <2>2
<1> QED BY <1>1, <1>2, <1>3, BornStep, NamedStep, IdentityStep, SyncStep, MixStep

\* IInv holds in every reachable state.
THEOREM Invariance == Spec => []IInv
BY InvInit, InvStep, PTL DEF Spec

\* Every variable stays in the range the code gives it.
THEOREM TypeCorrect == Spec => []TypeOK
<1>1. IInv => TypeOK
  BY DEF IInv
<1> QED BY <1>1, Invariance, PTL

\* Through any history of attaching, saving, loading and starting, every facade and
\* the file stay on runs of one identity, and what one session said stays in it.
THEOREM SessionsApart == Spec => []SessionsAreKeptApart
<1>1. IInv => SessionsAreKeptApart
  BY DEF IInv
<1> QED BY <1>1, Invariance, PTL

\* Guidance meant for one run is never in the inbox or the ears of another.
THEOREM GuidanceApart == Spec => []GuidanceStaysWithItsTask
<1>1. IInv => GuidanceStaysWithItsTask
  BY DEF IInv
<1> QED BY <1>1, Invariance, PTL

\* No step rewrites what a run that has ended said.
THEOREM RecordsKept == Spec => EndedRecordsAreKept
<1>1. IInv /\ [Next]_vars => \A r \in Runs : run[r].status \in Ended =>
                               /\ run'[r].status = run[r].status
                               /\ said'[run'[r].list] = said[run[r].list]
  <2> SUFFICES ASSUME IInv, [Next]_vars, NEW r \in Runs, run[r].status \in Ended
               PROVE  /\ run'[r].status = run[r].status
                      /\ said'[run'[r].list] = said[run[r].list]
    OBVIOUS
  <2>1. RunsLast /\ Shape
    BY RunsLastAlways, StepShape DEF IInv, SessionsAreKeptApart
  <2>2. /\ run'[r].status = run[r].status /\ run'[r].list = r /\ run[r].list = r
    BY <2>1 DEF RunsLast, Lasts, IInv, OwnLists
  <2>3. /\ said \in [Agents \union Runs -> Seq(Runs)] /\ \A a \in Agents : a # r
        /\ run[r].status \notin {"unborn", "running"}
    BY FacadeAssumption DEF IInv, TypeOK, Ended
  <2>4. said'[r] = said[r]
    BY <2>1, <2>3 DEF Shape, StartOf, SyncOf, DriveOf, JoinOf, AttachOf, AdoptOf, SaveOf,
                      RemadeOf, DoorStartOf, TickOf, NoneSpeaks
  <2> QED BY <2>2, <2>4
<1> QED BY <1>1, Invariance, PTL DEF Spec, EndedRecordsAreKept

\* The task a facade starts next begins with all that its last one said, if that
\* one ended in the facade's hands.
THEOREM Continuity == Spec => SessionGoesOn
<1> DEFINE Goes(a) ==
      LET last == agent[a].current
          next == agent'[a].current
      IN  (/\ last # NoRun /\ endedBy[last] = a
           /\ next # NoRun /\ run[next].status = "unborn")
          => said'[run'[next].list] = said[run[last].list]
<1>1. IInv /\ [Next]_vars => \A a \in Agents : Goes(a)
  <2> SUFFICES ASSUME IInv, [Next]_vars, NEW a \in Agents,
                      agent[a].current # NoRun, endedBy[agent[a].current] = a,
                      agent'[a].current # NoRun, run[agent'[a].current].status = "unborn"
               PROVE  said'[run'[agent'[a].current].list] = said[run[agent[a].current].list]
    OBVIOUS
  <2>1. RunsLast /\ Shape
    BY RunsLastAlways, StepShape DEF IInv, SessionsAreKeptApart
  <2>2. /\ agent \in [Agents -> Agent] /\ run \in [Runs -> Run]
        /\ said \in [Agents \union Runs -> Seq(Runs)]
        /\ agent[a].current \in Runs /\ run[agent[a].current].status # "unborn"
        /\ said[a] = said[agent[a].current]
    BY DEF IInv, TypeOK, Agent, BornInv, Born, InSync
  <2>3. ASSUME NEW b \in Agents, NEW r \in Runs, StartOf(b, r)
        PROVE  agent'[a].current \in Runs /\ said'[agent'[a].current] = said[agent[a].current]
    <3>1. agent'[a].current = r /\ a = b
      BY <2>2, <2>3 DEF StartOf
    <3> QED BY <2>2, <2>3, <3>1 DEF StartOf
  <2>4. ASSUME agent' = agent PROVE FALSE
    BY <2>2, <2>4
  <2>5. ASSUME NEW b \in Agents, NEW x \in Agent, NEW r \in Runs, JoinOf(b, x, r)
        PROVE  FALSE
    <3>1. Attached(b, x, r).current \in {x.current, r} /\ x.current = agent[b].current
          /\ run[r].status # "unborn"
      BY <2>2, <2>5, AttachedFacts DEF JoinOf, Becomes, Born
    <3>2. agent'[a].current \in {agent[a].current, r}
      BY <2>2, <2>5, <3>1 DEF JoinOf, AttachOf
    <3> QED BY <2>2, <3>1, <3>2
  <2>6. ASSUME NEW b \in Agents, NEW x \in Agent, AdoptOf(b, x) \/ SaveOf(b, x)
        PROVE  FALSE
    <3>1. x.current = agent[b].current /\ agent' = [agent EXCEPT ![b] = x]
      BY <2>6 DEF AdoptOf, SaveOf, Becomes
    <3> QED BY <2>2, <3>1
  <2>7. ASSUME NEW b \in Agents, NEW id \in Identities, RemadeOf(b, id) PROVE FALSE
    BY <2>2, <2>7 DEF RemadeOf, Made
  <2>8. agent'[a].current \in Runs /\ said'[agent'[a].current] = said[agent[a].current]
    BY <2>1, <2>3, <2>4, <2>5, <2>6, <2>7
       DEF Shape, SyncOf, DriveOf, DoorStartOf, TickOf, NoneSpeaks
  <2> QED BY <2>1, <2>2, <2>8 DEF RunsLast, IInv, OwnLists
<1> QED BY <1>1, Invariance, PTL DEF Spec, SessionGoesOn
=============================================================================
