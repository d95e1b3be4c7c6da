----------------------------- MODULE RunTreeProofs -----------------------------
(***************************************************************************)
(* Proofs about RunTree, for every number of runs, calls, restarts and edits, *)
(* whatever toolsets processes have and hosts grant.                          *)
(***************************************************************************)
EXTENDS RunTree, TLAPS

-----------------------------------------------------------------------------
(* The inductive invariant *)

Born(r) == run[r].node # "unborn"
\* A tick has been begun and not yet saved.
InFlight == tick.at # "none"

\* A run v with history x keeps to what was granted, and what it lost was told.
Keeps(v, x) ==
  /\ Requested(v.allow) \subseteq x.reach
  /\ Requested(v.allow) \subseteq x.granted
  /\ x.granted \ Requested(v.allow) \subseteq x.told
  /\ v.note.dropped \subseteq x.told

\* Grants: of the runs, of the tick in flight, and of what that hands out.
GrantInv ==
  /\ \A r \in Runs : Born(r) => Keeps(run[r], h[r])
  /\ \A r \in Runs : h[r].ran \subseteq h[r].reach
  /\ InFlight =>
       /\ Keeps(tick.copy, h[tick.r])
       /\ tick.copy.allow \in SUBSET Names
       /\ tick.key.tools \subseteq tick.copy.allow
       /\ tick.key.name \in Builtin => tick.key.name \in tick.copy.allow

\* A batch of ordinary tools waits for its answer.
Pending(r) == run[r].node = "act" /\ run[r].call.name \in Tools

\* The result is one performed for the pending call, or the executor's refusal.
Own(r, key, result) ==
  result \in h[r].fresh \/ (result = Refusal /\ key.name \notin key.tools)

\* The tick in flight serves the call its run has saved as pending.
TickInv ==
  InFlight =>
    /\ tick.result <= clock
    /\ tick.copy.node \in {"observe", "child", "user"}
    /\ run[tick.r].node = "act"
    /\ tick.key.name = run[tick.r].call.name
    /\ tick.key.name \in Tools =>
         /\ tick.key.seq = run[tick.r].seq + 1
         /\ tick.copy.seq = run[tick.r].seq + 1
         /\ tick.key.tools = tick.copy.allow
         /\ tick.at \in {"record", "save"} => Own(tick.r, tick.key, tick.result)
    /\ tick.key.name \notin Tools => tick.copy.seq = run[tick.r].seq
    /\ tick.at = "perform" => Recorded(tick.r, tick.key) = {}

\* A recorded result is an earlier batch's, or the pending batch's own.
LedgerInv ==
  \A e \in ledger :
    /\ e.result <= clock
    /\ e.key.name \in Tools =>
         \/ e.key.seq <= run[e.run].seq
         \/ /\ Pending(e.run)
            /\ e.key.name = run[e.run].call.name
            /\ e.key.seq = run[e.run].seq + 1
            /\ Own(e.run, e.key, e.result)
    /\ (Pending(e.run) /\ e.result \in h[e.run].fresh) =>
         /\ e.key.name = run[e.run].call.name
         /\ e.key.seq = run[e.run].seq + 1

\* Only a run that was started has results on record.
BornInv == \A e \in ledger : Born(e.run)

\* The inductive invariant.
IInv == TypeOK /\ GrantInv /\ TickInv /\ LedgerInv /\ BornInv

-----------------------------------------------------------------------------
(* Lemmas about the operators *)

\* Refreshing a run changes its allowlist and its note alone; the allowlist is
\* what was requested of it, less what was dropped.
LEMMA RefreshedFacts ==
  ASSUME TypeOK, NEW r \in Runs
  PROVE  LET v == Refreshed(run[r])
         IN  /\ v \in Run
             /\ v.allow \in SUBSET Names
             /\ Requested(v.allow) = v.allow
             /\ v.allow = Requested(run[r].allow) \ Dropped(run[r].allow)
             /\ v.note = NotePruned(run[r].note, run[r].allow)
             /\ v.seq = run[r].seq /\ v.child = run[r].child
             /\ v.node = run[r].node /\ v.call = run[r].call
<1>1. run[r] \in Run
  BY DEF TypeOK
<1>2. Requested(run[r].allow) \in SUBSET Names
  BY <1>1, TreeAssumption DEF Requested, Run, Saved
<1>3. Effective(run[r].allow) \in SUBSET Names /\ Dropped(run[r].allow) \in SUBSET Names
  BY <1>2 DEF Effective, Dropped
<1>4. NotePruned(run[r].note, run[r].allow) \in Note
  BY <1>1, <1>2, <1>3 DEF NotePruned, Run, Saved, Note
<1>5. Unset \notin SUBSET Names
  BY TreeAssumption
<1>6. Refreshed(run[r]) \in Run
  BY <1>1, <1>3, <1>4 DEF Refreshed, Run, Saved
<1>7. Refreshed(run[r]).allow = Effective(run[r].allow)
  BY <1>1 DEF Refreshed, Run, Saved
<1> QED
  BY <1>1, <1>3, <1>5, <1>6, <1>7 DEF Refreshed, Run, Saved, Requested, Effective, Dropped

\* A child is granted nothing its parent does not hold.
LEMMA ChildWithinParent ==
  ASSUME NEW c, NEW allow PROVE ChildAllow(c, allow) \subseteq allow
BY DEF ChildAllow

\* What a key carries comes from the allowlist, and is typed.
LEMMA KeyFacts ==
  ASSUME TypeOK, NEW v \in Run, NEW c \in Call, v.allow \in SUBSET Names
  PROVE  /\ KeyOf(v, c) \in Key
         /\ KeyOf(v, c).name = c.name
         /\ KeyOf(v, c).tools \subseteq v.allow
         /\ c.name \in Tools => /\ KeyOf(v, c).seq = v.seq + 1
                                /\ KeyOf(v, c).tools = v.allow
<1>1. c.name \in Names /\ v.seq \in Nat
  BY DEF Call, Run, Saved
<1>2. ChildAllow(c, v.allow) \subseteq v.allow
  BY ChildWithinParent
<1>3. CASE c.name \in Tools
  <2>1. KeyOf(v, c) = [name |-> c.name, tools |-> v.allow, seq |-> v.seq + 1]
    <3>1. c.name \notin Spawning
      BY <1>3, TreeAssumption DEF Builtin
    <3> QED BY <1>3, <3>1 DEF KeyOf, NextSeq
  <2> QED BY <1>1, <1>3, <2>1 DEF Key
<1>4. CASE c.name \notin Tools /\ c.name \in Spawning
  <2>1. KeyOf(v, c) = [name |-> c.name, tools |-> ChildAllow(c, v.allow), seq |-> 0]
    BY <1>4 DEF KeyOf
  <2> QED BY <1>1, <1>2, <1>4, <2>1 DEF Key
<1>5. CASE c.name \notin Tools \union Spawning
  <2>1. KeyOf(v, c) = [name |-> c.name, tools |-> {}, seq |-> 0]
    BY <1>5 DEF KeyOf
  <2> QED BY <1>1, <1>5, <2>1 DEF Key
<1> QED BY <1>3, <1>4, <1>5

-----------------------------------------------------------------------------
(* Type correctness *)

\* What a run was started with, or a new run, is typed.
LEMMA StartedTypes ==
  ASSUME NEW allow \in {Unset} \union SUBSET Names
  PROVE  Started(allow) \in Run
BY DEF Started, Run, Saved, Note, NoNote, NoCall, Refusal

\* The history a run is born with has its type.
LEMMA NewHistoryTypes ==
  ASSUME NEW granted \in SUBSET Names, NEW reach \in SUBSET Names
  PROVE  NewHistory(granted, reach) \in History
BY DEF NewHistory, History

\* What the helpers on runs change, field by field.
LEMMA ServedFacts ==
  ASSUME NEW v \in Run, NEW seq \in Nat
  PROVE  /\ Served(v, seq) \in Run
         /\ Served(v, seq).node = "observe" /\ Served(v, seq).call = NoCall
         /\ Served(v, seq).allow = v.allow /\ Served(v, seq).note = v.note
         /\ Served(v, seq).seq = seq /\ Served(v, seq).result = Refusal
BY DEF Served, Run, Saved, Refusal

\* A run that waits for its child keeps its call and its grant.
LEMMA WaitingFacts ==
  ASSUME NEW v \in Run, NEW child \in Runs
  PROVE  /\ Waiting(v, child) \in Run
         /\ Waiting(v, child).node = "child" /\ Waiting(v, child).call = v.call
         /\ Waiting(v, child).allow = v.allow /\ Waiting(v, child).note = v.note
         /\ Waiting(v, child).seq = v.seq
BY DEF Waiting, Run, Saved

\* Routing a call changes the node and the call alone.
LEMMA RoutedFacts ==
  ASSUME NEW v \in Run, NEW node \in {"act", "done"}, NEW call \in Call \union {NoCall},
         node = "act" => call \in Call
  PROVE  LET w == [v EXCEPT !.node = node, !.call = call]
         IN  /\ w \in Run
             /\ w.node = node /\ w.call = call /\ w.seq = v.seq
             /\ w.allow = v.allow /\ w.note = v.note
BY DEF Run, Saved

\* ... and on histories.
LEMMA ToldFacts ==
  ASSUME NEW x \in History, NEW dropped \in SUBSET Names
  PROVE  /\ Told(x, dropped) \in History
         /\ Told(x, dropped).told = x.told \union dropped
         /\ Told(x, dropped).granted = x.granted /\ Told(x, dropped).reach = x.reach
         /\ Told(x, dropped).ran = x.ran /\ Told(x, dropped).fresh = x.fresh
BY DEF Told, History

\* Asking the model tells it what was pruned.
LEMMA AskedFacts ==
  ASSUME NEW x \in History, NEW dropped \in SUBSET Names
  PROVE  /\ Asked(x, dropped) \in History
         /\ Asked(x, dropped).told = x.told \union dropped
         /\ Asked(x, dropped).granted = x.granted /\ Asked(x, dropped).reach = x.reach
         /\ Asked(x, dropped).ran = x.ran /\ Asked(x, dropped).fresh = {}
<1>1. ASSUME NEW n \in Nat
      PROVE  LET y == [x EXCEPT !.asked = n, !.told = @ \union dropped, !.fresh = {}]
             IN  /\ y \in History
                 /\ y.told = x.told \union dropped
                 /\ y.granted = x.granted /\ y.reach = x.reach
                 /\ y.ran = x.ran /\ y.fresh = {}
  BY DEF History
<1>2. x.asked + 1 \in Nat
  BY DEF History
<1> QED BY <1>1, <1>2 DEF Asked

\* Performing a call adds its name and its result.
LEMMA DidFacts ==
  ASSUME NEW x \in History, NEW name \in Names, NEW result \in Nat
  PROVE  /\ Did(x, name, result) \in History
         /\ Did(x, name, result).ran = x.ran \union {name}
         /\ Did(x, name, result).fresh = x.fresh \union {result}
         /\ Did(x, name, result).granted = x.granted
         /\ Did(x, name, result).reach = x.reach /\ Did(x, name, result).told = x.told
BY DEF Did, History

\* Regranting sets what is granted and widens what may be reached.
LEMMA RegrantedFacts ==
  ASSUME NEW x \in History, NEW allow \in SUBSET Names
  PROVE  /\ Regranted(x, allow) \in History
         /\ Regranted(x, allow).granted = allow
         /\ Regranted(x, allow).reach = x.reach \union allow
         /\ Regranted(x, allow).ran = x.ran /\ Regranted(x, allow).told = x.told
         /\ Regranted(x, allow).fresh = x.fresh
BY DEF Regranted, History

\* Announcements name names.
LEMMA AnnouncedTypes ==
  ASSUME TypeOK, NEW r \in Runs
  PROVE  Announced(run[r]) \in SUBSET Names
<1>1. /\ Refreshed(run[r]) \in Run
      /\ Refreshed(run[r]).note = NotePruned(run[r].note, run[r].allow)
  BY RefreshedFacts
<1>2. NotePruned(run[r].note, run[r].allow) \in Note
  BY <1>1 DEF Run, Saved
<1> QED BY <1>2 DEF Announced, Note

\* Whatever a refreshed run lost is told by the time it is saved.
LEMMA RefreshedKeeps ==
  ASSUME TypeOK, NEW r \in Runs, Keeps(run[r], h[r])
  PROVE  Keeps(Refreshed(run[r]), Told(h[r], Announced(run[r])))
<1>1. run[r] \in Run /\ h[r] \in History
  BY DEF TypeOK
<1> DEFINE v == Refreshed(run[r])
           note == NotePruned(run[r].note, run[r].allow)
           x == Told(h[r], Announced(run[r]))
<1>2. /\ v.allow = Requested(run[r].allow) \ Dropped(run[r].allow)
      /\ v.note = note /\ Requested(v.allow) = v.allow
  BY RefreshedFacts
<1>3. Announced(run[r]) = IF note = run[r].note THEN {} ELSE note.dropped
  BY DEF Announced
<1>4. /\ x.told = h[r].told \union Announced(run[r])
      /\ x.reach = h[r].reach /\ x.granted = h[r].granted
  BY <1>1, AnnouncedTypes, ToldFacts
<1>5. note.dropped \subseteq x.told
  BY <1>3, <1>4 DEF Keeps
<1>6. Dropped(run[r].allow) \subseteq note.dropped
  BY DEF NotePruned
<1>7. /\ Requested(run[r].allow) \subseteq h[r].reach
      /\ Requested(run[r].allow) \subseteq h[r].granted
      /\ h[r].granted \ Requested(run[r].allow) \subseteq h[r].told
  BY DEF Keeps
<1> HIDE DEF note, v, x
<1>8. v.allow \subseteq x.reach /\ v.allow \subseteq x.granted
  BY <1>2, <1>4, <1>7
<1>9. x.granted \ v.allow \subseteq x.told
  BY <1>2, <1>4, <1>5, <1>6, <1>7
<1>10. Keeps(v, x)
  BY <1>2, <1>5, <1>8, <1>9 DEF Keeps
<1> QED BY <1>10 DEF v, x

\* Keeping is about the allowlist and the note, and more may be told and granted above.
LEMMA KeepsTransfer ==
  ASSUME NEW v, NEW w, NEW x, NEW y, Keeps(v, x),
         w.allow = v.allow, w.note = v.note,
         y.reach = x.reach, y.granted = x.granted, x.told \subseteq y.told
  PROVE  Keeps(w, y)
BY DEF Keeps

\* What TypeOK says of the variables, part by part.
LEMMA TypeFacts ==
  ASSUME TypeOK
  PROVE  /\ \A r \in Runs : run[r] \in Run /\ h[r] \in History
         /\ DOMAIN run = Runs /\ DOMAIN h = Runs
         /\ InFlight => /\ tick \in Tick
                        /\ tick.r \in Runs /\ tick.copy \in Run /\ tick.key \in Key
                        /\ tick.key.name \in Names /\ tick.result \in Nat
         /\ tick = NoTick <=> ~InFlight
         /\ clock \in Nat
BY DEF TypeOK, InFlight, Tick, NoTick, Key

\* A tick is begun on a copy that has served the call.
LEMMA IssueFacts ==
  ASSUME TypeOK, NEW r \in Runs, ActIssue(r)
  PROVE  LET c == run[r].call
             v == Refreshed(run[r])
             seq == IF c.name \in Tools THEN v.seq + 1 ELSE v.seq
             key == KeyOf(v, c)
         IN  /\ tick'.r = r /\ tick'.copy = Served(v, seq) /\ tick'.key = key
             /\ \/ /\ tick'.at = "perform" /\ Recorded(r, key) = {}
                   /\ tick'.result = Refusal
                \/ tick'.at = "save" /\ tick'.result \in Recorded(r, key)
             /\ tick' = [at |-> tick'.at, r |-> r, copy |-> Served(v, seq), key |-> key,
                         result |-> tick'.result]
<1> DEFINE c == run[r].call
           v == Refreshed(run[r])
           seq == IF c.name \in Tools THEN v.seq + 1 ELSE v.seq
           key == KeyOf(v, c)
           copy == Served(v, seq)
<1>1. CASE Recorded(r, key) = {}
  <2>1. tick' = [at |-> "perform", r |-> r, copy |-> copy, key |-> key, result |-> Refusal]
    <3> HIDE DEF v
    <3> QED BY <1>1 DEF ActIssue, NextSeq, v
  <2> QED BY <1>1, <2>1
<1>2. CASE Recorded(r, key) # {}
  <2>1. PICK result \in Recorded(r, key) :
          tick' = [at |-> "save", r |-> r, copy |-> copy, key |-> key, result |-> result]
    BY <1>2 DEF ActIssue, NextSeq
  <2> QED BY <1>2, <2>1
<1> QED BY <1>1, <1>2

\* A run started under the id child.
SpawnOf(child) ==
  /\ run[child].node = "unborn"
  /\ clock' = clock + 1
  /\ run' = [run EXCEPT ![child] = Started(tick.key.tools)]
  /\ \/ /\ tick.key.name = Delegate
        /\ tick' = [tick EXCEPT !.at = "save", !.copy = Waiting(tick.copy, child)]
     \/ /\ tick.key.name # Delegate
        /\ tick' = [tick EXCEPT !.at = "record", !.result = clock + 1]
  /\ h' = [h EXCEPT ![tick.r] = Did(h[tick.r], tick.key.name, clock + 1),
                    ![child] = NewHistory(tick.key.tools, h[tick.r].reach)]

\* Spawn, by the child it makes.
LEMMA SpawnFacts ==
  ASSUME TypeOK, Spawn
  PROVE  \E child \in Runs : SpawnOf(child)
<1>1. tick \in Tick
  BY DEF TypeOK, Spawn, NoTick
<1>2. tick.r \in DOMAIN h /\ tick = [tick EXCEPT !.at = "perform"]
  BY <1>1 DEF Spawn, TypeOK, Tick
<1>3. tick.r \in Runs
  BY <1>1 DEF Tick
<1>4. PICK child \in Runs :
        /\ run[child].node = "unborn"
        /\ run' = [run EXCEPT ![child] = Started(tick.key.tools)]
        /\ tick' = IF tick.key.name = Delegate
                   THEN [tick EXCEPT !.at = "save", !.copy = Waiting(tick.copy, child)]
                   ELSE [tick EXCEPT !.at = "record", !.result = clock + 1]
        /\ h' = [h EXCEPT ![tick.r] = Did(h[tick.r], tick.key.name, clock + 1),
                          ![child] = NewHistory(tick.key.tools, h[tick.r].reach)]
  BY <1>1, <1>3 DEF Spawn, Tick
<1> QED BY <1>4 DEF SpawnOf, Spawn

\* A run that resumes has its child's answer for a result.
Returned(v) == [Served(v, v.seq) EXCEPT !.result = clock + 1, !.child = 0]

\* ChildReturns, by the run that resumes.
LEMMA ReturnFacts ==
  ASSUME TypeOK, NEW r \in Runs, ChildReturns(r)
  PROVE  LET v == Returned(run[r])
         IN  /\ run' = [run EXCEPT ![r] = v]
             /\ v \in Run
             /\ v.node = "observe" /\ v.seq = run[r].seq
             /\ v.allow = run[r].allow /\ v.note = run[r].note
<1>1. run[r] \in Run /\ run[r].seq \in Nat /\ clock + 1 \in Nat
  BY DEF TypeOK, Run, Saved
<1> DEFINE w == Served(run[r], run[r].seq)
<1>2. /\ w \in Run /\ w.node = "observe" /\ w.seq = run[r].seq
      /\ w.allow = run[r].allow /\ w.note = run[r].note
  BY <1>1, ServedFacts
<1>3. Returned(run[r]) = [w EXCEPT !.result = clock + 1, !.child = 0]
  BY DEF Returned
<1>4. run' = [run EXCEPT ![r] = Returned(run[r])]
  BY DEF ChildReturns, Returned
<1> HIDE DEF w
<1>5. ASSUME NEW n \in Nat
      PROVE  LET v == [w EXCEPT !.result = n, !.child = 0]
             IN  /\ v \in Run /\ v.node = w.node /\ v.seq = w.seq
                 /\ v.allow = w.allow /\ v.note = w.note
  BY <1>2 DEF Run, Saved
<1> QED BY <1>1, <1>2, <1>3, <1>4, <1>5

\* Ask, field by field.
LEMMA AskFacts ==
  ASSUME Ask
  PROVE  /\ tick.at = "perform" /\ tick.key.name = AskUser /\ clock' = clock + 1
         /\ tick' = [tick EXCEPT !.at = "save", !.copy = [tick.copy EXCEPT !.node = "user"]]
         /\ h' = [h EXCEPT ![tick.r] = Did(h[tick.r], AskUser, clock + 1)]
         /\ UNCHANGED <<run, ledger, registry, restarts, edits>>
BY DEF Ask

\* Every step keeps the types.
LEMMA TypeStep ==
  ASSUME TypeOK, [Next]_vars
  PROVE  TypeOK'
<1>1. /\ run \in [Runs -> Run] /\ tick \in Tick \union {NoTick}
      /\ \A e \in ledger : e.run \in Runs /\ e.key \in Key /\ e.result \in Nat
      /\ registry \in Toolsets /\ clock \in Nat /\ h \in [Runs -> History]
      /\ restarts \in 0..MaxRestarts /\ edits \in 0..MaxEdits
  BY DEF TypeOK
<1>2. \A r \in Runs : run[r] \in Run /\ h[r] \in History
  BY <1>1
<1>3. \A r \in Runs : Announced(run[r]) \in SUBSET Names
  BY AnnouncedTypes
<1>4. ASSUME NEW r \in Runs,
             Propose(r) \/ Answer(r)
      PROVE  TypeOK'
  <2>1. PICK node \in {"act", "done"}, call \in Call \union {NoCall} :
          Reason(r, node, call) /\ (node = "act" => call \in Call)
    BY <1>4 DEF Propose, Answer
  <2>2. [Refreshed(run[r]) EXCEPT !.node = node, !.call = call] \in Run
    <3>1. Refreshed(run[r]) \in Run
      BY RefreshedFacts
    <3> QED BY <2>1, <3>1, RoutedFacts
  <2>3. run' \in [Runs -> Run]
    BY <1>1, <2>1, <2>2 DEF Reason
  <2>4. h' \in [Runs -> History]
    <3>1. /\ Asked(h[r], Announced(run[r])) \in History
          /\ Told(h[r], Announced(run[r])) \in History
      BY <1>2, <1>3, AskedFacts, ToldFacts
    <3> QED BY <1>1, <1>4, <3>1 DEF Propose, Answer
  <2> QED BY <1>1, <2>1, <2>3, <2>4 DEF TypeOK, Reason
<1>5. ASSUME NEW r \in Runs, Observe(r) PROVE TypeOK'
  <2>1. [run[r] EXCEPT !.node = "reason", !.result = Refusal] \in Run
    BY <1>2 DEF Run, Saved, Refusal
  <2>2. run' = [run EXCEPT ![r] = [run[r] EXCEPT !.node = "reason", !.result = Refusal]]
    BY <1>1, <1>2, <1>5 DEF Observe, Run, Saved
  <2>3. run' \in [Runs -> Run]
    BY <1>1, <2>1, <2>2
  <2> QED BY <1>1, <1>5, <2>3 DEF TypeOK, Observe
<1>6. ASSUME NEW r \in Runs, ActRefused(r) PROVE TypeOK'
  <2>1. Refreshed(run[r]) \in Run /\ Refreshed(run[r]).seq \in Nat
    BY RefreshedFacts DEF Run, Saved
  <2>2. Served(Refreshed(run[r]), Refreshed(run[r]).seq) \in Run
    BY <2>1, ServedFacts
  <2>3. run' \in [Runs -> Run]
    BY <1>1, <1>6, <2>2 DEF ActRefused
  <2>4. h' \in [Runs -> History]
    BY <1>1, <1>2, <1>3, <1>6, ToldFacts DEF ActRefused
  <2> QED BY <1>1, <1>6, <2>3, <2>4 DEF TypeOK, ActRefused
<1>7. ASSUME NEW r \in Runs, ActIssue(r) PROVE TypeOK'
  <2> DEFINE v == Refreshed(run[r])
             c == run[r].call
             seq == IF c.name \in Tools THEN v.seq + 1 ELSE v.seq
             key == KeyOf(v, c)
  <2>1. v \in Run /\ v.allow \in SUBSET Names /\ seq \in Nat
    BY RefreshedFacts DEF Run, Saved
  <2>2. c \in Call
    BY <1>2, <1>7 DEF ActIssue, Idle, Run, Saved
  <2>3. key \in Key
    BY <2>1, <2>2, KeyFacts
  <2>4. Served(v, seq) \in Run
    BY <2>1, ServedFacts
  <2>5. Recorded(r, key) \in SUBSET Nat
    BY <1>1 DEF Recorded
  <2>6. tick' \in Tick
    <3>1. /\ tick' = [at |-> tick'.at, r |-> r, copy |-> Served(v, seq), key |-> key,
                      result |-> tick'.result]
          /\ tick'.at \in {"perform", "save"}
          /\ tick'.result \in {Refusal} \union Recorded(r, key)
      BY <1>7, IssueFacts
    <3>2. tick'.result \in Nat
      BY <2>5, <3>1 DEF Refusal
    <3> HIDE DEF key, seq, v
    <3> QED BY <2>3, <2>4, <3>1, <3>2 DEF Tick
  <2>7. h' \in [Runs -> History]
    BY <1>1, <1>2, <1>3, <1>7, ToldFacts DEF ActIssue
  <2>8. UNCHANGED <<run, ledger, registry, clock, restarts, edits>>
    BY <1>7 DEF ActIssue
  <2> QED BY <1>1, <2>6, <2>7, <2>8 DEF TypeOK
<1>8. ASSUME Effect PROVE tick \in Tick /\ tick.r \in Runs /\ tick.copy \in Run
                         /\ tick.key \in Key /\ tick.key.name \in Names
                         /\ tick.key.tools \in SUBSET Names /\ tick.result \in Nat
                         /\ clock + 1 \in Nat
  <2>1. tick \in Tick
    <3>1. tick.at \in {"perform", "record", "save"}
      BY <1>8 DEF Effect, Perform, Ask, Spawn, SpawnFails, Record, Save
    <3>2. NoTick.at = "none"
      BY DEF NoTick
    <3> QED BY <1>1, <3>1, <3>2
  <2>2. /\ tick.r \in Runs /\ tick.copy \in Run /\ tick.key \in Key /\ tick.result \in Nat
    BY <2>1 DEF Tick
  <2>3. tick.key.name \in Names /\ tick.key.tools \in SUBSET Names
    BY <2>2 DEF Key
  <2>4. clock + 1 \in Nat
    BY <1>1
  <2> QED BY <2>1, <2>2, <2>3, <2>4
<1>9. ASSUME Perform PROVE TypeOK'
  <2>1. tick' \in Tick
    <3>1. PICK result \in Nat : tick' = [tick EXCEPT !.at = "record", !.result = result]
      BY <1>8, <1>9 DEF Effect, Perform, Refusal
    <3> QED BY <1>8, <1>9, <3>1 DEF Effect, Tick
  <2>2. clock' \in Nat
    BY <1>1, <1>9 DEF Perform
  <2>3. h' \in [Runs -> History]
    <3>1. Did(h[tick.r], tick.key.name, clock + 1) \in History
      BY <1>2, <1>8, <1>9, DidFacts DEF Effect
    <3>2. \/ h' = h
          \/ h' = [h EXCEPT ![tick.r] = Did(h[tick.r], tick.key.name, clock + 1)]
      BY <1>1, <1>8, <1>9 DEF Perform, Effect
    <3> QED BY <1>1, <3>1, <3>2
  <2> QED BY <1>1, <1>9, <2>1, <2>2, <2>3 DEF TypeOK, Perform
<1>10. ASSUME Spawn PROVE TypeOK'
  <2>1. PICK child \in Runs : SpawnOf(child)
    BY <1>10, SpawnFacts
  <2>2. Started(tick.key.tools) \in Run
    BY <1>8, <1>10, StartedTypes DEF Effect
  <2>3. run' \in [Runs -> Run]
    BY <1>1, <2>1, <2>2 DEF SpawnOf
  <2>4. h' \in [Runs -> History]
    <3>1. Did(h[tick.r], tick.key.name, clock + 1) \in History
      BY <1>2, <1>8, <1>10, DidFacts DEF Effect
    <3>2. h[tick.r].reach \in SUBSET Names
      BY <1>2, <1>8, <1>10 DEF Effect, History
    <3>3. NewHistory(tick.key.tools, h[tick.r].reach) \in History
      BY <1>8, <1>10, <3>2, NewHistoryTypes DEF Effect
    <3> QED BY <1>1, <2>1, <3>1, <3>3 DEF SpawnOf
  <2>5. tick' \in Tick
    <3>1. Waiting(tick.copy, child) \in Run
      BY <1>8, <1>10, WaitingFacts DEF Effect
    <3>2. \/ tick' = [tick EXCEPT !.at = "save", !.copy = Waiting(tick.copy, child)]
          \/ tick' = [tick EXCEPT !.at = "record", !.result = clock + 1]
      BY <2>1 DEF SpawnOf
    <3> QED BY <1>8, <1>10, <3>1, <3>2 DEF Effect, Tick
  <2> QED BY <1>1, <1>10, <2>3, <2>4, <2>5 DEF TypeOK, Spawn
<1>11. ASSUME SpawnFails PROVE TypeOK'
  <2>1. tick' \in Tick
    BY <1>8, <1>11 DEF SpawnFails, Tick, Effect
  <2> QED BY <1>1, <1>11, <2>1 DEF TypeOK, SpawnFails
<1>12. ASSUME Record PROVE TypeOK'
  <2>1. tick' \in Tick
    BY <1>8, <1>12 DEF Record, Tick, Effect
  <2>2. \A e \in ledger' : e.run \in Runs /\ e.key \in Key /\ e.result \in Nat
    BY <1>1, <1>8, <1>12 DEF Record, Effect
  <2> QED BY <1>1, <1>12, <2>1, <2>2 DEF TypeOK, Record
<1>13. ASSUME Save PROVE TypeOK'
  <2>1. [tick.copy EXCEPT !.result = tick.result] \in Run
    BY <1>8, <1>13 DEF Run, Saved, Effect
  <2>2. run' \in [Runs -> Run]
    BY <1>1, <1>13, <2>1 DEF Save
  <2> QED BY <1>1, <1>13, <2>2 DEF TypeOK, Save
<1>14. ASSUME NEW r \in Runs, ChildReturns(r) PROVE TypeOK'
  <2>1. PICK v \in Run : run' = [run EXCEPT ![r] = v]
    BY <1>14, ReturnFacts
  <2>2. run' \in [Runs -> Run]
    BY <1>1, <2>1
  <2> QED BY <1>1, <1>14, <2>2 DEF TypeOK, ChildReturns
<1>15. ASSUME NEW tools \in Toolsets, Restart(tools) PROVE TypeOK'
  BY <1>1, <1>15, TreeAssumption DEF TypeOK, Restart
<1>16. ASSUME NEW r \in Runs, NEW allow \in Grants, HostGrant(r, allow) PROVE TypeOK'
  <2>1. allow \in SUBSET Names
    BY TreeAssumption
  <2>2. [run[r] EXCEPT !.allow = allow] \in Run
    BY <1>2, <2>1 DEF Run, Saved
  <2>3. run' = [run EXCEPT ![r] = [run[r] EXCEPT !.allow = allow]]
    BY <1>16 DEF HostGrant
  <2>4. run' \in [Runs -> Run]
    BY <1>1, <2>2, <2>3
  <2>5. h' \in [Runs -> History]
    BY <1>1, <1>2, <1>16, <2>1, RegrantedFacts DEF HostGrant
  <2>6. edits' \in 0..MaxEdits
    BY <1>1, <1>16, TreeAssumption DEF HostGrant
  <2> QED BY <1>1, <1>16, <2>4, <2>5, <2>6 DEF TypeOK, HostGrant
<1>17. CASE UNCHANGED vars
  BY <1>17 DEF TypeOK, vars
<1>18. ASSUME Ask PROVE TypeOK'
  <2>1. tick' \in Tick /\ UNCHANGED <<run, ledger, registry, restarts, edits>>
    <3>1. /\ tick' = [tick EXCEPT !.at = "save", !.copy = [tick.copy EXCEPT !.node = "user"]]
          /\ UNCHANGED <<run, ledger, registry, restarts, edits>>
      BY <1>18, AskFacts
    <3>2. [tick.copy EXCEPT !.node = "user"] \in Run
      BY <1>8, <1>18 DEF Effect, Run, Saved
    <3> QED BY <1>8, <1>18, <3>1, <3>2 DEF Effect, Tick
  <2>2. clock' = clock + 1 /\ h' = [h EXCEPT ![tick.r] = Did(h[tick.r], AskUser, clock + 1)]
    BY <1>18, AskFacts
  <2>3. Did(h[tick.r], AskUser, clock + 1) \in History
    <3>1. h[tick.r] \in History /\ AskUser \in Names /\ clock + 1 \in Nat
      BY <1>2, <1>8, <1>18 DEF Effect, Names, Builtin
    <3> QED BY <3>1, DidFacts
  <2>4. h' \in [Runs -> History]
    BY <1>1, <2>2, <2>3
  <2> QED BY <1>1, <2>1, <2>2, <2>4 DEF TypeOK
<1>19. ASSUME NEW r \in Runs, Respond(r) PROVE TypeOK'
  <2>1. [run[r] EXCEPT !.node = "reason"] \in Run
    BY <1>2 DEF Run, Saved
  <2>2. run' = [run EXCEPT ![r] = [run[r] EXCEPT !.node = "reason"]]
    BY <1>1, <1>19 DEF Respond
  <2>3. run' \in [Runs -> Run]
    BY <1>1, <2>1, <2>2
  <2> QED BY <1>1, <1>19, <2>3 DEF TypeOK, Respond
<1> QED
  BY <1>4, <1>5, <1>6, <1>7, <1>9, <1>10, <1>11, <1>12, <1>13, <1>14, <1>15, <1>16, <1>17,
     <1>18, <1>19
  DEF Next, Step, Effect, Finished

-----------------------------------------------------------------------------
(* What the steps do to the invariant *)

\* What a step of one run, or of its host, does while no tick is in flight: it
\* leaves the other runs and the ledger alone, keeps what was granted kept, and
\* leaves a pending batch as it was or begins one.
QuietShape(r) ==
  /\ tick = NoTick /\ tick' = NoTick /\ ledger' = ledger /\ clock <= clock'
  /\ \A q \in Runs \ {r} : run'[q] = run[q] /\ h'[q] = h[q]
  /\ run'[r].seq = run[r].seq
  /\ run[r].node # "unborn" /\ run'[r].node # "unborn"
  /\ Keeps(run[r], h[r]) => Keeps(run'[r], h'[r])
  /\ h'[r].ran = h[r].ran /\ h[r].reach \subseteq h'[r].reach
  /\ \/ ~Pending(r) /\ (run'[r].node # "act" \/ h'[r].fresh = {})
     \/ /\ run'[r].node = run[r].node /\ run'[r].call = run[r].call
        /\ h'[r].fresh = h[r].fresh

\* The steps that begin no tick and touch no record.
Quiet(r) ==
  \/ Propose(r) \/ Answer(r) \/ Observe(r) \/ ActRefused(r) \/ ChildReturns(r)
  \/ Respond(r)
  \/ \E allow \in Grants : HostGrant(r, allow)

\* What such a step changes: its own run, within what it keeps.
LEMMA QuietFacts ==
  ASSUME TypeOK, NEW r \in Runs, Quiet(r)
  PROVE  QuietShape(r)
<1>1. /\ run \in [Runs -> Run] /\ h \in [Runs -> History]
      /\ run[r] \in Run /\ h[r] \in History /\ clock \in Nat
  BY DEF TypeOK
<1> DEFINE v == Refreshed(run[r])
           d == Announced(run[r])
<1>2. /\ v \in Run /\ v.seq = run[r].seq /\ v.node = run[r].node /\ v.call = run[r].call
      /\ v.seq \in Nat
  BY RefreshedFacts DEF Run, Saved
<1>3. d \in SUBSET Names
  BY AnnouncedTypes
<1>4. Keeps(run[r], h[r]) => Keeps(v, Told(h[r], d))
  BY RefreshedKeeps
<1>5. /\ Told(h[r], d).ran = h[r].ran /\ Told(h[r], d).reach = h[r].reach
      /\ Told(h[r], d).fresh = h[r].fresh /\ Told(h[r], d).granted = h[r].granted
      /\ Told(h[r], d).told = h[r].told \union d
  BY <1>1, <1>3, ToldFacts
<1>6. CASE Propose(r) \/ Answer(r)
  <2>1. PICK node \in {"act", "done"}, call \in Call \union {NoCall} :
          /\ Reason(r, node, call) /\ (node = "act" => call \in Call)
          /\ \/ node = "act" /\ h' = [h EXCEPT ![r] = Asked(h[r], d)]
             \/ node = "done" /\ h' = [h EXCEPT ![r] = Told(h[r], d)]
    <3>1. CASE Propose(r)
      <4>1. PICK c \in Call : Reason(r, "act", c) /\ h' = [h EXCEPT ![r] = Asked(@, d)]
        BY <3>1 DEF Propose
      <4> QED BY <1>1, <4>1
    <3>2. CASE Answer(r)
      BY <1>1, <3>2 DEF Answer
    <3> QED BY <1>6, <3>1, <3>2
  <2> DEFINE w == [v EXCEPT !.node = node, !.call = call]
  <2>2. /\ w \in Run /\ w.node = node /\ w.seq = v.seq
        /\ w.allow = v.allow /\ w.note = v.note
    <3>1. v \in Run /\ (node = "act" => call \in Call)
      BY <1>2, <2>1
    <3> HIDE DEF v
    <3> QED BY <3>1 DEF Run, Saved
  <2>3. /\ run' = [run EXCEPT ![r] = w] /\ tick = NoTick /\ run[r].node = "reason"
        /\ UNCHANGED <<tick, ledger, clock>>
    BY <2>1 DEF Reason, Idle
  <2>4. /\ Asked(h[r], d).ran = h[r].ran /\ Asked(h[r], d).reach = h[r].reach
        /\ Asked(h[r], d).fresh = {} /\ Asked(h[r], d).granted = h[r].granted
        /\ Asked(h[r], d).told = h[r].told \union d
    BY <1>1, <1>3, AskedFacts
  <2> HIDE DEF w, v, d
  <2>5. /\ run'[r] = w /\ h'[r] \in {Asked(h[r], d), Told(h[r], d)}
        /\ node = "act" => h'[r] = Asked(h[r], d)
        /\ \A q \in Runs \ {r} : run'[q] = run[q] /\ h'[q] = h[q]
    BY <1>1, <2>1, <2>3
  <2>6. Keeps(run[r], h[r]) => Keeps(w, h'[r])
    BY <1>4, <1>5, <2>2, <2>4, <2>5, KeepsTransfer
  <2>7. h'[r].ran = h[r].ran /\ h'[r].reach = h[r].reach
    BY <1>5, <2>4, <2>5
  <2>8. w.node # "act" \/ h'[r].fresh = {}
    BY <2>2, <2>4, <2>5
  <2> QED BY <1>1, <1>2, <2>1, <2>2, <2>3, <2>5, <2>6, <2>7, <2>8 DEF QuietShape, Pending
<1>7. CASE Observe(r)
  <2> DEFINE w == [run[r] EXCEPT !.node = "reason", !.result = Refusal]
  <2>1. run' = [run EXCEPT ![r] = w]
    BY <1>1, <1>7 DEF Observe, Run, Saved
  <2>2. /\ w.node = "reason" /\ w.seq = run[r].seq
        /\ w.allow = run[r].allow /\ w.note = run[r].note
    BY <1>1 DEF Run, Saved
  <2>3. /\ h' = h /\ tick = NoTick /\ run[r].node = "observe"
        /\ UNCHANGED <<tick, ledger, clock>>
    BY <1>7 DEF Observe, Idle
  <2> HIDE DEF w
  <2>4. run'[r] = w /\ \A q \in Runs \ {r} : run'[q] = run[q]
    BY <1>1, <2>1
  <2>5. Keeps(run[r], h[r]) => Keeps(w, h[r])
    BY <2>2, KeepsTransfer
  <2> QED BY <1>1, <2>2, <2>3, <2>4, <2>5 DEF QuietShape, Pending
<1>8. CASE ActRefused(r)
  <2> DEFINE w == Served(v, v.seq)
  <2>1. /\ w.node = "observe" /\ w.seq = v.seq /\ w.allow = v.allow /\ w.note = v.note
    BY <1>2, ServedFacts
  <2>2. /\ run' = [run EXCEPT ![r] = w] /\ h' = [h EXCEPT ![r] = Told(h[r], d)]
        /\ tick = NoTick /\ run[r].node = "act" /\ Refused(run[r].call, v.allow)
        /\ UNCHANGED <<tick, ledger, clock>>
    BY <1>8 DEF ActRefused, Idle
  <2>3. ~Pending(r)
    BY <2>2, TreeAssumption DEF Refused, Pending
  <2> HIDE DEF w, v, d
  <2>4. /\ run'[r] = w /\ h'[r] = Told(h[r], d)
        /\ \A q \in Runs \ {r} : run'[q] = run[q] /\ h'[q] = h[q]
    BY <1>1, <2>2
  <2>5. Keeps(run[r], h[r]) => Keeps(w, h'[r])
    BY <1>4, <2>1, <2>4, KeepsTransfer
  <2> QED BY <1>1, <1>2, <1>5, <2>1, <2>2, <2>3, <2>4, <2>5 DEF QuietShape
<1>9. CASE ChildReturns(r)
  <2> DEFINE w == Returned(run[r])
  <2>1. /\ run' = [run EXCEPT ![r] = w] /\ w.node = "observe" /\ w.seq = run[r].seq
        /\ w.allow = run[r].allow /\ w.note = run[r].note
    BY <1>9, ReturnFacts
  <2>2. /\ h' = h /\ tick = NoTick /\ run[r].node = "child" /\ clock' = clock + 1
        /\ UNCHANGED <<tick, ledger>>
    BY <1>9 DEF ChildReturns, Idle
  <2> HIDE DEF w
  <2>3. run'[r] = w /\ \A q \in Runs \ {r} : run'[q] = run[q]
    BY <1>1, <2>1
  <2>4. Keeps(run[r], h[r]) => Keeps(w, h[r])
    BY <2>1, KeepsTransfer
  <2> QED BY <1>1, <2>1, <2>2, <2>3, <2>4 DEF QuietShape, Pending
<1>10. CASE \E allow \in Grants : HostGrant(r, allow)
  <2>1. PICK allow \in Grants : HostGrant(r, allow)
    BY <1>10
  <2> DEFINE w == [run[r] EXCEPT !.allow = allow]
             x == Regranted(h[r], allow)
  <2>2. allow \in SUBSET Names
    BY TreeAssumption
  <2>3. /\ run' = [run EXCEPT ![r] = w] /\ h' = [h EXCEPT ![r] = x]
        /\ tick = NoTick /\ run[r].node # "unborn" /\ UNCHANGED <<tick, ledger, clock>>
    BY <2>1 DEF HostGrant
  <2>4. /\ w.node = run[r].node /\ w.call = run[r].call /\ w.seq = run[r].seq
        /\ w.allow = allow /\ w.note = run[r].note
    BY <1>1 DEF Run, Saved
  <2>5. /\ x.granted = allow /\ x.reach = h[r].reach \union allow /\ x.told = h[r].told
        /\ x.ran = h[r].ran /\ x.fresh = h[r].fresh
    BY <1>1, <2>2, RegrantedFacts
  <2> HIDE DEF w, x
  <2>6. /\ run'[r] = w /\ h'[r] = x
        /\ \A q \in Runs \ {r} : run'[q] = run[q] /\ h'[q] = h[q]
    BY <1>1, <2>3
  <2>7. Requested(w.allow) = allow
    BY <2>2, <2>4, TreeAssumption DEF Requested
  <2>8. Keeps(run[r], h[r]) => Keeps(w, x)
    BY <2>4, <2>5, <2>7 DEF Keeps
  <2> QED BY <1>1, <2>3, <2>4, <2>5, <2>6, <2>8 DEF QuietShape
<1>11. CASE Respond(r)
  <2> DEFINE w == [run[r] EXCEPT !.node = "reason"]
  <2>1. run' = [run EXCEPT ![r] = w]
    BY <1>1, <1>11 DEF Respond
  <2>2. /\ w.node = "reason" /\ w.seq = run[r].seq
        /\ w.allow = run[r].allow /\ w.note = run[r].note
    BY <1>1 DEF Run, Saved
  <2>3. /\ h' = h /\ tick = NoTick /\ run[r].node = "user"
        /\ UNCHANGED <<tick, ledger, clock>>
    BY <1>11 DEF Respond, Idle
  <2> HIDE DEF w
  <2>4. run'[r] = w /\ \A q \in Runs \ {r} : run'[q] = run[q]
    BY <1>1, <2>1
  <2>5. Keeps(run[r], h[r]) => Keeps(w, h[r])
    BY <2>2, KeepsTransfer
  <2> QED BY <1>1, <2>2, <2>3, <2>4, <2>5 DEF QuietShape, Pending
<1> QED BY <1>6, <1>7, <1>8, <1>9, <1>10, <1>11 DEF Quiet

\* The steps, quiet ones first.
LEMMA StepCases ==
  ASSUME [Next]_vars
  PROVE  \/ \E r \in Runs : Quiet(r)
         \/ \E r \in Runs : ActIssue(r)
         \/ Perform \/ Ask \/ Spawn \/ SpawnFails \/ Record \/ Save
         \/ \E tools \in Toolsets : Restart(tools)
         \/ UNCHANGED vars
BY DEF Next, Step, Effect, Finished, Quiet

\* A tick is begun: the call is served on a copy that keeps what was granted, and
\* what it hands out is within that.
LEMMA IssueShape ==
  ASSUME IInv, NEW r \in Runs, ActIssue(r)
  PROVE  LET name == run[r].call.name
         IN  /\ tick = NoTick /\ UNCHANGED <<run, ledger, clock>> /\ run[r].node = "act"
             /\ \A q \in Runs \ {r} : h'[q] = h[q]
             /\ h'[r].ran = h[r].ran /\ h'[r].reach = h[r].reach /\ h'[r].fresh = h[r].fresh
             /\ Keeps(run[r], h'[r]) /\ Keeps(tick'.copy, h'[r])
             /\ tick'.r = r /\ tick'.key \in Key /\ tick'.key.name = name
             /\ tick'.copy.node = "observe" /\ tick'.copy.allow \in SUBSET Names
             /\ tick'.copy.seq = IF name \in Tools THEN run[r].seq + 1 ELSE run[r].seq
             /\ tick'.key.tools \subseteq tick'.copy.allow
             /\ name \in Builtin => name \in tick'.copy.allow
             /\ name \in Tools => /\ tick'.key.seq = run[r].seq + 1
                                  /\ tick'.key.tools = tick'.copy.allow
             /\ \/ /\ tick'.at = "perform" /\ tick'.result = Refusal
                   /\ Recorded(r, tick'.key) = {}
                \/ tick'.at = "save" /\ tick'.result \in Recorded(r, tick'.key)
<1> DEFINE v == Refreshed(run[r])
           d == Announced(run[r])
           c == run[r].call
           seq == IF c.name \in Tools THEN v.seq + 1 ELSE v.seq
           key == KeyOf(v, c)
           copy == Served(v, seq)
           x == Told(h[r], d)
<1>1. /\ TypeOK /\ run[r] \in Run /\ h[r] \in History /\ DOMAIN h = Runs
  BY DEF IInv, TypeOK
<1>2. /\ tick = NoTick /\ UNCHANGED <<run, ledger, clock>> /\ run[r].node = "act"
      /\ h' = [h EXCEPT ![r] = x] /\ ~Refused(c, v.allow)
  BY DEF ActIssue, Idle
<1>3. c \in Call
  BY <1>1, <1>2 DEF Run
<1>4. v \in Run /\ v.allow \in SUBSET Names /\ v.seq = run[r].seq /\ seq \in Nat
  BY <1>1, RefreshedFacts DEF Run, Saved
<1>5. /\ copy.node = "observe" /\ copy.allow = v.allow /\ copy.note = v.note
      /\ copy.seq = seq
  BY <1>4, ServedFacts
<1>6. /\ key \in Key /\ key.name = c.name /\ key.tools \subseteq v.allow
      /\ c.name \in Tools => key.seq = v.seq + 1 /\ key.tools = v.allow
  BY <1>1, <1>3, <1>4, KeyFacts
<1>7. /\ tick'.r = r /\ tick'.copy = copy /\ tick'.key = key
      /\ \/ tick'.at = "perform" /\ tick'.result = Refusal /\ Recorded(r, key) = {}
         \/ tick'.at = "save" /\ tick'.result \in Recorded(r, key)
  BY <1>1, IssueFacts
<1>8. /\ x.ran = h[r].ran /\ x.reach = h[r].reach /\ x.fresh = h[r].fresh
      /\ x.granted = h[r].granted /\ h[r].told \subseteq x.told
  <2>1. d \in SUBSET Names
    BY <1>1, AnnouncedTypes
  <2> QED BY <1>1, <2>1, ToldFacts
<1>9. Keeps(run[r], h[r])
  BY <1>2 DEF IInv, GrantInv, Born
<1>10. Keeps(v, x)
  BY <1>1, <1>9, RefreshedKeeps
<1>11. c.name \in Builtin => c.name \in v.allow
  BY <1>2 DEF Refused
<1> HIDE DEF v, d, seq, key, copy, x
<1>12. h'[r] = x /\ \A q \in Runs \ {r} : h'[q] = h[q]
  BY <1>1, <1>2
<1>13. Keeps(run[r], x) /\ Keeps(copy, x)
  BY <1>5, <1>8, <1>9, <1>10, KeepsTransfer
<1>14. seq = IF c.name \in Tools THEN run[r].seq + 1 ELSE run[r].seq
  BY <1>4 DEF seq
<1> QED BY <1>2, <1>4, <1>5, <1>6, <1>7, <1>8, <1>11, <1>12, <1>13, <1>14

\* An effect is performed, or refused by the executor.
LEMMA PerformShape ==
  ASSUME TypeOK, Perform
  PROVE  LET r == tick.r
             name == tick.key.name
         IN  /\ tick.at = "perform" /\ UNCHANGED <<run, ledger>> /\ name \notin Spawning
             /\ tick'.at = "record" /\ tick'.r = r
             /\ tick'.copy = tick.copy /\ tick'.key = tick.key
             /\ \A q \in Runs \ {r} : h'[q] = h[q]
             /\ \/ /\ tick'.result = clock + 1 /\ clock' = clock + 1
                   /\ name \in Tools => name \in tick.key.tools
                   /\ h'[r] = Did(h[r], name, clock + 1)
                \/ /\ tick'.result = Refusal /\ clock' = clock /\ h' = h
                   /\ name \in Tools /\ name \notin tick.key.tools
<1>1. tick.at = "perform"
  BY DEF Perform
<1>2. tick \in Tick /\ tick.r \in Runs /\ DOMAIN h = Runs
  BY <1>1, TypeFacts DEF InFlight
<1>3. /\ UNCHANGED <<run, ledger>> /\ tick.key.name \notin Spawning
      /\ \/ /\ tick' = [tick EXCEPT !.at = "record", !.result = clock + 1]
            /\ clock' = clock + 1
            /\ tick.key.name \in Tools => tick.key.name \in tick.key.tools
            /\ h' = [h EXCEPT ![tick.r] = Did(h[tick.r], tick.key.name, clock + 1)]
         \/ /\ tick' = [tick EXCEPT !.at = "record", !.result = Refusal]
            /\ clock' = clock /\ h' = h
            /\ tick.key.name \in Tools /\ tick.key.name \notin tick.key.tools
  BY DEF Perform
<1>4. /\ tick'.at = "record" /\ tick'.r = tick.r
      /\ tick'.copy = tick.copy /\ tick'.key = tick.key
  BY <1>2, <1>3 DEF Tick
<1>5. CASE clock' = clock + 1
  BY <1>1, <1>2, <1>3, <1>4, <1>5 DEF Tick
<1>6. CASE h' = h
  BY <1>1, <1>2, <1>3, <1>4, <1>6 DEF Tick
<1> QED BY <1>3, <1>5, <1>6

\* The user is asked: the copy waits, and that is all there is to save.
LEMMA AskShape ==
  ASSUME TypeOK, Ask
  PROVE  LET r == tick.r
         IN  /\ tick.at = "perform" /\ tick.key.name = AskUser /\ AskUser \notin Tools
             /\ UNCHANGED <<run, ledger>> /\ clock' = clock + 1
             /\ tick'.at = "save" /\ tick'.r = r /\ tick'.key = tick.key
             /\ tick'.result = tick.result /\ tick'.copy.node = "user"
             /\ tick'.copy.allow = tick.copy.allow /\ tick'.copy.note = tick.copy.note
             /\ tick'.copy.seq = tick.copy.seq
             /\ \A q \in Runs \ {r} : h'[q] = h[q]
             /\ h'[r] = Did(h[r], AskUser, clock + 1)
<1> DEFINE w == [tick.copy EXCEPT !.node = "user"]
<1>1. /\ tick.at = "perform" /\ tick.key.name = AskUser /\ clock' = clock + 1
      /\ tick' = [tick EXCEPT !.at = "save", !.copy = w]
      /\ h' = [h EXCEPT ![tick.r] = Did(h[tick.r], AskUser, clock + 1)]
      /\ UNCHANGED <<run, ledger>>
  BY AskFacts
<1>2. tick \in Tick /\ tick.r \in Runs /\ DOMAIN h = Runs /\ tick.copy \in Run
  BY <1>1, TypeFacts DEF InFlight
<1>3. /\ w.node = "user" /\ w.seq = tick.copy.seq
      /\ w.allow = tick.copy.allow /\ w.note = tick.copy.note
  BY <1>2 DEF Run, Saved
<1>4. AskUser \notin Tools
  BY TreeAssumption DEF Builtin
<1> HIDE DEF w
<1>5. /\ tick'.at = "save" /\ tick'.r = tick.r /\ tick'.key = tick.key
      /\ tick'.result = tick.result /\ tick'.copy = w
  BY <1>1, <1>2 DEF Tick
<1>6. /\ \A q \in Runs \ {tick.r} : h'[q] = h[q]
      /\ h'[tick.r] = Did(h[tick.r], AskUser, clock + 1)
  BY <1>1, <1>2
<1> QED BY <1>1, <1>3, <1>4, <1>5, <1>6

\* A run is started beside the one whose tick it is.
LEMMA SpawnShape ==
  ASSUME IInv, Spawn
  PROVE  LET r == tick.r
             name == tick.key.name
         IN  /\ tick.at = "perform" /\ name \in Spawning /\ name \notin Tools
             /\ ledger' = ledger /\ clock' = clock + 1
             /\ tick'.r = r /\ tick'.key = tick.key
             /\ tick'.copy.allow = tick.copy.allow /\ tick'.copy.note = tick.copy.note
             /\ tick'.copy.seq = tick.copy.seq
             /\ tick'.copy.node \in {"observe", "child", "user"}
             /\ tick'.at \in {"record", "save"} /\ tick'.result \in {tick.result, clock + 1}
             /\ h'[r] = Did(h[r], name, clock + 1)
             /\ \E child \in Runs \ {r} :
                  /\ run[child].node = "unborn"
                  /\ run'[child] = Started(tick.key.tools)
                  /\ h'[child] = NewHistory(tick.key.tools, h[r].reach)
                  /\ \A q \in Runs \ {child} : run'[q] = run[q]
                  /\ \A q \in Runs \ {child, r} : h'[q] = h[q]
<1>1. /\ TypeOK /\ tick.at = "perform" /\ tick.key.name \in Spawning
      /\ ledger' = ledger /\ clock' = clock + 1
  BY DEF IInv, Spawn
<1>2. /\ tick \in Tick /\ tick.r \in Runs /\ DOMAIN h = Runs /\ DOMAIN run = Runs
      /\ tick.copy \in Run
  BY <1>1, TypeFacts DEF InFlight
<1>3. tick.key.name \notin Tools
  BY <1>1, TreeAssumption DEF Builtin
<1>4. PICK child \in Runs : SpawnOf(child)
  BY <1>1, SpawnFacts
<1>5. /\ run[tick.r].node = "act" /\ run[child].node = "unborn"
      /\ tick.copy.node \in {"observe", "child", "user"}
  BY <1>1, <1>4 DEF IInv, TickInv, InFlight, SpawnOf
<1>6. child # tick.r
  BY <1>5
<1>7. /\ run'[child] = Started(tick.key.tools)
      /\ \A q \in Runs \ {child} : run'[q] = run[q]
  BY <1>2, <1>4 DEF SpawnOf
<1>8. /\ h'[tick.r] = Did(h[tick.r], tick.key.name, clock + 1)
      /\ h'[child] = NewHistory(tick.key.tools, h[tick.r].reach)
      /\ \A q \in Runs \ {child, tick.r} : h'[q] = h[q]
  <2>1. h' = [h EXCEPT ![tick.r] = Did(h[tick.r], tick.key.name, clock + 1),
                       ![child] = NewHistory(tick.key.tools, h[tick.r].reach)]
    BY <1>4 DEF SpawnOf
  <2> QED BY <1>2, <1>6, <2>1
<1>9. /\ Waiting(tick.copy, child).node = "child"
      /\ Waiting(tick.copy, child).allow = tick.copy.allow
      /\ Waiting(tick.copy, child).note = tick.copy.note
      /\ Waiting(tick.copy, child).seq = tick.copy.seq
  BY <1>2, WaitingFacts
<1>10. \/ tick' = [tick EXCEPT !.at = "save", !.copy = Waiting(tick.copy, child)]
       \/ tick' = [tick EXCEPT !.at = "record", !.result = clock + 1]
  BY <1>4 DEF SpawnOf
<1>11. /\ tick'.r = tick.r /\ tick'.key = tick.key
       /\ tick'.at \in {"record", "save"} /\ tick'.result \in {tick.result, clock + 1}
       /\ tick'.copy \in {tick.copy, Waiting(tick.copy, child)}
  BY <1>2, <1>10 DEF Tick
<1> QED BY <1>1, <1>3, <1>5, <1>6, <1>7, <1>8, <1>9, <1>11

\* The three steps that touch the tick alone, or what it leaves behind.
LEMMA TickShape ==
  ASSUME TypeOK, SpawnFails \/ Record
  PROVE  /\ UNCHANGED <<run, clock, h>> /\ tick'.at = "save"
         /\ tick'.r = tick.r /\ tick'.key = tick.key /\ tick'.copy = tick.copy
         /\ tick'.result = tick.result
         /\ tick.at \in {"perform", "record"}
         /\ tick.at = "perform" => tick.key.name \in Spawning
         /\ \/ tick.at = "perform" /\ ledger' = ledger
            \/ /\ tick.at = "record"
               /\ ledger' = ledger \union
                    {[run |-> tick.r, key |-> tick.key, result |-> tick.result]}
<1>1. tick.at \in {"perform", "record"} /\ tick' = [tick EXCEPT !.at = "save"]
  BY DEF SpawnFails, Record
<1>2. tick \in Tick
  BY <1>1, TypeFacts DEF InFlight
<1>3. /\ tick'.at = "save" /\ tick'.r = tick.r /\ tick'.key = tick.key
      /\ tick'.copy = tick.copy /\ tick'.result = tick.result
  BY <1>1, <1>2 DEF Tick
<1> QED BY <1>3 DEF SpawnFails, Record

\* Save stores the copy of the tick over its run.
LEMMA SaveShape ==
  ASSUME TypeOK, Save
  PROVE  LET r == tick.r
         IN  /\ tick.at = "save" /\ tick' = NoTick /\ UNCHANGED <<ledger, clock, h>>
             /\ \A q \in Runs \ {r} : run'[q] = run[q]
             /\ run'[r].node = tick.copy.node /\ run'[r].seq = tick.copy.seq
             /\ run'[r].allow = tick.copy.allow /\ run'[r].note = tick.copy.note
             /\ run'[r].result = tick.result
<1>1. tick.at = "save" /\ tick' = NoTick /\ UNCHANGED <<ledger, clock, h>>
  BY DEF Save
<1>2. tick.r \in Runs /\ tick.copy \in Run /\ DOMAIN run = Runs
  BY <1>1, TypeFacts DEF InFlight
<1> DEFINE w == [tick.copy EXCEPT !.result = tick.result]
<1>3. run' = [run EXCEPT ![tick.r] = w]
  BY DEF Save
<1>4. /\ w.node = tick.copy.node /\ w.seq = tick.copy.seq /\ w.allow = tick.copy.allow
      /\ w.note = tick.copy.note /\ w.result = tick.result
  BY <1>2 DEF Run, Saved
<1> HIDE DEF w
<1> QED BY <1>1, <1>2, <1>3, <1>4

\* Grants stay within what hosts gave, and losses stay told.
LEMMA GrantStep ==
  ASSUME IInv, [Next]_vars
  PROVE  GrantInv'
<1>1. /\ TypeOK /\ \A q \in Runs : run[q] \in Run /\ h[q] \in History
      /\ \A q \in Runs : run[q].node # "unborn" => Keeps(run[q], h[q])
      /\ \A q \in Runs : h[q].ran \subseteq h[q].reach
      /\ clock + 1 \in Nat
  BY DEF IInv, GrantInv, TypeOK, Born
<1>2. InFlight => /\ tick.r \in Runs /\ tick.copy \in Run /\ tick.key \in Key
                  /\ tick.key.name \in Names /\ tick.key.tools \in SUBSET Names
                  /\ run[tick.r].node = "act"
                  /\ Keeps(tick.copy, h[tick.r])
                  /\ tick.copy.allow \in SUBSET Names
                  /\ tick.key.tools \subseteq tick.copy.allow
                  /\ tick.key.name \in Builtin => tick.key.name \in tick.copy.allow
  BY <1>1, TypeFacts DEF IInv, GrantInv, TickInv, Key
<1>3. ASSUME NEW r \in Runs, Quiet(r) PROVE GrantInv'
  <2>1. QuietShape(r)
    BY <1>1, <1>3, QuietFacts
  <2>2. ~InFlight'
    BY <2>1 DEF QuietShape, InFlight, NoTick
  <2>3. \A q \in Runs : run'[q].node # "unborn" => Keeps(run'[q], h'[q])
    BY <1>1, <2>1 DEF QuietShape
  <2>4. \A q \in Runs : h'[q].ran \subseteq h'[q].reach
    BY <1>1, <2>1 DEF QuietShape
  <2> QED BY <2>2, <2>3, <2>4 DEF GrantInv, Born
<1>4. ASSUME NEW r \in Runs, ActIssue(r) PROVE GrantInv'
  <2>1. /\ run' = run /\ tick'.r = r /\ \A q \in Runs \ {r} : h'[q] = h[q]
        /\ h'[r].ran = h[r].ran /\ h'[r].reach = h[r].reach
        /\ Keeps(run[r], h'[r]) /\ Keeps(tick'.copy, h'[r])
        /\ tick'.copy.allow \in SUBSET Names /\ tick'.key.tools \subseteq tick'.copy.allow
        /\ tick'.key.name \in Builtin => tick'.key.name \in tick'.copy.allow
    BY <1>4, IssueShape
  <2> QED BY <1>1, <2>1 DEF GrantInv, Born
<1>5. ASSUME Perform PROVE GrantInv'
  <2> DEFINE r == tick.r
             name == tick.key.name
             x == Did(h[r], name, clock + 1)
  <2>1. /\ tick.at = "perform" /\ run' = run /\ name \notin Spawning
        /\ tick'.r = r /\ tick'.copy = tick.copy /\ tick'.key = tick.key
        /\ \A q \in Runs \ {r} : h'[q] = h[q]
        /\ \/ h'[r] = x /\ (name \in Tools => name \in tick.key.tools)
           \/ h' = h
    BY <1>1, <1>5, PerformShape
  <2>2. InFlight
    BY <2>1 DEF InFlight
  <2>3. /\ x.ran = h[r].ran \union {name} /\ x.reach = h[r].reach
        /\ x.granted = h[r].granted /\ x.told = h[r].told
    BY <1>1, <1>2, <2>2, DidFacts
  <2>4. tick.copy.allow \subseteq h[r].reach
    <3>1. Requested(tick.copy.allow) = tick.copy.allow
      BY <1>2, <2>2, TreeAssumption DEF Requested
    <3> QED BY <1>2, <2>2, <3>1 DEF Keeps
  <2>5. (name \in Tools => name \in tick.key.tools) => name \in h[r].reach
    BY <1>2, <2>2, <2>4 DEF Names
  <2>6. /\ Keeps(run[r], h'[r]) /\ Keeps(tick.copy, h'[r])
        /\ h'[r].ran \subseteq h'[r].reach
    <3>1. CASE h'[r] = x /\ (name \in Tools => name \in tick.key.tools)
      <4>1. Keeps(run[r], x) /\ Keeps(tick.copy, x)
        BY <1>1, <1>2, <2>2, <2>3, KeepsTransfer
      <4>2. x.ran \subseteq x.reach
        BY <1>1, <1>2, <2>2, <2>3, <2>5, <3>1
      <4> QED BY <3>1, <4>1, <4>2
    <3>2. CASE h' = h
      BY <1>1, <1>2, <2>2, <3>2
    <3> QED BY <2>1, <3>1, <3>2
  <2> QED BY <1>1, <1>2, <2>1, <2>2, <2>6 DEF GrantInv, Born
<1>6. ASSUME Spawn PROVE GrantInv'
  <2> DEFINE r == tick.r
             name == tick.key.name
             tools == tick.key.tools
             x == Did(h[r], name, clock + 1)
             y == NewHistory(tools, h[r].reach)
  <2>1. /\ tick.at = "perform" /\ name \in Spawning /\ tick'.r = r /\ tick'.key = tick.key
        /\ tick'.copy.allow = tick.copy.allow /\ tick'.copy.note = tick.copy.note
        /\ h'[r] = x
        /\ \E child \in Runs \ {r} :
             /\ run'[child] = Started(tools) /\ h'[child] = y
             /\ \A q \in Runs \ {child} : run'[q] = run[q]
             /\ \A q \in Runs \ {child, r} : h'[q] = h[q]
    BY <1>6, SpawnShape
  <2>2. InFlight
    BY <2>1 DEF InFlight
  <2>3. /\ x.ran = h[r].ran \union {name} /\ x.reach = h[r].reach
        /\ x.granted = h[r].granted /\ x.told = h[r].told
    BY <1>1, <1>2, <2>2, DidFacts
  <2>4. tick.copy.allow \subseteq h[r].reach
    <3>1. Requested(tick.copy.allow) = tick.copy.allow
      BY <1>2, <2>2, TreeAssumption DEF Requested
    <3> QED BY <1>2, <2>2, <3>1 DEF Keeps
  <2>5. x.ran \subseteq x.reach
    BY <1>1, <1>2, <2>1, <2>2, <2>3, <2>4 DEF Builtin
  <2>6. Keeps(run[r], x) /\ Keeps(tick'.copy, x)
    BY <1>1, <1>2, <2>1, <2>2, <2>3, KeepsTransfer
  <2>7. Keeps(Started(tools), y) /\ y.ran \subseteq y.reach
    <3>1. /\ Started(tools).allow = tools /\ Started(tools).note.dropped = {}
          /\ y.reach = h[r].reach /\ y.granted = tools /\ y.told = {} /\ y.ran = {}
      BY DEF Started, NewHistory, NoNote
    <3>2. Requested(tools) = tools
      BY <1>2, <2>2, TreeAssumption DEF Requested
    <3>3. tools \subseteq h[r].reach
      BY <1>2, <2>2, <2>4
    <3> HIDE DEF y, tools
    <3> QED BY <3>1, <3>2, <3>3 DEF Keeps
  <2>8. PICK child \in Runs \ {r} :
          /\ run'[child] = Started(tools) /\ h'[child] = y
          /\ \A q \in Runs \ {child} : run'[q] = run[q]
          /\ \A q \in Runs \ {child, r} : h'[q] = h[q]
    BY <2>1
  <2> HIDE DEF x, y, tools, name
  <2>9. \A q \in Runs : run'[q].node # "unborn" => Keeps(run'[q], h'[q])
    BY <1>1, <2>1, <2>6, <2>7, <2>8
  <2>10. \A q \in Runs : h'[q].ran \subseteq h'[q].reach
    BY <1>1, <2>1, <2>5, <2>7, <2>8
  <2>11. InFlight' => /\ Keeps(tick'.copy, h'[tick'.r])
                      /\ tick'.copy.allow \in SUBSET Names
                      /\ tick'.key.tools \subseteq tick'.copy.allow
                      /\ tick'.key.name \in Builtin => tick'.key.name \in tick'.copy.allow
    BY <1>2, <2>1, <2>2, <2>6
  <2> QED BY <2>9, <2>10, <2>11 DEF GrantInv, Born
<1>7. ASSUME SpawnFails \/ Record PROVE GrantInv'
  <2>1. /\ UNCHANGED <<run, h>> /\ tick'.r = tick.r /\ tick'.key = tick.key
        /\ tick'.copy = tick.copy /\ tick.at \in {"perform", "record"}
    BY <1>1, <1>7, TickShape
  <2> QED BY <1>1, <1>2, <2>1 DEF GrantInv, Born, InFlight
<1>8. ASSUME Save PROVE GrantInv'
  <2>1. /\ tick.at = "save" /\ tick' = NoTick /\ h' = h
        /\ \A q \in Runs \ {tick.r} : run'[q] = run[q]
        /\ run'[tick.r].allow = tick.copy.allow /\ run'[tick.r].note = tick.copy.note
    BY <1>1, <1>8, SaveShape
  <2>2. Keeps(run'[tick.r], h[tick.r])
    BY <1>2, <2>1, KeepsTransfer DEF InFlight
  <2> QED BY <1>1, <2>1, <2>2 DEF GrantInv, Born, InFlight, NoTick
<1>9. ASSUME NEW tools \in Toolsets, Restart(tools) PROVE GrantInv'
  BY <1>1, <1>9 DEF Restart, GrantInv, Born, InFlight, NoTick
<1>10. CASE UNCHANGED vars
  BY <1>1, <1>2, <1>10 DEF vars, GrantInv, Born, InFlight
<1>11. ASSUME Ask PROVE GrantInv'
  <2> DEFINE r == tick.r
             x == Did(h[r], AskUser, clock + 1)
  <2>1. /\ tick.at = "perform" /\ tick.key.name = AskUser /\ run' = run
        /\ tick'.r = r /\ tick'.key = tick.key
        /\ tick'.copy.allow = tick.copy.allow /\ tick'.copy.note = tick.copy.note
        /\ \A q \in Runs \ {r} : h'[q] = h[q]
        /\ h'[r] = x
    BY <1>1, <1>11, AskShape
  <2>2. InFlight /\ AskUser \in Builtin /\ AskUser \in Names
    BY <2>1 DEF InFlight, Builtin, Names
  <2>3. /\ x.ran = h[r].ran \union {AskUser} /\ x.reach = h[r].reach
        /\ x.granted = h[r].granted /\ x.told = h[r].told
    <3>1. h[r] \in History /\ clock + 1 \in Nat
      BY <1>1, <1>2, <2>2
    <3> HIDE DEF r
    <3> QED BY <2>2, <3>1, DidFacts
  <2>4. AskUser \in h[r].reach
    <3>1. Requested(tick.copy.allow) = tick.copy.allow
      BY <1>2, <2>2, TreeAssumption DEF Requested
    <3> QED BY <1>2, <2>1, <2>2, <3>1 DEF Keeps
  <2> HIDE DEF x
  <2>5. /\ Keeps(run[r], x) /\ Keeps(tick'.copy, x)
        /\ x.ran \subseteq x.reach
    BY <1>1, <1>2, <2>1, <2>2, <2>3, <2>4, KeepsTransfer
  <2> HIDE DEF r
  <2>6. \A q \in Runs : run'[q].node # "unborn" => Keeps(run'[q], h'[q])
    BY <1>1, <2>1, <2>5
  <2>7. \A q \in Runs : h'[q].ran \subseteq h'[q].reach
    BY <1>1, <2>1, <2>5
  <2>8. /\ Keeps(tick'.copy, h'[tick'.r])
        /\ tick'.copy.allow \in SUBSET Names
        /\ tick'.key.tools \subseteq tick'.copy.allow
        /\ tick'.key.name \in Builtin => tick'.key.name \in tick'.copy.allow
    BY <1>2, <2>1, <2>2, <2>5
  <2> QED BY <2>6, <2>7, <2>8 DEF GrantInv, Born
<1> QED
  BY StepCases, <1>3, <1>4, <1>5, <1>6, <1>7, <1>8, <1>9, <1>10, <1>11

\* The tick in flight keeps serving the call its run has saved as pending.
LEMMA TickStep ==
  ASSUME IInv, [Next]_vars
  PROVE  TickInv'
<1>1. /\ TypeOK /\ \A q \in Runs : run[q] \in Run /\ h[q] \in History
      /\ clock \in Nat /\ clock + 1 \in Nat
  BY DEF IInv, TypeOK
<1>2. InFlight => /\ tick.r \in Runs /\ tick.result \in Nat /\ tick.key.name \in Names
  BY <1>1, TypeFacts
<1>3. ASSUME NEW r \in Runs, Quiet(r) PROVE TickInv'
  <2>1. tick' = NoTick
    BY <1>1, <1>3, QuietFacts DEF QuietShape
  <2> QED BY <2>1 DEF TickInv, InFlight, NoTick
<1>4. ASSUME NEW r \in Runs, ActIssue(r) PROVE TickInv'
  <2> DEFINE name == run[r].call.name
  <2>1. /\ UNCHANGED <<run, ledger, clock>> /\ run[r].node = "act"
        /\ h'[r].fresh = h[r].fresh /\ tick'.r = r /\ tick'.key.name = name
        /\ tick'.copy.node = "observe"
        /\ tick'.copy.seq = IF name \in Tools THEN run[r].seq + 1 ELSE run[r].seq
        /\ name \in Tools => /\ tick'.key.seq = run[r].seq + 1
                             /\ tick'.key.tools = tick'.copy.allow
        /\ \/ /\ tick'.at = "perform" /\ tick'.result = Refusal
              /\ Recorded(r, tick'.key) = {}
           \/ tick'.at = "save" /\ tick'.result \in Recorded(r, tick'.key)
    BY <1>4, IssueShape
  <2>2. Recorded(tick.r, tick.key)' = Recorded(r, tick'.key)
    BY <2>1 DEF Recorded
  <2>3. ASSUME tick'.result \in Recorded(r, tick'.key)
        PROVE  /\ tick'.result <= clock
               /\ name \in Tools => Own(r, tick'.key, tick'.result)
    <3>1. PICK e \in ledger : e.run = r /\ e.key = tick'.key /\ e.result = tick'.result
      BY <2>3 DEF Recorded
    <3>2. run[r].seq \in Nat
      BY <1>1 DEF Run, Saved
    <3> QED BY <2>1, <3>1, <3>2 DEF IInv, LedgerInv
  <2>4. tick'.result <= clock
    BY <1>1, <2>1, <2>3 DEF Refusal
  <2>5. (name \in Tools /\ tick'.at \in {"record", "save"}) => Own(tick.r, tick.key, tick.result)'
    BY <2>1, <2>3 DEF Own
  <2> QED BY <2>1, <2>2, <2>4, <2>5 DEF TickInv, InFlight
<1>5. ASSUME Perform PROVE TickInv'
  <2> DEFINE r == tick.r
             name == tick.key.name
  <2>1. /\ tick.at = "perform" /\ UNCHANGED <<run, ledger>>
        /\ tick'.at = "record" /\ tick'.r = r
        /\ tick'.copy = tick.copy /\ tick'.key = tick.key
        /\ \/ /\ tick'.result = clock + 1 /\ clock' = clock + 1
              /\ h'[r] = Did(h[r], name, clock + 1)
           \/ /\ tick'.result = Refusal /\ clock' = clock /\ h' = h
              /\ name \notin tick.key.tools
    BY <1>1, <1>5, PerformShape
  <2>2. InFlight
    BY <2>1 DEF InFlight
  <2>3. Did(h[r], name, clock + 1).fresh = h[r].fresh \union {clock + 1}
    BY <1>1, <1>2, <2>2, DidFacts
  <2>4. tick'.result <= clock'
    BY <1>1, <2>1 DEF Refusal
  <2>5. Own(tick.r, tick.key, tick.result)'
    BY <2>1, <2>3 DEF Own
  <2> QED BY <2>1, <2>2, <2>4, <2>5 DEF IInv, TickInv, InFlight
<1>6. ASSUME Spawn PROVE TickInv'
  <2>1. /\ tick.at = "perform" /\ tick.key.name \notin Tools
        /\ clock' = clock + 1
        /\ tick'.r = tick.r /\ tick'.key = tick.key /\ tick'.copy.seq = tick.copy.seq
        /\ tick'.copy.node \in {"observe", "child", "user"}
        /\ tick'.at \in {"record", "save"} /\ tick'.result \in {tick.result, clock + 1}
        /\ \E child \in Runs \ {tick.r} : \A q \in Runs \ {child} : run'[q] = run[q]
    BY <1>6, SpawnShape
  <2>2. InFlight
    BY <2>1 DEF InFlight
  <2>3. tick.result <= clock
    BY <2>2 DEF IInv, TickInv
  <2>4. tick'.result <= clock'
    BY <1>1, <1>2, <2>1, <2>2, <2>3
  <2>5. run'[tick.r] = run[tick.r]
    BY <1>2, <2>1, <2>2
  <2> QED BY <2>1, <2>2, <2>4, <2>5 DEF IInv, TickInv, InFlight
<1>7. ASSUME SpawnFails \/ Record PROVE TickInv'
  <2>1. /\ UNCHANGED <<run, clock, h>> /\ tick'.at = "save"
        /\ tick'.r = tick.r /\ tick'.key = tick.key /\ tick'.copy = tick.copy
        /\ tick'.result = tick.result /\ tick.at \in {"perform", "record"}
        /\ tick.at = "perform" => tick.key.name \in Spawning
    BY <1>1, <1>7, TickShape
  <2>2. tick.key.name \in Spawning => tick.key.name \notin Tools
    BY TreeAssumption DEF Builtin
  <2>3. InFlight
    BY <2>1 DEF InFlight
  <2>5. (tick.key.name \in Tools) => Own(tick.r, tick.key, tick.result)
    BY <2>1, <2>2, <2>3 DEF IInv, TickInv
  <2>6. tick.key.name \in Tools => Own(tick.r, tick.key, tick.result)'
    BY <2>1, <2>5 DEF Own
  <2> QED BY <2>1, <2>3, <2>6 DEF IInv, TickInv, InFlight
<1>8. ASSUME Save PROVE TickInv'
  <2>1. tick' = NoTick
    BY <1>1, <1>8, SaveShape
  <2> QED BY <2>1 DEF TickInv, InFlight, NoTick
<1>9. ASSUME NEW tools \in Toolsets, Restart(tools) PROVE TickInv'
  BY <1>9 DEF Restart, TickInv, InFlight, NoTick
<1>10. CASE UNCHANGED vars
  BY <1>10 DEF vars, IInv, TickInv, InFlight, Own, Recorded
<1>11. ASSUME Ask PROVE TickInv'
  <2>1. /\ tick.at = "perform" /\ tick.key.name = AskUser /\ AskUser \notin Tools
        /\ run' = run /\ clock' = clock + 1
        /\ tick'.at = "save" /\ tick'.r = tick.r /\ tick'.key = tick.key
        /\ tick'.result = tick.result /\ tick'.copy.node = "user"
        /\ tick'.copy.seq = tick.copy.seq
    BY <1>1, <1>11, AskShape
  <2>2. InFlight
    BY <2>1 DEF InFlight
  <2>3. tick.result <= clock
    BY <2>2 DEF IInv, TickInv
  <2>4. tick'.result <= clock'
    BY <1>1, <1>2, <2>1, <2>2, <2>3
  <2> QED BY <2>1, <2>2, <2>4 DEF IInv, TickInv, InFlight
<1> QED
  BY StepCases, <1>3, <1>4, <1>5, <1>6, <1>7, <1>8, <1>9, <1>10, <1>11

\* What is on record stays an earlier batch's, or the pending batch's own.
LEMMA LedgerStep ==
  ASSUME IInv, [Next]_vars
  PROVE  LedgerInv' /\ BornInv'
<1> DEFINE Was(e) == /\ e.run \in Runs /\ e.key \in Key /\ e.result \in Nat
                     /\ e.key.seq \in Nat
                     /\ run[e.run].seq \in Nat /\ Born(e.run) /\ e.result <= clock
           Tooled(e) == \/ e.key.seq <= run[e.run].seq
                        \/ /\ Pending(e.run)
                           /\ e.key.name = run[e.run].call.name
                           /\ e.key.seq = run[e.run].seq + 1
                           /\ Own(e.run, e.key, e.result)
           Answers(e) == (Pending(e.run) /\ e.result \in h[e.run].fresh) =>
                           /\ e.key.name = run[e.run].call.name
                           /\ e.key.seq = run[e.run].seq + 1
           Good(e) == /\ e.result <= clock
                      /\ e.key.name \in Tools => Tooled(e)
                      /\ Answers(e)
<1>1. /\ TypeOK /\ \A q \in Runs : run[q] \in Run /\ h[q] \in History /\ run[q].seq \in Nat
      /\ clock \in Nat /\ clock + 1 \in Nat
  BY DEF IInv, TypeOK, Run, Saved
<1>2. \A e \in ledger : Was(e) /\ Good(e)
  BY <1>1 DEF IInv, TypeOK, LedgerInv, BornInv, Key
<1>3. InFlight => /\ tick.r \in Runs /\ tick.result \in Nat /\ tick.key \in Key
                  /\ run[tick.r].node = "act" /\ tick.result <= clock
                  /\ tick.key.name = run[tick.r].call.name
                  /\ tick.copy.node # "act" /\ tick.copy.node # "unborn"
                  /\ tick.copy.seq = IF tick.key.name \in Tools THEN run[tick.r].seq + 1
                                     ELSE run[tick.r].seq
  BY <1>1, TypeFacts DEF IInv, TickInv
<1>4. SUFFICES \A e \in ledger' : Good(e)' /\ Born(e.run)'
  BY DEF LedgerInv, BornInv
<1>5. ASSUME NEW r \in Runs, Quiet(r), NEW e \in ledger' PROVE Good(e)' /\ Born(e.run)'
  <2>1. QuietShape(r)
    BY <1>1, <1>5, QuietFacts
  <2>2. e \in ledger /\ Was(e) /\ Good(e)
    BY <1>2, <1>5, <2>1 DEF QuietShape
  <2>3. clock' \in Int /\ e.result <= clock'
    <3>1. clock' \in {clock, clock + 1}
      BY <1>5 DEF Quiet, Propose, Answer, Reason, Observe, ActRefused, ChildReturns, Respond,
                  HostGrant
    <3> QED BY <1>1, <2>2, <3>1
  <2>4. Born(e.run)'
    BY <2>1, <2>2 DEF QuietShape, Born
  <2>5. run'[e.run].seq = run[e.run].seq
    BY <2>1, <2>2 DEF QuietShape
  <2>6. CASE e.run # r
    <3>1. run'[e.run] = run[e.run] /\ h'[e.run] = h[e.run]
      BY <2>1, <2>2, <2>6 DEF QuietShape
    <3> QED BY <2>2, <2>3, <2>4, <3>1 DEF Pending, Own
  <2>7. CASE e.run = r /\ ~Pending(r) /\ (run'[r].node # "act" \/ h'[r].fresh = {})
    BY <2>2, <2>3, <2>4, <2>5, <2>7 DEF Pending, Own
  <2>8. CASE e.run = r /\ run'[r].node = run[r].node /\ run'[r].call = run[r].call
             /\ h'[r].fresh = h[r].fresh
    BY <2>2, <2>3, <2>4, <2>5, <2>8 DEF Pending, Own
  <2> QED BY <2>1, <2>6, <2>7, <2>8 DEF QuietShape
<1>6. ASSUME NEW r \in Runs, ActIssue(r), NEW e \in ledger' PROVE Good(e)' /\ Born(e.run)'
  <2>1. /\ UNCHANGED <<run, ledger, clock>> /\ h'[r].fresh = h[r].fresh
        /\ \A q \in Runs \ {r} : h'[q] = h[q]
    BY <1>6, IssueShape
  <2>2. Was(e) /\ Good(e)
    BY <1>2, <1>6, <2>1
  <2>3. h'[e.run].fresh = h[e.run].fresh
    BY <2>1, <2>2
  <2> QED BY <2>1, <2>2, <2>3 DEF Pending, Own, Born
<1>7. ASSUME Perform, NEW e \in ledger' PROVE Good(e)' /\ Born(e.run)'
  <2> DEFINE x == Did(h[tick.r], tick.key.name, clock + 1)
  <2>1. /\ UNCHANGED <<run, ledger>> /\ tick.at = "perform"
        /\ \A q \in Runs \ {tick.r} : h'[q] = h[q]
        /\ \/ clock' = clock + 1 /\ h'[tick.r] = x
           \/ clock' = clock /\ h' = h
    BY <1>1, <1>7, PerformShape
  <2>2. Was(e) /\ Good(e)
    BY <1>2, <1>7, <2>1
  <2>3. x.fresh = h[tick.r].fresh \union {clock + 1}
    BY <1>1, <2>1, TypeFacts, DidFacts DEF InFlight
  <2>4. e.result <= clock' /\ e.result # clock + 1
    BY <1>1, <2>1, <2>2
  <2>5. e.result \in h'[e.run].fresh <=> e.result \in h[e.run].fresh
    BY <1>1, <2>1, <2>2, <2>3, <2>4
  <2> QED BY <2>1, <2>2, <2>4, <2>5 DEF Pending, Own, Born
<1>8. ASSUME Spawn, NEW e \in ledger' PROVE Good(e)' /\ Born(e.run)'
  <2> DEFINE x == Did(h[tick.r], tick.key.name, clock + 1)
  <2>1. /\ ledger' = ledger /\ clock' = clock + 1 /\ tick.at = "perform"
        /\ h'[tick.r] = x
        /\ \E child \in Runs \ {tick.r} :
             /\ run[child].node = "unborn"
             /\ \A q \in Runs \ {child} : run'[q] = run[q]
             /\ \A q \in Runs \ {child, tick.r} : h'[q] = h[q]
    BY <1>8, SpawnShape
  <2>2. Was(e) /\ Good(e)
    BY <1>2, <1>8, <2>1
  <2>3. x.fresh = h[tick.r].fresh \union {clock + 1}
    BY <1>1, <2>1, TypeFacts, DidFacts DEF InFlight
  <2>4. e.result <= clock' /\ e.result # clock + 1
    BY <1>1, <2>1, <2>2
  <2>5. run'[e.run] = run[e.run]
    BY <2>1, <2>2 DEF Born
  <2>6. e.result \in h'[e.run].fresh <=> e.result \in h[e.run].fresh
    <3>1. CASE e.run = tick.r
      BY <1>1, <2>1, <2>2, <2>3, <2>4, <3>1
    <3>2. CASE e.run # tick.r
      BY <2>1, <2>2, <3>2 DEF Born
    <3> QED BY <3>1, <3>2
  <2> QED BY <2>2, <2>4, <2>5, <2>6 DEF Pending, Own, Born
<1>9. ASSUME SpawnFails \/ Record, NEW e \in ledger' PROVE Good(e)' /\ Born(e.run)'
  <2> DEFINE new == [run |-> tick.r, key |-> tick.key, result |-> tick.result]
  <2>1. /\ UNCHANGED <<run, clock, h>>
        /\ \/ tick.at = "perform" /\ ledger' = ledger
           \/ tick.at = "record" /\ ledger' = ledger \union {new}
    BY <1>1, <1>9, TickShape
  <2>2. CASE e \in ledger
    BY <1>2, <2>1, <2>2 DEF Pending, Own, Born
  <2>3. CASE e = new /\ tick.at = "record"
    <3>1. InFlight
      BY <2>3 DEF InFlight
    <3>2. /\ e.run = tick.r /\ e.key = tick.key /\ e.result = tick.result
      BY <2>3
    <3>3. Born(e.run)
      BY <1>3, <3>1, <3>2 DEF Born
    <3>4. e.key.name \in Tools =>
            /\ e.key.seq = run[e.run].seq + 1 /\ Own(e.run, e.key, e.result)
      BY <2>3, <3>1, <3>2 DEF IInv, TickInv
    <3>5. Good(e)
      BY <1>3, <3>1, <3>2, <3>4 DEF Pending
    <3> QED BY <2>1, <3>3, <3>5 DEF Pending, Own, Born
  <2> QED BY <1>9, <2>1, <2>2, <2>3
<1>10. ASSUME Save, NEW e \in ledger' PROVE Good(e)' /\ Born(e.run)'
  <2>1. /\ tick.at = "save" /\ UNCHANGED <<ledger, clock, h>>
        /\ \A q \in Runs \ {tick.r} : run'[q] = run[q]
        /\ run'[tick.r].node = tick.copy.node /\ run'[tick.r].seq = tick.copy.seq
    BY <1>1, <1>10, SaveShape
  <2>2. Was(e) /\ Good(e)
    BY <1>2, <1>10, <2>1
  <2>3. InFlight
    BY <2>1 DEF InFlight
  <2>4. CASE e.run # tick.r
    BY <2>1, <2>2, <2>4 DEF Pending, Own, Born
  <2>5. CASE e.run = tick.r
    <3>1. ~Pending(e.run)' /\ Born(e.run)'
      BY <1>3, <2>1, <2>3, <2>5 DEF Pending, Born
    <3>2. e.key.name \in Tools => e.key.seq <= run'[e.run].seq
      <4>1. CASE e.key.seq <= run[e.run].seq
        BY <1>3, <2>1, <2>2, <2>3, <2>5, <4>1
      <4>2. CASE Pending(e.run) /\ e.key.seq = run[e.run].seq + 1
        BY <1>3, <2>1, <2>2, <2>3, <2>5, <4>2 DEF Pending
      <4> QED BY <2>2, <4>1, <4>2
    <3> QED BY <2>1, <2>2, <3>1, <3>2
  <2> QED BY <2>4, <2>5
<1>11. ASSUME NEW tools \in Toolsets, Restart(tools), NEW e \in ledger'
       PROVE  Good(e)' /\ Born(e.run)'
  BY <1>2, <1>11 DEF Restart, Pending, Own, Born
<1>12. ASSUME UNCHANGED vars, NEW e \in ledger' PROVE Good(e)' /\ Born(e.run)'
  BY <1>2, <1>12 DEF vars, Pending, Own, Born
<1>13. ASSUME Ask, NEW e \in ledger' PROVE Good(e)' /\ Born(e.run)'
  <2> DEFINE x == Did(h[tick.r], AskUser, clock + 1)
  <2>1. /\ UNCHANGED <<run, ledger>> /\ tick.at = "perform" /\ tick.key.name = AskUser
        /\ \A q \in Runs \ {tick.r} : h'[q] = h[q]
        /\ clock' = clock + 1 /\ h'[tick.r] = x
    BY <1>1, <1>13, AskShape
  <2>2. Was(e) /\ Good(e)
    BY <1>2, <1>13, <2>1
  <2>3. x.fresh = h[tick.r].fresh \union {clock + 1}
    <3>1. AskUser \in Names
      BY DEF Names, Builtin
    <3>2. tick.r \in Runs
      BY <1>3, <2>1 DEF InFlight
    <3> QED BY <1>1, <3>1, <3>2, DidFacts
  <2>4. e.result <= clock' /\ e.result # clock + 1
    BY <1>1, <2>1, <2>2
  <2>5. e.result \in h'[e.run].fresh <=> e.result \in h[e.run].fresh
    BY <1>1, <2>1, <2>2, <2>3, <2>4
  <2> QED BY <2>1, <2>2, <2>4, <2>5 DEF Pending, Own, Born
<1> QED
  BY StepCases, <1>5, <1>6, <1>7, <1>8, <1>9, <1>10, <1>11, <1>12, <1>13

-----------------------------------------------------------------------------
(* Theorems *)

\* The tree starts as one run, with what it was granted.
LEMMA InvInit ==
  ASSUME Init PROVE IInv
<1>1. PICK allow \in Grants \union {Unset} :
        /\ run = [r \in Runs |-> IF r = Root THEN Started(allow) ELSE Unborn]
        /\ h = [r \in Runs |-> IF r = Root
                               THEN NewHistory(Requested(allow), Requested(allow))
                               ELSE NewHistory({}, {})]
  BY DEF Init
<1>2. /\ tick = NoTick /\ ledger = {} /\ registry \in Toolsets /\ clock = 0
      /\ restarts = 0 /\ edits = 0
  BY DEF Init
<1>3. allow \in {Unset} \union SUBSET Names /\ Requested(allow) \in SUBSET Names
  BY TreeAssumption DEF Requested
<1>4. Started(allow) \in Run /\ Unborn \in Run
  <2>1. Started({}) \in Run
    BY StartedTypes
  <2>2. Unborn \in Run
    BY <2>1 DEF Unborn, Run, Saved
  <2> QED BY <1>3, <2>2, StartedTypes
<1>5. /\ NewHistory(Requested(allow), Requested(allow)) \in History
      /\ NewHistory({}, {}) \in History
  BY <1>3, NewHistoryTypes
<1>6. TypeOK
  BY <1>1, <1>2, <1>4, <1>5, TreeAssumption DEF TypeOK
<1>7. GrantInv
  <2>1. Keeps(Started(allow), NewHistory(Requested(allow), Requested(allow)))
    BY DEF Keeps, Started, NewHistory, NoNote
  <2>2. Unborn.node = "unborn"
    BY DEF Unborn, Started
  <2>3. \A r \in Runs : Born(r) => Keeps(run[r], h[r])
    BY <1>1, <2>1, <2>2 DEF Born
  <2>4. \A r \in Runs : h[r].ran \subseteq h[r].reach
    BY <1>1 DEF NewHistory
  <2> QED BY <1>2, <2>3, <2>4 DEF GrantInv, InFlight, NoTick
<1> QED BY <1>2, <1>6, <1>7 DEF IInv, TickInv, InFlight, NoTick, LedgerInv, BornInv

\* Every step keeps the inductive invariant.
LEMMA InvStep ==
  ASSUME IInv, [Next]_vars PROVE IInv'
BY TypeStep, GrantStep, TickStep, LedgerStep DEF IInv

\* The inductive invariant holds always.
LEMMA Invariance == Spec => []IInv
BY InvInit, InvStep, PTL DEF Spec

\* Every variable ranges over what the code can store in it: the vars and effects
\* the act and reason nodes leave behind.
THEOREM TypeCorrect == Spec => []TypeOK
<1>1. IInv => TypeOK
  BY DEF IInv
<1> QED BY Invariance, <1>1, PTL

\* No run of the tree, however deep and after however many restarts, holds or has
\* run a tool that the host granted neither to it nor to a run above it.
THEOREM Containment == Spec => []NobodyOutgrowsTheHost
<1>1. IInv => NobodyOutgrowsTheHost
  BY DEF IInv, GrantInv, Born, Keeps, NobodyOutgrowsTheHost
<1> QED BY Invariance, <1>1, PTL

\* A run has what it was granted last, and what is gone from that was announced:
\* no sequence of restarts with other toolsets takes a tool away in silence.
THEOREM WorksOrLoud == Spec => []LossIsAnnounced
<1>1. IInv => LossIsAnnounced
  BY DEF IInv, GrantInv, Born, Keeps, LossIsAnnounced
<1> QED BY Invariance, <1>1, PTL

\* A batch of tools is answered by a result of its own, in every step of every
\* behaviour, whatever was on record before a crash.
THEOREM OwnAnswers == Spec => AnsweredByItsOwn
<1> DEFINE A == \A r \in Runs :
                  (/\ run[r].node = "act"
                   /\ run[r].call.name \in Tools
                   /\ run'[r].node = "observe")
                  => \/ run'[r].result \in h[r].fresh
                     \/ run'[r].result = Refusal /\ run[r].call.name \notin run'[r].allow
<1>1. ASSUME IInv, [Next]_vars PROVE [A]_vars
  <2>1. /\ TypeOK /\ DOMAIN run = Runs
    BY <1>1, TypeFacts DEF IInv
  <2>2. ASSUME NEW r \in Runs, run[r].node = "act", run[r].call.name \in Tools,
               run'[r].node = "observe"
        PROVE  \/ run'[r].result \in h[r].fresh
               \/ run'[r].result = Refusal /\ run[r].call.name \notin run'[r].allow
    <3>1. run'[r] # run[r]
      BY <2>2
    <3>2. ~(\E q \in Runs : Quiet(q))
      <4>1. ASSUME NEW q \in Runs, Quiet(q) PROVE FALSE
        <5>1. QuietShape(q)
          BY <2>1, <4>1, QuietFacts
        <5>2. q = r
          BY <3>1, <5>1 DEF QuietShape
        <5> QED BY <2>2, <5>1, <5>2 DEF QuietShape, Pending
      <4> QED BY <4>1
    <3>3. ~(\E q \in Runs : ActIssue(q)) /\ ~Perform /\ ~Ask /\ ~SpawnFails /\ ~Record
      BY <3>1 DEF ActIssue, Perform, Ask, SpawnFails, Record
    <3>4. ~Spawn
      <4>1. ASSUME Spawn PROVE FALSE
        <5>1. PICK child \in Runs :
                run[child].node = "unborn" /\ \A q \in Runs \ {child} : run'[q] = run[q]
          BY <1>1, <4>1, SpawnShape
        <5> QED BY <2>2, <3>1, <5>1
      <4> QED BY <4>1
    <3>5. ~(\E tools \in Toolsets : Restart(tools)) /\ ~UNCHANGED vars
      BY <3>1 DEF Restart, vars
    <3>6. Save
      BY <1>1, <3>2, <3>3, <3>4, <3>5, StepCases
    <3>7. /\ tick.at = "save" /\ \A q \in Runs \ {tick.r} : run'[q] = run[q]
          /\ run'[tick.r].allow = tick.copy.allow /\ run'[tick.r].result = tick.result
      BY <2>1, <3>6, SaveShape
    <3>8. tick.r = r
      BY <3>1, <3>7
    <3>9. /\ tick.key.name = run[r].call.name /\ tick.key.tools = tick.copy.allow
          /\ Own(r, tick.key, tick.result)
      BY <1>1, <2>2, <3>7, <3>8 DEF IInv, TickInv, InFlight
    <3> QED BY <3>7, <3>8, <3>9 DEF Own
  <2> QED BY <2>2
<1> QED BY Invariance, <1>1, PTL DEF Spec, AnsweredByItsOwn

\* A batch that has a result on record is not performed again, whenever the
\* process died, unless it now goes out with another allowlist.
THEOREM PerformedOnce == Spec => RecordedOnce
<1> DEFINE A == (clock' # clock /\ tick.at = "perform" /\ tick.key.name \in Tools)
                => \A e \in ledger : /\ e.run = tick.r
                                     /\ e.key.tools = tick.key.tools
                                     => e.result \notin h[tick.r].fresh
<1>1. ASSUME IInv PROVE A
  <2>1. ASSUME tick.at = "perform", tick.key.name \in Tools, NEW e \in ledger,
               e.run = tick.r, e.key.tools = tick.key.tools,
               e.result \in h[tick.r].fresh
        PROVE  FALSE
    <3>1. InFlight
      BY <2>1 DEF InFlight
    <3>2. e.key \in Key /\ tick.key \in Key
      BY <1>1, <2>1, <3>1, TypeFacts DEF IInv, TypeOK
    <3>3. /\ run[tick.r].node = "act" /\ tick.key.name = run[tick.r].call.name
          /\ tick.key.seq = run[tick.r].seq + 1 /\ Recorded(tick.r, tick.key) = {}
      BY <1>1, <2>1, <3>1 DEF IInv, TickInv
    <3>4. e.key.name = tick.key.name /\ e.key.seq = tick.key.seq
      BY <1>1, <2>1, <3>3 DEF IInv, LedgerInv, Pending
    <3>5. e.key = tick.key
      BY <2>1, <3>2, <3>4 DEF Key
    <3> QED BY <2>1, <3>3, <3>5 DEF Recorded
  <2> QED BY <2>1
<1> QED BY Invariance, <1>1, PTL DEF Spec, RecordedOnce
================================================================================
