----------------------------- MODULE StuckStreak -----------------------------
(***************************************************************************)
(* The stuck-streak guard of the ReAct loop as pure operators: the         *)
(* detection of a repeated or oscillating tool batch over the turn's       *)
(* cycles (`_repeat_streak_verdict`) and the nudge-then-stop escalation    *)
(* parse_node builds on it.                                                *)
(*                                                                         *)
(* A cycle is [i, batch, obs, skipped]: the iteration that proposed it, the *)
(* proposed calls, the observations of the calls that ran, and the          *)
(* repeat_skipped mark.  Two calls are the same model value exactly when    *)
(* their fingerprints are equal, and an observation pairs the call with     *)
(* the answer that came back.                                               *)
(***************************************************************************)
EXTENDS Integers, Sequences, FiniteSetsExt

CONSTANTS
  StreakThreshold,   \* _runtime.stuck_streak_threshold
  FailingThreshold,  \* _runtime.stuck_streak_failing_threshold
  HardThreshold,     \* _runtime.stuck_streak_hard_threshold, or Absent
  MaxNudges,         \* _runtime.stuck_nudge_max_per_turn
  Absent,            \* the knob is not set
  Succeeding,        \* answers whose transport flag says success
  Failing            \* answers that fail or whose text reads as an error

ASSUME ThresholdAssumption ==
  /\ StreakThreshold \in Int
  /\ FailingThreshold \in Int
  /\ HardThreshold = Absent \/ HardThreshold \in Int
  /\ MaxNudges \in Int

-----------------------------------------------------------------------------
(* Reading cycles *)

\* Everything that ran succeeded (and something ran).
AllSucceeded(obs) ==
  obs # <<>> /\ \A k \in DOMAIN obs : obs[k].answer \in Succeeding

\* Everything that ran failed (and something ran).
AllFailed(obs) ==
  obs # <<>> /\ \A k \in DOMAIN obs : obs[k].answer \in Failing

\* How far back the detector looks, in tool-proposing cycles.
FailAt == Max({2, FailingThreshold})
ScanAt == Min({StreakThreshold, FailAt})
HardDepth == IF HardThreshold = Absent THEN 0 ELSE HardThreshold
ScanDepth == Max({ScanAt, 4, 24, HardDepth})

\* The turn's tool-proposing cycles, newest first, no more than ScanDepth.
ToolCycles(cycles, fence) ==
  LET proposing == {k \in (fence + 1)..Len(cycles) : cycles[k].batch # <<>>}
      from(k) == {j \in proposing : j >= k}
  IN  [n \in 1..Min({Cardinality(proposing), ScanDepth}) |->
         cycles[CHOOSE k \in proposing : Cardinality(from(k)) = n]]

-----------------------------------------------------------------------------
(* Detection *)

NoKey == <<"none", {}>>
NoVerdict == [kind |-> "none", span |-> 0, key |-> NoKey, failed |-> FALSE]

\* The k-th cycle before the current one.
Back(tools, k) == tools[k + 1]

\* Two executed cycles among the s-1 before the current one disagree.
AnswersDiffer(tools, s) ==
  \E j, k \in 1..(s - 1) :
    /\ Back(tools, j).obs # <<>>
    /\ Back(tools, k).obs # <<>>
    /\ Back(tools, j).obs # Back(tools, k).obs

\* The trailing proposals identical to the current one.
SameBatchRun(tools) ==
  Max({s \in 1..Len(tools) :
         \A k \in 1..(s - 1) : Back(tools, k).batch = Back(tools, 0).batch})

\* Mutant: the answers are not looked at.
MutantRepeatSpan(tools) == SameBatchRun(tools)

\* Those of them reached before an answer disagrees with the newest answer.
RepeatSpan(tools) ==
  Max({s \in 1..SameBatchRun(tools) : ~AnswersDiffer(tools, s)})

RepeatVerdict(tools) ==
  LET span == RepeatSpan(tools)
      ran  == {k \in 1..(span - 1) : Back(tools, k).obs # <<>>}
  IN  IF span >= ScanAt /\ span = SameBatchRun(tools)
      THEN [kind   |-> "repeat",
            span   |-> span,
            key    |-> <<"repeat", {Back(tools, 0).batch}>>,
            failed |-> ran # {} /\ \A k \in ran : AllFailed(Back(tools, k).obs)]
      ELSE NoVerdict

\* The same as the code's loop computes it over the cycles, newest first: `run`
\* counts, `seen` is the first answer met, `all` what is known of failure.
LoopStart == [run |-> 1, seen |-> <<>>, all |-> {}, differ |-> FALSE, over |-> FALSE]

LoopStep(w, c, batch) ==
  IF w.over THEN w
  ELSE IF c.batch # batch THEN [w EXCEPT !.over = TRUE]
  ELSE IF c.obs # <<>> /\ w.seen # <<>> /\ c.obs # w.seen
       THEN [w EXCEPT !.over = TRUE, !.differ = TRUE]
  ELSE [w EXCEPT !.run  = @ + 1,
                 !.seen = IF @ = <<>> THEN c.obs ELSE @,
                 !.all  = IF c.obs = <<>> THEN @ ELSE @ \union {AllFailed(c.obs)}]

LoopOver(tools) ==
  LET walk[k \in 0..(Len(tools) - 1)] ==
        IF k = 0 THEN LoopStart
        ELSE LoopStep(walk[k - 1], Back(tools, k), Back(tools, 0).batch)
  IN  walk[Len(tools) - 1]

\* Mutant: an oscillation is keyed by the batch just proposed.
MutantOscillationKey(tools) == <<"oscillation", {Back(tools, 0).batch}>>

\* An oscillation is keyed by its two batches, in no order.
OscillationKey(tools) ==
  <<"oscillation", {Back(tools, 0).batch, Back(tools, 1).batch}>>

\* Strict A-B-A-B: the trailing proposals alternate between two batches.
OscillationVerdict(tools) ==
  LET alternates(s) == \A k \in 2..(s - 1) :
                         Back(tools, k).batch = Back(tools, k % 2).batch
      span == Max({s \in 2..Len(tools) : alternates(s)})
  IN  IF /\ Len(tools) >= 4
         /\ Back(tools, 0).batch # Back(tools, 1).batch
         /\ span >= 4
      THEN [kind   |-> "oscillation",
            span   |-> span,
            key    |-> OscillationKey(tools),
            failed |-> FALSE]
      ELSE NoVerdict

\* A repeat hides an oscillation; one shorter than the threshold of its own
\* class is dropped.
StuckVerdict(cycles, fence) ==
  LET tools  == ToolCycles(cycles, fence)
      repeat == RepeatVerdict(tools)
      needed == IF repeat.failed THEN FailAt ELSE StreakThreshold
  IN  IF StreakThreshold < 2 \/ tools = <<>> THEN NoVerdict
      ELSE IF repeat = NoVerdict THEN OscillationVerdict(tools)
      ELSE IF repeat.span < needed THEN NoVerdict
      ELSE repeat

-----------------------------------------------------------------------------
(* Escalation: `nudged` maps the keys detected this turn to their hits. *)

Hits(verdict, nudged) ==
  1 + (IF verdict.key \in DOMAIN nudged THEN nudged[verdict.key] ELSE 0)

\* Mutant: an unset threshold reads as zero.
MutantNeverStops == HardDepth <= 0

NeverStops == HardThreshold # Absent /\ HardDepth <= 0

\* Mutant: the first detection ends the turn.
MutantHardHits == 1

HardHits == IF HardThreshold = Absent THEN 3 ELSE Max({2, HardThreshold})

MustStop(verdict, nudged) ==
  /\ ~NeverStops
  /\ \/ Hits(verdict, nudged) >= HardHits
     \/ HardThreshold # Absent /\ verdict.span >= HardHits
     \/ /\ verdict.key \notin DOMAIN nudged
        /\ MaxNudges > 0
        /\ Cardinality(DOMAIN nudged) >= MaxNudges
=============================================================================
