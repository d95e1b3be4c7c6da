--------------------------- MODULE ReactLoopProofs ---------------------------
(***************************************************************************)
(* Proofs about ReactLoop and what it carries (ReactCarry), for every budget,  *)
(* threshold, toolset and number of turns.                                  *)
(***************************************************************************)
EXTENDS ReactCarry, SequenceTheorems, WellFoundedInduction, FiniteSetTheorems, TLAPS

-----------------------------------------------------------------------------
(* Lemmas about the operators the loop is built from *)

\* How many elements lead a queue before the first that has some property: if one
\* has it, they end before the least of those.
LEMMA LeadIs ==
  ASSUME NEW n \in Nat, NEW stops \in SUBSET (1..n)
  PROVE  LET p == Max({k \in 0..n : \A j \in 1..k : j \notin stops})
         IN  /\ p \in 0..n
             /\ \A j \in 1..p : j \notin stops
             /\ p = n \/ p + 1 \in stops
<1> DEFINE S == {k \in 0..n : \A j \in 1..k : j \notin stops}
           Less == {p \in Nat \X Nat : p[1] < p[2]}
<1>1. \E p \in S : (\A k \in S : p >= k) /\ (p = n \/ p + 1 \in stops)
  <2>1. CASE stops = {}
    BY <2>1
  <2>2. CASE stops # {}
    <3>1. IsWellFoundedOn(Less, Nat)
      BY NatLessThanWellFounded DEF OpToRel
    <3>2. stops \subseteq Nat
      OBVIOUS
    <3> HIDE DEF Less
    <3>3. PICK t \in stops : \A j \in stops : <<j, t>> \notin Less
      BY <2>2, <3>1, <3>2, WFMin
    <3>4. t \in 1..n /\ \A j \in stops : ~(j < t)
      BY <3>2, <3>3 DEF Less
    <3>5. t - 1 \in S /\ (t - 1) + 1 = t
      BY <3>4
    <3>6. \A k \in S : t - 1 >= k
      <4> SUFFICES ASSUME NEW k \in S, ~(t - 1 >= k) PROVE FALSE
        OBVIOUS
      <4>1. t \in 1..k
        BY <3>4
      <4> QED BY <3>3, <4>1
    <3> QED BY <3>3, <3>5, <3>6
  <2> QED BY <2>1, <2>2
<1>2. PICK p \in S : (\A k \in S : p >= k) /\ (p = n \/ p + 1 \in stops)
  BY <1>1
<1>3. \A q \in S : (\A k \in S : q >= k) => q = p
  BY <1>2
<1>4. Max(S) = p
  <2> HIDE DEF S
  <2> QED BY <1>2, <1>3 DEF Max
<1>5. p \in 0..n /\ \A j \in 1..p : j \notin stops
  OBVIOUS
<1> QED BY <1>2, <1>4, <1>5

\* The largest of some numbers is their Max.
LEMMA MaxIs ==
  ASSUME NEW S, S \subseteq Int, NEW k \in S, \A y \in S : y <= k
  PROVE  Max(S) = k
<1>1. \A x \in S : (\A y \in S : x >= y) => x = k
  OBVIOUS
<1>2. \A y \in S : k >= y
  OBVIOUS
<1> QED BY <1>1, <1>2 DEF Max

\* What PrefixLength finds: the calls before the next builtin, and only those.
LEMMA PrefixLengthBound ==
  ASSUME queue \in Seq(Calls)
  PROVE  /\ PrefixLength \in 0..Len(queue)
         /\ \A j \in 1..PrefixLength : queue[j] \notin Builtin
         /\ PrefixLength = Len(queue) \/ queue[PrefixLength + 1] \in Builtin
<1> DEFINE stops == {k \in 1..Len(queue) : queue[k] \in Builtin}
           S == {k \in 0..Len(queue) : \A j \in 1..k : j \notin stops}
<1>1. Len(queue) \in Nat
  BY LenProperties
<1>2. /\ Max(S) \in 0..Len(queue) /\ \A j \in 1..Max(S) : j \notin stops
      /\ Max(S) = Len(queue) \/ Max(S) + 1 \in stops
  <2> HIDE DEF stops
  <2>1. stops \in SUBSET (1..Len(queue))
    BY DEF stops
  <2> QED BY <1>1, <2>1, LeadIs
<1>3. S = {k \in 0..Len(queue) : \A j \in 1..k : queue[j] \notin Builtin}
  BY <1>1
<1>4. PrefixLength = Max(S)
  BY <1>3 DEF PrefixLength
<1> HIDE DEF S
<1> QED BY <1>1, <1>2, <1>4

-----------------------------------------------------------------------------
(* Type correctness.  It needs two facts of the control: act always finds a  *)
(* call in the queue, and only the nodes that read a reply have one.          *)

Handoffs ==
  /\ node = "act" => queue # <<>>
  /\ node \notin {"parse", "review_parse", "max_iterations"} => reply = NoReply

\* The batches the model and the verifier issue are nonempty sequences of calls.
LEMMA BatchTypes ==
  ASSUME TypeOK
  PROVE  /\ reply.batch \in Seq(Calls)
         /\ reply.kind \in {"tools", "calls"} => reply.batch # <<>>
<1>1. Batches \subseteq Seq(Calls) \ {<<>>} /\ VerifierBatches \subseteq Seq(Calls) \ {<<>>}
  BY LoopAssumption DEF Calls
<1>2. CASE reply \in ModelReply
  BY <1>1, <1>2, EmptySeq DEF ModelReply, Talk
<1>3. CASE reply \in VerifierReply
  BY <1>1, <1>3, EmptySeq DEF VerifierReply, Talk
<1>4. CASE reply \in ConclusionReply
  BY <1>4, EmptySeq DEF ConclusionReply, Talk
<1>5. CASE reply = NoReply
  BY <1>5, EmptySeq DEF NoReply
<1> QED BY <1>2, <1>3, <1>4, <1>5 DEF TypeOK, TempOK

\* The cycle parse_node appends, executed or refused, is a cycle.
LEMMA CycleTypes ==
  ASSUME TypeOK
  PROVE  Proposed \in Seq(Cycle) /\ Refused \in Seq(Cycle)
<1>1. NewCycle \in Cycle
  BY BatchTypes, EmptySeq, LoopAssumption DEF TypeOK, ScratchpadOK, NewCycle, Cycle
<1>2. [NewCycle EXCEPT !.skipped = TRUE] \in Cycle
  BY <1>1 DEF Cycle
<1>3. cycles \in Seq(Cycle)
  BY DEF TypeOK, ScratchpadOK
<1> QED BY <1>1, <1>2, <1>3, AppendProperties DEF Proposed, Refused

\* Observing appends typed results to a cycle and to the history.
LEMMA ObservedTypes ==
  ASSUME TypeOK, Observe
  PROVE  /\ cycles' \in Seq(Cycle)
         /\ h' \in History
<1>1. cycles \in Seq(Cycle) /\ results \in Seq(Observation) /\ h \in History
  BY DEF TypeOK, ScratchpadOK, TempOK
<1>2. \A c \in Cycle : [c EXCEPT !.obs = @ \o results] \in Cycle
  <2> SUFFICES ASSUME NEW c \in Cycle PROVE [c EXCEPT !.obs = @ \o results] \in Cycle
    OBVIOUS
  <2>1. c.obs \o results \in Seq(Observation)
    BY <1>1, ConcatProperties DEF Cycle
  <2> QED BY <2>1 DEF Cycle
<1>3. cycles' \in Seq(Cycle)
  <2> DEFINE c == [cycles[CurrentCycle] EXCEPT !.obs = @ \o results]
  <2>1. cycles' = [cycles EXCEPT ![CurrentCycle] = c]
    BY DEF Observe, Observed
  <2>2. CASE CurrentCycle \in 1..Len(cycles)
    <3>1. c \in Cycle
      BY <1>1, <1>2, <2>2, ElementOfSeq
    <3> HIDE DEF c
    <3> QED BY <1>1, <2>1, <2>2, <3>1, ExceptSeq
  <2>3. CASE CurrentCycle \notin 1..Len(cycles)
    <3>1. DOMAIN cycles = 1..Len(cycles)
      BY <1>1, LenProperties
    <3>2. cycles' = cycles
      BY <1>1, <2>1, <2>3, <3>1
    <3> QED BY <1>1, <3>2
  <2> QED BY <2>2, <2>3
<1>4. h.ran.obs \o results \in Seq(Observation)
  BY <1>1, ConcatProperties DEF History
<1> DEFINE obs == h.ran.obs \o results
<1>5. [h EXCEPT !.rounds = 0, !.ran.obs = obs] \in History
  <2> HIDE DEF obs
  <2>1. [h.ran EXCEPT !.obs = obs] \in [batch : Seq(Calls), obs : Seq(Observation)]
    BY <1>1, <1>4 DEF History, obs
  <2> DEFINE ran == [h.ran EXCEPT !.obs = obs]
  <2>2. [h EXCEPT !.rounds = 0, !.ran = ran] \in History
    <3> HIDE DEF ran
    <3> QED BY <1>1, <2>1 DEF History, ran
  <2> QED BY <1>1, <2>2 DEF History
<1> QED BY <1>1, <1>3, <1>5 DEF Observe

\* What act takes off the queue, and what is left of it.
LEMMA QueueTypes ==
  ASSUME TypeOK, queue # <<>>
  PROVE  Head(queue) \in Calls /\ Tail(queue) \in Seq(Calls)
BY HeadTailProperties DEF TypeOK, TempOK

\* The external calls that go out together come back as results, in order.
LEMMA BatchResultTypes ==
  ASSUME TypeOK, ActBatch
  PROVE  queue' \in Seq(Calls) /\ results' \in Seq(Observation)
<1>1. queue \in Seq(Calls) /\ Len(queue) \in Nat
  BY LenProperties DEF TypeOK, TempOK
<1>2. PrefixLength \in 0..Len(queue)
  BY <1>1, PrefixLengthBound
<1>3. queue' \in Seq(Calls)
  <2>1. \A i \in (PrefixLength + 1)..Len(queue) : queue[i] \in Calls
    BY <1>1, <1>2, ElementOfSeq
  <2> QED BY <1>1, <1>2, <2>1, SubSeqProperties DEF ActBatch
<1>4. results' \in Seq(Observation)
  <2>1. PICK answer \in [1..PrefixLength -> Answers] :
          results' = [k \in 1..PrefixLength |-> [call |-> queue[k], answer |-> answer[k]]]
    BY DEF ActBatch
  <2>2. \A k \in 1..PrefixLength : queue[k] \in Calls
    BY <1>1, <1>2, ElementOfSeq
  <2>3. results' \in [1..PrefixLength -> Observation]
    BY <2>1, <2>2 DEF Observation
  <2> QED BY <1>2, <2>3, SeqDef
<1> QED BY <1>3, <1>4

\* What the history counts.
LEMMA HistoryCounts ==
  ASSUME h \in History
  PROVE  /\ h.thinks \in Nat /\ h.reviews \in Nat /\ h.concludes \in Nat
         /\ h.announces \in Nat /\ h.repairs \in Nat /\ h.rounds \in Nat
BY DEF History

\* The hit count of a detected pattern.
LEMMA HitsType ==
  ASSUME TypeOK
  PROVE  /\ Hits(Verdict, nudged) \in Nat \ {0}
         /\ Verdict.key \notin DOMAIN nudged => Hits(Verdict, nudged) = 1
BY DEF TypeOK, ScratchpadOK, Hits

\* One observation makes a result list.
LEMMA SingletonResult ==
  ASSUME NEW call \in Calls, NEW a \in Answers
  PROVE  <<[call |-> call, answer |-> a]>> \in Seq(Observation)
<1> DEFINE o == [call |-> call, answer |-> a]
<1>1. o \in Observation
  BY DEF Observation
<1>2. \A x \in Observation : <<x>> \in Seq(Observation)
  OBVIOUS
<1> QED BY <1>1, <1>2

\* Every step of the loop keeps the types.
LEMMA TypeStep ==
  ASSUME TypeOK, Handoffs, [VisitNext]_vars
  PROVE  TypeOK' /\ Handoffs'
<1> USE LoopAssumption DEF TypeOK, scratchpad, temp
<1>1. CASE ReasonOutOfBudget
  <2> USE <1>1 DEF ReasonOutOfBudget, BudgetLeft
  <2>1. ScratchpadOK'
    BY DEF ScratchpadOK
  <2>2. TempOK'
    BY DEF TempOK
  <2>3. RunOK'
    BY DEF RunOK, Nodes, Ended
  <2>4. (h \in History)'
    BY DEF History
  <2>5. Handoffs'
    BY DEF Handoffs
  <2> QED BY <2>1, <2>2, <2>3, <2>4, <2>5
<1>2. CASE ReasonConclude
  <2> USE <1>2 DEF ReasonConclude, BudgetLeft
  <2>1. ScratchpadOK'
    BY DEF ScratchpadOK
  <2>2. TempOK'
    BY DEF TempOK
  <2>3. RunOK'
    BY DEF RunOK, Nodes, Ended
  <2>4. (h \in History)'
    BY DEF History
  <2>5. Handoffs'
    BY DEF Handoffs
  <2> QED BY <2>1, <2>2, <2>3, <2>4, <2>5
<1>3. CASE ReasonCall
  <2> USE <1>3 DEF ReasonCall, BudgetLeft, CallModel
  <2>1. ScratchpadOK'
    BY DEF ScratchpadOK
  <2>2. TempOK'
    BY DEF TempOK
  <2>3. RunOK'
    BY DEF RunOK, Nodes, Ended
  <2>4. (h \in History)'
    <3> DEFINE n == h.thinks + 1
               m == 0
    <3>1. n \in Nat /\ m \in Nat /\ h' = [h EXCEPT !.thinks = n]
      BY HistoryCounts
    <3> HIDE DEF n, m
    <3> QED BY <3>1 DEF History
  <2>5. Handoffs'
    BY DEF Handoffs
  <2> QED BY <2>1, <2>2, <2>3, <2>4, <2>5
<1>4. CASE ParseStuckStop
  <2> USE <1>4 DEF ParseStuckStop, ParseProposal
  <2>1. ScratchpadOK'
    BY CycleTypes DEF ScratchpadOK
  <2>2. TempOK'
    BY BatchTypes, EmptySeq DEF TempOK
  <2>3. RunOK'
    BY DEF RunOK, Nodes, Ended
  <2>4. (h \in History)'
    BY DEF History
  <2>5. Handoffs'
    BY DEF Handoffs
  <2> QED BY <2>1, <2>2, <2>3, <2>4, <2>5
<1>5. CASE ParseStuckRefuse
  <2> USE <1>5 DEF ParseStuckRefuse, ParseProposal
  <2>1. ScratchpadOK'
    BY CycleTypes, HitsType DEF ScratchpadOK
  <2>2. TempOK'
    BY BatchTypes, EmptySeq DEF TempOK
  <2>3. RunOK'
    BY DEF RunOK, Nodes, Ended
  <2>4. (h \in History)'
    BY DEF History
  <2>5. Handoffs'
    BY DEF Handoffs
  <2> QED BY <2>1, <2>2, <2>3, <2>4, <2>5
<1>6. CASE ParseRepeatGuard
  <2> USE <1>6 DEF ParseRepeatGuard, ParseProposal
  <2>1. ScratchpadOK'
    BY CycleTypes DEF ScratchpadOK
  <2>2. TempOK'
    BY BatchTypes, EmptySeq DEF TempOK
  <2>3. RunOK'
    BY DEF RunOK, Nodes, Ended
  <2>4. (h \in History)'
    BY DEF History
  <2>5. Handoffs'
    BY DEF Handoffs
  <2> QED BY <2>1, <2>2, <2>3, <2>4, <2>5
<1>7. CASE ParseCalls
  <2> USE <1>7 DEF ParseCalls, ParseProposal
  <2>1. ScratchpadOK'
    BY CycleTypes DEF ScratchpadOK
  <2>2. TempOK'
    BY BatchTypes, EmptySeq DEF TempOK
  <2>3. RunOK'
    BY DEF RunOK, Nodes, Ended
  <2>4. (h \in History)'
    BY BatchTypes, EmptySeq DEF History
  <2>5. Handoffs'
    BY BatchTypes DEF Handoffs
  <2> QED BY <2>1, <2>2, <2>3, <2>4, <2>5
<1>8. CASE ParseBadCall
  <2> USE <1>8 DEF ParseBadCall, ParseSpeech
  <2>1. ScratchpadOK'
    BY CycleTypes DEF ScratchpadOK
  <2>2. TempOK'
    BY DEF TempOK, RepairLeft
  <2>3. RunOK'
    BY DEF RunOK, Nodes, Ended
  <2>4. (h \in History)'
    <3> DEFINE n == h.repairs + 1
               m == 0
    <3>1. n \in Nat /\ m \in Nat /\ h' = [h EXCEPT !.repairs = n]
      BY HistoryCounts
    <3> HIDE DEF n, m
    <3> QED BY <3>1 DEF History
  <2>5. Handoffs'
    BY DEF Handoffs
  <2> QED BY <2>1, <2>2, <2>3, <2>4, <2>5
<1>9. CASE ParseBadCallFails
  <2> USE <1>9 DEF ParseBadCallFails, ParseSpeech
  <2>1. ScratchpadOK'
    BY CycleTypes DEF ScratchpadOK
  <2>2. TempOK'
    BY BatchTypes, EmptySeq DEF TempOK
  <2>3. RunOK'
    BY DEF RunOK, Nodes, Ended
  <2>4. (h \in History)'
    BY DEF History
  <2>5. Handoffs'
    BY DEF Handoffs
  <2> QED BY <2>1, <2>2, <2>3, <2>4, <2>5
<1>10. CASE ParseRetry
  <2> USE <1>10 DEF ParseRetry, ParseSpeech
  <2>1. ScratchpadOK'
    BY CycleTypes DEF ScratchpadOK
  <2>2. TempOK'
    BY BatchTypes, EmptySeq DEF TempOK
  <2>3. RunOK'
    BY DEF RunOK, Nodes, Ended
  <2>4. (h \in History)'
    BY DEF History
  <2>5. Handoffs'
    BY DEF Handoffs
  <2> QED BY <2>1, <2>2, <2>3, <2>4, <2>5
<1>11. CASE ParseAnswer
  <2> USE <1>11 DEF ParseAnswer, ParseSpeech
  <2>1. ScratchpadOK'
    BY CycleTypes DEF ScratchpadOK
  <2>2. TempOK'
    BY BatchTypes, EmptySeq DEF TempOK
  <2>3. RunOK'
    BY DEF RunOK, Nodes, Ended
  <2>4. (h \in History)'
    BY DEF History
  <2>5. Handoffs'
    BY DEF Handoffs
  <2> QED BY <2>1, <2>2, <2>3, <2>4, <2>5
<1>12. CASE ActBlocked
  <2> USE <1>12 DEF ActBlocked, ActStep
  <2>1. ScratchpadOK'
    BY DEF ScratchpadOK
  <2>2. TempOK'
    <3>1. <<[call |-> Head(queue), answer |-> Blocked]>> \in Seq(Observation)
      BY QueueTypes, SingletonResult DEF Handoffs
    <3> QED BY <3>1, QueueTypes DEF Handoffs, TempOK
  <2>3. RunOK'
    BY DEF RunOK, Nodes, Ended
  <2>4. (h \in History)'
    BY DEF History
  <2>5. Handoffs'
    BY DEF Handoffs
  <2> QED BY <2>1, <2>2, <2>3, <2>4, <2>5
<1>13. CASE ActAskUser
  <2> USE <1>13 DEF ActAskUser, ActStep
  <2>1. ScratchpadOK'
    BY DEF ScratchpadOK
  <2>2. TempOK'
    BY QueueTypes DEF Handoffs, TempOK
  <2>3. RunOK'
    BY DEF RunOK, Nodes, Ended
  <2>4. (h \in History)'
    BY DEF History
  <2>5. Handoffs'
    BY DEF Handoffs
  <2> QED BY <2>1, <2>2, <2>3, <2>4, <2>5
<1>14. CASE ActBuiltin
  <2> USE <1>14 DEF ActBuiltin, ActStep
  <2>1. ScratchpadOK'
    BY DEF ScratchpadOK
  <2>2. TempOK'
    <3>1. PICK a \in Answers : results' = <<[call |-> Head(queue), answer |-> a]>>
      BY DEF BuiltinAnswers
    <3>2. results' \in Seq(Observation)
      BY <3>1, QueueTypes, SingletonResult DEF Handoffs
    <3> QED BY <3>2, QueueTypes DEF Handoffs, TempOK
  <2>3. RunOK'
    BY DEF RunOK, Nodes, Ended
  <2>4. (h \in History)'
    BY DEF History
  <2>5. Handoffs'
    BY DEF Handoffs
  <2> QED BY <2>1, <2>2, <2>3, <2>4, <2>5
<1>15. CASE ActBatch
  <2> USE <1>15 DEF ActBatch, ActStep
  <2>1. ScratchpadOK'
    BY DEF ScratchpadOK
  <2>2. TempOK'
    BY BatchResultTypes DEF TempOK
  <2>3. RunOK'
    BY DEF RunOK, Nodes, Ended
  <2>4. (h \in History)'
    BY DEF History
  <2>5. Handoffs'
    BY DEF Handoffs
  <2> QED BY <2>1, <2>2, <2>3, <2>4, <2>5
<1>16. CASE Observe
  <2> USE <1>16 DEF Observe
  <2>1. ScratchpadOK'
    BY ObservedTypes DEF ScratchpadOK, ReviewCountAfterResults
  <2>2. TempOK'
    BY EmptySeq DEF TempOK
  <2>3. RunOK'
    BY DEF RunOK, Nodes, Ended
  <2>4. (h \in History)'
    BY ObservedTypes
  <2>5. Handoffs'
    BY DEF Handoffs
  <2> QED BY <2>1, <2>2, <2>3, <2>4, <2>5
<1>17. CASE UserReplies
  <2> USE <1>17 DEF UserReplies
  <2>1. ScratchpadOK'
    BY DEF ScratchpadOK
  <2>2. TempOK'
    BY DEF TempOK
  <2>3. RunOK'
    BY DEF RunOK, Nodes, Ended
  <2>4. (h \in History)'
    BY DEF History
  <2>5. Handoffs'
    BY DEF Handoffs
  <2> QED BY <2>1, <2>2, <2>3, <2>4, <2>5
<1>18. CASE HandleUserResponse
  <2> USE <1>18 DEF HandleUserResponse
  <2>1. ScratchpadOK'
    BY DEF ScratchpadOK, NoNudges
  <2>2. TempOK'
    BY DEF TempOK
  <2>3. RunOK'
    BY DEF RunOK, Nodes, Ended
  <2>4. (h \in History)'
    BY LenProperties DEF ScratchpadOK, History
  <2>5. Handoffs'
    BY DEF Handoffs
  <2> QED BY <2>1, <2>2, <2>3, <2>4, <2>5
<1>19. CASE MaybeReview
  <2> USE <1>19 DEF MaybeReview
  <2>1. ScratchpadOK'
    BY DEF ScratchpadOK, ReviewDue
  <2>2. TempOK'
    BY DEF TempOK
  <2>3. RunOK'
    BY DEF RunOK, Nodes, Ended
  <2>4. (h \in History)'
    BY DEF History
  <2>5. Handoffs'
    BY DEF Handoffs
  <2> QED BY <2>1, <2>2, <2>3, <2>4, <2>5
<1>20. CASE Review
  <2> USE <1>20 DEF Review
  <2>1. ScratchpadOK'
    BY DEF ScratchpadOK
  <2>2. TempOK'
    BY DEF TempOK
  <2>3. RunOK'
    BY DEF RunOK, Nodes, Ended
  <2>4. (h \in History)'
    <3> DEFINE n == h.reviews + 1
               m == h.rounds + 1
    <3>1. n \in Nat /\ m \in Nat /\ h' = [h EXCEPT !.reviews = n, !.rounds = m]
      BY HistoryCounts
    <3> HIDE DEF n, m
    <3> QED BY <3>1 DEF History
  <2>5. Handoffs'
    BY DEF Handoffs
  <2> QED BY <2>1, <2>2, <2>3, <2>4, <2>5
<1>21. CASE ReviewParseAbsorbed
  <2> USE <1>21 DEF ReviewParseAbsorbed, ReviewParseStep
  <2>1. ScratchpadOK'
    BY DEF ScratchpadOK
  <2>2. TempOK'
    BY BatchTypes DEF TempOK
  <2>3. RunOK'
    BY DEF RunOK, Nodes, Ended
  <2>4. (h \in History)'
    BY DEF History
  <2>5. Handoffs'
    BY DEF Handoffs
  <2> QED BY <2>1, <2>2, <2>3, <2>4, <2>5
<1>22. CASE ReviewParseAccept
  <2> USE <1>22 DEF ReviewParseAccept, ReviewParseStep
  <2>1. ScratchpadOK'
    BY DEF ScratchpadOK
  <2>2. TempOK'
    BY BatchTypes DEF TempOK
  <2>3. RunOK'
    BY DEF RunOK, Nodes, Ended
  <2>4. (h \in History)'
    BY DEF History
  <2>5. Handoffs'
    BY DEF Handoffs
  <2> QED BY <2>1, <2>2, <2>3, <2>4, <2>5
<1>23. CASE ReviewParseCalls
  <2> USE <1>23 DEF ReviewParseCalls, ReviewParseStep
  <2>1. ScratchpadOK'
    BY DEF ScratchpadOK
  <2>2. TempOK'
    BY BatchTypes DEF TempOK
  <2>3. RunOK'
    BY DEF RunOK, Nodes, Ended
  <2>4. (h \in History)'
    BY DEF History
  <2>5. Handoffs'
    BY BatchTypes DEF Handoffs
  <2> QED BY <2>1, <2>2, <2>3, <2>4, <2>5
<1>24. CASE ReviewParsePrompt
  <2> USE <1>24 DEF ReviewParsePrompt, ReviewParseStep
  <2>1. ScratchpadOK'
    BY DEF ScratchpadOK
  <2>2. TempOK'
    BY BatchTypes DEF TempOK
  <2>3. RunOK'
    BY DEF RunOK, Nodes, Ended
  <2>4. (h \in History)'
    BY DEF History
  <2>5. Handoffs'
    BY DEF Handoffs
  <2> QED BY <2>1, <2>2, <2>3, <2>4, <2>5
<1>25. CASE Done
  <2> USE <1>25 DEF Done, EndNode
  <2>1. ScratchpadOK'
    BY DEF ScratchpadOK
  <2>2. TempOK'
    BY DEF TempOK
  <2>3. RunOK'
    BY DEF RunOK, Nodes, Ended, Output, Codes, ScratchpadOK
  <2>4. (h \in History)'
    BY DEF History
  <2>5. Handoffs'
    BY DEF Handoffs
  <2> QED BY <2>1, <2>2, <2>3, <2>4, <2>5
<1>26. CASE ConcludeCall
  <2> USE <1>26 DEF ConcludeCall, CallModel
  <2>1. ScratchpadOK'
    BY DEF ScratchpadOK
  <2>2. TempOK'
    BY DEF TempOK
  <2>3. RunOK'
    BY DEF RunOK, Nodes, Ended
  <2>4. (h \in History)'
    <3> DEFINE n == h.concludes + 1
               m == IF announced THEN h.announces ELSE h.announces + 1
    <3>1. n \in Nat /\ m \in Nat /\ h' = [h EXCEPT !.concludes = n, !.announces = m]
      BY HistoryCounts
    <3> HIDE DEF n, m
    <3> QED BY <3>1 DEF History
  <2>5. Handoffs'
    BY DEF Handoffs
  <2> QED BY <2>1, <2>2, <2>3, <2>4, <2>5
<1>27. CASE ConcludeRetry
  <2> USE <1>27 DEF ConcludeRetry, ConcludeStep
  <2>1. ScratchpadOK'
    BY DEF ScratchpadOK
  <2>2. TempOK'
    BY DEF TempOK
  <2>3. RunOK'
    BY DEF RunOK, Nodes, Ended
  <2>4. (h \in History)'
    BY DEF History
  <2>5. Handoffs'
    BY DEF Handoffs
  <2> QED BY <2>1, <2>2, <2>3, <2>4, <2>5
<1>28. CASE ConcludeFinish
  <2> USE <1>28 DEF ConcludeFinish, ConcludeStep, EndNode
  <2>1. ScratchpadOK'
    BY DEF ScratchpadOK
  <2>2. TempOK'
    BY DEF TempOK
  <2>3. RunOK'
    BY DEF RunOK, Nodes, Ended, Output, Codes, StopCode, ScratchpadOK
  <2>4. (h \in History)'
    BY DEF History
  <2>5. Handoffs'
    BY DEF Handoffs
  <2> QED BY <2>1, <2>2, <2>3, <2>4, <2>5
<1>29. CASE NextTurn
  <2> USE <1>29 DEF NextTurn, FreshScratch, FreshTemp, FreshCarriers
  <2>1. ScratchpadOK'
    <3>1. Len(cycles) \in Nat
      BY LenProperties DEF ScratchpadOK
    <3>2. nudged' \in [DOMAIN nudged' -> Nat \ {0}]
      BY DEF NoNudges
    <3>3. iteration' \in 0..MaxIterations /\ reviewCount' \in 0..MaxReviewRounds
      OBVIOUS
    <3>4. cycles' \in Seq(Cycle) /\ fence' \in Nat
      BY <3>1 DEF ScratchpadOK
    <3>5. reviewSkipped' \in BOOLEAN /\ concluded' \in BOOLEAN
      BY DEF ScratchpadOK
    <3> QED BY <3>2, <3>3, <3>4, <3>5 DEF ScratchpadOK
  <2>2. TempOK'
    <3>1. <<>> \in Seq(Calls) /\ <<>> \in Seq(Observation)
      BY EmptySeq
    <3>2. queue' \in Seq(Calls) /\ results' \in Seq(Observation)
      BY <3>1
    <3>3. reply' \in {NoReply}
      OBVIOUS
    <3>4. formatRetries' \in 0..2 /\ concludeRetries' \in 0..1
      OBVIOUS
    <3>5. forced' \in BOOLEAN /\ announced' \in BOOLEAN
      OBVIOUS
    <3> QED BY <3>2, <3>3, <3>4, <3>5 DEF TempOK
  <2>3. RunOK'
    BY DEF RunOK, Nodes, Ended
  <2>4. (h \in History)'
    BY EmptySeq DEF NoHistory, History
  <2>5. Handoffs'
    BY DEF Handoffs
  <2> QED BY <2>1, <2>2, <2>3, <2>4, <2>5
<1>30. CASE \E kind \in {"guidance", "conclude"} : Send(kind)
  BY <1>30 DEF Send, ScratchpadOK, TempOK, RunOK, Handoffs
<1>31. CASE UNCHANGED vars
  BY <1>31 DEF vars, ScratchpadOK, TempOK, RunOK, Handoffs
<1> QED
  BY <1>1, <1>2, <1>3, <1>4, <1>5, <1>6, <1>7, <1>8, <1>9, <1>10, <1>11, <1>12, <1>13, <1>14, <1>15, <1>16, <1>17, <1>18, <1>19, <1>20, <1>21, <1>22, <1>23, <1>24, <1>25, <1>26, <1>27, <1>28, <1>29, <1>30, <1>31 DEF VisitNext, Next, Tick, Parse, Act, ReviewParse, Finished

-----------------------------------------------------------------------------
(* The inductive invariants: what each node may rely on. *)

\* The nodes of a turn that is still being worked on.
Working == Nodes \ (Ended \union {"max_iterations"})

\* An answer is judged at most once per thinking step, and the conclusion
\* calls of a turn are its first try and its one retry.
CostInv ==
  /\ h.thinks <= iteration
  /\ h.reviews <= h.thinks
  /\ node \in {"parse", "maybe_review", "review"} => h.reviews < h.thinks
  /\ node \in {"review_parse", "done"} => h.thinks > 0
  /\ node \in Working => h.concludes = 0 /\ concludeRetries = 0
  /\ node = "max_iterations" =>
       h.concludes = concludeRetries + (IF reply = NoReply THEN 0 ELSE 1)
  /\ h.concludes <= 2

\* review_count counts at least the rounds since the model's own results: only
\* the results of a batch the verifier did not force reset it.
ReviewInv ==
  /\ h.rounds <= reviewCount
  /\ node = "review" => h.rounds < reviewCount
  /\ /\ node \in {"act", "observe", "waiting", "handle_user_response"}
     /\ h.src = "verifier"
     /\ ~forced
     => h.rounds = 0

\* A nudge is in the inbox until a model call carries it, and parse judges a
\* proposal only after such a call.
NudgeInv ==
  /\ node = "reason" => \A key \in DOMAIN nudged : key \in heard \/ Nudge(key) \in inbox
  /\ node \in Working \ {"reason"} => DOMAIN nudged \subseteq heard
  /\ node \in Working => stuck = NoStreak

\* The bookkeeping of a turn's report starts clean and is set only on the way
\* to the conclusion.
ReportInv ==
  /\ node \in Working =>
       /\ h.announces = 0 /\ ~announced
       /\ h.cause = "none"
       /\ out = NoOut
  /\ node \in {"max_iterations", "failed"} => out = NoOut
  /\ node = "max_iterations" =>
       /\ h.announces = IF announced THEN 1 ELSE 0
       /\ reply # NoReply => announced
       /\ h.cause \in {"iteration_budget", "operator_conclude", "stuck"}
  /\ h.announces <= 1
  /\ stuck # NoStreak <=> h.cause = "stuck"
  /\ h.cause = "operator_conclude" => concluded
  /\ h.cause = "bad_call" => node = "failed"
  /\ reviewSkipped => h.absorbed
  /\ h.repairs = formatRetries

\* What the invariants take from the types.
LEMMA TypeFacts ==
  ASSUME TypeOK
  PROVE  /\ iteration \in Nat /\ concludeRetries \in {0, 1} /\ reviewCount \in Nat
         /\ formatRetries \in Nat /\ node \in Nodes /\ forced \in BOOLEAN
         /\ announced \in BOOLEAN /\ concluded \in BOOLEAN /\ reviewSkipped \in BOOLEAN
         /\ DOMAIN h = DOMAIN NoHistory
BY LoopAssumption DEF TypeOK, ScratchpadOK, TempOK, RunOK, History, NoHistory

\* Replies are told apart from the absence of one.
LEMMA ReplyIsThere ==
  NoReply \notin ModelReply \union VerifierReply \union ConclusionReply
BY DEF NoReply, ModelReply, VerifierReply, ConclusionReply, Talk

\* Every step keeps the call counts within what the iterations pay for.
LEMMA CostStep ==
  ASSUME TypeOK, Handoffs, CostInv, [VisitNext]_vars
  PROVE  CostInv'
<1> USE DEF CostInv, TypeOK, Handoffs, Working, Nodes, Ended, scratchpad, temp
<1>1. CASE ReasonOutOfBudget
  BY <1>1, TypeFacts, HistoryCounts, ReplyIsThere DEF ReasonOutOfBudget, BudgetLeft
<1>2. CASE ReasonConclude
  BY <1>2, TypeFacts, HistoryCounts, ReplyIsThere DEF ReasonConclude, BudgetLeft
<1>3. CASE ReasonCall
  BY <1>3, TypeFacts, HistoryCounts, ReplyIsThere DEF ReasonCall, BudgetLeft, CallModel
<1>4. CASE ParseStuckStop
  BY <1>4, TypeFacts, HistoryCounts, ReplyIsThere DEF ParseStuckStop, ParseProposal
<1>5. CASE ParseStuckRefuse
  BY <1>5, TypeFacts, HistoryCounts, ReplyIsThere DEF ParseStuckRefuse, ParseProposal
<1>6. CASE ParseRepeatGuard
  BY <1>6, TypeFacts, HistoryCounts, ReplyIsThere DEF ParseRepeatGuard, ParseProposal
<1>7. CASE ParseCalls
  BY <1>7, TypeFacts, HistoryCounts, ReplyIsThere DEF ParseCalls, ParseProposal
<1>8. CASE ParseBadCall
  BY <1>8, TypeFacts, HistoryCounts, ReplyIsThere DEF ParseBadCall, ParseSpeech
<1>9. CASE ParseBadCallFails
  BY <1>9, TypeFacts, HistoryCounts, ReplyIsThere DEF ParseBadCallFails, ParseSpeech
<1>10. CASE ParseRetry
  BY <1>10, TypeFacts, HistoryCounts, ReplyIsThere DEF ParseRetry, ParseSpeech
<1>11. CASE ParseAnswer
  BY <1>11, TypeFacts, HistoryCounts, ReplyIsThere DEF ParseAnswer, ParseSpeech
<1>12. CASE ActBlocked
  BY <1>12, TypeFacts, HistoryCounts, ReplyIsThere DEF ActBlocked, ActStep
<1>13. CASE ActAskUser
  BY <1>13, TypeFacts, HistoryCounts, ReplyIsThere DEF ActAskUser, ActStep
<1>14. CASE ActBuiltin
  BY <1>14, TypeFacts, HistoryCounts, ReplyIsThere DEF ActBuiltin, ActStep
<1>15. CASE ActBatch
  BY <1>15, TypeFacts, HistoryCounts, ReplyIsThere DEF ActBatch, ActStep
<1>16. CASE Observe
  BY <1>16, TypeFacts, HistoryCounts, ReplyIsThere DEF Observe
<1>17. CASE UserReplies
  BY <1>17, TypeFacts, HistoryCounts, ReplyIsThere DEF UserReplies
<1>18. CASE HandleUserResponse
  BY <1>18, TypeFacts, HistoryCounts, ReplyIsThere DEF HandleUserResponse
<1>19. CASE MaybeReview
  BY <1>19, TypeFacts, HistoryCounts, ReplyIsThere DEF MaybeReview
<1>20. CASE Review
  BY <1>20, TypeFacts, HistoryCounts, ReplyIsThere DEF Review
<1>21. CASE ReviewParseAbsorbed
  BY <1>21, TypeFacts, HistoryCounts, ReplyIsThere DEF ReviewParseAbsorbed, ReviewParseStep
<1>22. CASE ReviewParseAccept
  BY <1>22, TypeFacts, HistoryCounts, ReplyIsThere DEF ReviewParseAccept, ReviewParseStep
<1>23. CASE ReviewParseCalls
  BY <1>23, TypeFacts, HistoryCounts, ReplyIsThere DEF ReviewParseCalls, ReviewParseStep
<1>24. CASE ReviewParsePrompt
  BY <1>24, TypeFacts, HistoryCounts, ReplyIsThere DEF ReviewParsePrompt, ReviewParseStep
<1>25. CASE Done
  BY <1>25, TypeFacts, HistoryCounts, ReplyIsThere DEF Done, EndNode
<1>26. CASE ConcludeCall
  BY <1>26, TypeFacts, HistoryCounts, ReplyIsThere DEF ConcludeCall, CallModel
<1>27. CASE ConcludeRetry
  BY <1>27, TypeFacts, HistoryCounts, ReplyIsThere DEF ConcludeRetry, ConcludeStep
<1>28. CASE ConcludeFinish
  BY <1>28, TypeFacts, HistoryCounts, ReplyIsThere DEF ConcludeFinish, ConcludeStep, EndNode
<1>29. CASE NextTurn
  BY <1>29, TypeFacts DEF NextTurn, FreshScratch, FreshTemp, FreshCarriers, NoHistory
<1>30. CASE \E kind \in {"guidance", "conclude"} : Send(kind)
  BY <1>30, TypeFacts, HistoryCounts DEF Send
<1>31. CASE UNCHANGED vars
  BY <1>31, TypeFacts, HistoryCounts DEF vars
<1> QED
  BY <1>1, <1>2, <1>3, <1>4, <1>5, <1>6, <1>7, <1>8, <1>9, <1>10, <1>11, <1>12, <1>13, <1>14, <1>15, <1>16, <1>17, <1>18, <1>19, <1>20, <1>21, <1>22, <1>23, <1>24, <1>25, <1>26, <1>27, <1>28, <1>29, <1>30, <1>31 DEF VisitNext, Next, Tick, Parse, Act, ReviewParse, Finished

\* Every step keeps the verifier rounds within review_count.
LEMMA ReviewStep ==
  ASSUME TypeOK, ReviewInv, [VisitNext]_vars
  PROVE  ReviewInv'
<1> USE DEF ReviewInv, TypeOK, Working, Nodes, Ended, scratchpad, temp
<1>1. CASE ReasonOutOfBudget
  BY <1>1, TypeFacts, HistoryCounts DEF ReasonOutOfBudget, BudgetLeft
<1>2. CASE ReasonConclude
  BY <1>2, TypeFacts, HistoryCounts DEF ReasonConclude, BudgetLeft
<1>3. CASE ReasonCall
  BY <1>3, TypeFacts, HistoryCounts DEF ReasonCall, BudgetLeft, CallModel
<1>4. CASE ParseStuckStop
  BY <1>4, TypeFacts, HistoryCounts DEF ParseStuckStop, ParseProposal
<1>5. CASE ParseStuckRefuse
  BY <1>5, TypeFacts, HistoryCounts DEF ParseStuckRefuse, ParseProposal
<1>6. CASE ParseRepeatGuard
  BY <1>6, TypeFacts, HistoryCounts DEF ParseRepeatGuard, ParseProposal
<1>7. CASE ParseCalls
  BY <1>7, TypeFacts, HistoryCounts DEF ParseCalls, ParseProposal
<1>8. CASE ParseBadCall
  BY <1>8, TypeFacts, HistoryCounts DEF ParseBadCall, ParseSpeech
<1>9. CASE ParseBadCallFails
  BY <1>9, TypeFacts, HistoryCounts DEF ParseBadCallFails, ParseSpeech
<1>10. CASE ParseRetry
  BY <1>10, TypeFacts, HistoryCounts DEF ParseRetry, ParseSpeech
<1>11. CASE ParseAnswer
  BY <1>11, TypeFacts, HistoryCounts DEF ParseAnswer, ParseSpeech
<1>12. CASE ActBlocked
  BY <1>12, TypeFacts, HistoryCounts DEF ActBlocked, ActStep
<1>13. CASE ActAskUser
  BY <1>13, TypeFacts, HistoryCounts DEF ActAskUser, ActStep
<1>14. CASE ActBuiltin
  BY <1>14, TypeFacts, HistoryCounts DEF ActBuiltin, ActStep
<1>15. CASE ActBatch
  BY <1>15, TypeFacts, HistoryCounts DEF ActBatch, ActStep
<1>16. CASE Observe
  <2>1. CASE h.src = "model"
    <3>1. h'.rounds = 0
      BY <1>16, <2>1, TypeFacts DEF Observe, NoHistory
    <3> QED BY <1>16, <3>1, TypeFacts DEF Observe, ReviewCountAfterResults
  <2>2. CASE h.src = "verifier"
    <3>1. h' = h /\ ~forced => h.rounds = 0
      BY <1>16, <2>2 DEF Observe
    <3> QED BY <1>16, <2>2, <3>1, TypeFacts, HistoryCounts DEF Observe, ReviewCountAfterResults
  <2> QED BY <2>1, <2>2 DEF History
<1>17. CASE UserReplies
  BY <1>17, TypeFacts, HistoryCounts DEF UserReplies
<1>18. CASE HandleUserResponse
  BY <1>18, TypeFacts, HistoryCounts DEF HandleUserResponse
<1>19. CASE MaybeReview
  BY <1>19, TypeFacts, HistoryCounts DEF MaybeReview
<1>20. CASE Review
  BY <1>20, TypeFacts, HistoryCounts DEF Review
<1>21. CASE ReviewParseAbsorbed
  BY <1>21, TypeFacts, HistoryCounts DEF ReviewParseAbsorbed, ReviewParseStep
<1>22. CASE ReviewParseAccept
  BY <1>22, TypeFacts, HistoryCounts DEF ReviewParseAccept, ReviewParseStep
<1>23. CASE ReviewParseCalls
  BY <1>23, TypeFacts, HistoryCounts DEF ReviewParseCalls, ReviewParseStep
<1>24. CASE ReviewParsePrompt
  BY <1>24, TypeFacts, HistoryCounts DEF ReviewParsePrompt, ReviewParseStep
<1>25. CASE Done
  BY <1>25, TypeFacts, HistoryCounts DEF Done, EndNode
<1>26. CASE ConcludeCall
  BY <1>26, TypeFacts, HistoryCounts DEF ConcludeCall, CallModel
<1>27. CASE ConcludeRetry
  BY <1>27, TypeFacts, HistoryCounts DEF ConcludeRetry, ConcludeStep
<1>28. CASE ConcludeFinish
  BY <1>28, TypeFacts, HistoryCounts DEF ConcludeFinish, ConcludeStep, EndNode
<1>29. CASE NextTurn
  BY <1>29, TypeFacts DEF NextTurn, FreshScratch, FreshTemp, FreshCarriers, NoHistory
<1>30. CASE \E kind \in {"guidance", "conclude"} : Send(kind)
  BY <1>30, TypeFacts, HistoryCounts DEF Send
<1>31. CASE UNCHANGED vars
  BY <1>31, TypeFacts, HistoryCounts DEF vars
<1> QED
  BY <1>1, <1>2, <1>3, <1>4, <1>5, <1>6, <1>7, <1>8, <1>9, <1>10, <1>11, <1>12, <1>13, <1>14, <1>15, <1>16, <1>17, <1>18, <1>19, <1>20, <1>21, <1>22, <1>23, <1>24, <1>25, <1>26, <1>27, <1>28, <1>29, <1>30, <1>31 DEF VisitNext, Next, Tick, Parse, Act, ReviewParse, Finished

\* Every step keeps an undelivered nudge in the inbox.
LEMMA NudgeStep ==
  ASSUME TypeOK, NudgeInv, [VisitNext]_vars
  PROVE  NudgeInv'
<1> USE DEF NudgeInv, Working, Nodes, Ended, scratchpad, temp
<1>1. CASE ReasonOutOfBudget
  BY <1>1 DEF ReasonOutOfBudget, BudgetLeft
<1>2. CASE ReasonConclude
  BY <1>2 DEF ReasonConclude, BudgetLeft, Nudge
<1>3. CASE ReasonCall
  <2>1. \A key : Nudge(key) \in inbox => key \in NudgesIn(inbox)
    BY DEF Nudge, NudgesIn
  <2> QED BY <1>3, <2>1 DEF ReasonCall, BudgetLeft, CallModel
<1>4. CASE ParseStuckStop
  BY <1>4 DEF ParseStuckStop, ParseProposal
<1>5. CASE ParseStuckRefuse
  BY <1>5 DEF ParseStuckRefuse, ParseProposal
<1>6. CASE ParseRepeatGuard
  BY <1>6 DEF ParseRepeatGuard, ParseProposal
<1>7. CASE ParseCalls
  BY <1>7 DEF ParseCalls, ParseProposal
<1>8. CASE ParseBadCall
  BY <1>8 DEF ParseBadCall, ParseSpeech
<1>9. CASE ParseBadCallFails
  BY <1>9 DEF ParseBadCallFails, ParseSpeech
<1>10. CASE ParseRetry
  BY <1>10 DEF ParseRetry, ParseSpeech
<1>11. CASE ParseAnswer
  BY <1>11 DEF ParseAnswer, ParseSpeech
<1>12. CASE ActBlocked
  BY <1>12 DEF ActBlocked, ActStep
<1>13. CASE ActAskUser
  BY <1>13 DEF ActAskUser, ActStep
<1>14. CASE ActBuiltin
  BY <1>14 DEF ActBuiltin, ActStep
<1>15. CASE ActBatch
  BY <1>15 DEF ActBatch, ActStep
<1>16. CASE Observe
  BY <1>16 DEF Observe
<1>17. CASE UserReplies
  BY <1>17 DEF UserReplies
<1>18. CASE HandleUserResponse
  BY <1>18 DEF HandleUserResponse, NoNudges
<1>19. CASE MaybeReview
  BY <1>19 DEF MaybeReview
<1>20. CASE Review
  BY <1>20 DEF Review
<1>21. CASE ReviewParseAbsorbed
  BY <1>21 DEF ReviewParseAbsorbed, ReviewParseStep
<1>22. CASE ReviewParseAccept
  BY <1>22 DEF ReviewParseAccept, ReviewParseStep
<1>23. CASE ReviewParseCalls
  BY <1>23 DEF ReviewParseCalls, ReviewParseStep
<1>24. CASE ReviewParsePrompt
  BY <1>24 DEF ReviewParsePrompt, ReviewParseStep
<1>25. CASE Done
  BY <1>25 DEF Done, EndNode
<1>26. CASE ConcludeCall
  BY <1>26 DEF ConcludeCall, CallModel
<1>27. CASE ConcludeRetry
  BY <1>27 DEF ConcludeRetry, ConcludeStep
<1>28. CASE ConcludeFinish
  BY <1>28 DEF ConcludeFinish, ConcludeStep, EndNode
<1>29. CASE NextTurn
  BY <1>29 DEF NextTurn, FreshScratch, FreshTemp, FreshCarriers, NoNudges
<1>30. CASE \E kind \in {"guidance", "conclude"} : Send(kind)
  BY <1>30 DEF Send
<1>31. CASE UNCHANGED vars
  BY <1>31 DEF vars
<1> QED
  BY <1>1, <1>2, <1>3, <1>4, <1>5, <1>6, <1>7, <1>8, <1>9, <1>10, <1>11, <1>12, <1>13, <1>14, <1>15, <1>16, <1>17, <1>18, <1>19, <1>20, <1>21, <1>22, <1>23, <1>24, <1>25, <1>26, <1>27, <1>28, <1>29, <1>30, <1>31 DEF VisitNext, Next, Tick, Parse, Act, ReviewParse, Finished

\* Every step keeps the bookkeeping of the report to its own turn.
LEMMA ReportStep ==
  ASSUME TypeOK, Handoffs, NudgeInv, ReportInv, [VisitNext]_vars
  PROVE  ReportInv'
<1> USE DEF ReportInv, NudgeInv, TypeOK, Handoffs, Working, Nodes, Ended, scratchpad, temp
<1>1. CASE ReasonOutOfBudget
  BY <1>1, TypeFacts, HistoryCounts, ReplyIsThere DEF ReasonOutOfBudget, BudgetLeft
<1>2. CASE ReasonConclude
  BY <1>2, TypeFacts, HistoryCounts, ReplyIsThere DEF ReasonConclude, BudgetLeft
<1>3. CASE ReasonCall
  BY <1>3, TypeFacts, HistoryCounts, ReplyIsThere DEF ReasonCall, BudgetLeft, CallModel
<1>4. CASE ParseStuckStop
  BY <1>4, TypeFacts, HistoryCounts, HitsType DEF ParseStuckStop, ParseProposal, NoStreak
<1>5. CASE ParseStuckRefuse
  BY <1>5, TypeFacts, HistoryCounts, ReplyIsThere DEF ParseStuckRefuse, ParseProposal
<1>6. CASE ParseRepeatGuard
  BY <1>6, TypeFacts, HistoryCounts, ReplyIsThere DEF ParseRepeatGuard, ParseProposal
<1>7. CASE ParseCalls
  BY <1>7, TypeFacts, HistoryCounts, ReplyIsThere DEF ParseCalls, ParseProposal
<1>8. CASE ParseBadCall
  BY <1>8, TypeFacts, HistoryCounts, ReplyIsThere DEF ParseBadCall, ParseSpeech
<1>9. CASE ParseBadCallFails
  BY <1>9, TypeFacts, HistoryCounts, ReplyIsThere DEF ParseBadCallFails, ParseSpeech
<1>10. CASE ParseRetry
  BY <1>10, TypeFacts, HistoryCounts, ReplyIsThere DEF ParseRetry, ParseSpeech
<1>11. CASE ParseAnswer
  BY <1>11, TypeFacts, HistoryCounts, ReplyIsThere DEF ParseAnswer, ParseSpeech
<1>12. CASE ActBlocked
  BY <1>12, TypeFacts, HistoryCounts, ReplyIsThere DEF ActBlocked, ActStep
<1>13. CASE ActAskUser
  BY <1>13, TypeFacts, HistoryCounts, ReplyIsThere DEF ActAskUser, ActStep
<1>14. CASE ActBuiltin
  BY <1>14, TypeFacts, HistoryCounts, ReplyIsThere DEF ActBuiltin, ActStep
<1>15. CASE ActBatch
  BY <1>15, TypeFacts, HistoryCounts, ReplyIsThere DEF ActBatch, ActStep
<1>16. CASE Observe
  BY <1>16, TypeFacts, HistoryCounts, ReplyIsThere DEF Observe
<1>17. CASE UserReplies
  BY <1>17, TypeFacts, HistoryCounts, ReplyIsThere DEF UserReplies
<1>18. CASE HandleUserResponse
  BY <1>18, TypeFacts, HistoryCounts, ReplyIsThere DEF HandleUserResponse
<1>19. CASE MaybeReview
  BY <1>19, TypeFacts, HistoryCounts, ReplyIsThere DEF MaybeReview
<1>20. CASE Review
  BY <1>20, TypeFacts, HistoryCounts, ReplyIsThere DEF Review
<1>21. CASE ReviewParseAbsorbed
  BY <1>21, TypeFacts, HistoryCounts, ReplyIsThere DEF ReviewParseAbsorbed, ReviewParseStep
<1>22. CASE ReviewParseAccept
  BY <1>22, TypeFacts, HistoryCounts, ReplyIsThere DEF ReviewParseAccept, ReviewParseStep
<1>23. CASE ReviewParseCalls
  BY <1>23, TypeFacts, HistoryCounts, ReplyIsThere DEF ReviewParseCalls, ReviewParseStep
<1>24. CASE ReviewParsePrompt
  BY <1>24, TypeFacts, HistoryCounts, ReplyIsThere DEF ReviewParsePrompt, ReviewParseStep
<1>25. CASE Done
  BY <1>25, TypeFacts, HistoryCounts, ReplyIsThere DEF Done, EndNode
<1>26. CASE ConcludeCall
  BY <1>26, TypeFacts, HistoryCounts, ReplyIsThere DEF ConcludeCall, CallModel
<1>27. CASE ConcludeRetry
  BY <1>27, TypeFacts, HistoryCounts, ReplyIsThere DEF ConcludeRetry, ConcludeStep
<1>28. CASE ConcludeFinish
  BY <1>28, TypeFacts, HistoryCounts, ReplyIsThere DEF ConcludeFinish, ConcludeStep, EndNode
<1>29. CASE NextTurn
  BY <1>29, TypeFacts DEF NextTurn, FreshScratch, FreshTemp, FreshCarriers, NoHistory
<1>30. CASE \E kind \in {"guidance", "conclude"} : Send(kind)
  BY <1>30, TypeFacts, HistoryCounts DEF Send
<1>31. CASE UNCHANGED vars
  BY <1>31, TypeFacts, HistoryCounts DEF vars
<1> QED
  BY <1>1, <1>2, <1>3, <1>4, <1>5, <1>6, <1>7, <1>8, <1>9, <1>10, <1>11, <1>12, <1>13, <1>14, <1>15, <1>16, <1>17, <1>18, <1>19, <1>20, <1>21, <1>22, <1>23, <1>24, <1>25, <1>26, <1>27, <1>28, <1>29, <1>30, <1>31 DEF VisitNext, Next, Tick, Parse, Act, ReviewParse, Finished

\* parse stops only patterns whose nudge was heard, or past the nudge cap.
LEMMA NudgedBeforeStoppedStep ==
  ASSUME TypeOK, NudgeInv, NudgedBeforeStopped, [VisitNext]_vars
  PROVE  NudgedBeforeStopped'
<1> USE DEF NudgedBeforeStopped, TypeOK, NudgeInv, NoOut, Working, Nodes, Ended, scratchpad, temp
<1>1. CASE ReasonOutOfBudget
  BY <1>1, TypeFacts, HistoryCounts, ReplyIsThere DEF ReasonOutOfBudget, BudgetLeft
<1>2. CASE ReasonConclude
  BY <1>2, TypeFacts, HistoryCounts, ReplyIsThere DEF ReasonConclude, BudgetLeft
<1>3. CASE ReasonCall
  BY <1>3, TypeFacts, HistoryCounts, ReplyIsThere DEF ReasonCall, BudgetLeft, CallModel
<1>4. CASE ParseStuckStop
  <2>1. CASE Verdict.key \in DOMAIN nudged
    BY <1>4, <2>1 DEF ParseStuckStop, ParseProposal
  <2>2. CASE Verdict.key \notin DOMAIN nudged
    <3>1. Hits(Verdict, nudged) = 1
      BY <2>2, HitsType
    <3>2. HardThreshold = Absent => Cardinality(DOMAIN nudged) >= MaxNudges
      BY <1>4, <2>2, <3>1 DEF ParseStuckStop, MustStop, HardHits
    <3> QED BY <1>4, <2>2, <3>2 DEF ParseStuckStop, ParseProposal
  <2> QED BY <2>1, <2>2
<1>5. CASE ParseStuckRefuse
  BY <1>5, TypeFacts, HistoryCounts, ReplyIsThere DEF ParseStuckRefuse, ParseProposal
<1>6. CASE ParseRepeatGuard
  BY <1>6, TypeFacts, HistoryCounts, ReplyIsThere DEF ParseRepeatGuard, ParseProposal
<1>7. CASE ParseCalls
  BY <1>7, TypeFacts, HistoryCounts, ReplyIsThere DEF ParseCalls, ParseProposal
<1>8. CASE ParseBadCall
  BY <1>8, TypeFacts, HistoryCounts, ReplyIsThere DEF ParseBadCall, ParseSpeech
<1>9. CASE ParseBadCallFails
  BY <1>9, TypeFacts, HistoryCounts, ReplyIsThere DEF ParseBadCallFails, ParseSpeech
<1>10. CASE ParseRetry
  BY <1>10, TypeFacts, HistoryCounts, ReplyIsThere DEF ParseRetry, ParseSpeech
<1>11. CASE ParseAnswer
  BY <1>11, TypeFacts, HistoryCounts, ReplyIsThere DEF ParseAnswer, ParseSpeech
<1>12. CASE ActBlocked
  BY <1>12, TypeFacts, HistoryCounts, ReplyIsThere DEF ActBlocked, ActStep
<1>13. CASE ActAskUser
  BY <1>13, TypeFacts, HistoryCounts, ReplyIsThere DEF ActAskUser, ActStep
<1>14. CASE ActBuiltin
  BY <1>14, TypeFacts, HistoryCounts, ReplyIsThere DEF ActBuiltin, ActStep
<1>15. CASE ActBatch
  BY <1>15, TypeFacts, HistoryCounts, ReplyIsThere DEF ActBatch, ActStep
<1>16. CASE Observe
  BY <1>16, TypeFacts, HistoryCounts, ReplyIsThere DEF Observe
<1>17. CASE UserReplies
  BY <1>17, TypeFacts, HistoryCounts, ReplyIsThere DEF UserReplies
<1>18. CASE HandleUserResponse
  BY <1>18 DEF HandleUserResponse, NoNudges
<1>19. CASE MaybeReview
  BY <1>19, TypeFacts, HistoryCounts, ReplyIsThere DEF MaybeReview
<1>20. CASE Review
  BY <1>20, TypeFacts, HistoryCounts, ReplyIsThere DEF Review
<1>21. CASE ReviewParseAbsorbed
  BY <1>21, TypeFacts, HistoryCounts, ReplyIsThere DEF ReviewParseAbsorbed, ReviewParseStep
<1>22. CASE ReviewParseAccept
  BY <1>22, TypeFacts, HistoryCounts, ReplyIsThere DEF ReviewParseAccept, ReviewParseStep
<1>23. CASE ReviewParseCalls
  BY <1>23, TypeFacts, HistoryCounts, ReplyIsThere DEF ReviewParseCalls, ReviewParseStep
<1>24. CASE ReviewParsePrompt
  BY <1>24, TypeFacts, HistoryCounts, ReplyIsThere DEF ReviewParsePrompt, ReviewParseStep
<1>25. CASE Done
  BY <1>25, TypeFacts, HistoryCounts, ReplyIsThere DEF Done, EndNode, NoOut
<1>26. CASE ConcludeCall
  BY <1>26, TypeFacts, HistoryCounts, ReplyIsThere DEF ConcludeCall, CallModel
<1>27. CASE ConcludeRetry
  BY <1>27, TypeFacts, HistoryCounts, ReplyIsThere DEF ConcludeRetry, ConcludeStep
<1>28. CASE ConcludeFinish
  BY <1>28, TypeFacts, HistoryCounts, ReplyIsThere DEF ConcludeFinish, ConcludeStep, EndNode, StopCode
<1>29. CASE NextTurn
  BY <1>29, TypeFacts DEF NextTurn, FreshScratch, FreshTemp, FreshCarriers, NoHistory, NoOut
<1>30. CASE \E kind \in {"guidance", "conclude"} : Send(kind)
  BY <1>30, TypeFacts, HistoryCounts DEF Send
<1>31. CASE UNCHANGED vars
  BY <1>31, TypeFacts, HistoryCounts DEF vars
<1> QED
  BY <1>1, <1>2, <1>3, <1>4, <1>5, <1>6, <1>7, <1>8, <1>9, <1>10, <1>11, <1>12, <1>13, <1>14, <1>15, <1>16, <1>17, <1>18, <1>19, <1>20, <1>21, <1>22, <1>23, <1>24, <1>25, <1>26, <1>27, <1>28, <1>29, <1>30, <1>31 DEF VisitNext, Next, Tick, Parse, Act, ReviewParse, Finished

\* The announce latch holds within a turn and is re-armed between turns.
LEMMA AnnouncedOnceStep ==
  ASSUME TypeOK, ReportInv, Handoffs, AnnouncedOnce, [VisitNext]_vars
  PROVE  AnnouncedOnce'
<1> USE DEF AnnouncedOnce, TypeOK, ReportInv, Handoffs, NoOut, Working, Nodes, Ended, scratchpad, temp
<1>1. CASE ReasonOutOfBudget
  BY <1>1, TypeFacts, HistoryCounts, ReplyIsThere DEF ReasonOutOfBudget, BudgetLeft
<1>2. CASE ReasonConclude
  BY <1>2, TypeFacts, HistoryCounts, ReplyIsThere DEF ReasonConclude, BudgetLeft
<1>3. CASE ReasonCall
  BY <1>3, TypeFacts, HistoryCounts, ReplyIsThere DEF ReasonCall, BudgetLeft, CallModel
<1>4. CASE ParseStuckStop
  BY <1>4, TypeFacts, HistoryCounts, ReplyIsThere DEF ParseStuckStop, ParseProposal
<1>5. CASE ParseStuckRefuse
  BY <1>5, TypeFacts, HistoryCounts, ReplyIsThere DEF ParseStuckRefuse, ParseProposal
<1>6. CASE ParseRepeatGuard
  BY <1>6, TypeFacts, HistoryCounts, ReplyIsThere DEF ParseRepeatGuard, ParseProposal
<1>7. CASE ParseCalls
  BY <1>7, TypeFacts, HistoryCounts, ReplyIsThere DEF ParseCalls, ParseProposal
<1>8. CASE ParseBadCall
  BY <1>8, TypeFacts, HistoryCounts, ReplyIsThere DEF ParseBadCall, ParseSpeech
<1>9. CASE ParseBadCallFails
  BY <1>9, TypeFacts, HistoryCounts, ReplyIsThere DEF ParseBadCallFails, ParseSpeech
<1>10. CASE ParseRetry
  BY <1>10, TypeFacts, HistoryCounts, ReplyIsThere DEF ParseRetry, ParseSpeech
<1>11. CASE ParseAnswer
  BY <1>11, TypeFacts, HistoryCounts, ReplyIsThere DEF ParseAnswer, ParseSpeech
<1>12. CASE ActBlocked
  BY <1>12, TypeFacts, HistoryCounts, ReplyIsThere DEF ActBlocked, ActStep
<1>13. CASE ActAskUser
  BY <1>13, TypeFacts, HistoryCounts, ReplyIsThere DEF ActAskUser, ActStep
<1>14. CASE ActBuiltin
  BY <1>14, TypeFacts, HistoryCounts, ReplyIsThere DEF ActBuiltin, ActStep
<1>15. CASE ActBatch
  BY <1>15, TypeFacts, HistoryCounts, ReplyIsThere DEF ActBatch, ActStep
<1>16. CASE Observe
  BY <1>16, TypeFacts, HistoryCounts, ReplyIsThere DEF Observe
<1>17. CASE UserReplies
  BY <1>17, TypeFacts, HistoryCounts, ReplyIsThere DEF UserReplies
<1>18. CASE HandleUserResponse
  BY <1>18, TypeFacts, HistoryCounts, ReplyIsThere DEF HandleUserResponse
<1>19. CASE MaybeReview
  BY <1>19, TypeFacts, HistoryCounts, ReplyIsThere DEF MaybeReview
<1>20. CASE Review
  BY <1>20, TypeFacts, HistoryCounts, ReplyIsThere DEF Review
<1>21. CASE ReviewParseAbsorbed
  BY <1>21, TypeFacts, HistoryCounts, ReplyIsThere DEF ReviewParseAbsorbed, ReviewParseStep
<1>22. CASE ReviewParseAccept
  BY <1>22, TypeFacts, HistoryCounts, ReplyIsThere DEF ReviewParseAccept, ReviewParseStep
<1>23. CASE ReviewParseCalls
  BY <1>23, TypeFacts, HistoryCounts, ReplyIsThere DEF ReviewParseCalls, ReviewParseStep
<1>24. CASE ReviewParsePrompt
  BY <1>24, TypeFacts, HistoryCounts, ReplyIsThere DEF ReviewParsePrompt, ReviewParseStep
<1>25. CASE Done
  BY <1>25, TypeFacts, HistoryCounts, ReplyIsThere DEF Done, EndNode, NoOut
<1>26. CASE ConcludeCall
  BY <1>26, TypeFacts, HistoryCounts, ReplyIsThere DEF ConcludeCall, CallModel
<1>27. CASE ConcludeRetry
  BY <1>27, TypeFacts, HistoryCounts, ReplyIsThere DEF ConcludeRetry, ConcludeStep
<1>28. CASE ConcludeFinish
  BY <1>28, TypeFacts, HistoryCounts, ReplyIsThere DEF ConcludeFinish, ConcludeStep, EndNode, StopCode
<1>29. CASE NextTurn
  BY <1>29, TypeFacts DEF NextTurn, FreshScratch, FreshTemp, FreshCarriers, NoHistory, NoOut
<1>30. CASE \E kind \in {"guidance", "conclude"} : Send(kind)
  BY <1>30, TypeFacts, HistoryCounts DEF Send
<1>31. CASE UNCHANGED vars
  BY <1>31, TypeFacts, HistoryCounts DEF vars
<1> QED
  BY <1>1, <1>2, <1>3, <1>4, <1>5, <1>6, <1>7, <1>8, <1>9, <1>10, <1>11, <1>12, <1>13, <1>14, <1>15, <1>16, <1>17, <1>18, <1>19, <1>20, <1>21, <1>22, <1>23, <1>24, <1>25, <1>26, <1>27, <1>28, <1>29, <1>30, <1>31 DEF VisitNext, Next, Tick, Parse, Act, ReviewParse, Finished

\* The conclusion retry counter is the turn's own.
LEMMA ConclusionRetriedStep ==
  ASSUME TypeOK, CostInv, ReportInv, Handoffs, ConclusionRetried, [VisitNext]_vars
  PROVE  ConclusionRetried'
<1> USE DEF ConclusionRetried, TypeOK, CostInv, ReportInv, Handoffs, NoOut, Working, Nodes, Ended, scratchpad, temp
<1>1. CASE ReasonOutOfBudget
  BY <1>1, TypeFacts, HistoryCounts, ReplyIsThere DEF ReasonOutOfBudget, BudgetLeft
<1>2. CASE ReasonConclude
  BY <1>2, TypeFacts, HistoryCounts, ReplyIsThere DEF ReasonConclude, BudgetLeft
<1>3. CASE ReasonCall
  BY <1>3, TypeFacts, HistoryCounts, ReplyIsThere DEF ReasonCall, BudgetLeft, CallModel
<1>4. CASE ParseStuckStop
  BY <1>4, TypeFacts, HistoryCounts, ReplyIsThere DEF ParseStuckStop, ParseProposal
<1>5. CASE ParseStuckRefuse
  BY <1>5, TypeFacts, HistoryCounts, ReplyIsThere DEF ParseStuckRefuse, ParseProposal
<1>6. CASE ParseRepeatGuard
  BY <1>6, TypeFacts, HistoryCounts, ReplyIsThere DEF ParseRepeatGuard, ParseProposal
<1>7. CASE ParseCalls
  BY <1>7, TypeFacts, HistoryCounts, ReplyIsThere DEF ParseCalls, ParseProposal
<1>8. CASE ParseBadCall
  BY <1>8, TypeFacts, HistoryCounts, ReplyIsThere DEF ParseBadCall, ParseSpeech
<1>9. CASE ParseBadCallFails
  BY <1>9, TypeFacts, HistoryCounts, ReplyIsThere DEF ParseBadCallFails, ParseSpeech
<1>10. CASE ParseRetry
  BY <1>10, TypeFacts, HistoryCounts, ReplyIsThere DEF ParseRetry, ParseSpeech
<1>11. CASE ParseAnswer
  BY <1>11, TypeFacts, HistoryCounts, ReplyIsThere DEF ParseAnswer, ParseSpeech
<1>12. CASE ActBlocked
  BY <1>12, TypeFacts, HistoryCounts, ReplyIsThere DEF ActBlocked, ActStep
<1>13. CASE ActAskUser
  BY <1>13, TypeFacts, HistoryCounts, ReplyIsThere DEF ActAskUser, ActStep
<1>14. CASE ActBuiltin
  BY <1>14, TypeFacts, HistoryCounts, ReplyIsThere DEF ActBuiltin, ActStep
<1>15. CASE ActBatch
  BY <1>15, TypeFacts, HistoryCounts, ReplyIsThere DEF ActBatch, ActStep
<1>16. CASE Observe
  BY <1>16, TypeFacts, HistoryCounts, ReplyIsThere DEF Observe
<1>17. CASE UserReplies
  BY <1>17, TypeFacts, HistoryCounts, ReplyIsThere DEF UserReplies
<1>18. CASE HandleUserResponse
  BY <1>18, TypeFacts, HistoryCounts, ReplyIsThere DEF HandleUserResponse
<1>19. CASE MaybeReview
  BY <1>19, TypeFacts, HistoryCounts, ReplyIsThere DEF MaybeReview
<1>20. CASE Review
  BY <1>20, TypeFacts, HistoryCounts, ReplyIsThere DEF Review
<1>21. CASE ReviewParseAbsorbed
  BY <1>21, TypeFacts, HistoryCounts, ReplyIsThere DEF ReviewParseAbsorbed, ReviewParseStep
<1>22. CASE ReviewParseAccept
  BY <1>22, TypeFacts, HistoryCounts, ReplyIsThere DEF ReviewParseAccept, ReviewParseStep
<1>23. CASE ReviewParseCalls
  BY <1>23, TypeFacts, HistoryCounts, ReplyIsThere DEF ReviewParseCalls, ReviewParseStep
<1>24. CASE ReviewParsePrompt
  BY <1>24, TypeFacts, HistoryCounts, ReplyIsThere DEF ReviewParsePrompt, ReviewParseStep
<1>25. CASE Done
  BY <1>25, TypeFacts, HistoryCounts, ReplyIsThere DEF Done, EndNode, NoOut
<1>26. CASE ConcludeCall
  BY <1>26, TypeFacts, HistoryCounts, ReplyIsThere DEF ConcludeCall, CallModel
<1>27. CASE ConcludeRetry
  BY <1>27, TypeFacts, HistoryCounts, ReplyIsThere DEF ConcludeRetry, ConcludeStep
<1>28. CASE ConcludeFinish
  BY <1>28, TypeFacts, HistoryCounts, ReplyIsThere DEF ConcludeFinish, ConcludeStep, EndNode, StopCode
<1>29. CASE NextTurn
  BY <1>29, TypeFacts DEF NextTurn, FreshScratch, FreshTemp, FreshCarriers, NoHistory, NoOut
<1>30. CASE \E kind \in {"guidance", "conclude"} : Send(kind)
  BY <1>30, TypeFacts, HistoryCounts DEF Send
<1>31. CASE UNCHANGED vars
  BY <1>31, TypeFacts, HistoryCounts DEF vars
<1> QED
  BY <1>1, <1>2, <1>3, <1>4, <1>5, <1>6, <1>7, <1>8, <1>9, <1>10, <1>11, <1>12, <1>13, <1>14, <1>15, <1>16, <1>17, <1>18, <1>19, <1>20, <1>21, <1>22, <1>23, <1>24, <1>25, <1>26, <1>27, <1>28, <1>29, <1>30, <1>31 DEF VisitNext, Next, Tick, Parse, Act, ReviewParse, Finished

\* The format repair counter is the turn's own.
LEMMA RepairsArePerTurnStep ==
  ASSUME TypeOK, ReportInv, Handoffs, CostInv, RepairsArePerTurn, [VisitNext]_vars
  PROVE  RepairsArePerTurn'
<1> USE DEF RepairsArePerTurn, TypeOK, ReportInv, Handoffs, CostInv, NoOut, Working, Nodes, Ended, scratchpad, temp
<1>1. CASE ReasonOutOfBudget
  BY <1>1, TypeFacts, HistoryCounts, ReplyIsThere DEF ReasonOutOfBudget, BudgetLeft
<1>2. CASE ReasonConclude
  BY <1>2, TypeFacts, HistoryCounts, ReplyIsThere DEF ReasonConclude, BudgetLeft
<1>3. CASE ReasonCall
  BY <1>3, TypeFacts, HistoryCounts, ReplyIsThere DEF ReasonCall, BudgetLeft, CallModel
<1>4. CASE ParseStuckStop
  BY <1>4, TypeFacts, HistoryCounts, ReplyIsThere DEF ParseStuckStop, ParseProposal
<1>5. CASE ParseStuckRefuse
  BY <1>5, TypeFacts, HistoryCounts, ReplyIsThere DEF ParseStuckRefuse, ParseProposal
<1>6. CASE ParseRepeatGuard
  BY <1>6, TypeFacts, HistoryCounts, ReplyIsThere DEF ParseRepeatGuard, ParseProposal
<1>7. CASE ParseCalls
  BY <1>7, TypeFacts, HistoryCounts, ReplyIsThere DEF ParseCalls, ParseProposal
<1>8. CASE ParseBadCall
  BY <1>8, TypeFacts, HistoryCounts, ReplyIsThere DEF ParseBadCall, ParseSpeech
<1>9. CASE ParseBadCallFails
  <2>1. CASE iteration = MaxIterations
    BY <1>9, <2>1, TypeFacts DEF ParseBadCallFails, ParseSpeech
  <2>2. CASE iteration # MaxIterations
    <3>1. iteration < MaxIterations /\ formatRetries \in 0..2
      BY <2>2, LoopAssumption DEF ScratchpadOK, TempOK
    <3>2. Batches # {} => h.repairs = 2
      BY <1>9, <3>1, LoopAssumption DEF ParseBadCallFails, RepairLeft
    <3>3. h'.repairs = h.repairs
      BY <1>9, TypeFacts DEF ParseBadCallFails, NoHistory
    <3> QED BY <3>2, <3>3
  <2> QED BY <2>1, <2>2
<1>10. CASE ParseRetry
  BY <1>10, TypeFacts, HistoryCounts, ReplyIsThere DEF ParseRetry, ParseSpeech
<1>11. CASE ParseAnswer
  BY <1>11, TypeFacts, HistoryCounts, ReplyIsThere DEF ParseAnswer, ParseSpeech
<1>12. CASE ActBlocked
  BY <1>12, TypeFacts, HistoryCounts, ReplyIsThere DEF ActBlocked, ActStep
<1>13. CASE ActAskUser
  BY <1>13, TypeFacts, HistoryCounts, ReplyIsThere DEF ActAskUser, ActStep
<1>14. CASE ActBuiltin
  BY <1>14, TypeFacts, HistoryCounts, ReplyIsThere DEF ActBuiltin, ActStep
<1>15. CASE ActBatch
  BY <1>15, TypeFacts, HistoryCounts, ReplyIsThere DEF ActBatch, ActStep
<1>16. CASE Observe
  BY <1>16, TypeFacts, HistoryCounts, ReplyIsThere DEF Observe
<1>17. CASE UserReplies
  BY <1>17, TypeFacts, HistoryCounts, ReplyIsThere DEF UserReplies
<1>18. CASE HandleUserResponse
  BY <1>18, TypeFacts, HistoryCounts, ReplyIsThere DEF HandleUserResponse
<1>19. CASE MaybeReview
  BY <1>19, TypeFacts, HistoryCounts, ReplyIsThere DEF MaybeReview
<1>20. CASE Review
  BY <1>20, TypeFacts, HistoryCounts, ReplyIsThere DEF Review
<1>21. CASE ReviewParseAbsorbed
  BY <1>21, TypeFacts, HistoryCounts, ReplyIsThere DEF ReviewParseAbsorbed, ReviewParseStep
<1>22. CASE ReviewParseAccept
  BY <1>22, TypeFacts, HistoryCounts, ReplyIsThere DEF ReviewParseAccept, ReviewParseStep
<1>23. CASE ReviewParseCalls
  BY <1>23, TypeFacts, HistoryCounts, ReplyIsThere DEF ReviewParseCalls, ReviewParseStep
<1>24. CASE ReviewParsePrompt
  BY <1>24, TypeFacts, HistoryCounts, ReplyIsThere DEF ReviewParsePrompt, ReviewParseStep
<1>25. CASE Done
  BY <1>25, TypeFacts, HistoryCounts, ReplyIsThere DEF Done, EndNode, NoOut
<1>26. CASE ConcludeCall
  BY <1>26, TypeFacts, HistoryCounts, ReplyIsThere DEF ConcludeCall, CallModel
<1>27. CASE ConcludeRetry
  BY <1>27, TypeFacts, HistoryCounts, ReplyIsThere DEF ConcludeRetry, ConcludeStep
<1>28. CASE ConcludeFinish
  BY <1>28, TypeFacts, HistoryCounts, ReplyIsThere DEF ConcludeFinish, ConcludeStep, EndNode, StopCode
<1>29. CASE NextTurn
  BY <1>29, TypeFacts DEF NextTurn, FreshScratch, FreshTemp, FreshCarriers, NoHistory, NoOut
<1>30. CASE \E kind \in {"guidance", "conclude"} : Send(kind)
  BY <1>30, TypeFacts, HistoryCounts DEF Send
<1>31. CASE UNCHANGED vars
  BY <1>31, TypeFacts, HistoryCounts DEF vars
<1> QED
  BY <1>1, <1>2, <1>3, <1>4, <1>5, <1>6, <1>7, <1>8, <1>9, <1>10, <1>11, <1>12, <1>13, <1>14, <1>15, <1>16, <1>17, <1>18, <1>19, <1>20, <1>21, <1>22, <1>23, <1>24, <1>25, <1>26, <1>27, <1>28, <1>29, <1>30, <1>31 DEF VisitNext, Next, Tick, Parse, Act, ReviewParse, Finished

\* The stuck verdict and the unreviewed mark are the turn's own.
LEMMA ReportIsThisTurnsStep ==
  ASSUME TypeOK, ReportInv, Handoffs, NudgeInv, ReportIsThisTurns, [VisitNext]_vars
  PROVE  ReportIsThisTurns'
<1> USE DEF ReportIsThisTurns, TypeOK, ReportInv, Handoffs, NudgeInv, NoOut, Working, Nodes, Ended, scratchpad, temp
<1>1. CASE ReasonOutOfBudget
  BY <1>1, TypeFacts, HistoryCounts, ReplyIsThere DEF ReasonOutOfBudget, BudgetLeft
<1>2. CASE ReasonConclude
  BY <1>2, TypeFacts, HistoryCounts, ReplyIsThere DEF ReasonConclude, BudgetLeft
<1>3. CASE ReasonCall
  BY <1>3, TypeFacts, HistoryCounts, ReplyIsThere DEF ReasonCall, BudgetLeft, CallModel
<1>4. CASE ParseStuckStop
  BY <1>4, TypeFacts, HistoryCounts, ReplyIsThere DEF ParseStuckStop, ParseProposal
<1>5. CASE ParseStuckRefuse
  BY <1>5, TypeFacts, HistoryCounts, ReplyIsThere DEF ParseStuckRefuse, ParseProposal
<1>6. CASE ParseRepeatGuard
  BY <1>6, TypeFacts, HistoryCounts, ReplyIsThere DEF ParseRepeatGuard, ParseProposal
<1>7. CASE ParseCalls
  BY <1>7, TypeFacts, HistoryCounts, ReplyIsThere DEF ParseCalls, ParseProposal
<1>8. CASE ParseBadCall
  BY <1>8, TypeFacts, HistoryCounts, ReplyIsThere DEF ParseBadCall, ParseSpeech
<1>9. CASE ParseBadCallFails
  BY <1>9, TypeFacts, HistoryCounts, ReplyIsThere DEF ParseBadCallFails, ParseSpeech
<1>10. CASE ParseRetry
  BY <1>10, TypeFacts, HistoryCounts, ReplyIsThere DEF ParseRetry, ParseSpeech
<1>11. CASE ParseAnswer
  BY <1>11, TypeFacts, HistoryCounts, ReplyIsThere DEF ParseAnswer, ParseSpeech
<1>12. CASE ActBlocked
  BY <1>12, TypeFacts, HistoryCounts, ReplyIsThere DEF ActBlocked, ActStep
<1>13. CASE ActAskUser
  BY <1>13, TypeFacts, HistoryCounts, ReplyIsThere DEF ActAskUser, ActStep
<1>14. CASE ActBuiltin
  BY <1>14, TypeFacts, HistoryCounts, ReplyIsThere DEF ActBuiltin, ActStep
<1>15. CASE ActBatch
  BY <1>15, TypeFacts, HistoryCounts, ReplyIsThere DEF ActBatch, ActStep
<1>16. CASE Observe
  BY <1>16, TypeFacts, HistoryCounts, ReplyIsThere DEF Observe
<1>17. CASE UserReplies
  BY <1>17, TypeFacts, HistoryCounts, ReplyIsThere DEF UserReplies
<1>18. CASE HandleUserResponse
  BY <1>18, TypeFacts, HistoryCounts, ReplyIsThere DEF HandleUserResponse
<1>19. CASE MaybeReview
  BY <1>19, TypeFacts, HistoryCounts, ReplyIsThere DEF MaybeReview
<1>20. CASE Review
  BY <1>20, TypeFacts, HistoryCounts, ReplyIsThere DEF Review
<1>21. CASE ReviewParseAbsorbed
  BY <1>21, TypeFacts, HistoryCounts, ReplyIsThere DEF ReviewParseAbsorbed, ReviewParseStep
<1>22. CASE ReviewParseAccept
  BY <1>22, TypeFacts, HistoryCounts, ReplyIsThere DEF ReviewParseAccept, ReviewParseStep
<1>23. CASE ReviewParseCalls
  BY <1>23, TypeFacts, HistoryCounts, ReplyIsThere DEF ReviewParseCalls, ReviewParseStep
<1>24. CASE ReviewParsePrompt
  BY <1>24, TypeFacts, HistoryCounts, ReplyIsThere DEF ReviewParsePrompt, ReviewParseStep
<1>25. CASE Done
  BY <1>25, TypeFacts, HistoryCounts, ReplyIsThere DEF Done, EndNode, NoOut
<1>26. CASE ConcludeCall
  BY <1>26, TypeFacts, HistoryCounts, ReplyIsThere DEF ConcludeCall, CallModel
<1>27. CASE ConcludeRetry
  BY <1>27, TypeFacts, HistoryCounts, ReplyIsThere DEF ConcludeRetry, ConcludeStep
<1>28. CASE ConcludeFinish
  BY <1>28, TypeFacts, HistoryCounts, ReplyIsThere DEF ConcludeFinish, ConcludeStep, EndNode, StopCode
<1>29. CASE NextTurn
  BY <1>29, TypeFacts DEF NextTurn, FreshScratch, FreshTemp, FreshCarriers, NoHistory, NoOut
<1>30. CASE \E kind \in {"guidance", "conclude"} : Send(kind)
  BY <1>30, TypeFacts, HistoryCounts DEF Send
<1>31. CASE UNCHANGED vars
  BY <1>31, TypeFacts, HistoryCounts DEF vars
<1> QED
  BY <1>1, <1>2, <1>3, <1>4, <1>5, <1>6, <1>7, <1>8, <1>9, <1>10, <1>11, <1>12, <1>13, <1>14, <1>15, <1>16, <1>17, <1>18, <1>19, <1>20, <1>21, <1>22, <1>23, <1>24, <1>25, <1>26, <1>27, <1>28, <1>29, <1>30, <1>31 DEF VisitNext, Next, Tick, Parse, Act, ReviewParse, Finished

-----------------------------------------------------------------------------
(* The invariant, and what follows from it. *)

Outcome ==
  /\ NudgedBeforeStopped
  /\ AnnouncedOnce
  /\ ConclusionRetried
  /\ RepairsArePerTurn
  /\ ReportIsThisTurns

\* The inductive invariant.
IInv ==
  /\ TypeOK
  /\ Handoffs
  /\ CostInv
  /\ ReviewInv
  /\ NudgeInv
  /\ ReportInv
  /\ Outcome

\* The state init_node leaves behind satisfies the invariant.
LEMMA InvInit == Init => IInv
<1> SUFFICES ASSUME Init PROVE IInv
  OBVIOUS
<1> USE LoopAssumption DEF Init
<1>1. TypeOK
  <2>1. ScratchpadOK
    <3>1. nudged \in [DOMAIN nudged -> Nat \ {0}]
      BY DEF NoNudges
    <3>2. cycles \in Seq(Cycle)
      BY EmptySeq
    <3>3. iteration \in 0..MaxIterations /\ reviewCount \in 0..MaxReviewRounds
      OBVIOUS
    <3> QED BY <3>1, <3>2, <3>3 DEF ScratchpadOK
  <2>2. TempOK
    <3>1. queue \in Seq(Calls) /\ results \in Seq(Observation)
      BY EmptySeq
    <3>2. reply \in {NoReply}
      OBVIOUS
    <3>3. formatRetries \in 0..2 /\ concludeRetries \in 0..1
      OBVIOUS
    <3>4. forced \in BOOLEAN /\ announced \in BOOLEAN
      OBVIOUS
    <3> QED BY <3>1, <3>2, <3>3, <3>4 DEF TempOK
  <2>3. RunOK
    BY DEF RunOK, Nodes
  <2>4. h \in History
    BY EmptySeq DEF History, NoHistory
  <2> QED BY <2>1, <2>2, <2>3, <2>4 DEF TypeOK
<1>2. Handoffs
  BY DEF Handoffs
<1>3. CostInv /\ ReviewInv
  BY DEF CostInv, ReviewInv, NoHistory
<1>4. NudgeInv
  BY DEF NudgeInv, NoNudges
<1>5. ReportInv
  BY DEF ReportInv, NoHistory, NoStreak
<1>6. Outcome
  BY DEF Outcome, NudgedBeforeStopped, AnnouncedOnce, ConclusionRetried, RepairsArePerTurn,
         ReportIsThisTurns, NoOut, NoStreak, NoHistory
<1> QED BY <1>1, <1>2, <1>3, <1>4, <1>5, <1>6 DEF IInv

\* Every step keeps it.
LEMMA InvStep == IInv /\ [VisitNext]_vars => IInv'
BY TypeStep, CostStep, ReviewStep, NudgeStep, ReportStep, NudgedBeforeStoppedStep,
   AnnouncedOnceStep, ConclusionRetriedStep, RepairsArePerTurnStep, ReportIsThisTurnsStep
   DEF IInv, Outcome

\* IInv holds in every reachable state of a visit of any number of turns.
THEOREM Invariance == VisitSpec => []IInv
BY InvInit, InvStep, PTL DEF VisitSpec

\* A run of one turn is a visit that ends with its first turn.
LEMMA TurnOfVisit == Spec => VisitSpec
<1>1. [Next]_vars => [VisitNext]_vars
  BY DEF VisitNext
<1> QED BY <1>1, PTL DEF Spec, VisitSpec

\* Every variable stays in the range the code gives it.
THEOREM TypeCorrect == VisitSpec => []TypeOK
<1>1. IInv => TypeOK
  BY DEF IInv
<1> QED BY <1>1, Invariance, PTL

\* A turn makes at most two model calls per iteration, and two more to conclude.
THEOREM CostIsBounded == VisitSpec => []CostBound
<1>1. IInv => CostBound
  <2> SUFFICES ASSUME IInv PROVE CostBound
    OBVIOUS
  <2>1. h.thinks + h.reviews + h.concludes <= iteration + iteration + 2
    BY TypeFacts, HistoryCounts DEF IInv, CostInv, TypeOK
  <2>2. iteration <= MaxIterations /\ iteration \in Nat
    BY LoopAssumption DEF IInv, TypeOK, ScratchpadOK
  <2> QED BY <2>1, <2>2, HistoryCounts, LoopAssumption DEF IInv, TypeOK, CostBound
<1> QED BY <1>1, Invariance, PTL

\* The verifier judges at most review_max_rounds times between two batches of
\* the model's own, whatever it forces in between.
THEOREM ReviewIsBounded == VisitSpec => []ReviewBudget
<1>1. IInv => ReviewBudget
  <2> SUFFICES ASSUME IInv PROVE ReviewBudget
    OBVIOUS
  <2>1. reviewCount \in 0..MaxReviewRounds
    BY DEF IInv, TypeOK, ScratchpadOK
  <2>2. h.rounds <= reviewCount
    BY DEF IInv, ReviewInv
  <2> QED BY <2>1, <2>2, LoopAssumption, HistoryCounts DEF IInv, TypeOK, ReviewBudget
<1> QED BY <1>1, Invariance, PTL

\* With the default hard threshold no pattern ends a turn before a model call
\* carried its nudge, unless the turn's nudges were spent.
THEOREM NobodyStopsUnwarned == VisitSpec => []NudgedBeforeStopped
<1>1. IInv => NudgedBeforeStopped
  BY DEF IInv, Outcome
<1> QED BY <1>1, Invariance, PTL

\* Whatever the number of turns, each report is about its own turn: announced
\* once, stripped only after its own retry, failed only after its own repairs,
\* with its own stuck verdict and unreviewed mark.
THEOREM ReportsArePerTurn == VisitSpec => []ReportIsThisTurns
<1>1. IInv => ReportIsThisTurns
  BY DEF IInv, Outcome
<1> QED BY <1>1, Invariance, PTL

\* reset_react_turn: no latch, counter or stop of an earlier turn is left when a
\* turn of a visit begins, however many came before it.
THEOREM TurnsStartFresh == VisitSpec => []TurnStartsFresh
<1>1. IInv => TurnStartsFresh
  BY DEF IInv, Outcome, TurnStartsFresh
<1> QED BY <1>1, Invariance, PTL

-----------------------------------------------------------------------------
(* A side effect that succeeded is not repeated *)

\* The last cycle is of this turn and of this iteration.
InTurn == Len(cycles) > fence /\ cycles[Len(cycles)].i = iteration

\* The last cycle executed is the batch of the model's that ran last.
Follows ==
  \E k \in Executed : /\ \A j \in Executed : j <= k
                      /\ cycles[k].batch = h.ran.batch
                      /\ cycles[k].obs = h.ran.obs

\* Where a batch is under way, or an answer is judged, the last cycle is the one that
\* proposed it.
RanInv ==
  /\ fence \in 0..Len(cycles)
  /\ node \in Working => (h.ran.batch # <<>> => Follows)
  /\ node \in {"maybe_review", "review", "review_parse"} =>
       InTurn /\ cycles[Len(cycles)].batch = <<>>
  /\ node \in {"act", "observe", "waiting", "handle_user_response"} =>
       /\ InTurn
       /\ IF h.src = "model"
          THEN /\ h.ran.batch # <<>>
               /\ ~cycles[Len(cycles)].skipped
               /\ cycles[Len(cycles)].batch = h.ran.batch
               /\ cycles[Len(cycles)].obs = h.ran.obs
          ELSE cycles[Len(cycles)].batch = <<>>

\* Executed cycles are cycles of the turn.
LEMMA ExecutedFacts ==
  ASSUME TypeOK
  PROVE  /\ cycles \in Seq(Cycle) /\ Len(cycles) \in Nat /\ fence \in Nat
         /\ Executed \subseteq 1..Len(cycles)
         /\ Executed \in SUBSET Int
BY LenProperties DEF TypeOK, ScratchpadOK, Executed

\* Appending a cycle that was refused, or proposed nothing, changes nothing of that.
LEMMA FollowsAppend ==
  ASSUME TypeOK, Follows, h'.ran = h.ran, fence' = fence,
         NEW c \in Cycle, cycles' = Append(cycles, c), c.skipped \/ c.batch = <<>>
  PROVE  Follows'
<1>1. /\ Len(cycles') = Len(cycles) + 1 /\ cycles'[Len(cycles) + 1] = c
      /\ \A k \in 1..Len(cycles) : cycles'[k] = cycles[k]
  BY ExecutedFacts
<1>2. Executed' = Executed
  BY <1>1, ExecutedFacts DEF Executed
<1> QED BY <1>1, <1>2, ExecutedFacts DEF Follows

\* The cycle of the iteration is the last one.
LEMMA CurrentIsLast ==
  ASSUME TypeOK, InTurn
  PROVE  CurrentCycle = Len(cycles) /\ Len(cycles) \in 1..Len(cycles)
<1> DEFINE S == {k \in DOMAIN cycles : cycles[k].i = iteration}
<1>1. Len(cycles) \in S /\ S \subseteq 1..Len(cycles)
  BY ExecutedFacts, LenProperties DEF InTurn
<1>2. \A y \in S : y <= Len(cycles)
  BY <1>1, ExecutedFacts
<1>3. Max(S) = Len(cycles)
  <2>1. S \subseteq Int
    BY <1>1, ExecutedFacts
  <2> HIDE DEF S
  <2> QED BY <1>1, <1>2, <2>1, MaxIs
<1> QED BY <1>1, <1>3, ExecutedFacts DEF CurrentCycle

\* Every step keeps track of what ran.
LEMMA RanStep ==
  ASSUME TypeOK, Handoffs, RanInv, [VisitNext]_vars
  PROVE  RanInv'
<1> USE DEF RanInv, Working, Nodes, Ended, scratchpad, temp
<1> DEFINE Same == /\ cycles' = cycles /\ fence' = fence
                   /\ h'.ran = h.ran /\ h'.src = h.src
<1>a. ASSUME Same PROVE (Follows => Follows') /\ (iteration' = iteration /\ InTurn => InTurn')
  BY <1>a DEF Follows, Executed, InTurn
<1>b. /\ Len(cycles) \in Nat /\ NewCycle \in Cycle
      /\ [NewCycle EXCEPT !.skipped = TRUE] \in Cycle
      /\ NewCycle.batch = reply.batch /\ NewCycle.i = iteration /\ NewCycle.obs = <<>>
      /\ ~NewCycle.skipped /\ [NewCycle EXCEPT !.skipped = TRUE].skipped
  <2>1. NewCycle \in Cycle
    BY BatchTypes, EmptySeq, LoopAssumption DEF TypeOK, ScratchpadOK, NewCycle, Cycle
  <2> QED BY <2>1, ExecutedFacts DEF Cycle, NewCycle
<1>c. ASSUME cycles' \in {Refused, Proposed}, fence' = fence
      PROVE  /\ Len(cycles') = Len(cycles) + 1
             /\ fence' \in 0..Len(cycles')
             /\ cycles' = Proposed => cycles'[Len(cycles')] = NewCycle
  BY <1>b, <1>c, ExecutedFacts DEF Refused, Proposed
<1>d. reply.kind \notin {"tools", "calls"} => reply.batch = <<>>
  BY DEF TypeOK, TempOK, ModelReply, VerifierReply, ConclusionReply, NoReply, Talk
<1>h. h \in History /\ h.src \in {"model", "verifier"}
  BY DEF TypeOK, History
<1>1. CASE ReasonOutOfBudget
  BY <1>1, <1>a, <1>h DEF ReasonOutOfBudget, BudgetLeft, History
<1>2. CASE ReasonConclude
  BY <1>2, <1>a, <1>h DEF ReasonConclude, BudgetLeft, History
<1>3. CASE ReasonCall
  BY <1>3, <1>a, <1>h DEF ReasonCall, BudgetLeft, CallModel, History
<1>4. CASE ParseStuckStop
  BY <1>4, <1>c DEF ParseStuckStop, ParseProposal
<1>5. CASE ParseStuckRefuse
  <2>1. cycles' = Append(cycles, [NewCycle EXCEPT !.skipped = TRUE]) /\ fence' = fence
        /\ h' = h /\ node' = "reason" /\ node = "parse"
    BY <1>5 DEF ParseStuckRefuse, ParseProposal, Refused
  <2>2. Follows => Follows'
    BY <1>b, <2>1, FollowsAppend
  <2> QED BY <1>c, <2>1, <2>2 DEF Refused
<1>6. CASE ParseRepeatGuard
  <2>1. cycles' = Append(cycles, [NewCycle EXCEPT !.skipped = TRUE]) /\ fence' = fence
        /\ h' = h /\ node' = "reason" /\ node = "parse"
    BY <1>6 DEF ParseRepeatGuard, ParseProposal, Refused
  <2>2. Follows => Follows'
    BY <1>b, <2>1, FollowsAppend
  <2> QED BY <1>c, <2>1, <2>2 DEF Refused
<1>7. CASE ParseCalls
  <2>1. /\ cycles' = Append(cycles, NewCycle) /\ fence' = fence /\ node' = "act"
        /\ h'.ran.batch = reply.batch /\ h'.ran.obs = <<>> /\ h'.src = "model"
        /\ iteration' = iteration /\ reply.batch # <<>>
    BY <1>7, <1>h, BatchTypes DEF ParseCalls, ParseProposal, Proposed, History
  <2>2. /\ Len(cycles') = Len(cycles) + 1 /\ cycles'[Len(cycles) + 1] = NewCycle
        /\ Len(cycles) \in Nat /\ fence \in 0..Len(cycles)
    BY <1>b, <1>c, <2>1 DEF Proposed
  <2>3. Len(cycles') \in Executed' /\ \A j \in Executed' : j <= Len(cycles')
    BY <1>b, <2>1, <2>2 DEF Executed
  <2>4. Follows'
    BY <1>b, <2>1, <2>2, <2>3 DEF Follows
  <2> QED BY <1>b, <2>1, <2>2, <2>4 DEF InTurn
<1>8. CASE ParseBadCall
  <2>1. cycles' = Append(cycles, NewCycle) /\ fence' = fence /\ h'.ran = h.ran
        /\ node = "parse" /\ reply.batch = <<>> /\ iteration' = iteration
        /\ node' = "reason"
    BY <1>8, <1>d, <1>h DEF ParseBadCall, ParseSpeech, Proposed, History
  <2>2. Follows => Follows'
    BY <1>b, <2>1, FollowsAppend
  <2> QED BY <1>b, <1>c, <2>1, <2>2 DEF Proposed
<1>9. CASE ParseBadCallFails
  BY <1>9, <1>c DEF ParseBadCallFails, ParseSpeech
<1>10. CASE ParseRetry
  <2>1. cycles' = Append(cycles, NewCycle) /\ fence' = fence /\ h'.ran = h.ran
        /\ node = "parse" /\ reply.batch = <<>> /\ iteration' = iteration
        /\ node' = "reason"
    BY <1>10, <1>d, <1>h DEF ParseRetry, ParseSpeech, Followthrough, Proposed, History
  <2>2. Follows => Follows'
    BY <1>b, <2>1, FollowsAppend
  <2> QED BY <1>b, <1>c, <2>1, <2>2 DEF Proposed
<1>11. CASE ParseAnswer
  <2>1. cycles' = Append(cycles, NewCycle) /\ fence' = fence /\ h'.ran = h.ran
        /\ node = "parse" /\ reply.batch = <<>> /\ iteration' = iteration
        /\ node' = "maybe_review"
    BY <1>11, <1>d, <1>h DEF ParseAnswer, ParseSpeech, Proposed, History
  <2>2. Follows => Follows'
    BY <1>b, <2>1, FollowsAppend
  <2> QED BY <1>b, <1>c, <2>1, <2>2 DEF Proposed, InTurn
<1>12. CASE ActBlocked
  BY <1>12, <1>a, <1>h DEF ActBlocked, ActStep, History
<1>13. CASE ActAskUser
  BY <1>13, <1>a, <1>h DEF ActAskUser, ActStep, History
<1>14. CASE ActBuiltin
  BY <1>14, <1>a, <1>h DEF ActBuiltin, ActStep, History
<1>15. CASE ActBatch
  BY <1>15, <1>a, <1>h DEF ActBatch, ActStep, History
<1>16. CASE Observe
  <2> DEFINE last == Len(cycles)
             c == [cycles[last] EXCEPT !.obs = cycles[last].obs \o results]
  <2>1. /\ InTurn /\ node = "observe" /\ fence' = fence /\ iteration' = iteration
        /\ node' \in {"act", "reason"} /\ last \in Nat /\ last > fence /\ fence \in Nat
    BY <1>16, ExecutedFacts DEF Observe, InTurn
  <2>2. cycles' = [cycles EXCEPT ![last] = c] /\ last \in DOMAIN cycles
    BY <1>16, <2>1, CurrentIsLast, ExecutedFacts, LenProperties DEF Observe, Observed
  <2>3. /\ cycles[last] \in Cycle /\ c.batch = cycles[last].batch /\ c.i = cycles[last].i
        /\ c.skipped = cycles[last].skipped /\ c.obs = cycles[last].obs \o results
    <3>1. cycles[last] \in Cycle
      BY <2>2, ExecutedFacts, LenProperties, ElementOfSeq
    <3> QED BY <3>1 DEF Cycle
  <2> HIDE DEF c
  <2>4. /\ Len(cycles') = last /\ cycles'[last] = c
        /\ \A k \in 1..last : k # last => cycles'[k] = cycles[k]
    BY <2>2, ExecutedFacts, LenProperties, ExceptSeq
  <2>5. Executed' = Executed /\ InTurn'
    BY <2>1, <2>3, <2>4 DEF Executed, InTurn
  <2>6. CASE h.src = "model"
    <3>1. /\ h'.src = "model" /\ h'.ran.batch = h.ran.batch
          /\ h'.ran.obs = h.ran.obs \o results
      BY <1>16, <2>6, <1>h DEF Observe, History
    <3>2. /\ cycles'[last].batch = h'.ran.batch /\ cycles'[last].obs = h'.ran.obs
          /\ ~cycles'[last].skipped /\ h'.ran.batch # <<>>
      BY <2>1, <2>3, <2>4, <2>6, <3>1
    <3>3. last \in Executed' /\ \A j \in Executed' : j <= last
      BY <2>1, <2>4, <3>2 DEF Executed
    <3>4. Follows'
      BY <3>2, <3>3 DEF Follows
    <3> QED BY <2>1, <2>4, <2>5, <3>1, <3>2, <3>4
  <2>7. CASE h.src # "model"
    <3>1. h' = h /\ cycles[last].batch = <<>>
      BY <1>16, <2>1, <2>7 DEF Observe
    <3>2. last \notin Executed /\ Executed \subseteq 1..last
      BY <3>1, ExecutedFacts DEF Executed
    <3>3. Follows => Follows'
      BY <2>4, <2>5, <3>1, <3>2 DEF Follows
    <3> QED BY <2>1, <2>3, <2>4, <2>5, <2>7, <3>1, <3>3
  <2> QED BY <2>6, <2>7
<1>17. CASE UserReplies
  BY <1>17, <1>a, <1>h DEF UserReplies, History
<1>18. CASE HandleUserResponse
  BY <1>18, <1>a, <1>h DEF HandleUserResponse, History
<1>19. CASE MaybeReview
  BY <1>19, <1>a, <1>h DEF MaybeReview, History
<1>20. CASE Review
  BY <1>20, <1>a, <1>h DEF Review, History
<1>21. CASE ReviewParseAbsorbed
  BY <1>21, <1>a, <1>h DEF ReviewParseAbsorbed, ReviewParseStep, History
<1>22. CASE ReviewParseAccept
  BY <1>22, <1>a, <1>h DEF ReviewParseAccept, ReviewParseStep, History
<1>23. CASE ReviewParseCalls
  <2>1. /\ cycles' = cycles /\ fence' = fence /\ h'.ran = h.ran /\ h'.src = "verifier"
        /\ node' = "act" /\ node = "review_parse" /\ iteration' = iteration
    BY <1>23, <1>h DEF ReviewParseCalls, ReviewParseStep, History
  <2> QED BY <2>1 DEF Follows, Executed, InTurn
<1>24. CASE ReviewParsePrompt
  BY <1>24, <1>a, <1>h DEF ReviewParsePrompt, ReviewParseStep, History
<1>25. CASE Done
  BY <1>25, <1>a, <1>h DEF Done, EndNode, History
<1>26. CASE ConcludeCall
  BY <1>26, <1>a, <1>h DEF ConcludeCall, CallModel, History
<1>27. CASE ConcludeRetry
  BY <1>27, <1>a, <1>h DEF ConcludeRetry, ConcludeStep, History
<1>28. CASE ConcludeFinish
  BY <1>28, <1>a, <1>h DEF ConcludeFinish, ConcludeStep, EndNode, History
<1>29. CASE NextTurn
  <2>1. /\ fence' = Len(cycles) /\ cycles' = cycles /\ h'.ran.batch = <<>> /\ node' = "reason"
    BY <1>29 DEF NextTurn, FreshScratch, FreshTemp, FreshCarriers, NoHistory
  <2> QED BY <1>b, <2>1
<1>30. CASE \E kind \in {"guidance", "conclude"} : Send(kind)
  BY <1>30, <1>a, <1>h DEF Send, History
<1>31. CASE UNCHANGED vars
  BY <1>31, <1>a, <1>h DEF vars, History
<1> QED
  BY <1>1, <1>2, <1>3, <1>4, <1>5, <1>6, <1>7, <1>8, <1>9, <1>10, <1>11, <1>12, <1>13, <1>14, <1>15, <1>16, <1>17, <1>18, <1>19, <1>20, <1>21, <1>22, <1>23, <1>24, <1>25, <1>26, <1>27, <1>28, <1>29, <1>30, <1>31 DEF VisitNext, Next, Tick, Parse, Act, ReviewParse, Finished

\* The guard compares with the batch that ran last, so a side effect that succeeded is
\* not let through again by any refusal, retry or verifier batch in between.
THEOREM SideEffectsAreNotRepeated == VisitSpec => NoDuplicateSideEffect
<1> DEFINE A == (/\ node = "parse"
                 /\ node' = "act"
                 /\ \E k \in DOMAIN reply.batch : reply.batch[k] \in SideEffect)
                => ~(h.ran.batch = reply.batch /\ AllSucceeded(h.ran.obs))
<1>1. Init => RanInv
  BY EmptySeq DEF Init, RanInv, NoHistory
<1>2. IInv /\ RanInv /\ [VisitNext]_vars => RanInv'
  BY RanStep DEF IInv
<1>3. IInv /\ RanInv /\ [VisitNext]_vars => A
  <2> SUFFICES ASSUME IInv, RanInv, [VisitNext]_vars, node = "parse", node' = "act",
                      \E k \in DOMAIN reply.batch : reply.batch[k] \in SideEffect,
                      h.ran.batch = reply.batch, AllSucceeded(h.ran.obs)
               PROVE  FALSE
    OBVIOUS
  <2>1. ParseCalls
    BY DEF VisitNext, Next, Tick, Parse, Act, ReviewParse, Finished, vars, UserReplies, Send,
           NextTurn, ReasonOutOfBudget, ReasonConclude, ReasonCall, ParseStuckStop,
           ParseStuckRefuse, ParseRepeatGuard, ParseBadCall, ParseBadCallFails, ParseRetry,
           ParseAnswer, ActBlocked, ActAskUser, ActBuiltin, ActBatch, ActStep, Observe,
           HandleUserResponse, MaybeReview, Review, ReviewParseAbsorbed, ReviewParseAccept,
           ReviewParseCalls, ReviewParsePrompt, ReviewParseStep, Done, ConcludeCall,
           ConcludeRetry, ConcludeFinish, ConcludeStep
  <2>2. reply.batch # <<>> /\ TypeOK
    BY <2>1, BatchTypes DEF ParseCalls, ParseProposal, IInv
  <2>3. Follows
    BY <2>2 DEF RanInv, Working, Nodes, Ended
  <2>4. PICK k \in Executed : /\ \A j \in Executed : j <= k
                              /\ cycles[k].batch = h.ran.batch /\ cycles[k].obs = h.ran.obs
    BY <2>3 DEF Follows
  <2>5. Max(Executed) = k
    BY <2>2, <2>4, ExecutedFacts, MaxIs
  <2> QED BY <2>1, <2>4, <2>5 DEF ParseCalls, RepeatsSideEffect
<1> QED BY <1>1, <1>2, <1>3, Invariance, PTL DEF VisitSpec, NoDuplicateSideEffect

-----------------------------------------------------------------------------
(* A batch that ran is recorded whole *)

\* The calls among the first n of a batch that get an observation.
Noted(b, n) == {j \in 1..n : b[j] = AskUser => AskUser \notin Allowed}

\* The observations o are those of the first n calls of the batch b, in their order.
Recorded(b, o, n) ==
  \E place \in [1..Len(o) -> Noted(b, n)] :
    /\ \A j \in Noted(b, n) : \E i \in 1..Len(o) : place[i] = j
    /\ \A i, j \in 1..Len(o) : i < j => place[i] < place[j]
    /\ \A i \in 1..Len(o) : o[i].call = b[place[i]]

\* Before any call there is nothing to record.
LEMMA RecordedNone ==
  ASSUME NEW b
  PROVE  Recorded(b, <<>>, 0)
<1> DEFINE place == [i \in 1..0 |-> 0]
<1>1. Len(<<>>) = 0 /\ 1..0 = {} /\ Noted(b, 0) = {}
  BY DEF Noted
<1>2. place \in [1..0 -> Noted(b, 0)]
  BY <1>1
<1> QED BY <1>1, <1>2 DEF Recorded

\* A question that is put adds nothing.
LEMMA RecordedSkip ==
  ASSUME NEW b, NEW o, NEW n \in Nat, Recorded(b, o, n), n + 1 \notin Noted(b, n + 1)
  PROVE  Recorded(b, o, n + 1)
<1>1. Noted(b, n + 1) = Noted(b, n)
  <2>1. \A j \in 1..(n + 1) : j \in 1..n \/ j = n + 1
    OBVIOUS
  <2>2. 1..n \subseteq 1..(n + 1)
    OBVIOUS
  <2> QED BY <2>1, <2>2 DEF Noted
<1> QED BY <1>1 DEF Recorded

\* Calls that come back one after the other are recorded one after the other.
LEMMA RecordedMore ==
  ASSUME NEW b, NEW o \in Seq(Observation), NEW n \in Nat, Recorded(b, o, n),
         NEW r \in Seq(Observation),
         \A i \in 1..Len(r) : n + i \in Noted(b, n + Len(r)) /\ r[i].call = b[n + i]
  PROVE  Recorded(b, o \o r, n + Len(r))
<1>1. Len(o) \in Nat /\ Len(r) \in Nat
  BY LenProperties
<1> DEFINE l == Len(o)
           m == Len(r)
           w == o \o r
<1>2. /\ Len(w) = l + m
      /\ \A i \in 1..l : w[i] = o[i]
      /\ \A i \in (l + 1)..(l + m) : w[i] = r[i - l]
  <2>1. Len(w) = l + m /\ \A i \in 1..(l + m) : w[i] = IF i <= l THEN o[i] ELSE r[i - l]
    BY ConcatProperties
  <2> HIDE DEF w
  <2> QED BY <1>1, <2>1
<1>3. PICK place \in [1..l -> Noted(b, n)] :
        /\ \A j \in Noted(b, n) : \E i \in 1..l : place[i] = j
        /\ \A i, j \in 1..l : i < j => place[i] < place[j]
        /\ \A i \in 1..l : o[i].call = b[place[i]]
  BY DEF Recorded
<1>4. /\ l \in Nat /\ m \in Nat
      /\ \A i \in 1..m : n + i \in Noted(b, n + m) /\ r[i].call = b[n + i]
  BY <1>1
<1> HIDE DEF l, m, w
<1> DEFINE more == [i \in 1..(l + m) |-> IF i <= l THEN place[i] ELSE n + (i - l)]
<1>5. \A i \in 1..l : i \in 1..(l + m) /\ more[i] = place[i]
  BY <1>4
<1>6. \A i \in (l + 1)..(l + m) :
        i \in 1..(l + m) /\ i - l \in 1..m /\ more[i] = n + (i - l)
  BY <1>4
<1>7. \A i \in 1..(l + m) : i \in 1..l \/ i \in (l + 1)..(l + m)
  BY <1>4
<1>8. Noted(b, n) \subseteq Noted(b, n + m) /\ Noted(b, n) \subseteq 1..n
  <2>1. 1..n \subseteq 1..(n + m)
    BY <1>4
  <2> QED BY <2>1 DEF Noted
<1>9. \A i \in 1..(l + m) : more[i] \in Noted(b, n + m)
  <2>1. \A i \in 1..l : more[i] \in Noted(b, n + m)
    BY <1>3, <1>5, <1>8
  <2>2. \A i \in (l + 1)..(l + m) : more[i] \in Noted(b, n + m)
    BY <1>4, <1>6
  <2> QED BY <1>7, <2>1, <2>2
<1>10. more \in [1..(l + m) -> Noted(b, n + m)]
  BY <1>9
<1> HIDE DEF more
<1>11. ASSUME NEW j \in Noted(b, n + m) PROVE \E i \in 1..(l + m) : more[i] = j
  <2>1. j \in 1..(n + m)
    BY DEF Noted
  <2>2. CASE j <= n
    <3>1. j \in Noted(b, n)
      BY <2>1, <2>2 DEF Noted
    <3>2. PICK i \in 1..l : place[i] = j
      BY <1>3, <3>1
    <3> QED BY <1>5, <3>2
  <2>3. CASE ~(j <= n)
    <3>1. j - n \in 1..m /\ l + (j - n) \in (l + 1)..(l + m) /\ (l + (j - n)) - l = j - n
          /\ n + (j - n) = j
      BY <1>4, <2>1, <2>3
    <3>2. more[l + (j - n)] = j
      BY <1>6, <3>1
    <3>3. l + (j - n) \in 1..(l + m)
      BY <1>6, <3>1
    <3> QED BY <3>2, <3>3
  <2> QED BY <2>2, <2>3
<1>12. ASSUME NEW i \in 1..(l + m), NEW j \in 1..(l + m), i < j PROVE more[i] < more[j]
  <2>1. CASE j \in 1..l
    <3>1. i \in 1..l
      BY <1>4, <1>12, <2>1
    <3> QED BY <1>3, <1>5, <1>12, <2>1, <3>1
  <2>2. CASE i \in 1..l /\ j \notin 1..l
    <3>1. j \in (l + 1)..(l + m)
      BY <1>7, <2>2
    <3>2. place[i] \in 1..n
      BY <1>3, <1>8, <2>2
    <3>3. more[i] = place[i] /\ more[j] = n + (j - l) /\ j - l \in 1..m
      BY <1>5, <1>6, <2>2, <3>1
    <3> QED BY <1>4, <3>2, <3>3
  <2>3. CASE i \notin 1..l /\ j \notin 1..l
    <3>1. i \in (l + 1)..(l + m) /\ j \in (l + 1)..(l + m)
      BY <1>7, <2>3
    <3>2. more[i] = n + (i - l) /\ more[j] = n + (j - l)
      BY <1>6, <3>1
    <3> QED BY <1>4, <1>12, <3>2
  <2> QED BY <1>4, <1>12, <2>1, <2>2, <2>3
<1>13. ASSUME NEW i \in 1..(l + m) PROVE w[i].call = b[more[i]]
  <2>1. CASE i \in 1..l
    BY <1>2, <1>3, <1>5, <2>1
  <2>2. CASE i \in (l + 1)..(l + m)
    <3>1. i - l \in 1..m /\ more[i] = n + (i - l) /\ w[i] = r[i - l]
      BY <1>2, <1>6, <2>2
    <3> QED BY <1>4, <3>1
  <2> QED BY <1>7, <2>1, <2>2
<1>14. Len(w) = l + m
  BY <1>2
<1>15. Recorded(b, w, n + m)
  <2>1. 1..Len(w) = 1..(l + m)
    BY <1>14
  <2>2. /\ more \in [1..Len(w) -> Noted(b, n + m)]
        /\ \A j \in Noted(b, n + m) : \E i \in 1..Len(w) : more[i] = j
        /\ \A i, j \in 1..Len(w) : i < j => more[i] < more[j]
        /\ \A i \in 1..Len(w) : w[i].call = b[more[i]]
    <3>1. \A i, j \in 1..(l + m) : i < j => more[i] < more[j]
      BY <1>12
    <3>2. \A i \in 1..(l + m) : w[i].call = b[more[i]]
      BY <1>13
    <3> QED BY <1>10, <1>11, <2>1, <3>1, <3>2
  <2> QED BY <2>2 DEF Recorded
<1> QED BY <1>15 DEF w, m

\* What of a cycle's batch must be on record: all of it, if it ran.
Whole(k) ==
  LET c == cycles[k]
  IN  /\ k # Len(cycles) \/ node \notin Acting
      /\ c.batch # <<>>
      /\ c.obs # <<>> \/ (~c.skipped /\ k > fence /\ (k # Len(cycles) \/ node \in Working))
      => Recorded(c.batch, c.obs, Len(c.batch))

\* What is still queued is what is not recorded yet.
InPart ==
  LET c == cycles[Len(cycles)]
  IN  \E n \in 0..Len(c.batch) :
        /\ queue = SubSeq(c.batch, n + 1, Len(c.batch))
        /\ Recorded(c.batch, c.obs \o results, n)

\* Every cycle is recorded whole but the one being worked off, which is recorded up to
\* what is still queued.
RecordInv ==
  /\ \A k \in 1..Len(cycles) : Whole(k)
  /\ \A k \in 1..Len(cycles) : cycles[k].skipped => cycles[k].obs = <<>>
  /\ node \in Acting \union {"maybe_review", "review", "review_parse"} =>
       ~cycles[Len(cycles)].skipped
  /\ node \in Acting /\ h.src = "model" => InPart
  /\ node # "observe" => results = <<>>

\* What the queue keeps of a batch, and what a shorter one does.
LEMMA QueueRest ==
  ASSUME NEW b \in Seq(Calls), NEW n \in 0..Len(b), NEW q, q = SubSeq(b, n + 1, Len(b))
  PROVE  /\ q \in Seq(Calls) /\ Len(q) \in Nat /\ Len(q) = Len(b) - n
         /\ \A i \in 1..Len(q) : q[i] = b[n + i]
         /\ \A m \in 0..Len(q) : SubSeq(q, m + 1, Len(q)) = SubSeq(b, (n + m) + 1, Len(b))
<1>1. Len(b) \in Nat /\ n \in Nat /\ n <= Len(b)
  BY LenProperties
<1>2. \A i \in (n + 1)..Len(b) : b[i] \in Calls
  BY <1>1, ElementOfSeq
<1>3. /\ q \in Seq(Calls)
      /\ Len(q) = IF n + 1 <= Len(b) THEN Len(b) - (n + 1) + 1 ELSE 0
      /\ \A i \in 1..(Len(b) - (n + 1) + 1) : q[i] = b[(n + 1) + i - 1]
  BY <1>1, <1>2, SubSeqProperties
<1>4. Len(q) = Len(b) - n /\ Len(q) \in Nat
  BY <1>1, <1>3
<1>5. \A i \in 1..Len(q) : q[i] = b[n + i]
  BY <1>1, <1>3, <1>4
<1>6. ASSUME NEW m \in 0..Len(q)
      PROVE  SubSeq(q, m + 1, Len(q)) = SubSeq(b, (n + m) + 1, Len(b))
  <2>1. m \in Nat /\ m <= Len(q)
    BY <1>4
  <2> DEFINE s == SubSeq(q, m + 1, Len(q))
             t == SubSeq(b, (n + m) + 1, Len(b))
  <2>2. \A i \in (m + 1)..Len(q) : q[i] \in Calls
    BY <1>3, <1>4, <2>1, ElementOfSeq
  <2>3. /\ s \in Seq(Calls)
        /\ Len(s) = IF m + 1 <= Len(q) THEN Len(q) - (m + 1) + 1 ELSE 0
        /\ \A i \in 1..(Len(q) - (m + 1) + 1) : s[i] = q[(m + 1) + i - 1]
    BY <1>4, <2>1, <2>2, SubSeqProperties
  <2>4. \A i \in ((n + m) + 1)..Len(b) : b[i] \in Calls
    BY <1>1, <2>1, ElementOfSeq
  <2>5. /\ t \in Seq(Calls)
        /\ Len(t) = IF (n + m) + 1 <= Len(b) THEN Len(b) - ((n + m) + 1) + 1 ELSE 0
        /\ \A i \in 1..(Len(b) - ((n + m) + 1) + 1) : t[i] = b[((n + m) + 1) + i - 1]
    BY <1>1, <2>1, <2>4, SubSeqProperties
  <2> HIDE DEF s, t
  <2>6. Len(s) = Len(q) - m /\ Len(t) = Len(q) - m /\ Len(q) - m \in Nat
    BY <1>1, <1>4, <2>1, <2>3, <2>5
  <2>7. \A i \in 1..(Len(q) - m) : s[i] = q[m + i] /\ t[i] = b[n + (m + i)]
    BY <1>1, <1>4, <2>1, <2>3, <2>5, <2>6
  <2>8. \A i \in 1..(Len(q) - m) : s[i] = t[i]
    <3> SUFFICES ASSUME NEW i \in 1..(Len(q) - m) PROVE s[i] = t[i]
      OBVIOUS
    <3>1. m + i \in 1..Len(q)
      BY <1>4, <2>1
    <3> QED BY <1>5, <2>7, <3>1
  <2>9. s = t
    BY <2>3, <2>5, <2>6, <2>8, SeqEqual
  <2> QED BY <2>9 DEF s, t
<1> QED BY <1>3, <1>4, <1>5, <1>6

\* No result changes nothing.
LEMMA NoResults ==
  ASSUME NEW o \in Seq(Observation)
  PROVE  o \o <<>> = o
BY ConcatEmptySeq

\* What a cycle of a well-typed run holds.
LEMMA LastCycle ==
  ASSUME TypeOK, NEW k \in 1..Len(cycles)
  PROVE  /\ cycles[k] \in Cycle /\ cycles[k].batch \in Seq(Calls)
         /\ cycles[k].obs \in Seq(Observation)
<1>1. cycles[k] \in Cycle
  BY ExecutedFacts, ElementOfSeq
<1> QED BY <1>1 DEF Cycle

\* act takes m calls off the queue and each of them comes back.
LEMMA ActRecords ==
  ASSUME TypeOK, RecordInv, InTurn, node = "act", h.src = "model", cycles' = cycles,
         NEW m \in 1..Len(queue), queue' = SubSeq(queue, m + 1, Len(queue)),
         results' \in Seq(Observation), Len(results') = m,
         \A i \in 1..m : /\ results'[i].call = queue[i]
                         /\ queue[i] = AskUser => AskUser \notin Allowed
  PROVE  InPart'
<1> DEFINE last == Len(cycles)
           b == cycles[last].batch
           o == cycles[last].obs
<1>1. last \in 1..Len(cycles)
  BY ExecutedFacts DEF InTurn
<1>2. b \in Seq(Calls) /\ o \in Seq(Observation) /\ Len(b) \in Nat
  <2>1. b \in Seq(Calls) /\ o \in Seq(Observation)
    BY <1>1, LastCycle
  <2> HIDE DEF b, o
  <2> QED BY <2>1, LenProperties
<1>3. PICK n \in 0..Len(b) : queue = SubSeq(b, n + 1, Len(b)) /\ Recorded(b, o \o results, n)
  BY DEF RecordInv, InPart, Acting
<1>4. Recorded(b, o, n)
  <2>1. results = <<>>
    BY DEF RecordInv
  <2>2. o \o results = o
    <3> HIDE DEF o
    <3> QED BY <1>2, <2>1, NoResults
  <2> QED BY <1>3, <2>2
<1> HIDE DEF b, o
<1>5. /\ Len(queue) \in Nat /\ Len(queue) = Len(b) - n
      /\ \A i \in 1..Len(queue) : queue[i] = b[n + i]
      /\ SubSeq(queue, m + 1, Len(queue)) = SubSeq(b, (n + m) + 1, Len(b))
  <2>1. m \in 0..Len(queue)
    OBVIOUS
  <2> QED BY <1>2, <1>3, <2>1, QueueRest
<1>6. n \in Nat /\ m \in Nat /\ n + m \in 0..Len(b)
  BY <1>2, <1>5
<1>7. \A i \in 1..Len(results') : /\ n + i \in Noted(b, n + Len(results'))
                                  /\ results'[i].call = b[n + i]
  <2> SUFFICES ASSUME NEW i \in 1..m
               PROVE  n + i \in Noted(b, n + m) /\ results'[i].call = b[n + i]
    OBVIOUS
  <2>1. i \in 1..Len(queue) /\ n + i \in 1..(n + m)
    <3>1. m \in Nat /\ n \in Nat /\ Len(queue) \in Nat /\ m <= Len(queue)
      BY <1>5, <1>6
    <3>2. i \in Nat /\ 1 <= i /\ i <= m
      BY <3>1
    <3> QED BY <3>1, <3>2
  <2>2. queue[i] = b[n + i]
    BY <1>5, <2>1
  <2> QED BY <2>1, <2>2 DEF Noted
<1>8. Recorded(b, o \o results', n + m)
  BY <1>2, <1>4, <1>6, <1>7, RecordedMore
<1>9. queue' = SubSeq(b, (n + m) + 1, Len(b))
  BY <1>5
<1>10. cycles[Len(cycles)]' = cycles[Len(cycles)]
  OBVIOUS
<1>11. \E k \in 0..Len(b) : queue' = SubSeq(b, k + 1, Len(b)) /\ Recorded(b, o \o results', k)
  BY <1>6, <1>8, <1>9
<1> QED BY <1>10, <1>11 DEF InPart, b, o

\* With the queue empty, the whole batch is on record.
LEMMA QueueEmpty ==
  ASSUME TypeOK, InTurn, InPart, queue = <<>>
  PROVE  Recorded(cycles[Len(cycles)].batch, cycles[Len(cycles)].obs \o results,
                  Len(cycles[Len(cycles)].batch))
<1> DEFINE b == cycles[Len(cycles)].batch
           o == cycles[Len(cycles)].obs \o results
<1>1. Len(cycles) \in 1..Len(cycles)
  BY ExecutedFacts DEF InTurn
<1>2. b \in Seq(Calls)
  BY <1>1, LastCycle
<1>3. PICK n \in 0..Len(b) : queue = SubSeq(b, n + 1, Len(b)) /\ Recorded(b, o, n)
  BY DEF InPart
<1> HIDE DEF b, o
<1>4. Len(queue) = Len(b) - n /\ Len(b) \in Nat
  BY <1>2, <1>3, QueueRest, LenProperties
<1>5. n = Len(b)
  BY <1>3, <1>4
<1>6. Recorded(b, o, Len(b))
  BY <1>3, <1>5
<1> QED BY <1>6 DEF b, o

\* A step that adds no cycle and leaves no batch keeps what is whole.
LEMMA WholeStays ==
  ASSUME \A k \in 1..Len(cycles) : Whole(k), cycles' = cycles, fence' = fence,
         \/ node' \in Acting
         \/ node \notin Acting /\ (node' \in Working => node \in Working)
  PROVE  (\A k \in 1..Len(cycles) : Whole(k))'
BY DEF Whole

\* Nor does a cycle that has nothing on record yet disturb it.
LEMMA WholeAppends ==
  ASSUME TypeOK, \A k \in 1..Len(cycles) : Whole(k), fence' = fence, node = "parse",
         NEW c \in Cycle, cycles' = Append(cycles, c), c.obs = <<>>,
         c.skipped \/ c.batch = <<>> \/ node' \in Acting \/ node' \notin Working
  PROVE  (\A k \in 1..Len(cycles) : Whole(k))'
<1>1. /\ Len(cycles) \in Nat /\ Len(cycles') = Len(cycles) + 1
      /\ cycles'[Len(cycles) + 1] = c
      /\ \A k \in 1..Len(cycles) : cycles'[k] = cycles[k]
  BY ExecutedFacts
<1>2. node \notin Acting /\ node \in Working
  BY DEF Acting, Working, Nodes, Ended
<1>3. ASSUME NEW k \in 1..Len(cycles) PROVE Whole(k)'
  <2>1. cycles'[k] = cycles[k] /\ fence' = fence
    BY <1>1
  <2>2. Whole(k)
    OBVIOUS
  <2> QED BY <1>2, <2>1, <2>2 DEF Whole
<1>4. ASSUME NEW k, k = Len(cycles) + 1 PROVE Whole(k)'
  <2>1. cycles'[k] = c /\ k = Len(cycles')
    BY <1>1, <1>4
  <2> QED BY <2>1 DEF Whole
<1>5. \A k \in 1..(Len(cycles) + 1) : k \in 1..Len(cycles) \/ k = Len(cycles) + 1
  BY <1>1
<1>6. \A k \in 1..Len(cycles') : Whole(k)'
  BY <1>1, <1>3, <1>4, <1>5
<1> QED BY <1>6

\* Every step keeps what ran on record.
LEMMA RecordStep ==
  ASSUME TypeOK, Handoffs, RanInv, RecordInv, [VisitNext]_vars
  PROVE  RecordInv'
<1> USE DEF scratchpad, temp
<1> DEFINE Unskipped == \A k \in 1..Len(cycles) : cycles[k].skipped => cycles[k].obs = <<>>
           Rest == /\ node \in Acting \union {"maybe_review", "review", "review_parse"} =>
                        ~cycles[Len(cycles)].skipped
                   /\ node \in Acting /\ h.src = "model" => InPart
                   /\ node # "observe" => results = <<>>
<1>a. /\ \A k \in 1..Len(cycles) : Whole(k)
      /\ Unskipped
      /\ Rest
  BY DEF RecordInv
<1>b. ASSUME (\A k \in 1..Len(cycles) : Whole(k))', Unskipped', Rest' PROVE RecordInv'
  BY <1>b DEF RecordInv
<1>h. h \in History
  BY DEF TypeOK
<1>s. ASSUME cycles' = cycles PROVE Unskipped'
  BY <1>a, <1>s
<1>p. ASSUME NEW c \in Cycle, cycles' = Append(cycles, c), c.obs = <<>>
      PROVE  /\ Unskipped'
             /\ Len(cycles) \in Nat /\ Len(cycles') = Len(cycles) + 1 /\ cycles'[Len(cycles')] = c
  <2>1. /\ Len(cycles) \in Nat /\ Len(cycles') = Len(cycles) + 1
        /\ cycles'[Len(cycles) + 1] = c
        /\ \A k \in 1..Len(cycles) : cycles'[k] = cycles[k]
    BY <1>p, ExecutedFacts
  <2>2. \A k \in 1..Len(cycles') : k \in 1..Len(cycles) \/ k = Len(cycles) + 1
    BY <2>1
  <2>3. ASSUME NEW k \in 1..Len(cycles'), cycles'[k].skipped PROVE cycles'[k].obs = <<>>
    <3>1. CASE k \in 1..Len(cycles)
      BY <1>a, <2>1, <2>3, <3>1
    <3>2. CASE k = Len(cycles) + 1
      BY <1>p, <2>1, <3>2
    <3> QED BY <2>2, <3>1, <3>2
  <2> QED BY <2>1, <2>3
\* Steps between two batches that touch none of it.
<1>q. ASSUME cycles' = cycles, fence' = fence, results' = results,
             node \notin Acting, node' \notin Acting,
             node' \in Working => node \in Working,
             node' \in {"maybe_review", "review", "review_parse"} =>
               node \in {"maybe_review", "review", "review_parse"}
      PROVE  RecordInv'
  <2>1. (\A k \in 1..Len(cycles) : Whole(k))'
    BY <1>a, <1>q, WholeStays
  <2>2. results' = <<>>
    BY <1>a, <1>q DEF Acting
  <2>3. Rest'
    BY <1>a, <1>q, <2>2 DEF Acting
  <2> HIDE DEF Rest, Unskipped
  <2> QED BY <1>b, <1>s, <1>q, <2>1, <2>3
\* Steps of a batch that record nothing.
<1>r. ASSUME cycles' = cycles, fence' = fence, results' = results, queue' = queue,
             node \in Acting, node' \in Acting, node # "observe", h'.src = h.src
      PROVE  RecordInv'
  <2>1. (\A k \in 1..Len(cycles) : Whole(k))'
    BY <1>a, <1>r, WholeStays
  <2>2. InPart => InPart'
    BY <1>r DEF InPart
  <2>3. Rest'
    BY <1>a, <1>r, <2>2
  <2> HIDE DEF Rest, Unskipped
  <2> QED BY <1>b, <1>s, <1>r, <2>1, <2>3
\* Steps that take calls off the queue.
<1>t. ASSUME node = "act", cycles' = cycles, fence' = fence, h'.src = h.src,
             node' = "observe", h.src = "model" => InPart'
      PROVE  RecordInv'
  <2>1. (\A k \in 1..Len(cycles) : Whole(k))'
    BY <1>a, <1>t, WholeStays DEF Acting
  <2>2. Rest'
    BY <1>a, <1>t DEF Acting
  <2> HIDE DEF Rest, Unskipped
  <2> QED BY <1>b, <1>s, <1>t, <2>1, <2>2
<1>n. /\ NewCycle \in Cycle /\ [NewCycle EXCEPT !.skipped = TRUE] \in Cycle
      /\ NewCycle.batch = reply.batch /\ NewCycle.obs = <<>> /\ ~NewCycle.skipped
      /\ [NewCycle EXCEPT !.skipped = TRUE].skipped
      /\ [NewCycle EXCEPT !.skipped = TRUE].obs = <<>>
  <2>1. NewCycle \in Cycle
    BY BatchTypes, EmptySeq, LoopAssumption DEF TypeOK, ScratchpadOK, NewCycle, Cycle
  <2> QED BY <2>1 DEF Cycle, NewCycle
\* Steps of parse that append a cycle and go on without a batch.
<1>u. ASSUME NEW c \in Cycle, cycles' = Append(cycles, c), c.obs = <<>>, node = "parse",
             fence' = fence, results' = results, node' \notin Acting,
             c.skipped \/ c.batch = <<>> \/ node' \notin Working,
             node' \in {"maybe_review", "review", "review_parse"} => ~c.skipped
      PROVE  RecordInv'
  <2>1. (\A k \in 1..Len(cycles) : Whole(k))'
    BY <1>a, <1>u, WholeAppends
  <2>2. Unskipped' /\ cycles'[Len(cycles')] = c
    BY <1>u, <1>p
  <2>3. results' = <<>>
    BY <1>a, <1>u
  <2>4. Rest'
    BY <1>u, <2>2, <2>3
  <2> HIDE DEF Rest, Unskipped
  <2> QED BY <1>b, <2>1, <2>2, <2>4
<1>d. reply.kind \notin {"tools", "calls"} => reply.batch = <<>>
  BY DEF TypeOK, TempOK, ModelReply, VerifierReply, ConclusionReply, NoReply, Talk
<1>e. ASSUME node = "act" PROVE InTurn /\ queue # <<>> /\ queue \in Seq(Calls)
                                /\ Len(queue) \in Nat \ {0}
  BY <1>e, EmptySeq, LenProperties DEF RanInv, Handoffs, TypeOK, TempOK
<1>f. ASSUME node = "act", queue' = Tail(queue)
      PROVE  /\ 1 \in 1..Len(queue) /\ Head(queue) = queue[1]
             /\ queue' = SubSeq(queue, 1 + 1, Len(queue))
  <2>1. 1 \in 1..Len(queue)
    BY <1>e, <1>f
  <2> QED BY <1>e, <1>f, <2>1
\* One call answered on its own.
<1>g. ASSUME node = "act", queue' = Tail(queue), cycles' = cycles, h.src = "model",
             NEW a \in Answers, results' = <<[call |-> Head(queue), answer |-> a]>>,
             Head(queue) = AskUser => AskUser \notin Allowed
      PROVE  InPart'
  <2>1. InTurn /\ 1 \in 1..Len(queue) /\ Head(queue) = queue[1]
        /\ queue' = SubSeq(queue, 1 + 1, Len(queue)) /\ Head(queue) \in Calls
    BY <1>e, <1>f, <1>g, QueueTypes
  <2>2. results' \in Seq(Observation)
    BY <1>g, <2>1, SingletonResult
  <2>3. Len(results') = 1 /\ results'[1].call = queue[1]
    BY <1>g, <2>1
  <2>4. \A i \in 1..1 : /\ results'[i].call = queue[i]
                        /\ queue[i] = AskUser => AskUser \notin Allowed
    BY <1>g, <2>1, <2>3
  <2> QED BY <1>g, <2>1, <2>2, <2>3, <2>4, ActRecords
<1>1. CASE ReasonOutOfBudget
  BY <1>1, <1>q DEF ReasonOutOfBudget, Acting, Working, Nodes, Ended
<1>2. CASE ReasonConclude
  BY <1>2, <1>q DEF ReasonConclude, Acting, Working, Nodes, Ended
<1>3. CASE ReasonCall
  BY <1>3, <1>q DEF ReasonCall, CallModel, Acting, Working, Nodes, Ended
<1>4. CASE ParseStuckStop
  BY <1>4, <1>u, <1>n DEF ParseStuckStop, ParseProposal, Proposed, Acting, Working, Nodes, Ended
<1>5. CASE ParseStuckRefuse
  BY <1>5, <1>u, <1>n DEF ParseStuckRefuse, ParseProposal, Refused, Acting
<1>6. CASE ParseRepeatGuard
  BY <1>6, <1>u, <1>n DEF ParseRepeatGuard, ParseProposal, Refused, Acting
<1>7. CASE ParseCalls
  <2>1. /\ node = "parse" /\ cycles' = Append(cycles, NewCycle) /\ fence' = fence
        /\ node' = "act" /\ results' = results /\ queue' = reply.batch
    BY <1>7 DEF ParseCalls, ParseProposal, Proposed
  <2>2. (\A k \in 1..Len(cycles) : Whole(k))'
    BY <1>a, <1>n, <2>1, WholeAppends DEF Acting
  <2>3. Unskipped' /\ cycles'[Len(cycles')] = NewCycle
    BY <1>n, <1>p, <2>1
  <2>4. results' = <<>>
    BY <1>a, <2>1
  <2>5. InPart'
    <3> DEFINE b == reply.batch
    <3>1. b \in Seq(Calls) /\ Len(b) \in Nat
      BY BatchTypes, LenProperties
    <3> HIDE DEF b
    <3>2. 0 \in 0..Len(b) /\ SubSeq(b, 0 + 1, Len(b)) = b
      BY <3>1
    <3>3. NewCycle.obs \o results' = <<>>
      BY <1>n, <2>4, ConcatEmptySeq, EmptySeq
    <3>4. Recorded(b, NewCycle.obs \o results', 0)
      BY <3>3, RecordedNone
    <3>5. \E n \in 0..Len(b) : queue' = SubSeq(b, n + 1, Len(b))
                               /\ Recorded(b, NewCycle.obs \o results', n)
      BY <2>1, <3>2, <3>4 DEF b
    <3> QED BY <1>n, <2>3, <3>5 DEF InPart, b
  <2>6. Rest'
    BY <1>n, <2>1, <2>3, <2>4, <2>5
  <2> HIDE DEF Rest, Unskipped
  <2> QED BY <1>b, <2>2, <2>3, <2>6
<1>8. CASE ParseBadCall
  BY <1>8, <1>u, <1>n, <1>d DEF ParseBadCall, ParseSpeech, Proposed, Acting
<1>9. CASE ParseBadCallFails
  BY <1>9, <1>u, <1>n, <1>d DEF ParseBadCallFails, ParseSpeech, Proposed, Acting
<1>10. CASE ParseRetry
  BY <1>10, <1>u, <1>n, <1>d DEF ParseRetry, ParseSpeech, Followthrough, Proposed, Acting
<1>11. CASE ParseAnswer
  BY <1>11, <1>u, <1>n, <1>d DEF ParseAnswer, ParseSpeech, Proposed, Acting
<1>12. CASE ActBlocked
  <2>1. /\ node = "act" /\ queue' = Tail(queue) /\ cycles' = cycles /\ fence' = fence
        /\ h' = h /\ node' = "observe"
        /\ results' = <<[call |-> Head(queue), answer |-> Blocked]>>
        /\ Head(queue) = AskUser => AskUser \notin Allowed
    BY <1>12 DEF ActBlocked, ActStep
  <2>2. h.src = "model" => InPart'
    BY <1>g, <2>1, LoopAssumption
  <2> QED BY <1>t, <2>1, <2>2
<1>13. CASE ActAskUser
  <2>1. /\ node = "act" /\ queue' = Tail(queue) /\ cycles' = cycles /\ fence' = fence
        /\ h' = h /\ node' = "waiting" /\ results' = results
        /\ Head(queue) = AskUser /\ AskUser \in Allowed
    BY <1>13 DEF ActAskUser, ActStep
  <2>2. ASSUME h.src = "model" PROVE InPart'
    <3> DEFINE b == cycles[Len(cycles)].batch
               o == cycles[Len(cycles)].obs \o results
    <3>1. b \in Seq(Calls)
      <4>1. Len(cycles) \in 1..Len(cycles)
        BY <1>e, <2>1, ExecutedFacts DEF InTurn
      <4> QED BY <4>1, LastCycle
    <3>2. PICK n \in 0..Len(b) : queue = SubSeq(b, n + 1, Len(b)) /\ Recorded(b, o, n)
      BY <1>a, <2>1, <2>2 DEF InPart, Acting
    <3> HIDE DEF b, o
    <3>3. /\ 1 \in 1..Len(queue) /\ queue[1] = AskUser
          /\ queue' = SubSeq(queue, 1 + 1, Len(queue))
      BY <1>f, <2>1
    <3>4. /\ Len(queue) = Len(b) - n /\ Len(b) \in Nat /\ queue[1] = b[n + 1]
          /\ SubSeq(queue, 1 + 1, Len(queue)) = SubSeq(b, (n + 1) + 1, Len(b))
      <4>1. 1 \in 0..Len(queue)
        BY <3>3
      <4>2. /\ Len(queue) = Len(b) - n
            /\ \A i \in 1..Len(queue) : queue[i] = b[n + i]
            /\ \A m \in 0..Len(queue) :
                 SubSeq(queue, m + 1, Len(queue)) = SubSeq(b, (n + m) + 1, Len(b))
        BY <3>1, <3>2, QueueRest
      <4>3. SubSeq(queue, 1 + 1, Len(queue)) = SubSeq(b, (n + 1) + 1, Len(b))
        BY <4>1, <4>2
      <4>4. Len(b) \in Nat
        BY <3>1, LenProperties
      <4> QED BY <3>3, <4>2, <4>3, <4>4
    <3>5. n \in Nat /\ n + 1 \in 0..Len(b)
      BY <3>3, <3>4
    <3>6. n + 1 \notin Noted(b, n + 1)
      BY <2>1, <3>3, <3>4 DEF Noted
    <3>7. Recorded(b, o, n + 1)
      BY <3>2, <3>5, <3>6, RecordedSkip
    <3>8. \E k \in 0..Len(b) : queue' = SubSeq(b, k + 1, Len(b)) /\ Recorded(b, o, k)
      BY <3>3, <3>4, <3>5, <3>7
    <3> QED BY <2>1, <3>8 DEF InPart, b, o
  <2>3. (\A k \in 1..Len(cycles) : Whole(k))'
    BY <1>a, <2>1, WholeStays DEF Acting
  <2>4. Rest'
    BY <1>a, <2>1, <2>2 DEF Acting
  <2> HIDE DEF Rest, Unskipped
  <2> QED BY <1>b, <1>s, <2>1, <2>3, <2>4
<1>14. CASE ActBuiltin
  <2>1. /\ node = "act" /\ queue' = Tail(queue) /\ cycles' = cycles /\ fence' = fence
        /\ h' = h /\ node' = "observe" /\ Head(queue) # AskUser
        /\ \E a \in BuiltinAnswers(Head(queue)) :
             results' = <<[call |-> Head(queue), answer |-> a]>>
    BY <1>14 DEF ActBuiltin, ActStep
  <2>2. PICK a \in BuiltinAnswers(Head(queue)) :
          results' = <<[call |-> Head(queue), answer |-> a]>>
    BY <2>1
  <2>3. a \in Answers
    BY LoopAssumption DEF BuiltinAnswers
  <2>4. h.src = "model" => InPart'
    BY <1>g, <2>1, <2>2, <2>3
  <2> QED BY <1>t, <2>1, <2>4
<1>15. CASE ActBatch
  <2>1. /\ node = "act" /\ cycles' = cycles /\ fence' = fence /\ h' = h
        /\ node' = "observe" /\ Head(queue) \notin Builtin
        /\ queue' = SubSeq(queue, PrefixLength + 1, Len(queue))
    BY <1>15 DEF ActBatch, ActStep
  <2>2. PICK answer \in [1..PrefixLength -> Answers] :
          results' = [k \in 1..PrefixLength |-> [call |-> queue[k], answer |-> answer[k]]]
    BY <1>15 DEF ActBatch
  <2>3. /\ InTurn /\ queue \in Seq(Calls) /\ Len(queue) \in Nat \ {0}
        /\ Head(queue) = queue[1]
    BY <1>e, <2>1
  <2>4. /\ PrefixLength \in 0..Len(queue)
        /\ \A j \in 1..PrefixLength : queue[j] \notin Builtin
        /\ PrefixLength = Len(queue) \/ queue[PrefixLength + 1] \in Builtin
    BY <2>3, PrefixLengthBound
  <2>5. PrefixLength \in 1..Len(queue)
    <3>1. PrefixLength # 0
      BY <2>1, <2>3, <2>4
    <3> QED BY <2>3, <2>4, <3>1
  <2>6. results' \in Seq(Observation)
    BY <1>15, BatchResultTypes
  <2>7. Len(results') = PrefixLength
    <3>1. DOMAIN results' = 1..PrefixLength /\ PrefixLength \in Nat
      BY <2>2, <2>3, <2>4
    <3> QED BY <2>6, <3>1, LenProperties
  <2>8. \A i \in 1..PrefixLength : /\ results'[i].call = queue[i]
                                   /\ queue[i] = AskUser => AskUser \notin Allowed
    BY <2>2, <2>4, LoopAssumption
  <2>9. h.src = "model" => InPart'
    BY <2>1, <2>3, <2>5, <2>6, <2>7, <2>8, ActRecords
  <2> QED BY <1>t, <2>1, <2>9
<1>16. CASE Observe
  <2> DEFINE last == Len(cycles)
             c == [cycles[last] EXCEPT !.obs = cycles[last].obs \o results]
             b == cycles[last].batch
             o == cycles[last].obs \o results
  <2>1. /\ InTurn /\ node = "observe" /\ fence' = fence /\ h'.src = h.src
        /\ queue' = queue /\ results' = <<>>
        /\ node' = IF queue # <<>> THEN "act" ELSE "reason"
    BY <1>16, <1>h DEF Observe, RanInv, History
  <2>2. last \in Nat /\ last \in 1..last
    BY <2>1, ExecutedFacts DEF InTurn
  <2>3. cycles' = [cycles EXCEPT ![last] = c]
    BY <1>16, <2>1, CurrentIsLast DEF Observe, Observed
  <2>4. /\ cycles[last] \in Cycle /\ b \in Seq(Calls) /\ cycles[last].obs \in Seq(Observation)
        /\ c.batch = b /\ c.skipped = cycles[last].skipped /\ c.obs = o
    <3>1. cycles[last] \in Cycle /\ b \in Seq(Calls) /\ cycles[last].obs \in Seq(Observation)
      BY <2>2, LastCycle
    <3> QED BY <3>1 DEF Cycle
  <2>5. o \in Seq(Observation)
    BY <2>4, ConcatProperties DEF TypeOK, TempOK
  <2> HIDE DEF c, o
  <2>6. /\ Len(cycles') = last /\ cycles'[last] = c
        /\ \A k \in 1..last : k # last => cycles'[k] = cycles[k]
    BY <2>2, <2>3, ExecutedFacts, LenProperties, ExceptSeq
  <2>7. ~c.skipped
    BY <1>a, <2>1, <2>4 DEF Acting
  <2>8. Unskipped'
    BY <1>a, <2>6, <2>7
  <2>9. h.src = "model" => InPart
    BY <1>a, <2>1 DEF Acting
  <2>10. ASSUME h.src = "model" PROVE InPart'
    <3>1. o \o results' = o
      BY <2>1, <2>5, NoResults
    <3>2. \E n \in 0..Len(b) : queue = SubSeq(b, n + 1, Len(b)) /\ Recorded(b, o, n)
      BY <2>9, <2>10 DEF InPart, o
    <3>3. cycles'[Len(cycles')].batch = b /\ cycles'[Len(cycles')].obs = o
      BY <2>4, <2>6
    <3> HIDE DEF b
    <3> QED BY <2>1, <3>1, <3>2, <3>3 DEF InPart
  <2>11. ASSUME NEW k \in 1..last PROVE Whole(k)'
    <3>1. CASE k # last
      <4>1. cycles'[k] = cycles[k]
        BY <2>6, <3>1
      <4> QED BY <1>a, <2>1, <2>6, <3>1, <4>1 DEF Whole
    <3>2. CASE k = last
      <4>1. CASE h.src = "model" /\ queue = <<>>
        <5>1. Recorded(b, o, Len(b))
          BY <2>1, <2>9, <4>1, QueueEmpty DEF o
        <5> QED BY <2>4, <2>6, <3>2, <5>1 DEF Whole
      <4>2. CASE h.src # "model"
        <5>1. b = <<>>
          BY <2>1, <4>2 DEF RanInv
        <5> QED BY <2>4, <2>6, <3>2, <5>1 DEF Whole
      <4>3. CASE queue # <<>>
        BY <2>1, <2>6, <3>2, <4>3 DEF Whole, Acting
      <4> QED BY <4>1, <4>2, <4>3
    <3> QED BY <3>1, <3>2
  <2>12. (\A k \in 1..Len(cycles) : Whole(k))'
    BY <2>6, <2>11
  <2>13. Rest'
    BY <2>1, <2>6, <2>7, <2>10
  <2> HIDE DEF Rest, Unskipped
  <2> QED BY <1>b, <2>8, <2>12, <2>13
<1>17. CASE UserReplies
  BY <1>17, <1>r DEF UserReplies, Acting
<1>18. CASE HandleUserResponse
  <2>1. /\ node = "handle_user_response" /\ cycles' = cycles /\ fence' = fence
        /\ queue' = queue /\ results' = results /\ h'.src = h.src
        /\ node' = IF queue # <<>> THEN "act" ELSE "reason"
    BY <1>18, <1>h DEF HandleUserResponse, History
  <2>2. CASE queue # <<>>
    BY <1>r, <2>1, <2>2 DEF Acting
  <2>3. CASE queue = <<>>
    <3>1. InTurn /\ results = <<>> /\ node' = "reason"
      BY <1>a, <2>1, <2>3 DEF RanInv
    <3>2. Len(cycles) \in 1..Len(cycles)
      BY <3>1, ExecutedFacts DEF InTurn
    <3>3. ASSUME NEW k \in 1..Len(cycles) PROVE Whole(k)'
      <4>1. CASE k # Len(cycles)
        BY <1>a, <2>1, <4>1 DEF Whole
      <4>2. CASE k = Len(cycles) /\ h.src = "model"
        <5>1. cycles[k].obs \o results = cycles[k].obs
          BY <3>1, LastCycle, NoResults
        <5>2. Recorded(cycles[k].batch, cycles[k].obs \o results, Len(cycles[k].batch))
          BY <1>a, <2>1, <2>3, <3>1, <4>2, QueueEmpty DEF Acting
        <5>3. Recorded(cycles[k].batch, cycles[k].obs, Len(cycles[k].batch))
          BY <5>1, <5>2
        <5> QED BY <2>1, <5>3 DEF Whole
      <4>3. CASE k = Len(cycles) /\ h.src # "model"
        <5>1. cycles[k].batch = <<>>
          BY <2>1, <4>3 DEF RanInv
        <5> QED BY <2>1, <5>1 DEF Whole
      <4> QED BY <4>1, <4>2, <4>3
    <3>4. (\A k \in 1..Len(cycles) : Whole(k))'
      BY <2>1, <3>3
    <3>5. Rest'
      BY <2>1, <3>1 DEF Acting
    <3> HIDE DEF Rest, Unskipped
    <3> QED BY <1>b, <1>s, <2>1, <3>4, <3>5
  <2> QED BY <2>2, <2>3
<1>19. CASE MaybeReview
  <2>1. /\ node = "maybe_review" /\ node' \in {"review", "done"}
        /\ cycles' = cycles /\ fence' = fence /\ results' = results
    BY <1>19 DEF MaybeReview
  <2> QED BY <1>q, <2>1 DEF Acting, Working, Nodes, Ended
<1>20. CASE Review
  BY <1>20, <1>q DEF Review, Acting, Working, Nodes, Ended
<1>21. CASE ReviewParseAbsorbed
  BY <1>21, <1>q DEF ReviewParseAbsorbed, ReviewParseStep, Acting, Working, Nodes, Ended
<1>22. CASE ReviewParseAccept
  BY <1>22, <1>q DEF ReviewParseAccept, ReviewParseStep, Acting, Working, Nodes, Ended
<1>23. CASE ReviewParseCalls
  <2>1. /\ node = "review_parse" /\ node' = "act" /\ cycles' = cycles /\ fence' = fence
        /\ results' = results /\ h'.src = "verifier"
    BY <1>23, <1>h DEF ReviewParseCalls, ReviewParseStep, History
  <2>2. (\A k \in 1..Len(cycles) : Whole(k))'
    BY <1>a, <2>1, WholeStays DEF Acting
  <2>3. Rest'
    BY <1>a, <2>1 DEF Acting
  <2> HIDE DEF Rest, Unskipped
  <2> QED BY <1>b, <1>s, <2>1, <2>2, <2>3
<1>24. CASE ReviewParsePrompt
  BY <1>24, <1>q DEF ReviewParsePrompt, ReviewParseStep, Acting, Working, Nodes, Ended
<1>25. CASE Done
  BY <1>25, <1>q DEF Done, EndNode, Acting, Working, Nodes, Ended
<1>26. CASE ConcludeCall
  BY <1>26, <1>q DEF ConcludeCall, CallModel, Acting, Working, Nodes, Ended
<1>27. CASE ConcludeRetry
  BY <1>27, <1>q DEF ConcludeRetry, ConcludeStep, Acting, Working, Nodes, Ended
<1>28. CASE ConcludeFinish
  BY <1>28, <1>q DEF ConcludeFinish, ConcludeStep, EndNode, Acting, Working, Nodes, Ended
<1>29. CASE NextTurn
  <2>1. /\ node = "parked" /\ node' = "reason" /\ cycles' = cycles /\ fence' = Len(cycles)
        /\ results' = <<>>
    BY <1>29 DEF NextTurn, FreshScratch, FreshTemp, FreshCarriers
  <2>2. ASSUME NEW k \in 1..Len(cycles) PROVE Whole(k)'
    <3>1. Whole(k) /\ node \notin Acting /\ Len(cycles) \in Nat
      BY <1>a, <2>1, ExecutedFacts DEF Acting
    <3>2. ~(k > fence')
      BY <2>1, <3>1
    <3> QED BY <2>1, <3>1, <3>2 DEF Whole
  <2>3. (\A k \in 1..Len(cycles) : Whole(k))'
    BY <2>1, <2>2
  <2>4. Rest'
    BY <2>1 DEF Acting
  <2> HIDE DEF Rest, Unskipped
  <2> QED BY <1>b, <1>s, <2>1, <2>3, <2>4
<1>30. CASE (\E kind \in {"guidance", "conclude"} : Send(kind)) \/ UNCHANGED vars
  <2>1. /\ node' = node /\ cycles' = cycles /\ fence' = fence /\ results' = results
        /\ queue' = queue /\ h' = h
    BY <1>30 DEF Send, vars
  <2>2. \A k \in 1..Len(cycles) : Whole(k) => Whole(k)'
    BY <2>1 DEF Whole, Working
  <2>3. InPart => InPart'
    BY <2>1 DEF InPart
  <2>4. Rest'
    BY <1>a, <2>1, <2>3
  <2>5. (\A k \in 1..Len(cycles) : Whole(k))'
    BY <1>a, <2>1, <2>2
  <2> HIDE DEF Rest, Unskipped
  <2> QED BY <1>b, <1>s, <2>1, <2>4, <2>5
<1> QED
  BY <1>1, <1>2, <1>3, <1>4, <1>5, <1>6, <1>7, <1>8, <1>9, <1>10, <1>11, <1>12, <1>13, <1>14, <1>15, <1>16, <1>17, <1>18, <1>19, <1>20, <1>21, <1>22, <1>23, <1>24, <1>25, <1>26, <1>27, <1>28, <1>29, <1>30 DEF VisitNext, Next, Tick, Parse, Act, ReviewParse, Finished

\* However the queue is split between external calls, builtins and questions, and
\* whatever turns, refusals and forced batches lie before and after.
THEOREM BatchesAreRecorded == VisitSpec => []RecordIsWhole
<1>1. Init => RanInv /\ RecordInv
  <2> SUFFICES ASSUME Init PROVE RanInv /\ RecordInv
    OBVIOUS
  <2>1. cycles = <<>> /\ Len(cycles) = 0 /\ 1..Len(cycles) = {}
    BY EmptySeq DEF Init
  <2>2. RanInv
    BY EmptySeq DEF Init, RanInv, NoHistory
  <2>3. node \notin Acting \union {"maybe_review", "review", "review_parse"} /\ results = <<>>
    BY DEF Init, Acting
  <2> QED BY <2>1, <2>2, <2>3 DEF RecordInv
<1>2. IInv /\ RanInv /\ RecordInv /\ [VisitNext]_vars => RanInv' /\ RecordInv'
  BY RanStep, RecordStep DEF IInv
<1>3. IInv /\ RecordInv => RecordIsWhole
  <2> SUFFICES ASSUME IInv, RecordInv PROVE RecordIsWhole
    OBVIOUS
  <2>1. TypeOK /\ DOMAIN cycles = 1..Len(cycles) /\ Len(cycles) \in Nat
    BY ExecutedFacts, LenProperties DEF IInv
  <2>2. ASSUME NEW k \in DOMAIN cycles
        PROVE  /\ cycles[k].skipped => cycles[k].obs = <<>>
               /\ Whole(k)
               /\ k < Len(cycles) => k # Len(cycles)
               /\ DOMAIN cycles[k].batch = 1..Len(cycles[k].batch)
               /\ DOMAIN cycles[k].obs = 1..Len(cycles[k].obs)
    <3>1. Whole(k) /\ (cycles[k].skipped => cycles[k].obs = <<>>)
      BY <2>1 DEF RecordInv
    <3>2. k < Len(cycles) => k # Len(cycles)
      BY <2>1
    <3>3. cycles[k].batch \in Seq(Calls) /\ cycles[k].obs \in Seq(Observation)
      BY <2>1, LastCycle
    <3> QED BY <3>1, <3>2, <3>3, LenProperties
  <2>3. ASSUME NEW k \in DOMAIN cycles, node \notin Acting, cycles[k].batch # <<>>,
               cycles[k].obs # <<>> \/ (~cycles[k].skipped /\ k > fence /\ k < Len(cycles))
        PROVE  Recorded(cycles[k].batch, cycles[k].obs, Len(cycles[k].batch))
    BY <2>2, <2>3 DEF Whole
  <2> DEFINE Must(c) == {j \in DOMAIN c.batch : c.batch[j] = AskUser => AskUser \notin Allowed}
             Kept(c) == \E place \in [DOMAIN c.obs -> Must(c)] :
                          /\ \A j \in Must(c) : \E i \in DOMAIN c.obs : place[i] = j
                          /\ \A i, j \in DOMAIN c.obs : i < j => place[i] < place[j]
                          /\ \A i \in DOMAIN c.obs : c.obs[i].call = c.batch[place[i]]
  <2>4. ASSUME NEW c, Recorded(c.batch, c.obs, Len(c.batch)),
               DOMAIN c.obs = 1..Len(c.obs), DOMAIN c.batch = 1..Len(c.batch)
        PROVE  Kept(c)
    <3>1. Must(c) = Noted(c.batch, Len(c.batch))
      BY <2>4 DEF Noted
    <3> HIDE DEF Must
    <3>2. PICK place \in [1..Len(c.obs) -> Must(c)] :
             /\ \A j \in Must(c) : \E i \in 1..Len(c.obs) : place[i] = j
             /\ \A i, j \in 1..Len(c.obs) : i < j => place[i] < place[j]
             /\ \A i \in 1..Len(c.obs) : c.obs[i].call = c.batch[place[i]]
      BY <2>4, <3>1 DEF Recorded
    <3>3. place \in [DOMAIN c.obs -> Must(c)]
      BY <2>4
    <3>4. /\ \A j \in Must(c) : \E i \in DOMAIN c.obs : place[i] = j
          /\ \A i, j \in DOMAIN c.obs : i < j => place[i] < place[j]
          /\ \A i \in DOMAIN c.obs : c.obs[i].call = c.batch[place[i]]
      BY <2>4, <3>2
    <3> QED BY <3>3, <3>4
  <2>5. ASSUME NEW k \in DOMAIN cycles
        PROVE  /\ cycles[k].skipped => cycles[k].obs = <<>>
               /\ (/\ node \notin Acting /\ cycles[k].batch # <<>>
                   /\ cycles[k].obs # <<>> \/ (~cycles[k].skipped /\ k > fence /\ k < Len(cycles)))
                  => Kept(cycles[k])
    <3> HIDE DEF Kept
    <3>1. ASSUME node \notin Acting, cycles[k].batch # <<>>,
                 cycles[k].obs # <<>> \/ (~cycles[k].skipped /\ k > fence /\ k < Len(cycles))
          PROVE  Kept(cycles[k])
      <4>1. Recorded(cycles[k].batch, cycles[k].obs, Len(cycles[k].batch))
        BY <2>3, <3>1
      <4> QED BY <2>2, <2>4, <4>1
    <3> QED BY <2>2, <3>1
  <2> QED BY <2>5 DEF RecordIsWhole
<1> QED BY <1>1, <1>2, <1>3, Invariance, PTL DEF VisitSpec

-----------------------------------------------------------------------------
(* A batch insisted on is refused *)

\* Those of some places that are no earlier than k.
NoEarlier(P, k) == {j \in P : j >= k}

\* How many of some places are no earlier than a given one: each place has its
\* number, the latest is the first, and every number up to their count is given.
LEMMA CountedFromTheEnd ==
  ASSUME NEW n \in Nat, NEW P \in SUBSET (1..n)
  PROVE  /\ IsFiniteSet(P) /\ Cardinality(P) \in Nat
         /\ \A k \in P : Cardinality(NoEarlier(P, k)) \in 1..Cardinality(P)
         /\ \A k, l \in P :
              k < l => Cardinality(NoEarlier(P, l)) < Cardinality(NoEarlier(P, k))
         /\ \A i \in 1..Cardinality(P) : \E k \in P : Cardinality(NoEarlier(P, k)) = i
<1> DEFINE From(k) == {j \in P : j >= k}
           rank == [k \in P |-> Cardinality(From(k))]
           c == Cardinality(P)
<1>1. IsFiniteSet(P)
  <2>1. IsFiniteSet(1..n)
    BY FS_Interval
  <2> QED BY <2>1, FS_Subset
<1>2. c \in Nat
  BY <1>1, FS_CardinalityType
<1>3. ASSUME NEW k \in P
      PROVE  IsFiniteSet(From(k)) /\ Cardinality(From(k)) \in 1..c
  <2>1. From(k) \subseteq P /\ From(k) # {}
    OBVIOUS
  <2>2. IsFiniteSet(From(k)) /\ Cardinality(From(k)) <= c
    BY <1>1, <2>1, FS_Subset
  <2>3. Cardinality(From(k)) \in Nat /\ Cardinality(From(k)) # 0
    BY <2>1, <2>2, FS_CardinalityType, FS_EmptySet
  <2> QED BY <1>2, <2>2, <2>3
<1>4. ASSUME NEW k \in P, NEW l \in P, k < l PROVE Cardinality(From(l)) < Cardinality(From(k))
  <2>1. k \in Int /\ l \in Int /\ \A j \in P : j \in Int
    OBVIOUS
  <2>2. From(l) \subseteq From(k) /\ k \in From(k) /\ k \notin From(l)
    <3>1. \A j \in Int : j >= l => j >= k
      BY <1>4, <2>1
    <3>2. From(l) \subseteq From(k)
      BY <2>1, <3>1
    <3> QED BY <1>4, <2>1, <3>2
  <2>3. From(l) # From(k)
    BY <2>2
  <2>4. Cardinality(From(l)) <= Cardinality(From(k)) /\ Cardinality(From(l)) # Cardinality(From(k))
    BY <1>3, <2>2, <2>3, FS_Subset
  <2> QED BY <1>3, <2>4
<1>5. rank \in Injection(P, 1..c)
  <2>1. rank \in [P -> 1..c]
    BY <1>3
  <2>2. \A j, k \in P : rank[j] = rank[k] => j = k
    <3>1. \A j, k \in P : j < k \/ k < j \/ j = k
      OBVIOUS
    <3>2. \A j, k \in P : j < k => rank[j] # rank[k]
      <4> SUFFICES ASSUME NEW j \in P, NEW k \in P, j < k PROVE rank[j] # rank[k]
        OBVIOUS
      <4>1. Cardinality(From(k)) < Cardinality(From(j)) /\ Cardinality(From(j)) \in 1..c
            /\ Cardinality(From(k)) \in 1..c
        BY <1>3, <1>4
      <4> QED BY <4>1
    <3> HIDE DEF rank
    <3> QED BY <3>1, <3>2
  <2> HIDE DEF rank
  <2> QED BY <2>1, <2>2 DEF Injection, IsInjective
<1>6. rank \in Surjection(P, 1..c)
  <2>1. IsFiniteSet(1..c) /\ Cardinality(1..c) = c
    BY <1>2, FS_Interval
  <2> HIDE DEF rank
  <2> QED BY <1>5, <2>1, FS_Injection
<1>7. \A i \in 1..c : \E k \in P : rank[k] = i
  <2> HIDE DEF rank
  <2> QED BY <1>6 DEF Surjection
<1>8. \A i \in 1..c : \E k \in P : Cardinality(From(k)) = i
  BY <1>7
<1> HIDE DEF From
<1>9. /\ \A k \in P : Cardinality(From(k)) \in 1..c
      /\ \A k, l \in P : k < l => Cardinality(From(l)) < Cardinality(From(k))
  BY <1>3, <1>4
<1>10. \A k : From(k) = NoEarlier(P, k)
  BY DEF From, NoEarlier
<1> QED BY <1>1, <1>2, <1>8, <1>9, <1>10

\* The smallest of some numbers is their Min.
LEMMA MinIs ==
  ASSUME NEW S, S \subseteq Int, NEW k \in S, \A y \in S : k <= y
  PROVE  Min(S) = k
<1>1. \A x \in S : (\A y \in S : x <= y) => x = k
  OBVIOUS
<1> QED BY <1>1 DEF Min

\* The larger and the smaller of two numbers.
LEMMA OfTwo ==
  ASSUME NEW a \in Int, NEW b \in Int
  PROVE  /\ Max({a, b}) = IF a <= b THEN b ELSE a
         /\ Min({a, b}) = IF a <= b THEN a ELSE b
<1>1. CASE a <= b
  BY <1>1, MaxIs, MinIs
<1>2. CASE ~(a <= b)
  BY <1>2, MaxIs, MinIs
<1> QED BY <1>1, <1>2

\* What the thresholds come to: a failing batch is given a second proposal, and the
\* scan goes back 24 proposals at least.
LEMMA Depths ==
  /\ FailAt \in Int /\ FailAt >= 2
  /\ ScanAt \in Int /\ ScanAt <= FailAt /\ ScanAt <= StreakThreshold
  /\ StreakThreshold >= 2 => ScanAt >= 2
  /\ ScanDepth \in Int /\ ScanDepth >= 24
<1>1. StreakThreshold \in Int /\ FailingThreshold \in Int /\ HardDepth \in Int
  BY ThresholdAssumption DEF HardDepth
<1>2. FailAt \in Int /\ FailAt >= 2
  BY <1>1, OfTwo DEF FailAt
<1>3. /\ ScanAt \in Int /\ ScanAt <= FailAt /\ ScanAt <= StreakThreshold
      /\ StreakThreshold >= 2 => ScanAt >= 2
  BY <1>1, <1>2, OfTwo DEF ScanAt
<1>4. ScanDepth \in Int /\ ScanDepth >= 24
  <2> DEFINE S == {ScanAt, 4, 24, HardDepth}
  <2>1. PICK k \in S : \A y \in S : y <= k
    BY <1>1, <1>3
  <2>2. S \subseteq Int /\ 24 \in S
    BY <1>1, <1>3
  <2> HIDE DEF S
  <2>3. Max(S) = k
    BY <2>1, <2>2, MaxIs
  <2> QED BY <2>1, <2>2, <2>3 DEF ScanDepth, S
<1> QED BY <1>2, <1>3, <1>4

\* The proposals of a turn, and the number of each counted from the newest.
Proposals(m, f) == {k \in (f + 1)..Len(m) : m[k].batch # <<>>}
Nth(m, f, k) == Cardinality(NoEarlier(Proposals(m, f), k))

\* What the scan collects: the newest proposals, newest first, and all of them but for
\* its depth.
LEMMA ToolCyclesAre ==
  ASSUME NEW m \in Seq(Cycle), NEW f \in Nat
  PROVE  LET t == ToolCycles(m, f)
             c == Cardinality(Proposals(m, f))
         IN  /\ c \in Nat /\ IsFiniteSet(Proposals(m, f))
             /\ t \in Seq(Cycle)
             /\ Len(t) = IF c <= ScanDepth THEN c ELSE ScanDepth
             /\ \A k \in Proposals(m, f) :
                  /\ Nth(m, f, k) \in 1..c
                  /\ Nth(m, f, k) <= Len(t) => t[Nth(m, f, k)] = m[k]
             /\ \A k, l \in Proposals(m, f) : k < l => Nth(m, f, l) < Nth(m, f, k)
             /\ \A i \in 1..Len(t) : \E k \in Proposals(m, f) : Nth(m, f, k) = i /\ t[i] = m[k]
<1> DEFINE P == Proposals(m, f)
           c == Cardinality(P)
           d == IF c <= ScanDepth THEN c ELSE ScanDepth
           t == ToolCycles(m, f)
           place(i) == CHOOSE k \in P : Cardinality({j \in P : j >= k}) = i
<1>1. Len(m) \in Nat /\ P \in SUBSET (1..Len(m))
  BY LenProperties DEF Proposals
<1>2. /\ IsFiniteSet(P) /\ c \in Nat
      /\ \A k \in P : Nth(m, f, k) \in 1..c
      /\ \A k, l \in P : k < l => Nth(m, f, l) < Nth(m, f, k)
      /\ \A i \in 1..c : \E k \in P : Nth(m, f, k) = i
  <2> HIDE DEF P
  <2>1. \A k : Nth(m, f, k) = Cardinality(NoEarlier(P, k))
    BY DEF Nth, P
  <2>2. /\ IsFiniteSet(P) /\ Cardinality(P) \in Nat
        /\ \A k \in P : Cardinality(NoEarlier(P, k)) \in 1..Cardinality(P)
        /\ \A k, l \in P :
             k < l => Cardinality(NoEarlier(P, l)) < Cardinality(NoEarlier(P, k))
        /\ \A i \in 1..Cardinality(P) : \E k \in P : Cardinality(NoEarlier(P, k)) = i
    BY <1>1, CountedFromTheEnd
  <2> QED BY <2>1, <2>2
<1>3. d = Min({c, ScanDepth}) /\ d \in Nat /\ d <= c
  <2> HIDE DEF P, c
  <2>1. c \in Int /\ ScanDepth \in Int /\ ScanDepth >= 24 /\ c \in Nat
    BY <1>2, Depths
  <2>2. Min({c, ScanDepth}) = d
    BY <2>1, OfTwo
  <2> QED BY <2>1, <2>2
<1>4. t = [i \in 1..d |-> m[place(i)]]
  BY <1>3 DEF ToolCycles, Proposals
<1>5. ASSUME NEW i \in 1..d PROVE place(i) \in P /\ Nth(m, f, place(i)) = i
  <2>1. i \in 1..c
    BY <1>2, <1>3
  <2>2. \E k \in P : Cardinality({j \in P : j >= k}) = i
    BY <1>2, <2>1 DEF Nth, NoEarlier
  <2> QED BY <2>2 DEF Nth, NoEarlier
<1> HIDE DEF place
<1>6. t \in Seq(Cycle) /\ Len(t) = d
  <2>1. \A k \in P : m[k] \in Cycle
    BY <1>1, ElementOfSeq
  <2>2. t \in [1..d -> Cycle]
    BY <1>4, <1>5, <2>1
  <2> HIDE DEF d, t
  <2>3. t \in Seq(Cycle) /\ DOMAIN t = 1..d
    BY <1>3, <2>2, SeqDef
  <2> QED BY <1>3, <2>3, LenProperties
<1>7. \A j, k \in P : Nth(m, f, j) = Nth(m, f, k) => j = k
  <2> SUFFICES ASSUME NEW j \in P, NEW k \in P, j # k PROVE Nth(m, f, j) # Nth(m, f, k)
    OBVIOUS
  <2>1. j < k \/ k < j
    BY <1>1
  <2>2. Nth(m, f, j) \in Nat /\ Nth(m, f, k) \in Nat
    BY <1>2
  <2> QED BY <1>2, <2>1, <2>2
<1>8. ASSUME NEW k \in P, Nth(m, f, k) <= Len(t) PROVE t[Nth(m, f, k)] = m[k]
  <2>1. Nth(m, f, k) \in 1..d
    BY <1>2, <1>3, <1>6, <1>8
  <2>2. place(Nth(m, f, k)) = k
    BY <1>5, <1>7, <2>1
  <2> QED BY <1>4, <2>1, <2>2
<1>9. ASSUME NEW i \in 1..Len(t) PROVE \E k \in P : Nth(m, f, k) = i /\ t[i] = m[k]
  BY <1>4, <1>5, <1>6
<1> HIDE DEF P, t
<1> QED BY <1>2, <1>6, <1>8, <1>9 DEF P, t

\* Every cycle after p proposes the batch the last one does, and p another.
Insisted(m, f, p) ==
  /\ p \in f..(Len(m) - 1)
  /\ \A k \in (p + 1)..Len(m) : m[k].batch = m[Len(m)].batch
  /\ m[Len(m)].batch # <<>>
  /\ p > f => m[p].batch \notin {<<>>, m[Len(m)].batch}

\* As far as the scan goes back.
Scanned(n) == IF n <= ScanDepth THEN n ELSE ScanDepth

\* The scan starts with the newest proposals, in the order of the cycles backwards, as
\* long as every cycle is one.
LEMMA SuffixIsScanned ==
  ASSUME NEW m \in Seq(Cycle), NEW f \in Nat, NEW p \in f..(Len(m) - 1),
         \A k \in (p + 1)..Len(m) : m[k].batch # <<>>
  PROVE  LET t == ToolCycles(m, f)
             q == Len(m)
             s == Scanned(q - p)
         IN  /\ s \in 1..Len(t)
             /\ \A k \in 0..(s - 1) : Back(t, k) = m[q - k]
             /\ \A k \in Nat : k < q - p => /\ q - k \in Proposals(m, f)
                                            /\ Nth(m, f, q - k) = k + 1
<1> DEFINE t == ToolCycles(m, f)
           q == Len(m)
           s == Scanned(q - p)
           P == Proposals(m, f)
           c == Cardinality(P)
<1>1. q \in Nat /\ p \in Nat /\ p >= f /\ p <= q - 1
  BY LenProperties
<1>2. /\ ScanDepth \in Nat /\ s \in Nat /\ s >= 1 /\ s <= q - p /\ s <= ScanDepth
      /\ s = q - p \/ s = ScanDepth
  BY <1>1, Depths DEF Scanned
<1>3. (p + 1)..q \subseteq P
  BY <1>1 DEF Proposals
<1>4. ASSUME NEW k \in Nat, k < q - p
      PROVE  q - k \in P /\ Nth(m, f, q - k) = k + 1
  <2>1. q - k \in P /\ q - k \in Int
    BY <1>1, <1>3, <1>4
  <2>2. \A j \in P : j \in Int /\ j <= q
    BY <1>1 DEF Proposals
  <2>3. NoEarlier(P, q - k) = (q - k)..q
    <3>1. (q - k)..q \subseteq P
      BY <1>1, <1>3, <1>4
    <3> HIDE DEF P, q
    <3> QED BY <2>1, <2>2, <3>1 DEF NoEarlier
  <2>4. Cardinality((q - k)..q) = k + 1
    <3>1. q - k \in Int /\ q \in Int /\ q - k <= q /\ q - (q - k) + 1 = k + 1
      BY <1>1
    <3> QED BY <3>1, FS_Interval
  <2> QED BY <2>1, <2>3, <2>4 DEF Nth
<1>5. /\ c \in Nat
      /\ t \in Seq(Cycle)
      /\ Len(t) = IF c <= ScanDepth THEN c ELSE ScanDepth
      /\ \A k \in P : /\ Nth(m, f, k) \in 1..c
                      /\ Nth(m, f, k) <= Len(t) => t[Nth(m, f, k)] = m[k]
      /\ \A k, l \in P : k < l => Nth(m, f, l) < Nth(m, f, k)
      /\ \A i \in 1..Len(t) : \E k \in P : Nth(m, f, k) = i /\ t[i] = m[k]
  BY ToolCyclesAre
<1> HIDE DEF P, t, s, q
<1>6. s <= Len(t) /\ Len(t) \in Nat
  <2>1. q - p - 1 \in Nat /\ q - p - 1 < q - p
    BY <1>1
  <2>2. q - p - 1 + 1 \in 1..c
    BY <1>4, <1>5, <2>1
  <2>3. c >= q - p
    BY <1>1, <1>5, <2>2
  <2> QED BY <1>1, <1>2, <1>5, <2>3
<1>7. \A k \in 0..(s - 1) : Back(t, k) = m[q - k]
  <2> SUFFICES ASSUME NEW k \in 0..(s - 1) PROVE Back(t, k) = m[q - k]
    OBVIOUS
  <2>1. k \in Nat /\ k < q - p /\ k + 1 <= Len(t)
    BY <1>1, <1>2, <1>6
  <2>2. q - k \in P /\ Nth(m, f, q - k) = k + 1
    BY <1>4, <2>1
  <2>3. t[k + 1] = m[q - k]
    BY <1>5, <2>1, <2>2
  <2> QED BY <2>3 DEF Back
<1> QED BY <1>2, <1>4, <1>6, <1>7 DEF t, P, s, q

\* The scan meets the proposals of a batch insisted on first, and then none of it.
LEMMA InsistedIsScanned ==
  ASSUME NEW m \in Seq(Cycle), NEW f \in Nat, NEW p, Insisted(m, f, p)
  PROVE  LET t == ToolCycles(m, f)
             q == Len(m)
             s == Scanned(q - p)
         IN  /\ s \in 1..Len(t)
             /\ \A k \in 0..(s - 1) : Back(t, k) = m[q - k]
             /\ SameBatchRun(t) = s
<1> DEFINE t == ToolCycles(m, f)
           q == Len(m)
           s == Scanned(q - p)
           P == Proposals(m, f)
           c == Cardinality(P)
<1>1. q \in Nat /\ p \in Nat /\ p >= f /\ p <= q - 1
  BY LenProperties DEF Insisted
<1>2. /\ ScanDepth \in Nat /\ s \in Nat /\ s >= 1 /\ s <= q - p /\ s <= ScanDepth
      /\ s = q - p \/ s = ScanDepth
  BY <1>1, Depths DEF Scanned
<1>3. /\ s \in 1..Len(t)
      /\ \A k \in 0..(s - 1) : Back(t, k) = m[q - k]
      /\ \A k \in Nat : k < q - p => q - k \in P /\ Nth(m, f, q - k) = k + 1
  <2>1. p \in f..(Len(m) - 1) /\ \A k \in (p + 1)..Len(m) : m[k].batch # <<>>
    BY DEF Insisted
  <2> QED BY <2>1, SuffixIsScanned
<1>4. \A k \in Nat : k < q - p => q - k \in P /\ Nth(m, f, q - k) = k + 1
  BY <1>3
<1>5. /\ c \in Nat
      /\ t \in Seq(Cycle)
      /\ Len(t) = IF c <= ScanDepth THEN c ELSE ScanDepth
      /\ \A k \in P : /\ Nth(m, f, k) \in 1..c
                      /\ Nth(m, f, k) <= Len(t) => t[Nth(m, f, k)] = m[k]
      /\ \A k, l \in P : k < l => Nth(m, f, l) < Nth(m, f, k)
      /\ \A i \in 1..Len(t) : \E k \in P : Nth(m, f, k) = i /\ t[i] = m[k]
  BY ToolCyclesAre
<1> HIDE DEF P, t, s, q
<1>6. s <= Len(t) /\ Len(t) \in Nat
  BY <1>2, <1>3, <1>5, LenProperties
<1>7. \A k \in 0..(s - 1) : Back(t, k) = m[q - k]
  BY <1>3
<1>8. ASSUME s < Len(t) PROVE t[s + 1].batch # m[q].batch
  <2>1. s = q - p
    BY <1>1, <1>2, <1>5, <1>8
  <2>2. s + 1 \in 1..Len(t)
    BY <1>2, <1>6, <1>8
  <2>3. PICK k \in P : Nth(m, f, k) = s + 1 /\ t[s + 1] = m[k]
    BY <1>5, <2>2
  <2>4. k \in Nat /\ k >= f + 1 /\ k <= q
    BY <1>1 DEF P, q, Proposals
  <2>5. ~(k > p)
    <3> SUFFICES ASSUME k > p PROVE FALSE
      OBVIOUS
    <3>1. q - k \in Nat /\ q - k < q - p /\ q - (q - k) = k
      BY <1>1, <2>4
    <3>2. Nth(m, f, k) = q - k + 1
      BY <1>4, <3>1
    <3> QED BY <1>1, <2>1, <2>3, <2>4, <3>2
  <2>6. p > f /\ p \in P
    <3>1. p > f
      BY <1>1, <2>4, <2>5
    <3> QED BY <1>1, <3>1 DEF Insisted, P, q, Proposals
  <2>7. k = p
    <3> SUFFICES ASSUME k < p PROVE FALSE
      BY <1>1, <2>4, <2>5
    <3>1. Nth(m, f, p) < s + 1
      BY <1>5, <2>3, <2>6
    <3>2. q - p - 1 \in Nat /\ q - p - 1 < q - p /\ q - (q - p - 1) = p + 1 /\ q - p - 1 + 1 = s
      BY <1>1, <2>1
    <3>3. p + 1 \in P /\ Nth(m, f, p + 1) = s
      BY <1>4, <3>2
    <3>4. Nth(m, f, p + 1) < Nth(m, f, p) /\ Nth(m, f, p) \in Nat
      BY <1>1, <1>5, <2>6, <3>3
    <3> QED BY <1>2, <3>1, <3>3, <3>4
  <2> QED BY <2>3, <2>6, <2>7 DEF Insisted, q
<1>9. SameBatchRun(t) = s
  <2> DEFINE S == {u \in 1..Len(t) : \A k \in 1..(u - 1) : Back(t, k).batch = Back(t, 0).batch}
  <2>1. Back(t, 0) = m[q]
    BY <1>1, <1>2, <1>7
  <2>2. s \in S
    <3> SUFFICES ASSUME NEW k \in 1..(s - 1) PROVE Back(t, k).batch = m[q].batch
      BY <1>2, <1>6, <2>1
    <3>1. Back(t, k) = m[q - k] /\ q - k \in (p + 1)..q
      BY <1>1, <1>2, <1>7
    <3> QED BY <3>1 DEF Insisted, q
  <2>3. \A u \in S : u <= s
    <3> SUFFICES ASSUME NEW u \in S, ~(u <= s) PROVE FALSE
      OBVIOUS
    <3>1. u \in 1..Len(t) /\ s \in 1..(u - 1) /\ s < Len(t)
      BY <1>2, <1>6
    <3>2. Back(t, s).batch = m[q].batch
      BY <2>1, <3>1
    <3> QED BY <1>8, <3>1, <3>2 DEF Back
  <2>4. S \subseteq Int
    OBVIOUS
  <2> HIDE DEF S
  <2>5. Max(S) = s
    BY <2>2, <2>3, <2>4, MaxIs
  <2> QED BY <2>5 DEF SameBatchRun, S
<1> QED BY <1>2, <1>6, <1>7, <1>9 DEF t, q, s

\* The thresholds are those LoopIsCut speaks of.
Reachable == HardThreshold = Absent /\ StreakThreshold \in 2..ScanDepth /\ FailAt <= ScanDepth

\* What came back for the cycles after p and up to q is the same.
Agreed(m, p, q) ==
  \A j, k \in (p + 1)..q : m[j].obs # <<>> /\ m[k].obs # <<>> => m[j].obs = m[k].obs

\* How many proposals after p are patience enough, by what came back up to q.
Due(m, p, q) ==
  IF \A k \in (p + 1)..q : ~AllFailed(m[k].obs) THEN StreakThreshold
  ELSE IF m[p + 1].obs # <<>> THEN FailAt
  ELSE Max({StreakThreshold, FailAt})

\* The patience with a batch is a number.
LEMMA DueIs ==
  ASSUME NEW m, NEW p, NEW q, Reachable
  PROVE  /\ Due(m, p, q) \in Nat /\ Due(m, p, q) >= 2
         /\ StreakThreshold \in Nat /\ StreakThreshold >= 2 /\ FailAt \in Nat /\ FailAt >= 2
         /\ Due(m, p, q) >= FailAt \/ Due(m, p, q) >= StreakThreshold
         /\ (\E k \in (p + 1)..q : AllFailed(m[k].obs)) => Due(m, p, q) >= FailAt
         /\ ~(Due(m, p, q) >= StreakThreshold) =>
              m[p + 1].obs # <<>> /\ \E k \in (p + 1)..q : AllFailed(m[k].obs)
<1>1. /\ StreakThreshold \in Nat /\ StreakThreshold >= 2 /\ FailAt \in Nat /\ FailAt >= 2
  BY Depths DEF Reachable
<1>2. /\ Max({StreakThreshold, FailAt}) \in Nat
      /\ Max({StreakThreshold, FailAt}) >= StreakThreshold
      /\ Max({StreakThreshold, FailAt}) >= FailAt
  BY <1>1, OfTwo
<1> QED BY <1>1, <1>2 DEF Due

\* Past that patience the batch is found to be repeated, under the key of its own.
LEMMA InsistedIsDetected ==
  ASSUME NEW m \in Seq(Cycle), NEW f \in Nat, NEW p, Insisted(m, f, p), Reachable,
         Agreed(m, p, Len(m) - 1), Len(m) - p >= Due(m, p, Len(m) - 1)
  PROVE  /\ StuckVerdict(m, f) # NoVerdict
         /\ StuckVerdict(m, f).key = <<"repeat", {m[Len(m)].batch}>>
<1> DEFINE t == ToolCycles(m, f)
           q == Len(m)
           s == Scanned(q - p)
           ran == {k \in 1..(s - 1) : Back(t, k).obs # <<>>}
           failed == ran # {} /\ \A k \in ran : AllFailed(Back(t, k).obs)
           needed == IF failed THEN FailAt ELSE StreakThreshold
<1>1. q \in Nat /\ p \in Nat /\ p <= q - 1
  BY LenProperties DEF Insisted
<1>2. /\ ScanDepth \in Nat /\ s \in Nat /\ s >= 1 /\ s <= q - p /\ s <= ScanDepth
      /\ s = q - p \/ s = ScanDepth
  BY <1>1, Depths DEF Scanned
<1>3. /\ s \in 1..Len(t) /\ SameBatchRun(t) = s
      /\ \A k \in 0..(s - 1) : Back(t, k) = m[q - k]
  BY InsistedIsScanned
<1> HIDE DEF t, q, s
<1>4. \A k \in 1..(s - 1) : Back(t, k) = m[q - k] /\ q - k \in (p + 1)..(q - 1)
  BY <1>1, <1>2, <1>3
<1>5. ~AnswersDiffer(t, s)
  <2> SUFFICES ASSUME NEW j \in 1..(s - 1), NEW k \in 1..(s - 1),
                      Back(t, j).obs # <<>>, Back(t, k).obs # <<>>
               PROVE  Back(t, j).obs = Back(t, k).obs
    BY DEF AnswersDiffer
  <2>1. /\ Back(t, j) = m[q - j] /\ q - j \in (p + 1)..(q - 1)
        /\ Back(t, k) = m[q - k] /\ q - k \in (p + 1)..(q - 1)
    BY <1>4
  <2> QED BY <2>1 DEF Agreed, q
<1>6. RepeatSpan(t) = s
  <2> DEFINE S == {u \in 1..s : ~AnswersDiffer(t, u)}
  <2>1. s \in S /\ S \subseteq Int /\ \A u \in S : u <= s
    BY <1>2, <1>5
  <2> HIDE DEF S
  <2>2. Max(S) = s
    BY <2>1, MaxIs
  <2> QED BY <1>3, <2>2 DEF RepeatSpan, S
<1>7. s >= needed
  <2>1. /\ StreakThreshold \in Nat /\ FailAt \in Nat /\ StreakThreshold <= ScanDepth
        /\ FailAt <= ScanDepth /\ Due(m, p, q - 1) \in Nat /\ Due(m, p, q - 1) >= 2
        /\ q - p >= Due(m, p, q - 1)
    BY DueIs DEF Reachable, q
  <2>2. CASE failed
    <3>1. PICK k \in 1..(s - 1) : AllFailed(Back(t, k).obs)
      BY <2>2
    <3>2. \E j \in (p + 1)..(q - 1) : AllFailed(m[j].obs)
      BY <1>4, <3>1
    <3>3. Due(m, p, q - 1) >= FailAt
      BY <3>2, DueIs
    <3> QED BY <1>1, <1>2, <2>1, <2>2, <3>3
  <2>3. CASE ~failed /\ ~(Due(m, p, q - 1) >= StreakThreshold)
    <3>1. m[p + 1].obs # <<>> /\ \E j \in (p + 1)..(q - 1) : AllFailed(m[j].obs)
      BY <2>3, DueIs
    <3>2. PICK j \in (p + 1)..(q - 1) : AllFailed(m[j].obs)
      BY <3>1
    <3>3. \A k \in ran : AllFailed(Back(t, k).obs)
      <4> SUFFICES ASSUME NEW k \in ran PROVE AllFailed(Back(t, k).obs)
        OBVIOUS
      <4>1. k \in 1..(s - 1) /\ Back(t, k).obs # <<>>
        OBVIOUS
      <4>2. Back(t, k) = m[q - k] /\ q - k \in (p + 1)..(q - 1)
        BY <1>4, <4>1
      <4>3. m[j].obs # <<>>
        BY <3>2 DEF AllFailed
      <4>4. m[q - k].obs = m[j].obs
        BY <4>1, <4>2, <4>3 DEF Agreed, q
      <4> QED BY <3>2, <4>2, <4>4
    <3>4. ran = {}
      BY <2>3, <3>3
    <3>5. q - p - 1 \notin 1..(s - 1)
      <4> SUFFICES ASSUME q - p - 1 \in 1..(s - 1) PROVE FALSE
        OBVIOUS
      <4>1. q - (q - p - 1) = p + 1
        BY <1>1
      <4>2. Back(t, q - p - 1) = m[p + 1]
        BY <1>4, <4>1
      <4> QED BY <3>1, <3>4, <4>2
    <3>6. s = ScanDepth
      BY <1>1, <1>2, <2>1, <3>5
    <3> QED BY <1>2, <2>1, <2>3, <3>6
  <2>4. CASE ~failed /\ Due(m, p, q - 1) >= StreakThreshold
    <3>1. needed = StreakThreshold
      BY <2>4
    <3> HIDE DEF failed, needed
    <3> QED BY <1>1, <1>2, <2>1, <2>4, <3>1
  <2> QED BY <2>2, <2>3, <2>4
<1>8. RepeatVerdict(t) = [kind |-> "repeat", span |-> s,
                          key |-> <<"repeat", {Back(t, 0).batch}>>, failed |-> failed]
  <2>1. s >= ScanAt
    <3>1. needed \in Int /\ needed >= ScanAt
      <4> HIDE DEF failed
      <4> QED BY DueIs, Depths
    <3> HIDE DEF needed
    <3> QED BY <1>2, <1>7, <3>1, Depths
  <2> QED BY <1>3, <1>6, <2>1 DEF RepeatVerdict
<1>9. Back(t, 0) = m[q]
  BY <1>1, <1>2, <1>3
<1>10. t # <<>> /\ ~(StreakThreshold < 2)
  BY <1>2, <1>3, Depths, EmptySeq DEF Reachable
<1>11. StuckVerdict(m, f) = RepeatVerdict(t) /\ RepeatVerdict(t) # NoVerdict
  <2>1. RepeatVerdict(t).kind # NoVerdict.kind /\ RepeatVerdict(t).span = s
        /\ RepeatVerdict(t).failed = failed
    BY <1>8 DEF NoVerdict
  <2>2. RepeatVerdict(t) # NoVerdict
    BY <2>1
  <2>3. ~(RepeatVerdict(t).span < IF RepeatVerdict(t).failed THEN FailAt ELSE StreakThreshold)
    <3>1. needed \in Int /\ needed = IF failed THEN FailAt ELSE StreakThreshold
      <4> HIDE DEF failed
      <4> QED BY DueIs
    <3> HIDE DEF failed, needed
    <3>2. ~(s < needed)
      BY <1>2, <1>7, <3>1
    <3> QED BY <2>1, <3>1, <3>2
  <2> HIDE DEF failed
  <2> QED BY <1>10, <2>2, <2>3 DEF StuckVerdict, t
<1> QED BY <1>8, <1>9, <1>11 DEF q

\* What comes back for the last of some proposals that agree keeps the patience with
\* them ahead of their number.
LEMMA DueGrows ==
  ASSUME NEW m, NEW p \in Nat, NEW q \in Nat, p < q, Reachable, Agreed(m, p, q)
  PROVE  /\ m[q].obs = <<>> => Due(m, p, q) = Due(m, p, q - 1)
         /\ m[q].obs # <<>> /\ q - p < Due(m, p, q - 1) => Due(m, p, q) >= q + 1 - p
<1> DEFINE D == Due(m, p, q - 1)
           D2 == Due(m, p, q)
<1>1. /\ q \in (p + 1)..q /\ p + 1 \in (p + 1)..q
      /\ \A k \in (p + 1)..q : k \in (p + 1)..(q - 1) \/ k = q
      /\ \A k \in (p + 1)..(q - 1) : k \in (p + 1)..q
  OBVIOUS
<1>2. D \in Nat /\ D2 \in Nat /\ D2 >= 2
  BY DueIs
<1>3. ASSUME m[q].obs = <<>> PROVE D2 = D
  <2>1. ~AllFailed(m[q].obs)
    BY <1>3 DEF AllFailed
  <2>2. (\A k \in (p + 1)..q : ~AllFailed(m[k].obs))
        <=> (\A k \in (p + 1)..(q - 1) : ~AllFailed(m[k].obs))
    BY <1>1, <2>1
  <2> QED BY <2>2 DEF Due
<1>4. ASSUME m[q].obs # <<>>, q - p < D PROVE D2 >= q + 1 - p
  <2>1. CASE \E k \in (p + 1)..(q - 1) : m[k].obs # <<>>
    <3>1. PICK k \in (p + 1)..(q - 1) : m[k].obs # <<>>
      BY <2>1
    <3>2. m[q].obs = m[k].obs
      BY <1>1, <1>4, <3>1 DEF Agreed
    <3>3. (\A j \in (p + 1)..q : ~AllFailed(m[j].obs))
          <=> (\A j \in (p + 1)..(q - 1) : ~AllFailed(m[j].obs))
      BY <1>1, <3>2
    <3>4. D2 = D
      BY <3>3 DEF Due
    <3> HIDE DEF D, D2
    <3> QED BY <1>2, <1>4, <3>4
  <2>2. CASE \A k \in (p + 1)..(q - 1) : m[k].obs = <<>>
    <3>1. D = StreakThreshold
      BY <2>2 DEF Due, AllFailed
    <3>2. CASE p + 1 = q
      <4> HIDE DEF D, D2
      <4> QED BY <1>2, <3>2
    <3>3. CASE p + 1 # q
      <4>1. p + 1 \in (p + 1)..(q - 1)
        BY <3>3
      <4>2. m[p + 1].obs = <<>>
        BY <2>2, <4>1
      <4>3. /\ StreakThreshold \in Nat /\ FailAt \in Nat
            /\ Max({StreakThreshold, FailAt}) >= StreakThreshold
        BY DueIs, OfTwo
      <4>4. D2 >= StreakThreshold
        BY <4>2, <4>3 DEF Due
      <4> HIDE DEF D, D2
      <4> QED BY <1>2, <1>4, <3>1, <4>3, <4>4
    <3> QED BY <3>2, <3>3
  <2> QED BY <2>1, <2>2
<1> QED BY <1>3, <1>4

\* How many proposals, the last one included, are past the patience with it.
Late(m, p) == Len(m) - p - Due(m, p, Len(m) - 1) + 1

\* How often the turn was told of the batch last proposed.
Told(n, m) ==
  LET key == <<"repeat", {m[Len(m)].batch}>> IN IF key \in DOMAIN n THEN n[key] ELSE 0

\* What runs is not late, and what is late was told of each time but for the grace s
\* given where the turn is stopped; the user's word, t cycles into the run, clears all.
Within(m, f, n, t, s, p) ==
  Insisted(m, f, p) /\ Agreed(m, p, Len(m) - 1) =>
    /\ ~m[Len(m)].skipped /\ (s = 0 \/ m[Len(m)].obs # <<>>) => Late(m, p) <= 0
    /\ Late(m, p) <= Told(n, m) + s \/ Len(m) - t <= Told(n, m) + s

\* Recording what came back for the last batch makes nothing late.
LEMMA WithinStays ==
  ASSUME NEW m \in Seq(Cycle), NEW m2 \in Seq(Cycle), NEW f \in Nat, NEW p \in Nat, NEW n,
         NEW t, NEW s \in {0, 1}, NEW s2 \in {0, 1},
         Len(m2) = Len(m), s = 1 => s2 = 1,
         \A k \in 1..Len(m) : m2[k].batch = m[k].batch /\ m2[k].skipped = m[k].skipped,
         \A k \in 1..(Len(m) - 1) : m2[k].obs = m[k].obs,
         s = 1 => m2[Len(m)].obs = m[Len(m)].obs,
         Told(n, m) \in Nat, t \in Nat, Reachable,
         Within(m, f, n, t, s, p)
  PROVE  Within(m2, f, n, t, s2, p)
<1> SUFFICES ASSUME Insisted(m2, f, p), Agreed(m2, p, Len(m2) - 1)
             PROVE  /\ ~m2[Len(m2)].skipped /\ (s2 = 0 \/ m2[Len(m2)].obs # <<>>) => Late(m2, p) <= 0
                    /\ Late(m2, p) <= Told(n, m2) + s2 \/ Len(m2) - t <= Told(n, m2) + s2
  BY DEF Within
<1> DEFINE q == Len(m)
<1>1. q \in Nat /\ Len(m2) = q /\ p <= q - 1 /\ p >= f
  BY LenProperties DEF Insisted
<1>2. /\ \A k \in (p + 1)..q : m2[k].batch = m[k].batch
      /\ p > f => m2[p].batch = m[p].batch
      /\ m2[q].batch = m[q].batch /\ m2[q].skipped = m[q].skipped
      /\ \A k \in (p + 1)..(q - 1) : m2[k].obs = m[k].obs
      /\ s = 1 => m2[q].obs = m[q].obs
  BY <1>1
<1> HIDE DEF q
<1>3. Insisted(m, f, p)
  BY <1>1, <1>2 DEF Insisted, q
<1>4. Agreed(m, p, q - 1)
  BY <1>1, <1>2 DEF Agreed
<1>5. Due(m2, p, q - 1) = Due(m, p, q - 1)
  <2>1. (\A k \in (p + 1)..(q - 1) : ~AllFailed(m2[k].obs))
        <=> (\A k \in (p + 1)..(q - 1) : ~AllFailed(m[k].obs))
    BY <1>2
  <2>2. CASE p + 1 \in (p + 1)..(q - 1)
    BY <1>2, <2>1, <2>2 DEF Due
  <2>3. CASE p + 1 \notin (p + 1)..(q - 1)
    <3>1. (p + 1)..(q - 1) = {}
      BY <1>1, <2>3
    <3> QED BY <3>1 DEF Due
  <2> QED BY <2>2, <2>3
<1>6. Late(m2, p) = Late(m, p) /\ Told(n, m2) = Told(n, m)
  BY <1>1, <1>2, <1>5 DEF Late, Told, q
<1>7. Late(m, p) \in Int
  <2>1. Due(m, p, q - 1) \in Nat
    BY DueIs
  <2> QED BY <1>1, <2>1 DEF Late, q
<1>8. /\ ~m[q].skipped /\ (s = 0 \/ m[q].obs # <<>>) => Late(m, p) <= 0
      /\ Late(m, p) <= Told(n, m) + s \/ q - t <= Told(n, m) + s
  BY <1>3, <1>4 DEF Within, q
<1>9. Told(n, m) \in Nat /\ t \in Nat /\ s \in {0, 1} /\ s2 \in {0, 1} /\ (s = 1 => s2 = 1)
  OBVIOUS
<1>10. Late(m2, p) <= Told(n, m2) + s2 \/ q - t <= Told(n, m2) + s2
  BY <1>1, <1>6, <1>7, <1>8, <1>9
<1>11. ~m2[q].skipped /\ (s2 = 0 \/ m2[q].obs # <<>>) => Late(m2, p) <= 0
  BY <1>2, <1>6, <1>8, <1>9
<1> QED BY <1>1, <1>10, <1>11

\* Another proposal of the batch is one more that is late, unless it is the first.
LEMMA LateGrows ==
  ASSUME NEW m \in Seq(Cycle), NEW c \in Cycle, NEW f \in Nat, NEW p \in Nat, NEW n, NEW t,
         Reachable, p < Len(m),
         Insisted(Append(m, c), f, p), Agreed(Append(m, c), p, Len(m)),
         m[Len(m)].skipped => m[Len(m)].obs = <<>>,
         Within(m, f, n, t, 0, p)
  PROVE  /\ Insisted(m, f, p) /\ Agreed(m, p, Len(m) - 1) /\ m[Len(m)].batch = c.batch
         /\ Late(m, p) \in Int /\ Late(Append(m, c), p) \in Int
         /\ Late(Append(m, c), p) <= 1 \/ Late(Append(m, c), p) = Late(m, p) + 1
<1> DEFINE m2 == Append(m, c)
           q == Len(m)
           D == Due(m, p, q - 1)
           D2 == Due(m2, p, q)
<1>1. /\ q \in Nat /\ m2 \in Seq(Cycle) /\ Len(m2) = q + 1 /\ m2[q + 1] = c
      /\ \A k \in 1..q : m2[k] = m[k]
  BY LenProperties, AppendProperties
<1>2. p \in Nat /\ p <= q - 1 /\ p >= f /\ q \in 1..q /\ p + 1 \in 1..q
  BY <1>1 DEF Insisted
<1>3. \A k \in (p + 1)..q : m2[k] = m[k] /\ m2[k].batch = c.batch
  BY <1>1, <1>2 DEF Insisted
<1> HIDE DEF m2, q
<1>4. c.batch # <<>> /\ (p > f => p \in 1..q /\ m2[p].batch \notin {<<>>, c.batch})
  BY <1>1, <1>2 DEF Insisted, m2
<1>5. Insisted(m, f, p) /\ m[q].batch = c.batch
  BY <1>1, <1>2, <1>3, <1>4 DEF Insisted, q
<1>6. \A j, k \in (p + 1)..q : m[j].obs # <<>> /\ m[k].obs # <<>> => m[j].obs = m[k].obs
  BY <1>3 DEF Agreed, m2, q
<1>7. Agreed(m, p, q - 1)
  BY <1>1, <1>2, <1>6 DEF Agreed
<1>8. D \in Nat /\ D2 \in Nat
  BY DueIs
<1>9. Late(m, p) = q - p - D + 1 /\ Late(m2, p) = q + 1 - p - D2 + 1
  <2>1. Len(m2) = q + 1 /\ Len(m2) - 1 = q
    BY <1>1
  <2>2. Due(m2, p, Len(m2) - 1) = D2
    BY <2>1
  <2>3. Late(m, p) = q - p - D + 1
    BY DEF Late, q
  <2>4. Late(m2, p) = Len(m2) - p - Due(m2, p, Len(m2) - 1) + 1
    BY DEF Late
  <2> HIDE DEF D, D2
  <2> QED BY <1>1, <1>2, <1>8, <2>1, <2>2, <2>3, <2>4
<1>10. Agreed(m, p, q) /\ p < q
  BY <1>1, <1>2, <1>6 DEF Agreed
<1>11. D2 = Due(m, p, q)
  <2>1. m2[p + 1] = m[p + 1]
    BY <1>1, <1>2
  <2> QED BY <1>3, <2>1 DEF Due
<1>12. CASE m[q].obs = <<>>
  <2>1. D2 = D
    BY <1>1, <1>2, <1>10, <1>11, <1>12, DueGrows
  <2> HIDE DEF D, D2
  <2> QED BY <1>1, <1>2, <1>5, <1>7, <1>8, <1>9, <2>1 DEF q, m2
<1>13. CASE m[q].obs # <<>>
  <2>1. ~m[q].skipped
    BY <1>13 DEF q
  <2>2. Late(m, p) <= 0
    BY <1>5, <1>7, <2>1 DEF Within, q
  <2>3. q - p < D
    <3> HIDE DEF D, D2
    <3> QED BY <1>1, <1>2, <1>8, <1>9, <2>2
  <2>4. D2 >= q + 1 - p
    BY <1>1, <1>2, <1>10, <1>11, <1>13, <2>3, DueGrows
  <2>5. Late(m2, p) <= 1
    <3> HIDE DEF D, D2
    <3> QED BY <1>1, <1>2, <1>8, <1>9, <2>4
  <2> HIDE DEF D, D2
  <2> QED BY <1>1, <1>2, <1>5, <1>7, <1>8, <1>9, <2>5 DEF q, m2
<1> QED BY <1>12, <1>13

\* What is read of the cycles are their batches and what came back.
LEMMA SameReading ==
  ASSUME NEW m, NEW m2, NEW f \in Nat, NEW p \in Nat, Len(m) \in Nat, Len(m2) = Len(m),
         \A k \in 1..Len(m) : m2[k].batch = m[k].batch /\ m2[k].obs = m[k].obs,
         Insisted(m, f, p)
  PROVE  /\ Insisted(m2, f, p)
         /\ Agreed(m, p, Len(m) - 1) => Agreed(m2, p, Len(m) - 1)
         /\ Late(m2, p) = Late(m, p)
<1> DEFINE q == Len(m)
<1>1. q \in Nat /\ p <= q - 1 /\ p >= f
  BY DEF Insisted
<1>2. /\ \A k \in (p + 1)..q : m2[k].batch = m[k].batch /\ m2[k].obs = m[k].obs
      /\ p > f => m2[p].batch = m[p].batch
      /\ m2[q].batch = m[q].batch
  BY <1>1
<1>3. \A k \in (p + 1)..(q - 1) : m2[k].obs = m[k].obs
  BY <1>1
<1>4. m2[p + 1].obs = m[p + 1].obs
  BY <1>1
<1> HIDE DEF q
<1>5. Insisted(m2, f, p)
  BY <1>1, <1>2 DEF Insisted, q
<1>6. Agreed(m, p, q - 1) => Agreed(m2, p, q - 1)
  BY <1>3 DEF Agreed
<1>7. Due(m2, p, q - 1) = Due(m, p, q - 1)
  BY <1>3, <1>4 DEF Due
<1> QED BY <1>5, <1>6, <1>7 DEF Late, q

\* Where a turn is stopped.
Stops == {"max_iterations"} \union Ended
Grace == IF node \in Stops THEN 1 ELSE 0

\* No batch is later than the turn was told it is, by one where the turn is stopped.
CutInv ==
  Reachable =>
    /\ \A key \in DOMAIN nudged : nudged[key] <= 2
    /\ \A p \in Nat : Within(cycles, fence, nudged, h.talkedAt, Grace, p)

\* What a well-typed run was told is a number.
LEMMA ToldIs ==
  ASSUME TypeOK
  PROVE  /\ \A m : Told(nudged, m) \in Nat
         /\ h.talkedAt \in Nat /\ fence \in Nat /\ cycles \in Seq(Cycle) /\ Len(cycles) \in Nat
<1>1. \A m : Told(nudged, m) \in Nat
  BY DEF TypeOK, ScratchpadOK, Told
<1> QED BY <1>1, ExecutedFacts DEF TypeOK, History

\* The batch just proposed is not late unless it is found to be repeated, and then it is
\* late by at most one more than the turn was told.
LEMMA ProposalIsJudged ==
  ASSUME TypeOK, RecordInv, CutInv, Reachable, node = "parse",
         NEW m2 \in {Proposed, Refused}, NEW p \in Nat,
         Insisted(m2, fence, p), Agreed(m2, p, Len(m2) - 1)
  PROVE  /\ Len(m2) = Len(cycles) + 1 /\ m2[Len(m2)].batch = reply.batch /\ Late(m2, p) \in Int
         /\ m2[Len(m2)].obs = <<>> /\ (m2 = Refused => m2[Len(m2)].skipped)
         /\ \/ Late(m2, p) <= 0
            \/ Verdict # NoVerdict /\ Verdict.key = <<"repeat", {reply.batch}>>
         /\ \/ Late(m2, p) <= Told(nudged, m2) + 1
            \/ Len(m2) - h.talkedAt <= Told(nudged, m2) + 1
<1> DEFINE q == Len(cycles)
           c == m2[q + 1]
<1>1. /\ NewCycle \in Cycle /\ [NewCycle EXCEPT !.skipped = TRUE] \in Cycle
      /\ NewCycle.batch = reply.batch /\ NewCycle.obs = <<>>
      /\ [NewCycle EXCEPT !.skipped = TRUE].batch = reply.batch
      /\ [NewCycle EXCEPT !.skipped = TRUE].obs = <<>>
      /\ [NewCycle EXCEPT !.skipped = TRUE].skipped
  <2>1. NewCycle \in Cycle
    BY BatchTypes, EmptySeq, LoopAssumption DEF TypeOK, ScratchpadOK, NewCycle, Cycle
  <2> QED BY <2>1 DEF Cycle, NewCycle
<1>2. /\ q \in Nat /\ cycles \in Seq(Cycle) /\ fence \in Nat /\ h.talkedAt \in Nat
      /\ \A m : Told(nudged, m) \in Nat
  BY ToldIs
<1>3. /\ Len(m2) = q + 1 /\ c \in Cycle /\ c.batch = reply.batch /\ c.obs = <<>>
      /\ m2 = Append(cycles, c) /\ m2 \in Seq(Cycle)
      /\ m2 = Refused => c.skipped
  <2>1. PICK d \in {NewCycle, [NewCycle EXCEPT !.skipped = TRUE]} :
          /\ m2 = Append(cycles, d)
          /\ m2 = Refused => m2 = Append(cycles, [NewCycle EXCEPT !.skipped = TRUE])
    BY DEF Proposed, Refused
  <2>2. d \in Cycle /\ d.batch = reply.batch /\ d.obs = <<>>
    BY <1>1
  <2>3. Len(m2) = q + 1 /\ m2[q + 1] = d /\ m2 \in Seq(Cycle)
    BY <1>2, <2>1, <2>2, AppendProperties
  <2>4. m2 = Refused => d.skipped
    <3> SUFFICES ASSUME m2 = Refused PROVE m2[q + 1].skipped
      BY <2>3
    <3> DEFINE r == [NewCycle EXCEPT !.skipped = TRUE]
    <3>1. r \in Cycle /\ r.skipped
      BY <1>1
    <3> HIDE DEF r
    <3>2. m2 = Append(cycles, r)
      BY <2>1 DEF r
    <3>3. m2[q + 1] = r
      BY <1>2, <3>1, <3>2, AppendProperties
    <3> QED BY <3>1, <3>3
  <2> QED BY <2>1, <2>2, <2>3, <2>4
<1>4. /\ Proposed \in Seq(Cycle) /\ Len(Proposed) = q + 1
      /\ \A k \in 1..(q + 1) : Proposed[k].batch = m2[k].batch /\ Proposed[k].obs = m2[k].obs
  <2>1. Proposed \in Seq(Cycle) /\ Len(Proposed) = q + 1
    BY <1>1, <1>2, CycleTypes DEF Proposed
  <2>2. \A k \in 1..(q + 1) : k \in 1..q \/ k = q + 1
    BY <1>2
  <2>3. \A k \in 1..q : Proposed[k] = cycles[k] /\ m2[k] = cycles[k]
    BY <1>2, <1>3 DEF Proposed
  <2>4. Proposed[q + 1] = NewCycle
    BY <1>2 DEF Proposed
  <2> QED BY <1>1, <1>3, <2>1, <2>2, <2>3, <2>4
<1> HIDE DEF c, q
<1>5. p <= q /\ p >= fence
  BY <1>2, <1>3 DEF Insisted
<1>6. Late(m2, p) = q + 1 - p - Due(m2, p, q) + 1 /\ Due(m2, p, q) \in Nat
  <2>1. Len(m2) - 1 = q
    BY <1>2, <1>3
  <2>2. Due(m2, p, q) \in Nat
    BY DueIs
  <2>3. Late(m2, p) = Len(m2) - p - Due(m2, p, Len(m2) - 1) + 1
    BY DEF Late
  <2> QED BY <1>2, <1>3, <2>1, <2>2, <2>3
<1>7. Late(m2, p) \in Int
  BY <1>2, <1>6
<1>8. \/ Late(m2, p) <= 0
      \/ Verdict # NoVerdict /\ Verdict.key = <<"repeat", {reply.batch}>>
  <2>1. /\ Insisted(Proposed, fence, p) /\ Agreed(Proposed, p, q)
        /\ Late(Proposed, p) = Late(m2, p)
    <3>1. Len(m2) \in Nat /\ Len(Proposed) = Len(m2) /\ Len(m2) - 1 = q
      BY <1>2, <1>3, <1>4
    <3>2. \A k \in 1..Len(m2) : Proposed[k].batch = m2[k].batch /\ Proposed[k].obs = m2[k].obs
      BY <1>3, <1>4
    <3>3. /\ Insisted(Proposed, fence, p) /\ Late(Proposed, p) = Late(m2, p)
          /\ Agreed(m2, p, Len(m2) - 1) => Agreed(Proposed, p, Len(m2) - 1)
      BY <1>2, <3>1, <3>2, SameReading
    <3> QED BY <3>1, <3>3
  <2>2. Late(Proposed, p) = q + 1 - p - Due(Proposed, p, q) + 1 /\ Due(Proposed, p, q) \in Nat
    <3>1. Len(Proposed) - 1 = q
      BY <1>2, <1>4
    <3>2. Due(Proposed, p, q) \in Nat
      BY DueIs
    <3>3. Late(Proposed, p) = Len(Proposed) - p - Due(Proposed, p, Len(Proposed) - 1) + 1
      BY DEF Late
    <3> QED BY <1>2, <1>4, <3>1, <3>2, <3>3
  <2>3. SUFFICES ASSUME ~(Late(m2, p) <= 0)
                 PROVE  Verdict # NoVerdict /\ Verdict.key = <<"repeat", {reply.batch}>>
    OBVIOUS
  <2>4. Len(Proposed) - p >= Due(Proposed, p, Len(Proposed) - 1)
    <3>1. Len(Proposed) - 1 = q
      BY <1>2, <1>4
    <3>2. q + 1 - p >= Due(Proposed, p, q)
      BY <1>2, <2>1, <2>2, <2>3
    <3> QED BY <1>4, <3>1, <3>2
  <2>5. Agreed(Proposed, p, Len(Proposed) - 1)
    <3>1. Len(Proposed) - 1 = q
      BY <1>2, <1>4
    <3> QED BY <2>1, <3>1
  <2>6. Proposed[Len(Proposed)].batch = reply.batch
    BY <1>1, <1>2 DEF Proposed, q
  <2>7. /\ StuckVerdict(Proposed, fence) # NoVerdict
        /\ StuckVerdict(Proposed, fence).key = <<"repeat", {Proposed[Len(Proposed)].batch}>>
    BY <1>2, <1>4, <2>1, <2>4, <2>5, InsistedIsDetected
  <2> QED BY <2>6, <2>7 DEF Verdict
<1>9. \/ Late(m2, p) <= Told(nudged, m2) + 1
      \/ Len(m2) - h.talkedAt <= Told(nudged, m2) + 1
  <2>1. CASE p = q
    <3>1. Due(m2, p, q) >= 2
      BY DueIs
    <3> QED BY <1>2, <1>6, <2>1, <3>1
  <2>2. CASE p < q
    <3>1. Within(cycles, fence, nudged, h.talkedAt, 0, p)
      <4>1. Grace = 0
        BY DEF Grace, Stops, Ended
      <4> QED BY <4>1 DEF CutInv
    <3>2. cycles[q].skipped => cycles[q].obs = <<>>
      <4>1. q \in 1..q
        BY <1>2, <2>2
      <4> QED BY <4>1 DEF RecordInv, q
    <3>3. Agreed(m2, p, q)
      <4>1. Len(m2) - 1 = q
        BY <1>2, <1>3
      <4> QED BY <4>1
    <3>4. /\ Insisted(cycles, fence, p) /\ Agreed(cycles, p, q - 1) /\ cycles[q].batch = c.batch
          /\ Late(cycles, p) \in Int
          /\ Late(m2, p) <= 1 \/ Late(m2, p) = Late(cycles, p) + 1
      BY <1>2, <1>3, <2>2, <3>1, <3>2, <3>3, LateGrows DEF q
    <3>5. Late(cycles, p) <= Told(nudged, cycles) + 0 \/ q - h.talkedAt <= Told(nudged, cycles) + 0
      BY <3>1, <3>4 DEF Within, q
    <3>6. Told(nudged, m2) = Told(nudged, cycles)
      <4>1. m2[Len(m2)].batch = cycles[Len(cycles)].batch
        BY <1>3, <3>4 DEF c, q
      <4> QED BY <4>1 DEF Told
    <3> QED BY <1>2, <1>3, <1>7, <3>4, <3>5, <3>6
  <2> QED BY <1>2, <1>5, <2>1, <2>2
<1>10. m2[Len(m2)] = c
  BY <1>3 DEF c
<1> QED BY <1>3, <1>7, <1>8, <1>9, <1>10 DEF q

\* Every step keeps what is late told of.
LEMMA CutStep ==
  ASSUME TypeOK, RanInv, RecordInv, CutInv, [VisitNext]_vars
  PROVE  CutInv'
<1> SUFFICES ASSUME Reachable PROVE CutInv'
  BY DEF CutInv
<1> USE DEF scratchpad, temp
<1>i. ASSUME \A key \in DOMAIN nudged' : nudged'[key] <= 2,
             \A p \in Nat : Within(cycles', fence', nudged', h'.talkedAt, Grace', p)
      PROVE  CutInv'
  BY <1>i DEF CutInv
<1>j. /\ \A key \in DOMAIN nudged : nudged[key] <= 2
      /\ \A p \in Nat : Within(cycles, fence, nudged, h.talkedAt, Grace, p)
  BY DEF CutInv
<1>k. /\ fence \in Nat /\ Len(cycles) \in Nat /\ h.talkedAt \in Nat /\ cycles \in Seq(Cycle)
      /\ Grace \in {0, 1} /\ Grace' \in {0, 1}
      /\ \A m : Told(nudged, m) \in Nat
  BY ToldIs DEF Grace
<1>h. h \in History
  BY DEF TypeOK
\* Steps that leave the cycles, and what was told, as they are.
<1>s. ASSUME cycles' = cycles, fence' = fence, nudged' = nudged, h'.talkedAt = h.talkedAt,
             node \in Stops => node' \in Stops
      PROVE  CutInv'
  <2>1. Grace = 1 => Grace' = 1
    BY <1>s DEF Grace
  <2>2. ASSUME NEW p \in Nat PROVE Within(cycles, fence, nudged, h.talkedAt, Grace', p)
    <3>1. Within(cycles, fence, nudged, h.talkedAt, Grace, p)
      BY <1>j
    <3> HIDE DEF Grace
    <3> QED BY <1>k, <2>1, <3>1, WithinStays
  <2> QED BY <1>i, <1>j, <1>s, <2>2
\* Steps of parse that propose nothing.
<1>t. ASSUME cycles' = Proposed, fence' = fence, nudged' = nudged, reply.batch = <<>>
      PROVE  CutInv'
  <2>1. cycles'[Len(cycles')].batch = <<>>
    BY <1>k, <1>t DEF Proposed, NewCycle
  <2>2. \A p \in Nat : Within(cycles', fence', nudged', h'.talkedAt, Grace', p)
    BY <2>1 DEF Within, Insisted
  <2> QED BY <1>i, <1>j, <1>t, <2>2
\* Steps of parse that take a proposal.
<1>u. ASSUME node = "parse", cycles' \in {Proposed, Refused}, fence' = fence,
             h'.talkedAt = h.talkedAt,
             \A key \in DOMAIN nudged' : nudged'[key] <= 2,
             ASSUME NEW p \in Nat,
                    Len(cycles') = Len(cycles) + 1, cycles'[Len(cycles')].batch = reply.batch,
                    Late(cycles', p) \in Int, cycles'[Len(cycles')].obs = <<>>,
                    cycles' = Refused => cycles'[Len(cycles')].skipped,
                    \/ Late(cycles', p) <= 0
                    \/ Verdict # NoVerdict /\ Verdict.key = <<"repeat", {reply.batch}>>,
                    \/ Late(cycles', p) <= Told(nudged, cycles') + 1
                    \/ Len(cycles') - h.talkedAt <= Told(nudged, cycles') + 1
             PROVE  /\ ~cycles'[Len(cycles')].skipped /\ Grace' = 0 => Late(cycles', p) <= 0
                    /\ \/ Late(cycles', p) <= Told(nudged', cycles') + Grace'
                       \/ Len(cycles') - h.talkedAt <= Told(nudged', cycles') + Grace'
      PROVE  CutInv'
  <2>1. ASSUME NEW p \in Nat, Insisted(cycles', fence, p), Agreed(cycles', p, Len(cycles') - 1)
        PROVE  /\ ~cycles'[Len(cycles')].skipped /\ (Grace' = 0 \/ cycles'[Len(cycles')].obs # <<>>)
                  => Late(cycles', p) <= 0
               /\ \/ Late(cycles', p) <= Told(nudged', cycles') + Grace'
                  \/ Len(cycles') - h.talkedAt <= Told(nudged', cycles') + Grace'
    <3> DEFINE m2 == cycles'
    <3>1. m2 \in {Proposed, Refused}
      BY <1>u
    <3> HIDE DEF m2
    <3>2. Insisted(m2, fence, p) /\ Agreed(m2, p, Len(m2) - 1)
      BY <2>1 DEF m2
    <3>3. /\ Len(m2) = Len(cycles) + 1 /\ m2[Len(m2)].batch = reply.batch /\ Late(m2, p) \in Int
          /\ m2[Len(m2)].obs = <<>> /\ (m2 = Refused => m2[Len(m2)].skipped)
          /\ \/ Late(m2, p) <= 0
             \/ Verdict # NoVerdict /\ Verdict.key = <<"repeat", {reply.batch}>>
          /\ \/ Late(m2, p) <= Told(nudged, m2) + 1
             \/ Len(m2) - h.talkedAt <= Told(nudged, m2) + 1
      BY <1>u, <3>1, <3>2, ProposalIsJudged
    <3> QED BY <1>u, <3>3 DEF m2
  <2>2. \A p \in Nat : Within(cycles', fence', nudged', h'.talkedAt, Grace', p)
    BY <1>u, <2>1 DEF Within
  <2> QED BY <1>i, <1>u, <2>2
<1>d. reply.kind \notin {"tools", "calls"} => reply.batch = <<>>
  BY DEF TypeOK, TempOK, ModelReply, VerifierReply, ConclusionReply, NoReply, Talk
<1>1. CASE ReasonOutOfBudget
  BY <1>1, <1>s, <1>h DEF ReasonOutOfBudget, Stops, Ended, History
<1>2. CASE ReasonConclude
  BY <1>2, <1>s, <1>h DEF ReasonConclude, Stops, Ended, History
<1>3. CASE ReasonCall
  BY <1>3, <1>s, <1>h DEF ReasonCall, CallModel, Stops, Ended, History
<1>4. CASE ParseStuckStop
  <2>1. /\ node = "parse" /\ cycles' = Proposed /\ fence' = fence /\ nudged' = nudged
        /\ h'.talkedAt = h.talkedAt /\ node' = "max_iterations"
    BY <1>4, <1>h DEF ParseStuckStop, ParseProposal, History
  <2>2. Grace' = 1
    BY <2>1 DEF Grace, Stops
  <2>3. ASSUME NEW p \in Nat,
               \/ Late(cycles', p) <= Told(nudged, cycles') + 1
               \/ Len(cycles') - h.talkedAt <= Told(nudged, cycles') + 1
        PROVE  \/ Late(cycles', p) <= Told(nudged', cycles') + Grace'
               \/ Len(cycles') - h.talkedAt <= Told(nudged', cycles') + Grace'
    BY <2>1, <2>2, <2>3
  <2>4. Grace' # 0 /\ cycles' \in {Proposed, Refused}
    BY <2>1, <2>2
  <2> QED BY <1>u, <1>j, <2>1, <2>3, <2>4
<1>5. CASE ParseStuckRefuse
  <2>1. /\ node = "parse" /\ cycles' = Refused /\ fence' = fence /\ h' = h /\ node' = "reason"
        /\ Verdict # NoVerdict /\ ~MustStop(Verdict, nudged)
        /\ nudged' = [k \in DOMAIN nudged \union {Verdict.key} |->
                        IF k = Verdict.key THEN Hits(Verdict, nudged) ELSE nudged[k]]
    BY <1>5 DEF ParseStuckRefuse, ParseProposal
  <2>2. Grace' = 0
    BY <2>1 DEF Grace, Stops, Ended
  <2>3. Hits(Verdict, nudged) <= 2 /\ Hits(Verdict, nudged) \in Nat
    <3>1. ~(Hits(Verdict, nudged) >= 3)
      BY <2>1 DEF MustStop, NeverStops, HardHits, Reachable
    <3> QED BY <3>1, HitsType
  <2>4. \A key \in DOMAIN nudged' : nudged'[key] <= 2
    BY <1>j, <2>1, <2>3
  <2>5. \A m : Told(nudged', m) \in Nat /\ Told(nudged', m) >= Told(nudged, m)
    <3> SUFFICES ASSUME NEW m
                 PROVE  Told(nudged', m) \in Nat /\ Told(nudged', m) >= Told(nudged, m)
      OBVIOUS
    <3> DEFINE key == <<"repeat", {m[Len(m)].batch}>>
    <3>1. CASE key = Verdict.key
      <4>1. Told(nudged', m) = 1 + Told(nudged, m)
        BY <2>1, <3>1 DEF Told, Hits
      <4> QED BY <1>k, <4>1
    <3>2. CASE key # Verdict.key
      <4>1. Told(nudged', m) = Told(nudged, m)
        BY <2>1, <3>2 DEF Told
      <4> QED BY <1>k, <4>1
    <3> QED BY <3>1, <3>2
  <2>6. ASSUME Verdict.key = <<"repeat", {reply.batch}>>,
               cycles'[Len(cycles')].batch = reply.batch
        PROVE  Told(nudged', cycles') = Told(nudged, cycles') + 1
    <3>1. Told(nudged', cycles') = 1 + Told(nudged, cycles')
      BY <2>1, <2>6 DEF Told, Hits
    <3> QED BY <1>k, <3>1
  <2>7. ASSUME NEW p \in Nat,
               cycles'[Len(cycles')].batch = reply.batch, Len(cycles') = Len(cycles) + 1,
               Late(cycles', p) \in Int,
               cycles'[Len(cycles')].skipped,
               Late(cycles', p) <= 0 \/ Verdict.key = <<"repeat", {reply.batch}>>,
               \/ Late(cycles', p) <= Told(nudged, cycles') + 1
               \/ Len(cycles') - h.talkedAt <= Told(nudged, cycles') + 1
        PROVE  \/ Late(cycles', p) <= Told(nudged', cycles') + Grace'
               \/ Len(cycles') - h.talkedAt <= Told(nudged', cycles') + Grace'
    <3>1. Told(nudged', cycles') \in Nat /\ Told(nudged, cycles') \in Nat
      BY <1>k, <2>5
    <3>2. CASE Late(cycles', p) <= 0
      BY <2>2, <2>7, <3>1, <3>2
    <3>3. CASE Verdict.key = <<"repeat", {reply.batch}>>
      <4>1. Told(nudged', cycles') = Told(nudged, cycles') + 1
        BY <2>6, <2>7, <3>3
      <4> QED BY <1>k, <2>2, <2>7, <3>1, <4>1
    <3> QED BY <2>7, <3>2, <3>3
  <2> QED BY <1>u, <2>1, <2>4, <2>7
<1>6. CASE ParseRepeatGuard
  <2>1. /\ node = "parse" /\ cycles' = Refused /\ fence' = fence /\ h' = h /\ node' = "reason"
        /\ Verdict = NoVerdict /\ nudged' = nudged
    BY <1>6 DEF ParseRepeatGuard, ParseProposal
  <2>2. Grace' = 0
    BY <2>1 DEF Grace, Stops, Ended
  <2>3. ASSUME NEW p \in Nat, Late(cycles', p) \in Int, Late(cycles', p) <= 0
        PROVE  \/ Late(cycles', p) <= Told(nudged', cycles') + Grace'
               \/ Len(cycles') - h.talkedAt <= Told(nudged', cycles') + Grace'
    <3>1. Told(nudged', cycles') \in Nat
      BY <1>k, <2>1
    <3> QED BY <2>2, <2>3, <3>1
  <2>4. cycles' \in {Proposed, Refused}
    BY <2>1
  <2> QED BY <1>u, <1>j, <2>1, <2>3, <2>4
<1>7. CASE ParseCalls
  <2>1. /\ node = "parse" /\ cycles' = Proposed /\ fence' = fence /\ node' = "act"
        /\ h'.talkedAt = h.talkedAt /\ Verdict = NoVerdict /\ nudged' = nudged
    BY <1>7, <1>h DEF ParseCalls, ParseProposal, History
  <2>2. Grace' = 0
    BY <2>1 DEF Grace, Stops, Ended
  <2>3. ASSUME NEW p \in Nat, Late(cycles', p) \in Int, Late(cycles', p) <= 0
        PROVE  \/ Late(cycles', p) <= Told(nudged', cycles') + Grace'
               \/ Len(cycles') - h.talkedAt <= Told(nudged', cycles') + Grace'
    <3>1. Told(nudged', cycles') \in Nat
      BY <1>k, <2>1
    <3> QED BY <2>2, <2>3, <3>1
  <2>4. cycles' \in {Proposed, Refused}
    BY <2>1
  <2> QED BY <1>u, <1>j, <2>1, <2>3, <2>4
<1>8. CASE ParseBadCall
  BY <1>8, <1>t, <1>d DEF ParseBadCall, ParseSpeech
<1>9. CASE ParseBadCallFails
  BY <1>9, <1>t, <1>d DEF ParseBadCallFails, ParseSpeech
<1>10. CASE ParseRetry
  BY <1>10, <1>t, <1>d DEF ParseRetry, ParseSpeech, Followthrough
<1>11. CASE ParseAnswer
  BY <1>11, <1>t, <1>d DEF ParseAnswer, ParseSpeech
<1>12. CASE Act
  BY <1>12, <1>s DEF Act, ActBlocked, ActAskUser, ActBuiltin, ActBatch, ActStep, Stops, Ended
<1>16. CASE Observe
  <2> DEFINE last == Len(cycles)
             c == [cycles[last] EXCEPT !.obs = cycles[last].obs \o results]
             m2 == cycles'
  <2>1. /\ InTurn /\ node = "observe" /\ fence' = fence /\ nudged' = nudged
        /\ h'.talkedAt = h.talkedAt
    BY <1>16, <1>h DEF Observe, RanInv, History
  <2>2. cycles' = [cycles EXCEPT ![last] = c] /\ last \in DOMAIN cycles
    BY <1>16, <2>1, CurrentIsLast, ExecutedFacts, LenProperties DEF Observe, Observed
  <2>3. cycles[last] \in Cycle /\ c.batch = cycles[last].batch /\ c.skipped = cycles[last].skipped
    <3>1. cycles[last] \in Cycle
      BY <2>2, ExecutedFacts, LenProperties, ElementOfSeq
    <3> QED BY <3>1 DEF Cycle
  <2>4. m2 \in Seq(Cycle)
    BY <1>16, ObservedTypes
  <2> HIDE DEF c
  <2>5. /\ Len(m2) = last /\ m2[last] = c
        /\ \A k \in 1..last : k # last => m2[k] = cycles[k]
    BY <2>2, ExecutedFacts, LenProperties, ExceptSeq
  <2>6. /\ \A k \in 1..last : m2[k].batch = cycles[k].batch /\ m2[k].skipped = cycles[k].skipped
        /\ \A k \in 1..(last - 1) : m2[k].obs = cycles[k].obs
    BY <1>k, <2>3, <2>5
  <2>7. Grace = 0
    BY <2>1 DEF Grace, Stops, Ended
  <2> HIDE DEF m2, last
  <2>8. ASSUME NEW p \in Nat PROVE Within(m2, fence, nudged, h.talkedAt, Grace', p)
    <3>1. Within(cycles, fence, nudged, h.talkedAt, Grace, p)
      BY <1>j
    <3> DEFINE g == Grace
               g2 == Grace'
    <3>2. g \in {0, 1} /\ g2 \in {0, 1} /\ g = 0
      BY <1>k, <2>7
    <3> HIDE DEF g, g2
    <3>3. Within(cycles, fence, nudged, h.talkedAt, g, p)
      BY <3>1 DEF g
    <3>4. Within(m2, fence, nudged, h.talkedAt, g2, p)
      BY <1>k, <2>4, <2>5, <2>6, <3>2, <3>3, WithinStays DEF last
    <3> QED BY <3>4 DEF g2
  <2> QED BY <1>i, <1>j, <2>1, <2>8 DEF m2
<1>17. CASE UserReplies
  BY <1>17, <1>s DEF UserReplies, Stops, Ended
<1>18. CASE HandleUserResponse
  <2>1. /\ cycles' = cycles /\ fence' = fence /\ nudged' = NoNudges /\ h'.talkedAt = Len(cycles)
        /\ node = "handle_user_response" /\ node' \in {"act", "reason"}
    BY <1>18, <1>h DEF HandleUserResponse, History
  <2>2. Grace = 0 /\ Grace' = 0
    BY <2>1 DEF Grace, Stops, Ended
  <2>3. DOMAIN nudged' = {} /\ \A m : Told(nudged', m) = 0
    BY <2>1 DEF NoNudges, Told
  <2>4. ASSUME NEW p \in Nat PROVE Within(cycles, fence, nudged', Len(cycles), 0, p)
    <3>1. Within(cycles, fence, nudged, h.talkedAt, 0, p)
      BY <1>j, <2>2
    <3>2. Len(cycles) - Len(cycles) <= 0 + 0
      BY <1>k
    <3> QED BY <2>3, <3>1, <3>2 DEF Within
  <2> QED BY <1>i, <2>1, <2>2, <2>3, <2>4
<1>19. CASE MaybeReview
  BY <1>19, <1>s DEF MaybeReview, Stops, Ended
<1>20. CASE Review
  BY <1>20, <1>s, <1>h DEF Review, Stops, Ended, History
<1>21. CASE ReviewParse
  BY <1>21, <1>s, <1>h DEF ReviewParse, ReviewParseAbsorbed, ReviewParseAccept, ReviewParseCalls,
     ReviewParsePrompt, ReviewParseStep, Stops, Ended, History
<1>25. CASE Done
  BY <1>25, <1>s DEF Done, Stops, Ended
<1>26. CASE ConcludeCall
  BY <1>26, <1>s, <1>h DEF ConcludeCall, CallModel, Stops, Ended, History
<1>27. CASE ConcludeRetry
  BY <1>27, <1>s DEF ConcludeRetry, ConcludeStep
<1>28. CASE ConcludeFinish
  BY <1>28, <1>s DEF ConcludeFinish, ConcludeStep, EndNode, Stops, Ended
<1>29. CASE NextTurn
  <2>1. cycles' = cycles /\ fence' = Len(cycles) /\ nudged' = NoNudges
    BY <1>29 DEF NextTurn, FreshScratch
  <2>2. \A p \in Nat : ~Insisted(cycles', fence', p)
    BY <1>k, <2>1 DEF Insisted
  <2>3. DOMAIN nudged' = {}
    BY <2>1 DEF NoNudges
  <2> QED BY <1>i, <2>2, <2>3 DEF Within
<1>30. CASE \E kind \in {"guidance", "conclude"} : Send(kind)
  BY <1>30, <1>s DEF Send
<1>31. CASE UNCHANGED vars
  BY <1>31, <1>s DEF vars
<1> QED
  BY <1>1, <1>2, <1>3, <1>4, <1>5, <1>6, <1>7, <1>8, <1>9, <1>10, <1>11, <1>12, <1>16, <1>17, <1>18, <1>19, <1>20, <1>21, <1>25, <1>26, <1>27, <1>28, <1>29, <1>30, <1>31 DEF VisitNext, Next, Tick, Parse, Finished

\* An unanswered or unchanging batch is proposed at most twice past the patience with it,
\* whatever the thresholds, as long as the scan can reach them, and whatever else a turn
\* does before and after.
THEOREM LoopsAreCut == VisitSpec => []LoopIsCut
<1>1. Init => RanInv /\ RecordInv /\ CutInv
  <2> SUFFICES ASSUME Init PROVE RanInv /\ RecordInv /\ CutInv
    OBVIOUS
  <2>1. cycles = <<>> /\ Len(cycles) = 0 /\ 1..Len(cycles) = {} /\ fence = 0
    BY EmptySeq DEF Init
  <2>2. RanInv
    BY EmptySeq DEF Init, RanInv, NoHistory
  <2>3. node \notin Acting \union {"maybe_review", "review", "review_parse"} /\ results = <<>>
    BY DEF Init, Acting
  <2>4. RecordInv
    BY <2>1, <2>3 DEF RecordInv
  <2>5. DOMAIN nudged = {}
    BY DEF Init, NoNudges
  <2>6. \A p : ~Insisted(cycles, fence, p)
    BY <2>1 DEF Insisted
  <2> QED BY <2>2, <2>4, <2>5, <2>6 DEF CutInv, Within
<1>2. IInv /\ RanInv /\ RecordInv /\ CutInv /\ [VisitNext]_vars => RanInv' /\ RecordInv' /\ CutInv'
  BY RanStep, RecordStep, CutStep DEF IInv
<1>3. IInv /\ RecordInv /\ CutInv => LoopIsCut
  <2> DEFINE run(p) == {cycles[k] : k \in (p + 1)..Len(cycles)}
             answers(p) == {c.obs : c \in run(p)} \ {<<>>}
  <2> SUFFICES ASSUME IInv, RecordInv, CutInv, Reachable,
                      NEW p \in fence..(Len(cycles) - 1),
                      \A c \in run(p) : c.batch # <<>>,
                      \A c, d \in run(p) : c.batch = d.batch,
                      \A a, b \in answers(p) : a = b,
                      p > fence => cycles[p].batch \notin {<<>>, cycles[p + 1].batch}
               PROVE  Len(cycles) - Max({p, h.talkedAt}) <= Patience(p) + 2
    BY DEF LoopIsCut, Reachable
  <2> DEFINE q == Len(cycles)
             D == Due(cycles, p, q - 1)
             D2 == Due(cycles, p, q)
  <2>1. /\ q \in Nat /\ fence \in Nat /\ h.talkedAt \in Nat /\ cycles \in Seq(Cycle)
        /\ Told(nudged, cycles) \in Nat
    BY ToldIs DEF IInv
  <2>2. p \in Nat /\ p >= fence /\ p <= q - 1 /\ q \in (p + 1)..q /\ p + 1 \in (p + 1)..q
    BY <2>1
  <2>3. \A k \in (p + 1)..q : cycles[k] \in run(p)
    OBVIOUS
  <2>4. \A j, k \in (p + 1)..q : cycles[j].batch # <<>> /\ cycles[j].batch = cycles[k].batch
    <3> HIDE DEF run
    <3> QED BY <2>3
  <2>5. \A j, k \in (p + 1)..q :
          cycles[j].obs # <<>> /\ cycles[k].obs # <<>> => cycles[j].obs = cycles[k].obs
    <3>1. \A k \in (p + 1)..q : cycles[k].obs # <<>> => cycles[k].obs \in answers(p)
      <4> HIDE DEF run
      <4> QED BY <2>3
    <3> HIDE DEF answers
    <3> QED BY <3>1
  <2>6. Patience(p) = D2
    <3> DEFINE got == {cycles[k].obs : k \in (p + 1)..q} \ {<<>>}
    <3>1. (got = {} \/ \E a \in got : ~AllFailed(a))
          <=> (\A k \in (p + 1)..q : ~AllFailed(cycles[k].obs))
      <4>1. ASSUME got = {}, NEW k \in (p + 1)..q PROVE ~AllFailed(cycles[k].obs)
        <5>1. cycles[k].obs = <<>>
          BY <4>1
        <5> QED BY <5>1 DEF AllFailed
      <4>2. ASSUME NEW a \in got, ~AllFailed(a), NEW k \in (p + 1)..q
            PROVE  ~AllFailed(cycles[k].obs)
        <5>1. PICK j \in (p + 1)..q : a = cycles[j].obs /\ a # <<>>
          OBVIOUS
        <5>2. cycles[k].obs = <<>> \/ cycles[k].obs = a
          BY <2>5, <5>1
        <5> QED BY <4>2, <5>2 DEF AllFailed
      <4>3. ASSUME \A k \in (p + 1)..q : ~AllFailed(cycles[k].obs), got # {}
            PROVE  \E a \in got : ~AllFailed(a)
        BY <4>3
      <4> HIDE DEF got
      <4> QED BY <4>1, <4>2, <4>3
    <3> HIDE DEF got
    <3>2. Patience(p) = IF got = {} \/ \E a \in got : ~AllFailed(a) THEN StreakThreshold
                        ELSE IF cycles[p + 1].obs # <<>> THEN FailAt
                        ELSE Max({StreakThreshold, FailAt})
      BY DEF Patience, got
    <3> QED BY <3>1, <3>2 DEF Due
  <2> HIDE DEF run, answers, q, D, D2
  <2>7. Insisted(cycles, fence, p)
    BY <2>1, <2>2, <2>4 DEF Insisted, q
  <2>8. Agreed(cycles, p, q - 1) /\ Agreed(cycles, p, q)
    BY <2>1, <2>2, <2>5 DEF Agreed
  <2>9. /\ D \in Nat /\ D2 \in Nat /\ D2 >= 2
    BY DueIs DEF D, D2
  <2>10. Late(cycles, p) = q - p - D + 1
    BY DEF Late, q, D
  <2>11. Within(cycles, fence, nudged, h.talkedAt, Grace, p) /\ Grace \in {0, 1}
    BY <2>2 DEF CutInv, Grace
  <2>12. /\ ~cycles[q].skipped /\ cycles[q].obs # <<>> => Late(cycles, p) <= 0
         /\ Late(cycles, p) <= Told(nudged, cycles) + 1 \/ q - h.talkedAt <= Told(nudged, cycles) + 1
    <3> HIDE DEF Grace
    <3>1. /\ ~cycles[q].skipped /\ (Grace = 0 \/ cycles[q].obs # <<>>) => Late(cycles, p) <= 0
          /\ \/ Late(cycles, p) <= Told(nudged, cycles) + Grace
             \/ q - h.talkedAt <= Told(nudged, cycles) + Grace
      BY <2>7, <2>8, <2>11 DEF Within, q
    <3> QED BY <2>1, <2>2, <2>9, <2>10, <2>11, <3>1
  <2>13. Told(nudged, cycles) <= 2
    BY DEF CutInv, Told
  <2>14. q - p <= D2 + 2 \/ q - h.talkedAt <= D2 + 2
    <3>1. CASE cycles[q].obs = <<>>
      <4>1. D2 = D
        BY <2>1, <2>2, <2>8, <3>1, DueGrows DEF D, D2
      <4> QED BY <2>1, <2>2, <2>9, <2>10, <2>12, <2>13, <4>1
    <3>2. CASE cycles[q].obs # <<>>
      <4>1. ~cycles[q].skipped
        <5>1. q \in 1..q
          BY <2>1, <2>2
        <5> QED BY <3>2, <5>1 DEF RecordInv, q
      <4>2. q - p < D
        BY <2>1, <2>2, <2>9, <2>10, <2>12, <3>2, <4>1
      <4>3. D2 >= q + 1 - p
        BY <2>1, <2>2, <2>8, <3>2, <4>2, DueGrows DEF D, D2
      <4> QED BY <2>1, <2>2, <2>9, <4>3
    <3> QED BY <3>1, <3>2
  <2>15. Max({p, h.talkedAt}) \in Nat /\ Max({p, h.talkedAt}) >= p
         /\ Max({p, h.talkedAt}) >= h.talkedAt
    BY <2>1, <2>2, OfTwo
  <2> QED BY <2>1, <2>2, <2>6, <2>9, <2>14, <2>15 DEF q
<1> QED BY <1>1, <1>2, <1>3, Invariance, PTL DEF VisitSpec

-----------------------------------------------------------------------------
(* The verdict is what the code's loop computes *)

\* The first that holds for some number holds for a least one.
LEMMA LeastNumber ==
  ASSUME NEW S \in SUBSET Nat, S # {}
  PROVE  \E n \in S : \A k \in S : n <= k
<1> DEFINE Less == {p \in Nat \X Nat : p[1] < p[2]}
<1>1. IsWellFoundedOn(Less, Nat)
  BY NatLessThanWellFounded DEF OpToRel
<1> HIDE DEF Less
<1>2. PICK n \in S : \A k \in S : <<k, n>> \notin Less
  BY <1>1, WFMin
<1>3. ASSUME NEW k \in S PROVE n <= k
  <2>1. ~(k < n)
    BY <1>2 DEF Less
  <2> QED BY <2>1
<1> QED BY <1>3

\* Some numbers up to n have a largest among them, and it is their Max.
LEMMA MaxIn ==
  ASSUME NEW n \in Nat, NEW S \in SUBSET (1..n), S # {}
  PROVE  Max(S) \in S /\ \A k \in S : k <= Max(S)
<1> DEFINE U == {u \in Nat : \A k \in S : k <= u}
<1>1. n \in U /\ U \in SUBSET Nat
  OBVIOUS
<1> HIDE DEF U
<1>2. PICK u \in U : \A k \in U : u <= k
  BY <1>1, LeastNumber
<1>3. u \in Nat /\ \A k \in S : k <= u
  BY <1>2 DEF U
<1>4. u \in S
  <2> SUFFICES ASSUME u \notin S PROVE FALSE
    OBVIOUS
  <2>1. u >= 1
    <3>1. PICK k \in S : TRUE
      OBVIOUS
    <3>2. k \in Nat /\ k >= 1 /\ k <= u
      BY <1>3
    <3> QED BY <1>3, <3>2
  <2>2. u - 1 \in Nat /\ \A k \in S : k <= u - 1
    <3>1. ASSUME NEW k \in S PROVE k <= u - 1
      <4>1. k \in Int /\ k <= u /\ k # u
        BY <1>3
      <4> QED BY <1>3, <4>1
    <3> QED BY <1>3, <2>1, <3>1
  <2>3. u - 1 \in U
    BY <2>2 DEF U
  <2> QED BY <1>2, <1>3, <2>3
<1>5. Max(S) = u
  <2>1. S \subseteq Int
    OBVIOUS
  <2> QED BY <1>3, <1>4, <2>1, MaxIs
<1> QED BY <1>3, <1>4, <1>5

\* What holds for the first of some numbers, and from each for the next, holds for all.
LEMMA UpTo ==
  ASSUME NEW n \in Nat, NEW S, 0 \in S, \A k \in 0..n : k < n /\ k \in S => k + 1 \in S
  PROVE  \A k \in 0..n : k \in S
<1> SUFFICES ASSUME \E k \in 0..n : k \notin S PROVE FALSE
  OBVIOUS
<1> DEFINE T == {k \in 0..n : k \notin S}
<1>1. T \in SUBSET Nat /\ T # {}
  OBVIOUS
<1> HIDE DEF T
<1>2. PICK t \in T : \A k \in T : t <= k
  BY <1>1, LeastNumber
<1>3. t \in 1..n /\ t \notin S
  BY <1>2 DEF T
<1>4. t - 1 \in 0..n /\ t - 1 < n /\ t - 1 + 1 = t /\ ~(t <= t - 1)
  BY <1>3
<1>5. t - 1 \in S
  BY <1>2, <1>4 DEF T
<1> QED BY <1>3, <1>4, <1>5

\* The trailing proposals that are the same end with the first that is not.
LEMMA RunEnds ==
  ASSUME NEW t \in Seq(Cycle), NEW s \in 1..Len(t),
         \A k \in 1..(s - 1) : Back(t, k).batch = Back(t, 0).batch,
         s = Len(t) \/ Back(t, s).batch # Back(t, 0).batch
  PROVE  SameBatchRun(t) = s
<1> DEFINE S == {u \in 1..Len(t) : \A k \in 1..(u - 1) : Back(t, k).batch = Back(t, 0).batch}
<1>1. Len(t) \in Nat /\ s \in Nat
  BY LenProperties
<1>2. s \in S /\ S \subseteq Int
  BY <1>1
<1>3. \A u \in S : u <= s
  <2> SUFFICES ASSUME NEW u \in S, ~(u <= s) PROVE FALSE
    OBVIOUS
  <2>1. u \in 1..Len(t) /\ s \in 1..(u - 1) /\ s # Len(t)
    BY <1>1
  <2> QED BY <2>1
<1> HIDE DEF S
<1>4. Max(S) = s
  BY <1>2, <1>3, MaxIs
<1> QED BY <1>4 DEF SameBatchRun, S

\* And when their answers agree all of them are the repeat.
LEMMA SpanEnds ==
  ASSUME NEW t \in Seq(Cycle), NEW s \in Nat, SameBatchRun(t) = s, s >= 1, ~AnswersDiffer(t, s)
  PROVE  RepeatSpan(t) = s
<1> DEFINE S == {u \in 1..s : ~AnswersDiffer(t, u)}
<1>1. s \in S /\ S \subseteq Int /\ \A u \in S : u <= s
  OBVIOUS
<1> HIDE DEF S
<1>2. Max(S) = s
  BY <1>1, MaxIs
<1> QED BY <1>2 DEF RepeatSpan, S

\* The trailing proposals are some, and so is the repeat among them.
LEMMA SpanIn ==
  ASSUME NEW t \in Seq(Cycle), t # <<>>
  PROVE  /\ SameBatchRun(t) \in 1..Len(t)
         /\ \A k \in 1..(SameBatchRun(t) - 1) : Back(t, k).batch = Back(t, 0).batch
         /\ \A u \in 1..Len(t) :
              (\A k \in 1..(u - 1) : Back(t, k).batch = Back(t, 0).batch) => u <= SameBatchRun(t)
         /\ RepeatSpan(t) \in 1..SameBatchRun(t)
         /\ ~AnswersDiffer(t, RepeatSpan(t))
<1> DEFINE S == {u \in 1..Len(t) : \A k \in 1..(u - 1) : Back(t, k).batch = Back(t, 0).batch}
           n == SameBatchRun(t)
           A == {u \in 1..n : ~AnswersDiffer(t, u)}
<1>1. Len(t) \in Nat /\ Len(t) >= 1
  BY LenProperties, EmptySeq
<1>2. 1 \in S /\ S \in SUBSET (1..Len(t))
  BY <1>1
<1>3. n = Max(S)
  BY DEF SameBatchRun
<1>4. n \in S /\ \A u \in S : u <= n
  <2> HIDE DEF S, n
  <2> QED BY <1>1, <1>2, <1>3, MaxIn
<1>5. n \in Nat /\ n >= 1 /\ n \in 1..Len(t)
  BY <1>1, <1>4
<1> HIDE DEF n
<1>6. 1 \in A /\ A \in SUBSET (1..n)
  BY <1>5 DEF AnswersDiffer
<1>7. RepeatSpan(t) = Max(A)
  BY DEF RepeatSpan, n
<1>8. RepeatSpan(t) \in A
  <2> HIDE DEF A
  <2> QED BY <1>5, <1>6, <1>7, MaxIn
<1> QED BY <1>4, <1>5, <1>8 DEF n

\* What the loop holds.
LoopState ==
  [run : Nat, seen : Seq(Observation), all : SUBSET BOOLEAN, differ : BOOLEAN, over : BOOLEAN]

\* It went through the cycles before the i-th and found them all alike.
Alike(t, w, i) ==
  /\ w.run = i
  /\ \A j \in 1..(i - 1) : Back(t, j).batch = Back(t, 0).batch
  /\ ~AnswersDiffer(t, i)
  /\ \A b \in BOOLEAN :
       b \in w.all <=> \E j \in 1..(i - 1) : Back(t, j).obs # <<>> /\ b = AllFailed(Back(t, j).obs)

\* And it remembers the answer they have in common, or it stopped at the i-th.
LoopInv(t, w, k) ==
  IF ~w.over
  THEN /\ Alike(t, w, k + 1)
       /\ ~w.differ
       /\ \A j \in 1..k : Back(t, j).obs # <<>> => w.seen = Back(t, j).obs
       /\ w.seen # <<>> => \E j \in 1..k : w.seen = Back(t, j).obs
  ELSE \E i \in 1..k : /\ Alike(t, w, i)
                       /\ Back(t, i).batch = Back(t, 0).batch <=> w.differ
                       /\ w.differ => AnswersDiffer(t, i + 1)

\* What a scanned cycle holds.
LEMMA BackTypes ==
  ASSUME NEW t \in Seq(Cycle), NEW k \in 0..(Len(t) - 1)
  PROVE  /\ Back(t, k) \in Cycle /\ Back(t, k).obs \in Seq(Observation)
         /\ AllFailed(Back(t, k).obs) \in BOOLEAN
<1>1. Len(t) \in Nat /\ k + 1 \in 1..Len(t)
  BY LenProperties
<1>2. Back(t, k) \in Cycle
  BY <1>1, ElementOfSeq DEF Back
<1> QED BY <1>2 DEF Cycle, AllFailed

\* The loop takes one more cycle.
LEMMA LoopKeeps ==
  ASSUME NEW t \in Seq(Cycle), NEW k \in 1..(Len(t) - 1), NEW w \in LoopState, LoopInv(t, w, k - 1)
  PROVE  LET v == LoopStep(w, Back(t, k), Back(t, 0).batch)
         IN  v \in LoopState /\ LoopInv(t, v, k)
<1> DEFINE c == Back(t, k)
           batch == Back(t, 0).batch
           v == LoopStep(w, c, batch)
<1>1. k \in Nat /\ k >= 1 /\ Len(t) \in Nat /\ k - 1 + 1 = k /\ k + 1 - 1 = k
  BY LenProperties
<1>2. c \in Cycle /\ c.obs \in Seq(Observation) /\ AllFailed(c.obs) \in BOOLEAN
  BY <1>1, BackTypes
<1>w. /\ w.run \in Nat /\ w.seen \in Seq(Observation) /\ w.all \in SUBSET BOOLEAN
      /\ w.differ \in BOOLEAN /\ w.over \in BOOLEAN
  BY DEF LoopState
<1>3. CASE w.over
  <2>1. v = w
    BY <1>3 DEF LoopStep
  <2>2. \E i \in 1..(k - 1) : /\ Alike(t, w, i)
                              /\ Back(t, i).batch = Back(t, 0).batch <=> w.differ
                              /\ w.differ => AnswersDiffer(t, i + 1)
    BY <1>3 DEF LoopInv
  <2>3. 1..(k - 1) \subseteq 1..k
    BY <1>1
  <2>4. LoopInv(t, w, k)
    BY <1>3, <2>2, <2>3 DEF LoopInv
  <2> QED BY <2>1, <2>4
<1>4. CASE ~w.over
  <2>1. /\ Alike(t, w, k)
        /\ ~w.differ
        /\ \A j \in 1..(k - 1) : Back(t, j).obs # <<>> => w.seen = Back(t, j).obs
        /\ w.seen # <<>> => \E j \in 1..(k - 1) : w.seen = Back(t, j).obs
    BY <1>1, <1>4 DEF LoopInv
  <2>2. CASE c.batch # batch
    <3>1. v = [w EXCEPT !.over = TRUE]
      BY <1>4, <2>2 DEF LoopStep
    <3>2. v \in LoopState /\ v.run = w.run /\ v.all = w.all /\ v.differ = w.differ /\ v.over
      BY <3>1 DEF LoopState
    <3>3. Alike(t, v, k)
      BY <2>1, <3>2 DEF Alike
    <3> HIDE DEF v
    <3>4. k \in 1..k
      BY <1>1
    <3> QED BY <2>1, <2>2, <3>2, <3>3, <3>4 DEF LoopInv, v
  <2>3. CASE c.batch = batch /\ c.obs # <<>> /\ w.seen # <<>> /\ c.obs # w.seen
    <3>1. v = [w EXCEPT !.over = TRUE, !.differ = TRUE]
      BY <1>4, <2>3 DEF LoopStep
    <3>2. v \in LoopState /\ v.run = w.run /\ v.all = w.all /\ v.differ /\ v.over
      BY <3>1 DEF LoopState
    <3>3. Alike(t, v, k)
      BY <2>1, <3>2 DEF Alike
    <3>4. AnswersDiffer(t, k + 1)
      <4>1. PICK j \in 1..(k - 1) : w.seen = Back(t, j).obs
        BY <2>1, <2>3
      <4>2. j \in 1..(k + 1 - 1) /\ k \in 1..(k + 1 - 1)
        BY <1>1
      <4> QED BY <2>3, <4>1, <4>2 DEF AnswersDiffer
    <3> HIDE DEF v
    <3>5. k \in 1..k
      BY <1>1
    <3> QED BY <2>1, <2>3, <3>2, <3>3, <3>4, <3>5 DEF LoopInv, v
  <2>4. CASE c.batch = batch /\ (c.obs = <<>> \/ w.seen = <<>> \/ c.obs = w.seen)
    <3>1. v = [w EXCEPT !.run  = w.run + 1,
                        !.seen = IF w.seen = <<>> THEN c.obs ELSE w.seen,
                        !.all  = IF c.obs = <<>> THEN w.all ELSE w.all \union {AllFailed(c.obs)}]
      BY <1>4, <2>4 DEF LoopStep
    <3>2. /\ v \in LoopState /\ v.run = w.run + 1 /\ ~v.differ /\ ~v.over
          /\ v.seen = IF w.seen = <<>> THEN c.obs ELSE w.seen
          /\ v.all = IF c.obs = <<>> THEN w.all ELSE w.all \union {AllFailed(c.obs)}
      <4> DEFINE seen == IF w.seen = <<>> THEN c.obs ELSE w.seen
                 all == IF c.obs = <<>> THEN w.all ELSE w.all \union {AllFailed(c.obs)}
      <4>1. seen \in Seq(Observation)
        BY <1>2, <1>w
      <4>2. all \in SUBSET BOOLEAN
        BY <1>2, <1>w
      <4>3. w.run + 1 \in Nat
        BY <1>w
      <4>4. v = [w EXCEPT !.run = w.run + 1, !.seen = seen, !.all = all]
        BY <3>1
      <4>5. seen = IF w.seen = <<>> THEN c.obs ELSE w.seen
        OBVIOUS
      <4>6. all = IF c.obs = <<>> THEN w.all ELSE w.all \union {AllFailed(c.obs)}
        OBVIOUS
      <4> HIDE DEF seen, all, v
      <4>7. v = [run |-> w.run + 1, seen |-> seen, all |-> all, differ |-> w.differ, over |-> w.over]
        BY <4>4 DEF LoopState
      <4>8. v \in LoopState
        BY <1>w, <4>1, <4>2, <4>3, <4>7 DEF LoopState
      <4>9. v.run = w.run + 1 /\ ~v.differ /\ ~v.over /\ v.seen = seen /\ v.all = all
        BY <1>4, <2>1, <4>7
      <4> QED BY <4>5, <4>6, <4>8, <4>9
    <3> HIDE DEF v
    <3>3. \A j \in 1..k : j \in 1..(k - 1) \/ j = k
      BY <1>1
    <3>4. \A j \in 1..k : Back(t, j).obs # <<>> => v.seen = Back(t, j).obs
      BY <2>1, <2>4, <3>2, <3>3
    <3>5. v.seen # <<>> => \E j \in 1..k : v.seen = Back(t, j).obs
      <4>1. k \in 1..k /\ 1..(k - 1) \subseteq 1..k
        BY <1>1
      <4> QED BY <2>1, <3>2, <4>1
    <3>6. ~AnswersDiffer(t, k + 1)
      BY <1>1, <3>4 DEF AnswersDiffer
    <3>7. \A j \in 1..k : Back(t, j).batch = Back(t, 0).batch
      BY <2>1, <2>4, <3>3 DEF Alike
    <3>8. \A b \in BOOLEAN :
            b \in v.all <=> \E j \in 1..k : Back(t, j).obs # <<>> /\ b = AllFailed(Back(t, j).obs)
      <4> SUFFICES ASSUME NEW b \in BOOLEAN
                   PROVE  b \in v.all <=> \E j \in 1..k : Back(t, j).obs # <<>>
                                                          /\ b = AllFailed(Back(t, j).obs)
        OBVIOUS
      <4>1. b \in w.all <=> \E j \in 1..(k - 1) : Back(t, j).obs # <<>>
                                                  /\ b = AllFailed(Back(t, j).obs)
        BY <2>1 DEF Alike
      <4>2. k \in 1..k /\ 1..(k - 1) \subseteq 1..k
        BY <1>1
      <4>3. CASE c.obs = <<>>
        BY <3>2, <3>3, <4>1, <4>2, <4>3
      <4>4. CASE c.obs # <<>>
        BY <3>2, <3>3, <4>1, <4>2, <4>4
      <4> QED BY <4>3, <4>4
    <3>9. Alike(t, v, k + 1)
      BY <1>1, <2>1, <3>2, <3>6, <3>7, <3>8 DEF Alike
    <3> QED BY <1>1, <3>2, <3>4, <3>5, <3>9 DEF LoopInv, v
  <2> QED BY <2>2, <2>3, <2>4
<1> QED BY <1>3, <1>4

\* A loop over some cycles.
IsWalk(t, f, n) ==
  f = [k \in 0..n |-> IF k = 0 THEN LoopStart
                      ELSE LoopStep(f[k - 1], Back(t, k), Back(t, 0).batch)]

\* The loop is defined: it goes one cycle further each time.
LEMMA WalkExists ==
  ASSUME NEW t \in Seq(Cycle), NEW n \in Nat
  PROVE  \E f : IsWalk(t, f, n)
<1> DEFINE S == {m \in Nat : \E f : IsWalk(t, f, m)}
           batch == Back(t, 0).batch
<1>1. 0 \in S
  <2> DEFINE f == [k \in 0..0 |-> LoopStart]
  <2>1. f = [k \in 0..0 |-> IF k = 0 THEN LoopStart
                            ELSE LoopStep(f[k - 1], Back(t, k), Back(t, 0).batch)]
    OBVIOUS
  <2> HIDE DEF f
  <2>2. IsWalk(t, f, 0)
    BY <2>1 DEF IsWalk
  <2> QED BY <2>2
<1>2. ASSUME NEW m \in 0..n, m < n, m \in S PROVE m + 1 \in S
  <2>1. PICK f : IsWalk(t, f, m)
    BY <1>2
  <2> DEFINE next == LoopStep(f[m], Back(t, m + 1), batch)
             g == [k \in 0..(m + 1) |-> IF k = m + 1 THEN next ELSE f[k]]
  <2>2. \A k \in 0..m : k # m + 1 /\ k \in 0..(m + 1) /\ (k # 0 => k - 1 \in 0..m)
    OBVIOUS
  <2>3. \A k \in 0..m : f[k] = IF k = 0 THEN LoopStart ELSE LoopStep(f[k - 1], Back(t, k), batch)
    BY <2>1 DEF IsWalk
  <2>4. \A k \in 0..(m + 1) : k = m + 1 \/ k \in 0..m
    OBVIOUS
  <2>5. m \in 0..m /\ m + 1 \in 0..(m + 1) /\ m + 1 # 0 /\ m + 1 - 1 = m
    OBVIOUS
  <2> HIDE DEF next
  <2>6. g[m + 1] = next /\ \A k \in 0..m : g[k] = f[k]
    BY <2>2, <2>5
  <2>7. g = [k \in 0..(m + 1) |-> g[k]]
    OBVIOUS
  <2> HIDE DEF g
  <2>8. \A k \in 0..(m + 1) :
          g[k] = IF k = 0 THEN LoopStart ELSE LoopStep(g[k - 1], Back(t, k), batch)
    <3> SUFFICES ASSUME NEW k \in 0..(m + 1)
                 PROVE  g[k] = IF k = 0 THEN LoopStart ELSE LoopStep(g[k - 1], Back(t, k), batch)
      OBVIOUS
    <3>1. CASE k = m + 1
      <4>1. g[k] = next /\ g[k - 1] = f[m] /\ k # 0
        BY <2>5, <2>6, <3>1
      <4> QED BY <3>1, <4>1 DEF next
    <3>2. CASE k \in 0..m
      <4>1. g[k] = f[k]
        BY <2>6, <3>2
      <4>2. CASE k = 0
        BY <2>3, <3>2, <4>1, <4>2
      <4>3. CASE k # 0
        <5>1. k - 1 \in 0..m
          BY <2>2, <3>2, <4>3
        <5>2. g[k - 1] = f[k - 1]
          BY <2>6, <5>1
        <5> QED BY <2>3, <3>2, <4>1, <4>3, <5>2
      <4> QED BY <4>2, <4>3
    <3> QED BY <2>4, <3>1, <3>2
  <2>9. g = [k \in 0..(m + 1) |->
               IF k = 0 THEN LoopStart ELSE LoopStep(g[k - 1], Back(t, k), batch)]
    BY <2>7, <2>8
  <2>10. IsWalk(t, g, m + 1)
    BY <2>9 DEF IsWalk
  <2> QED BY <2>10
<1> HIDE DEF S
<1>3. \A k \in 0..n : k \in S
  BY <1>1, <1>2, UpTo
<1>4. n \in S
  BY <1>3
<1> QED BY <1>4 DEF S

\* And what it computes for the proposal is what it holds after the last.
LoopWalk(t) == CHOOSE f : IsWalk(t, f, Len(t) - 1)

\* The operator picks that very walk.
LEMMA LoopOverIs ==
  ASSUME NEW t
  PROVE  LoopOver(t) = LoopWalk(t)[Len(t) - 1]
BY DEF LoopOver, LoopWalk, IsWalk

\* It went through cycles all alike to the last, or stopped at one that is not.
LEMMA LoopEnds ==
  ASSUME NEW t \in Seq(Cycle), t # <<>>
  PROVE  LoopOver(t) \in LoopState /\ LoopInv(t, LoopOver(t), Len(t) - 1)
<1> DEFINE n == Len(t) - 1
           f == LoopWalk(t)
           S == {k \in 0..n : f[k] \in LoopState /\ LoopInv(t, f[k], k)}
<1>1. Len(t) \in Nat /\ Len(t) >= 1
  BY LenProperties, EmptySeq
<1>2. n \in Nat
  BY <1>1
<1>3. IsWalk(t, f, n)
  BY <1>2, WalkExists DEF LoopWalk
<1>4. \A k \in 0..n : f[k] = IF k = 0 THEN LoopStart
                             ELSE LoopStep(f[k - 1], Back(t, k), Back(t, 0).batch)
  <2> HIDE DEF f, n
  <2> QED BY <1>3 DEF IsWalk
<1> HIDE DEF f
<1>5. 0 \in S
  <2>1. 0 \in 0..n
    BY <1>2
  <2>2. f[0] = LoopStart
    BY <1>4, <2>1
  <2>3. <<>> \in Seq(Observation)
    OBVIOUS
  <2>4. LoopStart \in LoopState
    BY <2>3 DEF LoopStart, LoopState
  <2>5. Alike(t, LoopStart, 1)
    BY DEF Alike, LoopStart, AnswersDiffer
  <2>6. ~LoopStart.over /\ ~LoopStart.differ /\ LoopStart.seen = <<>>
    BY DEF LoopStart
  <2>7. LoopInv(t, LoopStart, 0)
    BY <2>5, <2>6 DEF LoopInv
  <2> QED BY <2>1, <2>2, <2>4, <2>7
<1>6. ASSUME NEW k \in 0..n, k < n, k \in S PROVE k + 1 \in S
  <2>1. k + 1 \in 0..n /\ k + 1 \in 1..(Len(t) - 1) /\ k + 1 # 0 /\ k + 1 - 1 = k
    BY <1>1, <1>6
  <2>2. f[k] \in LoopState /\ LoopInv(t, f[k], k)
    BY <1>6
  <2>3. f[k + 1] = LoopStep(f[k], Back(t, k + 1), Back(t, 0).batch)
    BY <1>4, <2>1
  <2>4. PICK i : i = k + 1
    OBVIOUS
  <2>5. i \in 1..(Len(t) - 1) /\ LoopInv(t, f[k], i - 1)
    BY <2>1, <2>2, <2>4
  <2>6. LET v == LoopStep(f[k], Back(t, i), Back(t, 0).batch)
        IN  v \in LoopState /\ LoopInv(t, v, i)
    BY <2>2, <2>5, LoopKeeps
  <2>7. f[k + 1] \in LoopState /\ LoopInv(t, f[k + 1], k + 1)
    BY <2>3, <2>4, <2>6
  <2> QED BY <2>1, <2>7
<1> HIDE DEF S
<1>7. \A k \in 0..n : k \in S
  <2> HIDE DEF n
  <2> QED BY <1>2, <1>5, <1>6, UpTo
<1>8. n \in S
  BY <1>2, <1>7
<1>9. f[n] \in LoopState /\ LoopInv(t, f[n], n)
  BY <1>8 DEF S
<1> QED BY <1>9, LoopOverIs DEF f

\* Answers that differ among some of the cycles differ among more of them.
LEMMA DifferGrows ==
  ASSUME NEW t, NEW i \in Nat, NEW s \in Nat, i <= s, AnswersDiffer(t, i)
  PROVE  AnswersDiffer(t, s)
<1>1. 1..(i - 1) \subseteq 1..(s - 1)
  OBVIOUS
<1> QED BY <1>1 DEF AnswersDiffer

\* Where the loop ended, the proposals that are the same end, and nothing differs among
\* them; or their answers differ.
LEMMA LoopFinds ==
  ASSUME NEW t \in Seq(Cycle), t # <<>>
  PROVE  LET w == LoopOver(t)
         IN  /\ w \in LoopState
             /\ ~w.differ => /\ SameBatchRun(t) = w.run /\ RepeatSpan(t) = w.run
                             /\ Alike(t, w, w.run)
             /\ w.differ => RepeatSpan(t) # SameBatchRun(t)
<1> DEFINE w == LoopOver(t)
           n == Len(t) - 1
<1>1. Len(t) \in Nat /\ Len(t) >= 1
  BY LenProperties, EmptySeq
<1>2. w \in LoopState /\ LoopInv(t, w, n)
  BY LoopEnds
<1> HIDE DEF w
<1>3. ASSUME NEW i \in 1..Len(t), Alike(t, w, i), i = Len(t) \/ Back(t, i).batch # Back(t, 0).batch
      PROVE  /\ SameBatchRun(t) = w.run /\ RepeatSpan(t) = w.run
             /\ Alike(t, w, w.run)
  <2>1. w.run = i /\ ~AnswersDiffer(t, i) /\ i \in Nat /\ i >= 1
    BY <1>1, <1>3 DEF Alike
  <2>2. \A j \in 1..(i - 1) : Back(t, j).batch = Back(t, 0).batch
    BY <1>3 DEF Alike
  <2>3. SameBatchRun(t) = i
    BY <1>3, <2>2, RunEnds
  <2>4. RepeatSpan(t) = i
    BY <2>1, <2>3, SpanEnds
  <2> QED BY <1>3, <2>1, <2>3, <2>4
<1>4. CASE ~w.over
  <2>1. Alike(t, w, n + 1) /\ ~w.differ
    BY <1>2, <1>4 DEF LoopInv
  <2>2. n + 1 = Len(t) /\ Len(t) \in 1..Len(t)
    BY <1>1
  <2>3. Alike(t, w, Len(t))
    BY <2>1, <2>2
  <2>4. SameBatchRun(t) = w.run /\ RepeatSpan(t) = w.run /\ Alike(t, w, w.run)
    BY <1>3, <2>2, <2>3
  <2> QED BY <1>2, <2>1, <2>4 DEF w
<1>5. CASE w.over
  <2>1. PICK i \in 1..n : /\ Alike(t, w, i)
                          /\ Back(t, i).batch = Back(t, 0).batch <=> w.differ
                          /\ w.differ => AnswersDiffer(t, i + 1)
    BY <1>2, <1>5 DEF LoopInv
  <2>2. i \in Nat /\ i >= 1 /\ i + 1 <= Len(t) /\ i \in 1..Len(t) /\ i + 1 \in 1..Len(t)
    BY <1>1, <2>1
  <2>3. CASE ~w.differ
    <3>1. SameBatchRun(t) = w.run /\ RepeatSpan(t) = w.run /\ Alike(t, w, w.run)
      BY <1>3, <2>1, <2>2, <2>3
    <3> QED BY <1>2, <2>3, <3>1 DEF w
  <2>4. CASE w.differ
    <3>1. \A k \in 1..(i + 1 - 1) : Back(t, k).batch = Back(t, 0).batch
      <4>1. \A k \in 1..(i + 1 - 1) : k \in 1..(i - 1) \/ k = i
        BY <2>2
      <4>2. \A k \in 1..(i - 1) : Back(t, k).batch = Back(t, 0).batch
        BY <2>1 DEF Alike
      <4> QED BY <2>1, <2>4, <4>1, <4>2
    <3>2. /\ i + 1 <= SameBatchRun(t) /\ SameBatchRun(t) \in 1..Len(t)
          /\ ~AnswersDiffer(t, RepeatSpan(t))
      BY <2>2, <3>1, SpanIn
    <3>3. RepeatSpan(t) # SameBatchRun(t)
      <4> SUFFICES ASSUME RepeatSpan(t) = SameBatchRun(t) PROVE FALSE
        OBVIOUS
      <4>1. SameBatchRun(t) \in Nat /\ i + 1 \in Nat
        BY <1>1, <2>2, <3>2
      <4>2. AnswersDiffer(t, SameBatchRun(t))
        BY <2>1, <2>4, <3>2, <4>1, DifferGrows
      <4> QED BY <3>2, <4>2
    <3> QED BY <1>2, <2>4, <3>3 DEF w
  <2> QED BY <2>3, <2>4
<1> QED BY <1>4, <1>5

\* So the loop's outcome and the verdict agree on when a repeat is one, on its length
\* and on whether all that ran of it failed.
LEMMA VerdictOfLoop ==
  ASSUME NEW t \in Seq(Cycle), t # <<>>
  PROVE  LET w == LoopOver(t)
             fires == w.run >= ScanAt /\ ~w.differ
             v == RepeatVerdict(t)
         IN  /\ fires <=> v.kind = "repeat"
             /\ fires => v.span = w.run /\ v.failed = (w.all = {TRUE})
<1> DEFINE w == LoopOver(t)
           span == RepeatSpan(t)
           ran == {k \in 1..(span - 1) : Back(t, k).obs # <<>>}
           failed == ran # {} /\ \A k \in ran : AllFailed(Back(t, k).obs)
           found == [kind |-> "repeat", span |-> span,
                     key |-> <<"repeat", {Back(t, 0).batch}>>, failed |-> failed]
           v == RepeatVerdict(t)
<1>1. /\ w \in LoopState
      /\ ~w.differ => /\ SameBatchRun(t) = w.run /\ span = w.run
                      /\ Alike(t, w, w.run)
      /\ w.differ => span # SameBatchRun(t)
  BY LoopFinds
<1>2. v = IF span >= ScanAt /\ span = SameBatchRun(t) THEN found ELSE NoVerdict
  BY DEF RepeatVerdict
<1>3. NoVerdict.kind # "repeat"
  BY DEF NoVerdict
<1>4. found.kind = "repeat" /\ found.span = span /\ found.failed = failed
  OBVIOUS
<1> HIDE DEF w, v, found, failed, ran, span
<1>5. CASE w.differ
  BY <1>1, <1>2, <1>3, <1>5 DEF w, v
<1>6. CASE ~w.differ
  <2>1. SameBatchRun(t) = w.run /\ span = w.run /\ Alike(t, w, w.run)
    BY <1>1, <1>6
  <2>2. \A b \in BOOLEAN :
          b \in w.all <=> \E j \in 1..(span - 1) : Back(t, j).obs # <<>> /\ b = AllFailed(Back(t, j).obs)
    BY <2>1 DEF Alike
  <2>3. failed = (w.all = {TRUE})
    <3>1. w.all \in SUBSET BOOLEAN /\ TRUE \in BOOLEAN /\ FALSE \in BOOLEAN
      BY <1>1 DEF LoopState
    <3>2. \A k \in ran : AllFailed(Back(t, k).obs) \in BOOLEAN
      BY DEF AllFailed
    <3>3. ASSUME failed PROVE w.all = {TRUE}
      <4>1. FALSE \notin w.all
        BY <2>2, <3>1, <3>3 DEF failed, ran
      <4>2. TRUE \in w.all
        BY <2>2, <3>1, <3>3 DEF failed, ran
      <4> QED BY <3>1, <4>1, <4>2
    <3>4. ASSUME w.all = {TRUE} PROVE failed
      <4>1. ran # {}
        BY <2>2, <3>1, <3>4 DEF ran
      <4>2. \A k \in ran : AllFailed(Back(t, k).obs)
        BY <2>2, <3>1, <3>2, <3>4 DEF ran
      <4> QED BY <4>1, <4>2 DEF failed
    <3>5. failed \in BOOLEAN
      BY DEF failed
    <3> QED BY <3>3, <3>4, <3>5
  <2>4. w.run >= ScanAt <=> v.kind = "repeat"
    BY <1>2, <1>3, <1>4, <2>1
  <2>5. w.run >= ScanAt => v.span = w.run /\ v.failed = (w.all = {TRUE})
    BY <1>2, <1>4, <2>1, <2>3
  <2> QED BY <1>6, <2>4, <2>5 DEF w, v
<1> QED BY <1>5, <1>6

\* A verdict is a repeat that is long enough for its class, an oscillation where there is
\* no repeat, or none.
LEMMA VerdictKinds ==
  ASSUME NEW m, NEW f
  PROVE  LET t == ToolCycles(m, f)
             v == StuckVerdict(m, f)
             repeat == RepeatVerdict(t)
         IN  \/ v = NoVerdict /\ v.kind = "none"
             \/ /\ StreakThreshold >= 2 /\ t # <<>> /\ v = repeat /\ v.kind = "repeat"
                /\ RepeatSpan(t) = SameBatchRun(t) /\ RepeatSpan(t) >= ScanAt
                /\ v.span = RepeatSpan(t) /\ v.key = <<"repeat", {Back(t, 0).batch}>>
                /\ ~(v.span < IF v.failed THEN FailAt ELSE StreakThreshold)
             \/ /\ StreakThreshold >= 2 /\ t # <<>> /\ repeat = NoVerdict
                /\ v = OscillationVerdict(t) /\ v.kind = "oscillation"
<1> DEFINE t == ToolCycles(m, f)
           v == StuckVerdict(m, f)
           repeat == RepeatVerdict(t)
           ran == {k \in 1..(RepeatSpan(t) - 1) : Back(t, k).obs # <<>>}
           failed == ran # {} /\ \A k \in ran : AllFailed(Back(t, k).obs)
           found == [kind |-> "repeat", span |-> RepeatSpan(t),
                     key |-> <<"repeat", {Back(t, 0).batch}>>, failed |-> failed]
<1>1. NoVerdict.kind = "none"
  BY DEF NoVerdict
<1>2. ~(StreakThreshold < 2) <=> StreakThreshold >= 2
  BY ThresholdAssumption
<1>3. repeat = IF RepeatSpan(t) >= ScanAt /\ RepeatSpan(t) = SameBatchRun(t) THEN found ELSE NoVerdict
  BY DEF RepeatVerdict
<1>4. /\ found.kind = "repeat" /\ found.span = RepeatSpan(t)
      /\ found.key = <<"repeat", {Back(t, 0).batch}>>
  OBVIOUS
<1>5. OscillationVerdict(t) = NoVerdict \/ OscillationVerdict(t).kind = "oscillation"
  BY DEF OscillationVerdict
<1>6. v = IF StreakThreshold < 2 \/ t = <<>> THEN NoVerdict
          ELSE IF repeat = NoVerdict THEN OscillationVerdict(t)
          ELSE IF repeat.span < IF repeat.failed THEN FailAt ELSE StreakThreshold THEN NoVerdict
          ELSE repeat
  BY DEF StuckVerdict
<1> HIDE DEF found, repeat, v
<1>7. CASE v = NoVerdict
  BY <1>1, <1>7 DEF v
<1>8. CASE v # NoVerdict /\ repeat = NoVerdict
  <2>1. StreakThreshold >= 2 /\ t # <<>> /\ v = OscillationVerdict(t)
    BY <1>2, <1>6, <1>8
  <2>2. v.kind = "oscillation"
    BY <1>5, <1>8, <2>1
  <2> QED BY <1>8, <2>1, <2>2 DEF v, repeat
<1>9. CASE v # NoVerdict /\ repeat # NoVerdict
  <2>1. /\ StreakThreshold >= 2 /\ t # <<>> /\ v = repeat
        /\ ~(repeat.span < IF repeat.failed THEN FailAt ELSE StreakThreshold)
    BY <1>2, <1>6, <1>9
  <2>2. repeat = found /\ RepeatSpan(t) >= ScanAt /\ RepeatSpan(t) = SameBatchRun(t)
    BY <1>3, <1>9
  <2>3. /\ v.kind = "repeat" /\ v.span = RepeatSpan(t)
        /\ v.key = <<"repeat", {Back(t, 0).batch}>>
    BY <1>4, <2>1, <2>2
  <2>4. ~(v.span < IF v.failed THEN FailAt ELSE StreakThreshold)
    BY <2>1
  <2> QED BY <2>1, <2>2, <2>3, <2>4 DEF v, repeat
<1> QED BY <1>7, <1>8, <1>9

\* The proposal parse_node is at is the first the scan meets.
LEMMA ProposalIsScanned ==
  ASSUME TypeOK, RanInv, Proposing
  PROVE  /\ Len(Proposed) = Len(cycles) + 1 /\ Proposed \in Seq(Cycle) /\ fence \in Nat
         /\ Len(cycles) \in Nat /\ fence <= Len(cycles)
         /\ \A k \in 1..Len(cycles) : Proposed[k] = cycles[k]
         /\ Proposed[Len(cycles) + 1] = NewCycle
         /\ NewCycle.batch = reply.batch /\ NewCycle.obs = <<>> /\ reply.batch # <<>>
         /\ LET t == ToolCycles(Proposed, fence)
            IN  t \in Seq(Cycle) /\ t # <<>> /\ Back(t, 0) = NewCycle
<1> DEFINE q == Len(cycles)
           t == ToolCycles(Proposed, fence)
<1>1. /\ cycles \in Seq(Cycle) /\ q \in Nat /\ fence \in Nat /\ fence <= q
      /\ NewCycle.batch = reply.batch /\ NewCycle.obs = <<>>
      /\ reply.batch # <<>>
  BY ExecutedFacts, BatchTypes DEF RanInv, NewCycle, Proposing
<1>2. Proposed \in Seq(Cycle)
  BY CycleTypes
<1>3. NewCycle \in Cycle
  BY BatchTypes, EmptySeq, LoopAssumption DEF TypeOK, ScratchpadOK, NewCycle, Cycle
<1>4. /\ Len(Proposed) = q + 1 /\ Proposed[q + 1] = NewCycle
      /\ \A k \in 1..q : Proposed[k] = cycles[k]
  BY <1>1, <1>3, AppendProperties DEF Proposed
<1>5. /\ q \in fence..(Len(Proposed) - 1)
      /\ \A k \in (q + 1)..Len(Proposed) : Proposed[k].batch # <<>>
  <2>1. \A k \in (q + 1)..(q + 1) : k = q + 1
    BY <1>1
  <2> QED BY <1>1, <1>4, <2>1
<1>6. Scanned(Len(Proposed) - q) = 1
  <2>1. Len(Proposed) - q = 1 /\ 1 <= ScanDepth
    BY <1>1, <1>4, Depths
  <2> QED BY <2>1 DEF Scanned
<1>7. t \in Seq(Cycle)
  BY <1>1, <1>2, ToolCyclesAre
<1>8. /\ Scanned(Len(Proposed) - q) \in 1..Len(t)
      /\ \A k \in 0..(Scanned(Len(Proposed) - q) - 1) : Back(t, k) = Proposed[Len(Proposed) - k]
  <2> HIDE DEF q
  <2> QED BY <1>1, <1>2, <1>5, SuffixIsScanned
<1>9. Back(t, 0) = Proposed[q + 1]
  <2>1. 0 \in 0..(Scanned(Len(Proposed) - q) - 1) /\ Len(Proposed) - 0 = q + 1
    BY <1>1, <1>4, <1>6
  <2> QED BY <1>8, <2>1
<1>10. t # <<>>
  <2>1. 1 \in 1..Len(t)
    BY <1>6, <1>8
  <2> QED BY <2>1, EmptySeq
<1> QED BY <1>1, <1>2, <1>4, <1>7, <1>9, <1>10

\* What the loop computes for the proposal.
LEMMA LoopAgrees ==
  ASSUME TypeOK, RanInv
  PROVE  VerdictMatchesLoop
<1> SUFFICES ASSUME Proposing PROVE VerdictMatchesLoop
  BY DEF VerdictMatchesLoop
<1> DEFINE t == ToolCycles(Proposed, fence)
<1>1. t \in Seq(Cycle) /\ t # <<>>
  BY ProposalIsScanned
<1> HIDE DEF t
<1>2. LET w == LoopOver(t)
          fires == w.run >= ScanAt /\ ~w.differ
          v == RepeatVerdict(t)
      IN  /\ fires <=> v.kind = "repeat"
          /\ fires => v.span = w.run /\ v.failed = (w.all = {TRUE})
  BY <1>1, VerdictOfLoop
<1> QED BY <1>2 DEF VerdictMatchesLoop, t

\* Two answers that differ within what is scanned are no repeat.
LEMMA PollsAreNoRepeat ==
  ASSUME TypeOK, RanInv
  PROVE  PollIsNoStreak
<1> SUFFICES ASSUME Proposing,
                    NEW j \in (fence + 1)..Len(cycles), NEW k \in (fence + 1)..Len(cycles),
                    j < k, Len(Proposed) - j < ScanDepth,
                    cycles[j].obs # <<>>, cycles[k].obs # <<>>, cycles[j].obs # cycles[k].obs,
                    \A i \in j..Len(cycles) : cycles[i].batch = reply.batch
             PROVE  Verdict.kind # "repeat"
  BY DEF PollIsNoStreak
<1> DEFINE q == Len(cycles)
           t == ToolCycles(Proposed, fence)
           n == q + 2 - j
<1>1. /\ Len(Proposed) = q + 1 /\ Proposed \in Seq(Cycle) /\ fence \in Nat
      /\ q \in Nat /\ \A i \in 1..q : Proposed[i] = cycles[i]
      /\ Proposed[q + 1] = NewCycle
      /\ NewCycle.batch = reply.batch /\ reply.batch # <<>>
      /\ t \in Seq(Cycle) /\ t # <<>> /\ Back(t, 0) = NewCycle
  BY ProposalIsScanned
<1> HIDE DEF t, q
<1>2. j \in Nat /\ k \in Nat /\ j >= fence + 1 /\ j <= q /\ k <= q /\ j >= 1 /\ k >= 1
  BY <1>1 DEF q
<1>3. \A i \in j..(q + 1) : Proposed[i].batch = reply.batch
  <2>1. \A i \in j..(q + 1) : i = q + 1 \/ (i \in j..q /\ i \in 1..q)
    BY <1>1, <1>2
  <2> QED BY <1>1, <2>1 DEF q
<1>4. Scanned(Len(Proposed) - (j - 1)) = n /\ n \in Nat
  <2>1. Len(Proposed) - (j - 1) = n /\ n <= ScanDepth /\ n \in Nat
    BY <1>1, <1>2, Depths
  <2> QED BY <2>1 DEF Scanned
<1>5. /\ j - 1 \in fence..(Len(Proposed) - 1)
      /\ \A i \in (j - 1 + 1)..Len(Proposed) : Proposed[i].batch # <<>>
  <2>1. j - 1 + 1 = j
    BY <1>2
  <2> QED BY <1>1, <1>2, <1>3, <2>1
<1>6. /\ n \in 1..Len(t)
      /\ \A i \in 0..(n - 1) : Back(t, i) = Proposed[q + 1 - i]
  <2>1. PICK p : p = j - 1
    OBVIOUS
  <2>2. p \in fence..(Len(Proposed) - 1) /\ \A i \in (p + 1)..Len(Proposed) : Proposed[i].batch # <<>>
    BY <1>5, <2>1
  <2>3. /\ Scanned(Len(Proposed) - p) \in 1..Len(t)
        /\ \A i \in 0..(Scanned(Len(Proposed) - p) - 1) : Back(t, i) = Proposed[Len(Proposed) - i]
    BY <1>1, <2>2, SuffixIsScanned DEF t
  <2> QED BY <1>1, <1>4, <2>1, <2>3
<1>7. \A i \in 1..(n - 1) : Back(t, i).batch = Back(t, 0).batch
  <2> SUFFICES ASSUME NEW i \in 1..(n - 1) PROVE Back(t, i).batch = Back(t, 0).batch
    OBVIOUS
  <2>1. i \in 0..(n - 1) /\ q + 1 - i \in j..(q + 1)
    BY <1>1, <1>2
  <2> QED BY <1>1, <1>3, <1>6, <2>1
<1>8. /\ n <= SameBatchRun(t) /\ SameBatchRun(t) \in 1..Len(t)
      /\ ~AnswersDiffer(t, RepeatSpan(t))
  <2> HIDE DEF n
  <2> QED BY <1>1, <1>6, <1>7, SpanIn
<1>9. AnswersDiffer(t, n)
  <2>1. /\ q + 1 - j \in 1..(n - 1) /\ q + 1 - k \in 1..(n - 1)
        /\ q + 1 - j \in 0..(n - 1) /\ q + 1 - k \in 0..(n - 1)
        /\ q + 1 - (q + 1 - j) = j /\ q + 1 - (q + 1 - k) = k
    BY <1>1, <1>2
  <2>2. Back(t, q + 1 - j) = Proposed[j] /\ Back(t, q + 1 - k) = Proposed[k]
    BY <1>6, <2>1
  <2>3. Proposed[j] = cycles[j] /\ Proposed[k] = cycles[k]
    BY <1>1, <1>2
  <2> HIDE DEF n
  <2> QED BY <2>1, <2>2, <2>3 DEF AnswersDiffer
<1>10. RepeatSpan(t) # SameBatchRun(t)
  <2> SUFFICES ASSUME RepeatSpan(t) = SameBatchRun(t) PROVE FALSE
    OBVIOUS
  <2>1. SameBatchRun(t) \in Nat
    BY <1>8
  <2>2. AnswersDiffer(t, SameBatchRun(t))
    <3> HIDE DEF n
    <3> QED BY <1>4, <1>8, <1>9, <2>1, DifferGrows
  <2> QED BY <1>8, <2>2
<1>11. Verdict.kind = "repeat" => RepeatSpan(t) = SameBatchRun(t)
  BY VerdictKinds DEF Verdict, t
<1> QED BY <1>10, <1>11

\* What one more proposal does to the scan: it comes first, what was scanned moves back
\* by one, and the oldest falls out when the scan is as long as it can be.
LEMMA ScanGrows ==
  ASSUME NEW m \in Seq(Cycle), NEW m2 \in Seq(Cycle), NEW f \in Nat, f <= Len(m),
         Len(m2) = Len(m) + 1,
         \A k \in 1..Len(m) : m2[k].batch = m[k].batch /\ m2[k].obs = m[k].obs,
         m2[Len(m) + 1].batch # <<>>
  PROVE  LET t == ToolCycles(m, f)
             t2 == ToolCycles(m2, f)
         IN  /\ t \in Seq(Cycle) /\ t2 \in Seq(Cycle)
             /\ Len(t2) = IF Len(t) + 1 <= ScanDepth THEN Len(t) + 1 ELSE ScanDepth
             /\ Len(t) <= ScanDepth
             /\ \A i \in 1..Len(t) : t[i].batch # <<>>
             /\ Back(t2, 0).batch = m2[Len(m) + 1].batch
             /\ \A k \in 1..(Len(t2) - 1) : /\ Back(t2, k).batch = Back(t, k - 1).batch
                                            /\ Back(t2, k).obs = Back(t, k - 1).obs
<1> DEFINE t == ToolCycles(m, f)
           t2 == ToolCycles(m2, f)
           P == Proposals(m, f)
           P2 == Proposals(m2, f)
           q == Len(m)
<1>1. q \in Nat /\ f <= q /\ Len(m2) = q + 1
  BY LenProperties
<1>2. P2 = P \union {q + 1} /\ q + 1 \notin P /\ \A k \in P : k \in 1..q /\ k \in Int
  <2>1. \A k \in (f + 1)..(q + 1) : k = q + 1 \/ (k \in (f + 1)..q /\ k \in 1..q)
    BY <1>1
  <2>2. (f + 1)..q \subseteq (f + 1)..(q + 1) /\ q + 1 \in (f + 1)..(q + 1)
    BY <1>1
  <2>3. q + 1 \notin P /\ \A k \in P : k \in 1..q /\ k \in Int
    BY <1>1 DEF Proposals
  <2>4. \A k \in (f + 1)..q : m2[k].batch = m[k].batch
    BY <1>1
  <2>5. P = {k \in (f + 1)..q : m[k].batch # <<>>}
    BY DEF Proposals
  <2>6. P2 = {k \in (f + 1)..(q + 1) : m2[k].batch # <<>>}
    BY <1>1 DEF Proposals
  <2>7. m2[q + 1].batch # <<>>
    OBVIOUS
  <2> HIDE DEF P, P2, q
  <2>8. P2 = P \union {q + 1}
    BY <2>1, <2>2, <2>4, <2>5, <2>6, <2>7
  <2> QED BY <2>3, <2>8
<1>3. /\ Cardinality(P) \in Nat /\ IsFiniteSet(P) /\ t \in Seq(Cycle)
      /\ Len(t) = IF Cardinality(P) <= ScanDepth THEN Cardinality(P) ELSE ScanDepth
      /\ \A k, l \in P : k < l => Nth(m, f, l) < Nth(m, f, k)
      /\ \A i \in 1..Len(t) : \E k \in P : Nth(m, f, k) = i /\ t[i] = m[k]
  BY ToolCyclesAre
<1>4. /\ Cardinality(P2) \in Nat /\ IsFiniteSet(P2) /\ t2 \in Seq(Cycle)
      /\ Len(t2) = IF Cardinality(P2) <= ScanDepth THEN Cardinality(P2) ELSE ScanDepth
      /\ \A k \in P2 : /\ Nth(m2, f, k) \in 1..Cardinality(P2)
                       /\ Nth(m2, f, k) <= Len(t2) => t2[Nth(m2, f, k)] = m2[k]
  BY ToolCyclesAre
<1>5. \A k : /\ Nth(m, f, k) = Cardinality(NoEarlier(P, k))
             /\ Nth(m2, f, k) = Cardinality(NoEarlier(P2, k))
  BY DEF Nth
<1> HIDE DEF t, t2, P, P2, q
<1>6. Cardinality(P2) = Cardinality(P) + 1
  BY <1>2, <1>3, FS_AddElement
<1>7. ASSUME NEW k \in P PROVE k \in P2 /\ Nth(m2, f, k) = Nth(m, f, k) + 1
  <2>1. k \in 1..q /\ k <= q + 1
    BY <1>1, <1>2
  <2>2. NoEarlier(P2, k) = NoEarlier(P, k) \union {q + 1}
    BY <1>2, <2>1 DEF NoEarlier
  <2>3. q + 1 \notin NoEarlier(P, k) /\ NoEarlier(P, k) \subseteq P
    BY <1>2 DEF NoEarlier
  <2>4. IsFiniteSet(NoEarlier(P, k))
    BY <1>3, <2>3, FS_Subset
  <2>5. Cardinality(NoEarlier(P2, k)) = Cardinality(NoEarlier(P, k)) + 1
    BY <2>2, <2>3, <2>4, FS_AddElement
  <2> QED BY <1>2, <1>5, <2>5
<1>8. q + 1 \in P2 /\ Nth(m2, f, q + 1) = 1
  <2>1. \A k \in P : ~(k >= q + 1)
    BY <1>1, <1>2
  <2>2. NoEarlier(P2, q + 1) = {q + 1}
    <3>1. q + 1 >= q + 1
      BY <1>1
    <3> QED BY <1>2, <2>1, <3>1 DEF NoEarlier
  <2>3. Cardinality({q + 1}) = 1
    BY FS_Singleton
  <2> QED BY <1>2, <1>5, <2>2, <2>3
<1>9. ScanDepth \in Int /\ ScanDepth >= 24
  BY Depths
<1>10. /\ Len(t) \in Nat /\ Len(t2) \in Nat /\ Len(t) <= ScanDepth /\ Len(t2) >= 1
       /\ Len(t2) = IF Len(t) + 1 <= ScanDepth THEN Len(t) + 1 ELSE ScanDepth
  BY <1>3, <1>4, <1>6, <1>9
<1>11. \A i \in 1..Len(t) : t[i].batch # <<>>
  <2>1. \A k \in P : m[k].batch # <<>>
    BY DEF P, Proposals
  <2> QED BY <1>3, <2>1
<1>12. Back(t2, 0).batch = m2[q + 1].batch
  <2>1. t2[1] = m2[q + 1]
    BY <1>4, <1>8, <1>10
  <2> QED BY <2>1 DEF Back
<1>13. ASSUME NEW k \in 1..(Len(t2) - 1)
       PROVE  Back(t2, k).batch = Back(t, k - 1).batch /\ Back(t2, k).obs = Back(t, k - 1).obs
  <2>1. k \in 1..Len(t) /\ k + 1 <= Len(t2)
    BY <1>9, <1>10
  <2>2. PICK j \in P : Nth(m, f, j) = k /\ t[k] = m[j]
    BY <1>3, <2>1
  <2>3. j \in P2 /\ Nth(m2, f, j) = k + 1
    BY <1>7, <2>2
  <2>4. t2[k + 1] = m2[j]
    BY <1>4, <2>1, <2>3
  <2>5. m2[j].batch = m[j].batch /\ m2[j].obs = m[j].obs
    BY <1>2 DEF q
  <2>6. k - 1 + 1 = k
    OBVIOUS
  <2> QED BY <2>2, <2>4, <2>5, <2>6 DEF Back
<1> QED BY <1>3, <1>4, <1>10, <1>11, <1>12, <1>13 DEF t, t2, q

\* What a scan is after one more proposal of a batch.
Shifted(t, t2, batch) ==
  /\ Len(t2) = IF Len(t) + 1 <= ScanDepth THEN Len(t) + 1 ELSE ScanDepth
  /\ Len(t) <= ScanDepth
  /\ Back(t2, 0).batch = batch
  /\ \A k \in 1..(Len(t2) - 1) : /\ Back(t2, k).batch = Back(t, k - 1).batch
                                 /\ Back(t2, k).obs = Back(t, k - 1).obs

\* One more of the same is a run one longer, as far as the scan reaches, and agrees if
\* the run before it did.
LEMMA RunGrows ==
  ASSUME NEW t \in Seq(Cycle), NEW t2 \in Seq(Cycle), t # <<>>,
         Shifted(t, t2, Back(t, 0).batch), Back(t, 0).obs = <<>>,
         RepeatSpan(t) = SameBatchRun(t)
  PROVE  /\ SameBatchRun(t2) = Scanned(SameBatchRun(t) + 1)
         /\ RepeatSpan(t2) = Scanned(SameBatchRun(t) + 1)
<1> DEFINE s == SameBatchRun(t)
           s2 == Scanned(s + 1)
           b == Back(t, 0).batch
<1>1. /\ Len(t) \in Nat /\ s \in 1..Len(t) /\ ScanDepth \in Nat /\ ScanDepth >= 24
      /\ \A k \in 1..(s - 1) : Back(t, k).batch = b
      /\ ~AnswersDiffer(t, s)
      /\ \A u \in 1..Len(t) : (\A k \in 1..(u - 1) : Back(t, k).batch = b) => u <= s
  <2>1. s \in 1..Len(t) /\ \A k \in 1..(s - 1) : Back(t, k).batch = b
    BY SpanIn
  <2>2. \A u \in 1..Len(t) : (\A k \in 1..(u - 1) : Back(t, k).batch = b) => u <= s
    BY SpanIn
  <2>3. ~AnswersDiffer(t, RepeatSpan(t))
    BY SpanIn
  <2>4. Len(t) \in Nat /\ ScanDepth \in Nat /\ ScanDepth >= 24
    BY LenProperties, Depths
  <2> QED BY <2>1, <2>2, <2>3, <2>4
<1>2. /\ Len(t2) = IF Len(t) + 1 <= ScanDepth THEN Len(t) + 1 ELSE ScanDepth
      /\ Len(t) <= ScanDepth
      /\ Back(t2, 0).batch = b
      /\ \A k \in 1..(Len(t2) - 1) : /\ Back(t2, k).batch = Back(t, k - 1).batch
                                     /\ Back(t2, k).obs = Back(t, k - 1).obs
  BY DEF Shifted
<1> HIDE DEF s, b
<1>3. /\ s \in Nat /\ s >= 1 /\ s <= Len(t) /\ Len(t2) \in Nat /\ Len(t2) >= Len(t)
      /\ Len(t2) <= Len(t) + 1 /\ Len(t2) <= ScanDepth
  BY <1>1, <1>2
<1>4. s2 \in 1..Len(t2) /\ s2 \in Nat /\ s2 <= s + 1 /\ (s2 = s + 1 \/ s2 = Len(t2))
  BY <1>1, <1>2, <1>3 DEF Scanned
<1> HIDE DEF s2
<1>5. \A k \in 1..(s2 - 1) : /\ k \in 1..(Len(t2) - 1) /\ k - 1 \in 0..(s - 1)
                             /\ k - 1 = 0 \/ k - 1 \in 1..(s - 1)
  BY <1>3, <1>4
<1>6. \A k \in 1..(s2 - 1) : Back(t2, k).batch = Back(t2, 0).batch
  <2> SUFFICES ASSUME NEW k \in 1..(s2 - 1) PROVE Back(t2, k).batch = b
    BY <1>2
  <2>1. Back(t2, k).batch = Back(t, k - 1).batch
    BY <1>2, <1>5
  <2>2. CASE k - 1 = 0
    BY <2>1, <2>2 DEF b
  <2>3. CASE k - 1 \in 1..(s - 1)
    BY <1>1, <2>1, <2>3
  <2> QED BY <1>5, <2>2, <2>3
<1>7. s2 = Len(t2) \/ Back(t2, s2).batch # Back(t2, 0).batch
  <2> SUFFICES ASSUME s2 # Len(t2) PROVE Back(t2, s2).batch # b
    BY <1>2
  <2>1. /\ s2 = s + 1 /\ s2 \in 1..(Len(t2) - 1) /\ s2 - 1 = s /\ s + 1 \in 1..Len(t)
        /\ ~(s + 1 <= s)
    BY <1>3, <1>4
  <2>2. ~(\A k \in 1..(s + 1 - 1) : Back(t, k).batch = b)
    BY <1>1, <2>1
  <2>3. Back(t, s).batch # b
    <3>1. \A k \in 1..(s + 1 - 1) : k = s \/ k \in 1..(s - 1)
      BY <1>3
    <3> QED BY <1>1, <2>2, <3>1
  <2>4. Back(t2, s2).batch = Back(t, s).batch
    BY <1>2, <2>1
  <2> QED BY <2>3, <2>4
<1>8. ~AnswersDiffer(t2, s2)
  <2> SUFFICES ASSUME NEW i \in 1..(s2 - 1), NEW j \in 1..(s2 - 1),
                      Back(t2, i).obs # <<>>, Back(t2, j).obs # <<>>
               PROVE  Back(t2, i).obs = Back(t2, j).obs
    BY DEF AnswersDiffer
  <2>1. Back(t2, i).obs = Back(t, i - 1).obs /\ Back(t2, j).obs = Back(t, j - 1).obs
    BY <1>2, <1>5
  <2>2. i - 1 \in 1..(s - 1) /\ j - 1 \in 1..(s - 1)
    BY <1>5, <2>1
  <2> QED BY <1>1, <2>1, <2>2 DEF AnswersDiffer
<1>9. SameBatchRun(t2) = s2
  BY <1>4, <1>6, <1>7, RunEnds
<1>10. RepeatSpan(t2) = s2
  <2>1. s2 >= 1
    BY <1>4
  <2> QED BY <1>4, <1>8, <1>9, <2>1, SpanEnds
<1> QED BY <1>9, <1>10 DEF s, s2

\* All that ran of the last s proposals failed.
FailedRun(t, s) ==
  /\ \E k \in 1..(s - 1) : Back(t, k).obs # <<>>
  /\ \A k \in 1..(s - 1) : Back(t, k).obs # <<>> => AllFailed(Back(t, k).obs)

\* A run whose answers agree and that is as long as the scan requires is the verdict,
\* when it is long enough for its class.
LEMMA RepeatIsFound ==
  ASSUME NEW m, NEW f, NEW s \in Nat, StreakThreshold >= 2,
         ToolCycles(m, f) # <<>>,
         SameBatchRun(ToolCycles(m, f)) = s, RepeatSpan(ToolCycles(m, f)) = s, s >= ScanAt,
         s >= IF FailedRun(ToolCycles(m, f), s) THEN FailAt ELSE StreakThreshold
  PROVE  /\ StuckVerdict(m, f).key = <<"repeat", {Back(ToolCycles(m, f), 0).batch}>>
         /\ StuckVerdict(m, f).span = s
<1> DEFINE t == ToolCycles(m, f)
           v == StuckVerdict(m, f)
           repeat == RepeatVerdict(t)
           ran == {k \in 1..(s - 1) : Back(t, k).obs # <<>>}
           failed == ran # {} /\ \A k \in ran : AllFailed(Back(t, k).obs)
<1>1. failed = FailedRun(t, s)
  <2> HIDE DEF t
  <2> QED BY DEF FailedRun
<1>2. repeat = [kind |-> "repeat", span |-> s,
                key |-> <<"repeat", {Back(t, 0).batch}>>, failed |-> failed]
  BY DEF RepeatVerdict
<1> HIDE DEF failed
<1>3. /\ repeat.kind = "repeat" /\ repeat.span = s /\ repeat.failed = FailedRun(t, s)
      /\ repeat.key = <<"repeat", {Back(t, 0).batch}>>
  BY <1>1, <1>2
<1>4. repeat # NoVerdict
  BY <1>3 DEF NoVerdict
<1>5. v = IF StreakThreshold < 2 \/ t = <<>> THEN NoVerdict
          ELSE IF repeat = NoVerdict THEN OscillationVerdict(t)
          ELSE IF repeat.span < IF repeat.failed THEN FailAt ELSE StreakThreshold THEN NoVerdict
          ELSE repeat
  BY DEF StuckVerdict
<1>6. ~(StreakThreshold < 2)
  BY ThresholdAssumption
<1>7. ~(s < IF FailedRun(t, s) THEN FailAt ELSE StreakThreshold)
  <2> DEFINE needed == IF FailedRun(t, s) THEN FailAt ELSE StreakThreshold
  <2>1. needed \in Int
    BY ThresholdAssumption, Depths
  <2>2. s >= needed
    OBVIOUS
  <2> HIDE DEF needed
  <2>3. ~(s < needed)
    BY <2>1, <2>2
  <2> QED BY <2>3 DEF needed
<1> HIDE DEF v, repeat, t
<1>8. v = repeat
  BY <1>3, <1>4, <1>5, <1>6, <1>7 DEF t
<1> QED BY <1>3, <1>8 DEF v, t

\* A repeat refused and proposed again is a repeat again, one longer.
LEMMA RepeatGoesOn ==
  ASSUME NEW m, NEW m2, NEW f,
         ToolCycles(m, f) \in Seq(Cycle), ToolCycles(m2, f) \in Seq(Cycle),
         StuckVerdict(m, f).kind = "repeat", StreakThreshold <= ScanDepth,
         Shifted(ToolCycles(m, f), ToolCycles(m2, f), Back(ToolCycles(m, f), 0).batch),
         Back(ToolCycles(m, f), 0).obs = <<>>
  PROVE  /\ StuckVerdict(m2, f).key = StuckVerdict(m, f).key
         /\ StuckVerdict(m, f).span \in Nat
         /\ StuckVerdict(m2, f).span = Scanned(StuckVerdict(m, f).span + 1)
<1> DEFINE t == ToolCycles(m, f)
           t2 == ToolCycles(m2, f)
           v == StuckVerdict(m, f)
           s == SameBatchRun(t)
           s2 == Scanned(s + 1)
<1>1. /\ StreakThreshold >= 2 /\ t # <<>>
      /\ RepeatSpan(t) = s /\ s >= ScanAt
      /\ v.span = s /\ v.key = <<"repeat", {Back(t, 0).batch}>>
      /\ ~(v.span < IF v.failed THEN FailAt ELSE StreakThreshold)
      /\ v = RepeatVerdict(t)
  BY VerdictKinds
<1>2. v.failed = FailedRun(t, s)
  <2> DEFINE ran == {k \in 1..(s - 1) : Back(t, k).obs # <<>>}
             failed == ran # {} /\ \A k \in ran : AllFailed(Back(t, k).obs)
  <2>1. failed = FailedRun(t, s)
    <3> HIDE DEF t, s
    <3> QED BY DEF FailedRun
  <2>2. v = [kind |-> "repeat", span |-> s,
             key |-> <<"repeat", {Back(t, 0).batch}>>, failed |-> failed]
    <3> HIDE DEF v, t
    <3> QED BY <1>1 DEF RepeatVerdict
  <2> HIDE DEF failed, v
  <2> QED BY <2>1, <2>2
<1> HIDE DEF v
<1>3. /\ s \in 1..Len(t) /\ Len(t) \in Nat /\ ~AnswersDiffer(t, s)
  BY <1>1, SpanIn, LenProperties
<1>4. SameBatchRun(t2) = s2 /\ RepeatSpan(t2) = s2
  BY <1>1, RunGrows
<1>5. /\ Len(t2) = IF Len(t) + 1 <= ScanDepth THEN Len(t) + 1 ELSE ScanDepth
      /\ Len(t) <= ScanDepth
      /\ Back(t2, 0).batch = Back(t, 0).batch
      /\ \A k \in 1..(Len(t2) - 1) : Back(t2, k).obs = Back(t, k - 1).obs
  BY DEF Shifted
<1>6. /\ ScanDepth \in Int /\ ScanDepth >= 24 /\ ScanAt \in Int
      /\ StreakThreshold \in Int /\ FailAt \in Int
      /\ ScanAt <= StreakThreshold
  BY Depths, ThresholdAssumption
<1>7. Back(t, 0).obs = <<>>
  OBVIOUS
<1> HIDE DEF t, t2, s
<1>8. /\ s \in Nat /\ s >= 1 /\ s <= Len(t) /\ s2 \in Nat /\ s2 >= s /\ s2 <= s + 1
      /\ s2 <= Len(t2) /\ s2 >= 1 /\ (s2 = s + 1 \/ s2 = ScanDepth) /\ Len(t2) \in Nat
  BY <1>3, <1>5, <1>6 DEF Scanned
<1> HIDE DEF s2
<1>9. \A k \in 1..(s2 - 1) : Back(t2, k).obs # <<>> => /\ k - 1 \in 1..(s - 1)
                                                       /\ Back(t2, k).obs = Back(t, k - 1).obs
  <2> SUFFICES ASSUME NEW k \in 1..(s2 - 1), Back(t2, k).obs # <<>>
               PROVE  k - 1 \in 1..(s - 1) /\ Back(t2, k).obs = Back(t, k - 1).obs
    OBVIOUS
  <2>1. k \in 1..(Len(t2) - 1) /\ (k - 1 = 0 \/ k - 1 \in 1..(s - 1))
    BY <1>8
  <2>2. Back(t2, k).obs = Back(t, k - 1).obs
    BY <1>5, <2>1
  <2> QED BY <1>7, <2>1, <2>2
<1>10. FailedRun(t2, s2) => FailedRun(t, s)
  <2> SUFFICES ASSUME FailedRun(t2, s2) PROVE FailedRun(t, s)
    OBVIOUS
  <2>1. PICK k \in 1..(s2 - 1) : Back(t2, k).obs # <<>> /\ AllFailed(Back(t2, k).obs)
    BY DEF FailedRun
  <2>2. /\ k - 1 \in 1..(s - 1) /\ Back(t, k - 1).obs # <<>>
        /\ AllFailed(Back(t, k - 1).obs)
    BY <1>9, <2>1
  <2>3. \A j \in 1..(s - 1) : Back(t, j).obs # <<>> => Back(t, j).obs = Back(t, k - 1).obs
    BY <1>3, <2>2 DEF AnswersDiffer
  <2> QED BY <2>2, <2>3 DEF FailedRun
<1>11. s2 = s + 1 /\ FailedRun(t, s) => FailedRun(t2, s2)
  <2> SUFFICES ASSUME s2 = s + 1, FailedRun(t, s) PROVE FailedRun(t2, s2)
    OBVIOUS
  <2>1. PICK k \in 1..(s - 1) : Back(t, k).obs # <<>>
    BY DEF FailedRun
  <2>2. k + 1 \in 1..(s2 - 1) /\ k + 1 \in 1..(Len(t2) - 1) /\ k + 1 - 1 = k
    BY <1>8
  <2>3. Back(t2, k + 1).obs # <<>>
    BY <1>5, <2>1, <2>2
  <2>4. \A j \in 1..(s2 - 1) : Back(t2, j).obs # <<>> => AllFailed(Back(t2, j).obs)
    BY <1>9 DEF FailedRun
  <2> QED BY <2>2, <2>3, <2>4 DEF FailedRun
<1>12. s2 >= IF FailedRun(t2, s2) THEN FailAt ELSE StreakThreshold
  <2>1. v.failed => s >= FailAt
    BY <1>1, <1>6, <1>8
  <2>2. ~v.failed => s >= StreakThreshold
    BY <1>1, <1>6, <1>8
  <2>3. CASE FailedRun(t2, s2)
    BY <1>2, <1>6, <1>8, <1>10, <2>1, <2>3
  <2>4. CASE ~FailedRun(t2, s2) /\ ~FailedRun(t, s)
    BY <1>2, <1>6, <1>8, <2>2, <2>4
  <2>5. CASE ~FailedRun(t2, s2) /\ FailedRun(t, s)
    <3>1. s2 = ScanDepth
      BY <1>8, <1>11, <2>5
    <3> QED BY <1>6, <2>5, <3>1
  <2> QED BY <2>3, <2>4, <2>5
<1>13. s2 >= ScanAt
  BY <1>1, <1>6, <1>8
<1>14. t2 # <<>>
  BY <1>8, EmptySeq
<1>15. /\ StuckVerdict(m2, f).key = <<"repeat", {Back(t2, 0).batch}>>
       /\ StuckVerdict(m2, f).span = s2
  BY <1>1, <1>4, <1>8, <1>12, <1>13, <1>14, RepeatIsFound DEF t2
<1> QED BY <1>1, <1>5, <1>8, <1>15 DEF v, s2

\* How far the proposals alternate.
Alternates(t, s) == \A k \in 2..(s - 1) : Back(t, k).batch = Back(t, k % 2).batch
Alternations(t) == {s \in 2..Len(t) : Alternates(t, s)}

\* An oscillation is found in the alternation.
LEMMA OscillationIs ==
  ASSUME NEW t
  PROVE  OscillationVerdict(t) =
           IF /\ Len(t) >= 4 /\ Back(t, 0).batch # Back(t, 1).batch
              /\ Max(Alternations(t)) >= 4
           THEN [kind |-> "oscillation", span |-> Max(Alternations(t)),
                 key |-> OscillationKey(t), failed |-> FALSE]
           ELSE NoVerdict
BY DEF OscillationVerdict, Alternations, Alternates

\* One more proposal in turn is an alternation one longer, as far as the scan reaches.
LEMMA AlternationGrows ==
  ASSUME NEW t \in Seq(Cycle), NEW t2 \in Seq(Cycle), Len(t) >= 4,
         Shifted(t, t2, Back(t, 1).batch), Max(Alternations(t)) >= 4
  PROVE  /\ Max(Alternations(t)) \in Nat
         /\ Max(Alternations(t2)) = Scanned(Max(Alternations(t)) + 1)
         /\ Len(t2) >= 4 /\ Back(t2, 1).batch = Back(t, 0).batch
<1> DEFINE s == Max(Alternations(t))
           s2 == Scanned(s + 1)
<1>1. /\ Len(t) \in Nat /\ ScanDepth \in Nat /\ ScanDepth >= 24
      /\ Len(t2) = IF Len(t) + 1 <= ScanDepth THEN Len(t) + 1 ELSE ScanDepth
      /\ Len(t) <= ScanDepth
      /\ Back(t2, 0).batch = Back(t, 1).batch
      /\ \A k \in 1..(Len(t2) - 1) : Back(t2, k).batch = Back(t, k - 1).batch
  BY LenProperties, Depths DEF Shifted
<1>2. s \in Alternations(t) /\ \A u \in Alternations(t) : u <= s
  <2>1. 2 \in Alternations(t)
    BY <1>1 DEF Alternations, Alternates
  <2>2. Alternations(t) \in SUBSET (1..Len(t))
    BY <1>1 DEF Alternations
  <2> QED BY <1>1, <2>1, <2>2, MaxIn
<1>3. s \in 2..Len(t) /\ \A k \in 2..(s - 1) : Back(t, k).batch = Back(t, k % 2).batch
  BY <1>2 DEF Alternations, Alternates
<1>4. s >= 4
  OBVIOUS
<1> HIDE DEF s
<1>5. /\ s \in Nat /\ Len(t2) \in Nat /\ Len(t2) >= Len(t) /\ Len(t2) <= Len(t) + 1
      /\ Len(t2) <= ScanDepth
      /\ s2 \in 4..Len(t2) /\ s2 <= s + 1 /\ (s2 = s + 1 \/ s2 = ScanDepth)
  BY <1>1, <1>3, <1>4 DEF Scanned
<1> HIDE DEF s2
<1>6. Back(t2, 1).batch = Back(t, 0).batch
  <2>1. 1 \in 1..(Len(t2) - 1) /\ 1 - 1 = 0
    BY <1>5
  <2> QED BY <1>1, <2>1
<1>7. \A k \in Nat : k >= 1 =>
        \/ k % 2 = 0 /\ (k - 1) % 2 = 1
        \/ k % 2 = 1 /\ (k - 1) % 2 = 0
  OBVIOUS
<1>8. Alternates(t2, s2)
  <2> SUFFICES ASSUME NEW k \in 2..(s2 - 1) PROVE Back(t2, k).batch = Back(t2, k % 2).batch
    BY DEF Alternates
  <2>1. k \in 1..(Len(t2) - 1) /\ k \in Nat /\ k >= 1 /\ k - 1 \in Nat
    BY <1>5
  <2>2. Back(t2, k).batch = Back(t, k - 1).batch
    BY <1>1, <2>1
  <2>3. Back(t, k - 1).batch = Back(t, (k - 1) % 2).batch
    <3>1. CASE k = 2
      <4>1. k - 1 = 1 /\ 1 % 2 = 1
        BY <3>1
      <4> QED BY <4>1
    <3>2. CASE k # 2
      <4>1. k - 1 \in 2..(s - 1)
        BY <1>5, <3>2
      <4> QED BY <1>3, <4>1
    <3> QED BY <3>1, <3>2
  <2> QED BY <1>1, <1>6, <1>7, <2>1, <2>2, <2>3
<1>9. ASSUME NEW u \in Alternations(t2) PROVE u <= s2
  <2>1. u \in 2..Len(t2) /\ \A k \in 2..(u - 1) : Back(t2, k).batch = Back(t2, k % 2).batch
    BY <1>9 DEF Alternations, Alternates
  <2>2. CASE u = 2
    BY <1>5, <2>2
  <2>3. CASE u # 2
    <3>1. u - 1 \in 2..Len(t)
      BY <1>1, <1>5, <2>1, <2>3
    <3>2. ASSUME NEW k \in 2..(u - 1 - 1) PROVE Back(t, k).batch = Back(t, k % 2).batch
      <4>1. /\ k + 1 \in 2..(u - 1) /\ k + 1 \in 1..(Len(t2) - 1) /\ k + 1 - 1 = k
            /\ k + 1 \in Nat /\ k + 1 >= 1
        BY <1>5, <2>1
      <4>2. Back(t2, k + 1).batch = Back(t, k).batch
        BY <1>1, <4>1
      <4>3. Back(t2, k + 1).batch = Back(t2, (k + 1) % 2).batch
        BY <2>1, <4>1
      <4>4. \/ (k + 1) % 2 = 0 /\ k % 2 = 1
            \/ (k + 1) % 2 = 1 /\ k % 2 = 0
        BY <1>7, <4>1
      <4> QED BY <1>1, <1>6, <4>2, <4>3, <4>4
    <3>3. u - 1 \in Alternations(t)
      BY <3>1, <3>2 DEF Alternations, Alternates
    <3>4. u - 1 <= s
      BY <1>2, <3>3
    <3>5. u <= ScanDepth
      BY <1>1, <1>5, <2>1
    <3> QED BY <1>5, <2>1, <3>4, <3>5
  <2> QED BY <2>2, <2>3
<1>10. s2 \in Alternations(t2)
  BY <1>5, <1>8 DEF Alternations
<1>11. Max(Alternations(t2)) = s2
  <2>1. Alternations(t2) \subseteq Int
    BY <1>5 DEF Alternations
  <2> QED BY <1>9, <1>10, <2>1, MaxIs
<1> QED BY <1>5, <1>6, <1>11 DEF s, s2

\* An oscillation refused and continued is an oscillation again, one longer.
LEMMA OscillationGoesOn ==
  ASSUME NEW m, NEW m2, NEW f,
         ToolCycles(m, f) \in Seq(Cycle), ToolCycles(m2, f) \in Seq(Cycle),
         StuckVerdict(m, f).kind = "oscillation",
         Shifted(ToolCycles(m, f), ToolCycles(m2, f), Back(ToolCycles(m, f), 1).batch)
  PROVE  /\ StuckVerdict(m2, f).key = StuckVerdict(m, f).key
         /\ StuckVerdict(m, f).span \in Nat
         /\ StuckVerdict(m2, f).span = Scanned(StuckVerdict(m, f).span + 1)
<1> DEFINE t == ToolCycles(m, f)
           t2 == ToolCycles(m2, f)
           v == StuckVerdict(m, f)
           w == StuckVerdict(m2, f)
           s == Max(Alternations(t))
           s2 == Scanned(s + 1)
<1>1. StreakThreshold >= 2 /\ v = OscillationVerdict(t) /\ v.kind = "oscillation"
  BY VerdictKinds
<1>2. /\ Len(t) >= 4 /\ Back(t, 0).batch # Back(t, 1).batch /\ s >= 4
      /\ v.span = s /\ v.key = OscillationKey(t)
  <2> DEFINE found == [kind |-> "oscillation", span |-> s, key |-> OscillationKey(t), failed |-> FALSE]
  <2>1. v = IF Len(t) >= 4 /\ Back(t, 0).batch # Back(t, 1).batch /\ s >= 4 THEN found ELSE NoVerdict
    <3> HIDE DEF t
    <3> QED BY <1>1, OscillationIs
  <2>2. NoVerdict.kind # "oscillation"
    BY DEF NoVerdict
  <2>3. found.span = s /\ found.key = OscillationKey(t)
    OBVIOUS
  <2> HIDE DEF found, v, s
  <2> QED BY <1>1, <2>1, <2>2, <2>3
<1>3. s \in Nat /\ Max(Alternations(t2)) = s2 /\ Len(t2) >= 4 /\ Back(t2, 1).batch = Back(t, 0).batch
  <2>1. /\ t \in Seq(Cycle) /\ t2 \in Seq(Cycle) /\ Len(t) >= 4
        /\ Shifted(t, t2, Back(t, 1).batch) /\ Max(Alternations(t)) >= 4
    BY <1>2
  <2> HIDE DEF t, t2
  <2> QED BY <2>1, AlternationGrows
<1>4. Back(t2, 0).batch = Back(t, 1).batch /\ Back(t2, 0).batch # Back(t2, 1).batch
  BY <1>2, <1>3 DEF Shifted
<1>5. RepeatVerdict(t2) = NoVerdict
  <2>1. /\ t2 \in Seq(Cycle) /\ 1 \in 1..Len(t2) /\ 1 \in Nat
        /\ \A k \in 1..(1 - 1) : Back(t2, k).batch = Back(t2, 0).batch
        /\ Back(t2, 1).batch # Back(t2, 0).batch
    BY <1>3, <1>4, LenProperties
  <2> HIDE DEF t2
  <2>2. SameBatchRun(t2) = 1
    BY <2>1, RunEnds
  <2>3. ~AnswersDiffer(t2, 1)
    BY DEF AnswersDiffer
  <2>4. RepeatSpan(t2) = 1
    BY <2>1, <2>2, <2>3, SpanEnds
  <2>5. ~(1 >= ScanAt)
    BY <1>1, Depths
  <2> QED BY <2>4, <2>5 DEF RepeatVerdict
<1>6. s2 \in Nat /\ s2 >= 4
  BY <1>2, <1>3, Depths DEF Scanned
<1>7. t2 # <<>>
  <2>1. Len(t2) # 0
    BY <1>3
  <2> QED BY <2>1, EmptySeq
<1>8. w = OscillationVerdict(t2)
  <2>1. ~(StreakThreshold < 2)
    BY <1>1, ThresholdAssumption
  <2> QED BY <1>5, <1>7, <2>1 DEF StuckVerdict
<1>9. OscillationVerdict(t2) = [kind |-> "oscillation", span |-> s2,
                                key |-> OscillationKey(t2), failed |-> FALSE]
  <2>1. /\ Len(t2) >= 4 /\ Back(t2, 0).batch # Back(t2, 1).batch
        /\ Max(Alternations(t2)) >= 4 /\ Max(Alternations(t2)) = s2
    BY <1>3, <1>4, <1>6
  <2> HIDE DEF t, t2, s2
  <2>2. OscillationVerdict(t2) = [kind |-> "oscillation", span |-> Max(Alternations(t2)),
                                  key |-> OscillationKey(t2), failed |-> FALSE]
    BY <2>1, OscillationIs
  <2> QED BY <2>1, <2>2
<1>10. w.span = s2 /\ w.key = OscillationKey(t2)
  <2> HIDE DEF w, s2, t2
  <2> QED BY <1>8, <1>9
<1>11. OscillationKey(t2) = OscillationKey(t)
  <2> HIDE DEF t, t2
  <2>1. {Back(t2, 0).batch, Back(t2, 1).batch} = {Back(t, 0).batch, Back(t, 1).batch}
    BY <1>3, <1>4
  <2> QED BY <2>1 DEF OscillationKey
<1> HIDE DEF v, w, s, s2
<1> QED BY <1>2, <1>3, <1>10, <1>11 DEF v, w, s2

\* A streak that goes on is the same streak.
LEMMA StreakGoesOn ==
  ASSUME TypeOK, RanInv
  PROVE  LoopKeepsItsKey
<1> DEFINE t == ToolCycles(Proposed, fence)
           again == IF Verdict.kind = "repeat" THEN Back(t, 0).batch ELSE Back(t, 1).batch
           c == [NewCycle EXCEPT !.batch = again]
           r == [NewCycle EXCEPT !.skipped = TRUE]
           m2 == Append(Refused, c)
           t2 == ToolCycles(m2, fence)
           q == Len(Proposed)
<1> SUFFICES ASSUME Proposing, Verdict # NoVerdict, StreakThreshold <= ScanDepth
             PROVE  /\ StuckVerdict(m2, fence).key = Verdict.key
                    /\ StuckVerdict(m2, fence).span = Min({Verdict.span + 1, ScanDepth})
  BY DEF LoopKeepsItsKey
<1>1. /\ Proposed \in Seq(Cycle) /\ fence \in Nat /\ Len(cycles) \in Nat /\ fence <= Len(cycles)
      /\ q = Len(cycles) + 1
      /\ \A k \in 1..Len(cycles) : Proposed[k] = cycles[k]
      /\ Proposed[Len(cycles) + 1] = NewCycle /\ NewCycle.obs = <<>>
      /\ t \in Seq(Cycle) /\ t # <<>> /\ Back(t, 0) = NewCycle
  BY ProposalIsScanned
<1>2. \/ Verdict.kind = "repeat"
      \/ Verdict.kind = "oscillation" /\ Len(t) >= 4
  <2>1. Verdict.kind = "repeat" \/ (Verdict.kind = "oscillation" /\ Verdict = OscillationVerdict(t))
    BY VerdictKinds DEF Verdict
  <2>2. OscillationVerdict(t).kind = "oscillation" => Len(t) >= 4
    BY DEF OscillationVerdict, NoVerdict
  <2> QED BY <2>1, <2>2
<1>3. cycles \in Seq(Cycle) /\ NewCycle \in Cycle /\ r \in Cycle /\ r.batch = NewCycle.batch /\ r.obs = <<>>
  <2>1. NewCycle \in Cycle
    BY BatchTypes, EmptySeq, LoopAssumption DEF TypeOK, ScratchpadOK, NewCycle, Cycle
  <2> QED BY <1>1, <2>1, ExecutedFacts DEF Cycle
<1>4. t \in Seq(Cycle) /\ \A i \in 1..Len(t) : t[i] \in Cycle /\ t[i].batch # <<>>
  <2>1. \A i \in 1..Len(t) : \E k \in Proposals(Proposed, fence) : t[i] = Proposed[k]
    BY <1>1, ToolCyclesAre
  <2>2. \A k \in Proposals(Proposed, fence) : Proposed[k].batch # <<>>
    BY DEF Proposals
  <2>3. \A i \in 1..Len(t) : t[i] \in Cycle
    BY <1>1, ElementOfSeq
  <2> QED BY <1>1, <2>1, <2>2, <2>3
<1>5. again \in Seq(Calls) /\ again # <<>>
  <2>1. Len(t) \in Nat /\ Len(t) >= 1
    BY <1>1, LenProperties, EmptySeq
  <2>2. Back(t, 0) \in Cycle /\ Back(t, 0).batch # <<>>
    <3>1. 0 + 1 \in 1..Len(t)
      BY <2>1
    <3> HIDE DEF t
    <3> QED BY <1>4, <3>1 DEF Back
  <2>3. Verdict.kind # "repeat" => Back(t, 1) \in Cycle /\ Back(t, 1).batch # <<>>
    <3>1. Verdict.kind # "repeat" => 1 + 1 \in 1..Len(t)
      BY <1>2, <2>1
    <3> HIDE DEF t
    <3> QED BY <1>4, <3>1 DEF Back
  <2> HIDE DEF t
  <2> QED BY <2>2, <2>3 DEF Cycle
<1> HIDE DEF again
<1>6. c \in Cycle /\ c.batch = again
  BY <1>3, <1>5 DEF Cycle
<1> HIDE DEF c, r
<1>7. /\ Refused \in Seq(Cycle) /\ Len(Refused) = q
      /\ \A k \in 1..Len(cycles) : Refused[k] = cycles[k]
      /\ Refused[Len(cycles) + 1] = r
  <2>1. Refused = Append(cycles, r)
    BY DEF Refused, r
  <2> QED BY <1>1, <1>3, <2>1, AppendProperties
<1>8. /\ m2 \in Seq(Cycle) /\ Len(m2) = q + 1 /\ m2[q + 1] = c
      /\ \A k \in 1..q : m2[k] = Refused[k]
  BY <1>6, <1>7, AppendProperties
<1>9. \A k \in 1..q : m2[k].batch = Proposed[k].batch /\ m2[k].obs = Proposed[k].obs
  <2> SUFFICES ASSUME NEW k \in 1..q
               PROVE  m2[k].batch = Proposed[k].batch /\ m2[k].obs = Proposed[k].obs
    OBVIOUS
  <2>1. CASE k \in 1..Len(cycles)
    BY <1>1, <1>7, <1>8, <2>1
  <2>2. CASE k = Len(cycles) + 1
    BY <1>1, <1>3, <1>7, <1>8, <2>2
  <2>3. k \in 1..Len(cycles) \/ k = Len(cycles) + 1
    <3>1. q = Len(cycles) + 1 /\ Len(cycles) \in Nat
      BY <1>1
    <3> HIDE DEF q
    <3> QED BY <3>1
  <2> QED BY <2>1, <2>2, <2>3
<1> HIDE DEF m2
<1>10. t2 \in Seq(Cycle) /\ Shifted(t, t2, again)
  <2>1. fence <= Len(Proposed) /\ m2[Len(Proposed) + 1].batch # <<>>
    BY <1>1, <1>5, <1>6, <1>8
  <2>2. /\ t2 \in Seq(Cycle)
        /\ Len(t2) = IF Len(t) + 1 <= ScanDepth THEN Len(t) + 1 ELSE ScanDepth
        /\ Len(t) <= ScanDepth
        /\ Back(t2, 0).batch = m2[Len(Proposed) + 1].batch
        /\ \A k \in 1..(Len(t2) - 1) : /\ Back(t2, k).batch = Back(t, k - 1).batch
                                       /\ Back(t2, k).obs = Back(t, k - 1).obs
    BY <1>1, <1>8, <1>9, <2>1, ScanGrows
  <2> HIDE DEF t, t2
  <2> QED BY <1>6, <1>8, <2>2 DEF Shifted
<1>11. /\ StuckVerdict(m2, fence).key = Verdict.key
       /\ Verdict.span \in Nat
       /\ StuckVerdict(m2, fence).span = Scanned(Verdict.span + 1)
  <2>1. CASE Verdict.kind = "repeat"
    <3>1. again = Back(t, 0).batch
      BY <2>1 DEF again
    <3> QED BY <1>1, <1>10, <2>1, <3>1, RepeatGoesOn DEF Verdict
  <2>2. CASE Verdict.kind = "oscillation"
    <3>1. again = Back(t, 1).batch
      BY <2>2 DEF again
    <3> QED BY <1>1, <1>10, <2>2, <3>1, OscillationGoesOn DEF Verdict
  <2> QED BY <1>2, <2>1, <2>2
<1>12. Min({Verdict.span + 1, ScanDepth}) = Scanned(Verdict.span + 1)
  <2>1. Verdict.span + 1 \in Int /\ ScanDepth \in Int
    BY <1>11, Depths
  <2> HIDE DEF t
  <2> QED BY <2>1, OfTwo DEF Scanned
<1> QED BY <1>11, <1>12

\* Whatever a turn went through, the guard's verdict on a proposal is the one the code's
\* loop computes, no poll whose answers differ within the scan is a repeat, and a streak
\* that goes on is found again under its own key.
THEOREM StreaksAreSound == VisitSpec => []StreakIsSound
<1>1. Init => RanInv
  BY EmptySeq DEF Init, RanInv, NoHistory
<1>2. IInv /\ RanInv /\ [VisitNext]_vars => RanInv'
  BY RanStep DEF IInv
<1>3. IInv /\ RanInv => StreakIsSound
  BY LoopAgrees, PollsAreNoRepeat, StreakGoesOn DEF IInv, StreakIsSound
<1> QED BY <1>1, <1>2, <1>3, Invariance, PTL DEF VisitSpec

-----------------------------------------------------------------------------
(* A run of one turn implements AgentTurn. *)

\* In its only turn a run has been concluded by the operator only if this is
\* why it concludes.
FirstTurn == turn = 1 /\ (concluded => h.cause = "operator_conclude")

\* Without a previous turn the operator flag is this turn's.
LEMMA FirstTurnStep ==
  ASSUME IInv, FirstTurn, [Next]_vars
  PROVE  FirstTurn'
<1> USE DEF FirstTurn, IInv, ReportInv, Working, Nodes, Ended, scratchpad, temp
<1>1. CASE ReasonOutOfBudget
  BY <1>1, TypeFacts DEF ReasonOutOfBudget, BudgetLeft
<1>2. CASE ReasonConclude
  BY <1>2, TypeFacts DEF ReasonConclude, BudgetLeft
<1>3. CASE ReasonCall
  BY <1>3, TypeFacts DEF ReasonCall, BudgetLeft, CallModel
<1>4. CASE ParseStuckStop
  BY <1>4, TypeFacts DEF ParseStuckStop, ParseProposal
<1>5. CASE ParseStuckRefuse
  BY <1>5, TypeFacts DEF ParseStuckRefuse, ParseProposal
<1>6. CASE ParseRepeatGuard
  BY <1>6, TypeFacts DEF ParseRepeatGuard, ParseProposal
<1>7. CASE ParseCalls
  BY <1>7, TypeFacts DEF ParseCalls, ParseProposal
<1>8. CASE ParseBadCall
  BY <1>8, TypeFacts DEF ParseBadCall, ParseSpeech
<1>9. CASE ParseBadCallFails
  BY <1>9, TypeFacts DEF ParseBadCallFails, ParseSpeech
<1>10. CASE ParseRetry
  BY <1>10, TypeFacts DEF ParseRetry, ParseSpeech
<1>11. CASE ParseAnswer
  BY <1>11, TypeFacts DEF ParseAnswer, ParseSpeech
<1>12. CASE ActBlocked
  BY <1>12, TypeFacts DEF ActBlocked, ActStep
<1>13. CASE ActAskUser
  BY <1>13, TypeFacts DEF ActAskUser, ActStep
<1>14. CASE ActBuiltin
  BY <1>14, TypeFacts DEF ActBuiltin, ActStep
<1>15. CASE ActBatch
  BY <1>15, TypeFacts DEF ActBatch, ActStep
<1>16. CASE Observe
  BY <1>16, TypeFacts DEF Observe
<1>17. CASE UserReplies
  BY <1>17, TypeFacts DEF UserReplies
<1>18. CASE HandleUserResponse
  BY <1>18, TypeFacts DEF HandleUserResponse
<1>19. CASE MaybeReview
  BY <1>19, TypeFacts DEF MaybeReview
<1>20. CASE Review
  BY <1>20, TypeFacts DEF Review
<1>21. CASE ReviewParseAbsorbed
  BY <1>21, TypeFacts DEF ReviewParseAbsorbed, ReviewParseStep
<1>22. CASE ReviewParseAccept
  BY <1>22, TypeFacts DEF ReviewParseAccept, ReviewParseStep
<1>23. CASE ReviewParseCalls
  BY <1>23, TypeFacts DEF ReviewParseCalls, ReviewParseStep
<1>24. CASE ReviewParsePrompt
  BY <1>24, TypeFacts DEF ReviewParsePrompt, ReviewParseStep
<1>25. CASE Done
  BY <1>25, TypeFacts DEF Done, EndNode
<1>26. CASE ConcludeCall
  BY <1>26, TypeFacts DEF ConcludeCall, CallModel
<1>27. CASE ConcludeRetry
  BY <1>27, TypeFacts DEF ConcludeRetry, ConcludeStep
<1>28. CASE ConcludeFinish
  BY <1>28, TypeFacts DEF ConcludeFinish, ConcludeStep, EndNode
<1>30. CASE \E kind \in {"guidance", "conclude"} : Send(kind)
  BY <1>30, TypeFacts DEF Send
<1>31. CASE UNCHANGED vars
  BY <1>31, TypeFacts DEF vars
<1> QED
  BY <1>1, <1>2, <1>3, <1>4, <1>5, <1>6, <1>7, <1>8, <1>9, <1>10, <1>11, <1>12, <1>13, <1>14, <1>15, <1>16, <1>17, <1>18, <1>19, <1>20, <1>21, <1>22, <1>23, <1>24, <1>25, <1>26, <1>27, <1>28, <1>30, <1>31 DEF Next, Tick, Parse, Act, ReviewParse, Finished

\* Every step of a one-turn run is a step of AgentTurn or a stutter.
LEMMA HostStep ==
  ASSUME IInv, FirstTurn, [Next]_vars
  PROVE  [Host!Next]_(Host!vars)
<1> USE DEF FirstTurn, IInv, ReportInv, CostInv, TypeOK, ScratchpadOK, Working, Nodes, Ended, scratchpad, temp
<1>1. CASE ReasonOutOfBudget
  BY <1>1, TypeFacts, LoopAssumption DEF ReasonOutOfBudget, BudgetLeft, Phase, Host!vars, Host!Conclude, Host!Next
<1>2. CASE ReasonConclude
  BY <1>2, TypeFacts, LoopAssumption DEF ReasonConclude, BudgetLeft, Phase, Host!vars, Host!Conclude, Host!Next
<1>3. CASE ReasonCall
  BY <1>3, TypeFacts, LoopAssumption DEF ReasonCall, BudgetLeft, CallModel, Phase, Host!vars, Host!Think, Host!Next
<1>4. CASE ParseStuckStop
  BY <1>4, TypeFacts, HistoryCounts, LoopAssumption DEF ParseStuckStop, ParseProposal, Phase, Host!vars, Host!Conclude, Host!Next
<1>5. CASE ParseStuckRefuse
  BY <1>5, TypeFacts, LoopAssumption DEF ParseStuckRefuse, ParseProposal, Phase, Host!vars
<1>6. CASE ParseRepeatGuard
  BY <1>6, TypeFacts, LoopAssumption DEF ParseRepeatGuard, ParseProposal, Phase, Host!vars
<1>7. CASE ParseCalls
  BY <1>7, TypeFacts, LoopAssumption DEF ParseCalls, ParseProposal, Phase, Host!vars
<1>8. CASE ParseBadCall
  BY <1>8, TypeFacts, LoopAssumption DEF ParseBadCall, ParseSpeech, Phase, Host!vars
<1>9. CASE ParseBadCallFails
  BY <1>9, TypeFacts, LoopAssumption DEF ParseBadCallFails, ParseSpeech, Phase, Host!vars, Host!Fail, Host!Next
<1>10. CASE ParseRetry
  BY <1>10, TypeFacts, LoopAssumption DEF ParseRetry, ParseSpeech, Phase, Host!vars
<1>11. CASE ParseAnswer
  BY <1>11, TypeFacts, LoopAssumption DEF ParseAnswer, ParseSpeech, Phase, Host!vars
<1>12. CASE ActBlocked
  BY <1>12, TypeFacts, LoopAssumption DEF ActBlocked, ActStep, Phase, Host!vars
<1>13. CASE ActAskUser
  BY <1>13, TypeFacts, LoopAssumption DEF ActAskUser, ActStep, Phase, Host!vars, Host!Ask, Host!Next
<1>14. CASE ActBuiltin
  BY <1>14, TypeFacts, LoopAssumption DEF ActBuiltin, ActStep, Phase, Host!vars
<1>15. CASE ActBatch
  BY <1>15, TypeFacts, LoopAssumption DEF ActBatch, ActStep, Phase, Host!vars
<1>16. CASE Observe
  BY <1>16, TypeFacts, LoopAssumption DEF Observe, Phase, Host!vars
<1>17. CASE UserReplies
  BY <1>17, TypeFacts, LoopAssumption DEF UserReplies, Phase, Host!vars, Host!Reply, Host!Next
<1>18. CASE HandleUserResponse
  BY <1>18, TypeFacts, LoopAssumption DEF HandleUserResponse, Phase, Host!vars
<1>19. CASE MaybeReview
  BY <1>19, TypeFacts, LoopAssumption DEF MaybeReview, Phase, Host!vars
<1>20. CASE Review
  BY <1>20, TypeFacts, LoopAssumption DEF Review, Phase, Host!vars
<1>21. CASE ReviewParseAbsorbed
  BY <1>21, TypeFacts, LoopAssumption DEF ReviewParseAbsorbed, ReviewParseStep, Phase, Host!vars
<1>22. CASE ReviewParseAccept
  BY <1>22, TypeFacts, LoopAssumption DEF ReviewParseAccept, ReviewParseStep, Phase, Host!vars
<1>23. CASE ReviewParseCalls
  BY <1>23, TypeFacts, LoopAssumption DEF ReviewParseCalls, ReviewParseStep, Phase, Host!vars
<1>24. CASE ReviewParsePrompt
  BY <1>24, TypeFacts, LoopAssumption DEF ReviewParsePrompt, ReviewParseStep, Phase, Host!vars
<1>25. CASE Done
  BY <1>25, TypeFacts, HistoryCounts, LoopAssumption DEF Done, EndNode, Phase, Host!vars, Host!Answer, Host!Next
<1>26. CASE ConcludeCall
  BY <1>26, TypeFacts, LoopAssumption DEF ConcludeCall, CallModel, Phase, Host!vars, Host!Fail, Host!Next
<1>27. CASE ConcludeRetry
  BY <1>27, TypeFacts, LoopAssumption DEF ConcludeRetry, ConcludeStep, Phase, Host!vars
<1>28. CASE ConcludeFinish
  <2>1. StopCode = h.cause
    BY <1>28 DEF ConcludeFinish, ConcludeStep, StopCode
  <2>2. out'.code = h.cause
    BY <1>28, <2>1 DEF ConcludeFinish
  <2> QED BY <1>28, <2>2 DEF ConcludeFinish, ConcludeStep, EndNode, Phase, Host!Report, Host!Next
<1>30. CASE \E kind \in {"guidance", "conclude"} : Send(kind)
  BY <1>30 DEF Send, Phase, Host!vars
<1>31. CASE UNCHANGED vars
  BY <1>31 DEF vars, Phase, Host!vars
<1> QED
  BY <1>1, <1>2, <1>3, <1>4, <1>5, <1>6, <1>7, <1>8, <1>9, <1>10, <1>11, <1>12, <1>13, <1>14, <1>15, <1>16, <1>17, <1>18, <1>19, <1>20, <1>21, <1>22, <1>23, <1>24, <1>25, <1>26, <1>27, <1>28, <1>30, <1>31 DEF Next, Tick, Parse, Act, ReviewParse, Finished

\* A run of one turn keeps the promise of AgentTurn.
THEOREM Refinement == Spec => KeepsItsPromise
<1>1. Init => Host!Init /\ FirstTurn
  BY DEF Init, Host!Init, Phase, NoHistory, NoOut, FirstTurn
<1>2. FirstTurn /\ IInv /\ [Next]_vars => FirstTurn' /\ [Host!Next]_(Host!vars)
  BY FirstTurnStep, HostStep
<1> QED BY <1>1, <1>2, TurnOfVisit, Invariance, PTL DEF Spec, KeepsItsPromise, Host!Spec

-----------------------------------------------------------------------------
(* What rides along: the words the model wrote next to a batch are read next to *)
(* the calls of that batch and no others                                    *)

\* What is carried adds to the loop and does not steer it.
LEMMA LoopOfCarry == CarrySpec => VisitSpec
<1>1. CarryInit => Init
  BY DEF CarryInit
<1>2. [CarryNext]_carryVars => [VisitNext]_vars
  <2>1. CarryTick => Tick
    BY DEF CarryTick, Elsewhere, Tick, Parse, ReviewParse
  <2> QED BY <2>1 DEF CarryNext, carryVars, VisitNext, Next
<1> QED BY <1>1, <1>2, PTL DEF CarrySpec, VisitSpec

(* The invariant: while calls of the last batch may be left, the binding is *)
(* that of its words, or there is none and it came with no words.            *)

\* No update is staged and none is bound.
Silent == explained = 0 /\ binding = NoBinding

\* The update staged and bound is that of the latest cycle, for its own calls.
Explained ==
  /\ Len(cycles) # 0 /\ explained = Len(cycles) /\ authored = Len(cycles)
  /\ conversing /\ ids = "apart"
  /\ binding.update = Len(cycles) /\ binding.cycle = Len(cycles)
  /\ Range(queue) \subseteq binding.calls

\* While a batch is worked off, one or the other.
WordsInv == node \in Acting => Silent \/ Explained

\* What is left of a queue holds nothing that was not in it.
LEMMA QueueShrinks ==
  ASSUME TypeOK, Handoffs, Act
  PROVE  Range(queue') \subseteq Range(queue)
<1>1. queue \in Seq(Calls) /\ Len(queue) \in Nat
  BY LenProperties DEF TypeOK, TempOK
<1>2. CASE queue' = Tail(queue) /\ queue # <<>>
  BY <1>1, <1>2 DEF Range
<1>3. CASE ActBatch
  <2>1. PrefixLength \in 0..Len(queue)
    BY <1>1, PrefixLengthBound
  <2>2. queue' = SubSeq(queue, PrefixLength + 1, Len(queue))
    BY <1>3 DEF ActBatch
  <2> QED BY <1>1, <2>1, <2>2 DEF Range
<1>4. queue # <<>>
  BY DEF Handoffs, Act, ActStep, ActBlocked, ActAskUser, ActBuiltin, ActBatch
<1> QED BY <1>2, <1>3, <1>4 DEF Act, ActBlocked, ActAskUser, ActBuiltin

\* A step that takes calls from the queue and touches no words keeps the invariant.
LEMMA StillBound ==
  ASSUME Silent \/ Explained, words' = words, Len(cycles') = Len(cycles),
         Range(queue') \subseteq Range(queue)
  PROVE  Silent' \/ Explained'
BY DEF Silent, Explained, words

\* Every step of the loop keeps the words with their calls.
LEMMA WordsStep ==
  ASSUME IInv, WordsInv, [CarryNext]_carryVars
  PROVE  WordsInv'
<1> USE DEF WordsInv, Acting
<1>1. TypeOK /\ Handoffs /\ Len(cycles) \in Nat
  BY LenProperties DEF IInv, TypeOK, ScratchpadOK
<1>2. CASE Elsewhere /\ UNCHANGED <<media, words>>
  <2>1. CASE Act
    <3>1. node = "act" /\ cycles' = cycles
      BY <2>1 DEF Act, ActStep, ActBlocked, ActAskUser, ActBuiltin, ActBatch, scratchpad
    <3> QED BY <1>1, <1>2, <2>1, <3>1, QueueShrinks, StillBound
  <2>2. CASE HandleUserResponse
    <3>1. node = "handle_user_response" /\ cycles' = cycles /\ queue' = queue
      BY <2>2 DEF HandleUserResponse
    <3> QED BY <1>2, <3>1, StillBound
  <2>3. CASE ~Act /\ ~HandleUserResponse
    BY <1>2, <2>3 DEF Elsewhere, ReasonOutOfBudget, ReasonConclude, MaybeReview, Review,
       ReviewParseAbsorbed, ReviewParseAccept, ReviewParsePrompt, Done, EndNode
  <2> QED BY <2>1, <2>2, <2>3
<1>3. CASE ReasonCall \/ ConcludeCall
  BY <1>3 DEF ReasonCall, ConcludeCall, CallModel
<1>4. CASE ParseBadCall \/ ParseRetry \/ ParseStuckStop \/ ParseStuckRefuse \/ ParseRepeatGuard
           \/ ParseBadCallFails \/ ParseAnswer
  BY <1>4 DEF ParseBadCall, ParseRetry, ParseStuckStop, ParseStuckRefuse, ParseRepeatGuard,
     ParseBadCallFails, ParseAnswer
<1>5. CASE ParseCalls /\ ReadCalls
  <2>1. cycles' = Append(cycles, NewCycle) /\ queue' = reply.batch
    BY <1>5 DEF ParseCalls, ParseProposal, Proposed
  <2>2. Len(cycles') = Len(cycles) + 1
    BY <1>1, <2>1, CycleTypes, LenProperties DEF TypeOK, ScratchpadOK
  <2>3. PICK w \in BOOLEAN, numbering \in {"apart", "shared"} :
          /\ Read(w)
          /\ ids' = numbering
          /\ binding' = IF w /\ numbering = "apart"
                        THEN [update |-> Len(cycles) + 1, cycle |-> Len(cycles) + 1,
                              calls |-> Range(reply.batch)]
                        ELSE NoBinding
          /\ explained' = IF w /\ numbering = "apart" THEN Len(cycles) + 1 ELSE 0
    BY <1>5 DEF ReadCalls
  <2>4. CASE w /\ numbering = "apart"
    BY <1>1, <2>1, <2>2, <2>3, <2>4 DEF Explained, Read
  <2>5. CASE ~(w /\ numbering = "apart")
    BY <2>3, <2>5 DEF Silent, NoBinding
  <2> QED BY <2>4, <2>5
<1>6. CASE Observe /\ Bound
  <2>1. /\ node = "observe" /\ queue' = queue
        /\ cycles' = [cycles EXCEPT ![CurrentCycle] = Observed(@)]
    BY <1>6 DEF Observe
  <2>2. CASE queue = <<>>
    BY <1>6, <2>2 DEF Observe
  <2>3. CASE queue # <<>>
    <3>1. words' = words
      BY <1>6, <2>3 DEF Bound, KeptBinding, words
    <3>2. Len(cycles') = Len(cycles)
      <4>1. cycles \in Seq(Cycle) /\ cycles' \in Seq(Cycle)
        BY <1>1, <1>6, ObservedTypes DEF TypeOK, ScratchpadOK
      <4>2. DOMAIN cycles' = DOMAIN cycles
        BY <2>1, <4>1
      <4> QED BY <4>1, <4>2, LenProperties
    <3> QED BY <2>1, <3>1, <3>2, StillBound
  <2> QED BY <2>2, <2>3
<1>7. CASE ReviewParseCalls /\ ForcedCalls
  BY <1>7 DEF ForcedCalls, Silent, NoBinding
<1>8. CASE ConcludeRetry \/ ConcludeFinish
  BY <1>8 DEF ConcludeRetry, ConcludeFinish, ConcludeStep, EndNode
<1>9. CASE NextTurn
  BY <1>9 DEF NextTurn
<1>10. CASE (UserReplies \/ Finished \/ \E kind \in {"guidance", "conclude"} : Send(kind))
            /\ UNCHANGED <<media, words>>
  <2>1. cycles' = cycles /\ queue' = queue /\ (node' \in Acting => node \in Acting)
    BY <1>10 DEF UserReplies, Finished, Send, vars, scratchpad, temp
  <2> QED BY <1>10, <2>1, StillBound
<1>11. CASE UNCHANGED carryVars
  <2>1. cycles' = cycles /\ queue' = queue /\ node' = node /\ words' = words
    BY <1>11 DEF carryVars, vars, scratchpad, temp
  <2> QED BY <2>1, StillBound
<1> QED
  BY <1>2, <1>3, <1>4, <1>5, <1>6, <1>7, <1>8, <1>9, <1>10, <1>11 DEF CarryNext, CarryTick

\* The words act puts next to calls are then those that came with them.
LEMMA WordsOfTheseCalls ==
  ASSUME IInv, WordsInv
  PROVE  WordsStayWithTheirCalls
<1> SUFFICES ASSUME node = "act", Head(queue) \notin Builtin
             PROVE  PublicAction = explained
  BY DEF WordsStayWithTheirCalls
<1>1. /\ queue \in Seq(Calls) /\ Len(queue) \in Nat /\ PrefixLength \in 0..Len(queue)
      /\ cycles \in Seq(Cycle) /\ Len(cycles) \in Nat
  BY PrefixLengthBound, LenProperties DEF IInv, TypeOK, TempOK, ScratchpadOK
<1>2. Range(SubSeq(queue, 1, PrefixLength)) \subseteq Range(queue)
  BY <1>1 DEF Range
<1>3. CASE Silent
  BY <1>3 DEF Silent, PublicAction
<1>4. CASE Explained
  <2>1. binding # NoBinding
    BY <1>4 DEF Explained, NoBinding
  <2> QED BY <1>2, <1>4, <2>1 DEF Explained, PublicAction
<1> QED BY <1>3, <1>4 DEF WordsInv, Acting

\* Whoever is asked to permit calls reads the words that came with them, whatever was
\* retried, refused, forced by the verifier or answered by the user in between.
THEOREM WordsAreKept == CarrySpec => []WordsStayWithTheirCalls
<1>1. CarryInit => WordsInv
  BY DEF CarryInit, Init, WordsInv, Acting
<1>2. IInv /\ WordsInv /\ [CarryNext]_carryVars => WordsInv'
  BY WordsStep
<1>3. IInv /\ WordsInv => WordsStayWithTheirCalls
  BY WordsOfTheseCalls
<1> QED BY <1>1, <1>2, <1>3, LoopOfCarry, Invariance, PTL DEF CarrySpec
-----------------------------------------------------------------------------
(* What rides along: the media references                                    *)

\* InOrder lists each member of a set of places once.
LEMMA InOrderLists ==
  ASSUME NEW n \in Nat, NEW S \in SUBSET (1..n)
  PROVE  /\ Cardinality(S) \in Nat
         /\ InOrder(S) \in [1..Cardinality(S) -> S]
         /\ \A k \in S : \E i \in 1..Cardinality(S) : InOrder(S)[i] = k
<1> DEFINE Below(k) == {j \in S : j <= k}
           rank == [k \in S |-> Cardinality(Below(k))]
           c == Cardinality(S)
<1>1. IsFiniteSet(1..n)
  BY FS_Interval
<1>2. IsFiniteSet(S)
  BY <1>1, FS_Subset
<1>3. c \in Nat
  BY <1>2, FS_CardinalityType
<1>4. ASSUME NEW k \in S
      PROVE  IsFiniteSet(Below(k)) /\ Cardinality(Below(k)) \in 1..c
  <2>1. Below(k) \subseteq S /\ Below(k) # {}
    OBVIOUS
  <2>2. IsFiniteSet(Below(k)) /\ Cardinality(Below(k)) <= c
    BY <1>2, <2>1, FS_Subset
  <2>3. Cardinality(Below(k)) \in Nat /\ Cardinality(Below(k)) # 0
    BY <2>1, <2>2, FS_CardinalityType, FS_EmptySet
  <2> QED BY <1>3, <2>2, <2>3
<1>5. ASSUME NEW j \in S, NEW k \in S, rank[j] = rank[k], j < k PROVE FALSE
  <2>1. Below(j) \subseteq Below(k) /\ k \in Below(k) /\ k \notin Below(j)
    <3>1. j < k /\ \A i \in S : i \in Int
      BY <1>5
    <3>2. \A i \in Int : i <= j => i <= k
      BY <3>1
    <3>3. k \in Int /\ j \in Int /\ ~(k <= j) /\ k <= k
      BY <3>1
    <3>4. Below(j) \subseteq Below(k)
      BY <3>1, <3>2
    <3> QED BY <3>3, <3>4
  <2> QED BY <1>4, <1>5, <2>1, FS_Subset
<1>6. rank \in Injection(S, 1..c)
  <2>1. rank \in [S -> 1..c]
    BY <1>4
  <2>2. \A j, k \in S : rank[j] = rank[k] => j = k
    <3>1. \A j, k \in S : j < k \/ k < j \/ j = k
      OBVIOUS
    <3> HIDE DEF rank
    <3> QED BY <1>5, <3>1
  <2> HIDE DEF rank
  <2> QED BY <2>1, <2>2 DEF Injection, IsInjective
<1>7. rank \in Surjection(S, 1..c)
  <2>1. IsFiniteSet(1..c) /\ Cardinality(1..c) = c
    BY <1>3, FS_Interval
  <2> HIDE DEF rank
  <2> QED BY <1>6, <2>1, FS_Injection
<1>8. \A i \in 1..c : \E k \in S : rank[k] = i
  <2> HIDE DEF rank
  <2> QED BY <1>7 DEF Surjection
<1>9. \A i \in 1..c : InOrder(S)[i] \in S /\ rank[InOrder(S)[i]] = i
  BY <1>8 DEF InOrder
<1>10. ASSUME NEW k \in S PROVE rank[k] \in 1..c /\ InOrder(S)[rank[k]] = k
  <2>1. rank[k] \in 1..c
    BY <1>4
  <2> HIDE DEF rank
  <2> QED BY <1>6, <1>9, <2>1 DEF Injection, IsInjective
<1>11. InOrder(S) \in [1..c -> S]
  <2>1. InOrder(S) = [i \in 1..c |-> InOrder(S)[i]]
    BY DEF InOrder
  <2> QED BY <1>9, <2>1
<1> HIDE DEF rank
<1> QED BY <1>2, <1>3, <1>9, <1>10, <1>11

\* The references that may be declared.
Refs == UNION {Range(new) : new \in Captures}

\* What is captured is added to what is pending, and nothing of that is lost.
LEMMA AccumulatedIs ==
  ASSUME pending \in Seq(Refs), NEW new \in Seq(Refs)
  PROVE  /\ Accumulated(new) \in Seq(Refs)
         /\ Range(Accumulated(new)) = Range(pending) \union Range(new)
<1> DEFINE S == {k \in DOMAIN pending : pending[k] \notin Range(new)}
           c == Cardinality(S)
           kept == [n \in DOMAIN InOrder(S) |-> pending[InOrder(S)[n]]]
<1>1. /\ Len(pending) \in Nat /\ Len(new) \in Nat
      /\ DOMAIN pending = 1..Len(pending) /\ DOMAIN new = 1..Len(new)
      /\ \A k \in 1..Len(pending) : pending[k] \in Refs
  BY LenProperties
<1>2. S \in SUBSET (1..Len(pending))
  BY <1>1
<1>3. /\ c \in Nat /\ InOrder(S) \in [1..c -> S]
      /\ \A k \in S : \E i \in 1..c : InOrder(S)[i] = k
  <2> HIDE DEF S
  <2> QED BY <1>1, <1>2, InOrderLists
<1>4. \A i \in 1..c : InOrder(S)[i] \in 1..Len(pending) /\ pending[InOrder(S)[i]] \notin Range(new)
  <2>1. \A i \in 1..c : InOrder(S)[i] \in S
    <3> HIDE DEF S
    <3> QED BY <1>3
  <2> QED BY <1>1, <2>1
<1>5. \A k \in 1..Len(pending) : pending[k] \notin Range(new) => k \in S
  BY <1>1
<1> HIDE DEF S
<1>6. kept \in [1..c -> Refs] /\ DOMAIN InOrder(S) = 1..c
      /\ \A i \in 1..c : kept[i] = pending[InOrder(S)[i]]
  BY <1>1, <1>3, <1>4
<1>7. Accumulated(new) = kept \o new
  BY DEF Accumulated, S
<1> HIDE DEF c, kept
<1>8. kept \in Seq(Refs) /\ Len(kept) = c
  <2>1. kept \in Seq(Refs)
    BY <1>3, <1>6, SeqDef
  <2>2. DOMAIN kept = 1..c
    BY <1>6
  <2> QED BY <1>3, <2>1, <2>2, LenProperties
<1> DEFINE w == kept \o new
<1>9. w \in Seq(Refs) /\ Len(w) = c + Len(new)
      /\ \A i \in 1..(c + Len(new)) : w[i] = IF i <= c THEN kept[i] ELSE new[i - c]
  BY <1>8, ConcatProperties
<1> HIDE DEF w
<1>10. DOMAIN w = 1..(c + Len(new))
  BY <1>9, LenProperties
<1>11. ASSUME NEW r \in Range(w) PROVE r \in Range(pending) \union Range(new)
  <2>1. PICK i \in 1..(c + Len(new)) : r = w[i]
    BY <1>10 DEF Range
  <2>2. CASE i <= c
    <3>1. i \in 1..c
      BY <1>3, <2>1, <2>2
    <3>2. r = pending[InOrder(S)[i]] /\ InOrder(S)[i] \in DOMAIN pending
      BY <1>1, <1>4, <1>6, <1>9, <2>1, <2>2, <3>1
    <3> QED BY <3>2 DEF Range
  <2>3. CASE ~(i <= c)
    <3>1. i - c \in DOMAIN new
      BY <1>1, <1>3, <2>1, <2>3
    <3>2. r = new[i - c]
      BY <1>9, <2>1, <2>3
    <3> QED BY <3>1, <3>2 DEF Range
  <2> QED BY <2>2, <2>3
<1>12. ASSUME NEW r \in Range(new) PROVE r \in Range(w)
  <2>1. PICK i \in 1..Len(new) : r = new[i]
    BY <1>1 DEF Range
  <2>2. c + i \in 1..(c + Len(new)) /\ ~(c + i <= c) /\ (c + i) - c = i
    BY <1>1, <1>3, <2>1
  <2>3. w[c + i] = r
    BY <1>9, <2>1, <2>2
  <2> QED BY <1>10, <2>2, <2>3 DEF Range
<1>13. ASSUME NEW r \in Range(pending), r \notin Range(new) PROVE r \in Range(w)
  <2>1. PICK k \in 1..Len(pending) : r = pending[k]
    BY <1>1 DEF Range
  <2>2. PICK i \in 1..c : InOrder(S)[i] = k
    BY <1>3, <1>5, <1>13, <2>1
  <2>3. i \in 1..(c + Len(new)) /\ i <= c
    BY <1>1, <1>3, <2>2
  <2>4. w[i] = r
    BY <1>6, <1>9, <2>1, <2>2, <2>3
  <2> QED BY <1>10, <2>3, <2>4 DEF Range
<1>14. Range(w) = Range(pending) \union Range(new)
  BY <1>11, <1>12, <1>13
<1> QED BY <1>7, <1>9, <1>14 DEF w

\* The cap keeps the tail.
LEMMA TrimmedIs ==
  ASSUME NEW refs \in Seq(Refs)
  PROVE  /\ Trimmed(refs) \in Seq(Refs) /\ Len(Trimmed(refs)) <= PendingMax
         /\ Range(Trimmed(refs)) \subseteq Range(refs)
<1>1. Len(refs) \in Nat /\ PendingMax \in Nat \ {0} /\ DOMAIN refs = 1..Len(refs)
      /\ \A i \in 1..Len(refs) : refs[i] \in Refs
  BY LenProperties, CarryAssumption
<1> DEFINE S == {1, Len(refs) - PendingMax + 1}
           m == Max(S)
           t == SubSeq(refs, m, Len(refs))
<1>2. m \in S /\ m >= 1 /\ m >= Len(refs) - PendingMax + 1 /\ m \in Nat
  <2>1. CASE 1 >= Len(refs) - PendingMax + 1
    <3>1. PICK k \in S : k = 1
      OBVIOUS
    <3>2. S \subseteq Int /\ \A y \in S : y <= k
      BY <1>1, <2>1, <3>1
    <3>3. Max(S) = k
      <4> HIDE DEF S
      <4> QED BY <3>2, MaxIs
    <3> QED BY <2>1, <3>1, <3>3
  <2>2. CASE ~(1 >= Len(refs) - PendingMax + 1)
    <3>1. PICK k \in S : k = Len(refs) - PendingMax + 1
      OBVIOUS
    <3>2. S \subseteq Int /\ \A y \in S : y <= k
      BY <1>1, <2>2, <3>1
    <3>3. Max(S) = k
      <4> HIDE DEF S
      <4> QED BY <3>2, MaxIs
    <3> QED BY <1>1, <2>2, <3>1, <3>3
  <2> QED BY <2>1, <2>2
<1> HIDE DEF m
<1>3. \A i \in m..Len(refs) : refs[i] \in Refs
  BY <1>1, <1>2
<1>4. /\ t \in Seq(Refs)
      /\ Len(t) = IF m <= Len(refs) THEN Len(refs) - m + 1 ELSE 0
      /\ \A i \in 1..(Len(refs) - m + 1) : t[i] = refs[m + i - 1]
  BY <1>1, <1>2, <1>3, SubSeqProperties
<1> HIDE DEF t
<1>5. Len(t) <= PendingMax
  BY <1>1, <1>2, <1>4
<1>6. ASSUME NEW r \in Range(t) PROVE r \in Range(refs)
  <2>1. PICK i \in 1..Len(t) : r = t[i]
    BY <1>4, LenProperties DEF Range
  <2>2. m <= Len(refs) /\ i \in 1..(Len(refs) - m + 1) /\ m + i - 1 \in 1..Len(refs)
    BY <1>1, <1>2, <1>4, <2>1
  <2> QED BY <1>1, <1>4, <2>1, <2>2 DEF Range
<1> QED BY <1>4, <1>5, <1>6 DEF Trimmed, m, t

\* What is owed is pending or rides with the call under way.  A call takes all that is
\* pending, and what rode with it is back in line before anything is captured.
MediaInv ==
  /\ pending \in Seq(Refs) /\ Len(pending) <= PendingMax
  /\ stash \in Seq(Refs) /\ Len(stash) <= PendingMax
  /\ MediaIsSeenOnce
  /\ stash # <<>> => pending = <<>>
  /\ node \notin {"parse", "max_iterations", "failed"} => stash = <<>>
  /\ node = "max_iterations" /\ reply = NoReply => stash = <<>>

\* Nothing is in an empty list.
LEMMA NothingInRange == Range(<<>>) = {} /\ <<>> \in Seq(Refs) /\ Len(<<>>) = 0
BY EmptySeq DEF Range

\* A tick that touches no reference keeps them, where no call is under way.
LEMMA MediaStays ==
  ASSUME MediaInv, media' = media, node \notin {"parse", "max_iterations", "failed"}
  PROVE  MediaInv'
BY DEF MediaInv, MediaIsSeenOnce, media

\* A call takes what is pending with it, a retry hands it back, a reply that is read
\* uses it up, and what is captured is owed, but for what the cap drops.
LEMMA MediaStep ==
  ASSUME IInv, MediaInv, [CarryNext]_carryVars
  PROVE  MediaInv'
<1>1. /\ pending \in Seq(Refs) /\ Len(pending) <= PendingMax
      /\ stash \in Seq(Refs) /\ Len(stash) <= PendingMax
      /\ Range(pending) \union Range(stash) = owed
      /\ stash # <<>> => pending = <<>>
      /\ node \notin {"parse", "max_iterations", "failed"} => stash = <<>>
      /\ node = "max_iterations" /\ reply = NoReply => stash = <<>>
  BY DEF MediaInv, MediaIsSeenOnce
<1>2. ASSUME /\ pending' \in Seq(Refs) /\ Len(pending') <= PendingMax
             /\ stash' = <<>> /\ Range(pending') = owed'
      PROVE  MediaInv'
  BY <1>2, NothingInRange, CarryAssumption DEF MediaInv, MediaIsSeenOnce
<1>3. CASE Elsewhere /\ UNCHANGED <<media, words>>
  <2>1. node \notin {"parse", "max_iterations", "failed"}
    BY <1>3 DEF Elsewhere, ReasonOutOfBudget, ReasonConclude, Act, ActBlocked, ActAskUser,
       ActBuiltin, ActBatch, ActStep, HandleUserResponse, MaybeReview, Review,
       ReviewParseAbsorbed, ReviewParseAccept, ReviewParsePrompt, ReviewParseStep, Done
  <2> QED BY <1>3, <2>1, MediaStays
<1>4. CASE (ReasonCall \/ ConcludeCall) /\ Shown
  <2>1. stash = <<>>
    BY <1>1, <1>4 DEF ReasonCall, ConcludeCall
  <2>2. /\ node' \in {"parse", "max_iterations", "failed"}
        /\ node' = "max_iterations" => reply' # NoReply
    BY <1>4, ReplyIsThere DEF ReasonCall, ConcludeCall, CallModel
  <2>3. pending' = <<>> /\ stash' = pending /\ owed' = owed
    BY <1>4, <2>1 DEF Shown
  <2> QED BY <1>1, <2>1, <2>2, <2>3, NothingInRange, CarryAssumption
          DEF MediaInv, MediaIsSeenOnce
<1>5. CASE Retried
  <2>1. stash' = <<>> /\ owed' = owed /\ pending' = IF stash = <<>> THEN pending ELSE stash
    BY <1>5 DEF Retried, Rearmed
  <2>2. pending' \in Seq(Refs) /\ Len(pending') <= PendingMax
    BY <1>1, <2>1
  <2>3. Range(pending') = owed'
    BY <1>1, <2>1, NothingInRange
  <2> QED BY <1>2, <2>1, <2>2, <2>3
<1>6. CASE Used
  <2>1. stash' = <<>> /\ owed' = owed \ Range(stash) /\ pending' = pending
    BY <1>6 DEF Used
  <2>2. Range(pending') = owed'
    BY <1>1, <2>1, NothingInRange
  <2> QED BY <1>1, <1>2, <2>1, <2>2
<1>7. CASE Observe /\ Captured
  <2>1. stash = <<>> /\ owed = Range(pending)
    BY <1>1, <1>7, NothingInRange DEF Observe
  <2>2. PICK new \in IF MayCapture THEN Captures ELSE {<<>>} :
          /\ pending' = IF new = <<>> THEN pending ELSE Trimmed(Accumulated(new))
          /\ owed' = (owed \union Range(new)) \ (Range(Accumulated(new)) \ Range(pending'))
          /\ stash' = stash
    BY <1>7 DEF Captured
  <2>3. new \in Seq(Refs)
    <3>1. CASE new \in Captures
      <4>1. new \in Seq(Range(new))
        BY <3>1, CarryAssumption
      <4>2. Range(new) \subseteq Refs
        BY <3>1 DEF Refs
      <4> HIDE DEF Refs
      <4> QED BY <4>1, <4>2
    <3>2. CASE new = <<>>
      BY <3>2, NothingInRange
    <3> QED BY <2>2, <3>1, <3>2
  <2>4. /\ Accumulated(new) \in Seq(Refs)
        /\ Range(Accumulated(new)) = Range(pending) \union Range(new)
    BY <1>1, <2>3, AccumulatedIs
  <2>5. /\ pending' \in Seq(Refs) /\ Len(pending') <= PendingMax
        /\ Range(pending') \subseteq Range(pending) \union Range(new)
    <3>1. CASE new = <<>>
      BY <1>1, <2>2, <3>1
    <3>2. CASE new # <<>>
      <4>1. pending' = Trimmed(Accumulated(new))
        BY <2>2, <3>2
      <4> QED BY <2>4, <4>1, TrimmedIs
    <3> QED BY <3>1, <3>2
  <2>6. Range(pending') = owed'
    BY <2>1, <2>2, <2>4, <2>5
  <2> QED BY <1>2, <2>1, <2>2, <2>5, <2>6
<1>8. CASE ReviewParseCalls /\ UNCHANGED media
  <2>1. node = "review_parse"
    BY <1>8 DEF ReviewParseCalls, ReviewParseStep
  <2> QED BY <1>8, <2>1, MediaStays
<1>9. CASE FreshCarry
  BY <1>2, <1>9, NothingInRange, CarryAssumption DEF FreshCarry
<1>10. CASE (UserReplies \/ Finished \/ \E kind \in {"guidance", "conclude"} : Send(kind))
            /\ UNCHANGED media
  <2>1. CASE UserReplies
    <3>1. node = "waiting"
      BY <2>1 DEF UserReplies
    <3> QED BY <1>10, <3>1, MediaStays
  <2>2. CASE Finished \/ \E kind \in {"guidance", "conclude"} : Send(kind)
    <3>1. node' = node /\ reply' = reply
      BY <2>2 DEF Finished, Send, vars, temp
    <3> QED BY <1>10, <3>1 DEF MediaInv, MediaIsSeenOnce, media
  <2> QED BY <1>10, <2>1, <2>2
<1>11. CASE UNCHANGED carryVars
  BY <1>11 DEF carryVars, vars, temp, media, MediaInv, MediaIsSeenOnce
<1> QED
  BY <1>3, <1>4, <1>5, <1>6, <1>7, <1>8, <1>9, <1>10, <1>11 DEF CarryNext, CarryTick

\* A captured reference goes out with the next call, again with every retry of it, and
\* not once after a reply to it was accepted, for any cap, budget and number of turns.
THEOREM MediaIsKept == CarrySpec => []MediaIsSeenOnce
<1>1. CarryInit => MediaInv
  BY NothingInRange, CarryAssumption DEF CarryInit, MediaInv, MediaIsSeenOnce
<1>2. IInv /\ MediaInv /\ [CarryNext]_carryVars => MediaInv'
  BY MediaStep
<1>3. MediaInv => MediaIsSeenOnce
  BY DEF MediaInv
<1> QED BY <1>1, <1>2, <1>3, LoopOfCarry, Invariance, PTL DEF CarrySpec

\* Every step of the loop keeps what is carried in its range.
LEMMA CarryTypeStep ==
  ASSUME IInv, MediaInv, CarryTypeOK, [CarryNext]_carryVars
  PROVE  CarryTypeOK'
<1>1. TypeOK /\ Len(cycles) \in Nat /\ cycles \in Seq(Cycle)
  BY LenProperties DEF IInv, TypeOK, ScratchpadOK
<1>2. Len(pending') <= PendingMax /\ Len(stash') <= PendingMax
  BY MediaStep DEF MediaInv
<1>3. NoBinding \in [update : Nat, cycle : Nat, calls : SUBSET Calls]
  BY DEF NoBinding
<1>4. ASSUME UNCHANGED words, Len(cycles') = Len(cycles) PROVE CarryTypeOK'
  BY <1>2, <1>4 DEF CarryTypeOK, words
<1>5. ASSUME \E w \in BOOLEAN : Read(w), cycles' \in {Proposed, Refused},
             binding' \in [update : Nat, cycle : Nat, calls : SUBSET Calls],
             ids' \in Numberings
      PROVE  CarryTypeOK'
  <2>1. Len(cycles') = Len(cycles) + 1
    BY <1>1, <1>5, CycleTypes, LenProperties DEF Proposed, Refused
  <2>2. authored' \in {0, Len(cycles')} /\ conversing' = conversing
    BY <1>5, <2>1 DEF Read
  <2> QED BY <1>2, <1>5, <2>2 DEF CarryTypeOK
<1>6. CASE (\/ ParseBadCall \/ ParseRetry \/ ParseStuckStop \/ ParseStuckRefuse
            \/ ParseRepeatGuard \/ ParseBadCallFails \/ ParseAnswer) /\ ReadNoCalls
  <2>1. cycles' \in {Proposed, Refused}
    BY <1>6 DEF ParseBadCall, ParseRetry, ParseStuckStop, ParseStuckRefuse,
       ParseRepeatGuard, ParseBadCallFails, ParseAnswer, ParseSpeech, ParseProposal
  <2> QED BY <1>3, <1>5, <1>6, <2>1 DEF ReadNoCalls, CarryTypeOK
<1>7. CASE ParseCalls /\ ReadCalls
  <2>1. cycles' = Proposed
    BY <1>7 DEF ParseCalls
  <2>2. PICK w \in BOOLEAN, numbering \in {"apart", "shared"} :
          /\ Read(w)
          /\ ids' = numbering
          /\ binding' = IF w /\ numbering = "apart"
                        THEN [update |-> Len(cycles) + 1, cycle |-> Len(cycles) + 1,
                              calls |-> Range(reply.batch)]
                        ELSE NoBinding
    BY <1>7 DEF ReadCalls
  <2>3. Range(reply.batch) \subseteq Calls
    <3>1. reply.batch \in Seq(Calls)
      BY <1>1, BatchTypes
    <3> QED BY <3>1 DEF Range
  <2>4. binding' \in [update : Nat, cycle : Nat, calls : SUBSET Calls]
    BY <1>1, <1>3, <2>2, <2>3
  <2> QED BY <1>5, <2>1, <2>2, <2>4 DEF Numberings
<1>8. CASE Observe /\ Bound
  <2>1. Len(cycles') = Len(cycles)
    <3>1. cycles' \in Seq(Cycle)
      BY <1>1, <1>8, ObservedTypes
    <3>2. DOMAIN cycles' = DOMAIN cycles
      BY <1>1, <1>8 DEF Observe
    <3> QED BY <1>1, <3>1, <3>2, LenProperties
  <2> QED BY <1>2, <1>3, <1>8, <2>1 DEF Bound, KeptBinding, CarryTypeOK
<1>9. CASE ReviewParseCalls /\ ForcedCalls
  <2>1. cycles' = cycles
    BY <1>9 DEF ReviewParseCalls, ReviewParseStep
  <2> QED BY <1>2, <1>3, <1>9, <2>1 DEF ForcedCalls, CarryTypeOK, Numberings
<1>10. CASE NextTurn /\ FreshCarry
  <2>1. cycles' = cycles
    BY <1>10 DEF NextTurn, FreshScratch
  <2> QED BY <1>2, <1>3, <1>10, <2>1, CarryAssumption DEF FreshCarry, CarryTypeOK
<1>11. CASE UNCHANGED words /\ (\/ Elsewhere \/ ReasonCall \/ ConcludeCall \/ ConcludeRetry
                                \/ ConcludeFinish \/ UserReplies \/ Finished
                                \/ \E kind \in {"guidance", "conclude"} : Send(kind)
                                \/ UNCHANGED vars)
  <2>1. cycles' = cycles
    BY <1>11 DEF Elsewhere, ReasonOutOfBudget, ReasonConclude, Act, ActBlocked, ActAskUser,
       ActBuiltin, ActBatch, ActStep, HandleUserResponse, MaybeReview, Review,
       ReviewParseAbsorbed, ReviewParseAccept, ReviewParsePrompt, ReviewParseStep, Done,
       ReasonCall, ConcludeCall, ConcludeRetry, ConcludeFinish, ConcludeStep, UserReplies,
       Finished, Send, vars, scratchpad
  <2> QED BY <1>4, <1>11, <2>1
<1>12. CASE UNCHANGED carryVars
  BY <1>11, <1>12 DEF carryVars
<1> QED
  BY <1>6, <1>7, <1>8, <1>9, <1>10, <1>11, <1>12 DEF CarryNext, CarryTick

\* What is carried stays in the range the code gives it; no more than the cap of
\* references is ever pending.
THEOREM CarryTypeCorrect == CarrySpec => []CarryTypeOK
<1>1. CarryInit => MediaInv /\ CarryTypeOK
  BY NothingInRange, EmptySeq, CarryAssumption
     DEF CarryInit, Init, MediaInv, MediaIsSeenOnce, CarryTypeOK, NoBinding, Numberings
<1>2. IInv /\ MediaInv /\ CarryTypeOK /\ [CarryNext]_carryVars => MediaInv' /\ CarryTypeOK'
  BY MediaStep, CarryTypeStep
<1> QED BY <1>1, <1>2, LoopOfCarry, Invariance, PTL DEF CarrySpec
=============================================================================
