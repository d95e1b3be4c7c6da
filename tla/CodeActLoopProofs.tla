--------------------------- MODULE CodeActLoopProofs ---------------------------
(***************************************************************************)
(* What a CodeAct run keeps to for every batch set, budget and mode: its     *)
(* types, the account of its batches, the bounds on empty replies and on      *)
(* verifier rounds, the hearing of objections, and the promise of AgentTurn. *)
(***************************************************************************)
EXTENDS CodeActLoop, ToolBatchProofs

\* The history variable, for whatever number of rounds and empty replies.
History == [empties : Nat, rounds : Nat, forcing : BOOLEAN, absorbed : BOOLEAN,
            unheard : BOOLEAN]

\* What the loop adds to its queue has the right types.
LoopTypes ==
  /\ node \in Nodes
  /\ iteration \in 0..MaxIterations
  /\ emptyRetries \in 0..2
  /\ reviewCount \in 0..MaxReviewRounds
  /\ reviewSkipped \in BOOLEAN /\ pendingCode \in BOOLEAN
  /\ forced \in BOOLEAN /\ objected \in BOOLEAN
  /\ reply \in ModelReply \union VerifierReply \union {NoReply}
  /\ held \in {"none", "model", "safe"}
  /\ node \in {"maybe_review", "review", "review_parse", "done"} => held # "none"

\* What the run returns has the right types.
OutTypes == out \in [code : {"none", "final_answer", "iteration_budget"},
                     answer : {"none", "model", "safe", "last words"},
                     unreviewed : BOOLEAN]

\* The history has its type.
HistoryTypes == h \in History

\* The replies a node reads are those its call may have.
Handoffs ==
  /\ node \in {"plan_parse", "parse", "review_parse"} => reply # NoReply
  /\ node = "parse" => reply \in ModelReply
  /\ node = "review_parse" => reply \in VerifierReply

\* The verifier's rounds are paid for by review_count, which only the model's own
\* batches re-arm: a batch the verifier issued is marked until it is worked off.
RoundsInv ==
  /\ h.rounds + (IF node = "review" THEN 1 ELSE 0) <= reviewCount
  /\ node \in InBatch /\ h.forcing => forced

\* The count of empty replies is that of the empty replies in a row.
EmptiesInv ==
  /\ h.empties <= 3
  /\ node \notin {"maybe_review", "review", "done", "completed"} => h.empties = emptyRetries
  /\ node \in {"maybe_review", "review"} => emptyRetries = 0
  /\ node = "maybe_review" => (held = "safe" <=> h.empties = 3)

\* An objection not heard yet waits in the inbox, for the next call or the end of the
\* budget.
UnheardInv ==
  h.unheard => /\ objected
               /\ node \in {"reason", "max_iterations", "completed"}
               /\ out.code # "final_answer"

\* What the host sees of the run fits its node.
HostInv ==
  /\ node # "completed" => out = NoOut
  /\ node \notin {"plan", "plan_parse", "reason", "failed"} => iteration > 0
  /\ node = "max_iterations" => iteration = MaxIterations
  /\ node = "completed" => out.code # "none"

\* The inductive invariant.
IInv ==
  /\ BatchInv
  /\ LoopTypes
  /\ OutTypes
  /\ HistoryTypes
  /\ Handoffs
  /\ RoundsInv
  /\ EmptiesInv
  /\ UnheardInv
  /\ HostInv

-----------------------------------------------------------------------------
(* The invariant is kept *)

\* The kinds of replies are told apart, and a reply that proposes calls has some.
LEMMA ReplyFacts ==
  /\ NoReply \notin ModelReply \union VerifierReply \union Talk({"answer"})
  /\ Talk({"answer"}) \subseteq ModelReply
  /\ \A r \in ModelReply : r.kind = "tools" => r.batch \in Seq(Calls) /\ r.batch # <<>>
  /\ \A r \in VerifierReply : r.kind = "calls" => r.batch \in Seq(Calls) /\ r.batch # <<>>
  /\ \A r \in ModelReply : r.kind \in {"tools", "empty", "fenced", "answer"}
  /\ \A r \in VerifierReply : r.kind \in {"calls", "complete", "prompt", "silent", "absorbed"}
<1>1. /\ \A b \in Batches : b \in Seq(Calls) /\ b # <<>>
      /\ \A b \in VerifierBatches : b \in Seq(Calls) /\ b # <<>>
  BY BatchAssumption, CodeActAssumption DEF Calls
<1> QED BY <1>1 DEF NoReply, ModelReply, VerifierReply, Talk

\* The counters are numbers, and a spent budget is spent exactly.
LEMMA CountFacts ==
  ASSUME IInv
  PROVE  /\ iteration \in Nat /\ reviewCount \in Nat /\ MaxReviewRounds \in Nat
         /\ emptyRetries \in 0..2 /\ h.rounds \in Nat /\ h.empties \in Nat
         /\ h \in History
         /\ ~BudgetLeft => iteration = MaxIterations
<1>1. iteration \in Nat /\ emptyRetries \in 0..2
  BY CodeActAssumption DEF IInv, LoopTypes
<1>2. reviewCount \in Nat /\ MaxReviewRounds \in Nat
  BY CodeActAssumption DEF IInv, LoopTypes
<1>3. h \in History
  BY DEF IInv, HistoryTypes
<1>4. h.rounds \in Nat /\ h.empties \in Nat
  BY <1>3 DEF History
<1>5. ~BudgetLeft => iteration = MaxIterations
  BY CodeActAssumption DEF IInv, LoopTypes, BudgetLeft
<1> QED BY <1>1, <1>2, <1>3, <1>4, <1>5

\* The queue's part: a step of the loop is one of the queue, or finds it empty.
LEMMA BatchKept ==
  ASSUME IInv, [Next]_vars
  PROVE  BatchInv'
<1> USE DEF IInv
<1>1. CASE Plan
  BY <1>1, OutsideBatch DEF Plan, CallModel, InBatch
<1>2. CASE PlanParse
  BY <1>2, OutsideBatch DEF PlanParse, InBatch
<1>3. CASE ReasonOutOfBudget
  BY <1>3, OutsideBatch DEF ReasonOutOfBudget, BudgetLeft, InBatch
<1>4. CASE Reason
  BY <1>4, OutsideBatch DEF Reason, BudgetLeft, CallModel, InBatch
<1>5. CASE ParseCalls
  <2>1. reply.batch \in Seq(Calls) /\ reply.batch # <<>>
    BY <1>5, ReplyFacts DEF ParseCalls, ParseStep, Handoffs
  <2> QED BY <1>5, <2>1, ProposeStep DEF ParseCalls, ParseStep, InBatch
<1>6. CASE ParseEmptyRetry
  BY <1>6, OutsideBatch DEF ParseEmptyRetry, ParseSpeech, ParseStep, EmptyRetryLeft,
     InBatch
<1>7. CASE ParseEmptyGiveUp
  BY <1>7, OutsideBatch DEF ParseEmptyGiveUp, ParseSpeech, ParseStep, EmptyRetryLeft,
     InBatch
<1>8. CASE ParseCode
  BY <1>8, OutsideBatch DEF ParseCode, ParseSpeech, ParseStep, RunsCode, InBatch
<1>9. CASE ParseAnswer
  BY <1>9, OutsideBatch DEF ParseAnswer, ParseSpeech, ParseStep, RunsCode, InBatch
<1>10. CASE Act
  BY <1>10, ActQueueStep DEF Act
<1>11. CASE ExecuteCode
  <2> DEFINE took == Took(Code, "ran")
  <2>1. took \in Handled /\ took.call = Code /\ took.how = "ran" /\ Code \in Calls \ Builtin
    BY BatchAssumption, CodeActAssumption DEF Took, Handled, Calls
  <2>2. /\ queue' = <<>> /\ batch' = <<Code>> /\ results' = <<took>> /\ handled' = <<>>
        /\ node' = "observe"
    BY <1>11 DEF ExecuteCode, BatchInv, CallsAccountedFor, InBatch
  <2> HIDE DEF took
  <2>3. (handled \o results)' = <<took>>
    BY <2>1, <2>2
  <2>4. BatchTypes'
    BY <2>1, <2>2, EmptySeq DEF BatchTypes
  <2>5. Accounted(batch', (handled \o results)', queue')
    BY <2>1, <2>2, <2>3 DEF Accounted
  <2> QED BY <2>1, <2>2, <2>3, <2>4, <2>5, BatchInvNext DEF InBatch
<1>12. CASE Observe
  BY <1>12, ObserveQueueStep DEF Observe, InBatch
<1>13. CASE HandleUserResponse
  BY <1>13, ResumeQueueStep DEF HandleUserResponse, InBatch
<1>14. CASE MaybeReview
  BY <1>14, OutsideBatch DEF MaybeReview, ReviewDue, InBatch
<1>15. CASE Review
  BY <1>15, OutsideBatch DEF Review, InBatch
<1>16. CASE ReviewParseAbsorbed
  BY <1>16, OutsideBatch DEF ReviewParseAbsorbed, ReviewParseStep, InBatch
<1>17. CASE ReviewParseAccept
  BY <1>17, OutsideBatch DEF ReviewParseAccept, ReviewParseStep, InBatch
<1>18. CASE ReviewParseCalls
  <2>1. reply.batch \in Seq(Calls) /\ reply.batch # <<>>
    BY <1>18, ReplyFacts DEF ReviewParseCalls, ReviewParseStep, Handoffs
  <2> QED BY <1>18, <2>1, ProposeStep DEF ReviewParseCalls, ReviewParseStep, InBatch
<1>19. CASE ReviewParseObject
  BY <1>19, OutsideBatch DEF ReviewParseObject, ReviewParseStep, AfterObjection,
     InBatch
<1>20. CASE Done
  BY <1>20, OutsideBatch DEF Done, InBatch
<1>21. CASE OutOfBudget
  BY <1>21, OutsideBatch DEF OutOfBudget, BudgetOutcome, InBatch
<1>22. CASE UserReplies /\ UNCHANGED <<loopVars, reply, h>>
  BY <1>22, UserRepliesStep
<1>23. CASE UNCHANGED vars
  BY <1>23, QueueKept DEF vars, batchVars, BatchInv, CallsAccountedFor
<1> QED
  BY <1>1, <1>2, <1>3, <1>4, <1>5, <1>6, <1>7, <1>8, <1>9, <1>10, <1>11, <1>12, <1>13,
     <1>14, <1>15, <1>16, <1>17, <1>18, <1>19, <1>20, <1>21, <1>22, <1>23 DEF Next, Tick,
     Parse, ReviewParse, Finished

\* Everything stays in its range.
LEMMA TypesKept ==
  ASSUME IInv, [Next]_vars
  PROVE  LoopTypes'
<1> USE DEF IInv, LoopTypes, Handoffs, loopVars, Nodes
<1>1. CASE Plan
  BY <1>1, ReplyFacts, CodeActAssumption DEF Plan, CallModel
<1>2. CASE PlanParse
  BY <1>2, ReplyFacts, CodeActAssumption DEF PlanParse
<1>3. CASE ReasonOutOfBudget
  BY <1>3, ReplyFacts, CodeActAssumption DEF ReasonOutOfBudget, BudgetLeft
<1>4. CASE Reason
  <2>1. iteration' \in 0..MaxIterations
    BY <1>4, CodeActAssumption DEF Reason, BudgetLeft
  <2>2. reply' \in ModelReply \union VerifierReply \union {NoReply} /\ node' \in Nodes
    BY <1>4 DEF Reason, CallModel
  <2> QED BY <1>4, <2>1, <2>2 DEF Reason, CallModel
<1>5. CASE ParseCalls
  BY <1>5, ReplyFacts, CodeActAssumption DEF ParseCalls, ParseStep, Propose,
     EmptyRetriesAfterCalls
<1>6. CASE ParseEmptyRetry
  BY <1>6, ReplyFacts, CodeActAssumption DEF ParseEmptyRetry, ParseSpeech, ParseStep,
     EmptyRetryLeft
<1>7. CASE ParseEmptyGiveUp
  BY <1>7, ReplyFacts, CodeActAssumption DEF ParseEmptyGiveUp, ParseSpeech, ParseStep,
     EmptyRetryLeft
<1>8. CASE ParseCode
  BY <1>8, ReplyFacts, CodeActAssumption DEF ParseCode, ParseSpeech, ParseStep,
     RunsCode
<1>9. CASE ParseAnswer
  BY <1>9, ReplyFacts, CodeActAssumption DEF ParseAnswer, ParseSpeech, ParseStep,
     RunsCode
<1>10. CASE Act
  BY <1>10, ReplyFacts, CodeActAssumption DEF Act, ActQueue, ActBlocked, ActAskUser,
     ActBuiltin, ActBatch
<1>11. CASE ExecuteCode
  BY <1>11, ReplyFacts, CodeActAssumption DEF ExecuteCode
<1>12. CASE Observe
  BY <1>12, ReplyFacts, CodeActAssumption DEF Observe, ObserveQueue,
     ReviewCountAfterResults
<1>13. CASE HandleUserResponse
  BY <1>13, ReplyFacts, CodeActAssumption DEF HandleUserResponse, ResumeQueue
<1>14. CASE MaybeReview
  BY <1>14, ReplyFacts, CodeActAssumption DEF MaybeReview, ReviewDue
<1>15. CASE Review
  BY <1>15, ReplyFacts, CodeActAssumption DEF Review
<1>16. CASE ReviewParseAbsorbed
  BY <1>16, ReplyFacts, CodeActAssumption DEF ReviewParseAbsorbed, ReviewParseStep
<1>17. CASE ReviewParseAccept
  BY <1>17, ReplyFacts, CodeActAssumption DEF ReviewParseAccept, ReviewParseStep
<1>18. CASE ReviewParseCalls
  BY <1>18, ReplyFacts, CodeActAssumption DEF ReviewParseCalls, ReviewParseStep,
     Propose
<1>19. CASE ReviewParseObject
  BY <1>19, ReplyFacts, CodeActAssumption DEF ReviewParseObject, ReviewParseStep,
     AfterObjection
<1>20. CASE Done
  BY <1>20, ReplyFacts, CodeActAssumption DEF Done
<1>21. CASE OutOfBudget
  BY <1>21, ReplyFacts, CodeActAssumption DEF OutOfBudget, BudgetOutcome
<1>22. CASE UserReplies /\ UNCHANGED <<loopVars, reply, h>>
  BY <1>22, ReplyFacts, CodeActAssumption DEF UserReplies
<1>23. CASE UNCHANGED vars
  BY <1>23, ReplyFacts, CodeActAssumption DEF vars
<1> QED
  BY <1>1, <1>2, <1>3, <1>4, <1>5, <1>6, <1>7, <1>8, <1>9, <1>10, <1>11, <1>12, <1>13,
     <1>14, <1>15, <1>16, <1>17, <1>18, <1>19, <1>20, <1>21, <1>22, <1>23 DEF Next, Tick,
     Parse, ReviewParse, Finished

\* So does the output.
LEMMA OutKept ==
  ASSUME IInv, [Next]_vars
  PROVE  OutTypes'
<1> USE DEF IInv, OutTypes, LoopTypes, loopVars
<1>1. CASE Plan
  BY <1>1 DEF Plan, CallModel
<1>2. CASE PlanParse
  BY <1>2 DEF PlanParse
<1>3. CASE ReasonOutOfBudget
  BY <1>3 DEF ReasonOutOfBudget, BudgetLeft
<1>4. CASE Reason
  BY <1>4 DEF Reason, BudgetLeft, CallModel
<1>5. CASE ParseCalls
  BY <1>5 DEF ParseCalls, ParseStep, Propose, EmptyRetriesAfterCalls
<1>6. CASE ParseEmptyRetry
  BY <1>6 DEF ParseEmptyRetry, ParseSpeech, ParseStep, EmptyRetryLeft
<1>7. CASE ParseEmptyGiveUp
  BY <1>7 DEF ParseEmptyGiveUp, ParseSpeech, ParseStep, EmptyRetryLeft
<1>8. CASE ParseCode
  BY <1>8 DEF ParseCode, ParseSpeech, ParseStep, RunsCode
<1>9. CASE ParseAnswer
  BY <1>9 DEF ParseAnswer, ParseSpeech, ParseStep, RunsCode
<1>10. CASE Act
  BY <1>10 DEF Act, ActQueue, ActBlocked, ActAskUser, ActBuiltin, ActBatch
<1>11. CASE ExecuteCode
  BY <1>11 DEF ExecuteCode
<1>12. CASE Observe
  BY <1>12 DEF Observe, ObserveQueue, ReviewCountAfterResults
<1>13. CASE HandleUserResponse
  BY <1>13 DEF HandleUserResponse, ResumeQueue
<1>14. CASE MaybeReview
  BY <1>14 DEF MaybeReview, ReviewDue
<1>15. CASE Review
  BY <1>15 DEF Review
<1>16. CASE ReviewParseAbsorbed
  BY <1>16 DEF ReviewParseAbsorbed, ReviewParseStep
<1>17. CASE ReviewParseAccept
  BY <1>17 DEF ReviewParseAccept, ReviewParseStep
<1>18. CASE ReviewParseCalls
  BY <1>18 DEF ReviewParseCalls, ReviewParseStep, Propose
<1>19. CASE ReviewParseObject
  BY <1>19 DEF ReviewParseObject, ReviewParseStep, AfterObjection
<1>20. CASE Done
  BY <1>20 DEF Done
<1>21. CASE OutOfBudget
  BY <1>21 DEF OutOfBudget, BudgetOutcome
<1>22. CASE UserReplies /\ UNCHANGED <<loopVars, reply, h>>
  BY <1>22 DEF UserReplies
<1>23. CASE UNCHANGED vars
  BY <1>23 DEF vars
<1> QED
  BY <1>1, <1>2, <1>3, <1>4, <1>5, <1>6, <1>7, <1>8, <1>9, <1>10, <1>11, <1>12, <1>13,
     <1>14, <1>15, <1>16, <1>17, <1>18, <1>19, <1>20, <1>21, <1>22, <1>23 DEF Next, Tick,
     Parse, ReviewParse, Finished

\* So does the history.
LEMMA HistoryKept ==
  ASSUME IInv, [Next]_vars
  PROVE  HistoryTypes'
<1> USE DEF IInv, HistoryTypes, loopVars, History
<1>1. CASE Plan
  BY <1>1, CountFacts DEF Plan, CallModel
<1>2. CASE PlanParse
  BY <1>2, CountFacts DEF PlanParse
<1>3. CASE ReasonOutOfBudget
  BY <1>3, CountFacts DEF ReasonOutOfBudget, BudgetLeft
<1>4. CASE Reason
  BY <1>4, CountFacts DEF Reason, BudgetLeft, CallModel
<1>5. CASE ParseCalls
  BY <1>5, CountFacts DEF ParseCalls, ParseStep, Propose, EmptyRetriesAfterCalls
<1>6. CASE ParseEmptyRetry
  BY <1>6, CountFacts DEF ParseEmptyRetry, ParseSpeech, ParseStep, EmptyRetryLeft
<1>7. CASE ParseEmptyGiveUp
  BY <1>7, CountFacts DEF ParseEmptyGiveUp, ParseSpeech, ParseStep, EmptyRetryLeft
<1>8. CASE ParseCode
  BY <1>8, CountFacts DEF ParseCode, ParseSpeech, ParseStep, RunsCode
<1>9. CASE ParseAnswer
  BY <1>9, CountFacts DEF ParseAnswer, ParseSpeech, ParseStep, RunsCode
<1>10. CASE Act
  BY <1>10, CountFacts DEF Act, ActQueue, ActBlocked, ActAskUser, ActBuiltin, ActBatch
<1>11. CASE ExecuteCode
  BY <1>11, CountFacts DEF ExecuteCode
<1>12. CASE Observe
  BY <1>12, CountFacts DEF Observe, ObserveQueue, ReviewCountAfterResults
<1>13. CASE HandleUserResponse
  BY <1>13, CountFacts DEF HandleUserResponse, ResumeQueue
<1>14. CASE MaybeReview
  BY <1>14, CountFacts DEF MaybeReview, ReviewDue
<1>15. CASE Review
  <2> DEFINE n == h.rounds + 1
  <2>1. n \in Nat /\ h' = [h EXCEPT !.rounds = n, !.empties = 0]
    BY <1>15, CountFacts DEF Review
  <2> HIDE DEF n
  <2> QED BY <2>1, CountFacts
<1>16. CASE ReviewParseAbsorbed
  BY <1>16, CountFacts DEF ReviewParseAbsorbed, ReviewParseStep
<1>17. CASE ReviewParseAccept
  BY <1>17, CountFacts DEF ReviewParseAccept, ReviewParseStep
<1>18. CASE ReviewParseCalls
  BY <1>18, CountFacts DEF ReviewParseCalls, ReviewParseStep, Propose
<1>19. CASE ReviewParseObject
  BY <1>19, CountFacts DEF ReviewParseObject, ReviewParseStep, AfterObjection
<1>20. CASE Done
  BY <1>20, CountFacts DEF Done
<1>21. CASE OutOfBudget
  BY <1>21, CountFacts DEF OutOfBudget, BudgetOutcome
<1>22. CASE UserReplies /\ UNCHANGED <<loopVars, reply, h>>
  BY <1>22, CountFacts DEF UserReplies
<1>23. CASE UNCHANGED vars
  BY <1>23, CountFacts DEF vars
<1> QED
  BY <1>1, <1>2, <1>3, <1>4, <1>5, <1>6, <1>7, <1>8, <1>9, <1>10, <1>11, <1>12, <1>13,
     <1>14, <1>15, <1>16, <1>17, <1>18, <1>19, <1>20, <1>21, <1>22, <1>23 DEF Next, Tick,
     Parse, ReviewParse, Finished

\* Every node that reads a reply finds one.
LEMMA HandoffsKept ==
  ASSUME IInv, [Next]_vars
  PROVE  Handoffs'
<1> USE DEF IInv, Handoffs, loopVars
<1>1. CASE Plan
  BY <1>1, ReplyFacts DEF Plan, CallModel
<1>2. CASE PlanParse
  BY <1>2, ReplyFacts DEF PlanParse
<1>3. CASE ReasonOutOfBudget
  BY <1>3, ReplyFacts DEF ReasonOutOfBudget, BudgetLeft
<1>4. CASE Reason
  BY <1>4, ReplyFacts DEF Reason, BudgetLeft, CallModel
<1>5. CASE ParseCalls
  BY <1>5, ReplyFacts DEF ParseCalls, ParseStep, Propose, EmptyRetriesAfterCalls
<1>6. CASE ParseEmptyRetry
  BY <1>6, ReplyFacts DEF ParseEmptyRetry, ParseSpeech, ParseStep, EmptyRetryLeft
<1>7. CASE ParseEmptyGiveUp
  BY <1>7, ReplyFacts DEF ParseEmptyGiveUp, ParseSpeech, ParseStep, EmptyRetryLeft
<1>8. CASE ParseCode
  BY <1>8, ReplyFacts DEF ParseCode, ParseSpeech, ParseStep, RunsCode
<1>9. CASE ParseAnswer
  BY <1>9, ReplyFacts DEF ParseAnswer, ParseSpeech, ParseStep, RunsCode
<1>10. CASE Act
  BY <1>10, ReplyFacts DEF Act, ActQueue, ActBlocked, ActAskUser, ActBuiltin, ActBatch
<1>11. CASE ExecuteCode
  BY <1>11, ReplyFacts DEF ExecuteCode
<1>12. CASE Observe
  BY <1>12, ReplyFacts DEF Observe, ObserveQueue, ReviewCountAfterResults
<1>13. CASE HandleUserResponse
  BY <1>13, ReplyFacts DEF HandleUserResponse, ResumeQueue
<1>14. CASE MaybeReview
  BY <1>14, ReplyFacts DEF MaybeReview, ReviewDue
<1>15. CASE Review
  BY <1>15, ReplyFacts DEF Review
<1>16. CASE ReviewParseAbsorbed
  BY <1>16, ReplyFacts DEF ReviewParseAbsorbed, ReviewParseStep
<1>17. CASE ReviewParseAccept
  BY <1>17, ReplyFacts DEF ReviewParseAccept, ReviewParseStep
<1>18. CASE ReviewParseCalls
  BY <1>18, ReplyFacts DEF ReviewParseCalls, ReviewParseStep, Propose
<1>19. CASE ReviewParseObject
  BY <1>19, ReplyFacts DEF ReviewParseObject, ReviewParseStep, AfterObjection
<1>20. CASE Done
  BY <1>20, ReplyFacts DEF Done
<1>21. CASE OutOfBudget
  BY <1>21, ReplyFacts DEF OutOfBudget, BudgetOutcome
<1>22. CASE UserReplies /\ UNCHANGED <<loopVars, reply, h>>
  BY <1>22, ReplyFacts DEF UserReplies
<1>23. CASE UNCHANGED vars
  BY <1>23, ReplyFacts DEF vars
<1> QED
  BY <1>1, <1>2, <1>3, <1>4, <1>5, <1>6, <1>7, <1>8, <1>9, <1>10, <1>11, <1>12, <1>13,
     <1>14, <1>15, <1>16, <1>17, <1>18, <1>19, <1>20, <1>21, <1>22, <1>23 DEF Next, Tick,
     Parse, ReviewParse, Finished

\* Only the model's own work re-arms the verifier.
LEMMA RoundsKept ==
  ASSUME IInv, [Next]_vars
  PROVE  RoundsInv'
<1> USE DEF IInv, RoundsInv, loopVars, History, InBatch
<1>1. CASE Plan
  BY <1>1, CountFacts DEF Plan, CallModel
<1>2. CASE PlanParse
  BY <1>2, CountFacts DEF PlanParse
<1>3. CASE ReasonOutOfBudget
  BY <1>3, CountFacts DEF ReasonOutOfBudget, BudgetLeft
<1>4. CASE Reason
  BY <1>4, CountFacts DEF Reason, BudgetLeft, CallModel
<1>5. CASE ParseCalls
  BY <1>5, CountFacts DEF ParseCalls, ParseStep, Propose, EmptyRetriesAfterCalls
<1>6. CASE ParseEmptyRetry
  BY <1>6, CountFacts DEF ParseEmptyRetry, ParseSpeech, ParseStep, EmptyRetryLeft
<1>7. CASE ParseEmptyGiveUp
  BY <1>7, CountFacts DEF ParseEmptyGiveUp, ParseSpeech, ParseStep, EmptyRetryLeft
<1>8. CASE ParseCode
  BY <1>8, CountFacts DEF ParseCode, ParseSpeech, ParseStep, RunsCode
<1>9. CASE ParseAnswer
  BY <1>9, CountFacts DEF ParseAnswer, ParseSpeech, ParseStep, RunsCode
<1>10. CASE Act
  BY <1>10, CountFacts DEF Act, ActQueue, ActBlocked, ActAskUser, ActBuiltin, ActBatch
<1>11. CASE ExecuteCode
  BY <1>11, CountFacts DEF ExecuteCode
<1>12. CASE Observe
  BY <1>12, CountFacts DEF Observe, ObserveQueue, ReviewCountAfterResults
<1>13. CASE HandleUserResponse
  BY <1>13, CountFacts DEF HandleUserResponse, ResumeQueue
<1>14. CASE MaybeReview
  BY <1>14, CountFacts DEF MaybeReview, ReviewDue
<1>15. CASE Review
  BY <1>15, CountFacts DEF Review
<1>16. CASE ReviewParseAbsorbed
  BY <1>16, CountFacts DEF ReviewParseAbsorbed, ReviewParseStep
<1>17. CASE ReviewParseAccept
  BY <1>17, CountFacts DEF ReviewParseAccept, ReviewParseStep
<1>18. CASE ReviewParseCalls
  BY <1>18, CountFacts DEF ReviewParseCalls, ReviewParseStep, Propose
<1>19. CASE ReviewParseObject
  BY <1>19, CountFacts DEF ReviewParseObject, ReviewParseStep, AfterObjection
<1>20. CASE Done
  BY <1>20, CountFacts DEF Done
<1>21. CASE OutOfBudget
  BY <1>21, CountFacts DEF OutOfBudget, BudgetOutcome
<1>22. CASE UserReplies /\ UNCHANGED <<loopVars, reply, h>>
  BY <1>22, CountFacts DEF UserReplies
<1>23. CASE UNCHANGED vars
  BY <1>23, CountFacts DEF vars
<1> QED
  BY <1>1, <1>2, <1>3, <1>4, <1>5, <1>6, <1>7, <1>8, <1>9, <1>10, <1>11, <1>12, <1>13,
     <1>14, <1>15, <1>16, <1>17, <1>18, <1>19, <1>20, <1>21, <1>22, <1>23 DEF Next, Tick,
     Parse, ReviewParse, Finished

\* Only empty replies in a row count.
LEMMA EmptiesKept ==
  ASSUME IInv, [Next]_vars
  PROVE  EmptiesInv'
<1> USE DEF IInv, EmptiesInv, loopVars, History
<1>1. CASE Plan
  BY <1>1, CountFacts DEF Plan, CallModel
<1>2. CASE PlanParse
  BY <1>2, CountFacts DEF PlanParse
<1>3. CASE ReasonOutOfBudget
  BY <1>3, CountFacts DEF ReasonOutOfBudget, BudgetLeft
<1>4. CASE Reason
  BY <1>4, CountFacts DEF Reason, BudgetLeft, CallModel
<1>5. CASE ParseCalls
  BY <1>5, CountFacts DEF ParseCalls, ParseStep, Propose, EmptyRetriesAfterCalls
<1>6. CASE ParseEmptyRetry
  BY <1>6, CountFacts DEF ParseEmptyRetry, ParseSpeech, ParseStep, EmptyRetryLeft
<1>7. CASE ParseEmptyGiveUp
  BY <1>7, CountFacts DEF ParseEmptyGiveUp, ParseSpeech, ParseStep, EmptyRetryLeft
<1>8. CASE ParseCode
  BY <1>8, CountFacts DEF ParseCode, ParseSpeech, ParseStep, RunsCode
<1>9. CASE ParseAnswer
  BY <1>9, CountFacts DEF ParseAnswer, ParseSpeech, ParseStep, RunsCode
<1>10. CASE Act
  BY <1>10, CountFacts DEF Act, ActQueue, ActBlocked, ActAskUser, ActBuiltin, ActBatch
<1>11. CASE ExecuteCode
  BY <1>11, CountFacts DEF ExecuteCode
<1>12. CASE Observe
  BY <1>12, CountFacts DEF Observe, ObserveQueue, ReviewCountAfterResults
<1>13. CASE HandleUserResponse
  BY <1>13, CountFacts DEF HandleUserResponse, ResumeQueue
<1>14. CASE MaybeReview
  BY <1>14, CountFacts DEF MaybeReview, ReviewDue
<1>15. CASE Review
  BY <1>15, CountFacts DEF Review
<1>16. CASE ReviewParseAbsorbed
  BY <1>16, CountFacts DEF ReviewParseAbsorbed, ReviewParseStep
<1>17. CASE ReviewParseAccept
  BY <1>17, CountFacts DEF ReviewParseAccept, ReviewParseStep
<1>18. CASE ReviewParseCalls
  BY <1>18, CountFacts DEF ReviewParseCalls, ReviewParseStep, Propose
<1>19. CASE ReviewParseObject
  BY <1>19, CountFacts DEF ReviewParseObject, ReviewParseStep, AfterObjection
<1>20. CASE Done
  BY <1>20, CountFacts DEF Done
<1>21. CASE OutOfBudget
  BY <1>21, CountFacts DEF OutOfBudget, BudgetOutcome
<1>22. CASE UserReplies /\ UNCHANGED <<loopVars, reply, h>>
  BY <1>22, CountFacts DEF UserReplies
<1>23. CASE UNCHANGED vars
  BY <1>23, CountFacts DEF vars
<1> QED
  BY <1>1, <1>2, <1>3, <1>4, <1>5, <1>6, <1>7, <1>8, <1>9, <1>10, <1>11, <1>12, <1>13,
     <1>14, <1>15, <1>16, <1>17, <1>18, <1>19, <1>20, <1>21, <1>22, <1>23 DEF Next, Tick,
     Parse, ReviewParse, Finished

\* An objection waits to be heard.
LEMMA UnheardKept ==
  ASSUME IInv, [Next]_vars
  PROVE  UnheardInv'
<1> USE DEF IInv, UnheardInv, HostInv, NoOut, loopVars, History
<1>1. CASE Plan
  BY <1>1, CountFacts DEF Plan, CallModel
<1>2. CASE PlanParse
  BY <1>2, CountFacts DEF PlanParse
<1>3. CASE ReasonOutOfBudget
  BY <1>3, CountFacts DEF ReasonOutOfBudget, BudgetLeft
<1>4. CASE Reason
  BY <1>4, CountFacts DEF Reason, BudgetLeft, CallModel
<1>5. CASE ParseCalls
  BY <1>5, CountFacts DEF ParseCalls, ParseStep, Propose, EmptyRetriesAfterCalls
<1>6. CASE ParseEmptyRetry
  BY <1>6, CountFacts DEF ParseEmptyRetry, ParseSpeech, ParseStep, EmptyRetryLeft
<1>7. CASE ParseEmptyGiveUp
  BY <1>7, CountFacts DEF ParseEmptyGiveUp, ParseSpeech, ParseStep, EmptyRetryLeft
<1>8. CASE ParseCode
  BY <1>8, CountFacts DEF ParseCode, ParseSpeech, ParseStep, RunsCode
<1>9. CASE ParseAnswer
  BY <1>9, CountFacts DEF ParseAnswer, ParseSpeech, ParseStep, RunsCode
<1>10. CASE Act
  BY <1>10, CountFacts DEF Act, ActQueue, ActBlocked, ActAskUser, ActBuiltin, ActBatch
<1>11. CASE ExecuteCode
  BY <1>11, CountFacts DEF ExecuteCode
<1>12. CASE Observe
  BY <1>12, CountFacts DEF Observe, ObserveQueue, ReviewCountAfterResults
<1>13. CASE HandleUserResponse
  BY <1>13, CountFacts DEF HandleUserResponse, ResumeQueue
<1>14. CASE MaybeReview
  BY <1>14, CountFacts DEF MaybeReview, ReviewDue
<1>15. CASE Review
  BY <1>15, CountFacts DEF Review
<1>16. CASE ReviewParseAbsorbed
  BY <1>16, CountFacts DEF ReviewParseAbsorbed, ReviewParseStep
<1>17. CASE ReviewParseAccept
  BY <1>17, CountFacts DEF ReviewParseAccept, ReviewParseStep
<1>18. CASE ReviewParseCalls
  BY <1>18, CountFacts DEF ReviewParseCalls, ReviewParseStep, Propose
<1>19. CASE ReviewParseObject
  BY <1>19, CountFacts DEF ReviewParseObject, ReviewParseStep, AfterObjection
<1>20. CASE Done
  BY <1>20, CountFacts DEF Done
<1>21. CASE OutOfBudget
  BY <1>21, CountFacts DEF OutOfBudget, BudgetOutcome
<1>22. CASE UserReplies /\ UNCHANGED <<loopVars, reply, h>>
  BY <1>22, CountFacts DEF UserReplies
<1>23. CASE UNCHANGED vars
  BY <1>23, CountFacts DEF vars
<1> QED
  BY <1>1, <1>2, <1>3, <1>4, <1>5, <1>6, <1>7, <1>8, <1>9, <1>10, <1>11, <1>12, <1>13,
     <1>14, <1>15, <1>16, <1>17, <1>18, <1>19, <1>20, <1>21, <1>22, <1>23 DEF Next, Tick,
     Parse, ReviewParse, Finished

\* The outcome is there when the run completes.
LEMMA HostKept ==
  ASSUME IInv, [Next]_vars
  PROVE  HostInv'
<1> USE DEF IInv, HostInv, LoopTypes, NoOut, loopVars
<1>1. CASE Plan
  BY <1>1, CodeActAssumption DEF Plan, CallModel
<1>2. CASE PlanParse
  BY <1>2, CodeActAssumption DEF PlanParse
<1>3. CASE ReasonOutOfBudget
  BY <1>3, CodeActAssumption DEF ReasonOutOfBudget, BudgetLeft
<1>4. CASE Reason
  BY <1>4, CodeActAssumption DEF Reason, BudgetLeft, CallModel
<1>5. CASE ParseCalls
  BY <1>5, CodeActAssumption DEF ParseCalls, ParseStep, Propose,
     EmptyRetriesAfterCalls
<1>6. CASE ParseEmptyRetry
  BY <1>6, CodeActAssumption DEF ParseEmptyRetry, ParseSpeech, ParseStep,
     EmptyRetryLeft
<1>7. CASE ParseEmptyGiveUp
  BY <1>7, CodeActAssumption DEF ParseEmptyGiveUp, ParseSpeech, ParseStep,
     EmptyRetryLeft
<1>8. CASE ParseCode
  BY <1>8, CodeActAssumption DEF ParseCode, ParseSpeech, ParseStep, RunsCode
<1>9. CASE ParseAnswer
  BY <1>9, CodeActAssumption DEF ParseAnswer, ParseSpeech, ParseStep, RunsCode
<1>10. CASE Act
  BY <1>10, CodeActAssumption DEF Act, ActQueue, ActBlocked, ActAskUser, ActBuiltin,
     ActBatch
<1>11. CASE ExecuteCode
  BY <1>11, CodeActAssumption DEF ExecuteCode
<1>12. CASE Observe
  BY <1>12, CodeActAssumption DEF Observe, ObserveQueue, ReviewCountAfterResults
<1>13. CASE HandleUserResponse
  BY <1>13, CodeActAssumption DEF HandleUserResponse, ResumeQueue
<1>14. CASE MaybeReview
  BY <1>14, CodeActAssumption DEF MaybeReview, ReviewDue
<1>15. CASE Review
  BY <1>15, CodeActAssumption DEF Review
<1>16. CASE ReviewParseAbsorbed
  BY <1>16, CodeActAssumption DEF ReviewParseAbsorbed, ReviewParseStep
<1>17. CASE ReviewParseAccept
  BY <1>17, CodeActAssumption DEF ReviewParseAccept, ReviewParseStep
<1>18. CASE ReviewParseCalls
  BY <1>18, CodeActAssumption DEF ReviewParseCalls, ReviewParseStep, Propose
<1>19. CASE ReviewParseObject
  BY <1>19, CodeActAssumption DEF ReviewParseObject, ReviewParseStep, AfterObjection
<1>20. CASE Done
  BY <1>20, CodeActAssumption DEF Done
<1>21. CASE OutOfBudget
  BY <1>21, CodeActAssumption DEF OutOfBudget, BudgetOutcome
<1>22. CASE UserReplies /\ UNCHANGED <<loopVars, reply, h>>
  BY <1>22, CodeActAssumption DEF UserReplies
<1>23. CASE UNCHANGED vars
  BY <1>23, CodeActAssumption DEF vars
<1> QED
  BY <1>1, <1>2, <1>3, <1>4, <1>5, <1>6, <1>7, <1>8, <1>9, <1>10, <1>11, <1>12, <1>13,
     <1>14, <1>15, <1>16, <1>17, <1>18, <1>19, <1>20, <1>21, <1>22, <1>23 DEF Next, Tick,
     Parse, ReviewParse, Finished

\* The strengthening all that follows rests on is inductive.
THEOREM Invariance == Spec => []IInv
<1>1. Init => IInv
  <2> SUFFICES ASSUME Init PROVE IInv
    OBVIOUS
  <2>1. BatchInv
    BY NoBatchInv DEF Init, InBatch
  <2>2. LoopTypes
    <3>1. 0 \in 0..MaxIterations /\ 0 \in 0..MaxReviewRounds
      BY CodeActAssumption
    <3>2. node \in Nodes
      BY DEF Init, Nodes
    <3>3. reply \in ModelReply \union VerifierReply \union {NoReply}
      BY DEF Init
    <3>4. /\ reviewSkipped \in BOOLEAN /\ pendingCode \in BOOLEAN
          /\ forced \in BOOLEAN /\ objected \in BOOLEAN
      BY DEF Init
    <3> QED BY <3>1, <3>2, <3>3, <3>4 DEF Init, LoopTypes
  <2>3. OutTypes /\ HistoryTypes /\ Handoffs /\ HostInv
    BY DEF Init, OutTypes, HistoryTypes, History, NoHistory, Handoffs, HostInv, NoOut
  <2>4. RoundsInv /\ EmptiesInv /\ UnheardInv
    BY DEF Init, NoHistory, RoundsInv, EmptiesInv, UnheardInv, InBatch
  <2> QED BY <2>1, <2>2, <2>3, <2>4 DEF IInv
<1>2. IInv /\ [Next]_vars => IInv'
  BY BatchKept, TypesKept, OutKept, HistoryKept, HandoffsKept, RoundsKept, EmptiesKept, UnheardKept, HostKept DEF IInv
<1> QED BY <1>1, <1>2, PTL DEF Spec

\* Every variable stays in the range the code gives it.
THEOREM TypeCorrect == Spec => []TypeOK
<1>1. IInv => TypeOK
  BY DEF IInv, LoopTypes, OutTypes, BatchInv, TypeOK
<1> QED BY <1>1, Invariance, PTL

\* Each call of a batch is handled once, in the order proposed, however the batch is
\* split, asked about and refused, and nothing runs that the allowlist withholds.
THEOREM BatchesAreAccountedFor == Spec => []CallsAccountedFor
<1>1. IInv => CallsAccountedFor
  BY DEF IInv, BatchInv
<1> QED BY <1>1, Invariance, PTL

\* Neither the verifier nor an empty reply can be had without end.
THEOREM RoundsAreBounded == Spec => []RoundsAreCounted
<1>1. IInv => RoundsAreCounted
  <2> SUFFICES ASSUME IInv PROVE RoundsAreCounted
    OBVIOUS
  <2>1. h.rounds <= reviewCount
    BY CountFacts DEF IInv, RoundsInv
  <2>2. reviewCount <= MaxReviewRounds
    BY CountFacts DEF IInv, LoopTypes
  <2>3. GivesUpOnThirdEmpty
    BY CountFacts DEF IInv, EmptiesInv, GivesUpOnThirdEmpty
  <2> QED BY <2>1, <2>2, <2>3, CountFacts DEF RoundsAreCounted, ReviewBudget
<1> QED BY <1>1, Invariance, PTL

\* No answer is final over an objection the model was not told of.
THEOREM ObjectionsAreHeard == Spec => []ObjectionIsHeard
<1>1. IInv => ObjectionIsHeard
  BY DEF IInv, UnheardInv, ObjectionIsHeard
<1> QED BY <1>1, Invariance, PTL

-----------------------------------------------------------------------------
(* A run implements AgentTurn. *)

\* Every step of a run is a step of the promise, or none.
LEMMA HostStep ==
  ASSUME IInv, [Next]_vars
  PROVE  [Host!Next]_(Host!vars)
<1> USE DEF IInv, HostInv, loopVars, NoOut, Phase, Host!vars
<1>1. CASE Plan
  BY <1>1, CountFacts, CodeActAssumption DEF Plan, CallModel, Host!Next, Host!Fail
<1>2. CASE PlanParse
  BY <1>2, CountFacts, CodeActAssumption DEF PlanParse
<1>3. CASE ReasonOutOfBudget
  BY <1>3, CountFacts DEF ReasonOutOfBudget, Host!Next, Host!Conclude
<1>4. CASE Reason
  BY <1>4, CountFacts, CodeActAssumption DEF Reason, BudgetLeft, CallModel, Host!Next,
     Host!Think
<1>5. CASE ParseCalls
  BY <1>5, CountFacts, CodeActAssumption DEF ParseCalls, ParseStep, Propose,
     EmptyRetriesAfterCalls
<1>6. CASE ParseEmptyRetry
  BY <1>6, CountFacts, CodeActAssumption DEF ParseEmptyRetry, ParseSpeech, ParseStep,
     EmptyRetryLeft
<1>7. CASE ParseEmptyGiveUp
  BY <1>7, CountFacts, CodeActAssumption DEF ParseEmptyGiveUp, ParseSpeech, ParseStep,
     EmptyRetryLeft
<1>8. CASE ParseCode
  BY <1>8, CountFacts, CodeActAssumption DEF ParseCode, ParseSpeech, ParseStep,
     RunsCode
<1>9. CASE ParseAnswer
  BY <1>9, CountFacts, CodeActAssumption DEF ParseAnswer, ParseSpeech, ParseStep,
     RunsCode
<1>10. CASE Act
  BY <1>10, CountFacts, CodeActAssumption DEF Act, ActQueue, ActBlocked, ActAskUser,
     ActBuiltin, ActBatch, Host!Next, Host!Ask
<1>11. CASE ExecuteCode
  BY <1>11, CountFacts, CodeActAssumption DEF ExecuteCode
<1>12. CASE Observe
  BY <1>12, CountFacts, CodeActAssumption DEF Observe, ObserveQueue,
     ReviewCountAfterResults
<1>13. CASE HandleUserResponse
  BY <1>13, CountFacts, CodeActAssumption DEF HandleUserResponse, ResumeQueue
<1>14. CASE MaybeReview
  BY <1>14, CountFacts, CodeActAssumption DEF MaybeReview, ReviewDue
<1>15. CASE Review
  BY <1>15, CountFacts, CodeActAssumption DEF Review
<1>16. CASE ReviewParseAbsorbed
  BY <1>16, CountFacts, CodeActAssumption DEF ReviewParseAbsorbed, ReviewParseStep
<1>17. CASE ReviewParseAccept
  BY <1>17, CountFacts, CodeActAssumption DEF ReviewParseAccept, ReviewParseStep
<1>18. CASE ReviewParseCalls
  BY <1>18, CountFacts, CodeActAssumption DEF ReviewParseCalls, ReviewParseStep,
     Propose
<1>19. CASE ReviewParseObject
  BY <1>19, CountFacts, CodeActAssumption DEF ReviewParseObject, ReviewParseStep,
     AfterObjection
<1>20. CASE Done
  BY <1>20, CountFacts, CodeActAssumption DEF Done, Host!Next, Host!Answer
<1>21. CASE OutOfBudget
  BY <1>21, CountFacts, CodeActAssumption DEF OutOfBudget, BudgetOutcome, Host!Next,
     Host!Report
<1>22. CASE UserReplies /\ UNCHANGED <<loopVars, reply, h>>
  BY <1>22, CountFacts, CodeActAssumption DEF UserReplies, Host!Next, Host!Reply
<1>23. CASE UNCHANGED vars
  BY <1>23, CountFacts, CodeActAssumption DEF vars
<1> QED
  BY <1>1, <1>2, <1>3, <1>4, <1>5, <1>6, <1>7, <1>8, <1>9, <1>10, <1>11, <1>12, <1>13,
     <1>14, <1>15, <1>16, <1>17, <1>18, <1>19, <1>20, <1>21, <1>22, <1>23 DEF Next, Tick,
     Parse, ReviewParse, Finished
\* A CodeAct run keeps the promise of AgentTurn.
THEOREM Refinement == Spec => KeepsItsPromise
<1>1. Init => Host!Init
  BY DEF Init, Host!Init, Phase, NoOut
<1>2. IInv /\ [Next]_vars => [Host!Next]_(Host!vars)
  BY HostStep
<1> QED BY <1>1, <1>2, Invariance, PTL DEF Spec, KeepsItsPromise, Host!Spec
=============================================================================
