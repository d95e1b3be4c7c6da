--------------------------- MODULE MemActLoopProofs ---------------------------
(***************************************************************************)
(* What a MemAct run keeps to for every batch set, budget and mode: its      *)
(* types, the account of its batches, when memory is asked, that the model's *)
(* answer survives its envelope, and the promise of AgentTurn.               *)
(***************************************************************************)
EXTENDS MemActLoop, ToolBatchProofs

\* What the loop adds to its queue has the right types.
LoopTypes ==
  /\ node \in Nodes
  /\ iteration \in 0..MaxIterations
  /\ sent \in 0..MaxMessages /\ inbox \in Nat /\ inbox <= sent
  /\ reply \in ModelReply \union {NoReply}
  /\ draft \in {"none", "text", "blank"}
  /\ envelope \in Envelopes \union {"none"}
  /\ answer \in {"none", "envelope", "text", "blank"}
  /\ skipped \in BOOLEAN

\* Memory knows of messages there are.
MemoryTypes ==
  /\ stimulus \in Nat \ {0}
  /\ tails \in SUBSET (1..stimulus)
  /\ appliedKey \in 0..stimulus
  /\ kgResult \in {"none", "dict", "other"}

\* The history has its type.
HistoryTypes ==
  h \in [queried : SUBSET Nat, again : BOOLEAN, said : {"none", "text", "blank"},
         failed : BOOLEAN]

\* What a node reads is what its call returned.
Handoffs ==
  /\ node = "parse" => reply \in ModelReply
  /\ node = "finalize_parse" => envelope \in Envelopes

\* Memory that was asked about the newest message holds the result or has composed it,
\* and the model does not think before it has.
MemoryInv ==
  /\ \A s \in h.queried : s <= stimulus
  /\ ~h.again
  /\ kgResult # "none" => Composer /\ node = "compose" /\ stimulus \in h.queried
  /\ stimulus \in h.queried /\ kgResult = "none" => appliedKey = stimulus \/ node = "failed"
  /\ node = "reason" /\ Composer => appliedKey = stimulus

\* The draft is the model's until the envelope is read, and the answer then.
AnswerInv ==
  /\ node \in {"finalize", "finalize_parse"} => draft = h.said
  /\ node \notin {"done", "completed"} => ~skipped
  /\ node = "finalize_parse" => h.failed = (envelope = "absorbed")
  /\ node = "done" => /\ answer = "blank" => h.said = "blank"
                      /\ skipped = h.failed
                      /\ h.failed => answer = h.said
  /\ AnswerIsKept

\* What the host sees of the run fits its node.
HostInv ==
  /\ node # "completed" => out = NoOut
  /\ node \notin {"compose", "reason", "failed"} => iteration > 0
  /\ node = "max_iterations" => iteration = MaxIterations
  /\ node = "completed" => out.code # "none"

\* The inductive invariant.
IInv ==
  /\ BatchInv
  /\ LoopTypes
  /\ MemoryTypes
  /\ HistoryTypes
  /\ Handoffs
  /\ MemoryInv
  /\ AnswerInv
  /\ HostInv

-----------------------------------------------------------------------------
(* The invariant is kept *)

\* The model's replies.
LEMMA ReplyFacts ==
  /\ NoReply \notin ModelReply
  /\ \A r \in ModelReply : r.kind = "tools" => r.batch \in Seq(Calls) /\ r.batch # <<>>
  /\ \A r \in ModelReply : r.kind \in {"tools", "text", "blank"}
<1>1. \A b \in Batches : b \in Seq(Calls) /\ b # <<>>
  BY BatchAssumption DEF Calls
<1> QED BY <1>1 DEF NoReply, ModelReply

\* What the types say of numbers and of the history.
LEMMA CountFacts ==
  ASSUME IInv
  PROVE  /\ iteration \in Nat /\ stimulus \in Nat /\ appliedKey \in Nat /\ inbox \in Nat
         /\ ~BudgetLeft => iteration = MaxIterations
         /\ h \in [queried : SUBSET Nat, again : BOOLEAN, said : {"none", "text", "blank"},
                   failed : BOOLEAN]
<1>1. iteration \in Nat /\ inbox \in Nat
  BY MemActAssumption DEF IInv, LoopTypes
<1>2. stimulus \in Nat /\ appliedKey \in Nat
  BY DEF IInv, MemoryTypes
<1>3. ~BudgetLeft => iteration = MaxIterations
  BY MemActAssumption DEF IInv, LoopTypes, BudgetLeft
<1> QED BY <1>1, <1>2, <1>3 DEF IInv, HistoryTypes

\* The queue's part: a step of the loop is one of the queue, or finds it empty.
LEMMA BatchKept ==
  ASSUME IInv, [Next]_vars
  PROVE  BatchInv'
<1> USE DEF IInv
<1>1. CASE ComposeSkip
  BY <1>1, OutsideBatch DEF ComposeSkip, ComposeStep, Composed, memory, InBatch
<1>2. CASE ComposeQuery
  BY <1>2, OutsideBatch DEF ComposeQuery, ComposeStep, Composed, NoResult, memory,
     InBatch
<1>3. CASE ComposeApply
  BY <1>3, OutsideBatch DEF ComposeApply, ComposeStep, NoResult, memory, InBatch
<1>4. CASE ReasonOutOfBudget
  BY <1>4, OutsideBatch DEF ReasonOutOfBudget, BudgetLeft, InBatch
<1>5. CASE Reason
  BY <1>5, OutsideBatch DEF Reason, BudgetLeft, InBatch
<1>6. CASE ParseCalls
  <2>1. reply.batch \in Seq(Calls) /\ reply.batch # <<>>
    BY <1>6, ReplyFacts DEF ParseCalls, Handoffs
  <2> QED BY <1>6, <2>1, ProposeStep DEF ParseCalls, InBatch
<1>7. CASE ParseDraft
  BY <1>7, OutsideBatch DEF ParseDraft, InBatch
<1>8. CASE Act
  BY <1>8, ActQueueStep DEF Act
<1>9. CASE Observe
  BY <1>9, ObserveQueueStep DEF Observe, InBatch
<1>10. CASE HandleUserResponse
  BY <1>10, ResumeQueueStep DEF HandleUserResponse, AfterResponse, InBatch
<1>11. CASE Finalize
  BY <1>11, OutsideBatch DEF Finalize, InBatch
<1>12. CASE FinalizeParse
  BY <1>12, OutsideBatch DEF FinalizeParse, Enveloped, Unpolished, InBatch
<1>13. CASE Done
  BY <1>13, OutsideBatch DEF Done, InBatch
<1>14. CASE OutOfBudget
  BY <1>14, OutsideBatch DEF OutOfBudget, BudgetOutcome, InBatch
<1>15. CASE Send
  BY <1>15, QueueKept DEF Send, batchVars, BatchInv, CallsAccountedFor
<1>16. CASE UserReplies /\ UNCHANGED <<iteration, memory, inbox, sent, reply, wrapUp, h>>
  BY <1>16, UserRepliesStep
<1>17. CASE UNCHANGED vars
  BY <1>17, QueueKept DEF vars, batchVars, BatchInv, CallsAccountedFor
<1> QED
  BY <1>1, <1>2, <1>3, <1>4, <1>5, <1>6, <1>7, <1>8, <1>9, <1>10, <1>11, <1>12, <1>13,
     <1>14, <1>15, <1>16, <1>17 DEF Next, Tick, Compose, Finished

\* Everything stays in its range.
LEMMA TypesKept ==
  ASSUME IInv, [Next]_vars
  PROVE  LoopTypes'
<1> USE DEF IInv, LoopTypes, Handoffs, Nodes, Envelopes, wrapUp
<1>1. CASE ComposeSkip
  BY <1>1, ReplyFacts, MemActAssumption DEF ComposeSkip, ComposeStep, Composed, memory
<1>2. CASE ComposeQuery
  BY <1>2, ReplyFacts, MemActAssumption DEF ComposeQuery, ComposeStep, Composed,
     NoResult, memory
<1>3. CASE ComposeApply
  BY <1>3, ReplyFacts, MemActAssumption DEF ComposeApply, ComposeStep, NoResult,
     memory
<1>4. CASE ReasonOutOfBudget
  BY <1>4, ReplyFacts, MemActAssumption DEF ReasonOutOfBudget, BudgetLeft
<1>5. CASE Reason
  BY <1>5, ReplyFacts, MemActAssumption DEF Reason, BudgetLeft
<1>6. CASE ParseCalls
  BY <1>6, ReplyFacts, MemActAssumption DEF ParseCalls, Propose
<1>7. CASE ParseDraft
  BY <1>7, ReplyFacts, MemActAssumption DEF ParseDraft
<1>8. CASE Act
  BY <1>8, ReplyFacts, MemActAssumption DEF Act, ActQueue, ActBlocked, ActAskUser,
     ActBuiltin, ActBatch
<1>9. CASE Observe
  BY <1>9, ReplyFacts, MemActAssumption DEF Observe, ObserveQueue
<1>10. CASE HandleUserResponse
  BY <1>10, ReplyFacts, MemActAssumption DEF HandleUserResponse, ResumeQueue,
     AfterResponse
<1>11. CASE Finalize
  BY <1>11, ReplyFacts, MemActAssumption DEF Finalize
<1>12. CASE FinalizeParse
  BY <1>12, ReplyFacts, MemActAssumption DEF FinalizeParse, Enveloped, Unpolished
<1>13. CASE Done
  BY <1>13, ReplyFacts, MemActAssumption DEF Done
<1>14. CASE OutOfBudget
  BY <1>14, ReplyFacts, MemActAssumption DEF OutOfBudget, BudgetOutcome
<1>15. CASE Send
  BY <1>15, ReplyFacts, MemActAssumption DEF Send
<1>16. CASE UserReplies /\ UNCHANGED <<iteration, memory, inbox, sent, reply, wrapUp, h>>
  BY <1>16, ReplyFacts, MemActAssumption DEF UserReplies
<1>17. CASE UNCHANGED vars
  BY <1>17, ReplyFacts, MemActAssumption DEF vars
<1> QED
  BY <1>1, <1>2, <1>3, <1>4, <1>5, <1>6, <1>7, <1>8, <1>9, <1>10, <1>11, <1>12, <1>13,
     <1>14, <1>15, <1>16, <1>17 DEF Next, Tick, Compose, Finished

\* So does what memory knows.
LEMMA MemoryTypesKept ==
  ASSUME IInv, [Next]_vars
  PROVE  MemoryTypes'
<1> USE DEF IInv, MemoryTypes, memory
<1>1. CASE ComposeSkip
  BY <1>1 DEF ComposeSkip, ComposeStep, Composed, memory
<1>2. CASE ComposeQuery
  BY <1>2 DEF ComposeQuery, ComposeStep, Composed, NoResult, memory
<1>3. CASE ComposeApply
  BY <1>3 DEF ComposeApply, ComposeStep, NoResult, memory
<1>4. CASE ReasonOutOfBudget
  BY <1>4 DEF ReasonOutOfBudget, BudgetLeft
<1>5. CASE Reason
  BY <1>5 DEF Reason, BudgetLeft
<1>6. CASE ParseCalls
  BY <1>6 DEF ParseCalls, Propose
<1>7. CASE ParseDraft
  BY <1>7 DEF ParseDraft
<1>8. CASE Act
  BY <1>8 DEF Act, ActQueue, ActBlocked, ActAskUser, ActBuiltin, ActBatch
<1>9. CASE Observe
  BY <1>9 DEF Observe, ObserveQueue
<1>10. CASE HandleUserResponse
  BY <1>10 DEF HandleUserResponse, ResumeQueue, AfterResponse
<1>11. CASE Finalize
  BY <1>11 DEF Finalize
<1>12. CASE FinalizeParse
  BY <1>12 DEF FinalizeParse, Enveloped, Unpolished
<1>13. CASE Done
  BY <1>13 DEF Done
<1>14. CASE OutOfBudget
  BY <1>14 DEF OutOfBudget, BudgetOutcome
<1>15. CASE Send
  BY <1>15 DEF Send
<1>16. CASE UserReplies /\ UNCHANGED <<iteration, memory, inbox, sent, reply, wrapUp, h>>
  BY <1>16 DEF UserReplies
<1>17. CASE UNCHANGED vars
  BY <1>17 DEF vars
<1> QED
  BY <1>1, <1>2, <1>3, <1>4, <1>5, <1>6, <1>7, <1>8, <1>9, <1>10, <1>11, <1>12, <1>13,
     <1>14, <1>15, <1>16, <1>17 DEF Next, Tick, Compose, Finished

\* So does the history.
LEMMA HistoryKept ==
  ASSUME IInv, [Next]_vars
  PROVE  HistoryTypes'
<1> USE DEF IInv, HistoryTypes
<1>1. CASE ComposeSkip
  BY <1>1, CountFacts DEF ComposeSkip, ComposeStep, Composed, memory
<1>2. CASE ComposeQuery
  BY <1>2, CountFacts DEF ComposeQuery, ComposeStep, Composed, NoResult, memory
<1>3. CASE ComposeApply
  BY <1>3, CountFacts DEF ComposeApply, ComposeStep, NoResult, memory
<1>4. CASE ReasonOutOfBudget
  BY <1>4, CountFacts DEF ReasonOutOfBudget, BudgetLeft
<1>5. CASE Reason
  BY <1>5, CountFacts DEF Reason, BudgetLeft
<1>6. CASE ParseCalls
  BY <1>6, CountFacts DEF ParseCalls, Propose
<1>7. CASE ParseDraft
  <2>1. reply.kind \in {"text", "blank"} /\ h' = [h EXCEPT !.said = reply.kind]
    BY <1>7, ReplyFacts DEF ParseDraft, Handoffs
  <2> QED BY <2>1, CountFacts
<1>8. CASE Act
  BY <1>8, CountFacts DEF Act, ActQueue, ActBlocked, ActAskUser, ActBuiltin, ActBatch
<1>9. CASE Observe
  BY <1>9, CountFacts DEF Observe, ObserveQueue
<1>10. CASE HandleUserResponse
  BY <1>10, CountFacts DEF HandleUserResponse, ResumeQueue, AfterResponse
<1>11. CASE Finalize
  BY <1>11, CountFacts DEF Finalize
<1>12. CASE FinalizeParse
  BY <1>12, CountFacts DEF FinalizeParse, Enveloped, Unpolished
<1>13. CASE Done
  BY <1>13, CountFacts DEF Done
<1>14. CASE OutOfBudget
  BY <1>14, CountFacts DEF OutOfBudget, BudgetOutcome
<1>15. CASE Send
  BY <1>15, CountFacts DEF Send
<1>16. CASE UserReplies /\ UNCHANGED <<iteration, memory, inbox, sent, reply, wrapUp, h>>
  BY <1>16, CountFacts DEF UserReplies
<1>17. CASE UNCHANGED vars
  BY <1>17, CountFacts DEF vars
<1> QED
  BY <1>1, <1>2, <1>3, <1>4, <1>5, <1>6, <1>7, <1>8, <1>9, <1>10, <1>11, <1>12, <1>13,
     <1>14, <1>15, <1>16, <1>17 DEF Next, Tick, Compose, Finished

\* Every node that reads a reply finds one.
LEMMA HandoffsKept ==
  ASSUME IInv, [Next]_vars
  PROVE  Handoffs'
<1> USE DEF IInv, Handoffs, wrapUp
<1>1. CASE ComposeSkip
  BY <1>1, ReplyFacts DEF ComposeSkip, ComposeStep, Composed, memory
<1>2. CASE ComposeQuery
  BY <1>2, ReplyFacts DEF ComposeQuery, ComposeStep, Composed, NoResult, memory
<1>3. CASE ComposeApply
  BY <1>3, ReplyFacts DEF ComposeApply, ComposeStep, NoResult, memory
<1>4. CASE ReasonOutOfBudget
  BY <1>4, ReplyFacts DEF ReasonOutOfBudget, BudgetLeft
<1>5. CASE Reason
  BY <1>5, ReplyFacts DEF Reason, BudgetLeft
<1>6. CASE ParseCalls
  BY <1>6, ReplyFacts DEF ParseCalls, Propose
<1>7. CASE ParseDraft
  BY <1>7, ReplyFacts DEF ParseDraft
<1>8. CASE Act
  BY <1>8, ReplyFacts DEF Act, ActQueue, ActBlocked, ActAskUser, ActBuiltin, ActBatch
<1>9. CASE Observe
  BY <1>9, ReplyFacts DEF Observe, ObserveQueue
<1>10. CASE HandleUserResponse
  BY <1>10, ReplyFacts DEF HandleUserResponse, ResumeQueue, AfterResponse
<1>11. CASE Finalize
  BY <1>11, ReplyFacts DEF Finalize
<1>12. CASE FinalizeParse
  BY <1>12, ReplyFacts DEF FinalizeParse, Enveloped, Unpolished
<1>13. CASE Done
  BY <1>13, ReplyFacts DEF Done
<1>14. CASE OutOfBudget
  BY <1>14, ReplyFacts DEF OutOfBudget, BudgetOutcome
<1>15. CASE Send
  BY <1>15, ReplyFacts DEF Send
<1>16. CASE UserReplies /\ UNCHANGED <<iteration, memory, inbox, sent, reply, wrapUp, h>>
  BY <1>16, ReplyFacts DEF UserReplies
<1>17. CASE UNCHANGED vars
  BY <1>17, ReplyFacts DEF vars
<1> QED
  BY <1>1, <1>2, <1>3, <1>4, <1>5, <1>6, <1>7, <1>8, <1>9, <1>10, <1>11, <1>12, <1>13,
     <1>14, <1>15, <1>16, <1>17 DEF Next, Tick, Compose, Finished

\* Memory is asked about each message once, before the model thinks.
LEMMA MemoryKept ==
  ASSUME IInv, [Next]_vars
  PROVE  MemoryInv'
<1> USE DEF IInv, MemoryInv, memory
<1>1. CASE ComposeSkip
  BY <1>1, CountFacts DEF ComposeSkip, ComposeStep, Composed, memory
<1>2. CASE ComposeQuery
  BY <1>2, CountFacts DEF ComposeQuery, ComposeStep, Composed, NoResult, memory
<1>3. CASE ComposeApply
  BY <1>3, CountFacts DEF ComposeApply, ComposeStep, NoResult, memory
<1>4. CASE ReasonOutOfBudget
  BY <1>4, CountFacts DEF ReasonOutOfBudget, BudgetLeft
<1>5. CASE Reason
  BY <1>5, CountFacts DEF Reason, BudgetLeft
<1>6. CASE ParseCalls
  BY <1>6, CountFacts DEF ParseCalls, Propose
<1>7. CASE ParseDraft
  BY <1>7, CountFacts DEF ParseDraft
<1>8. CASE Act
  BY <1>8, CountFacts DEF Act, ActQueue, ActBlocked, ActAskUser, ActBuiltin, ActBatch
<1>9. CASE Observe
  BY <1>9, CountFacts DEF Observe, ObserveQueue
<1>10. CASE HandleUserResponse
  BY <1>10, CountFacts DEF HandleUserResponse, ResumeQueue, AfterResponse
<1>11. CASE Finalize
  BY <1>11, CountFacts DEF Finalize
<1>12. CASE FinalizeParse
  BY <1>12, CountFacts DEF FinalizeParse, Enveloped, Unpolished
<1>13. CASE Done
  BY <1>13, CountFacts DEF Done
<1>14. CASE OutOfBudget
  BY <1>14, CountFacts DEF OutOfBudget, BudgetOutcome
<1>15. CASE Send
  BY <1>15, CountFacts DEF Send
<1>16. CASE UserReplies /\ UNCHANGED <<iteration, memory, inbox, sent, reply, wrapUp, h>>
  BY <1>16, CountFacts DEF UserReplies
<1>17. CASE UNCHANGED vars
  BY <1>17, CountFacts DEF vars
<1> QED
  BY <1>1, <1>2, <1>3, <1>4, <1>5, <1>6, <1>7, <1>8, <1>9, <1>10, <1>11, <1>12, <1>13,
     <1>14, <1>15, <1>16, <1>17 DEF Next, Tick, Compose, Finished

\* What the model said is kept.
LEMMA AnswerKept ==
  ASSUME IInv, [Next]_vars
  PROVE  AnswerInv'
<1> USE DEF IInv, AnswerInv, AnswerIsKept, HostInv, NoOut, wrapUp
<1>1. CASE ComposeSkip
  BY <1>1, CountFacts DEF ComposeSkip, ComposeStep, Composed, memory
<1>2. CASE ComposeQuery
  BY <1>2, CountFacts DEF ComposeQuery, ComposeStep, Composed, NoResult, memory
<1>3. CASE ComposeApply
  BY <1>3, CountFacts DEF ComposeApply, ComposeStep, NoResult, memory
<1>4. CASE ReasonOutOfBudget
  BY <1>4, CountFacts DEF ReasonOutOfBudget, BudgetLeft
<1>5. CASE Reason
  BY <1>5, CountFacts DEF Reason, BudgetLeft
<1>6. CASE ParseCalls
  BY <1>6, CountFacts DEF ParseCalls, Propose
<1>7. CASE ParseDraft
  BY <1>7, CountFacts DEF ParseDraft
<1>8. CASE Act
  BY <1>8, CountFacts DEF Act, ActQueue, ActBlocked, ActAskUser, ActBuiltin, ActBatch
<1>9. CASE Observe
  BY <1>9, CountFacts DEF Observe, ObserveQueue
<1>10. CASE HandleUserResponse
  BY <1>10, CountFacts DEF HandleUserResponse, ResumeQueue, AfterResponse
<1>11. CASE Finalize
  BY <1>11, CountFacts DEF Finalize
<1>12. CASE FinalizeParse
  BY <1>12, CountFacts DEF FinalizeParse, Enveloped, Unpolished
<1>13. CASE Done
  BY <1>13, CountFacts DEF Done
<1>14. CASE OutOfBudget
  BY <1>14, CountFacts DEF OutOfBudget, BudgetOutcome
<1>15. CASE Send
  BY <1>15, CountFacts DEF Send
<1>16. CASE UserReplies /\ UNCHANGED <<iteration, memory, inbox, sent, reply, wrapUp, h>>
  BY <1>16, CountFacts DEF UserReplies
<1>17. CASE UNCHANGED vars
  BY <1>17, CountFacts DEF vars
<1> QED
  BY <1>1, <1>2, <1>3, <1>4, <1>5, <1>6, <1>7, <1>8, <1>9, <1>10, <1>11, <1>12, <1>13,
     <1>14, <1>15, <1>16, <1>17 DEF Next, Tick, Compose, Finished

\* The outcome is there when the run completes.
LEMMA HostKept ==
  ASSUME IInv, [Next]_vars
  PROVE  HostInv'
<1> USE DEF IInv, HostInv, NoOut, wrapUp
<1>1. CASE ComposeSkip
  BY <1>1, CountFacts, MemActAssumption DEF ComposeSkip, ComposeStep, Composed, memory
<1>2. CASE ComposeQuery
  BY <1>2, CountFacts, MemActAssumption DEF ComposeQuery, ComposeStep, Composed,
     NoResult, memory
<1>3. CASE ComposeApply
  BY <1>3, CountFacts, MemActAssumption DEF ComposeApply, ComposeStep, NoResult,
     memory
<1>4. CASE ReasonOutOfBudget
  BY <1>4, CountFacts, MemActAssumption DEF ReasonOutOfBudget, BudgetLeft
<1>5. CASE Reason
  BY <1>5, CountFacts, MemActAssumption DEF Reason, BudgetLeft
<1>6. CASE ParseCalls
  BY <1>6, CountFacts, MemActAssumption DEF ParseCalls, Propose
<1>7. CASE ParseDraft
  BY <1>7, CountFacts, MemActAssumption DEF ParseDraft
<1>8. CASE Act
  BY <1>8, CountFacts, MemActAssumption DEF Act, ActQueue, ActBlocked, ActAskUser,
     ActBuiltin, ActBatch
<1>9. CASE Observe
  BY <1>9, CountFacts, MemActAssumption DEF Observe, ObserveQueue
<1>10. CASE HandleUserResponse
  BY <1>10, CountFacts, MemActAssumption DEF HandleUserResponse, ResumeQueue,
     AfterResponse
<1>11. CASE Finalize
  BY <1>11, CountFacts, MemActAssumption DEF Finalize
<1>12. CASE FinalizeParse
  BY <1>12, CountFacts, MemActAssumption DEF FinalizeParse, Enveloped, Unpolished
<1>13. CASE Done
  BY <1>13, CountFacts, MemActAssumption DEF Done
<1>14. CASE OutOfBudget
  BY <1>14, CountFacts, MemActAssumption DEF OutOfBudget, BudgetOutcome
<1>15. CASE Send
  BY <1>15, CountFacts, MemActAssumption DEF Send
<1>16. CASE UserReplies /\ UNCHANGED <<iteration, memory, inbox, sent, reply, wrapUp, h>>
  BY <1>16, CountFacts, MemActAssumption DEF UserReplies
<1>17. CASE UNCHANGED vars
  BY <1>17, CountFacts, MemActAssumption DEF vars
<1> QED
  BY <1>1, <1>2, <1>3, <1>4, <1>5, <1>6, <1>7, <1>8, <1>9, <1>10, <1>11, <1>12, <1>13,
     <1>14, <1>15, <1>16, <1>17 DEF Next, Tick, Compose, Finished

\* The strengthening all that follows rests on is inductive.
THEOREM Invariance == Spec => []IInv
<1>1. Init => IInv
  <2> SUFFICES ASSUME Init PROVE IInv
    OBVIOUS
  <2>1. BatchInv
    BY NoBatchInv DEF Init, InBatch
  <2>2. LoopTypes
    <3>1. 0 \in 0..MaxIterations /\ 0 \in 0..MaxMessages /\ node \in Nodes
      BY MemActAssumption DEF Init, Nodes
    <3>2. reply \in ModelReply \union {NoReply} /\ skipped \in BOOLEAN
      BY DEF Init
    <3> QED BY <3>1, <3>2 DEF Init, LoopTypes
  <2>3. MemoryTypes /\ HistoryTypes /\ Handoffs /\ HostInv
    BY DEF Init, MemoryTypes, HistoryTypes, NoHistory, Handoffs, HostInv, NoOut
  <2>4. MemoryInv /\ AnswerInv
    BY DEF Init, NoHistory, MemoryInv, AnswerInv, AnswerIsKept, NoOut
  <2> QED BY <2>1, <2>2, <2>3, <2>4 DEF IInv
<1>2. IInv /\ [Next]_vars => IInv'
  BY BatchKept, TypesKept, MemoryTypesKept, HistoryKept, HandoffsKept, MemoryKept, AnswerKept,
     HostKept DEF IInv
<1> QED BY <1>1, <1>2, PTL DEF Spec

\* Every variable stays in the range the code gives it.
THEOREM TypeCorrect == Spec => []TypeOK
<1>1. IInv => TypeOK
  <2> SUFFICES ASSUME IInv PROVE TypeOK
    OBVIOUS
  <2>1. {inbox, sent} \subseteq 0..MaxMessages
    BY MemActAssumption DEF IInv, LoopTypes
  <2> QED BY <2>1 DEF IInv, LoopTypes, MemoryTypes, BatchInv, TypeOK
<1> QED BY <1>1, Invariance, PTL

\* Each call of a batch is handled once, in the order proposed, however the batch is
\* split, asked about and refused, and nothing runs that the allowlist withholds.
THEOREM BatchesAreAccountedFor == Spec => []CallsAccountedFor
<1>1. IInv => CallsAccountedFor
  BY DEF IInv, BatchInv
<1> QED BY <1>1, Invariance, PTL

\* Memory is asked about each message in the user's role at most once, and before the
\* model thinks about it.
THEOREM MemoryIsAskedWhenNew == Spec => []AsksWhenNew
<1>1. IInv => AsksWhenNew
  BY DEF IInv, MemoryInv, AsksWhenNew, QueriedOnce, ThinksComposed
<1> QED BY <1>1, Invariance, PTL

\* The envelope never costs the answer the run held.
THEOREM AnswersAreKept == Spec => []AnswerIsKept
<1>1. IInv => AnswerIsKept
  BY DEF IInv, AnswerInv
<1> QED BY <1>1, Invariance, PTL

-----------------------------------------------------------------------------
(* A run implements AgentTurn. *)

\* Every step is one the host expects, or one it does not see.
LEMMA HostStep ==
  ASSUME IInv, [Next]_vars
  PROVE  [Host!Next]_(Host!vars)
<1> USE DEF IInv, HostInv, NoOut, wrapUp, Phase, Host!vars
<1>1. CASE ComposeSkip
  BY <1>1, CountFacts, MemActAssumption DEF ComposeSkip, ComposeStep, Composed, memory
<1>2. CASE ComposeQuery
  BY <1>2, CountFacts, MemActAssumption DEF ComposeQuery, ComposeStep, Composed,
     NoResult, memory, Host!Next, Host!Fail
<1>3. CASE ComposeApply
  BY <1>3, CountFacts, MemActAssumption DEF ComposeApply, ComposeStep, NoResult,
     memory
<1>4. CASE ReasonOutOfBudget
  BY <1>4, CountFacts DEF ReasonOutOfBudget, Host!Next, Host!Conclude
<1>5. CASE Reason
  BY <1>5, CountFacts, MemActAssumption DEF Reason, BudgetLeft, Host!Next, Host!Think
<1>6. CASE ParseCalls
  BY <1>6, CountFacts, MemActAssumption DEF ParseCalls, Propose
<1>7. CASE ParseDraft
  BY <1>7, CountFacts, MemActAssumption DEF ParseDraft
<1>8. CASE Act
  BY <1>8, CountFacts, MemActAssumption DEF Act, ActQueue, ActBlocked, ActAskUser,
     ActBuiltin, ActBatch, Host!Next, Host!Ask
<1>9. CASE Observe
  BY <1>9, CountFacts, MemActAssumption DEF Observe, ObserveQueue
<1>10. CASE HandleUserResponse
  BY <1>10, CountFacts, MemActAssumption DEF HandleUserResponse, ResumeQueue,
     AfterResponse
<1>11. CASE Finalize
  BY <1>11, CountFacts, MemActAssumption DEF Finalize
<1>12. CASE FinalizeParse
  BY <1>12, CountFacts, MemActAssumption DEF FinalizeParse, Enveloped, Unpolished
<1>13. CASE Done
  BY <1>13, CountFacts, MemActAssumption DEF Done, Host!Next, Host!Answer
<1>14. CASE OutOfBudget
  BY <1>14, CountFacts, MemActAssumption DEF OutOfBudget, BudgetOutcome, Host!Next,
     Host!Report
<1>15. CASE Send
  BY <1>15, CountFacts, MemActAssumption DEF Send
<1>16. CASE UserReplies /\ UNCHANGED <<iteration, memory, inbox, sent, reply, wrapUp, h>>
  BY <1>16, CountFacts, MemActAssumption DEF UserReplies, Host!Next, Host!Reply
<1>17. CASE UNCHANGED vars
  BY <1>17, CountFacts, MemActAssumption DEF vars
<1> QED
  BY <1>1, <1>2, <1>3, <1>4, <1>5, <1>6, <1>7, <1>8, <1>9, <1>10, <1>11, <1>12, <1>13,
     <1>14, <1>15, <1>16, <1>17 DEF Next, Tick, Compose, Finished

\* A MemAct run keeps the promise of AgentTurn.
THEOREM Refinement == Spec => KeepsItsPromise
<1>1. Init => Host!Init
  BY DEF Init, Host!Init, Phase, NoOut
<1>2. IInv /\ [Next]_vars => [Host!Next]_(Host!vars)
  BY HostStep
<1> QED BY <1>1, <1>2, Invariance, PTL DEF Spec, KeepsItsPromise, Host!Spec
=============================================================================
