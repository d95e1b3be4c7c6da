------------------------------ MODULE ReactCarry ------------------------------
(***************************************************************************)
(* What rides along with the ReAct loop from one node to the next and is     *)
(* meant for one use only: the media references tools captured, which go out *)
(* with the next model call, and the public words the model wrote next to a  *)
(* batch, which explain that batch to whoever is asked to permit it.         *)
(*                                                                         *)
(* Every tick of ReactLoop is one of this module, with what it does to the   *)
(* two.  The attachments of context, which ride every call, are left out; an   *)
(* update is known by the number of its cycle, which is what its id is made of. *)
(***************************************************************************)
EXTENDS ReactLoop, Places

CONSTANTS
  Captures,       \* sequences of media references the results of an act may declare,
                  \* each of them once
  PendingMax,     \* _PENDING_MEDIA_MAX
  Conversations   \* what _runtime.conversation may say when a turn begins

ASSUME CarryAssumption ==
  /\ PendingMax \in Nat \ {0}
  /\ Conversations \subseteq BOOLEAN
  /\ \A new \in Captures : new \in Seq(Range(new)) /\ IsInjective(new)

VARIABLES
  pending,     \* temp.pending_media
  stash,       \* temp.last_call_media
  conversing,  \* temp.conversation_enabled
  authored,    \* the id of the last cycle's public_update, 0 for none
  binding,     \* temp.public_action_binding
  ids,         \* the call ids of the queue
  owed,        \* history: captured, and in no call whose reply was accepted
  explained    \* history: the update that came with the calls of the queue

media == <<pending, stash, owed>>
words == <<conversing, authored, binding, ids, explained>>
carryVars == <<vars, media, words>>

-----------------------------------------------------------------------------
(* Media references *)

\* A model call takes what is pending and keeps it aside.
Shown ==
  /\ pending' = <<>>
  /\ stash' = IF pending = <<>> THEN stash ELSE pending
  /\ UNCHANGED owed

\* Mutant: a retry runs image-blind.
MutantRearmed == pending

\* A retry is to see what the refused reply was about.
Rearmed == IF stash = <<>> THEN pending ELSE stash

Retried ==
  /\ pending' = Rearmed
  /\ stash' = <<>>
  /\ UNCHANGED owed

\* The reply was read: what rode with its call is used up.
Used ==
  /\ stash' = <<>>
  /\ owed' = owed \ Range(stash)
  /\ UNCHANGED pending

\* accumulate_media: what is captured again moves to the tail.
Accumulated(new) ==
  LET kept == InOrder({k \in DOMAIN pending : pending[k] \notin Range(new)})
  IN  [n \in DOMAIN kept |-> pending[kept[n]]] \o new

\* The cap trims the head, and says so.
Trimmed(refs) == SubSeq(refs, Max({1, Len(refs) - PendingMax + 1}), Len(refs))

\* Only an external call that succeeded declares media.
MayCapture == \E k \in DOMAIN results : results[k].call \in External
                                        /\ results[k].answer \in Succeeding

Captured ==
  \E new \in IF MayCapture THEN Captures ELSE {<<>>} :
    LET all == Accumulated(new)
    IN  /\ pending' = IF new = <<>> THEN pending ELSE Trimmed(all)
        /\ owed' = (owed \union Range(new)) \ (Range(all) \ Range(pending'))
        /\ UNCHANGED stash

-----------------------------------------------------------------------------
(* Public words *)

NoBinding == [update |-> 0, cycle |-> 0, calls |-> {}]

\* The ids of a batch are all different, or two calls share one, or the verifier's
\* batch has its own.
Numberings == {"apart", "shared", "review"}

\* parse: an old binding goes first; the reply may carry words of its own, which
\* a reply without anything else would not be empty for.
Read(worded) ==
  /\ worded => conversing /\ reply.kind # "empty"
  /\ authored' = IF worded THEN Len(cycles) + 1 ELSE 0
  /\ UNCHANGED conversing

ReadNoCalls ==
  /\ \E w \in BOOLEAN : Read(w)
  /\ binding' = NoBinding
  /\ UNCHANGED <<ids, explained>>

\* Words are bound to the calls they came with, if each call can be told apart.
ReadCalls ==
  \E w \in BOOLEAN, numbering \in {"apart", "shared"} :
    /\ Len(reply.batch) = 1 => numbering = "apart"
    /\ Read(w)
    /\ ids' = numbering
    /\ binding' = IF w /\ numbering = "apart"
                  THEN [update |-> Len(cycles) + 1, cycle |-> Len(cycles) + 1,
                        calls |-> Range(reply.batch)]
                  ELSE NoBinding
    /\ explained' = IF w /\ numbering = "apart" THEN Len(cycles) + 1 ELSE 0

\* Mutant: the binding ends with the first results.
MutantKeptBinding == NoBinding

\* observe: the binding ends with its queue.
KeptBinding == IF queue = <<>> THEN NoBinding ELSE binding

Bound ==
  /\ binding' = KeptBinding
  /\ UNCHANGED <<conversing, authored, ids, explained>>

\* review_parse: the verifier did not write the words.
ForcedCalls ==
  /\ binding' = NoBinding
  /\ ids' = "review"
  /\ explained' = 0
  /\ UNCHANGED <<conversing, authored>>

\* _public_action_for_batch, for the calls act is about to hand out: the update it
\* puts next to them, if any.
PublicAction ==
  LET last == Len(cycles)
      prefix == SubSeq(queue, 1, PrefixLength)
  IN  IF /\ conversing
         /\ binding # NoBinding
         /\ authored = last
         /\ binding.update = authored
         /\ binding.cycle = last
         /\ ids = "apart"
         /\ Range(prefix) \subseteq binding.calls
      THEN binding.update ELSE 0

-----------------------------------------------------------------------------
(* Ticks *)

\* reset_react_turn, for what is carried here.
FreshCarry ==
  /\ pending' = <<>>
  /\ stash' = <<>>
  /\ owed' = {}
  /\ conversing' \in Conversations
  /\ binding' = NoBinding
  /\ explained' = 0
  /\ UNCHANGED <<authored, ids>>

\* Ticks that touch neither.
Elsewhere ==
  \/ ReasonOutOfBudget \/ ReasonConclude \/ Act \/ HandleUserResponse
  \/ MaybeReview \/ Review \/ ReviewParseAbsorbed \/ ReviewParseAccept
  \/ ReviewParsePrompt \/ Done

CarryTick ==
  \/ Elsewhere /\ UNCHANGED <<media, words>>
  \/ (ReasonCall \/ ConcludeCall) /\ Shown /\ UNCHANGED words
  \/ (ParseBadCall \/ ParseRetry) /\ Retried /\ ReadNoCalls
  \/ (ParseStuckStop \/ ParseStuckRefuse \/ ParseRepeatGuard
      \/ ParseBadCallFails \/ ParseAnswer) /\ Used /\ ReadNoCalls
  \/ ParseCalls /\ Used /\ ReadCalls
  \/ Observe /\ Captured /\ Bound
  \/ ReviewParseCalls /\ ForcedCalls /\ UNCHANGED media
  \/ ConcludeRetry /\ Retried /\ UNCHANGED words
  \/ ConcludeFinish /\ Used /\ UNCHANGED words

CarryInit ==
  /\ Init
  /\ pending = <<>>
  /\ stash = <<>>
  /\ conversing \in Conversations
  /\ authored = 0
  /\ binding = NoBinding
  /\ ids = "apart"
  /\ owed = {}
  /\ explained = 0

CarryNext ==
  \/ CarryTick
  \/ NextTurn /\ FreshCarry
  \/ (UserReplies \/ Finished \/ \E kind \in {"guidance", "conclude"} : Send(kind))
       /\ UNCHANGED <<media, words>>

CarrySpec == CarryInit /\ [][CarryNext]_carryVars

-----------------------------------------------------------------------------
(* Properties *)

\* Every variable of this module ranges over what the code can store in it.
CarryTypeOK ==
  /\ Len(pending) <= PendingMax
  /\ Len(stash) <= PendingMax
  /\ conversing \in BOOLEAN
  /\ authored \in {0, Len(cycles)}
  /\ binding \in [update : Nat, cycle : Nat, calls : SUBSET Calls]
  /\ ids \in Numberings

\* A captured reference is shown to the model, again with each retry, until a reply
\* to it is accepted, and not once after that; nothing of it is left to the next
\* turn.  Only the cap drops one, and says so.
MediaIsSeenOnce == Range(pending) \union Range(stash) = owed

\* Whoever is asked to permit calls reads the words that came with these very calls,
\* in each of the acts the batch is split over, and no other words, whatever was
\* retried, refused, forced by the verifier or answered by the user in between.
WordsStayWithTheirCalls ==
  (node = "act" /\ Head(queue) \notin Builtin) => PublicAction = explained
=============================================================================
