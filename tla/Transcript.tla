------------------------------ MODULE Transcript ------------------------------
(***************************************************************************)
(* What a model call carries of a durable transcript: the payload-boundary  *)
(* repair every loop shares (adapters/transcripts.py).                       *)
(*                                                                         *)
(* A durable message is [role, calls, id, blank]: the calls an assistant     *)
(* message announces, the call a tool message answers, and whether the text  *)
(* is blank.  Texts are not kept.  A payload entry says instead which        *)
(* durable messages its text comes from, and how: as themselves, as an       *)
(* unpaired tool result quoted to the user, or made up to stand for a        *)
(* result nobody gave.                                                       *)
(***************************************************************************)
EXTENDS Integers, SequencesExt, Places

CONSTANTS
  CallIds,   \* ids of tool calls
  AskUser,   \* the name of the interactive builtin
  NoId       \* not a tool message

Roles == {"user", "assistant", "tool", "system"}
Call == [id : CallIds, name : STRING]

\* Only an assistant's calls and a tool's id are read.
Message ==
  {m \in [role : Roles, calls : Seq(Call), id : CallIds \union {NoId}, blank : BOOLEAN] :
     /\ m.calls # <<>> => m.role = "assistant"
     /\ m.id # NoId => m.role = "tool"}

Text(role) == [role |-> role, calls |-> <<>>, id |-> NoId, blank |-> FALSE]
Answering(id) == [role |-> "tool", calls |-> <<>>, id |-> id, blank |-> FALSE]
Announcing(calls, blank) ==
  [role |-> "assistant", calls |-> calls, id |-> NoId, blank |-> blank]

-----------------------------------------------------------------------------
(* Entries of the payload *)

Part(from, as) == [from |-> from, as |-> as]

\* Message k as it is.
Itself(messages, k) ==
  [role |-> messages[k].role, calls |-> messages[k].calls, id |-> messages[k].id,
   parts |-> <<Part(k, "self")>>]

\* Tool messages quoted in a user message, if there are any.
Notes(S) ==
  IF S = {} THEN <<>>
  ELSE << [role |-> "user", calls |-> <<>>, id |-> NoId,
           parts |-> [n \in 1..Cardinality(S) |-> Part(InOrder(S)[n], "unpaired")]] >>

\* What stands for the result of a call that has none; the last call of an id names it.
StandIn(calls, c) ==
  LET interactive == \E d \in DOMAIN calls :
                       /\ calls[d].id = calls[c].id /\ calls[d].name = AskUser
                       /\ \A e \in DOMAIN calls : e > d => calls[e].id # calls[c].id
  IN  [role |-> "tool", calls |-> <<>>, id |-> calls[c].id,
       parts |-> <<Part(0, IF interactive THEN "interactive" ELSE "missing")>>]

\* One after the other; where two user entries meet they become one.
Joined(some, more) ==
  IF some # <<>> /\ more # <<>> /\ Last(some).role = "user" /\ Head(more).role = "user"
  THEN Front(some) \o <<[Last(some) EXCEPT !.parts = @ \o Head(more).parts]>> \o Tail(more)
  ELSE some \o more

-----------------------------------------------------------------------------
(* sanitize_transcript_messages *)

\* Mutant: whatever has no text is dropped.
MutantKept(messages) == {k \in DOMAIN messages : ~messages[k].blank}

\* Blank messages are dropped, unless they announce calls.
Kept(messages) == {k \in DOMAIN messages : ~messages[k].blank \/ messages[k].calls # <<>>}

\* The tool messages that follow message k directly.
Behind(messages, k) ==
  {n \in Kept(messages) :
     /\ n > k
     /\ \A i \in Kept(messages) : i \in (k + 1)..n => messages[i].role = "tool"}

Ids(calls) == {calls[c].id : c \in DOMAIN calls}

\* Mutant: a foreign result stays where it is.
MutantOwn(messages, k) == Behind(messages, k)

\* Those of them that answer a call of message k.
Own(messages, k) == {n \in Behind(messages, k) : messages[n].id \in Ids(messages[k].calls)}

\* The calls of message k nobody answered, one for each id.
Silent(messages, k) ==
  LET calls == messages[k].calls
  IN  {c \in DOMAIN calls : /\ \A d \in 1..(c - 1) : calls[d].id # calls[c].id
                            /\ \A n \in Own(messages, k) : messages[n].id # calls[c].id}

\* The results the calls of message k have: the answers to them, then stand-ins.
Results(messages, k) ==
  LET own == InOrder(Own(messages, k))
      silent == InOrder(Silent(messages, k))
  IN  [n \in DOMAIN own |-> Itself(messages, own[n])]
        \o [n \in DOMAIN silent |-> StandIn(messages[k].calls, silent[n])]

\* A message, its results, and the foreign results behind it as notes.
Block(messages, k) ==
  Joined(<<Itself(messages, k)>> \o Results(messages, k),
         Notes(Behind(messages, k) \ Own(messages, k)))

\* The payload of the first k messages and the tool messages behind them.
Sanitized(messages) ==
  LET payload[k \in 0..Len(messages)] ==
        IF k = 0 THEN Notes(Behind(messages, 0))
        ELSE IF k \in Kept(messages) /\ messages[k].role # "tool"
        THEN Joined(payload[k - 1], Block(messages, k))
        ELSE payload[k - 1]
  IN  payload[Len(messages)]

-----------------------------------------------------------------------------
(* What a provider requires of a payload *)

\* Entry k of a payload is in the run of tool messages behind the assistant's entry j.
InRunOf(payload, k, j) ==
  /\ j < k
  /\ payload[j].role = "assistant"
  /\ \A n \in (j + 1)..k : payload[n].role = "tool"

\* Strict providers refuse a request with a tool message that answers no call of
\* the announcement right before its run, with an unanswered call, or with two
\* user messages in a row.
Acceptable(payload) ==
  /\ \A k \in DOMAIN payload :
       payload[k].role = "tool" =>
         \E j \in DOMAIN payload :
           InRunOf(payload, k, j) /\ payload[k].id \in Ids(payload[j].calls)
  /\ \A j \in DOMAIN payload : \A id \in Ids(payload[j].calls) :
       \E k \in DOMAIN payload : InRunOf(payload, k, j) /\ payload[k].id = id
  /\ \A k \in 1..(Len(payload) - 1) :
       ~(payload[k].role = "user" /\ payload[k + 1].role = "user")

\* The payload carries message k in one place.
CarriesOnce(payload, k) ==
  \E e \in DOMAIN payload : \E p \in DOMAIN payload[e].parts :
    \A f \in DOMAIN payload : \A q \in DOMAIN payload[f].parts :
      payload[f].parts[q].from = k <=> f = e /\ q = p
=============================================================================
