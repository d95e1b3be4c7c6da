---------------------------- MODULE TranscriptLoop ----------------------------
(***************************************************************************)
(* How the ReAct loop grows its durable transcript, and the payloads its     *)
(* reason node builds from it: announcements, results, questions and         *)
(* answers, guidance, the history window a host may ask for, and the         *)
(* loop-position tail that is stored where it was sent.  Batches, replies    *)
(* and routes are chosen freely; ReactLoop says which of them happen.  A     *)
(* session may hand over any transcript to begin with: another loop, a       *)
(* compaction or a host wrote it.                                            *)
(***************************************************************************)
EXTENDS Transcript

CONSTANTS
  Batches,     \* batches the model or the verifier may announce: [id, name], the
               \* id NoId where the provider supplied none
  Effects,     \* the names act_node runs one at a time (builtins)
  Handed,      \* messages a session may hand over
  MaxHanded,   \* bound: of those
  Marked,      \* a host that asks for a history window marks the turn in progress
  MaxMessages  \* bound: durable messages

ASSUME TranscriptAssumption ==
  /\ Batches \subseteq Seq([id : CallIds \union {NoId}, name : STRING]) \ {<<>>}
  /\ Handed \subseteq Message
  /\ MaxHanded \in Nat
  /\ Marked \in BOOLEAN
  /\ MaxMessages \in Nat
  /\ \A b \in Batches : DOMAIN b \subseteq CallIds
  /\ NoId \notin CallIds

VARIABLES
  durable,   \* context.messages
  queue,     \* temp.pending_tool_calls
  at,        \* the node the run is at
  handed,    \* how many of them the session handed over
  turn,      \* _runtime.history_window_turn_start: where the turn in progress begins
  sent,      \* the messages of the last reason call
  cut,       \* _runtime.session_history: how many messages its window left out
  stored,    \* history: the last call's messages are in the transcript as sent
  spoke,     \* history: the assistant spoke since the last call
  answered   \* history: announcements (by place) and calls that have a result

vars == <<durable, queue, at, handed, turn, sent, cut, stored, spoke, answered>>

-----------------------------------------------------------------------------
\* ensure_tool_call_ids fills what is empty by position: the same ids again in
\* every batch, and maybe one the provider gave to another call of this one.
Stamped(batch) ==
  [k \in DOMAIN batch |-> IF batch[k].id = NoId THEN [batch[k] EXCEPT !.id = k] ELSE batch[k]]

LastAnnounced ==
  CHOOSE k \in DOMAIN durable :
    /\ durable[k].calls # <<>>
    /\ \A j \in DOMAIN durable : durable[j].calls # <<>> => j <= k

\* _history_window_view: a host may ask for a window of whole turns.  How many of
\* the newest fit is a matter of tokens; a turn begins with a user message, and the
\* one in progress stays whole if it is marked.
Cuts(messages) ==
  {c \in 0..(Len(messages) - 1) :
     c > 0 => messages[c + 1].role = "user" /\ (Marked => c < turn)}

\* Mutant: what the window leaves out is not said.
MutantWindowed(messages, c) == SubSeq(messages, c + 1, Len(messages))

\* Where the first c messages are left out a notice comes in place of the last of
\* them, so that place k of the view is place Place(c, k) of the transcript.
Windowed(messages, c) ==
  IF c = 0 THEN messages ELSE <<Text("user")>> \o SubSeq(messages, c + 1, Len(messages))
Place(c, k) == IF c = 0 THEN k ELSE k + c - 1

\* place_loop_tail: behind a tool result or the assistant's word the tail is a
\* message of its own; behind the user's it is not.
TailBehind(payload) == payload # <<>> /\ Last(payload).role # "user"

\* Mutant: the tail rides the payload alone.
MutantTailStored(payload) == FALSE

\* ... and that message is stored where it is sent.
TailStored(payload) == TailBehind(payload)

TailEntry(k) == [role |-> "user", calls |-> <<>>, id |-> NoId, parts |-> <<Part(k, "self")>>]

\* reason: guidance joins the transcript; what the host's window keeps of it is
\* repaired into the payload, and the tail, if any, is placed: the loop position
\* (chrome, which suppress_loop_tail leaves out) and what calls for action (a plan,
\* a nearly spent budget).  The latter alone is merged into a user message, which
\* is stored without it.
Reason(guided, chrome, actionable) ==
  /\ at = "reason"
  /\ LET base == IF guided THEN Append(durable, Text("user")) ELSE durable
         tailed == chrome \/ actionable
     IN  /\ Len(base) < MaxMessages
         /\ \E c \in Cuts(base) :
              LET view == Windowed(base, c)
                  payload == Sanitized(view)
              IN  /\ durable' = IF tailed /\ TailStored(payload)
                                THEN Append(base, Text("user")) ELSE base
                  /\ sent' = IF tailed /\ TailBehind(payload)
                             THEN Append(payload, TailEntry(Len(view) + 1)) ELSE payload
                  /\ stored' = (TailBehind(payload) \/ ~actionable)
                  /\ cut' = c
  /\ spoke' = FALSE
  /\ at' = "parse"
  /\ UNCHANGED <<queue, handed, turn, answered>>

\* parse or review_parse: a batch is announced and queued.
Announce(batch, blank) ==
  /\ at = "parse"
  /\ Len(durable) < MaxMessages
  /\ durable' = Append(durable, Announcing(Stamped(batch), blank))
  /\ queue' = Stamped(batch)
  /\ spoke' = TRUE
  /\ at' = "act"
  /\ UNCHANGED <<handed, turn, sent, cut, stored, answered>>

\* parse: the reply is refused, or asked for again; nothing is kept of it.
Retry ==
  /\ at = "parse"
  /\ at' = "reason"
  /\ UNCHANGED <<durable, queue, handed, turn, sent, cut, stored, spoke, answered>>

\* Mutant: act_node numbers the calls it hands out by itself.
MutantResultId(k) == k

\* The result of the k-th call of the queue carries the id it was announced with.
ResultId(k) == queue[k].id

\* act and observe: the first n calls come back with their results: one builtin, or
\* all calls before the next one.
Batch(n) ==
  IF Head(queue).name \in Effects THEN n = 1
  ELSE /\ \A k \in 1..n : queue[k].name \notin Effects
       /\ n < Len(queue) => queue[n + 1].name \in Effects

Act(n) ==
  /\ at = "act"
  /\ Head(queue).name # AskUser
  /\ Batch(n)
  /\ Len(durable) + n <= MaxMessages
  /\ durable' = durable \o [k \in 1..n |-> Answering(ResultId(k))]
  /\ answered' = answered \union {<<LastAnnounced, queue[k].id>> : k \in 1..n}
  /\ queue' = SubSeq(queue, n + 1, Len(queue))
  /\ at' = IF queue' = <<>> THEN "reason" ELSE "act"
  /\ UNCHANGED <<handed, turn, sent, cut, stored, spoke>>

\* act: the question is put as the assistant's word, and the run waits.
Ask ==
  /\ at = "act"
  /\ Head(queue).name = AskUser
  /\ Len(durable) < MaxMessages
  /\ durable' = Append(durable, Text("assistant"))
  /\ queue' = SubSeq(queue, 2, Len(queue))
  /\ at' = "waiting"
  /\ UNCHANGED <<handed, turn, sent, cut, stored, spoke, answered>>

\* handle_user_response: the user's answer, or the note that none came.
Respond ==
  /\ at = "waiting"
  /\ Len(durable) < MaxMessages
  /\ \E role \in {"user", "system"} : durable' = Append(durable, Text(role))
  /\ at' = IF queue = <<>> THEN "reason" ELSE "act"
  /\ UNCHANGED <<queue, handed, turn, sent, cut, stored, spoke, answered>>

\* done, and the next turn of a visit: the answer, then what the visitor says, which
\* the host marks as the beginning of the turn.
NextTurn ==
  /\ at = "parse"
  /\ Len(durable) + 2 <= MaxMessages
  /\ durable' = durable \o <<Text("assistant"), Text("user")>>
  /\ turn' = Len(durable')
  /\ spoke' = TRUE
  /\ at' = "reason"
  /\ UNCHANGED <<queue, handed, sent, cut, stored, answered>>

\* start and init_node: the task follows what the session handed over.
Init ==
  /\ \E n \in 0..MaxHanded : \E session \in [1..n -> Handed] :
       durable = Append(session, Text("user")) /\ handed = n
  /\ queue = <<>>
  /\ at = "reason"
  /\ turn = Len(durable)
  /\ sent = <<>>
  /\ cut = 0
  /\ stored = TRUE
  /\ spoke = FALSE
  /\ answered = {}

Next ==
  \/ \E guided, chrome, actionable \in BOOLEAN : Reason(guided, chrome, actionable)
  \/ \E batch \in Batches, blank \in BOOLEAN : Announce(batch, blank)
  \/ \E n \in 1..Len(queue) : Act(n)
  \/ Retry \/ Ask \/ Respond \/ NextTurn

Spec == Init /\ [][Next]_vars

-----------------------------------------------------------------------------
(* Properties *)

\* Every variable ranges over what the code can store in it.
TypeOK ==
  /\ durable \in Seq(Message)
  /\ queue \in Seq(Call)
  /\ at \in {"reason", "parse", "act", "waiting"}
  /\ handed \in 0..MaxHanded
  /\ turn \in DOMAIN durable
  /\ cut \in Nat
  /\ stored \in BOOLEAN
  /\ spoke \in BOOLEAN
  /\ answered \subseteq (DOMAIN durable) \X CallIds

\* The durable place of the first message an entry of the last request is made of.
Origin(entry) == Place(cut, entry.parts[1].from)

\* Whatever the session handed over and the window leaves out, every request is one
\* a strict provider accepts; a call the loop announced has a result in it, and no id
\* has more results than calls, whoever chose the ids.
RequestIsAccepted ==
  /\ Acceptable(sent)
  /\ \A j \in DOMAIN sent : \A id \in Ids(sent[j].calls) :
       Origin(sent[j]) > handed =>
         Cardinality({k \in DOMAIN sent : InRunOf(sent, k, j) /\ sent[k].id = id})
           \in 1..Cardinality({c \in DOMAIN sent[j].calls : sent[j].calls[c].id = id})

\* The repair rearranges and quotes, but loses nothing: each message with text or
\* calls that the window keeps, a turn in progress whole, is in the request exactly
\* once, and nothing else is but stand-ins and the notice of what was left out.
NothingDropped ==
  at = "parse" =>
    LET said == {k \in 1..Len(Windowed(durable, cut)) :
                   LET m == durable[Place(cut, k)]
                   IN  (cut > 0 /\ k = 1) \/ ~m.blank \/ m.calls # <<>>}
    IN  /\ Marked => cut < turn
        /\ \A k \in said : CarriesOnce(sent, k)
        /\ \A e \in DOMAIN sent : \A p \in DOMAIN sent[e].parts :
             sent[e].parts[p].from \in said \union {0}

\* transcripts.py on its repair: what is neither answered nor interactive is a
\* genuinely lost result.  A call of the loop's is declared missing only if it never
\* came back.
MissingIsLost ==
  \A k, j \in DOMAIN sent :
    sent[k].parts = <<Part(0, "missing")>> /\ InRunOf(sent, k, j)
      => (Origin(sent[j]) > handed => <<Origin(sent[j]), sent[k].id>> \notin answered)

\* Each call that goes by this id puts a question to the user or comes after one.
BehindAQuestion(calls, id) ==
  \A c \in DOMAIN calls :
    calls[c].id = id => \E d \in 1..c : calls[d].name = AskUser

\* And nothing but a question in the middle of a batch makes the repair wrong about
\* that: whatever else comes between a batch, its results, its retries and the turns
\* after it, a call that came back is declared missing only if it was worked off
\* behind a question of its own batch.
LostBehindAQuestion ==
  \A k, j \in DOMAIN sent :
    sent[k].parts = <<Part(0, "missing")>> /\ InRunOf(sent, k, j)
      => (Origin(sent[j]) > handed =>
            \/ <<Origin(sent[j]), sent[k].id>> \notin answered
            \/ BehindAQuestion(sent[j].calls, sent[k].id))

\* docs and transcripts.py on the loop tail: the bytes sent are the bytes
\* stored, so a call's messages are an exact prefix of the next call's once the
\* assistant spoke in between, as long as the window leaves out the same.
SentIsPrefix ==
  [][ (sent' # sent /\ stored /\ spoke /\ cut' = cut) => IsPrefix(sent, sent') ]_vars
=============================================================================
