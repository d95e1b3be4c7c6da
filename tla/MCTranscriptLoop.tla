--------------------------- MODULE MCTranscriptLoop ---------------------------
(***************************************************************************)
(* The batches TranscriptLoop is checked with, and what a session may hand   *)
(* over to it.                                                               *)
(***************************************************************************)
EXTENDS TranscriptLoop

Unnamed(names) == [k \in DOMAIN names |-> [id |-> NoId, name |-> names[k]]]
Tool(id) == [id |-> id, name |-> "read"]

\* The last one has an id the second call would be given, too.
MCBatches ==
  {Unnamed(<<"read">>), Unnamed(<<"read", "remember", "read">>),
   Unnamed(<<"read", "ask_user", "read">>), <<Tool(2), Tool(NoId)>>}

SplitBatches == {Unnamed(<<"ask_user", "read">>)}

\* Announcements nobody answered, answers nobody asked for, and blanks.
Strange ==
  {Text("user"), Text("system"), [Text("assistant") EXCEPT !.blank = TRUE],
   Announcing(<<Tool(1)>>, TRUE), Announcing(<<Tool(1), Tool(2)>>, FALSE),
   Announcing(<<Tool(1), Tool(1)>>, FALSE),
   Announcing(<<[id |-> 2, name |-> AskUser]>>, TRUE),
   Answering(1), Answering(2), [Answering(1) EXCEPT !.blank = TRUE]}

Nothing == {}
=============================================================================
