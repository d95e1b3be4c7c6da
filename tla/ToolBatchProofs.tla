--------------------------- MODULE ToolBatchProofs ---------------------------
(***************************************************************************)
(* That no call of a batch is lost, doubled, reordered or run against the    *)
(* allowlist, step by step of the queue.  The loops that work off such        *)
(* queues cite a lemma per step.                                            *)
(***************************************************************************)
EXTENDS ToolBatch, SequenceTheorems, WellFoundedInduction, TLAPS

\* b is what the log names, and then q.
Accounted(b, log, q) ==
  /\ Len(b) = Len(log) + Len(q)
  /\ \A k \in 1..Len(log) : b[k] = log[k].call
  /\ \A k \in 1..Len(q) : b[Len(log) + k] = q[k]

\* This is how CallsAccountedFor says it.
LEMMA AccountedIsConcat ==
  ASSUME NEW b \in Seq(Calls), NEW log \in Seq(Handled), NEW q \in Seq(Calls)
  PROVE  b = [k \in DOMAIN log |-> log[k].call] \o q <=> Accounted(b, log, q)
<1> DEFINE named == [k \in DOMAIN log |-> log[k].call]
<1>1. Len(b) \in Nat /\ Len(log) \in Nat /\ Len(q) \in Nat /\ DOMAIN log = 1..Len(log)
  BY LenProperties
<1>2. named \in Seq(Calls) /\ Len(named) = Len(log)
  <2>1. \A k \in 1..Len(log) : log[k].call \in Calls
    <3>1. \A k \in 1..Len(log) : log[k] \in Handled
      BY <1>1, ElementOfSeq
    <3> QED BY <3>1 DEF Handled
  <2>2. named \in [1..Len(log) -> Calls]
    BY <1>1, <2>1
  <2> HIDE DEF named
  <2> QED BY <1>1, <2>2
<1>3. named \o q \in Seq(Calls) /\ Len(named \o q) = Len(log) + Len(q)
  BY <1>1, <1>2
<1>4. \A k \in 1..Len(log) : (named \o q)[k] = log[k].call
  BY <1>1, <1>2
<1>5. \A k \in 1..Len(q) : (named \o q)[Len(log) + k] = q[k]
  BY <1>1, <1>2
<1>6. ASSUME Accounted(b, log, q) PROVE b = named \o q
  <2> HIDE DEF named
  <2>1. Len(b) = Len(named \o q)
    BY <1>3, <1>6 DEF Accounted
  <2>2. ASSUME NEW k \in 1..Len(b) PROVE b[k] = (named \o q)[k]
    <3>1. CASE k \in 1..Len(log)
      BY <1>4, <1>6, <3>1 DEF Accounted
    <3>2. CASE k \notin 1..Len(log)
      <4>1. k - Len(log) \in 1..Len(q) /\ Len(log) + (k - Len(log)) = k
        BY <1>1, <1>6, <3>2 DEF Accounted
      <4> QED BY <1>5, <1>6, <4>1 DEF Accounted
    <3> QED BY <3>1, <3>2
  <2> QED BY <1>3, <2>1, <2>2, SeqEqual
<1>7. ASSUME b = named \o q PROVE Accounted(b, log, q)
  <2> HIDE DEF named
  <2> QED BY <1>3, <1>4, <1>5, <1>7 DEF Accounted
<1> QED BY <1>6, <1>7

\* The first calls of the queue move to the log.
LEMMA FirstMove ==
  ASSUME NEW b \in Seq(Calls), NEW log \in Seq(Handled), NEW q \in Seq(Calls),
         NEW r \in Seq(Handled), NEW rest \in Seq(Calls),
         Accounted(b, log, q), Len(q) = Len(r) + Len(rest),
         \A k \in 1..Len(r) : r[k].call = q[k],
         \A k \in 1..Len(rest) : rest[k] = q[Len(r) + k]
  PROVE  Accounted(b, log \o r, rest)
<1>1. /\ Len(b) \in Nat /\ Len(log) \in Nat /\ Len(q) \in Nat /\ Len(r) \in Nat
      /\ Len(rest) \in Nat
  BY LenProperties
<1>2. Len(log \o r) = Len(log) + Len(r)
  BY <1>1
<1>3. ASSUME NEW k \in 1..Len(log \o r) PROVE b[k] = (log \o r)[k].call
  <2>1. CASE k \in 1..Len(log)
    <3>1. (log \o r)[k] = log[k]
      BY <1>1, <2>1
    <3> QED BY <2>1, <3>1 DEF Accounted
  <2>2. CASE k \notin 1..Len(log)
    <3>1. PICK j \in 1..Len(r) : k = Len(log) + j
      <4>1. k - Len(log) \in 1..Len(r) /\ k = Len(log) + (k - Len(log))
        BY <1>1, <1>2, <2>2
      <4> QED BY <4>1
    <3>2. (log \o r)[Len(log) + j] = r[j]
      BY <1>1
    <3>3. j \in 1..Len(q)
      BY <1>1
    <3> QED BY <3>1, <3>2, <3>3 DEF Accounted
  <2> QED BY <2>1, <2>2
<1>4. ASSUME NEW k \in 1..Len(rest) PROVE b[Len(log \o r) + k] = rest[k]
  <2>1. Len(r) + k \in 1..Len(q) /\ Len(log) + (Len(r) + k) = Len(log \o r) + k
    BY <1>1, <1>2
  <2> QED BY <2>1 DEF Accounted
<1> QED BY <1>1, <1>2, <1>3, <1>4 DEF Accounted

-----------------------------------------------------------------------------
(* The invariant of a queue: act finds a call, and no results that were not *)
(* taken yet.                                                               *)

BatchInv ==
  /\ BatchTypes
  /\ CallsAccountedFor
  /\ node = "act" => queue # <<>>
  /\ node \in {"act", "waiting", "handle_user_response"} => results = <<>>

\* What the log of a batch in progress says of the calls in it.
LEMMA LogFacts ==
  ASSUME BatchInv
  PROVE  /\ queue \in Seq(Calls) /\ results \in Seq(Handled)
         /\ batch \in Seq(Calls) /\ handled \in Seq(Handled)
         /\ handled \o results \in Seq(Handled)
         /\ Accounted(batch, handled \o results, queue)
         /\ \A k \in DOMAIN (handled \o results) :
              (handled \o results)[k].call \in Builtin \ Allowed
                <=> (handled \o results)[k].how = "refused"
<1>1. handled \o results \in Seq(Handled)
  BY DEF BatchInv, BatchTypes
<1> QED BY <1>1, AccountedIsConcat DEF BatchInv, BatchTypes, CallsAccountedFor

\* To show the invariant of the next state.
LEMMA BatchInvNext ==
  ASSUME BatchTypes',
         Accounted(batch', (handled \o results)', queue'),
         \A k \in DOMAIN ((handled \o results)') :
           (handled \o results)'[k].call \in Builtin \ Allowed
             <=> (handled \o results)'[k].how = "refused",
         node' \notin InBatch => queue' = <<>> /\ results' = <<>>,
         node' = "act" => queue' # <<>>,
         node' \in {"act", "waiting", "handle_user_response"} => results' = <<>>
  PROVE  BatchInv'
<1> DEFINE log == handled' \o results'
<1>1. log \in Seq(Handled) /\ batch' \in Seq(Calls) /\ queue' \in Seq(Calls)
  BY DEF BatchTypes
<1>2. batch' = [k \in DOMAIN log |-> log[k].call] \o queue'
  <2> HIDE DEF log
  <2>1. Accounted(batch', log, queue')
    BY DEF log
  <2> QED BY <1>1, <2>1, AccountedIsConcat
<1> QED BY <1>2 DEF BatchInv, CallsAccountedFor

-----------------------------------------------------------------------------
(* The steps of the queue *)

\* Accounted, said as CallsAccountedFor does.
LEMMA LogIsBatch ==
  ASSUME BatchTypes, Accounted(batch, handled \o results, queue)
  PROVE  batch = [k \in DOMAIN (handled \o results) |-> (handled \o results)[k].call] \o queue
<1> DEFINE log == handled \o results
<1>1. log \in Seq(Handled) /\ batch \in Seq(Calls) /\ queue \in Seq(Calls)
  BY DEF BatchTypes
<1>2. batch = [k \in DOMAIN log |-> log[k].call] \o queue
  <2> HIDE DEF log
  <2>1. Accounted(batch, log, queue)
    BY DEF log
  <2> QED BY <1>1, <2>1, AccountedIsConcat
<1> QED BY <1>2

\* With no batch there is nothing to account for.
LEMMA NoBatchInv ==
  ASSUME NoBatch, node \notin InBatch
  PROVE  BatchInv
<1>1. /\ queue \in Seq(Calls) /\ batch \in Seq(Calls)
      /\ results \in Seq(Handled) /\ handled \in Seq(Handled)
  BY EmptySeq DEF NoBatch
<1>2. handled \o results = <<>> /\ Accounted(batch, handled \o results, queue)
  BY DEF NoBatch, Accounted
<1>3. batch = [k \in DOMAIN (handled \o results) |-> (handled \o results)[k].call] \o queue
  BY <1>1, <1>2, LogIsBatch DEF BatchTypes
<1>4. DOMAIN (handled \o results) = {}
  BY <1>2
<1> QED BY <1>1, <1>3, <1>4 DEF BatchInv, BatchTypes, CallsAccountedFor, NoBatch, InBatch

\* A batch enters an empty queue.
LEMMA ProposeStep ==
  ASSUME BatchInv, node \notin InBatch, NEW calls \in Seq(Calls), calls # <<>>,
         Propose(calls), node' = "act"
  PROVE  BatchInv'
<1>1. /\ queue' = calls /\ batch' = calls /\ handled' = <<>> /\ results' = <<>>
      /\ (handled \o results)' = <<>>
  BY DEF Propose, BatchInv, CallsAccountedFor
<1>2. BatchTypes'
  BY <1>1, EmptySeq DEF BatchTypes
<1>3. Accounted(batch', (handled \o results)', queue')
  BY <1>1, LenProperties DEF Accounted
<1> QED BY <1>1, <1>2, <1>3, BatchInvNext DEF InBatch

\* The first call of the queue is answered, one way or the other.
LEMMA OneCall ==
  ASSUME BatchInv, node = "act", queue' = Tail(queue), UNCHANGED batch,
         NEW how \in {"ran", "refused", "asked"},
         Head(queue) \in Builtin \ Allowed <=> how = "refused",
         \/ /\ results' = <<Took(Head(queue), how)>> /\ UNCHANGED handled
            /\ node' = "observe"
         \/ /\ handled' = Append(handled, Took(Head(queue), how)) /\ UNCHANGED results
            /\ node' = "waiting"
  PROVE  BatchInv'
<1> DEFINE took == Took(Head(queue), how)
           log == handled \o results
<1>1. results = <<>> /\ queue # <<>>
  BY DEF BatchInv
<1>2. /\ queue \in Seq(Calls) /\ handled \in Seq(Handled) /\ batch \in Seq(Calls)
      /\ log \in Seq(Handled) /\ Accounted(batch, log, queue)
      /\ \A k \in DOMAIN log : log[k].call \in Builtin \ Allowed <=> log[k].how = "refused"
  BY LogFacts
<1>3. /\ Head(queue) \in Calls /\ Head(queue) = queue[1] /\ Tail(queue) \in Seq(Calls)
      /\ Len(queue) = 1 + Len(Tail(queue))
      /\ \A k \in 1..Len(Tail(queue)) : Tail(queue)[k] = queue[1 + k]
  BY <1>1, <1>2, HeadTailProperties, LenProperties
<1>4. took \in Handled /\ took.call = Head(queue) /\ took.how = how
  BY <1>3 DEF Took, Handled
<1> HIDE DEF took
<1>5. <<took>> \in Seq(Handled) /\ Len(<<took>>) = 1 /\ <<took>>[1] = took
  BY <1>4
<1>6. log = handled /\ handled \o <<took>> = Append(handled, took)
  BY <1>1, <1>2, <1>4
<1>7. /\ (handled \o results)' = log \o <<took>>
      /\ handled' \in Seq(Handled) /\ results' \in Seq(Handled)
  <2>1. CASE results' = <<took>> /\ handled' = handled
    BY <1>2, <1>5, <1>6, <2>1
  <2>2. CASE handled' = Append(handled, took) /\ results' = <<>>
    <3>1. handled' \in Seq(Handled) /\ handled' \o <<>> = handled'
      BY <1>2, <1>4, <2>2
    <3> QED BY <1>6, <2>2, <3>1, EmptySeq
  <2> QED BY <1>1, <2>1, <2>2 DEF took
<1>8. BatchTypes'
  BY <1>2, <1>3, <1>7 DEF BatchTypes
<1>9. Accounted(batch', (handled \o results)', queue')
  <2>1. \A k \in 1..Len(<<took>>) : <<took>>[k].call = queue[k]
    BY <1>3, <1>4, <1>5
  <2> HIDE DEF log
  <2>2. Accounted(batch, log \o <<took>>, Tail(queue))
    BY <1>2, <1>3, <1>5, <2>1, FirstMove
  <2> QED BY <1>7, <2>2
<1>10. \A k \in DOMAIN (log \o <<took>>) :
         (log \o <<took>>)[k].call \in Builtin \ Allowed <=> (log \o <<took>>)[k].how = "refused"
  <2> HIDE DEF log
  <2>1. /\ DOMAIN (log \o <<took>>) = 1..(Len(log) + 1)
        /\ \A k \in 1..Len(log) : (log \o <<took>>)[k] = log[k]
        /\ (log \o <<took>>)[Len(log) + 1] = took
        /\ DOMAIN log = 1..Len(log) /\ Len(log) \in Nat
    BY <1>2, <1>4, <1>5
  <2>2. ASSUME NEW k \in 1..(Len(log) + 1)
        PROVE  (log \o <<took>>)[k].call \in Builtin \ Allowed
                 <=> (log \o <<took>>)[k].how = "refused"
    <3>1. CASE k = Len(log) + 1
      BY <1>4, <2>1, <3>1
    <3>2. CASE k # Len(log) + 1
      <4>1. k \in DOMAIN log /\ (log \o <<took>>)[k] = log[k]
        BY <2>1, <3>2
      <4> QED BY <1>2, <4>1
    <3> QED BY <3>1, <3>2
  <2> QED BY <2>1, <2>2
<1> QED BY <1>1, <1>7, <1>8, <1>9, <1>10, BatchInvNext DEF InBatch

\* How many elements lead a queue before the first that has some property: if one
\* has it, they end before the least of those.
LEMMA LeadIs ==
  ASSUME NEW n \in Nat, NEW stops \in SUBSET (1..n)
  PROVE  LET p == Max({k \in 0..n : \A j \in 1..k : j \notin stops})
         IN  /\ p \in 0..n
             /\ \A j \in 1..p : j \notin stops
             /\ p = n \/ p + 1 \in stops
<1> DEFINE S == {k \in 0..n : \A j \in 1..k : j \notin stops}
           Less == {p \in Nat \X Nat : p[1] < p[2]}
<1>1. \E p \in S : (\A k \in S : p >= k) /\ (p = n \/ p + 1 \in stops)
  <2>1. CASE stops = {}
    BY <2>1
  <2>2. CASE stops # {}
    <3>1. IsWellFoundedOn(Less, Nat)
      BY NatLessThanWellFounded DEF OpToRel
    <3>2. stops \subseteq Nat
      OBVIOUS
    <3> HIDE DEF Less
    <3>3. PICK t \in stops : \A j \in stops : <<j, t>> \notin Less
      BY <2>2, <3>1, <3>2, WFMin
    <3>4. t \in 1..n /\ \A j \in stops : ~(j < t)
      BY <3>2, <3>3 DEF Less
    <3>5. t - 1 \in S /\ (t - 1) + 1 = t
      BY <3>4
    <3>6. \A k \in S : t - 1 >= k
      <4> SUFFICES ASSUME NEW k \in S, ~(t - 1 >= k) PROVE FALSE
        OBVIOUS
      <4>1. t \in 1..k
        BY <3>4
      <4> QED BY <3>3, <4>1
    <3> QED BY <3>3, <3>5, <3>6
  <2> QED BY <2>1, <2>2
<1>2. PICK p \in S : (\A k \in S : p >= k) /\ (p = n \/ p + 1 \in stops)
  BY <1>1
<1>3. \A q \in S : (\A k \in S : q >= k) => q = p
  BY <1>2
<1>4. Max(S) = p
  <2> HIDE DEF S
  <2> QED BY <1>2, <1>3 DEF Max
<1>5. p \in 0..n /\ \A j \in 1..p : j \notin stops
  OBVIOUS
<1> QED BY <1>2, <1>4, <1>5

\* Where the ordinary calls at the head of the queue end.
LEMMA PrefixFacts ==
  ASSUME queue \in Seq(Calls)
  PROVE  /\ PrefixLength \in 0..Len(queue)
         /\ \A k \in 1..PrefixLength : queue[k] \in Calls \ Builtin
<1>1. Len(queue) \in Nat /\ \A k \in 1..Len(queue) : queue[k] \in Calls
  BY LenProperties, ElementOfSeq
<1> DEFINE stops == {k \in 1..Len(queue) : queue[k] \in Builtin}
           S == {k \in 0..Len(queue) : \A j \in 1..k : j \notin stops}
<1>2. Max(S) \in 0..Len(queue) /\ \A j \in 1..Max(S) : j \notin stops
  <2> HIDE DEF stops
  <2>1. stops \in SUBSET (1..Len(queue))
    BY DEF stops
  <2> QED BY <1>1, <2>1, LeadIs
<1>3. S = {k \in 0..Len(queue) : \A j \in 1..k : queue[j] \notin Builtin}
  BY <1>1
<1>4. PrefixLength = Max(S)
  BY <1>3 DEF PrefixLength
<1> HIDE DEF S
<1> QED BY <1>1, <1>2, <1>4

\* The ordinary calls at the head of the queue run.
LEMMA BatchStep ==
  ASSUME BatchInv, ActBatch
  PROVE  BatchInv'
<1> DEFINE n == PrefixLength
           ran == [k \in 1..n |-> Took(queue[k], "ran")]
           log == handled \o results
<1>1. results = <<>> /\ queue # <<>> /\ node = "act" /\ node' = "observe"
  BY DEF BatchInv, ActBatch
<1>2. /\ queue \in Seq(Calls) /\ handled \in Seq(Handled) /\ batch \in Seq(Calls)
      /\ log \in Seq(Handled) /\ Accounted(batch, log, queue)
      /\ \A k \in DOMAIN log : log[k].call \in Builtin \ Allowed <=> log[k].how = "refused"
  BY LogFacts
<1>3. /\ n \in 0..Len(queue) /\ \A k \in 1..n : queue[k] \in Calls \ Builtin
      /\ Len(queue) \in Nat /\ n \in Nat
  BY <1>2, PrefixFacts, LenProperties
<1>4. /\ results' = ran /\ queue' = Rest /\ batch' = batch /\ handled' = handled
  BY DEF ActBatch
<1>5. /\ Rest \in Seq(Calls) /\ Len(Rest) = Len(queue) - n
      /\ \A k \in 1..Len(Rest) : Rest[k] = queue[n + k]
  <2> HIDE DEF n
  <2>1. \A k \in (n + 1)..Len(queue) : queue[k] \in Calls
    BY <1>2, <1>3, ElementOfSeq
  <2>2. Rest = SubSeq(queue, n + 1, Len(queue))
    BY DEF Rest, n
  <2> QED BY <1>2, <1>3, <2>1, <2>2, SubSeqProperties
<1>6. /\ ran \in Seq(Handled) /\ Len(ran) = n
      /\ \A k \in 1..n : ran[k].call = queue[k] /\ ran[k].how = "ran"
      /\ \A k \in 1..n : ran[k] \in Handled
  <2> HIDE DEF n
  <2>1. \A k \in 1..n : Took(queue[k], "ran") \in Handled
    BY <1>3 DEF Took, Handled
  <2>2. ran \in [1..n -> Handled]
    BY <2>1
  <2>3. \A k \in 1..n : ran[k].call = queue[k] /\ ran[k].how = "ran"
    BY DEF Took
  <2> HIDE DEF ran
  <2> QED BY <1>3, <2>2, <2>3
<1>7. log = handled
  BY <1>1, <1>2
<1> HIDE DEF n, ran
<1>8. BatchTypes'
  BY <1>2, <1>4, <1>5, <1>6 DEF BatchTypes
<1>9. (handled \o results)' = log \o ran
  BY <1>4, <1>7
<1>10. Accounted(batch, log \o ran, Rest)
  <2> HIDE DEF log
  <2>1. /\ Len(queue) = Len(ran) + Len(Rest)
        /\ \A k \in 1..Len(ran) : ran[k].call = queue[k]
        /\ \A k \in 1..Len(Rest) : Rest[k] = queue[Len(ran) + k]
    BY <1>3, <1>5, <1>6
  <2>2. queue \in Seq(Calls) /\ batch \in Seq(Calls) /\ Accounted(batch, log, queue)
        /\ log \in Seq(Handled) /\ ran \in Seq(Handled) /\ Rest \in Seq(Calls)
    BY <1>2, <1>5, <1>6
  <2> QED BY <2>1, <2>2, FirstMove
<1>11. \A k \in DOMAIN (log \o ran) :
         (log \o ran)[k].call \in Builtin \ Allowed <=> (log \o ran)[k].how = "refused"
  <2> HIDE DEF log
  <2>1. /\ DOMAIN (log \o ran) = 1..(Len(log) + n)
        /\ \A k \in 1..Len(log) : (log \o ran)[k] = log[k]
        /\ \A k \in 1..n : (log \o ran)[Len(log) + k] = ran[k]
        /\ DOMAIN log = 1..Len(log) /\ Len(log) \in Nat
    <3>1. log \in Seq(Handled) /\ ran \in Seq(Handled) /\ Len(ran) = n /\ n \in Nat
      BY <1>2, <1>3, <1>6
    <3> QED BY <3>1
  <2>2. ASSUME NEW k \in 1..(Len(log) + n)
        PROVE  (log \o ran)[k].call \in Builtin \ Allowed <=> (log \o ran)[k].how = "refused"
    <3>1. CASE k \in 1..Len(log)
      <4>1. k \in DOMAIN log /\ (log \o ran)[k] = log[k]
        BY <2>1, <3>1
      <4> QED BY <1>2, <4>1
    <3>2. CASE k \notin 1..Len(log)
      <4>1. PICK j \in 1..n : k = Len(log) + j
        <5>1. k - Len(log) \in 1..n /\ k = Len(log) + (k - Len(log))
          BY <1>3, <2>1, <3>2
        <5> QED BY <5>1
      <4>2. (log \o ran)[k].call \in Calls \ Builtin /\ (log \o ran)[k].how = "ran"
        BY <1>3, <1>6, <2>1, <4>1
      <4> QED BY <4>2
    <3> QED BY <3>1, <3>2
  <2> QED BY <2>1, <2>2
<1> HIDE DEF log
<1> QED BY <1>1, <1>4, <1>8, <1>9, <1>10, <1>11, BatchInvNext DEF InBatch

\* However act deals with the head of the queue.
LEMMA ActQueueStep ==
  ASSUME BatchInv, ActQueue
  PROVE  BatchInv'
<1>1. queue # <<>> /\ queue \in Seq(Calls) /\ Head(queue) \in Calls
  BY LogFacts, HeadTailProperties DEF BatchInv, ActQueue, ActBlocked, ActAskUser, ActBuiltin,
     ActBatch
<1>2. CASE ActBlocked
  BY <1>2, OneCall DEF ActBlocked
<1>3. CASE ActAskUser
  BY <1>3, OneCall DEF ActAskUser
<1>4. CASE ActBuiltin
  BY <1>4, OneCall DEF ActBuiltin
<1>5. CASE ActBatch
  BY <1>5, BatchStep
<1> QED BY <1>2, <1>3, <1>4, <1>5 DEF ActQueue

\* The results join the transcript.
LEMMA ObserveQueueStep ==
  ASSUME BatchInv, NEW first, first \notin InBatch, ObserveQueue(first)
  PROVE  BatchInv'
<1> DEFINE log == handled \o results
<1>1. /\ queue \in Seq(Calls) /\ batch \in Seq(Calls)
      /\ log \in Seq(Handled) /\ Accounted(batch, log, queue)
      /\ \A k \in DOMAIN log : log[k].call \in Builtin \ Allowed <=> log[k].how = "refused"
  BY LogFacts
<1>2. /\ handled' = log /\ results' = <<>> /\ queue' = queue /\ batch' = batch
      /\ node' = IF queue # <<>> THEN "act" ELSE first
  BY DEF ObserveQueue
<1> HIDE DEF log
<1>3. (handled \o results)' = log
  BY <1>1, <1>2
<1>4. BatchTypes'
  BY <1>1, <1>2, EmptySeq DEF BatchTypes
<1> QED BY <1>1, <1>2, <1>3, <1>4, BatchInvNext DEF InBatch

\* Steps that leave the queue alone: outside a batch, or from the question to its answer
\* and on with the batch.
LEMMA QueueKept ==
  ASSUME BatchInv, UNCHANGED batchVars,
         node' = "act" => queue # <<>>,
         node' \in {"act", "waiting", "handle_user_response"} => results = <<>>,
         node' \notin InBatch => queue = <<>> /\ results = <<>>
  PROVE  BatchInv'
BY DEF BatchInv, BatchTypes, CallsAccountedFor, batchVars

\* Resuming a queue leaves the account as it is.
LEMMA ResumeQueueStep ==
  ASSUME BatchInv, NEW first, first \notin InBatch, ResumeQueue(first)
  PROVE  BatchInv'
BY QueueKept DEF BatchInv, ResumeQueue, InBatch

\* The user's reply leaves the account as it is.
LEMMA UserRepliesStep ==
  ASSUME BatchInv, UserReplies
  PROVE  BatchInv'
BY QueueKept DEF BatchInv, UserReplies, InBatch

\* Nor does a step outside of any batch change it.
LEMMA OutsideBatch ==
  ASSUME BatchInv, UNCHANGED batchVars, node \notin InBatch, node' \notin InBatch
  PROVE  BatchInv'
BY QueueKept DEF BatchInv, CallsAccountedFor, InBatch
=============================================================================
