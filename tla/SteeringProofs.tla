---------------------------- MODULE SteeringProofs ----------------------------
(***************************************************************************)
(* What guidance can rely on, whatever the number of runs, threads, messages *)
(* and crashes: how the queues of LoopHooks and the copies of a run relate.   *)
(***************************************************************************)
EXTENDS Steering, SequenceTheorems, TLAPS

-----------------------------------------------------------------------------
(* The queues *)

Queue == [run : Runs, queue : Seq(Nat) \ {<<>>}]

\* A run has at most one of the queues.
OneEach(queues) == \A j, k \in DOMAIN queues : queues[j].run = queues[k].run => j = k

\* What is kept of the queues is typed, within the cap and one for a run.
QueuesOK ==
  /\ pending \in Seq(Queue)
  /\ OneEach(pending)
  /\ Len(pending) <= MaxPendingRuns

\* Removing one place of a sequence shifts what is behind it.
LEMMA RemoveAtFacts ==
  ASSUME NEW S, NEW s \in Seq(S), NEW i \in 1..Len(s)
  PROVE  /\ RemoveAt(s, i) \in Seq(S)
         /\ Len(RemoveAt(s, i)) = Len(s) - 1
         /\ \A k \in 1..(Len(s) - 1) : RemoveAt(s, i)[k] = s[IF k < i THEN k ELSE k + 1]
<1> DEFINE a == SubSeq(s, 1, i - 1)
           b == SubSeq(s, i + 1, Len(s))
<1>1. Len(s) \in Nat /\ i \in 1..Len(s)
  OBVIOUS
<1>2. /\ a \in Seq(S) /\ Len(a) = i - 1
      /\ \A k \in 1..(i - 1) : a[k] = s[k]
  BY <1>1
<1>3. /\ b \in Seq(S) /\ Len(b) = Len(s) - i
      /\ \A k \in 1..(Len(s) - i) : b[k] = s[i + k]
  BY <1>1
<1> HIDE DEF a, b
<1>4. /\ a \o b \in Seq(S) /\ Len(a \o b) = Len(a) + Len(b)
      /\ \A k \in 1..(Len(a) + Len(b)) :
           (a \o b)[k] = IF k <= Len(a) THEN a[k] ELSE b[k - Len(a)]
  BY <1>2, <1>3, ConcatProperties, Zenon
<1>5. ASSUME NEW k \in 1..(Len(s) - 1)
      PROVE  (a \o b)[k] = s[IF k < i THEN k ELSE k + 1]
  BY <1>1, <1>2, <1>3, <1>4
<1>6. Len(a \o b) = Len(s) - 1
  BY <1>1, <1>2, <1>3, <1>4
<1>7. RemoveAt(s, i) = a \o b
  BY DEF RemoveAt, a, b
<1> QED BY <1>4, <1>5, <1>6, <1>7, Zenon

\* A run that has a queue has it at one place.
LEMMA PlaceFacts ==
  ASSUME NEW r, HasQueue(r)
  PROVE  PlaceOf(r) \in DOMAIN pending /\ pending[PlaceOf(r)].run = r
BY DEF HasQueue, PlaceOf

\* Dropping a run's queue leaves the others as they are.
LEMMA WithoutFacts ==
  ASSUME QueuesOK, NEW r
  PROVE  /\ Without(r) \in Seq(Queue)
         /\ OneEach(Without(r))
         /\ Len(Without(r)) <= MaxPendingRuns
         /\ \A k \in DOMAIN Without(r) : /\ Without(r)[k].run # r
                                         /\ \E j \in DOMAIN pending : Without(r)[k] = pending[j]
<1>1. CASE ~HasQueue(r)
  BY <1>1 DEF Without, HasQueue, QueuesOK
<1>2. CASE HasQueue(r)
  <2> DEFINE i == PlaceOf(r)
             w == RemoveAt(pending, i)
  <2>1. i \in 1..Len(pending) /\ pending[i].run = r /\ Without(r) = w
    BY <1>2, PlaceFacts DEF QueuesOK, Without
  <2>2. /\ w \in Seq(Queue)
        /\ Len(w) = Len(pending) - 1
        /\ \A k \in 1..(Len(pending) - 1) : w[k] = pending[IF k < i THEN k ELSE k + 1]
    BY <2>1, RemoveAtFacts DEF QueuesOK
  <2> HIDE DEF i, w
  <2>3. Len(pending) \in Nat /\ DOMAIN w = 1..(Len(pending) - 1)
    BY <2>2 DEF QueuesOK
  <2>4. OneEach(w)
    <3> SUFFICES ASSUME NEW j \in 1..(Len(pending) - 1), NEW k \in 1..(Len(pending) - 1),
                        w[j].run = w[k].run
                 PROVE  j = k
      BY <2>3 DEF OneEach
    <3>1. (IF j < i THEN j ELSE j + 1) = (IF k < i THEN k ELSE k + 1)
      BY <2>1, <2>2, <2>3 DEF QueuesOK, OneEach
    <3> QED BY <2>1, <2>3, <3>1
  <2>5. ASSUME NEW k \in DOMAIN w
        PROVE  w[k].run # r /\ \E j \in DOMAIN pending : w[k] = pending[j]
    <3> DEFINE j == IF k < i THEN k ELSE k + 1
    <3>1. j \in 1..Len(pending) /\ j # i /\ w[k] = pending[j]
      BY <2>1, <2>2, <2>3, <2>5
    <3>2. DOMAIN pending = 1..Len(pending)
      BY DEF QueuesOK
    <3> QED BY <2>1, <3>1, <3>2 DEF QueuesOK, OneEach
  <2>6. Len(w) <= MaxPendingRuns
    BY <2>2, <2>3, SteeringAssumption DEF QueuesOK
  <2> QED BY <2>1, <2>2, <2>4, <2>5, <2>6
<1> QED BY <1>1, <1>2

\* A queue a run has is among the queues kept.
LEMMA QueueOfFacts ==
  ASSUME QueuesOK, NEW r
  PROVE  /\ QueueOf(r) \in Seq(Nat)
         /\ \/ QueueOf(r) = <<>>
            \/ \E k \in DOMAIN pending : pending[k].run = r /\ pending[k].queue = QueueOf(r)
<1>1. CASE HasQueue(r)
  <2>1. PlaceOf(r) \in DOMAIN pending /\ pending[PlaceOf(r)].run = r
    BY <1>1, PlaceFacts
  <2>2. pending[PlaceOf(r)] \in Queue
    BY <2>1 DEF QueuesOK
  <2> QED BY <1>1, <2>1, <2>2 DEF QueueOf, Queue
<1>2. CASE ~HasQueue(r)
  BY <1>2 DEF QueueOf
<1> QED BY <1>1, <1>2

\* A message joins the queue of its run, which is opened if need be.
LEMMA QueuedFacts ==
  ASSUME QueuesOK, NEW r \in Runs, NEW m \in Nat
  PROVE  LET q == Queued(r, m)
         IN  /\ q \in Seq(Queue) /\ OneEach(q) /\ Len(q) <= Len(pending) + 1
             /\ \A k \in DOMAIN q :
                  \/ q[k].run # r /\ \E j \in DOMAIN pending : q[k] = pending[j]
                  \/ q[k].run = r /\ q[k].queue = Append(QueueOf(r), m)
<1>1. Len(pending) \in Nat /\ DOMAIN pending = 1..Len(pending)
  BY DEF QueuesOK
<1>2. CASE HasQueue(r)
  <2> DEFINE i == PlaceOf(r)
             new == [run |-> r, queue |-> Append(QueueOf(r), m)]
  <2>1. i \in 1..Len(pending) /\ pending[i].run = r /\ QueueOf(r) = pending[i].queue
    BY <1>1, <1>2, PlaceFacts DEF QueueOf
  <2>2. pending[i] \in Queue
    BY <2>1 DEF QueuesOK
  <2>3. Append(QueueOf(r), m) \in Seq(Nat) \ {<<>>}
    BY <2>1, <2>2 DEF Queue
  <2>4. new \in Queue /\ new.run = r /\ new.queue = Append(QueueOf(r), m)
    BY <2>3 DEF Queue
  <2>5. [pending[i] EXCEPT !.queue = Append(@, m)] = new
    <3>1. \A p \in Queue : \A x : [p EXCEPT !.queue = x] = [run |-> p.run, queue |-> x]
      BY DEF Queue
    <3> QED BY <2>1, <2>2, <3>1
  <2> HIDE DEF i, new
  <2>6. \A k \in 1..Len(pending) : pending[k].run = r <=> k = i
    BY <1>1, <2>1 DEF QueuesOK, OneEach
  <2>7. Queued(r, m) = [k \in 1..Len(pending) |-> IF k = i THEN new ELSE pending[k]]
    BY <1>1, <1>2, <2>5, <2>6 DEF Queued
  <2>8. Queued(r, m) = [pending EXCEPT ![i] = new]
    BY <1>1, <2>1, <2>7 DEF QueuesOK
  <2>9. /\ Queued(r, m) \in Seq(Queue) /\ Len(Queued(r, m)) = Len(pending)
        /\ \A k \in 1..Len(pending) : Queued(r, m)[k] = IF k = i THEN new ELSE pending[k]
    BY <2>1, <2>4, <2>8, ExceptSeq DEF QueuesOK
  <2> HIDE DEF Queued
  <2>10. DOMAIN Queued(r, m) = 1..Len(pending)
    BY <2>9
  <2>11. OneEach(Queued(r, m))
    BY <1>1, <2>1, <2>4, <2>6, <2>9, <2>10 DEF QueuesOK, OneEach
  <2> QED BY <1>1, <2>4, <2>6, <2>9, <2>10, <2>11
<1>3. CASE ~HasQueue(r)
  <2> DEFINE new == [run |-> r, queue |-> <<m>>]
  <2>1. Queued(r, m) = Append(pending, new) /\ QueueOf(r) = <<>>
    BY <1>3 DEF Queued, QueueOf
  <2>2. <<m>> = Append(<<>>, m) /\ <<m>> \in Seq(Nat) \ {<<>>}
    OBVIOUS
  <2>3. new \in Queue /\ new.run = r /\ new.queue = Append(QueueOf(r), m)
    BY <2>1, <2>2 DEF Queue
  <2> HIDE DEF new
  <2>4. /\ Queued(r, m) \in Seq(Queue) /\ Len(Queued(r, m)) = Len(pending) + 1
        /\ \A k \in 1..Len(pending) : Queued(r, m)[k] = pending[k]
        /\ Queued(r, m)[Len(pending) + 1] = new
    BY <2>1, <2>3 DEF QueuesOK
  <2>5. DOMAIN Queued(r, m) = 1..(Len(pending) + 1)
    BY <2>4
  <2>6. \A k \in 1..Len(pending) : pending[k].run # r
    BY <1>1, <1>3 DEF HasQueue
  <2>7. OneEach(Queued(r, m))
    BY <1>1, <2>3, <2>4, <2>5, <2>6 DEF QueuesOK, OneEach
  <2> QED BY <1>1, <2>3, <2>4, <2>5, <2>6, <2>7
<1> QED BY <1>2, <1>3

\* Past the cap one queue goes, and none changes.
LEMMA CappedFacts ==
  ASSUME NEW q \in Seq(Queue), OneEach(q), Len(q) <= MaxPendingRuns + 1
  PROVE  /\ Capped(q) \in Seq(Queue) /\ OneEach(Capped(q)) /\ Len(Capped(q)) <= MaxPendingRuns
         /\ \A k \in DOMAIN Capped(q) : \E j \in DOMAIN q : Capped(q)[k] = q[j]
<1>1. MaxPendingRuns \in Nat \ {0} /\ Len(q) \in Nat /\ DOMAIN q = 1..Len(q)
  BY SteeringAssumption
<1>2. CASE Len(q) > MaxPendingRuns
  <2>1. q # <<>>
    BY <1>1, <1>2
  <2>2. /\ Tail(q) \in Seq(Queue) /\ Len(Tail(q)) = Len(q) - 1
        /\ \A k \in 1..Len(Tail(q)) : Tail(q)[k] = q[k + 1]
    BY <2>1, HeadTailProperties
  <2>3. DOMAIN Tail(q) = 1..(Len(q) - 1)
    BY <2>2
  <2>4. OneEach(Tail(q))
    BY <1>1, <2>2, <2>3 DEF OneEach
  <2>5. Capped(q) = Tail(q)
    BY <1>2 DEF Capped
  <2> QED BY <1>1, <2>2, <2>3, <2>4, <2>5
<1>3. CASE ~(Len(q) > MaxPendingRuns)
  BY <1>1, <1>3 DEF Capped
<1> QED BY <1>2, <1>3

-----------------------------------------------------------------------------
(* Runs of messages *)

Message == [run : Runs, via : {"hook", "inbox"}, to : {"live", "ticked", "closing", "dead"}]

\* The messages s were given to r, each channel's in the order they were given.
Clean(g, r, s) ==
  /\ \A k \in DOMAIN s : s[k] \in DOMAIN g /\ g[s[k]].run = r
  /\ \A j, k \in DOMAIN s : j < k /\ g[s[j]].via = g[s[k]].via => s[j] < s[k]

\* The messages q are hook messages.
Hooks(g, q) == \A k \in DOMAIN q : g[q[k]].via = "hook"

\* ... and were given after those in s.
Later(g, s, q) == \A j \in DOMAIN s, k \in DOMAIN q : g[s[j]].via = "hook" => s[j] < q[k]

\* Another message given changes nothing for the ones before it.
LEMMA GivenGrows ==
  ASSUME NEW g \in Seq(Message), NEW x \in Message, NEW r, NEW s \in Seq(Nat), Clean(g, r, s)
  PROVE  /\ Clean(Append(g, x), r, s)
         /\ Hooks(g, s) => Hooks(Append(g, x), s)
         /\ \A q : Later(g, s, q) => Later(Append(g, x), s, q)
<1>1. /\ \A k \in DOMAIN g : k \in DOMAIN Append(g, x) /\ Append(g, x)[k] = g[k]
  OBVIOUS
<1> HIDE DEF Message
<1> DEFINE gg == Append(g, x)
<1>2. \A k \in DOMAIN s : s[k] \in DOMAIN gg /\ gg[s[k]] = g[s[k]]
  BY <1>1 DEF Clean
<1> HIDE DEF gg
<1> QED BY <1>2 DEF Clean, Hooks, Later, gg

\* The new message goes last.
LEMMA GivenLast ==
  ASSUME NEW g \in Seq(Message), NEW x \in Message, NEW s \in Seq(Nat), Clean(g, x.run, s)
  PROVE  /\ Clean(Append(g, x), x.run, Append(s, Len(g) + 1))
         /\ Hooks(g, s) /\ x.via = "hook" => Hooks(Append(g, x), Append(s, Len(g) + 1))
         /\ \A q : Later(g, s, q) /\ x.via # "hook"
                 => Later(Append(g, x), Append(s, Len(g) + 1), q)
<1> DEFINE n == Len(g) + 1
           gg == Append(g, x)
           ss == Append(s, n)
<1>1. /\ DOMAIN g = 1..Len(g) /\ Len(g) \in Nat /\ DOMAIN s = 1..Len(s) /\ Len(s) \in Nat
      /\ DOMAIN gg = 1..n /\ gg[n] = x /\ \A k \in DOMAIN g : gg[k] = g[k]
      /\ DOMAIN ss = 1..(Len(s) + 1) /\ ss[Len(s) + 1] = n
      /\ \A k \in DOMAIN s : ss[k] = s[k]
  OBVIOUS
<1> HIDE DEF gg, ss
<1>2. \A k \in DOMAIN s : ss[k] \in DOMAIN g /\ ss[k] = s[k] /\ ss[k] < n /\ gg[ss[k]] = g[s[k]]
  BY <1>1 DEF Clean
<1>3. n \in Nat /\ n \in DOMAIN gg /\ \A k \in DOMAIN ss : k \in DOMAIN s \/ ss[k] = n
  BY <1>1
<1>4. Clean(gg, x.run, ss)
  <2>1. \A k \in DOMAIN ss : ss[k] \in DOMAIN gg /\ gg[ss[k]].run = x.run
    BY <1>1, <1>2, <1>3 DEF Clean
  <2>2. ASSUME NEW j \in DOMAIN ss, NEW k \in DOMAIN ss, j < k, gg[ss[j]].via = gg[ss[k]].via
        PROVE  ss[j] < ss[k]
    <3>1. j \in DOMAIN s
      BY <1>1, <2>2
    <3>2. CASE k \in DOMAIN s
      BY <1>2, <2>2, <3>1, <3>2 DEF Clean
    <3>3. CASE k \notin DOMAIN s
      BY <1>2, <1>3, <3>1, <3>3
    <3> QED BY <3>2, <3>3
  <2> QED BY <2>1, <2>2 DEF Clean
<1>5. Hooks(g, s) /\ x.via = "hook" => Hooks(gg, ss)
  BY <1>1, <1>2, <1>3 DEF Hooks
<1>6. \A q : Later(g, s, q) /\ x.via # "hook" => Later(gg, ss, q)
  BY <1>1, <1>2, <1>3 DEF Later
<1> QED BY <1>4, <1>5, <1>6 DEF gg, ss

\* A message given after all others is later than any of them.
LEMMA GivenLater ==
  ASSUME NEW g \in Seq(Message), NEW x \in Message, NEW r, NEW s \in Seq(Nat), Clean(g, r, s),
         NEW q \in Seq(Nat), Later(g, s, q)
  PROVE  Later(Append(g, x), s, Append(q, Len(g) + 1))
<1> DEFINE n == Len(g) + 1
           gg == Append(g, x)
           qq == Append(q, n)
<1>1. /\ DOMAIN g = 1..Len(g) /\ Len(g) \in Nat
      /\ \A k \in DOMAIN g : gg[k] = g[k] /\ k < n
      /\ \A k \in DOMAIN qq : (k \in DOMAIN q /\ qq[k] = q[k]) \/ qq[k] = n
  OBVIOUS
<1> HIDE DEF gg, qq
<1>2. \A k \in DOMAIN s : gg[s[k]] = g[s[k]] /\ s[k] < n
  BY <1>1 DEF Clean
<1>3. Later(gg, s, qq)
  BY <1>1, <1>2 DEF Later
<1> QED BY <1>3 DEF gg, qq

\* A queue joins what is held.
LEMMA QueueJoins ==
  ASSUME NEW g, NEW r, NEW s \in Seq(Nat), NEW q \in Seq(Nat),
         Clean(g, r, s), Clean(g, r, q), Hooks(g, q), Later(g, s, q)
  PROVE  Clean(g, r, s \o q)
<1> DEFINE c == s \o q
<1>1. /\ Len(s) \in Nat /\ Len(q) \in Nat
      /\ DOMAIN s = 1..Len(s) /\ DOMAIN q = 1..Len(q) /\ DOMAIN c = 1..(Len(s) + Len(q))
      /\ \A k \in 1..(Len(s) + Len(q)) : c[k] = IF k <= Len(s) THEN s[k] ELSE q[k - Len(s)]
  BY ConcatProperties
<1> HIDE DEF c
<1>2. ASSUME NEW k \in DOMAIN c
      PROVE  \/ k \in DOMAIN s /\ c[k] = s[k]
             \/ k > Len(s) /\ k - Len(s) \in DOMAIN q /\ c[k] = q[k - Len(s)]
  <2>1. k \in 1..(Len(s) + Len(q)) /\ k \in Nat
    BY <1>1, <1>2
  <2>2. c[k] = IF k <= Len(s) THEN s[k] ELSE q[k - Len(s)]
    BY <1>1, <2>1
  <2>3. CASE k <= Len(s)
    BY <1>1, <2>1, <2>2, <2>3
  <2>4. CASE k > Len(s)
    BY <1>1, <2>1, <2>2, <2>4
  <2> QED BY <1>1, <2>1, <2>3, <2>4
<1>3. \A k \in DOMAIN c : c[k] \in DOMAIN g /\ g[c[k]].run = r
  BY <1>2 DEF Clean
<1>4. ASSUME NEW j \in DOMAIN c, NEW k \in DOMAIN c, j < k, g[c[j]].via = g[c[k]].via
      PROVE  c[j] < c[k]
  <2>1. CASE k \in DOMAIN s /\ c[k] = s[k]
    <3>1. j \in DOMAIN s /\ c[j] = s[j]
      BY <1>1, <1>4, <2>1
    <3> QED BY <1>4, <2>1, <3>1 DEF Clean
  <2>2. CASE k > Len(s) /\ k - Len(s) \in DOMAIN q /\ c[k] = q[k - Len(s)]
    <3>1. CASE j \in DOMAIN s /\ c[j] = s[j]
      BY <1>4, <2>2, <3>1 DEF Hooks, Later
    <3>2. CASE j > Len(s) /\ j - Len(s) \in DOMAIN q /\ c[j] = q[j - Len(s)]
      <4>1. j - Len(s) < k - Len(s)
        BY <1>1, <1>4, <2>2, <3>2
      <4> QED BY <1>4, <2>2, <3>2, <4>1 DEF Clean
    <3> QED BY <1>2, <3>1, <3>2
  <2> QED BY <1>2, <2>1, <2>2
<1> QED BY <1>3, <1>4 DEF Clean, c

-----------------------------------------------------------------------------
(* The inductive invariant *)

TickState == [run : Runs \union {Nobody}, copy : RunState,
              at : {"idle", "body", "after", "discarded"}, noisy : BOOLEAN]

\* What a copy of a run has absorbed, and what waits in its inbox.
Held(v) == v.seen \o v.inbox

\* What a run ended as by itself: nobody but the host writes it any more.
Ended == {"completed", "failed"}

\* A thread is idle or ticks a run that did not end, which no other thread ticks; a
\* host that writes a run that ended writes what it ended as.
Scheduled ==
  /\ \A t \in Threads : tick[t].at = "idle" <=> tick[t].run = Nobody
  /\ \A t, u \in Threads : tick[t].run = tick[u].run /\ tick[t].run # Nobody => t = u
  /\ \A t \in Threads : tick[t].run # Nobody => store[tick[t].run].node \notin Ended
  /\ \A t \in Threads : tick[t].at \in {"body", "after"} => tick[t].copy.node # "completed"
  /\ injector.run = Nobody => injector = NoInjection
  /\ injector.run # Nobody /\ injector.copy.node \in Ended
       => store[injector.run].node = injector.copy.node

\* s is what some copy of r holds: the stored one, a tick's or the host's.
IsHeld(r, s) ==
  \/ s = Held(store[r])
  \/ \E t \in Threads : tick[t].run = r /\ s = Held(tick[t].copy)
  \/ injector.run = r /\ s = Held(injector.copy)

\* Whatever copy is saved last, a run holds its own messages in order, and those
\* of its queue are later.
HeldInv ==
  \A r \in Runs, s \in Seq(Nat) : IsHeld(r, s) =>
    /\ Clean(given, r, s)
    /\ \A k \in DOMAIN pending : pending[k].run = r => Later(given, s, pending[k].queue)

\* The queues hold their runs' hook messages in order.
QueueInv ==
  \A k \in DOMAIN pending : /\ Clean(given, pending[k].run, pending[k].queue)
                            /\ Hooks(given, pending[k].queue)

\* The inductive invariant.
IInv == TypeOK /\ Scheduled /\ HeldInv /\ QueueInv

-----------------------------------------------------------------------------
(* What a step does to the copies *)

\* What TypeOK says of the variables.
LEMMA TypeFacts ==
  ASSUME TypeOK
  PROVE  /\ store \in [Runs -> RunState] /\ tick \in [Threads -> TickState]
         /\ \A t \in Threads : tick[t] \in TickState
         /\ \A r \in Runs : store[r] \in RunState
         /\ injector.run \in Runs \union {Nobody} /\ injector.copy \in RunState
         /\ QueuesOK
         /\ given \in Seq(Message) /\ Len(given) \in Nat /\ DOMAIN given = 1..Len(given)
         /\ Nobody \notin Runs
BY SteeringAssumption DEF TypeOK, TickState, QueuesOK, OneEach, Queue, Message

\* What moving a copy of a run to another node leaves as it is.
LEMMA NodeFacts ==
  ASSUME NEW v \in RunState, NEW node \in Nodes
  PROVE  LET w == [v EXCEPT !.node = node]
         IN  w \in RunState /\ w.node = node /\ w.inbox = v.inbox /\ w.seen = v.seen
BY DEF RunState

\* What draining its inbox makes of a copy.
LEMMA SeenFacts ==
  ASSUME NEW v \in RunState, NEW seen \in Seq(Nat)
  PROVE  LET w == [v EXCEPT !.inbox = <<>>, !.seen = seen]
         IN  w \in RunState /\ w.inbox = <<>> /\ w.seen = seen
<1>1. \A inbox \in Seq(Nat) : LET w == [v EXCEPT !.inbox = inbox, !.seen = seen]
                              IN  w \in RunState /\ w.inbox = inbox /\ w.seen = seen
  BY DEF RunState
<1>2. <<>> \in Seq(Nat)
  OBVIOUS
<1> QED BY <1>1, <1>2

\* Moving the stored run to another node leaves what it holds.
LEMMA MarkFacts ==
  ASSUME TypeOK, NEW r \in Runs, NEW node \in Nodes, store' = [store EXCEPT ![r].node = node]
  PROVE  /\ store' \in [Runs -> RunState]
         /\ \A q \in Runs : /\ store'[q].node = IF q = r THEN node ELSE store[q].node
                            /\ store'[q].inbox = store[q].inbox /\ store'[q].seen = store[q].seen
<1> DEFINE w == [store[r] EXCEPT !.node = node]
<1>1. store \in [Runs -> RunState] /\ store[r] \in RunState
  BY DEF TypeOK
<1>2. w \in RunState /\ w.node = node /\ w.inbox = store[r].inbox /\ w.seen = store[r].seen
  BY <1>1, NodeFacts
<1>3. store' = [store EXCEPT ![r] = w]
  OBVIOUS
<1> HIDE DEF w
<1> QED BY <1>1, <1>2, <1>3

\* A tick is saved over the stored run, or leaves a run that was cancelled as it is.
LEMMA SaveFacts ==
  ASSUME TypeOK, NEW t \in Threads, Save(t)
  PROVE  /\ tick[t].at \in {"after", "discarded"}
         /\ \A u \in Threads : tick'[u] = IF u = t THEN Idle ELSE tick[u]
         /\ \E v \in RunState :
              /\ v = tick[t].copy \/ (v = store[tick[t].run] /\ v.node = "cancelled")
              /\ \A q \in Runs : store'[q] = IF q = tick[t].run THEN v ELSE store[q]
         /\ store' \in [Runs -> RunState]
<1>1. /\ store \in [Runs -> RunState] /\ DOMAIN tick = Threads
      /\ tick[t].copy \in RunState /\ tick[t].run \in Runs \union {Nobody}
  BY DEF TypeOK
<1>2. \A u \in Threads : tick'[u] = IF u = t THEN Idle ELSE tick[u]
  BY <1>1 DEF Save
<1>3. CASE store' = [store EXCEPT ![tick[t].run] = tick[t].copy]
  BY <1>1, <1>2, <1>3 DEF Save
<1>4. CASE store[tick[t].run].node = "cancelled" /\ store' = store
  <2> DEFINE v == IF tick[t].run \in Runs THEN store[tick[t].run] ELSE tick[t].copy
  <2>1. v \in RunState /\ (v = tick[t].copy \/ (v = store[tick[t].run] /\ v.node = "cancelled"))
    BY <1>1, <1>4
  <2>2. \A q \in Runs : store'[q] = IF q = tick[t].run THEN v ELSE store[q]
    BY <1>4
  <2> HIDE DEF v
  <2> QED BY <1>1, <1>2, <1>4, <2>1, <2>2 DEF Save
<1> QED BY <1>3, <1>4 DEF Save

\* What a copy holds is a sequence of messages.
LEMMA HeldType ==
  ASSUME NEW v \in RunState
  PROVE  Held(v) \in Seq(Nat)
BY ConcatProperties DEF RunState, Held

\* Thread t goes on to the tick w of the same run.
TicksTo(t, w) ==
  /\ w \in TickState
  /\ tick' = [tick EXCEPT ![t] = w]
  /\ w.run = tick[t].run

\* A node leaves the copy of w, and folds the run's queue into it or leaves it be.
Leaves(t, w) ==
  /\ tick[t].at = "body" /\ w.at = "after"
  /\ TicksTo(t, w)
  /\ w.copy.node # "completed"
  /\ UNCHANGED <<store, injector, given, reported, crashes>>
  /\ \/ pending' = pending /\ Held(w.copy) = Held(tick[t].copy)
     \/ /\ pending' = Without(tick[t].run)
        /\ Held(w.copy) = Held(tick[t].copy) \o QueueOf(tick[t].run)

\* Leave, as one assignment.
LEMMA LeaveFacts ==
  ASSUME TypeOK, NEW t \in Threads, NEW v \in RunState, Leave(t, v)
  PROVE  \E w : TicksTo(t, w) /\ w.copy = v /\ w.at = "after"
<1> DEFINE w == [tick[t] EXCEPT !.copy = v, !.at = "after"]
<1>1. tick[t] \in TickState /\ DOMAIN tick = Threads
  BY TypeFacts
<1>2. \A x \in TickState : LET y == [x EXCEPT !.copy = v, !.at = "after"]
                           IN  y \in TickState /\ y.copy = v /\ y.at = "after" /\ y.run = x.run
  BY DEF TickState
<1>3. tick' = [tick EXCEPT ![t] = w]
  BY <1>1 DEF Leave
<1> QED BY <1>1, <1>2, <1>3 DEF TicksTo

\* Drain, TurnToConclude, Work and Ask leave a copy.
LEMMA BodyFacts ==
  ASSUME TypeOK, NEW t \in Threads, Drain(t) \/ TurnToConclude(t) \/ Work(t) \/ Ask(t)
  PROVE  \E w : Leaves(t, w)
<1> DEFINE c == tick[t].copy
           q == QueueOf(tick[t].run)
<1>1. /\ c \in RunState /\ c.seen \in Seq(Nat) /\ c.inbox \in Seq(Nat) /\ c.node \in Nodes
      /\ q \in Seq(Nat) /\ <<>> \in Seq(Nat)
  BY TypeFacts, QueueOfFacts DEF TickState, RunState
<1> HIDE DEF q
<1>2. ASSUME NEW node \in Nodes \ {"completed"}, NEW v \in RunState
      PROVE  LET w == [v EXCEPT !.node = node]
             IN  w \in RunState /\ w.node # "completed" /\ Held(w) = Held(v)
  <2> DEFINE w == [v EXCEPT !.node = node]
  <2>1. w \in RunState /\ w.node = node /\ w.inbox = v.inbox /\ w.seen = v.seen
    BY NodeFacts
  <2> HIDE DEF w
  <2>2. w \in RunState /\ w.node # "completed" /\ Held(w) = Held(v)
    BY <2>1 DEF Held
  <2> QED BY <2>2 DEF w
<1>3. CASE Drain(t)
  <2>1. PICK node \in Nodes \ {"completed"} : Leave(t, [Drained(c, q) EXCEPT !.node = node])
    BY <1>3 DEF Drain, Nodes, Dead, CurrentRun, q
  <2> DEFINE s == c.seen \o c.inbox \o q
             d == Drained(c, q)
             v == [d EXCEPT !.node = node]
  <2>2. s \in Seq(Nat) /\ s \o <<>> = s
    <3>1. c.seen \o c.inbox \in Seq(Nat)
      BY <1>1, ConcatProperties
    <3>2. s \in Seq(Nat)
      BY <1>1, <3>1, ConcatProperties
    <3> QED BY <3>2, ConcatEmptySeq
  <2>3. d \in RunState /\ d.inbox = <<>> /\ d.seen = s
    <3> HIDE DEF s
    <3>1. d = [c EXCEPT !.inbox = <<>>, !.seen = s]
      BY DEF Drained, s
    <3>2. c \in RunState /\ s \in Seq(Nat)
      BY <1>1, <2>2
    <3> HIDE DEF d, c
    <3> QED BY <3>1, <3>2, SeenFacts
  <2>4. Held(d) = Held(c) \o q
    BY <2>2, <2>3 DEF Held
  <2> HIDE DEF s, d
  <2>5. v \in RunState /\ v.node # "completed" /\ Held(v) = Held(c) \o q
    BY <1>2, <2>3, <2>4
  <2>6. Leave(t, v)
    BY <2>1 DEF d
  <2> HIDE DEF v
  <2>7. PICK w : TicksTo(t, w) /\ w.copy = v /\ w.at = "after"
    BY <2>5, <2>6, LeaveFacts
  <2> QED BY <1>3, <2>5, <2>7 DEF Drain, Leaves, CurrentRun, q
<1>4. CASE TurnToConclude(t)
  <2>1. CASE /\ pending' = Without(CurrentRun(t))
             /\ Leave(t, [c EXCEPT !.node = "conclude", !.inbox = @ \o q])
    <3> DEFINE i == c.inbox \o q
               v == [c EXCEPT !.node = "conclude", !.inbox = i]
    <3>1. i \in Seq(Nat)
      BY <1>1, ConcatProperties
    <3>2. c.seen \o i = (c.seen \o c.inbox) \o q
      <4>1. \A x, y, z \in Seq(Nat) : x \o (y \o z) = (x \o y) \o z
        BY ConcatAssociative
      <4> QED BY <1>1, <4>1
    <3>3. Leave(t, v)
      BY <2>1
    <3> HIDE DEF i
    <3>4. v \in RunState /\ v.node = "conclude" /\ v.inbox = i /\ v.seen = c.seen
      <4>1. "conclude" \in Nodes
        BY DEF Nodes
      <4>2. \A x \in RunState :
              LET w == [x EXCEPT !.node = "conclude", !.inbox = i]
              IN  w \in RunState /\ w.node = "conclude" /\ w.inbox = i /\ w.seen = x.seen
        BY <3>1, <4>1 DEF RunState
      <4> QED BY <1>1, <4>2
    <3> HIDE DEF v
    <3>5. Held(v) = Held(c) \o q
      BY <3>2, <3>4 DEF Held
    <3>6. PICK w : TicksTo(t, w) /\ w.copy = v /\ w.at = "after"
      BY <3>3, <3>4, LeaveFacts
    <3> QED BY <1>4, <2>1, <3>4, <3>5, <3>6 DEF TurnToConclude, Leaves, CurrentRun, q
  <2>2. CASE pending' = pending /\ Leave(t, [c EXCEPT !.node = "conclude"])
    <3> DEFINE v == [c EXCEPT !.node = "conclude"]
    <3>1. v \in RunState /\ v.node # "completed" /\ Held(v) = Held(c)
      BY <1>1, <1>2 DEF Nodes
    <3> HIDE DEF v
    <3>2. Leave(t, v)
      BY <2>2 DEF v
    <3>3. PICK w : TicksTo(t, w) /\ w.copy = v /\ w.at = "after"
      BY <3>1, <3>2, LeaveFacts
    <3> QED BY <1>4, <2>2, <3>1, <3>3 DEF TurnToConclude, Leaves
  <2> QED BY <1>4, <2>1, <2>2 DEF TurnToConclude, CurrentRun, q
<1>5. CASE Work(t) \/ Ask(t)
  <2>1. PICK node \in Nodes \ {"completed"} : Leave(t, [c EXCEPT !.node = node])
    BY <1>5 DEF Work, Ask, Nodes, Dead
  <2> DEFINE v == [c EXCEPT !.node = node]
  <2>2. v \in RunState /\ v.node # "completed" /\ Held(v) = Held(c)
    BY <1>1, <1>2
  <2> HIDE DEF v
  <2>3. Leave(t, v)
    BY <2>1 DEF v
  <2>4. PICK w : TicksTo(t, w) /\ w.copy = v /\ w.at = "after"
    BY <2>2, <2>3, LeaveFacts
  <2> QED BY <1>5, <2>2, <2>4 DEF Work, Ask, Leaves
<1> QED BY <1>3, <1>4, <1>5

\* Close completes the copy and leaves what it holds.
LEMMA CloseFacts ==
  ASSUME TypeOK, NEW t \in Threads, Close(t)
  PROVE  \E w : /\ TicksTo(t, w) /\ w.at = "discarded"
                /\ w.copy.node = "completed" /\ w.copy.inbox = tick[t].copy.inbox
                /\ Held(w.copy) = Held(tick[t].copy)
<1>1. tick[t] \in TickState /\ tick[t].copy \in RunState /\ DOMAIN tick = Threads
  BY TypeFacts DEF TickState
<1> DEFINE v == [tick[t].copy EXCEPT !.node = "completed"]
<1>2. v \in RunState /\ v.node = "completed" /\ v.inbox = tick[t].copy.inbox
      /\ v.seen = tick[t].copy.seen
  BY <1>1, NodeFacts DEF Nodes, Dead
<1>3. PICK noisy \in BOOLEAN :
        tick' = [tick EXCEPT ![t] = [@ EXCEPT !.copy = v, !.at = "discarded", !.noisy = noisy]]
  <2>1. (HasQueue(CurrentRun(t)) \/ Undelivered(tick[t].copy) # {}) \in BOOLEAN
    BY DEF HasQueue
  <2> QED BY <1>1, <2>1 DEF Close
<1> HIDE DEF v
<1>4. \A x \in TickState : LET y == [x EXCEPT !.copy = v, !.at = "discarded", !.noisy = noisy]
                           IN  y \in TickState /\ y.copy = v /\ y.at = "discarded" /\ y.run = x.run
  BY <1>2 DEF TickState
<1>5. Held(v) = Held(tick[t].copy)
  BY <1>2 DEF Held
<1> DEFINE w == [tick[t] EXCEPT !.copy = v, !.at = "discarded", !.noisy = noisy]
<1>6. tick' = [tick EXCEPT ![t] = w]
  BY <1>3
<1>7. w \in TickState /\ w.copy = v /\ w.at = "discarded" /\ w.run = tick[t].run
  BY <1>1, <1>4
<1> HIDE DEF w
<1> QED BY <1>2, <1>5, <1>6, <1>7 DEF TicksTo

\* Where a copy is held after a step.
LEMMA HeldNext ==
  ASSUME NEW r, NEW s, IsHeld(r, s)'
  PROVE  \/ s = Held(store'[r])
         \/ \E u \in Threads : tick'[u].run = r /\ s = Held(tick'[u].copy)
         \/ injector'.run = r /\ s = Held(injector'.copy)
BY DEF IsHeld, Held

\* Of what a tick goes on to, the new copy alone is new.
LEMMA TicksCopies ==
  ASSUME TypeOK, NEW t \in Threads, NEW w, TicksTo(t, w), UNCHANGED <<store, injector>>,
         NEW r, NEW s, IsHeld(r, s)'
  PROVE  IsHeld(r, s) \/ (tick[t].run = r /\ s = Held(w.copy))
<1>1. \A u \in Threads : tick'[u] = IF u = t THEN w ELSE tick[u]
  BY TypeFacts DEF TicksTo
<1>2. CASE \E u \in Threads : tick'[u].run = r /\ s = Held(tick'[u].copy)
  <2>1. PICK u \in Threads : tick'[u].run = r /\ s = Held(tick'[u].copy)
    BY <1>2
  <2>2. CASE u = t
    BY <1>1, <2>1, <2>2 DEF TicksTo
  <2>3. CASE u # t
    BY <1>1, <2>1, <2>3 DEF IsHeld
  <2> QED BY <2>2, <2>3
<1>3. CASE s = Held(store[r]) \/ (injector.run = r /\ s = Held(injector.copy))
  BY <1>3 DEF IsHeld
<1> QED BY <1>2, <1>3, HeldNext

\* A step that gives nothing, opens no queue and makes no new copy.
LEMMA QuietStep ==
  ASSUME HeldInv, QueueInv, given' = given,
         \A k \in DOMAIN pending' : \E j \in DOMAIN pending : pending'[k] = pending[j],
         \A r \in Runs : \A s : IsHeld(r, s)' => IsHeld(r, s)
  PROVE  HeldInv' /\ QueueInv'
<1>1. QueueInv'
  BY DEF QueueInv
<1>2. ASSUME NEW r \in Runs, NEW s \in Seq(Nat), IsHeld(r, s)'
      PROVE  /\ Clean(given, r, s)
             /\ \A k \in DOMAIN pending' : pending'[k].run = r => Later(given, s, pending'[k].queue)
  BY <1>2 DEF HeldInv
<1>3. HeldInv'
  BY <1>2 DEF HeldInv
<1> QED BY <1>1, <1>3

\* A fold appends later hook messages to the copy, and the queue is gone.
LEMMA FoldStep ==
  ASSUME IInv, NEW t \in Threads, NEW w, TicksTo(t, w), UNCHANGED <<store, injector, given>>,
         pending' = Without(tick[t].run), tick[t].run \in Runs,
         Held(w.copy) = Held(tick[t].copy) \o QueueOf(tick[t].run)
  PROVE  HeldInv' /\ QueueInv'
<1> DEFINE run == tick[t].run
           q == QueueOf(run)
           c == Held(tick[t].copy)
<1>1. \A k \in DOMAIN pending' : /\ pending'[k].run # run
                                 /\ \E j \in DOMAIN pending : pending'[k] = pending[j]
  BY TypeFacts, WithoutFacts DEF IInv
<1>2. QueueInv'
  BY <1>1 DEF QueueInv, IInv
<1>3. c \in Seq(Nat) /\ q \in Seq(Nat) /\ IsHeld(run, c)
  BY TypeFacts, HeldType, QueueOfFacts DEF IInv, TickState, IsHeld
<1>4. Clean(given, run, c \o q)
  <2>1. Clean(given, run, c)
    BY <1>3 DEF IInv, HeldInv
  <2>2. CASE q = <<>>
    BY <1>3, <2>1, <2>2, ConcatEmptySeq
  <2>3. CASE \E k \in DOMAIN pending : pending[k].run = run /\ pending[k].queue = q
    <3>1. Clean(given, run, q) /\ Hooks(given, q) /\ Later(given, c, q)
      BY <1>3, <2>3 DEF IInv, HeldInv, QueueInv
    <3> QED BY <1>3, <2>1, <3>1, QueueJoins
  <2> QED BY <2>2, <2>3, QueueOfFacts, TypeFacts DEF IInv
<1>5. ASSUME NEW r \in Runs, NEW s \in Seq(Nat), IsHeld(r, s)'
      PROVE  /\ Clean(given, r, s)
             /\ \A k \in DOMAIN pending' : pending'[k].run = r => Later(given, s, pending'[k].queue)
  <2>1. CASE IsHeld(r, s)
    BY <1>1, <2>1 DEF IInv, HeldInv
  <2>2. CASE r = run /\ s = c \o q
    BY <1>1, <1>4, <2>2
  <2> QED BY <1>5, <2>1, <2>2, TicksCopies DEF IInv
<1>6. HeldInv'
  BY <1>5 DEF HeldInv
<1> QED BY <1>2, <1>6

\* A message given by a hook joins its run's queue, after all there is.
LEMMA SteerStep ==
  ASSUME IInv, NEW t \in Threads, Steer(t)
  PROVE  /\ HeldInv' /\ QueueInv' /\ QueuesOK' /\ given' \in Seq(Message)
         /\ \A k \in DOMAIN pending' :
              \/ pending'[k].run # tick[t].run /\ \E j \in DOMAIN pending : pending'[k] = pending[j]
              \/ /\ pending'[k].run = tick[t].run
                 /\ pending'[k].queue = Append(QueueOf(tick[t].run), Len(given) + 1)
<1> DEFINE run == tick[t].run
           x == [run |-> run, via |-> "hook",
                 to |-> IF tick[t].at = "discarded" THEN "closing" ELSE "ticked"]
           n == Len(given) + 1
           full == Queued(run, n)
           q == QueueOf(run)
<1>1. /\ TypeOK /\ Scheduled /\ HeldInv /\ QueueInv /\ QueuesOK
      /\ given \in Seq(Message) /\ n \in Nat /\ Len(pending) \in Nat
  BY TypeFacts DEF IInv, QueuesOK
<1>2. /\ run \in Runs /\ given' = Append(given, x) /\ pending' = Capped(full)
      /\ UNCHANGED <<store, tick, injector>>
  BY <1>1, TypeFacts DEF Steer, Give, Scheduled, TickState, CurrentRun, NextId
<1>3. x \in Message /\ x.run = run /\ x.via = "hook"
  BY <1>2 DEF Message
<1> HIDE DEF x, run, n, q
<1>4. given' \in Seq(Message)
  BY <1>1, <1>2, <1>3
<1>5. /\ full \in Seq(Queue) /\ OneEach(full) /\ Len(full) <= Len(pending) + 1
      /\ \A k \in DOMAIN full :
           \/ full[k].run # run /\ \E j \in DOMAIN pending : full[k] = pending[j]
           \/ full[k].run = run /\ full[k].queue = Append(q, n)
  BY <1>1, <1>2, QueuedFacts DEF q
<1> HIDE DEF full
<1>6. Len(full) <= MaxPendingRuns + 1
  BY <1>1, <1>5, SteeringAssumption DEF QueuesOK
<1>7. /\ QueuesOK'
      /\ \A k \in DOMAIN pending' : \E j \in DOMAIN full : pending'[k] = full[j]
  BY <1>2, <1>5, <1>6, CappedFacts DEF QueuesOK
<1>8. \A k \in DOMAIN pending' :
        \/ pending'[k].run # run /\ \E j \in DOMAIN pending : pending'[k] = pending[j]
        \/ pending'[k].run = run /\ pending'[k].queue = Append(q, n)
  BY <1>5, <1>7
<1>9. q \in Seq(Nat) /\ \/ q = <<>>
                        \/ \E k \in DOMAIN pending : pending[k].run = run /\ pending[k].queue = q
  BY <1>1, QueueOfFacts DEF q
<1>10. Clean(given, run, q) /\ Hooks(given, q)
  BY <1>1, <1>9 DEF QueueInv, Clean, Hooks
<1>11. Clean(given', run, Append(q, n)) /\ Hooks(given', Append(q, n))
  BY <1>1, <1>2, <1>3, <1>9, <1>10, GivenLast DEF n
<1>12. ASSUME NEW k \in DOMAIN pending
       PROVE  Clean(given', pending[k].run, pending[k].queue) /\ Hooks(given', pending[k].queue)
  <2>1. pending[k].queue \in Seq(Nat)
    <3>1. pending[k] \in Queue
      BY <1>1 DEF QueuesOK
    <3> QED BY <3>1 DEF Queue
  <2> QED BY <1>1, <1>2, <1>3, <2>1, GivenGrows DEF QueueInv
<1>13. QueueInv'
  BY <1>8, <1>11, <1>12 DEF QueueInv
<1>14. ASSUME NEW r \in Runs, NEW s \in Seq(Nat), IsHeld(r, s)'
       PROVE  /\ Clean(given', r, s)
              /\ \A k \in DOMAIN pending' :
                   pending'[k].run = r => Later(given', s, pending'[k].queue)
  <2>1. IsHeld(r, s)
    BY <1>2, <1>14 DEF IsHeld
  <2>2. Clean(given, r, s)
    BY <1>1, <2>1 DEF HeldInv
  <2>3. Clean(given', r, s)
    BY <1>1, <1>2, <1>3, <2>2, GivenGrows
  <2>4. ASSUME NEW k \in DOMAIN pending', pending'[k].run = r
        PROVE  Later(given', s, pending'[k].queue)
    <3>1. CASE \E j \in DOMAIN pending : pending'[k] = pending[j]
      <4>1. Later(given, s, pending'[k].queue)
        BY <1>1, <2>1, <2>4, <3>1 DEF HeldInv
      <4> QED BY <1>1, <1>2, <1>3, <2>2, <4>1, GivenGrows
    <3>2. CASE r = run /\ pending'[k].queue = Append(q, n)
      <4>1. Later(given, s, q)
        BY <1>1, <1>9, <2>1, <3>2 DEF HeldInv, Later
      <4> QED BY <1>1, <1>2, <1>3, <1>9, <2>2, <3>2, <4>1, GivenLater DEF n
    <3> QED BY <1>8, <2>4, <3>1, <3>2
  <2> QED BY <2>3, <2>4
<1>15. HeldInv'
  BY <1>14 DEF HeldInv
<1> QED BY <1>4, <1>7, <1>8, <1>13, <1>15 DEF run, q, n

\* The host's message goes last into the host's copy.
LEMMA InjectStep ==
  ASSUME IInv, InjectSave
  PROVE  HeldInv' /\ QueueInv' /\ given' \in Seq(Message) /\ store' \in [Runs -> RunState]
<1> DEFINE run == injector.run
           x == [run |-> run, via |-> "inbox",
                 to |-> CASE injector.copy.node \in Dead -> "dead"
                          [] run \in Ticked             -> "ticked"
                          [] OTHER                      -> "live"]
           n == Len(given) + 1
           c == injector.copy
           v == [c EXCEPT !.inbox = Append(@, n)]
<1>1. /\ TypeOK /\ Scheduled /\ HeldInv /\ QueueInv /\ QueuesOK
      /\ given \in Seq(Message) /\ n \in Nat /\ store \in [Runs -> RunState]
  BY TypeFacts DEF IInv
<1>2. /\ run \in Runs /\ given' = Append(given, x) /\ store' = [store EXCEPT ![run] = v]
      /\ injector' = NoInjection /\ UNCHANGED <<tick, pending>> /\ c \in RunState
  BY <1>1, TypeFacts DEF InjectSave, Give, Scheduled, NextId
<1>3. x \in Message /\ x.run = run /\ x.via # "hook"
  BY <1>2 DEF Message
<1>4. /\ v \in RunState /\ v.inbox = Append(c.inbox, n) /\ v.seen = c.seen
  <2>1. Append(c.inbox, n) \in Seq(Nat)
    BY <1>1, <1>2 DEF RunState
  <2> QED BY <1>2, <2>1 DEF RunState
<1>5. Held(v) = Append(Held(c), n)
  <2>1. \A a, b \in Seq(Nat) : a \o Append(b, n) = Append(a \o b, n)
    BY <1>1
  <2>2. c.inbox \in Seq(Nat) /\ c.seen \in Seq(Nat)
    BY <1>2 DEF RunState
  <2> QED BY <1>4, <2>1, <2>2 DEF Held
<1> HIDE DEF x, n, v
<1>6. given' \in Seq(Message) /\ store' \in [Runs -> RunState]
  BY <1>1, <1>2, <1>3, <1>4
<1>7. ASSUME NEW r \in Runs, NEW s, IsHeld(r, s)'
      PROVE  IsHeld(r, s) \/ (r = run /\ s = Held(v))
  <2>1. CASE s = Held(store'[r])
    BY <1>1, <1>2, <2>1 DEF IsHeld
  <2>2. CASE \E u \in Threads : tick[u].run = r /\ s = Held(tick[u].copy)
    BY <2>2 DEF IsHeld
  <2>3. injector'.run # r
    BY <1>2, TypeFacts, <1>1 DEF NoInjection
  <2>4. \/ s = Held(store'[r])
        \/ \E u \in Threads : tick'[u].run = r /\ s = Held(tick'[u].copy)
        \/ injector'.run = r /\ s = Held(injector'.copy)
    BY <1>7, HeldNext
  <2> QED BY <1>2, <2>1, <2>2, <2>3, <2>4
<1>8. ASSUME NEW k \in DOMAIN pending
      PROVE  Clean(given', pending[k].run, pending[k].queue) /\ Hooks(given', pending[k].queue)
  <2>1. pending[k].queue \in Seq(Nat)
    <3>1. pending[k] \in Queue
      BY <1>1 DEF QueuesOK
    <3> QED BY <3>1 DEF Queue
  <2> QED BY <1>1, <1>2, <1>3, <2>1, GivenGrows DEF QueueInv
<1>9. QueueInv'
  BY <1>2, <1>8 DEF QueueInv
<1>10. ASSUME NEW r \in Runs, NEW s \in Seq(Nat), IsHeld(r, s)'
       PROVE  /\ Clean(given', r, s)
              /\ \A k \in DOMAIN pending : pending[k].run = r => Later(given', s, pending[k].queue)
  <2>1. CASE IsHeld(r, s)
    <3>1. /\ Clean(given, r, s)
          /\ \A k \in DOMAIN pending : pending[k].run = r => Later(given, s, pending[k].queue)
      BY <1>1, <2>1 DEF HeldInv
    <3> QED BY <1>1, <1>2, <1>3, <3>1, GivenGrows
  <2>2. CASE r = run /\ s = Held(v)
    <3>1. Held(c) \in Seq(Nat) /\ IsHeld(run, Held(c))
      BY <1>2, HeldType DEF IsHeld
    <3>2. /\ Clean(given, run, Held(c))
          /\ \A k \in DOMAIN pending :
               pending[k].run = run => Later(given, Held(c), pending[k].queue)
      BY <1>1, <1>2, <3>1 DEF HeldInv
    <3> QED BY <1>1, <1>2, <1>3, <1>5, <2>2, <3>1, <3>2, GivenLast DEF n
  <2> QED BY <1>7, <1>10, <2>1, <2>2
<1>11. HeldInv'
  BY <1>2, <1>10 DEF HeldInv
<1> QED BY <1>6, <1>9, <1>11

-----------------------------------------------------------------------------
(* The invariant is kept *)

\* It holds before anything was given.
LEMMA InvInit == Init => IInv
<1> SUFFICES ASSUME Init PROVE IInv
  OBVIOUS
<1>1. NewRun \in RunState /\ Held(NewRun) = <<>> /\ NewRun.node = "reason"
  <2>1. <<>> \in Seq(Nat) /\ <<>> \o <<>> = <<>>
    OBVIOUS
  <2> QED BY <2>1 DEF NewRun, RunState, Nodes, Held
<1>2. TypeOK
  BY <1>1, SteeringAssumption DEF Init, TypeOK, Idle, NoInjection
<1>3. Scheduled
  BY <1>1, SteeringAssumption DEF Init, Scheduled, Idle, NoInjection, Dead
<1>4. \A r \in Runs : \A s : IsHeld(r, s) => s = <<>>
  BY <1>1, SteeringAssumption DEF Init, IsHeld, Idle, NoInjection
<1>5. HeldInv /\ QueueInv
  BY <1>4 DEF Init, HeldInv, QueueInv, Clean
<1> QED BY <1>2, <1>3, <1>5 DEF IInv

\* Whoever acts, runs hold their own guidance in order.
LEMMA OrderStep ==
  ASSUME IInv, [Next]_vars
  PROVE  HeldInv' /\ QueueInv'
<1>1. TypeOK /\ Scheduled /\ HeldInv /\ QueueInv /\ QueuesOK /\ Nobody \notin Runs
  BY TypeFacts DEF IInv
<1>2. ASSUME NEW t \in Threads, NEW r \in Runs, Load(t, r)
      PROVE  HeldInv' /\ QueueInv'
  <2>1. \A u \in Threads :
          tick'[u] = IF u = t THEN [run |-> r, copy |-> store[r], at |-> "body", noisy |-> FALSE]
                     ELSE tick[u]
    BY <1>1, <1>2, TypeFacts DEF Load
  <2>2. ASSUME NEW q \in Runs, NEW s, IsHeld(q, s)'
        PROVE  IsHeld(q, s)
    <3>1. CASE \E u \in Threads : tick'[u].run = q /\ s = Held(tick'[u].copy)
      <4>1. PICK u \in Threads : tick'[u].run = q /\ s = Held(tick'[u].copy)
        BY <3>1
      <4>2. CASE u = t
        BY <2>1, <4>1, <4>2 DEF IsHeld
      <4>3. CASE u # t
        BY <2>1, <4>1, <4>3 DEF IsHeld
      <4> QED BY <4>2, <4>3
    <3>2. CASE s = Held(store[q]) \/ (injector.run = q /\ s = Held(injector.copy))
      BY <3>2 DEF IsHeld
    <3>3. UNCHANGED <<store, injector>>
      BY <1>2 DEF Load
    <3> QED BY <2>2, <3>1, <3>2, <3>3, HeldNext
  <2>3. given' = given /\ pending' = pending
    BY <1>2 DEF Load
  <2> QED BY <1>1, <2>2, <2>3, QuietStep
<1>3. ASSUME NEW t \in Threads, Drain(t) \/ TurnToConclude(t) \/ Work(t) \/ Ask(t)
      PROVE  HeldInv' /\ QueueInv'
  <2>1. PICK w : Leaves(t, w)
    BY <1>1, <1>3, BodyFacts
  <2>2. tick[t].run \in Runs
    BY <1>1, <2>1, TypeFacts DEF Leaves, Scheduled, TickState
  <2>3. CASE pending' = pending /\ Held(w.copy) = Held(tick[t].copy)
    <3>1. \A q \in Runs : \A s : IsHeld(q, s)' => IsHeld(q, s)
      <4> SUFFICES ASSUME NEW q \in Runs, NEW s, IsHeld(q, s)' PROVE IsHeld(q, s)
        OBVIOUS
      <4>1. IsHeld(q, s) \/ (tick[t].run = q /\ s = Held(w.copy))
        BY <1>1, <2>1, TicksCopies DEF Leaves
      <4> QED BY <2>3, <4>1 DEF IsHeld
    <3> QED BY <1>1, <2>1, <2>3, <3>1, QuietStep DEF Leaves
  <2>4. CASE /\ pending' = Without(tick[t].run)
             /\ Held(w.copy) = Held(tick[t].copy) \o QueueOf(tick[t].run)
    BY <2>1, <2>2, <2>4, FoldStep DEF Leaves
  <2> QED BY <2>1, <2>3, <2>4 DEF Leaves
<1>4. ASSUME NEW t \in Threads, Close(t)
      PROVE  HeldInv' /\ QueueInv'
  <2>1. PICK w : TicksTo(t, w) /\ Held(w.copy) = Held(tick[t].copy)
    BY <1>1, <1>4, CloseFacts
  <2>2. given' = given /\ UNCHANGED <<store, injector>>
        /\ pending' = Without(tick[t].run)
    BY <1>4 DEF Close, KeptAtTerminal, CurrentRun
  <2>3. \A k \in DOMAIN pending' : \E j \in DOMAIN pending : pending'[k] = pending[j]
    BY <1>1, <2>2, WithoutFacts
  <2>4. ASSUME NEW q \in Runs, NEW s, IsHeld(q, s)'
        PROVE  IsHeld(q, s)
    <3>1. IsHeld(q, s) \/ (tick[t].run = q /\ s = Held(w.copy))
      BY <1>1, <2>1, <2>2, <2>4, TicksCopies
    <3> QED BY <2>1, <3>1 DEF IsHeld
  <2> QED BY <1>1, <2>2, <2>3, <2>4, QuietStep
<1>5. ASSUME NEW t \in Threads, Save(t)
      PROVE  HeldInv' /\ QueueInv'
  <2>1. \A u \in Threads : tick'[u] = IF u = t THEN Idle ELSE tick[u]
    BY <1>1, <1>5, SaveFacts
  <2>2. \A q \in Runs : \/ store'[q] = store[q]
                        \/ q = tick[t].run /\ store'[q] = tick[t].copy
    BY <1>1, <1>5, SaveFacts
  <2>3. ASSUME NEW q \in Runs, NEW s, IsHeld(q, s)'
        PROVE  IsHeld(q, s)
    <3>1. CASE s = Held(store'[q])
      BY <2>2, <3>1 DEF IsHeld
    <3>2. CASE \E u \in Threads : tick'[u].run = q /\ s = Held(tick'[u].copy)
      <4>1. PICK u \in Threads : tick'[u].run = q /\ s = Held(tick'[u].copy)
        BY <3>2
      <4>2. u # t
        BY <1>1, <2>1, <4>1 DEF Idle
      <4> QED BY <2>1, <4>1, <4>2 DEF IsHeld
    <3>3. CASE injector.run = q /\ s = Held(injector.copy)
      BY <3>3 DEF IsHeld
    <3>4. injector' = injector
      BY <1>5 DEF Save
    <3> QED BY <2>3, <3>1, <3>2, <3>3, <3>4, HeldNext
  <2>4. given' = given /\ pending' = pending
    BY <1>5 DEF Save
  <2> QED BY <1>1, <2>3, <2>4, QuietStep
<1>6. ASSUME NEW r \in Runs, InjectLoad(r)
      PROVE  HeldInv' /\ QueueInv'
  <2>1. injector'.run = r /\ injector'.copy = store[r] /\ UNCHANGED <<store, tick, given, pending>>
    BY <1>6 DEF InjectLoad
  <2>2. ASSUME NEW q \in Runs, NEW s, IsHeld(q, s)'
        PROVE  IsHeld(q, s)
    BY <2>1, <2>2 DEF IsHeld
  <2> QED BY <1>1, <2>1, <2>2, QuietStep
<1>7. ASSUME NEW r \in Runs, DiscardDead(r)
      PROVE  HeldInv' /\ QueueInv'
  <2>1. UNCHANGED <<store, tick, injector, given>> /\ pending' = Without(r)
    BY <1>7 DEF DiscardDead
  <2>2. \A k \in DOMAIN pending' : \E j \in DOMAIN pending : pending'[k] = pending[j]
    BY <1>1, <2>1, WithoutFacts
  <2>3. \A q \in Runs : \A s : IsHeld(q, s)' => IsHeld(q, s)
    BY <2>1 DEF IsHeld
  <2> QED BY <1>1, <2>1, <2>2, <2>3, QuietStep
<1>8. CASE Crash
  <2>1. /\ store' = store /\ given' = given /\ injector'.run = Nobody /\ pending' = <<>>
        /\ \A u \in Threads : tick'[u].run = Nobody
    BY <1>8 DEF Crash, Idle, NoInjection
  <2>2. ASSUME NEW q \in Runs, NEW s, IsHeld(q, s)'
        PROVE  IsHeld(q, s)
    BY <1>1, <2>1, <2>2 DEF IsHeld
  <2> QED BY <1>1, <2>1, <2>2, QuietStep
<1>9. CASE UNCHANGED vars \/ Finished
  <2>1. UNCHANGED <<store, tick, injector, given, pending>>
    BY <1>9 DEF vars, Finished
  <2>2. \A q \in Runs : \A s : IsHeld(q, s)' => IsHeld(q, s)
    BY <2>1 DEF IsHeld
  <2> QED BY <1>1, <2>1, <2>2, QuietStep
<1>10. ASSUME NEW r \in Runs, Answer(r) \/ Cancel(r)
       PROVE  HeldInv' /\ QueueInv'
  <2>1. UNCHANGED <<tick, injector, given, pending>>
    BY <1>10 DEF Answer, Cancel
  <2>2. PICK node \in Nodes : store' = [store EXCEPT ![r].node = node]
    BY <1>10 DEF Answer, Cancel, Nodes, Dead
  <2>3. \A q \in Runs : Held(store'[q]) = Held(store[q])
    BY <1>1, <2>2, MarkFacts DEF Held
  <2>4. \A q \in Runs : \A s : IsHeld(q, s)' => IsHeld(q, s)
    BY <2>1, <2>3 DEF IsHeld, Held
  <2> QED BY <1>1, <2>1, <2>4, QuietStep
<1> QED
  BY <1>2, <1>3, <1>4, <1>5, <1>6, <1>7, <1>8, <1>9, <1>10, SteerStep, InjectStep DEF Next, Progress

\* Where the places of the second of two sequences come to be.
LEMMA PlaceSums ==
  \A a, b \in Nat : \A k \in 1..b : a + k \in 1..(a + b) /\ ~(a + k <= a) /\ (a + k) - a = k
OBVIOUS

\* What a copy holds was given.
LEMMA HeldIsGiven ==
  ASSUME IInv, NEW r \in Runs, NEW v \in RunState, IsHeld(r, Held(v))
  PROVE  /\ Range(v.inbox) \subseteq 1..Len(given)
         /\ Range(Held(v)) \subseteq 1..Len(given)
<1>1. Clean(given, r, Held(v)) /\ DOMAIN given = 1..Len(given)
  BY HeldType, TypeFacts DEF IInv, HeldInv
<1>2. /\ v.seen \in Seq(Nat) /\ v.inbox \in Seq(Nat) /\ Len(v.seen) \in Nat /\ Len(v.inbox) \in Nat
      /\ DOMAIN v.inbox = 1..Len(v.inbox)
  BY DEF RunState
<1>3. /\ DOMAIN Held(v) = 1..(Len(v.seen) + Len(v.inbox))
      /\ \A k \in 1..Len(v.inbox) : Held(v)[Len(v.seen) + k] = v.inbox[k]
  <2>1. /\ Held(v) \in Seq(Nat) /\ Len(Held(v)) = Len(v.seen) + Len(v.inbox)
        /\ \A k \in 1..(Len(v.seen) + Len(v.inbox)) :
             Held(v)[k] = IF k <= Len(v.seen) THEN v.seen[k] ELSE v.inbox[k - Len(v.seen)]
    BY <1>2, ConcatProperties DEF Held
  <2>2. DOMAIN Held(v) = 1..(Len(v.seen) + Len(v.inbox))
    BY <2>1
  <2>3. ASSUME NEW k \in 1..Len(v.inbox)
        PROVE  Held(v)[Len(v.seen) + k] = v.inbox[k]
    BY <1>2, <2>1, <2>3, PlaceSums
  <2> QED BY <2>2, <2>3
<1>4. ASSUME NEW k \in DOMAIN v.inbox
      PROVE  v.inbox[k] \in 1..Len(given)
  <2>1. Len(v.seen) + k \in DOMAIN Held(v)
    BY <1>2, <1>3, PlaceSums
  <2> QED BY <1>1, <1>2, <1>3, <2>1 DEF Clean
<1>5. Range(Held(v)) \subseteq 1..Len(given)
  BY <1>1 DEF Clean, Range
<1> QED BY <1>4, <1>5 DEF Range

\* Every step keeps the types.
LEMMA TypeStep ==
  ASSUME IInv, [Next]_vars
  PROVE  TypeOK'
<1>1. /\ TypeOK /\ Scheduled /\ QueuesOK /\ Nobody \notin Runs
      /\ store \in [Runs -> RunState] /\ tick \in [Threads -> TickState]
      /\ given \in Seq(Message) /\ reported \subseteq 1..Len(given) /\ crashes \in 0..MaxCrashes
      /\ questions \in 0..MaxQuestions
      /\ injector \in [run : Runs \union {Nobody}, copy : RunState]
  BY TypeFacts DEF IInv, TypeOK
<1>2. NewRun \in RunState
  <2>1. <<>> \in Seq(Nat)
    OBVIOUS
  <2> QED BY <2>1 DEF NewRun, RunState, Nodes
<1>3. Idle \in TickState /\ NoInjection \in [run : Runs \union {Nobody}, copy : RunState]
  BY <1>2 DEF Idle, NoInjection, TickState
<1>4. SUFFICES /\ store' \in [Runs -> RunState] /\ tick' \in [Threads -> TickState]
               /\ given' \in Seq(Message) /\ reported' \subseteq 1..Len(given')
               /\ crashes' \in 0..MaxCrashes /\ questions' \in 0..MaxQuestions
               /\ injector' \in [run : Runs \union {Nobody}, copy : RunState]
               /\ QueuesOK'
  BY DEF TypeOK, TickState, Message, QueuesOK, OneEach, Queue
<1>5. ASSUME pending' = pending \/ \E r \in Runs : pending' = Without(r)
      PROVE  QueuesOK'
  BY <1>1, <1>5, WithoutFacts DEF QueuesOK
<1>6. ASSUME NEW x \in Message, given' = Append(given, x), reported' = reported
      PROVE  reported' \subseteq 1..Len(given')
  BY <1>1, <1>6
<1>7. ASSUME NEW t \in Threads, Steer(t)
      PROVE  /\ given' \in Seq(Message) /\ reported' \subseteq 1..Len(given') /\ QueuesOK'
             /\ UNCHANGED <<store, tick, injector, questions, crashes>>
  <2>1. tick[t].run \in Runs
    BY <1>1, <1>7, TypeFacts DEF Steer, Scheduled, TickState
  <2>2. PICK x \in Message : given' = Append(given, x)
    BY <1>7, <2>1 DEF Steer, Give, Message
  <2> QED BY <1>6, <1>7, <2>2, SteerStep DEF Steer
<1>8. ASSUME NEW t \in Threads, NEW r \in Runs, Load(t, r)
      PROVE  tick' \in [Threads -> TickState]
  <2>1. [run |-> r, copy |-> store[r], at |-> "body", noisy |-> FALSE] \in TickState
    BY <1>1 DEF TickState
  <2> QED BY <1>1, <1>8, <2>1 DEF Load
<1>9. ASSUME NEW t \in Threads, Drain(t) \/ TurnToConclude(t) \/ Work(t) \/ Ask(t)
      PROVE  /\ tick' \in [Threads -> TickState] /\ QueuesOK' /\ questions' \in 0..MaxQuestions
             /\ UNCHANGED <<store, injector, given, reported, crashes>>
  <2>1. PICK w : Leaves(t, w)
    BY <1>1, <1>9, BodyFacts
  <2>2. tick[t].run \in Runs
    BY <1>1, <2>1, TypeFacts DEF Leaves, Scheduled, TickState
  <2>3. questions' \in 0..MaxQuestions
    BY <1>1, <1>9, SteeringAssumption DEF Drain, TurnToConclude, Work, Ask
  <2> QED BY <1>1, <1>5, <2>1, <2>2, <2>3 DEF Leaves, TicksTo
<1>10. ASSUME NEW t \in Threads, Close(t)
       PROVE  /\ tick' \in [Threads -> TickState] /\ QueuesOK'
              /\ reported' \subseteq 1..Len(given)
              /\ UNCHANGED <<store, injector, given, questions, crashes>>
  <2>1. PICK w : TicksTo(t, w)
    BY <1>1, <1>10, CloseFacts
  <2>2. tick[t].run \in Runs /\ tick[t].copy \in RunState
    BY <1>1, <1>10, TypeFacts DEF Close, Scheduled, TickState
  <2>3. Range(tick[t].copy.inbox) \subseteq 1..Len(given)
    BY <2>2, HeldIsGiven DEF IsHeld
  <2> QED BY <1>1, <1>5, <1>10, <2>1, <2>2, <2>3
      DEF Close, TicksTo, KeptAtTerminal, CurrentRun, Undelivered
<1>11. ASSUME NEW t \in Threads, Save(t)
       PROVE  store' \in [Runs -> RunState] /\ tick' \in [Threads -> TickState]
  BY <1>1, <1>3, <1>11, SaveFacts DEF Save
<1>12. ASSUME NEW r \in Runs, InjectLoad(r)
       PROVE  injector' \in [run : Runs \union {Nobody}, copy : RunState]
  BY <1>1, <1>12 DEF InjectLoad
<1>13. CASE InjectSave
  <2>1. injector.run \in Runs
    BY <1>1, <1>13, TypeFacts DEF InjectSave, Scheduled
  <2> DEFINE m == [run |-> injector.run, via |-> "inbox",
                   to |-> CASE injector.copy.node \in Dead  -> "dead"
                            [] injector.run \in Ticked     -> "ticked"
                            [] OTHER                       -> "live"]
  <2>2. m \in Message /\ given' = Append(given, m)
    BY <1>13, <2>1 DEF InjectSave, Give, Message
  <2> HIDE DEF m
  <2> QED BY <1>1, <1>3, <1>5, <1>6, <1>13, <2>2, InjectStep DEF InjectSave
<1>14. CASE Crash
  <2>1. <<>> \in Seq(Queue) /\ Len(<<>>) = 0 /\ OneEach(<<>>)
    BY DEF OneEach
  <2>2. QueuesOK'
    BY <1>14, <2>1, SteeringAssumption DEF Crash, QueuesOK
  <2>3. crashes + 1 \in 0..MaxCrashes
    BY <1>1, <1>14, SteeringAssumption DEF Crash
  <2> QED BY <1>1, <1>3, <1>14, <2>2, <2>3 DEF Crash
<1>15. CASE UNCHANGED vars \/ Finished
  BY <1>1, <1>5, <1>15 DEF vars, Finished
<1>16. ASSUME NEW r \in Runs, DiscardDead(r)
       PROVE  QueuesOK' /\ UNCHANGED <<store, tick, injector, given, reported, questions, crashes>>
  BY <1>5, <1>16 DEF DiscardDead
<1>17. CASE \E t \in Threads : Steer(t) \/ Progress(t)
  <2>1. PICK t \in Threads : Steer(t) \/ Progress(t)
    BY <1>17
  <2>2. CASE Save(t)
    BY <1>1, <1>5, <1>11, <2>2 DEF Save
  <2> QED BY <1>1, <1>7, <1>9, <1>10, <2>1, <2>2 DEF Progress
<1>18. CASE \E t \in Threads, r \in Runs : Load(t, r)
  BY <1>1, <1>5, <1>8, <1>18 DEF Load
<1>19. CASE \E r \in Runs : InjectLoad(r) \/ Answer(r) \/ Cancel(r) \/ DiscardDead(r)
  <2>1. PICK r \in Runs : InjectLoad(r) \/ Answer(r) \/ Cancel(r) \/ DiscardDead(r)
    BY <1>19
  <2>2. CASE InjectLoad(r)
    BY <1>1, <1>5, <1>12, <2>2 DEF InjectLoad
  <2>3. CASE DiscardDead(r)
    BY <1>1, <1>16, <2>3
  <2>4. CASE Answer(r) \/ Cancel(r)
    <3>1. PICK node \in Nodes : store' = [store EXCEPT ![r].node = node]
      BY <2>4 DEF Answer, Cancel, Nodes, Dead
    <3>2. store' \in [Runs -> RunState]
      BY <1>1, <3>1, MarkFacts
    <3>3. UNCHANGED <<tick, injector, pending, given, reported, questions, crashes>>
      BY <2>4 DEF Answer, Cancel
    <3> QED BY <1>1, <1>5, <3>2, <3>3
  <2> QED BY <2>1, <2>2, <2>3, <2>4
<1> QED BY <1>13, <1>14, <1>15, <1>17, <1>18, <1>19 DEF Next

\* Every step keeps threads off one another's runs and off those that ended.
LEMMA ScheduledStep ==
  ASSUME IInv, [Next]_vars
  PROVE  Scheduled'
<1>1. /\ TypeOK /\ Scheduled /\ Nobody \notin Runs /\ Idle.run = Nobody /\ Idle.at = "idle"
      /\ NoInjection.run = Nobody
  BY TypeFacts DEF IInv, Idle, NoInjection
<1>2. ASSUME NEW t \in Threads, NEW r \in Runs, Load(t, r)
      PROVE  Scheduled'
  <2> DEFINE w == [run |-> r, copy |-> store[r], at |-> "body", noisy |-> FALSE]
  <2>1. /\ \A u \in Threads : tick'[u] = IF u = t THEN w ELSE tick[u]
        /\ store[r].node \notin Ended /\ UNCHANGED <<store, injector>>
        /\ \A u \in Threads : tick[u].run # r
    BY <1>1, <1>2, TypeFacts DEF Load, Ticked, Dead, Ended
  <2>2. w.run = r /\ w.at = "body" /\ w.copy = store[r] /\ r # Nobody
    BY <1>1
  <2> HIDE DEF w
  <2> QED BY <1>1, <2>1, <2>2 DEF Scheduled, Ended
<1>3. ASSUME NEW t \in Threads, NEW w, TicksTo(t, w), tick[t].at # "idle", w.at # "idle",
             w.at # "discarded" => w.copy.node # "completed", UNCHANGED <<store, injector>>
      PROVE  Scheduled'
  <2>1. \A u \in Threads : tick'[u] = IF u = t THEN w ELSE tick[u]
    BY <1>1, <1>3, TypeFacts DEF TicksTo
  <2>2. w.run = tick[t].run /\ w.run # Nobody
    BY <1>1, <1>3 DEF TicksTo, Scheduled
  <2> QED BY <1>1, <1>3, <2>1, <2>2 DEF Scheduled
<1>4. ASSUME NEW t \in Threads, Drain(t) \/ TurnToConclude(t) \/ Work(t) \/ Ask(t)
      PROVE  Scheduled'
  <2>1. PICK w : Leaves(t, w)
    BY <1>1, <1>4, BodyFacts
  <2> QED BY <1>3, <2>1 DEF Leaves
<1>5. ASSUME NEW t \in Threads, Close(t)
      PROVE  Scheduled'
  <2>1. PICK w : TicksTo(t, w) /\ w.at = "discarded"
    BY <1>1, <1>5, CloseFacts
  <2> QED BY <1>3, <1>5, <2>1 DEF Close
<1>6. ASSUME NEW t \in Threads, Save(t)
      PROVE  Scheduled'
  <2>1. /\ \A u \in Threads : tick'[u] = IF u = t THEN Idle ELSE tick[u]
        /\ \A q \in Runs : q # tick[t].run => store'[q] = store[q]
        /\ injector' = injector /\ tick[t].at # "idle"
    BY <1>1, <1>6, SaveFacts DEF Save
  <2>2. tick[t].run \in Runs /\ store[tick[t].run].node \notin Ended
    BY <1>1, <2>1, TypeFacts DEF Scheduled, TickState
  <2>3. ASSUME NEW u \in Threads, tick'[u].run # Nobody
        PROVE  store'[tick'[u].run].node \notin Ended
    <3>1. u # t /\ tick'[u] = tick[u] /\ tick[u].run \in Runs
      BY <1>1, <2>1, <2>3, TypeFacts DEF TickState
    <3>2. tick[u].run # tick[t].run
      BY <1>1, <2>2, <3>1 DEF Scheduled
    <3> QED BY <1>1, <2>1, <3>1, <3>2 DEF Scheduled
  <2>4. ASSUME injector.run # Nobody, injector.copy.node \in Ended
        PROVE  store'[injector.run].node = injector.copy.node
    <3>1. injector.run \in Runs /\ store[injector.run].node = injector.copy.node
      BY <1>1, <2>4, TypeFacts DEF Scheduled
    <3> QED BY <2>1, <2>2, <2>4, <3>1
  <2> QED BY <1>1, <2>1, <2>3, <2>4 DEF Scheduled
<1>7. ASSUME NEW r \in Runs, InjectLoad(r)
      PROVE  Scheduled'
  <2>1. injector'.run = r /\ injector'.copy = store[r] /\ UNCHANGED <<store, tick>>
    BY <1>7 DEF InjectLoad
  <2> QED BY <1>1, <2>1 DEF Scheduled
<1>8. CASE InjectSave
  <2> DEFINE v == [injector.copy EXCEPT !.inbox = Append(@, NextId)]
  <2>1. injector.run \in Runs /\ injector.copy \in RunState
    BY <1>1, <1>8, TypeFacts DEF Scheduled, InjectSave
  <2>2. v.node = injector.copy.node
    BY <2>1 DEF RunState
  <2>3. /\ \A q \in Runs : store'[q] = IF q = injector.run THEN v ELSE store[q]
        /\ injector' = NoInjection /\ tick' = tick
    BY <1>1, <1>8, <2>1, TypeFacts DEF InjectSave
  <2> HIDE DEF v
  <2>4. ASSUME NEW u \in Threads, tick[u].run # Nobody
        PROVE  store'[tick[u].run].node \notin Ended
    <3>1. tick[u].run \in Runs /\ store[tick[u].run].node \notin Ended
      BY <1>1, <2>4, TypeFacts DEF Scheduled, TickState
    <3>2. tick[u].run = injector.run => injector.copy.node \notin Ended
      BY <1>1, <3>1 DEF Scheduled
    <3> QED BY <2>2, <2>3, <3>1, <3>2
  <2> QED BY <1>1, <2>3, <2>4 DEF Scheduled
<1>9. CASE Crash
  BY <1>1, <1>9 DEF Crash, Scheduled
<1>10. ASSUME UNCHANGED <<store, tick, injector>>
       PROVE  Scheduled'
  BY <1>1, <1>10 DEF Scheduled
<1>11. CASE (\E t \in Threads : Steer(t)) \/ (\E r \in Runs : DiscardDead(r)) \/ Finished
            \/ UNCHANGED vars
  BY <1>10, <1>11 DEF Steer, DiscardDead, Finished, vars
<1>12. ASSUME NEW r \in Runs, Answer(r) \/ Cancel(r)
       PROVE  Scheduled'
  <2>1. store[r].node \notin Ended /\ UNCHANGED <<tick, injector>>
    BY <1>12 DEF Answer, Cancel, Live, Dead, Ended
  <2>2. PICK node \in Nodes \ Ended : store' = [store EXCEPT ![r].node = node]
    BY <1>12 DEF Answer, Cancel, Nodes, Dead, Ended
  <2>3. \A q \in Runs : store'[q].node = IF q = r THEN node ELSE store[q].node
    BY <1>1, <2>2, MarkFacts
  <2>4. ASSUME NEW u \in Threads, tick[u].run # Nobody
        PROVE  store'[tick[u].run].node \notin Ended
    <3>1. tick[u].run \in Runs
      BY <1>1, <2>4, TypeFacts DEF TickState
    <3> QED BY <1>1, <2>2, <2>3, <2>4, <3>1 DEF Scheduled
  <2>5. ASSUME injector.run # Nobody, injector.copy.node \in Ended
        PROVE  store'[injector.run].node = injector.copy.node
    <3>1. injector.run \in Runs /\ store[injector.run].node = injector.copy.node
      BY <1>1, <2>5, TypeFacts DEF Scheduled
    <3> QED BY <2>1, <2>3, <2>5, <3>1
  <2> QED BY <1>1, <2>1, <2>4, <2>5 DEF Scheduled
<1> QED BY <1>2, <1>4, <1>5, <1>6, <1>7, <1>8, <1>9, <1>11, <1>12 DEF Next, Progress

\* The inductive invariant holds always.
LEMMA Invariance == Spec => []IInv
<1>1. IInv /\ [Next]_vars => IInv'
  BY OrderStep, TypeStep, ScheduledStep DEF IInv
<1> QED BY InvInit, <1>1, PTL DEF Spec

-----------------------------------------------------------------------------
(* Theorems *)

\* Every variable ranges over what the code can store in it, with one queue for a
\* run and no more queues than LoopHooks keeps.
THEOREM TypeCorrect == Spec => []TypeOK
BY Invariance, PTL DEF IInv

\* However ticks, hooks, the host's writes and crashes are interleaved, and even if
\* the host writes runs that are being ticked: a run holds nothing twice, nothing of
\* another run's, and each channel's guidance in the order it was given.
THEOREM GuidanceInOrder == Spec => []DeliveredOnceInOrder
<1>1. IInv => DeliveredOnceInOrder
  <2> SUFFICES ASSUME IInv, NEW r \in Runs
               PROVE  LET held == store[r].seen \o store[r].inbox
                      IN  \A j, k \in DOMAIN held :
                            /\ given[held[j]].run = r
                            /\ j < k => held[j] # held[k]
                            /\ j < k /\ given[held[j]].via = given[held[k]].via
                                 => held[j] < held[k]
    BY DEF DeliveredOnceInOrder
  <2> DEFINE s == store[r].seen \o store[r].inbox
  <2>1. s \in Seq(Nat) /\ Clean(given, r, s)
    BY TypeFacts, HeldType DEF IInv, HeldInv, IsHeld, Held
  <2> HIDE DEF s
  <2>2. \A k \in DOMAIN s : s[k] \in Nat
    BY <2>1
  <2>3. \A j, k \in DOMAIN s : /\ given[s[j]].run = r
                               /\ j < k => s[j] # s[k]
                               /\ j < k /\ given[s[j]].via = given[s[k]].via => s[j] < s[k]
    BY <2>1, <2>2 DEF Clean
  <2> QED BY <2>3 DEF s
<1> QED BY <1>1, Invariance, PTL

\* What queues r has among those kept were given while it was closing.
OnlyLate(queues, g, r) ==
  \A k \in DOMAIN queues : queues[k].run = r =>
    \A i \in DOMAIN queues[k].queue : g[queues[k].queue[i]].to = "closing"

\* A run that completed, or is about to be saved as completed, has nothing queued
\* from before its queue was discarded.
ClosedInv ==
  /\ \A r \in Runs : store[r].node = "completed" => OnlyLate(pending, given, r)
  /\ \A t \in Threads : tick[t].at = "discarded" => OnlyLate(pending, given, tick[t].run)

\* What is queued for one run stays late when another message is queued for another,
\* or a late one for this.
LEMMA LateGrows ==
  ASSUME IInv, NEW t \in Threads, Steer(t), NEW r, OnlyLate(pending, given, r),
         r # tick[t].run \/ tick[t].at = "discarded"
  PROVE  OnlyLate(pending', given', r)
<1> DEFINE run == tick[t].run
           n == Len(given) + 1
           q == QueueOf(run)
           x == [run |-> run, via |-> "hook",
                 to |-> IF tick[t].at = "discarded" THEN "closing" ELSE "ticked"]
<1>1. /\ QueuesOK /\ QueueInv /\ given \in Seq(Message) /\ n \in Nat
      /\ DOMAIN given = 1..Len(given) /\ given' = Append(given, x)
  BY TypeFacts DEF IInv, Steer, Give, CurrentRun
<1>2. /\ \A m \in DOMAIN given : given'[m] = given[m]
      /\ given'[n] = x
  BY <1>1
<1>3. x.to = "closing" \/ r # run
  OBVIOUS
<1>4. \A k \in DOMAIN pending : \A i \in DOMAIN pending[k].queue : pending[k].queue[i] \in DOMAIN given
  BY <1>1 DEF QueueInv, Clean
<1>5. \A k \in DOMAIN pending' :
        \/ pending'[k].run # run /\ \E j \in DOMAIN pending : pending'[k] = pending[j]
        \/ pending'[k].run = run /\ pending'[k].queue = Append(q, n)
  BY SteerStep
<1>6. q \in Seq(Nat) /\ \/ q = <<>>
                        \/ \E k \in DOMAIN pending : pending[k].run = run /\ pending[k].queue = q
  BY <1>1, QueueOfFacts
<1> HIDE DEF run, n, q, x
<1>7. ASSUME NEW k \in DOMAIN pending', pending'[k].run = r,
             NEW i \in DOMAIN pending'[k].queue
      PROVE  given'[pending'[k].queue[i]].to = "closing"
  <2>1. CASE r # run
    BY <1>2, <1>4, <1>5, <1>7, <2>1 DEF OnlyLate
  <2>2. CASE r = run
    <3>1. pending'[k].queue = Append(q, n)
      BY <1>5, <1>7, <2>2
    <3>2. (i \in DOMAIN q /\ Append(q, n)[i] = q[i]) \/ Append(q, n)[i] = n
      BY <1>1, <1>6, <1>7, <3>1
    <3>3. CASE i \in DOMAIN q /\ Append(q, n)[i] = q[i]
      <4>1. PICK j \in DOMAIN pending : pending[j].run = run /\ pending[j].queue = q
        BY <1>6, <3>3
      <4>2. q[i] \in DOMAIN given /\ given[q[i]].to = "closing"
        BY <1>4, <2>2, <3>3, <4>1 DEF OnlyLate
      <4> QED BY <1>2, <3>1, <3>3, <4>2
    <3>4. CASE Append(q, n)[i] = n
      BY <1>2, <1>3, <2>2, <3>1, <3>4
    <3> QED BY <3>2, <3>3, <3>4
  <2> QED BY <2>1, <2>2
<1> QED BY <1>7 DEF OnlyLate

\* The nodes that complete a run discard its queue, and only what handlers answer to
\* the events of the closing itself is queued for it afterwards.
THEOREM QueuesEnd == Spec => []NoQueueOutlivesItsRun
<1>1. Init => ClosedInv
  BY DEF Init, ClosedInv, OnlyLate, NewRun, Idle
<1>2. ASSUME IInv, ClosedInv, [Next]_vars
      PROVE  ClosedInv'
  <2>1. TypeOK /\ Scheduled /\ QueuesOK /\ Nobody \notin Runs /\ Idle.at = "idle"
    BY <1>2, TypeFacts DEF IInv, Idle
  <2>2. ASSUME NEW t \in Threads, Steer(t)
        PROVE  ClosedInv'
    <3>1. UNCHANGED <<store, tick>> /\ tick[t].at # "idle"
      BY <2>2 DEF Steer
    <3>2. tick[t].run \in Runs /\ store[tick[t].run].node # "completed"
      BY <2>1, <3>1, TypeFacts DEF Scheduled, TickState, Ended
    <3>3. \A u \in Threads : tick[u].at = "discarded" /\ tick[u].run = tick[t].run
                               => tick[t].at = "discarded"
      BY <2>1, <3>1, <3>2 DEF Scheduled
    <3>4. ASSUME NEW r \in Runs, store[r].node = "completed"
          PROVE  OnlyLate(pending', given', r)
      BY <1>2, <2>2, <3>2, <3>4, LateGrows DEF ClosedInv
    <3>5. ASSUME NEW u \in Threads, tick[u].at = "discarded"
          PROVE  OnlyLate(pending', given', tick[u].run)
      BY <1>2, <2>2, <3>3, <3>5, LateGrows DEF ClosedInv
    <3> QED BY <3>1, <3>4, <3>5 DEF ClosedInv
  <2>3. ASSUME NEW r, pending' = Without(r), given' = given
        PROVE  /\ \A q : OnlyLate(pending, given, q) => OnlyLate(pending', given', q)
               /\ OnlyLate(pending', given', r)
    BY <2>1, <2>3, WithoutFacts DEF OnlyLate
  <2>4. ASSUME NEW t \in Threads, NEW w, TicksTo(t, w), store' = store,
               \A q : OnlyLate(pending, given, q) => OnlyLate(pending', given', q),
               w.at = "discarded" => OnlyLate(pending', given', tick[t].run)
        PROVE  ClosedInv'
    <3>1. \A u \in Threads : tick'[u] = IF u = t THEN w ELSE tick[u]
      BY <2>1, <2>4, TypeFacts DEF TicksTo
    <3>2. ASSUME NEW u \in Threads, tick'[u].at = "discarded"
          PROVE  OnlyLate(pending', given', tick'[u].run)
      <4>1. CASE u = t
        BY <2>4, <3>1, <3>2, <4>1 DEF TicksTo
      <4>2. CASE u # t
        BY <1>2, <2>4, <3>1, <3>2, <4>2 DEF ClosedInv
      <4> QED BY <4>1, <4>2
    <3> QED BY <1>2, <2>4, <3>2 DEF ClosedInv
  <2>5. ASSUME NEW t \in Threads, Drain(t) \/ TurnToConclude(t) \/ Work(t) \/ Ask(t)
        PROVE  ClosedInv'
    <3>1. PICK w : Leaves(t, w)
      BY <2>1, <2>5, BodyFacts
    <3>2. \A q : OnlyLate(pending, given, q) => OnlyLate(pending', given', q)
      BY <2>3, <3>1 DEF Leaves
    <3> QED BY <2>4, <3>1, <3>2 DEF Leaves
  <2>6. ASSUME NEW t \in Threads, Close(t)
        PROVE  ClosedInv'
    <3>1. PICK w : TicksTo(t, w)
      BY <2>1, <2>6, CloseFacts
    <3>2. pending' = Without(tick[t].run) /\ store' = store /\ given' = given
      BY <2>6 DEF Close, KeptAtTerminal, CurrentRun
    <3> QED BY <2>3, <2>4, <3>1, <3>2
  <2>7. ASSUME NEW t \in Threads, Save(t)
        PROVE  ClosedInv'
    <3>1. /\ \A u \in Threads : tick'[u] = IF u = t THEN Idle ELSE tick[u]
          /\ tick[t].at \in {"after", "discarded"} /\ UNCHANGED <<pending, given>>
      BY <2>1, <2>7, SaveFacts DEF Save
    <3>2. \A q \in Runs : \/ store'[q] = store[q]
                          \/ q = tick[t].run /\ store'[q] = tick[t].copy
      BY <2>1, <2>7, SaveFacts
    <3>3. tick[t].copy.node = "completed" => OnlyLate(pending, given, tick[t].run)
      BY <1>2, <2>1, <3>1 DEF Scheduled, ClosedInv
    <3> QED BY <1>2, <2>1, <3>1, <3>2, <3>3 DEF ClosedInv
  <2>8. CASE InjectSave
    <3> DEFINE x == [run |-> injector.run, via |-> "inbox",
                     to |-> CASE injector.copy.node \in Dead -> "dead"
                              [] injector.run \in Ticked    -> "ticked"
                              [] OTHER                      -> "live"]
    <3>1. injector.run \in Runs /\ injector.copy \in RunState
      BY <2>1, <2>8, TypeFacts DEF Scheduled, InjectSave
    <3>2. /\ \A q \in Runs : store'[q].node = IF q = injector.run THEN injector.copy.node
                                              ELSE store[q].node
          /\ UNCHANGED <<tick, pending>> /\ given' = Append(given, x)
      BY <2>1, <2>8, <3>1, TypeFacts DEF InjectSave, RunState, Give
    <3>3. injector.copy.node = "completed" => store[injector.run].node = "completed"
      BY <2>1, <3>1, TypeFacts DEF Scheduled, Ended
    <3> HIDE DEF x
    <3>4. \A m \in DOMAIN given : given'[m] = given[m]
      BY <2>1, <3>2, TypeFacts
    <3>5. \A k \in DOMAIN pending : \A i \in DOMAIN pending[k].queue :
            pending[k].queue[i] \in DOMAIN given
      BY <1>2 DEF IInv, QueueInv, Clean
    <3>6. \A q : OnlyLate(pending, given, q) => OnlyLate(pending', given', q)
      BY <3>2, <3>4, <3>5 DEF OnlyLate
    <3> QED BY <1>2, <3>2, <3>3, <3>6 DEF ClosedInv
  <2>9. ASSUME NEW t \in Threads, NEW r \in Runs, Load(t, r)
        PROVE  ClosedInv'
    <3> DEFINE w == [run |-> r, copy |-> store[r], at |-> "body", noisy |-> FALSE]
    <3>1. /\ \A u \in Threads : tick'[u] = IF u = t THEN w ELSE tick[u]
          /\ w.at = "body" /\ UNCHANGED <<store, pending, given>>
      BY <2>1, <2>9, TypeFacts DEF Load
    <3> HIDE DEF w
    <3> QED BY <1>2, <3>1 DEF ClosedInv
  <2>10. ASSUME NEW r \in Runs, InjectLoad(r) \/ DiscardDead(r)
         PROVE  ClosedInv'
    <3>1. UNCHANGED <<store, tick, given>> /\ (pending' = pending \/ pending' = Without(r))
      BY <2>10 DEF InjectLoad, DiscardDead
    <3>2. \A q : OnlyLate(pending, given, q) => OnlyLate(pending', given', q)
      BY <2>3, <3>1
    <3> QED BY <1>2, <3>1, <3>2 DEF ClosedInv
  <2>11. ASSUME NEW r \in Runs, Answer(r) \/ Cancel(r)
         PROVE  ClosedInv'
    <3>1. UNCHANGED <<tick, pending, given>>
      BY <2>11 DEF Answer, Cancel
    <3>2. PICK node \in Nodes \ {"completed"} : store' = [store EXCEPT ![r].node = node]
      BY <2>11 DEF Answer, Cancel, Nodes, Dead
    <3>3. \A q \in Runs : store'[q].node = "completed" => store[q].node = "completed"
      BY <2>1, <3>2, MarkFacts
    <3> QED BY <1>2, <3>1, <3>3 DEF ClosedInv
  <2>12. CASE Crash
    BY <2>1, <2>12 DEF Crash, ClosedInv, OnlyLate
  <2>13. CASE Finished \/ UNCHANGED vars
    BY <1>2, <2>13 DEF Finished, vars, ClosedInv
  <2> QED BY <1>2, <2>2, <2>5, <2>6, <2>7, <2>8, <2>9, <2>10, <2>11, <2>12, <2>13
      DEF Next, Progress
<1>3. IInv /\ ClosedInv => NoQueueOutlivesItsRun
  <2> SUFFICES ASSUME IInv, ClosedInv PROVE NoQueueOutlivesItsRun
    OBVIOUS
  <2>1. QueuesOK
    BY TypeFacts DEF IInv
  <2>2. ASSUME NEW r \in Runs, store[r].node = "completed", NEW m \in Range(QueueOf(r))
        PROVE  given[m].to = "closing"
    <3>1. PICK i \in DOMAIN QueueOf(r) : QueueOf(r)[i] = m
      BY <2>2 DEF Range
    <3>2. PICK k \in DOMAIN pending : pending[k].run = r /\ pending[k].queue = QueueOf(r)
      BY <2>1, <3>1, QueueOfFacts
    <3> QED BY <2>2, <3>1, <3>2 DEF ClosedInv, OnlyLate
  <2> QED BY <2>1, <2>2 DEF NoQueueOutlivesItsRun, QueuesOK
<1>4. IInv /\ ClosedInv /\ [Next]_vars => ClosedInv'
  BY <1>2
<1> QED BY <1>1, <1>3, <1>4, Invariance, PTL DEF Spec

\* The messages of g that Accepted speaks of.
Taken(g) == {m \in DOMAIN g : g[m].via = "inbox" /\ g[m].to = "live"}

\* Those of them r was given.
Inboxed(g, r) == {m \in Taken(g) : g[m].run = r}

\* What is left in an inbox at the end was told.
Settled(g, told, v) == Range(v.inbox) \cap Taken(g) \subseteq told

\* Every copy of a run has what the run was given, however old it is: the host writes
\* one message at a time, and a tick that a message missed is not one it counts on.
LossInv ==
  /\ injector.run # Nobody =>
       /\ Inboxed(given, injector.run) \subseteq Range(Held(injector.copy))
       /\ injector.copy.node = "completed" => Settled(given, reported, injector.copy)
  /\ \A r \in Runs : /\ Inboxed(given, r) \subseteq Range(Held(store[r]))
                     /\ store[r].node = "completed" => Settled(given, reported, store[r])
  /\ \A t \in Threads :
       /\ tick[t].run # Nobody => Inboxed(given, tick[t].run) \subseteq Range(Held(tick[t].copy))
       /\ tick[t].at = "discarded" => Settled(given, reported, tick[t].copy)

\* Two sequences hold together what each of them holds.
LEMMA RangeOfConcat ==
  ASSUME NEW a \in Seq(Nat), NEW b \in Seq(Nat)
  PROVE  Range(a \o b) = Range(a) \union Range(b)
<1> DEFINE c == a \o b
<1>1. /\ Len(a) \in Nat /\ Len(b) \in Nat
      /\ DOMAIN a = 1..Len(a) /\ DOMAIN b = 1..Len(b) /\ DOMAIN c = 1..(Len(a) + Len(b))
      /\ \A k \in 1..(Len(a) + Len(b)) : c[k] = IF k <= Len(a) THEN a[k] ELSE b[k - Len(a)]
  BY ConcatProperties
<1> HIDE DEF c
<1>2. ASSUME NEW k \in DOMAIN c
      PROVE  c[k] \in Range(a) \union Range(b)
  <2>1. CASE k <= Len(a)
    BY <1>1, <2>1 DEF Range
  <2>2. CASE k > Len(a)
    <3>1. k - Len(a) \in DOMAIN b /\ c[k] = b[k - Len(a)]
      BY <1>1, <2>2
    <3> QED BY <3>1 DEF Range
  <2> QED BY <1>1, <2>1, <2>2
<1>3. ASSUME NEW k \in DOMAIN a
      PROVE  a[k] \in Range(c)
  <2>1. k \in DOMAIN c /\ c[k] = a[k]
    BY <1>1
  <2> QED BY <2>1 DEF Range
<1>4. ASSUME NEW k \in DOMAIN b
      PROVE  b[k] \in Range(c)
  <2>1. Len(a) + k \in DOMAIN c /\ c[Len(a) + k] = b[k]
    BY <1>1, PlaceSums
  <2> QED BY <2>1 DEF Range
<1> QED BY <1>2, <1>3, <1>4 DEF Range, c

\* Appending a message adds it and nothing else.
LEMMA RangeOfAppend ==
  ASSUME NEW a \in Seq(Nat), NEW n \in Nat
  PROVE  Range(Append(a, n)) = Range(a) \union {n}
<1>1. /\ Len(a) \in Nat /\ DOMAIN a = 1..Len(a)
      /\ DOMAIN Append(a, n) = 1..(Len(a) + 1) /\ Append(a, n)[Len(a) + 1] = n
      /\ \A k \in 1..Len(a) : Append(a, n)[k] = a[k]
  OBVIOUS
<1> DEFINE c == Append(a, n)
<1> HIDE DEF c
<1>2. DOMAIN c = 1..(Len(a) + 1) /\ c[Len(a) + 1] = n /\ \A k \in 1..Len(a) : c[k] = a[k]
  BY <1>1 DEF c
<1> QED BY <1>1, <1>2 DEF Range, c

\* A message the host hands to a live run between two ticks is in the run's record
\* from then on, and when the run completes it was absorbed or is reported: whatever
\* other messages race ticks, stale copies are saved and runs are cancelled.
THEOREM NothingLost == Spec => []NothingSilentlyLost
<1>1. Init => LossInv
  <2> SUFFICES ASSUME Init PROVE LossInv
    OBVIOUS
  <2>1. \A r \in Runs : Inboxed(given, r) = {}
    BY DEF Init, Inboxed, Taken
  <2> QED BY <2>1 DEF Init, LossInv, NoInjection, Idle, NewRun
<1>2. ASSUME IInv, LossInv, [Next]_vars
      PROVE  LossInv'
  <2>1. /\ TypeOK /\ Scheduled /\ Nobody \notin Runs /\ Idle.at = "idle" /\ Idle.run = Nobody
        /\ NoInjection.run = Nobody /\ given \in Seq(Message) /\ Len(given) \in Nat
        /\ DOMAIN given = 1..Len(given)
    BY <1>2, TypeFacts DEF IInv, Idle, NoInjection
  <2>2. ASSUME given' = given, reported \subseteq reported'
        PROVE  /\ \A r : Inboxed(given', r) = Inboxed(given, r)
               /\ \A v : Settled(given, reported, v) => Settled(given', reported', v)
    BY <2>2 DEF Inboxed, Settled, Taken
  <2>3. ASSUME NEW t \in Threads, Steer(t)
        PROVE  LossInv'
    <3>1. /\ UNCHANGED <<store, tick, injector, reported>>
          /\ given' = Append(given, [run |-> tick[t].run, via |-> "hook",
                                     to |-> IF tick[t].at = "discarded" THEN "closing" ELSE "ticked"])
      BY <2>3 DEF Steer, Give
    <3>2. \A m \in DOMAIN given' : \/ m \in DOMAIN given /\ given'[m] = given[m]
                                   \/ m = Len(given) + 1 /\ given'[m].via = "hook"
      BY <2>1, <3>1
    <3>3. DOMAIN given \subseteq DOMAIN given'
      BY <2>1, <3>1
    <3>4. Taken(given') = Taken(given)
      <4>1. \A m \in DOMAIN given : given'[m] = given[m]
        BY <2>1, <3>1
      <4>2. \A m : m \in Taken(given') <=> m \in Taken(given)
        BY <3>2, <3>3, <4>1 DEF Taken
      <4> QED BY <4>2
    <3>5. \A r : Inboxed(given', r) = Inboxed(given, r)
      <4>1. \A m \in Taken(given) : given'[m] = given[m]
        BY <2>1, <3>1 DEF Taken
      <4> QED BY <3>4, <4>1 DEF Inboxed
    <3> QED BY <1>2, <3>1, <3>4, <3>5 DEF LossInv, Settled, Held
  <2>4. ASSUME NEW t \in Threads, NEW w, TicksTo(t, w), tick[t].at # "idle",
               UNCHANGED <<store, injector, given>>, reported \subseteq reported',
               Range(Held(tick[t].copy)) \subseteq Range(Held(w.copy)),
               w.at = "discarded" => Settled(given', reported', w.copy)
        PROVE  LossInv'
    <3>1. \A u \in Threads : tick'[u] = IF u = t THEN w ELSE tick[u]
      BY <2>1, <2>4, TypeFacts DEF TicksTo
    <3>2. w.run = tick[t].run /\ w.run # Nobody
      BY <2>1, <2>4 DEF TicksTo, Scheduled
    <3>3. \A u \in Threads : tick'[u].run = tick[u].run
      BY <3>1, <3>2
    <3>4. ASSUME NEW u \in Threads
          PROVE  /\ tick'[u].run # Nobody
                      => Inboxed(given', tick'[u].run) \subseteq Range(Held(tick'[u].copy))
                 /\ tick'[u].at = "discarded" => Settled(given', reported', tick'[u].copy)
      BY <1>2, <2>2, <2>4, <3>1, <3>2 DEF LossInv
    <3> QED BY <1>2, <2>2, <2>4, <3>3, <3>4 DEF LossInv
  <2>5. ASSUME NEW t \in Threads, Drain(t) \/ TurnToConclude(t) \/ Work(t) \/ Ask(t)
        PROVE  LossInv'
    <3>1. PICK w : Leaves(t, w)
      BY <2>1, <2>5, BodyFacts
    <3>2. Held(tick[t].copy) \in Seq(Nat) /\ QueueOf(tick[t].run) \in Seq(Nat)
      BY <2>1, TypeFacts, HeldType, QueueOfFacts DEF TickState
    <3>3. Range(Held(tick[t].copy)) \subseteq Range(Held(w.copy))
      BY <3>1, <3>2, RangeOfConcat DEF Leaves
    <3> QED BY <2>4, <3>1, <3>3 DEF Leaves
  <2>6. ASSUME NEW t \in Threads, Close(t)
        PROVE  LossInv'
    <3>1. PICK w : /\ TicksTo(t, w) /\ w.copy.inbox = tick[t].copy.inbox
                   /\ Held(w.copy) = Held(tick[t].copy)
      BY <2>1, <2>6, CloseFacts
    <3>2. /\ UNCHANGED <<store, injector, given>>
          /\ reported' = reported \union Range(tick[t].copy.inbox) /\ tick[t].at # "idle"
      BY <2>6 DEF Close, Undelivered
    <3> QED BY <2>4, <3>1, <3>2 DEF Settled
  <2>7. ASSUME NEW t \in Threads, NEW r \in Runs, Load(t, r)
        PROVE  LossInv'
    <3> DEFINE w == [run |-> r, copy |-> store[r], at |-> "body", noisy |-> FALSE]
    <3>1. /\ \A u \in Threads : tick'[u] = IF u = t THEN w ELSE tick[u]
          /\ w.run = r /\ w.copy = store[r] /\ w.at = "body"
          /\ UNCHANGED <<store, injector, given, reported>>
      BY <2>1, <2>7, TypeFacts DEF Load
    <3> HIDE DEF w
    <3> QED BY <1>2, <3>1 DEF LossInv
  <2>8. ASSUME NEW t \in Threads, Save(t)
        PROVE  LossInv'
    <3>1. /\ \A u \in Threads : tick'[u] = IF u = t THEN Idle ELSE tick[u]
          /\ \A q \in Runs : \/ store'[q] = store[q]
                             \/ q = tick[t].run /\ store'[q] = tick[t].copy
          /\ tick[t].at \in {"after", "discarded"} /\ UNCHANGED <<injector, given, reported>>
      BY <2>1, <2>8, SaveFacts DEF Save
    <3>2. tick[t].run \in Runs /\ tick[t].run # Nobody
      BY <2>1, <3>1, TypeFacts DEF Scheduled, TickState
    <3>3. tick[t].copy.node = "completed" => Settled(given, reported, tick[t].copy)
      BY <1>2, <2>1, <3>1 DEF Scheduled, LossInv
    <3> QED BY <1>2, <2>1, <3>1, <3>2, <3>3 DEF LossInv
  <2>9. ASSUME NEW r \in Runs, InjectLoad(r)
        PROVE  LossInv'
    <3>1. /\ injector'.run = r /\ injector'.copy = store[r]
          /\ UNCHANGED <<store, tick, given, reported>>
      BY <2>9 DEF InjectLoad
    <3> QED BY <1>2, <3>1 DEF LossInv
  <2>10. CASE InjectSave
    <3> DEFINE run == injector.run
               c == injector.copy
               n == Len(given) + 1
               v == [c EXCEPT !.inbox = Append(@, n)]
               x == [run |-> run, via |-> "inbox", to |-> CASE c.node \in Dead  -> "dead"
                                                            [] run \in Ticked -> "ticked"
                                                            [] OTHER          -> "live"]
    <3>1. run \in Runs /\ run # Nobody /\ c \in RunState /\ c.inbox \in Seq(Nat) /\ n \in Nat
      BY <2>1, <2>10, TypeFacts DEF Scheduled, InjectSave, RunState
    <3>2. /\ Inboxed(given, run) \subseteq Range(Held(c))
          /\ c.node = "completed" => Settled(given, reported, c)
          /\ given' = Append(given, x) /\ injector' = NoInjection /\ UNCHANGED <<tick, reported>>
          /\ \A q \in Runs : store'[q] = IF q = run THEN v ELSE store[q]
      BY <1>2, <2>1, <2>10, <3>1, TypeFacts DEF LossInv, InjectSave, Give, NextId
    <3>3. v \in RunState /\ v.node = c.node /\ v.inbox = Append(c.inbox, n) /\ v.seen = c.seen
      <4>1. Append(c.inbox, n) \in Seq(Nat)
        BY <3>1
      <4> QED BY <3>1, <4>1 DEF RunState
    <3>4. Range(Held(v)) = Range(Held(c)) \union {n} /\ Range(v.inbox) = Range(c.inbox) \union {n}
      <4>1. c.seen \in Seq(Nat) /\ v.inbox \in Seq(Nat) /\ v.seen \in Seq(Nat)
        BY <3>1, <3>3 DEF RunState
      <4>2. Range(v.inbox) = Range(c.inbox) \union {n}
        BY <3>1, <3>3, RangeOfAppend
      <4>3. /\ Range(Held(v)) = Range(v.seen) \union Range(v.inbox)
            /\ Range(Held(c)) = Range(c.seen) \union Range(c.inbox)
        BY <3>1, <4>1, RangeOfConcat DEF Held
      <4> QED BY <3>3, <4>2, <4>3
    <3> HIDE DEF v
    <3>5. /\ \A m \in DOMAIN given : m \in DOMAIN given' /\ given'[m] = given[m]
          /\ \A m \in DOMAIN given' : m \in DOMAIN given \/ m = n
          /\ given'[n] = x
      BY <2>1, <3>2
    <3>6. x.run = run /\ (x.to = "live" => c.node \notin Dead /\ \A u \in Threads : tick[u].run # run)
      BY <3>1 DEF Ticked
    <3> HIDE DEF x, n
    <3>7. /\ Taken(given') \subseteq Taken(given) \union {n}
          /\ n \in Taken(given') => c.node \notin Dead /\ \A u \in Threads : tick[u].run # run
      BY <3>5, <3>6 DEF Taken
    <3>8. /\ \A r : r # run => Inboxed(given', r) \subseteq Inboxed(given, r)
          /\ Inboxed(given', run) \subseteq Inboxed(given, run) \union {n}
      BY <3>5, <3>6 DEF Inboxed, Taken
    <3>9. ASSUME NEW r \in Runs
          PROVE  /\ Inboxed(given', r) \subseteq Range(Held(store'[r]))
                 /\ store'[r].node = "completed" => Settled(given', reported, store'[r])
      <4>1. CASE r = run
        <5>1. Inboxed(given', run) \subseteq Range(Held(v))
          BY <3>2, <3>4, <3>8
        <5>2. v.node = "completed" => Settled(given', reported, v)
          BY <3>2, <3>3, <3>4, <3>7 DEF Settled, Dead
        <5> QED BY <3>1, <3>2, <4>1, <5>1, <5>2
      <4>2. CASE r # run
        <5>1. store'[r] = store[r]
          BY <3>2, <4>2
        <5>2. Range(store[r].inbox) \subseteq DOMAIN given
          BY <1>2, <2>1, TypeFacts, HeldIsGiven DEF IsHeld
        <5> QED BY <1>2, <3>5, <3>8, <4>2, <5>1, <5>2 DEF LossInv, Settled, Taken
      <4> QED BY <4>1, <4>2
    <3>10. ASSUME NEW u \in Threads
           PROVE  /\ tick[u].run # Nobody
                       => Inboxed(given', tick[u].run) \subseteq Range(Held(tick[u].copy))
                  /\ tick[u].at = "discarded" => Settled(given', reported, tick[u].copy)
      <4>1. tick[u].at = "discarded" => Range(tick[u].copy.inbox) \subseteq DOMAIN given
        <5> SUFFICES ASSUME tick[u].at = "discarded"
                     PROVE  Range(tick[u].copy.inbox) \subseteq DOMAIN given
          OBVIOUS
        <5>1. tick[u].run \in Runs /\ tick[u].copy \in RunState
          BY <2>1, TypeFacts DEF Scheduled, TickState
        <5> QED BY <1>2, <2>1, <5>1, HeldIsGiven DEF IsHeld
      <4>2. tick[u].run # Nobody => Inboxed(given', tick[u].run) \subseteq Inboxed(given, tick[u].run)
        BY <3>5, <3>6, <3>7, <3>8 DEF Inboxed
      <4> QED BY <1>2, <3>2, <3>5, <4>1, <4>2 DEF LossInv, Settled, Taken
    <3> QED BY <2>1, <3>2, <3>9, <3>10 DEF LossInv
  <2>11. CASE Crash
    <3>1. /\ UNCHANGED <<store, given, reported>> /\ injector'.run = Nobody
          /\ \A u \in Threads : tick'[u].run = Nobody /\ tick'[u].at = "idle"
      BY <2>1, <2>11 DEF Crash
    <3> QED BY <1>2, <3>1 DEF LossInv
  <2>12. CASE (\E r \in Runs : DiscardDead(r)) \/ Finished \/ UNCHANGED vars
    <3>1. UNCHANGED <<store, tick, injector, given, reported>>
      BY <2>12 DEF DiscardDead, Finished, vars
    <3> QED BY <1>2, <3>1 DEF LossInv
  <2>13. ASSUME NEW r \in Runs, Answer(r) \/ Cancel(r)
         PROVE  LossInv'
    <3>1. UNCHANGED <<tick, injector, given, reported>>
      BY <2>13 DEF Answer, Cancel
    <3>2. PICK node \in Nodes \ {"completed"} : store' = [store EXCEPT ![r].node = node]
      BY <2>13 DEF Answer, Cancel, Nodes, Dead
    <3>3. \A q \in Runs : /\ store'[q].node = "completed" => store[q].node = "completed"
                          /\ store'[q].inbox = store[q].inbox /\ store'[q].seen = store[q].seen
      BY <2>1, <3>2, MarkFacts
    <3>4. \A q \in Runs : Held(store'[q]) = Held(store[q])
      BY <3>3 DEF Held
    <3> QED BY <1>2, <3>1, <3>3, <3>4 DEF LossInv, Settled
  <2> QED BY <1>2, <2>3, <2>5, <2>6, <2>7, <2>8, <2>9, <2>10, <2>11, <2>12, <2>13
      DEF Next, Progress
<1>3. IInv /\ LossInv => NothingSilentlyLost
  <2> SUFFICES ASSUME IInv, LossInv, NEW m \in DOMAIN given, Accepted(m)
               PROVE  LET run == store[given[m].run]
                      IN  /\ m \in Range(run.seen \o run.inbox)
                          /\ run.node = "completed" => m \in Range(run.seen) \union reported
    BY DEF NothingSilentlyLost
  <2> DEFINE r == given[m].run
  <2>1. given[m] \in Message /\ r \in Runs /\ store[r] \in RunState
    <3>1. given[m] \in Message
      BY TypeFacts DEF IInv
    <3> QED BY <3>1, TypeFacts DEF IInv, Message
  <2>2. m \in Range(store[r].seen \o store[r].inbox)
    BY <2>1 DEF LossInv, Inboxed, Taken, Accepted, Held
  <2>3. m \in Range(store[r].seen) \union Range(store[r].inbox)
    BY <2>1, <2>2, RangeOfConcat DEF RunState
  <2>4. store[r].node = "completed" => m \in Range(store[r].seen) \union reported
    BY <2>1, <2>3 DEF LossInv, Settled, Taken, Accepted
  <2> QED BY <2>2, <2>4
<1>4. IInv /\ LossInv /\ [Next]_vars => LossInv'
  BY <1>2
<1> QED BY <1>1, <1>3, <1>4, Invariance, PTL DEF Spec

\* What leaves the queue of r was one of the messages of a queue that r has.
LEMMA LeavesQueue ==
  ASSUME QueuesOK, QueuesOK', NEW r, NEW m \in Range(QueueOf(r)), m \notin Range(QueueOf(r)')
  PROVE  \E k \in DOMAIN pending :
           /\ pending[k].run = r /\ pending[k].queue = QueueOf(r)
           /\ \A j \in DOMAIN pending' : pending'[j].run = r => m \notin Range(pending'[j].queue)
<1>1. QueueOf(r) # <<>>
  BY DEF Range
<1>2. PICK k \in DOMAIN pending : pending[k].run = r /\ pending[k].queue = QueueOf(r)
  BY <1>1, QueueOfFacts
<1>3. ASSUME NEW j \in DOMAIN pending', pending'[j].run = r
      PROVE  pending'[j].queue = QueueOf(r)'
  <2>1. HasQueue(r)'
    BY <1>3 DEF HasQueue
  <2>2. PlaceOf(r)' \in DOMAIN pending' /\ pending'[PlaceOf(r)'].run = r
    BY <2>1 DEF HasQueue, PlaceOf
  <2>3. PlaceOf(r)' = j
    BY <1>3, <2>2 DEF QueuesOK, OneEach
  <2> QED BY <2>1, <2>3 DEF QueueOf
<1> QED BY <1>2, <1>3

\* Sequences of the same places are equally long.
LEMMA SameLength ==
  ASSUME NEW S, NEW T, NEW a \in Seq(S), NEW b \in Seq(T), DOMAIN a = DOMAIN b
  PROVE  Len(a) = Len(b)
<1>1. Len(a) \in Nat /\ Len(b) \in Nat /\ 1..Len(a) = 1..Len(b)
  OBVIOUS
<1> QED BY <1>1

\* Of the queues kept, one more message leaves all but the first as they are.
LEMMA QueuedKeeps ==
  ASSUME QueuesOK, NEW r \in Runs, NEW n \in Nat,
         NEW k \in DOMAIN pending, NEW m \in Range(pending[k].queue)
  PROVE  LET q == Queued(r, n)
         IN  /\ q[k].run = pending[k].run /\ m \in Range(q[k].queue) /\ k \in DOMAIN q
             /\ Len(q) = IF HasQueue(r) THEN Len(pending) ELSE Len(pending) + 1
<1> DEFINE q == Queued(r, n)
<1>1. pending \in Seq(Queue) /\ q \in Seq(Queue) /\ Len(pending) \in Nat
      /\ DOMAIN pending = 1..Len(pending)
  BY QueuedFacts DEF QueuesOK
<1>2. pending[k] \in Queue
  <2> HIDE DEF Queue
  <2> QED BY <1>1
<1>3. pending[k].queue \in Seq(Nat)
  BY <1>2 DEF Queue
<1>4. CASE HasQueue(r)
  <2>1. q = [j \in DOMAIN pending |-> IF pending[j].run = r
                                      THEN [pending[j] EXCEPT !.queue = Append(@, n)]
                                      ELSE pending[j]]
    BY <1>4 DEF Queued
  <2>2. DOMAIN q = DOMAIN pending
        /\ q[k] = IF pending[k].run = r THEN [pending[k] EXCEPT !.queue = Append(@, n)]
                  ELSE pending[k]
    BY <2>1
  <2> HIDE DEF q
  <2>3. Len(q) = Len(pending)
    BY <1>1, <2>2, SameLength
  <2>4. \A p \in Queue : LET w == [p EXCEPT !.queue = Append(@, n)]
                         IN  w.run = p.run /\ w.queue = Append(p.queue, n)
    BY DEF Queue
  <2>5. q[k].run = pending[k].run /\ (q[k].queue = pending[k].queue
                                      \/ q[k].queue = Append(pending[k].queue, n))
    BY <1>2, <2>2, <2>4
  <2>6. m \in Range(q[k].queue)
    BY <1>3, <2>5, RangeOfAppend
  <2>7. k \in DOMAIN q
    BY <2>2
  <2> QED BY <1>4, <2>3, <2>5, <2>6, <2>7 DEF q
<1>5. CASE ~HasQueue(r)
  <2> DEFINE new == [run |-> r, queue |-> <<n>>]
  <2>1. q = Append(pending, new)
    BY <1>5 DEF Queued
  <2> HIDE DEF new, q, Queue
  <2>2. Len(q) = Len(pending) + 1 /\ q[k] = pending[k] /\ k \in DOMAIN q
    BY <1>1, <2>1
  <2> QED BY <1>5, <2>2 DEF q
<1> QED BY <1>4, <1>5

\* The queue that goes when there are too many is the first.
LEMMA CappedKeeps ==
  ASSUME NEW S, NEW q \in Seq(S), NEW k \in DOMAIN q, Len(q) > MaxPendingRuns => k # 1
  PROVE  \E j \in DOMAIN Capped(q) : Capped(q)[j] = q[k]
<1>1. Len(q) \in Nat /\ DOMAIN q = 1..Len(q) /\ k \in 1..Len(q)
  OBVIOUS
<1>2. CASE Len(q) > MaxPendingRuns
  <2>1. q # <<>> /\ k > 1 /\ Capped(q) = Tail(q)
    BY <1>1, <1>2 DEF Capped
  <2>2. /\ Tail(q) \in Seq(S) /\ Len(Tail(q)) = Len(q) - 1
        /\ \A j \in 1..Len(Tail(q)) : Tail(q)[j] = q[j + 1]
    BY <2>1, HeadTailProperties
  <2>3. k - 1 \in 1..Len(Tail(q)) /\ (k - 1) + 1 = k
    BY <1>1, <2>1, <2>2
  <2>4. k - 1 \in DOMAIN Tail(q) /\ Tail(q)[k - 1] = q[k]
    BY <2>2, <2>3
  <2> QED BY <2>1, <2>4
<1>3. CASE ~(Len(q) > MaxPendingRuns)
  BY <1>3 DEF Capped
<1> QED BY <1>2, <1>3

\* Dropping the queue of one run leaves those of the others.
LEMMA WithoutKeeps ==
  ASSUME QueuesOK, NEW r, NEW k \in DOMAIN pending, pending[k].run # r
  PROVE  \E j \in DOMAIN Without(r) : Without(r)[j] = pending[k]
<1>1. CASE ~HasQueue(r)
  BY <1>1 DEF Without
<1>2. CASE HasQueue(r)
  <2> DEFINE i == PlaceOf(r)
             w == RemoveAt(pending, i)
  <2>1. i \in 1..Len(pending) /\ pending[i].run = r /\ Without(r) = w
    BY <1>2, PlaceFacts DEF QueuesOK, Without
  <2>2. /\ w \in Seq(Queue) /\ Len(w) = Len(pending) - 1
        /\ \A j \in 1..(Len(pending) - 1) : w[j] = pending[IF j < i THEN j ELSE j + 1]
    BY <2>1, RemoveAtFacts DEF QueuesOK
  <2> HIDE DEF i, w
  <2>3. Len(pending) \in Nat /\ DOMAIN w = 1..(Len(pending) - 1) /\ k \in 1..Len(pending) /\ k # i
    BY <2>1, <2>2 DEF QueuesOK
  <2>4. CASE k < i
    BY <2>1, <2>2, <2>3, <2>4
  <2>5. CASE k > i
    <3>1. k - 1 \in 1..(Len(pending) - 1) /\ ~(k - 1 < i) /\ (k - 1) + 1 = k
      BY <2>1, <2>3, <2>5
    <3> QED BY <2>1, <2>2, <2>3, <3>1
  <2> QED BY <2>1, <2>3, <2>4, <2>5
<1> QED BY <1>1, <1>2

\* The queue of a run goes to the run's own tick, unless the run ended, the queues
\* were too many or the process died.
THEOREM QueuesAreHandedOver == Spec => QueuedIsHandedOver
<1>1. ASSUME IInv, IInv', [Next]_vars,
             NEW r \in Runs, NEW m \in Range(QueueOf(r)), m \notin Range(QueueOf(r)')
      PROVE  \/ \E t \in Threads :
                  /\ tick[t].run = r
                  /\ \/ m \in Range(tick'[t].copy.seen \o tick'[t].copy.inbox)
                     \/ tick'[t].at = "discarded"
             \/ store[r].node \in {"failed", "cancelled"}
             \/ Len(pending) = MaxPendingRuns /\ pending[1].run = r /\ given' # given
             \/ crashes' > crashes
  <2>1. /\ TypeOK /\ Scheduled /\ QueuesOK /\ QueuesOK' /\ Nobody \notin Runs
        /\ given \in Seq(Message) /\ Len(given) \in Nat
    BY <1>1, TypeFacts DEF IInv, TypeOK, QueuesOK, OneEach, Queue
  <2>2. PICK k \in DOMAIN pending :
          /\ pending[k].run = r /\ pending[k].queue = QueueOf(r)
          /\ \A j \in DOMAIN pending' : pending'[j].run = r => m \notin Range(pending'[j].queue)
    BY <1>1, <2>1, LeavesQueue
  <2>3. pending' # pending
    BY <1>1, <2>2
  <2>4. ASSUME NEW t \in Threads, Steer(t)
        PROVE  Len(pending) = MaxPendingRuns /\ pending[1].run = r /\ given' # given
    <3>1. /\ tick[t].run \in Runs /\ Len(given) + 1 \in Nat
          /\ pending' = Capped(Queued(tick[t].run, Len(given) + 1))
      BY <2>1, <2>4, TypeFacts DEF Steer, Scheduled, TickState, CurrentRun, NextId
    <3> DEFINE q == Queued(tick[t].run, Len(given) + 1)
    <3>2. /\ q \in Seq(Queue) /\ Len(q) <= Len(pending) + 1
          /\ q[k].run = r /\ m \in Range(q[k].queue) /\ k \in DOMAIN q
      <4>1. q \in Seq(Queue) /\ Len(q) <= Len(pending) + 1
        BY <2>1, <3>1, QueuedFacts
      <4>2. m \in Range(pending[k].queue)
        BY <1>1, <2>2
      <4>3. q[k].run = pending[k].run /\ m \in Range(q[k].queue) /\ k \in DOMAIN q
        BY <2>1, <3>1, <4>2, QueuedKeeps
      <4> QED BY <2>2, <4>1, <4>3
    <3> HIDE DEF q
    <3>3. ~(Len(q) > MaxPendingRuns => k # 1)
      <4> SUFFICES ASSUME Len(q) > MaxPendingRuns => k # 1 PROVE FALSE
        OBVIOUS
      <4>1. PICK j \in DOMAIN pending' : pending'[j] = q[k]
        BY <3>1, <3>2, CappedKeeps DEF q
      <4> QED BY <2>2, <3>2, <4>1
    <3>4. k = 1 /\ Len(pending) = MaxPendingRuns
      <4>1. Len(q) \in Nat /\ Len(pending) \in Nat /\ MaxPendingRuns \in Nat
            /\ Len(pending) <= MaxPendingRuns
        BY <2>1, <3>2, SteeringAssumption DEF QueuesOK
      <4> QED BY <3>2, <3>3, <4>1
    <3>5. given' # given
      <4>1. PICK x : given' = Append(given, x)
        BY <2>4 DEF Steer, Give
      <4>2. Len(given') = Len(given) + 1
        BY <2>1, <4>1
      <4> QED BY <2>1, <4>2
    <3> QED BY <2>2, <3>4, <3>5
  <2>5. ASSUME NEW q, pending' = Without(q)
        PROVE  q = r
    BY <1>1, <2>1, <2>2, <2>5, WithoutKeeps
  <2>6. ASSUME NEW t \in Threads, Drain(t) \/ TurnToConclude(t) \/ Work(t) \/ Ask(t)
        PROVE  tick[t].run = r /\ m \in Range(tick'[t].copy.seen \o tick'[t].copy.inbox)
    <3>1. PICK w : Leaves(t, w)
      BY <2>1, <2>6, BodyFacts
    <3>2. /\ pending' = Without(tick[t].run)
          /\ Held(w.copy) = Held(tick[t].copy) \o QueueOf(tick[t].run)
      BY <2>3, <3>1 DEF Leaves
    <3>3. tick[t].run = r /\ tick'[t] = w
      BY <2>1, <2>5, <3>1, <3>2, TypeFacts DEF Leaves, TicksTo
    <3>4. Held(tick[t].copy) \in Seq(Nat) /\ QueueOf(r) \in Seq(Nat)
      BY <2>1, TypeFacts, HeldType, QueueOfFacts DEF TickState
    <3>5. m \in Range(Held(w.copy))
      BY <1>1, <3>2, <3>3, <3>4, RangeOfConcat
    <3> QED BY <3>3, <3>5 DEF Held
  <2>7. ASSUME NEW t \in Threads, Close(t)
        PROVE  tick[t].run = r /\ tick'[t].at = "discarded"
    <3>1. PICK w : TicksTo(t, w) /\ w.at = "discarded"
      BY <2>1, <2>7, CloseFacts
    <3>2. pending' = Without(tick[t].run)
      BY <2>7 DEF Close, KeptAtTerminal, CurrentRun
    <3> QED BY <2>1, <2>5, <3>1, <3>2, TypeFacts DEF TicksTo
  <2>8. ASSUME NEW q \in Runs, DiscardDead(q)
        PROVE  store[r].node \in {"failed", "cancelled"}
    BY <2>5, <2>8 DEF DiscardDead
  <2>9. CASE Crash
    BY <2>1, <2>9 DEF Crash, TypeOK
  <2>10. ASSUME \/ \E t \in Threads : Save(t)
                \/ \E t \in Threads, q \in Runs : Load(t, q)
                \/ \E q \in Runs : InjectLoad(q) \/ Answer(q) \/ Cancel(q)
                \/ InjectSave \/ Finished \/ UNCHANGED vars
         PROVE  pending' = pending
    BY <2>10 DEF Save, Load, InjectLoad, Answer, Cancel, InjectSave, Finished, vars
  <2> QED BY <1>1, <2>3, <2>4, <2>6, <2>7, <2>8, <2>9, <2>10 DEF Next, Progress
<1>2. IInv /\ IInv' /\ [Next]_vars =>
        [\A r \in Runs : \A m \in Range(QueueOf(r)) \ Range(QueueOf(r)') :
           \/ \E t \in Threads :
                /\ tick[t].run = r
                /\ \/ m \in Range(tick'[t].copy.seen \o tick'[t].copy.inbox)
                   \/ tick'[t].at = "discarded"
           \/ store[r].node \in {"failed", "cancelled"}
           \/ Len(pending) = MaxPendingRuns /\ pending[1].run = r /\ given' # given
           \/ crashes' > crashes]_vars
  BY <1>1
<1> QED BY <1>2, Invariance, PTL DEF Spec, QueuedIsHandedOver

===============================================================================
