--------------------------- MODULE TranscriptProofs ---------------------------
(***************************************************************************)
(* What is proved of the transcript repair, for every transcript, and of the *)
(* ReAct loop that grows the transcript, for every batch and session.        *)
(***************************************************************************)
EXTENDS TranscriptLoop, FiniteSetTheorems, WellFoundedInduction, SequenceTheorems, TLAPS

-----------------------------------------------------------------------------
(* Induction over the places of a transcript *)

\* A set of numbers that holds of 0 and, with each number below N, of the next one
\* holds of all numbers up to N.
LEMMA UpTo ==
  ASSUME NEW N \in Nat, NEW T, 0 \in T, \A k \in 0..(N - 1) : k \in T => k + 1 \in T
  PROVE  \A k \in 0..N : k \in T
<1> DEFINE Bad == {k \in 0..N : k \notin T}
<1> SUFFICES ASSUME Bad # {} PROVE FALSE
  OBVIOUS
<1>1. Bad \subseteq Nat
  OBVIOUS
<1> DEFINE Less == {p \in Nat \X Nat : p[1] < p[2]}
<1>2. IsWellFoundedOn(Less, Nat)
  BY NatLessThanWellFounded DEF OpToRel
<1> HIDE DEF Bad, Less
<1>3. PICK k \in Bad : \A j \in Bad : <<j, k>> \notin Less
  BY <1>1, <1>2, WFMin
<1>4. k \in 0..N /\ k \notin T
  BY DEF Bad
<1>5. k # 0 /\ k - 1 \in 0..(N - 1) /\ k - 1 \in Nat /\ k - 1 < k
  BY <1>4
<1>6. k - 1 \notin Bad
  <2>1. <<k - 1, k>> \in Less
    BY <1>4, <1>5 DEF Less
  <2> QED BY <1>3, <2>1
<1>7. k - 1 \in T
  BY <1>5, <1>6 DEF Bad
<1> QED BY <1>4, <1>5, <1>7

\* A set of numbers that is not empty has a least one.
LEMMA Least ==
  ASSUME NEW S \in SUBSET Nat, S # {}
  PROVE  \E k \in S : \A j \in S : k <= j
<1> DEFINE Less == {p \in Nat \X Nat : p[1] < p[2]}
<1>1. IsWellFoundedOn(Less, Nat)
  BY NatLessThanWellFounded DEF OpToRel
<1> HIDE DEF Less
<1>2. PICK k \in S : \A j \in S : <<j, k>> \notin Less
  BY <1>1, WFMin
<1>3. \A j \in S : ~(j < k)
  BY <1>2 DEF Less
<1> QED BY <1>3

\* InOrder lists each member of a set of places once.
LEMMA InOrderLists ==
  ASSUME NEW n \in Nat, NEW S \in SUBSET (1..n)
  PROVE  /\ IsFiniteSet(S) /\ Cardinality(S) \in Nat
         /\ InOrder(S) \in [1..Cardinality(S) -> S]
         /\ \A k \in S : \E i \in 1..Cardinality(S) : InOrder(S)[i] = k
         /\ \A i, j \in 1..Cardinality(S) : InOrder(S)[i] = InOrder(S)[j] => i = j
<1> DEFINE Below(k) == {j \in S : j <= k}
           rank == [k \in S |-> Cardinality(Below(k))]
           c == Cardinality(S)
<1>1. IsFiniteSet(1..n)
  BY FS_Interval
<1>2. IsFiniteSet(S)
  BY <1>1, FS_Subset
<1>3. c \in Nat
  BY <1>2, FS_CardinalityType
<1>4. ASSUME NEW k \in S
      PROVE  IsFiniteSet(Below(k)) /\ Cardinality(Below(k)) \in 1..c
  <2>1. Below(k) \subseteq S /\ Below(k) # {}
    OBVIOUS
  <2>2. IsFiniteSet(Below(k)) /\ Cardinality(Below(k)) <= c
    BY <1>2, <2>1, FS_Subset
  <2>3. Cardinality(Below(k)) \in Nat /\ Cardinality(Below(k)) # 0
    BY <2>1, <2>2, FS_CardinalityType, FS_EmptySet
  <2> QED BY <1>3, <2>2, <2>3
<1>5. ASSUME NEW j \in S, NEW k \in S, rank[j] = rank[k], j < k PROVE FALSE
  <2>1. Below(j) \subseteq Below(k) /\ k \in Below(k) /\ k \notin Below(j)
    <3>1. j < k /\ \A i \in S : i \in Int
      BY <1>5
    <3>2. \A i \in Int : i <= j => i <= k
      BY <3>1
    <3>3. k \in Int /\ j \in Int /\ ~(k <= j) /\ k <= k
      BY <3>1
    <3>4. Below(j) \subseteq Below(k)
      BY <3>1, <3>2
    <3> QED BY <3>3, <3>4
  <2> QED BY <1>4, <1>5, <2>1, FS_Subset
<1>6. rank \in Injection(S, 1..c)
  <2>1. rank \in [S -> 1..c]
    BY <1>4
  <2>2. \A j, k \in S : rank[j] = rank[k] => j = k
    <3>1. \A j, k \in S : j < k \/ k < j \/ j = k
      OBVIOUS
    <3> HIDE DEF rank
    <3> QED BY <1>5, <3>1
  <2> HIDE DEF rank
  <2> QED BY <2>1, <2>2 DEF Injection, IsInjective
<1>7. rank \in Surjection(S, 1..c)
  <2>1. IsFiniteSet(1..c) /\ Cardinality(1..c) = c
    BY <1>3, FS_Interval
  <2> HIDE DEF rank
  <2> QED BY <1>6, <2>1, FS_Injection
<1>8. \A i \in 1..c : \E k \in S : rank[k] = i
  <2> HIDE DEF rank
  <2> QED BY <1>7 DEF Surjection
<1>9. \A i \in 1..c : InOrder(S)[i] \in S /\ rank[InOrder(S)[i]] = i
  BY <1>8 DEF InOrder
<1>10. ASSUME NEW k \in S PROVE rank[k] \in 1..c /\ InOrder(S)[rank[k]] = k
  <2>1. rank[k] \in 1..c
    BY <1>4
  <2> HIDE DEF rank
  <2> QED BY <1>6, <1>9, <2>1 DEF Injection, IsInjective
<1>11. InOrder(S) \in [1..c -> S]
  <2>1. InOrder(S) = [i \in 1..c |-> InOrder(S)[i]]
    BY DEF InOrder
  <2> QED BY <1>9, <2>1
<1> HIDE DEF rank
<1> QED BY <1>2, <1>3, <1>9, <1>10, <1>11

\* An empty set has an empty list.
LEMMA InOrderOfNone == Cardinality({}) = 0 /\ InOrder({}) = <<>>
BY FS_EmptySet DEF InOrder

-----------------------------------------------------------------------------
(* Joining *)

\* What an entry's text consists of.
PartRec == [from : Nat, as : {"self", "unpaired", "interactive", "missing"}]
Parts == Seq(PartRec)

\* What an entry of a payload is.
Entry ==
  {e \in [role : Roles, calls : Seq(Call), id : CallIds \union {NoId}, parts : Parts] :
     e.calls # <<>> => e.role = "assistant"}

\* Two user entries meet where b is joined to a, and where b's entries come to lie.
Met(a, b) == a # <<>> /\ b # <<>> /\ a[Len(a)].role = "user" /\ b[1].role = "user"
Shift(a, b) == IF Met(a, b) THEN Len(a) - 1 ELSE Len(a)

Splice(a, e, b) == SubSeq(a, 1, Len(a) - 1) \o <<e>> \o Tail(b)

\* A sequence without its last member, a member, and a sequence without its first.
LEMMA Spliced ==
  ASSUME NEW X, NEW a \in Seq(X), NEW b \in Seq(X), NEW e \in X, a # <<>>, b # <<>>
  PROVE  LET s == Splice(a, e, b)
         IN  /\ s \in Seq(X)
             /\ Len(a) \in Nat \ {0} /\ Len(b) \in Nat \ {0}
             /\ Len(s) = (Len(a) - 1) + Len(b)
             /\ \A i \in 1..(Len(a) - 1) : s[i] = a[i]
             /\ s[Len(a)] = e
             /\ \A i \in 2..Len(b) : s[(Len(a) - 1) + i] = b[i]
<1> DEFINE f == SubSeq(a, 1, Len(a) - 1)
           t == Tail(b)
           g == f \o <<e>>
<1>1. Len(a) \in Nat \ {0} /\ Len(b) \in Nat \ {0}
  BY EmptySeq
<1>2. f \in Seq(X) /\ Len(f) = Len(a) - 1 /\ \A i \in 1..(Len(a) - 1) : f[i] = a[i]
  <2>1. PICK n \in Nat : n = Len(a) - 1
    BY <1>1
  <2>2. \A i \in 1..n : a[i] \in X
    BY <2>1
  <2>3. SubSeq(a, 1, n) \in Seq(X) /\ Len(SubSeq(a, 1, n)) = n
    BY <2>2, SubSeqProperties
  <2>4. \A i \in 1..n : SubSeq(a, 1, n)[i] = a[i]
    BY <2>1
  <2> QED BY <2>1, <2>3, <2>4
<1>3. t \in Seq(X) /\ Len(t) = Len(b) - 1 /\ \A i \in 1..(Len(b) - 1) : t[i] = b[i + 1]
  BY HeadTailProperties
<1> HIDE DEF f, t
<1>4. <<e>> \in Seq(X) /\ Len(<<e>>) = 1 /\ <<e>>[1] = e
  OBVIOUS
<1>5. g \in Seq(X) /\ Len(g) = Len(f) + 1
      /\ \A i \in 1..(Len(f) + 1) : g[i] = IF i <= Len(f) THEN f[i] ELSE <<e>>[i - Len(f)]
  BY <1>2, <1>4, ConcatProperties
<1>6. g \in Seq(X) /\ Len(g) = Len(a) /\ g[Len(a)] = e
      /\ \A i \in 1..(Len(a) - 1) : g[i] = a[i]
  BY <1>1, <1>2, <1>4, <1>5
<1> HIDE DEF g
<1>7. g \o t \in Seq(X) /\ Len(g \o t) = Len(g) + Len(t)
      /\ \A i \in 1..(Len(g) + Len(t)) :
           (g \o t)[i] = IF i <= Len(g) THEN g[i] ELSE t[i - Len(g)]
  <2>1. g \in Seq(X) /\ t \in Seq(X)
    BY <1>3, <1>6
  <2> QED BY <2>1, ConcatProperties
<1>8. \A i \in 1..Len(a) : (g \o t)[i] = g[i]
  BY <1>1, <1>3, <1>6, <1>7
<1>9. ASSUME NEW i \in 2..Len(b) PROVE (g \o t)[(Len(a) - 1) + i] = b[i]
  <2>1. (Len(a) - 1) + i \in 1..(Len(g) + Len(t)) /\ ~((Len(a) - 1) + i <= Len(g))
    BY <1>1, <1>3, <1>6
  <2>2. (g \o t)[(Len(a) - 1) + i] = t[((Len(a) - 1) + i) - Len(g)]
    BY <1>7, <2>1
  <2>3. ((Len(a) - 1) + i) - Len(g) = i - 1 /\ t[i - 1] = b[i]
    BY <1>1, <1>3, <1>6
  <2> QED BY <2>2, <2>3
<1>10. Len(g \o t) = (Len(a) - 1) + Len(b) /\ (g \o t)[Len(a)] = e
       /\ \A i \in 1..(Len(a) - 1) : (g \o t)[i] = a[i]
  BY <1>1, <1>3, <1>6, <1>7, <1>8
<1>11. Splice(a, e, b) = g \o t
  BY DEF f, g, t, Splice
<1> QED BY <1>1, <1>7, <1>9, <1>10, <1>11

\* Joined(a, b) is a, then b, but for the one entry that may stand for two.
LEMMA JoinedIs ==
  ASSUME NEW a \in Seq(Entry), NEW b \in Seq(Entry)
  PROVE  LET j == Joined(a, b)
             o == Shift(a, b)
         IN  /\ j \in Seq(Entry)
             /\ o \in Nat /\ Len(j) = o + Len(b) /\ Len(j) >= Len(a)
             /\ \A i \in 1..Len(a) : ~(Met(a, b) /\ i = Len(a)) => j[i] = a[i]
             /\ \A i \in 1..Len(b) : ~(Met(a, b) /\ i = 1) => j[o + i] = b[i]
             /\ Met(a, b) => j[Len(a)] = [a[Len(a)] EXCEPT !.parts = @ \o b[1].parts]
<1>1. Last(a) = a[Len(a)] /\ Head(b) = b[1]
  BY DEF Last
<1>2. CASE ~Met(a, b)
  <2>1. Joined(a, b) = a \o b
    BY <1>1, <1>2 DEF Joined, Met
  <2>2. Shift(a, b) = Len(a)
    BY <1>2 DEF Shift
  <2>3. a \o b \in Seq(Entry) /\ Len(a \o b) = Len(a) + Len(b)
    BY ConcatProperties
  <2>4. \A i \in 1..(Len(a) + Len(b)) :
          (a \o b)[i] = IF i <= Len(a) THEN a[i] ELSE b[i - Len(a)]
    BY ConcatProperties
  <2>5. Len(a) \in Nat /\ Len(b) \in Nat
    OBVIOUS
  <2>6. \A i \in 1..Len(a) : (a \o b)[i] = a[i]
    BY <2>4, <2>5
  <2>7. ASSUME NEW i \in 1..Len(b) PROVE (a \o b)[Len(a) + i] = b[i]
    <3>1. Len(a) + i \in 1..(Len(a) + Len(b)) /\ ~(Len(a) + i <= Len(a)) /\ (Len(a) + i) - Len(a) = i
      BY <2>5
    <3> QED BY <2>4, <3>1
  <2> QED BY <1>2, <2>1, <2>2, <2>3, <2>5, <2>6, <2>7
<1>3. CASE Met(a, b)
  <2> DEFINE e == [a[Len(a)] EXCEPT !.parts = @ \o b[1].parts]
             s == Splice(a, e, b)
  <2>1. a # <<>> /\ b # <<>> /\ Len(a) \in Nat \ {0} /\ Len(b) \in Nat \ {0}
    BY <1>3, EmptySeq DEF Met
  <2>2. Joined(a, b) = s
    BY <1>1, <1>3 DEF Joined, Met, Front, Splice
  <2>3. e \in Entry
    <3>1. a[Len(a)] \in Entry /\ b[1] \in Entry
      BY <2>1
    <3>2. a[Len(a)].parts \in Parts /\ b[1].parts \in Parts
      BY <3>1 DEF Entry
    <3>3. a[Len(a)].parts \o b[1].parts \in Parts
      BY <3>2, ConcatProperties DEF Parts
    <3> QED BY <3>1, <3>3 DEF Entry
  <2> HIDE DEF e
  <2>4. /\ s \in Seq(Entry)
        /\ Len(s) = (Len(a) - 1) + Len(b)
        /\ \A i \in 1..(Len(a) - 1) : s[i] = a[i]
        /\ s[Len(a)] = e
        /\ \A i \in 2..Len(b) : s[(Len(a) - 1) + i] = b[i]
    <3>1. ASSUME NEW x \in Entry
          PROVE  /\ Splice(a, x, b) \in Seq(Entry)
                 /\ Len(Splice(a, x, b)) = (Len(a) - 1) + Len(b)
                 /\ \A i \in 1..(Len(a) - 1) : Splice(a, x, b)[i] = a[i]
                 /\ Splice(a, x, b)[Len(a)] = x
                 /\ \A i \in 2..Len(b) : Splice(a, x, b)[(Len(a) - 1) + i] = b[i]
      <4>1. a # <<>> /\ b # <<>>
        BY <2>1
      <4>2. Splice(a, x, b) \in Seq(Entry) /\ Splice(a, x, b)[Len(a)] = x
        BY <4>1, Spliced
      <4>3. Len(Splice(a, x, b)) = (Len(a) - 1) + Len(b)
        BY <4>1, Spliced
      <4>4. \A i \in 1..(Len(a) - 1) : Splice(a, x, b)[i] = a[i]
        BY <4>1, Spliced
      <4>5. \A i \in 2..Len(b) : Splice(a, x, b)[(Len(a) - 1) + i] = b[i]
        BY <4>1, Spliced
      <4> QED BY <4>2, <4>3, <4>4, <4>5
    <3> QED BY <2>3, <3>1
  <2> HIDE DEF s
  <2>5. Shift(a, b) = Len(a) - 1 /\ Shift(a, b) \in Nat
    BY <1>3, <2>1 DEF Shift
  <2>6. \A i \in 1..Len(a) : ~(Met(a, b) /\ i = Len(a)) => s[i] = a[i]
    BY <1>3, <2>1, <2>4
  <2>7. \A i \in 1..Len(b) : ~(Met(a, b) /\ i = 1) => s[Shift(a, b) + i] = b[i]
    BY <1>3, <2>1, <2>4, <2>5
  <2>8. Len(s) = Shift(a, b) + Len(b) /\ Len(s) >= Len(a)
    BY <2>1, <2>4, <2>5
  <2> QED BY <2>2, <2>4, <2>5, <2>6, <2>7, <2>8 DEF e
<1> QED BY <1>2, <1>3

-----------------------------------------------------------------------------
(* The parts of a payload *)

\* Message k as an entry.
LEMMA ItselfIs ==
  ASSUME NEW m \in Seq(Message), NEW k \in 1..Len(m)
  PROVE  /\ m[k] \in Message
         /\ Itself(m, k) \in Entry
         /\ Itself(m, k).role = m[k].role /\ Itself(m, k).calls = m[k].calls
         /\ Itself(m, k).id = m[k].id /\ Itself(m, k).parts = <<Part(k, "self")>>
<1>1. m[k] \in Message
  OBVIOUS
<1>2. Part(k, "self") \in PartRec
  BY DEF Part, PartRec
<1>3. <<Part(k, "self")>> \in Parts
  BY <1>2 DEF Parts
<1> QED BY <1>1, <1>3 DEF Itself, Entry, Message

\* Tool messages are behind a message; the places of all sets are those of messages.
LEMMA BehindIs ==
  ASSUME NEW m \in Seq(Message), NEW k \in 0..Len(m)
  PROVE  /\ Kept(m) \subseteq 1..Len(m) /\ Behind(m, k) \subseteq Kept(m)
         /\ \A n \in Behind(m, k) : n > k /\ m[n].role = "tool" /\ m[n].calls = <<>>
<1>1. Kept(m) \subseteq 1..Len(m) /\ Behind(m, k) \subseteq Kept(m)
  BY DEF Kept, Behind
<1>2. ASSUME NEW n \in Behind(m, k)
      PROVE  n > k /\ m[n].role = "tool" /\ m[n].calls = <<>>
  <2>1. n \in Kept(m) /\ n > k /\ n \in 1..Len(m)
    BY <1>1 DEF Behind
  <2>2. n \in (k + 1)..n
    BY <2>1
  <2>3. m[n].role = "tool"
    BY <2>1, <2>2 DEF Behind
  <2>4. m[n] \in Message
    BY <2>1
  <2> QED BY <2>1, <2>3, <2>4 DEF Message
<1> QED BY <1>1, <1>2

\* Notes quote each message of a set once, in one user entry or none.
LEMMA NotesAre ==
  ASSUME NEW n \in Nat, NEW S \in SUBSET (1..n)
  PROVE  /\ Notes(S) \in Seq(Entry)
         /\ Notes(S) = <<>> <=> S = {}
         /\ S # {} => /\ Len(Notes(S)) = 1 /\ Notes(S)[1].role = "user"
                      /\ Notes(S)[1].calls = <<>>
                      /\ Notes(S)[1].parts
                           = [i \in 1..Cardinality(S) |-> Part(InOrder(S)[i], "unpaired")]
<1>1. CASE S = {}
  BY <1>1 DEF Notes
<1>2. CASE S # {}
  <2> DEFINE parts == [i \in 1..Cardinality(S) |-> Part(InOrder(S)[i], "unpaired")]
             note == [role |-> "user", calls |-> <<>>, id |-> NoId, parts |-> parts]
  <2>1. Notes(S) = <<note>>
    BY <1>2 DEF Notes
  <2>2. Cardinality(S) \in Nat /\ \A i \in 1..Cardinality(S) : InOrder(S)[i] \in Nat
    <3>1. Cardinality(S) \in Nat /\ InOrder(S) \in [1..Cardinality(S) -> S]
      BY InOrderLists
    <3>2. \A k \in S : k \in Nat
      OBVIOUS
    <3> QED BY <3>1, <3>2
  <2>3. \A i \in 1..Cardinality(S) : Part(InOrder(S)[i], "unpaired") \in PartRec
    BY <2>2 DEF Part, PartRec
  <2>4. parts \in Parts
    BY <2>2, <2>3 DEF Parts
  <2> HIDE DEF parts
  <2>5. note \in Entry
    BY <2>4 DEF Entry, Roles
  <2>6. <<note>> \in Seq(Entry) /\ <<note>> # <<>> /\ Len(<<note>>) = 1 /\ <<note>>[1] = note
    BY <2>5
  <2>7. Notes(S)[1] = note /\ note.role = "user" /\ note.calls = <<>> /\ note.parts = parts
    BY <2>1, <2>6
  <2>8. Len(Notes(S)) = 1 /\ Notes(S) # <<>> /\ Notes(S) \in Seq(Entry)
    BY <2>1, <2>6
  <2> QED BY <1>2, <2>7, <2>8 DEF parts
<1> QED BY <1>1, <1>2

\* A stand-in is a tool entry that comes from no message.
LEMMA StandInIs ==
  ASSUME NEW calls \in Seq(Call), NEW c \in DOMAIN calls
  PROVE  /\ StandIn(calls, c) \in Entry
         /\ StandIn(calls, c).role = "tool" /\ StandIn(calls, c).calls = <<>>
         /\ StandIn(calls, c).id = calls[c].id
         /\ Len(StandIn(calls, c).parts) = 1 /\ StandIn(calls, c).parts[1].from = 0
<1> DEFINE interactive == \E d \in DOMAIN calls :
                            /\ calls[d].id = calls[c].id /\ calls[d].name = AskUser
                            /\ \A e \in DOMAIN calls : e > d => calls[e].id # calls[c].id
           part == Part(0, IF interactive THEN "interactive" ELSE "missing")
<1> HIDE DEF interactive
<1>1. part \in PartRec /\ part.from = 0
  BY DEF Part, PartRec
<1> HIDE DEF part
<1>2. <<part>> \in Parts /\ Len(<<part>>) = 1 /\ <<part>>[1] = part
  BY <1>1 DEF Parts
<1>3. calls[c] \in Call
  OBVIOUS
<1>4. calls[c].id \in CallIds
  BY <1>3 DEF Call
<1>5. StandIn(calls, c) = [role |-> "tool", calls |-> <<>>, id |-> calls[c].id, parts |-> <<part>>]
  BY DEF StandIn, part, interactive
<1> QED BY <1>1, <1>2, <1>4, <1>5 DEF Entry, Roles

\* The results of a message: its answers as they are, then the stand-ins.
LEMMA ResultsAre ==
  ASSUME NEW m \in Seq(Message), NEW k \in 1..Len(m)
  PROVE  LET r == Results(m, k)
             o == Cardinality(Own(m, k))
             s == Cardinality(Silent(m, k))
         IN  /\ Own(m, k) \in SUBSET (1..Len(m)) /\ o \in Nat
             /\ Silent(m, k) \in SUBSET (1..Len(m[k].calls)) /\ s \in Nat
             /\ m[k].calls \in Seq(Call)
             /\ r \in Seq(Entry) /\ Len(r) = o + s
             /\ \A i \in 1..o : r[i] = Itself(m, InOrder(Own(m, k))[i])
             /\ \A i \in 1..s : r[o + i] = StandIn(m[k].calls, InOrder(Silent(m, k))[i])
<1> DEFINE calls == m[k].calls
           own == InOrder(Own(m, k))
           silent == InOrder(Silent(m, k))
           o == Cardinality(Own(m, k))
           s == Cardinality(Silent(m, k))
           f == [n \in DOMAIN own |-> Itself(m, own[n])]
           g == [n \in DOMAIN silent |-> StandIn(calls, silent[n])]
<1>1. Own(m, k) \in SUBSET (1..Len(m))
  <2>1. Behind(m, k) \subseteq 1..Len(m)
    BY BehindIs
  <2> QED BY <2>1 DEF Own
<1>2. calls \in Seq(Call)
  <2>1. m[k] \in Message
    OBVIOUS
  <2> QED BY <2>1 DEF Message
<1>3. Silent(m, k) \in SUBSET (1..Len(calls))
  BY <1>2 DEF Silent
<1>4. o \in Nat /\ own \in [1..o -> Own(m, k)]
  <2>1. Len(m) \in Nat
    OBVIOUS
  <2> QED BY <1>1, <2>1, InOrderLists
<1>5. s \in Nat /\ silent \in [1..s -> Silent(m, k)]
  <2>1. Len(calls) \in Nat
    BY <1>2
  <2> HIDE DEF calls
  <2> QED BY <1>3, <2>1, InOrderLists
<1> HIDE DEF own, silent, o, s
<1>6. f \in Seq(Entry) /\ Len(f) = o /\ \A i \in 1..o : f[i] = Itself(m, own[i])
  <2>1. \A i \in 1..o : own[i] \in 1..Len(m)
    BY <1>1, <1>4
  <2>2. \A i \in 1..o : Itself(m, own[i]) \in Entry
    BY <2>1, ItselfIs
  <2>3. f = [i \in 1..o |-> Itself(m, own[i])]
    BY <1>4
  <2> HIDE DEF f
  <2> QED BY <1>4, <2>2, <2>3
<1>7. g \in Seq(Entry) /\ Len(g) = s /\ \A i \in 1..s : g[i] = StandIn(calls, silent[i])
  <2>1. \A i \in 1..s : silent[i] \in DOMAIN calls
    BY <1>2, <1>3, <1>5
  <2>2. \A i \in 1..s : StandIn(calls, silent[i]) \in Entry
    <3> HIDE DEF calls
    <3> QED BY <1>2, <2>1, StandInIs
  <2>3. g = [i \in 1..s |-> StandIn(calls, silent[i])]
    BY <1>5
  <2> HIDE DEF g, calls
  <2> QED BY <1>5, <2>2, <2>3
<1>8. Results(m, k) = f \o g
  BY DEF Results, own, silent
<1> HIDE DEF f, g, calls
<1>9. f \o g \in Seq(Entry) /\ Len(f \o g) = o + s
  BY <1>6, <1>7, ConcatProperties
<1>10. \A i \in 1..(o + s) : (f \o g)[i] = IF i <= o THEN f[i] ELSE g[i - o]
  BY <1>6, <1>7, ConcatProperties
<1>11. \A i \in 1..o : (f \o g)[i] = Itself(m, own[i])
  BY <1>4, <1>5, <1>6, <1>10
<1>12. ASSUME NEW i \in 1..s PROVE (f \o g)[o + i] = StandIn(calls, silent[i])
  <2>1. o + i \in 1..(o + s) /\ ~(o + i <= o) /\ (o + i) - o = i
    BY <1>4, <1>5
  <2>2. (f \o g)[o + i] = g[i]
    BY <1>10, <2>1
  <2> QED BY <1>7, <2>2
<1> QED BY <1>1, <1>2, <1>3, <1>4, <1>5, <1>8, <1>9, <1>11, <1>12 DEF own, silent, o, s, calls

\* ... so they are tool entries, each with the id of a call, and every id of a call
\* has one.
LEMMA ResultsAnswer ==
  ASSUME NEW m \in Seq(Message), NEW k \in 1..Len(m)
  PROVE  LET r == Results(m, k)
         IN  /\ \A i \in 1..Len(r) :
                  r[i].role = "tool" /\ r[i].calls = <<>> /\ r[i].id \in Ids(m[k].calls)
             /\ \A id \in Ids(m[k].calls) : \E i \in 1..Len(r) : r[i].id = id
<1> DEFINE calls == m[k].calls
           r == Results(m, k)
           o == Cardinality(Own(m, k))
           s == Cardinality(Silent(m, k))
           own == InOrder(Own(m, k))
           silent == InOrder(Silent(m, k))
<1>1. /\ Own(m, k) \in SUBSET (1..Len(m)) /\ o \in Nat
      /\ Silent(m, k) \in SUBSET (1..Len(calls)) /\ s \in Nat
      /\ calls \in Seq(Call)
      /\ Len(r) = o + s
      /\ \A i \in 1..o : r[i] = Itself(m, own[i])
      /\ \A i \in 1..s : r[o + i] = StandIn(calls, silent[i])
  BY ResultsAre
<1>2. own \in [1..o -> Own(m, k)] /\ \A n \in Own(m, k) : \E i \in 1..o : own[i] = n
  <2>1. Len(m) \in Nat
    OBVIOUS
  <2> QED BY <1>1, <2>1, InOrderLists
<1>3. silent \in [1..s -> Silent(m, k)] /\ \A c \in Silent(m, k) : \E i \in 1..s : silent[i] = c
  <2>1. Len(calls) \in Nat
    BY <1>1
  <2> HIDE DEF calls
  <2> QED BY <1>1, <2>1, InOrderLists
<1>4. \A n \in Own(m, k) : m[n].role = "tool" /\ m[n].calls = <<>> /\ m[n].id \in Ids(calls)
  BY BehindIs DEF Own
<1> HIDE DEF r, o, s, own, silent
<1>5. ASSUME NEW i \in 1..o
      PROVE  r[i].role = "tool" /\ r[i].calls = <<>> /\ r[i].id \in Ids(calls)
  <2>1. own[i] \in Own(m, k) /\ own[i] \in 1..Len(m)
    BY <1>1, <1>2
  <2>2. /\ Itself(m, own[i]).role = m[own[i]].role /\ Itself(m, own[i]).calls = m[own[i]].calls
        /\ Itself(m, own[i]).id = m[own[i]].id
    BY <2>1, ItselfIs
  <2> HIDE DEF calls
  <2> QED BY <1>1, <1>4, <2>1, <2>2
<1>6. ASSUME NEW i \in 1..s
      PROVE  r[o + i].role = "tool" /\ r[o + i].calls = <<>> /\ r[o + i].id \in Ids(calls)
  <2>1. silent[i] \in Silent(m, k) /\ silent[i] \in DOMAIN calls
    BY <1>1, <1>3
  <2> HIDE DEF calls
  <2>2. /\ StandIn(calls, silent[i]).role = "tool" /\ StandIn(calls, silent[i]).calls = <<>>
        /\ StandIn(calls, silent[i]).id = calls[silent[i]].id
    BY <1>1, <2>1, StandInIs
  <2> QED BY <1>1, <2>1, <2>2 DEF Ids
<1>7. ASSUME NEW i \in 1..Len(r)
      PROVE  r[i].role = "tool" /\ r[i].calls = <<>> /\ r[i].id \in Ids(calls)
  <2>1. i \in 1..o \/ (i - o \in 1..s /\ o + (i - o) = i)
    BY <1>1
  <2> HIDE DEF calls
  <2> QED BY <1>5, <1>6, <2>1
<1>8. ASSUME NEW id \in Ids(calls) PROVE \E i \in 1..Len(r) : r[i].id = id
  <2> DEFINE C == {c \in 1..Len(calls) : calls[c].id = id}
  <2>1. C # {} /\ C \in SUBSET Nat
    BY <1>1 DEF Ids
  <2>2. PICK c \in C : \A d \in C : c <= d
    <3> HIDE DEF C
    <3> QED BY <2>1, Least
  <2>3. c \in 1..Len(calls) /\ calls[c].id = id
    OBVIOUS
  <2>4. \A d \in 1..(c - 1) : calls[d].id # calls[c].id
    <3> SUFFICES ASSUME NEW d \in 1..(c - 1), calls[d].id = id PROVE FALSE
      BY <2>3
    <3>1. d \in C /\ ~(c <= d)
      BY <1>1, <2>3
    <3> QED BY <2>2, <3>1
  <2>5. CASE \E n \in Own(m, k) : m[n].id = id
    <3>1. PICK n \in Own(m, k) : m[n].id = id
      BY <2>5
    <3>2. PICK i \in 1..o : own[i] = n
      BY <1>2
    <3>3. r[i].id = id
      <4>1. n \in 1..Len(m)
        BY <1>1
      <4>2. Itself(m, n).id = m[n].id
        BY <4>1, ItselfIs
      <4> QED BY <1>1, <3>1, <3>2, <4>2
    <3>4. i \in 1..Len(r)
      BY <1>1
    <3> QED BY <3>3, <3>4
  <2>6. CASE \A n \in Own(m, k) : m[n].id # id
    <3>1. c \in Silent(m, k)
      BY <1>1, <2>3, <2>4, <2>6 DEF Silent
    <3>2. PICK i \in 1..s : silent[i] = c
      BY <1>3, <3>1
    <3>3. r[o + i].id = id
      <4>1. c \in DOMAIN calls
        BY <1>1, <2>3
      <4>2. StandIn(calls, c).id = calls[c].id
        <5> HIDE DEF calls
        <5> QED BY <1>1, <4>1, StandInIs
      <4> HIDE DEF calls
      <4> QED BY <1>1, <2>3, <3>2, <4>2
    <3>4. o + i \in 1..Len(r)
      BY <1>1
    <3> QED BY <3>3, <3>4
  <2> QED BY <2>5, <2>6
<1> QED BY <1>7, <1>8 DEF r

-----------------------------------------------------------------------------
(* Every announcement of a payload is followed by its results *)

\* Directly behind entry e come the entries r, and then no tool entry.
Followed(p, e, r) ==
  /\ e + Len(r) <= Len(p)
  /\ \A i \in 1..Len(r) : p[e + i] = r[i]
  /\ e + Len(r) < Len(p) => p[e + Len(r) + 1].role # "tool"

\* Entry e is a message as it is, followed by its results.
Answered(m, p, e) ==
  \E k \in Kept(m) : p[e] = Itself(m, k) /\ Followed(p, e, Results(m, k))

\* Entry e is in a run of tool entries behind an announcement.
InRun(p, e) ==
  \E a \in 1..(e - 1) : p[a].calls # <<>> /\ \A n \in (a + 1)..e : p[n].role = "tool"

\* The shape of a payload that strict providers ask for.
Shape(m, p) ==
  /\ \A e \in 1..(Len(p) - 1) : ~(p[e].role = "user" /\ p[e + 1].role = "user")
  /\ \A e \in 1..Len(p) : p[e].calls # <<>> => Answered(m, p, e)
  /\ \A e \in 1..Len(p) : p[e].role = "tool" => InRun(p, e)

\* The entries of a and of b are those of Joined(a, b), roles and calls the same.
LEMMA JoinedLooks ==
  ASSUME NEW a \in Seq(Entry), NEW b \in Seq(Entry)
  PROVE  LET j == Joined(a, b)
             o == Shift(a, b)
         IN  /\ \A x \in 1..Len(a) :
                  /\ x \in 1..Len(j)
                  /\ j[x].role = a[x].role /\ j[x].calls = a[x].calls
                  /\ a[x].role # "user" => j[x] = a[x]
             /\ \A i \in 1..Len(b) :
                  /\ o + i \in 1..Len(j)
                  /\ j[o + i].role = b[i].role /\ j[o + i].calls = b[i].calls
                  /\ b[i].role # "user" => j[o + i] = b[i]
             /\ \A x \in 1..Len(j) : x > Len(a) => x - o \in 1..Len(b) /\ o + (x - o) = x
<1> DEFINE j == Joined(a, b)
           o == Shift(a, b)
<1>1. /\ j \in Seq(Entry)
      /\ o \in Nat /\ Len(j) = o + Len(b) /\ Len(j) >= Len(a)
      /\ \A i \in 1..Len(a) : ~(Met(a, b) /\ i = Len(a)) => j[i] = a[i]
      /\ \A i \in 1..Len(b) : ~(Met(a, b) /\ i = 1) => j[o + i] = b[i]
      /\ Met(a, b) => j[Len(a)] = [a[Len(a)] EXCEPT !.parts = @ \o b[1].parts]
  BY JoinedIs
<1>2. Len(a) \in Nat /\ Len(b) \in Nat
  OBVIOUS
<1>3. Met(a, b) => /\ Len(a) # 0 /\ Len(b) # 0 /\ o = Len(a) - 1
                   /\ a[Len(a)].role = "user" /\ b[1].role = "user"
  BY EmptySeq DEF Met, Shift
<1>4. ~Met(a, b) => o = Len(a)
  BY DEF Shift
<1> HIDE DEF j, o
<1>5. Met(a, b) => /\ j[Len(a)].role = "user" /\ j[Len(a)].calls = <<>>
                   /\ a[Len(a)].calls = <<>> /\ b[1].calls = <<>>
  <2> SUFFICES ASSUME Met(a, b)
               PROVE  /\ j[Len(a)].role = "user" /\ j[Len(a)].calls = <<>>
                      /\ a[Len(a)].calls = <<>> /\ b[1].calls = <<>>
    OBVIOUS
  <2>1. a[Len(a)] \in Entry /\ b[1] \in Entry
    BY <1>2, <1>3
  <2>2. a[Len(a)].calls = <<>> /\ b[1].calls = <<>>
    BY <1>3, <2>1 DEF Entry
  <2>3. j[Len(a)].role = a[Len(a)].role /\ j[Len(a)].calls = a[Len(a)].calls
    BY <1>1, <2>1 DEF Entry
  <2> QED BY <1>3, <2>2, <2>3
<1>6. ASSUME NEW x \in 1..Len(a)
      PROVE  /\ x \in 1..Len(j)
             /\ j[x].role = a[x].role /\ j[x].calls = a[x].calls
             /\ a[x].role # "user" => j[x] = a[x]
  BY <1>1, <1>2, <1>3, <1>5
<1>7. ASSUME NEW i \in 1..Len(b)
      PROVE  /\ o + i \in 1..Len(j)
             /\ j[o + i].role = b[i].role /\ j[o + i].calls = b[i].calls
             /\ b[i].role # "user" => j[o + i] = b[i]
  <2>1. CASE Met(a, b) /\ i = 1
    <3>1. o + i = Len(a) /\ o + i \in 1..Len(j)
      BY <1>1, <1>2, <1>3, <2>1
    <3> QED BY <1>3, <1>5, <2>1, <3>1
  <2>2. CASE ~(Met(a, b) /\ i = 1)
    BY <1>1, <1>2, <2>2
  <2> QED BY <2>1, <2>2
<1>8. ASSUME NEW x \in 1..Len(j), x > Len(a)
      PROVE  x - o \in 1..Len(b) /\ o + (x - o) = x
  <2>1. x \in Int /\ x <= o + Len(b) /\ o \in Int /\ Len(b) \in Int /\ Len(a) \in Int
    BY <1>1, <1>2
  <2>2. o <= Len(a)
    BY <1>2, <1>3, <1>4
  <2> QED BY <1>8, <2>1, <2>2
<1> QED BY <1>6, <1>7, <1>8 DEF j, o

\* Payloads of that shape may be joined.
LEMMA ShapeJoined ==
  ASSUME NEW m \in Seq(Message), NEW a \in Seq(Entry), NEW b \in Seq(Entry),
         Shape(m, a), Shape(m, b)
  PROVE  Shape(m, Joined(a, b))
<1> DEFINE j == Joined(a, b)
           o == Shift(a, b)
<1>1. Len(a) \in Nat /\ Len(b) \in Nat /\ o \in Nat /\ Len(j) = o + Len(b) /\ Len(j) >= Len(a)
  <2>1. o \in Nat /\ Len(j) = o + Len(b) /\ Len(j) >= Len(a)
    BY JoinedIs
  <2> QED BY <2>1
<1>2. \A x \in 1..Len(a) : /\ x \in 1..Len(j)
                           /\ j[x].role = a[x].role /\ j[x].calls = a[x].calls
                           /\ a[x].role # "user" => j[x] = a[x]
  BY JoinedLooks
<1>3. \A i \in 1..Len(b) : /\ o + i \in 1..Len(j)
                           /\ j[o + i].role = b[i].role /\ j[o + i].calls = b[i].calls
                           /\ b[i].role # "user" => j[o + i] = b[i]
  BY JoinedLooks
<1>4. \A x \in 1..Len(j) : x > Len(a) => x - o \in 1..Len(b) /\ o + (x - o) = x
  BY JoinedLooks
<1>5. Len(b) # 0 => b[1].role # "tool"
  <2> SUFFICES ASSUME Len(b) # 0, b[1].role = "tool" PROVE FALSE
    OBVIOUS
  <2>1. 1 \in 1..Len(b)
    BY <1>1
  <2> QED BY <2>1 DEF Shape, InRun
<1>6. o = Len(a) \/ (o = Len(a) - 1 /\ Len(a) # 0 /\ Len(b) # 0 /\ a[Len(a)].role = "user")
  BY <1>1, EmptySeq DEF Shift, Met
<1>7. o = Len(a) /\ Len(a) # 0 /\ Len(b) # 0 => ~(a[Len(a)].role = "user" /\ b[1].role = "user")
  <2> SUFFICES ASSUME o = Len(a), Len(a) # 0, Len(b) # 0,
                      a[Len(a)].role = "user", b[1].role = "user"
               PROVE  FALSE
    OBVIOUS
  <2>1. a # <<>> /\ b # <<>>
    OBVIOUS
  <2> QED BY <1>1, <2>1 DEF Shift, Met
<1>8. \A e \in 1..Len(a) : a[e].calls # <<>> => a[e].role # "user"
  <2>1. \A e \in 1..Len(a) : a[e] \in Entry
    OBVIOUS
  <2> QED BY <2>1 DEF Entry
<1>9. \A e \in 1..Len(b) : b[e].calls # <<>> => b[e].role # "user"
  <2>1. \A e \in 1..Len(b) : b[e] \in Entry
    OBVIOUS
  <2> QED BY <2>1 DEF Entry
<1> HIDE DEF j, o
<1>10. ASSUME NEW x \in 1..(Len(j) - 1), j[x].role = "user", j[x + 1].role = "user" PROVE FALSE
  <2>1. CASE x + 1 <= Len(a)
    <3>1. x \in 1..(Len(a) - 1) /\ x \in 1..Len(a) /\ x + 1 \in 1..Len(a)
      BY <1>1, <2>1
    <3>2. a[x].role = "user" /\ a[x + 1].role = "user"
      BY <1>2, <1>10, <3>1
    <3> QED BY <3>1, <3>2 DEF Shape
  <2>2. CASE x + 1 > Len(a) /\ x > o
    <3>1. x - o \in 1..(Len(b) - 1) /\ x - o \in 1..Len(b) /\ (x - o) + 1 \in 1..Len(b)
          /\ o + (x - o) = x /\ o + ((x - o) + 1) = x + 1
      BY <1>1, <2>2
    <3>2. b[x - o].role = "user" /\ b[(x - o) + 1].role = "user"
      BY <1>3, <1>10, <3>1
    <3> QED BY <3>1, <3>2 DEF Shape
  <2>3. CASE x + 1 > Len(a) /\ x <= o
    <3>1. x = Len(a) /\ o = Len(a) /\ x + 1 = o + 1 /\ Len(b) # 0
          /\ x \in 1..Len(a) /\ 1 \in 1..Len(b)
      BY <1>1, <1>6, <2>3
    <3>2. a[Len(a)].role = "user" /\ b[1].role = "user"
      BY <1>2, <1>3, <1>10, <3>1
    <3> QED BY <1>7, <3>1, <3>2
  <2> QED BY <1>1, <2>1, <2>2, <2>3
<1>11. ASSUME NEW x \in 1..Len(j), j[x].calls # <<>> PROVE Answered(m, j, x)
  <2>1. CASE x <= Len(a)
    <3>1. x \in 1..Len(a) /\ a[x].calls # <<>> /\ j[x] = a[x] /\ a[x].role # "user"
      BY <1>1, <1>2, <1>8, <1>11, <2>1
    <3>2. PICK k \in Kept(m) : a[x] = Itself(m, k) /\ Followed(a, x, Results(m, k))
      BY <3>1 DEF Shape, Answered
    <3> DEFINE r == Results(m, k)
    <3>3. k \in 1..Len(m)
      BY DEF Kept
    <3>4. r \in Seq(Entry) /\ \A i \in 1..Len(r) : r[i].role = "tool"
      BY <3>3, ResultsAre, ResultsAnswer
    <3>5. /\ x + Len(r) <= Len(a)
          /\ \A i \in 1..Len(r) : a[x + i] = r[i]
          /\ x + Len(r) < Len(a) => a[x + Len(r) + 1].role # "tool"
      BY <3>2 DEF Followed
    <3> HIDE DEF r
    <3>6. Len(r) \in Nat
      BY <3>4
    <3>7. \A i \in 1..Len(r) : x + i \in 1..Len(a) /\ a[x + i].role = "tool"
      BY <1>1, <3>4, <3>5, <3>6
    <3>8. \A i \in 1..Len(r) : j[x + i] = r[i]
      BY <1>2, <3>5, <3>7
    <3>9. x + Len(r) < Len(j) => j[x + Len(r) + 1].role # "tool"
      <4> SUFFICES ASSUME x + Len(r) < Len(j) PROVE j[x + Len(r) + 1].role # "tool"
        OBVIOUS
      <4>1. CASE x + Len(r) < Len(a)
        <5>1. x + Len(r) + 1 \in 1..Len(a)
          BY <1>1, <3>6, <4>1
        <5> QED BY <1>2, <3>5, <4>1, <5>1
      <4>2. CASE x + Len(r) = Len(a)
        <5>1. a[Len(a)].role # "user"
          <6>1. CASE Len(r) = 0
            BY <3>1, <4>2, <6>1
          <6>2. CASE Len(r) # 0
            <7>1. Len(r) \in 1..Len(r)
              BY <3>6, <6>2
            <7> QED BY <3>7, <4>2, <7>1
          <6> QED BY <6>1, <6>2
        <5>2. o = Len(a) /\ Len(b) # 0 /\ 1 \in 1..Len(b)
          BY <1>1, <1>6, <4>2, <5>1
        <5>3. j[o + 1].role = b[1].role
          BY <1>3, <5>2
        <5> QED BY <1>5, <4>2, <5>2, <5>3
      <4> QED BY <1>1, <3>5, <3>6, <4>1, <4>2
    <3>10. Followed(j, x, Results(m, k))
      BY <1>1, <3>5, <3>6, <3>8, <3>9 DEF Followed, r
    <3> QED BY <3>1, <3>2, <3>10 DEF Answered
  <2>2. CASE x > Len(a)
    <3> DEFINE y == x - o
    <3>1. y \in 1..Len(b) /\ o + y = x
      BY <1>4, <2>2
    <3> HIDE DEF y
    <3>2. b[y].calls # <<>> /\ j[x] = b[y]
      BY <1>3, <1>9, <1>11, <3>1
    <3>3. PICK k \in Kept(m) : b[y] = Itself(m, k) /\ Followed(b, y, Results(m, k))
      BY <3>1, <3>2 DEF Shape, Answered
    <3> DEFINE r == Results(m, k)
    <3>4. k \in 1..Len(m)
      BY DEF Kept
    <3>5. r \in Seq(Entry) /\ \A i \in 1..Len(r) : r[i].role = "tool"
      BY <3>4, ResultsAre, ResultsAnswer
    <3>6. /\ y + Len(r) <= Len(b)
          /\ \A i \in 1..Len(r) : b[y + i] = r[i]
          /\ y + Len(r) < Len(b) => b[y + Len(r) + 1].role # "tool"
      BY <3>3 DEF Followed
    <3> HIDE DEF r
    <3>7. Len(r) \in Nat
      BY <3>5
    <3>8. ASSUME NEW i \in 1..Len(r) PROVE j[x + i] = r[i]
      <4>1. y + i \in 1..Len(b) /\ o + (y + i) = x + i
        BY <1>1, <3>1, <3>6, <3>7
      <4>2. b[y + i].role # "user"
        BY <3>5, <3>6
      <4>3. j[o + (y + i)] = b[y + i]
        BY <1>3, <4>1, <4>2
      <4> QED BY <3>6, <4>1, <4>3
    <3>9. x + Len(r) <= Len(j) /\ (x + Len(r) < Len(j) => j[x + Len(r) + 1].role # "tool")
      <4>1. x + Len(r) <= Len(j)
        BY <1>1, <3>1, <3>6, <3>7
      <4>2. ASSUME x + Len(r) < Len(j) PROVE j[x + Len(r) + 1].role # "tool"
        <5>1. y + Len(r) < Len(b) /\ y + Len(r) + 1 \in 1..Len(b)
              /\ o + (y + Len(r) + 1) = x + Len(r) + 1
          <6>1. y \in Int /\ o \in Int /\ Len(r) \in Int /\ Len(b) \in Int /\ y >= 1
            BY <1>1, <3>1, <3>7
          <6>2. (o + y) + Len(r) < o + Len(b)
            BY <1>1, <3>1, <4>2
          <6>3. y + Len(r) < Len(b)
            BY <6>1, <6>2
          <6>4. o + (y + Len(r) + 1) = (o + y) + Len(r) + 1
            BY <6>1
          <6> QED BY <3>1, <3>7, <6>1, <6>3, <6>4
        <5>2. j[o + (y + Len(r) + 1)].role = b[y + Len(r) + 1].role
          BY <1>3, <5>1
        <5> QED BY <3>6, <5>1, <5>2
      <4> QED BY <4>1, <4>2
    <3>10. Followed(j, x, Results(m, k))
      BY <3>8, <3>9 DEF Followed, r
    <3> QED BY <3>2, <3>3, <3>10 DEF Answered
  <2> QED BY <1>1, <2>1, <2>2
<1>12. ASSUME NEW x \in 1..Len(j), j[x].role = "tool" PROVE InRun(j, x)
  <2>1. CASE x <= Len(a)
    <3>1. x \in 1..Len(a) /\ a[x].role = "tool"
      BY <1>1, <1>2, <1>12, <2>1
    <3>2. PICK c \in 1..(x - 1) : a[c].calls # <<>> /\ \A n \in (c + 1)..x : a[n].role = "tool"
      BY <3>1 DEF Shape, InRun
    <3>3. c \in 1..Len(a) /\ \A n \in (c + 1)..x : n \in 1..Len(a)
      BY <1>1, <3>1
    <3>4. j[c].calls # <<>> /\ \A n \in (c + 1)..x : j[n].role = "tool"
      BY <1>2, <3>2, <3>3
    <3> QED BY <3>4 DEF InRun
  <2>2. CASE x > Len(a)
    <3> DEFINE y == x - o
    <3>1. y \in 1..Len(b) /\ o + y = x
      BY <1>4, <2>2
    <3> HIDE DEF y
    <3>2. b[y].role = "tool"
      BY <1>3, <1>12, <3>1
    <3>3. PICK c \in 1..(y - 1) : b[c].calls # <<>> /\ \A n \in (c + 1)..y : b[n].role = "tool"
      BY <3>1, <3>2 DEF Shape, InRun
    <3>4. c \in 1..Len(b) /\ o + c \in 1..(x - 1)
      BY <1>1, <3>1
    <3>5. j[o + c].calls # <<>>
      BY <1>3, <3>3, <3>4
    <3>6. ASSUME NEW n \in ((o + c) + 1)..x PROVE j[n].role = "tool"
      <4>1. n - o \in (c + 1)..y /\ n - o \in 1..Len(b) /\ o + (n - o) = n
        BY <1>1, <3>1, <3>4
      <4>2. j[o + (n - o)].role = b[n - o].role
        BY <1>3, <4>1
      <4> QED BY <3>3, <4>1, <4>2
    <3> QED BY <3>4, <3>5, <3>6 DEF InRun
  <2> QED BY <1>1, <2>1, <2>2
<1> QED BY <1>10, <1>11, <1>12 DEF Shape, j

-----------------------------------------------------------------------------
(* A payload carries each message once *)

\* Part q of entry e comes from message n.
At(p, e, q, n) ==
  e \in DOMAIN p /\ q \in DOMAIN p[e].parts /\ p[e].parts[q].from = n

\* A payload carries the messages C, each once, and no others.
CarriesAll(p, C) ==
  /\ \A e, q, n : At(p, e, q, n) => n \in C \union {0}
  /\ \A n \in C : CarriesOnce(p, n)

\* Carrying a message once, by places.
LEMMA OncePlace ==
  ASSUME NEW p, NEW n
  PROVE  CarriesOnce(p, n) <=> \E e, q : At(p, e, q, n) /\ \A f, s : At(p, f, s, n) => f = e /\ s = q
BY DEF CarriesOnce, At

\* How far the parts of b's entry e are moved when b is joined to a.
Moved(a, b, e) == IF Met(a, b) /\ e = 1 THEN Len(a[Len(a)].parts) ELSE 0

\* The parts of Joined(a, b) are those of a, where they were, and those of b, moved.
LEMMA JoinedParts ==
  ASSUME NEW a \in Seq(Entry), NEW b \in Seq(Entry)
  PROVE  LET j == Joined(a, b)
             o == Shift(a, b)
         IN  /\ \A e, q, n : At(a, e, q, n) => At(j, e, q, n)
             /\ \A e, q, n : At(b, e, q, n) => At(j, o + e, q + Moved(a, b, e), n)
             /\ \A f, s, n : At(j, f, s, n) =>
                  \/ At(a, f, s, n)
                  \/ \E e, q : At(b, e, q, n) /\ f = o + e /\ s = q + Moved(a, b, e)
<1> DEFINE j == Joined(a, b)
           o == Shift(a, b)
           pa == a[Len(a)].parts
           pb == b[1].parts
<1>1. /\ j \in Seq(Entry)
      /\ o \in Nat /\ Len(j) = o + Len(b) /\ Len(j) >= Len(a)
      /\ \A i \in 1..Len(a) : ~(Met(a, b) /\ i = Len(a)) => j[i] = a[i]
      /\ \A i \in 1..Len(b) : ~(Met(a, b) /\ i = 1) => j[o + i] = b[i]
      /\ Met(a, b) => j[Len(a)] = [a[Len(a)] EXCEPT !.parts = @ \o b[1].parts]
  BY JoinedIs
<1>2. Len(a) \in Nat /\ Len(b) \in Nat /\ Len(j) \in Nat
      /\ DOMAIN a = 1..Len(a) /\ DOMAIN b = 1..Len(b) /\ DOMAIN j = 1..Len(j)
  BY <1>1
<1>3. Met(a, b) => Len(a) # 0 /\ Len(b) # 0 /\ o = Len(a) - 1
  BY EmptySeq DEF Met, Shift
<1>4. ~Met(a, b) => o = Len(a)
  BY DEF Shift
<1>5. \A i \in 1..Len(a) : a[i].parts \in Parts
  <2>1. \A i \in 1..Len(a) : a[i] \in Entry
    OBVIOUS
  <2> QED BY <2>1 DEF Entry
<1>6. \A i \in 1..Len(b) : b[i].parts \in Parts
  <2>1. \A i \in 1..Len(b) : b[i] \in Entry
    OBVIOUS
  <2> QED BY <2>1 DEF Entry
<1>7. Met(a, b) =>
        /\ Len(pa) \in Nat /\ Len(pb) \in Nat
        /\ DOMAIN pa = 1..Len(pa) /\ DOMAIN pb = 1..Len(pb)
        /\ DOMAIN j[Len(a)].parts = 1..(Len(pa) + Len(pb))
        /\ \A q \in 1..Len(pa) : j[Len(a)].parts[q] = pa[q]
        /\ \A q \in 1..Len(pb) : j[Len(a)].parts[q + Len(pa)] = pb[q]
  <2> SUFFICES ASSUME Met(a, b)
               PROVE  /\ Len(pa) \in Nat /\ Len(pb) \in Nat
                      /\ DOMAIN pa = 1..Len(pa) /\ DOMAIN pb = 1..Len(pb)
                      /\ DOMAIN j[Len(a)].parts = 1..(Len(pa) + Len(pb))
                      /\ \A q \in 1..Len(pa) : j[Len(a)].parts[q] = pa[q]
                      /\ \A q \in 1..Len(pb) : j[Len(a)].parts[q + Len(pa)] = pb[q]
    OBVIOUS
  <2>1. pa \in Parts /\ pb \in Parts
    BY <1>2, <1>3, <1>5, <1>6
  <2>2. j[Len(a)].parts = pa \o pb
    <3>1. a[Len(a)] \in Entry
      BY <1>2, <1>3
    <3> QED BY <1>1, <3>1 DEF Entry
  <2> HIDE DEF pa, pb, j
  <2>3. Len(pa) \in Nat /\ Len(pb) \in Nat /\ DOMAIN pa = 1..Len(pa) /\ DOMAIN pb = 1..Len(pb)
    BY <2>1 DEF Parts
  <2>4. pa \o pb \in Seq(PartRec) /\ Len(pa \o pb) = Len(pa) + Len(pb)
    BY <2>1, ConcatProperties DEF Parts
  <2>5. \A q \in 1..(Len(pa) + Len(pb)) :
          (pa \o pb)[q] = IF q <= Len(pa) THEN pa[q] ELSE pb[q - Len(pa)]
    BY <2>1, ConcatProperties DEF Parts
  <2>6. DOMAIN (pa \o pb) = 1..(Len(pa) + Len(pb))
    BY <2>4
  <2>7. \A q \in 1..Len(pa) : (pa \o pb)[q] = pa[q]
    BY <2>3, <2>5
  <2>8. ASSUME NEW q \in 1..Len(pb) PROVE (pa \o pb)[q + Len(pa)] = pb[q]
    <3>1. q + Len(pa) \in 1..(Len(pa) + Len(pb)) /\ ~(q + Len(pa) <= Len(pa)) /\ (q + Len(pa)) - Len(pa) = q
      BY <2>3
    <3> QED BY <2>5, <3>1
  <2> QED BY <2>2, <2>3, <2>6, <2>7, <2>8
<1> HIDE DEF j, o, pa, pb
<1>8. ASSUME NEW e, NEW q, NEW n, At(a, e, q, n) PROVE At(j, e, q, n)
  <2>1. e \in 1..Len(a) /\ e \in DOMAIN j /\ q \in DOMAIN a[e].parts /\ a[e].parts[q].from = n
    BY <1>1, <1>2, <1>8 DEF At
  <2>2. CASE ~(Met(a, b) /\ e = Len(a))
    BY <1>1, <2>1, <2>2 DEF At
  <2>3. CASE Met(a, b) /\ e = Len(a)
    <3>1. q \in 1..Len(pa) /\ pa[q].from = n
      BY <1>7, <2>1, <2>3 DEF pa
    <3>2. q \in 1..(Len(pa) + Len(pb))
      BY <1>7, <2>3, <3>1
    <3> QED BY <1>7, <2>1, <2>3, <3>1, <3>2 DEF At
  <2> QED BY <2>2, <2>3
<1>9. ASSUME NEW e, NEW q, NEW n, At(b, e, q, n) PROVE At(j, o + e, q + Moved(a, b, e), n)
  <2>1. e \in 1..Len(b) /\ q \in DOMAIN b[e].parts /\ b[e].parts[q].from = n
    BY <1>2, <1>9 DEF At
  <2>2. o + e \in DOMAIN j
    BY <1>1, <1>2, <2>1
  <2>3. CASE ~(Met(a, b) /\ e = 1)
    <3>1. q \in Nat
      <4>1. b[e].parts \in Parts
        BY <1>6, <2>1
      <4> QED BY <2>1, <4>1 DEF Parts
    <3>2. Moved(a, b, e) = 0 /\ q + 0 = q
      BY <2>3, <3>1 DEF Moved
    <3>3. j[o + e] = b[e]
      BY <1>1, <2>1, <2>3
    <3> QED BY <2>1, <2>2, <3>2, <3>3 DEF At
  <2>4. CASE Met(a, b) /\ e = 1
    <3>1. o + e = Len(a) /\ Moved(a, b, e) = Len(pa)
      BY <1>2, <1>3, <2>4 DEF Moved, pa
    <3>2. q \in 1..Len(pb) /\ pb[q].from = n
      BY <1>7, <2>1, <2>4 DEF pb
    <3>3. q + Len(pa) \in 1..(Len(pa) + Len(pb))
      BY <1>7, <2>4, <3>2
    <3> QED BY <1>7, <2>2, <2>4, <3>1, <3>2, <3>3 DEF At
  <2> QED BY <2>3, <2>4
<1>10. ASSUME NEW f, NEW s, NEW n, At(j, f, s, n)
       PROVE  \/ At(a, f, s, n)
              \/ \E e, q : At(b, e, q, n) /\ f = o + e /\ s = q + Moved(a, b, e)
  <2>1. f \in 1..Len(j) /\ s \in DOMAIN j[f].parts /\ j[f].parts[s].from = n
    BY <1>2, <1>10 DEF At
  <2>2. CASE f \in 1..Len(a) /\ ~(Met(a, b) /\ f = Len(a))
    BY <1>1, <1>2, <2>1, <2>2 DEF At
  <2>3. CASE Met(a, b) /\ f = Len(a)
    <3>1. s \in 1..(Len(pa) + Len(pb)) /\ Len(pa) \in Nat /\ Len(pb) \in Nat
      BY <1>7, <2>1, <2>3
    <3>2. CASE s \in 1..Len(pa)
      <4>1. pa[s].from = n /\ s \in DOMAIN pa
        BY <1>7, <2>1, <2>3, <3>2
      <4>2. f \in DOMAIN a
        BY <1>2, <1>3, <2>3
      <4> QED BY <2>3, <4>1, <4>2 DEF At, pa
    <3>3. CASE s \notin 1..Len(pa)
      <4>1. s - Len(pa) \in 1..Len(pb) /\ s = (s - Len(pa)) + Len(pa)
        BY <3>1, <3>3
      <4>2. pb[s - Len(pa)].from = n /\ s - Len(pa) \in DOMAIN pb
        BY <1>7, <2>1, <2>3, <4>1
      <4>3. At(b, 1, s - Len(pa), n)
        <5>1. 1 \in DOMAIN b
          BY <1>2, <1>3, <2>3
        <5> QED BY <4>2, <5>1 DEF At, pb
      <4>4. f = o + 1 /\ Moved(a, b, 1) = Len(pa)
        BY <1>2, <1>3, <2>3 DEF Moved, pa
      <4> QED BY <4>1, <4>3, <4>4
    <3> QED BY <3>2, <3>3
  <2>4. CASE f > Len(a)
    <3>1. f - o \in 1..Len(b) /\ o + (f - o) = f
      <4>1. f \in Int /\ f <= o + Len(b) /\ o \in Int /\ Len(b) \in Int /\ Len(a) \in Int
        BY <1>1, <1>2, <2>1
      <4>2. o <= Len(a)
        BY <1>2, <1>3, <1>4
      <4> QED BY <2>4, <4>1, <4>2
    <3>2. ~(Met(a, b) /\ f - o = 1)
      BY <1>1, <1>2, <1>3, <2>1, <2>4
    <3>3. j[o + (f - o)] = b[f - o] /\ Moved(a, b, f - o) = 0
      BY <1>1, <3>1, <3>2 DEF Moved
    <3>4. At(b, f - o, s, n) /\ s \in Nat
      <4>1. s \in DOMAIN b[f - o].parts /\ b[f - o].parts[s].from = n /\ f - o \in DOMAIN b
        BY <1>2, <2>1, <3>1, <3>3
      <4>2. b[f - o].parts \in Parts
        BY <1>6, <3>1
      <4> QED BY <4>1, <4>2 DEF At, Parts
    <3>5. s = s + Moved(a, b, f - o) /\ f = o + (f - o)
      BY <3>1, <3>3, <3>4
    <3> QED BY <3>4, <3>5
  <2>5. f \in 1..Len(a) \/ f > Len(a)
    <3>1. f \in Int /\ f >= 1 /\ Len(a) \in Int
      BY <1>2, <2>1
    <3> QED BY <3>1
  <2> QED BY <2>2, <2>3, <2>4, <2>5
<1> QED BY <1>8, <1>9, <1>10 DEF j, o

\* What two payloads carry, they carry when joined.
LEMMA CarriesJoined ==
  ASSUME NEW a \in Seq(Entry), NEW b \in Seq(Entry), NEW C, NEW D,
         C \cap D = {}, 0 \notin C, 0 \notin D, CarriesAll(a, C), CarriesAll(b, D)
  PROVE  CarriesAll(Joined(a, b), C \union D)
<1> DEFINE j == Joined(a, b)
           o == Shift(a, b)
<1>1. /\ \A e, q, n : At(a, e, q, n) => At(j, e, q, n)
      /\ \A e, q, n : At(b, e, q, n) => At(j, o + e, q + Moved(a, b, e), n)
      /\ \A f, s, n : At(j, f, s, n) =>
           \/ At(a, f, s, n)
           \/ \E e, q : At(b, e, q, n) /\ f = o + e /\ s = q + Moved(a, b, e)
  BY JoinedParts
<1> HIDE DEF j, o
<1>2. \A e, q, n : At(j, e, q, n) => n \in C \union D \union {0}
  BY <1>1 DEF CarriesAll
<1>3. ASSUME NEW n \in C PROVE CarriesOnce(j, n)
  <2>1. PICK e, q : At(a, e, q, n) /\ \A f, s : At(a, f, s, n) => f = e /\ s = q
    BY OncePlace DEF CarriesAll
  <2>2. \A f, s : ~At(b, f, s, n)
    BY DEF CarriesAll
  <2>3. At(j, e, q, n) /\ \A f, s : At(j, f, s, n) => f = e /\ s = q
    BY <1>1, <2>1, <2>2
  <2> QED BY <2>3, OncePlace
<1>4. ASSUME NEW n \in D PROVE CarriesOnce(j, n)
  <2>1. PICK e, q : At(b, e, q, n) /\ \A f, s : At(b, f, s, n) => f = e /\ s = q
    BY OncePlace DEF CarriesAll
  <2>2. \A f, s : ~At(a, f, s, n)
    BY DEF CarriesAll
  <2>3. At(j, o + e, q + Moved(a, b, e), n)
        /\ \A f, s : At(j, f, s, n) => f = o + e /\ s = q + Moved(a, b, e)
    BY <1>1, <2>1, <2>2
  <2> QED BY <2>3, OncePlace
<1>5. \A n \in C \union D : CarriesOnce(j, n)
  BY <1>3, <1>4
<1> QED BY <1>2, <1>5 DEF CarriesAll, j

-----------------------------------------------------------------------------
(* The blocks of a payload *)

\* Notes are of that shape, and carry what they quote.
LEMMA NotesFit ==
  ASSUME NEW m \in Seq(Message), NEW S \in SUBSET (1..Len(m))
  PROVE  Notes(S) \in Seq(Entry) /\ Shape(m, Notes(S)) /\ CarriesAll(Notes(S), S)
<1> DEFINE p == Notes(S)
           c == Cardinality(S)
<1>1. Len(m) \in Nat
  OBVIOUS
<1>2. /\ p \in Seq(Entry)
      /\ p = <<>> <=> S = {}
      /\ S # {} => /\ Len(p) = 1 /\ p[1].role = "user" /\ p[1].calls = <<>>
                   /\ p[1].parts = [i \in 1..c |-> Part(InOrder(S)[i], "unpaired")]
  BY <1>1, NotesAre
<1>3. /\ c \in Nat /\ InOrder(S) \in [1..c -> S]
      /\ \A k \in S : \E i \in 1..c : InOrder(S)[i] = k
      /\ \A i, j \in 1..c : InOrder(S)[i] = InOrder(S)[j] => i = j
  BY <1>1, InOrderLists
<1> HIDE DEF p, c
<1>4. CASE S = {}
  <2>1. p = <<>>
    BY <1>2, <1>4
  <2>2. Shape(m, <<>>) /\ CarriesAll(<<>>, {})
    BY DEF Shape, CarriesAll, At
  <2> QED BY <1>2, <1>4, <2>1, <2>2 DEF p
<1>5. CASE S # {}
  <2> DEFINE parts == p[1].parts
  <2>1. Len(p) = 1 /\ DOMAIN p = {1} /\ p[1].role = "user" /\ p[1].calls = <<>>
    BY <1>2, <1>5
  <2>2. parts = [i \in 1..c |-> Part(InOrder(S)[i], "unpaired")]
    BY <1>2, <1>5
  <2>3. DOMAIN parts = 1..c /\ \A i \in 1..c : parts[i].from = InOrder(S)[i]
    BY <2>2 DEF Part
  <2> HIDE DEF parts
  <2>4. Shape(m, p)
    BY <2>1 DEF Shape
  <2>5. \A e, q, n : At(p, e, q, n) <=> e = 1 /\ q \in 1..c /\ n = InOrder(S)[q]
    BY <2>1, <2>3 DEF At, parts
  <2>6. ASSUME NEW n \in S PROVE CarriesOnce(p, n)
    <3>1. PICK i \in 1..c : InOrder(S)[i] = n
      BY <1>3
    <3>2. At(p, 1, i, n) /\ \A f, s : At(p, f, s, n) => f = 1 /\ s = i
      BY <1>3, <2>5, <3>1
    <3> QED BY <3>2, OncePlace
  <2>7. \A e, q, n : At(p, e, q, n) => n \in S \union {0}
    BY <1>3, <2>5
  <2>8. CarriesAll(p, S)
    BY <2>6, <2>7 DEF CarriesAll
  <2> QED BY <1>2, <2>4, <2>8 DEF p
<1> QED BY <1>4, <1>5

\* A message and its results.
Answers(m, k) == <<Itself(m, k)>> \o Results(m, k)

\* ... are of that shape, too.
LEMMA AnswersFit ==
  ASSUME NEW m \in Seq(Message), NEW k \in Kept(m), m[k].role # "tool"
  PROVE  /\ Answers(m, k) \in Seq(Entry) /\ Len(Answers(m, k)) = 1 + Len(Results(m, k))
         /\ Answers(m, k)[1] = Itself(m, k)
         /\ Shape(m, Answers(m, k))
         /\ CarriesAll(Answers(m, k), {k} \union Own(m, k))
<1> DEFINE r == Results(m, k)
           p == Answers(m, k)
           calls == m[k].calls
           o == Cardinality(Own(m, k))
           s == Cardinality(Silent(m, k))
           own == InOrder(Own(m, k))
           silent == InOrder(Silent(m, k))
<1>1. k \in 1..Len(m) /\ Len(m) \in Nat
  BY DEF Kept
<1>2. /\ m[k] \in Message /\ Itself(m, k) \in Entry
      /\ Itself(m, k).role = m[k].role /\ Itself(m, k).calls = calls
      /\ Itself(m, k).parts = <<Part(k, "self")>>
  BY <1>1, ItselfIs
<1>3. /\ Own(m, k) \in SUBSET (1..Len(m)) /\ o \in Nat
      /\ Silent(m, k) \in SUBSET (1..Len(calls)) /\ s \in Nat
      /\ calls \in Seq(Call)
      /\ r \in Seq(Entry) /\ Len(r) = o + s
      /\ \A i \in 1..o : r[i] = Itself(m, own[i])
      /\ \A i \in 1..s : r[o + i] = StandIn(calls, silent[i])
  BY <1>1, ResultsAre
<1>4. \A i \in 1..Len(r) : r[i].role = "tool" /\ r[i].calls = <<>>
  BY <1>1, ResultsAnswer
<1>5. /\ own \in [1..o -> Own(m, k)]
      /\ \A n \in Own(m, k) : \E i \in 1..o : own[i] = n
      /\ \A i, j \in 1..o : own[i] = own[j] => i = j
  BY <1>1, <1>3, InOrderLists
<1>6. silent \in [1..s -> Silent(m, k)]
  <2>1. Len(calls) \in Nat
    BY <1>3
  <2> HIDE DEF calls
  <2> QED BY <1>3, <2>1, InOrderLists
<1> HIDE DEF r, o, s, own, silent
<1>7. calls = <<>> => Len(r) = 0
  <2>1. calls = <<>> => Own(m, k) = {} /\ Silent(m, k) = {}
    BY <1>3 DEF Own, Ids
  <2>2. calls = <<>> => o = 0 /\ s = 0
    BY <2>1, FS_EmptySet DEF o, s
  <2> HIDE DEF calls
  <2> QED BY <1>3, <2>2
<1>8. p \in Seq(Entry) /\ Len(p) = 1 + Len(r) /\ p[1] = Itself(m, k)
      /\ \A i \in 1..Len(r) : p[1 + i] = r[i]
  <2>1. <<Itself(m, k)>> \in Seq(Entry) /\ Len(<<Itself(m, k)>>) = 1
        /\ <<Itself(m, k)>>[1] = Itself(m, k)
    BY <1>2
  <2>2. p \in Seq(Entry) /\ Len(p) = 1 + Len(r)
        /\ \A i \in 1..(1 + Len(r)) :
             p[i] = IF i <= 1 THEN <<Itself(m, k)>>[i] ELSE r[i - 1]
    BY <1>3, <2>1, ConcatProperties DEF Answers, r
  <2>3. Len(r) \in Nat
    BY <1>3
  <2> HIDE DEF p
  <2>4. p[1] = Itself(m, k)
    BY <2>1, <2>2, <2>3
  <2>5. ASSUME NEW i \in 1..Len(r) PROVE p[1 + i] = r[i]
    <3>1. 1 + i \in 1..(1 + Len(r)) /\ ~(1 + i <= 1) /\ (1 + i) - 1 = i
      BY <2>3
    <3> QED BY <2>2, <3>1
  <2> QED BY <2>2, <2>4, <2>5
<1> HIDE DEF p
<1>9. Len(r) \in Nat /\ DOMAIN p = 1..Len(p)
  BY <1>3, <1>8
<1>10. \A e \in 1..Len(p) : e # 1 => e - 1 \in 1..Len(r) /\ p[e] = r[e - 1]
  <2> SUFFICES ASSUME NEW e \in 1..Len(p), e # 1 PROVE e - 1 \in 1..Len(r) /\ p[e] = r[e - 1]
    OBVIOUS
  <2>1. e - 1 \in 1..Len(r) /\ 1 + (e - 1) = e
    BY <1>8, <1>9
  <2> QED BY <1>8, <2>1
<1>11. Shape(m, p)
  <2>1. ASSUME NEW e \in 1..(Len(p) - 1) PROVE p[e + 1].role = "tool"
    <3>1. e + 1 \in 1..Len(p) /\ e + 1 # 1
      BY <1>8, <1>9
    <3> QED BY <1>4, <1>10, <3>1
  <2>2. ASSUME NEW e \in 1..Len(p), p[e].calls # <<>> PROVE Answered(m, p, e)
    <3>1. e = 1
      BY <1>4, <1>10, <2>2
    <3>2. Followed(p, 1, Results(m, k))
      BY <1>8, <1>9 DEF Followed, r
    <3> QED BY <1>8, <3>1, <3>2 DEF Answered
  <2>3. ASSUME NEW e \in 1..Len(p), p[e].role = "tool" PROVE InRun(p, e)
    <3>1. e # 1
      BY <1>2, <1>8, <2>3
    <3>2. calls # <<>> /\ 1 \in 1..(e - 1) /\ p[1].calls # <<>>
      BY <1>2, <1>7, <1>8, <1>9, <3>1
    <3>3. \A n \in (1 + 1)..e : n \in 1..Len(p) /\ n # 1
      BY <1>8, <1>9
    <3>4. \A n \in (1 + 1)..e : p[n].role = "tool"
      BY <1>4, <1>10, <3>3
    <3> QED BY <3>2, <3>4 DEF InRun
  <2> QED BY <2>1, <2>2, <2>3 DEF Shape
<1>12. k \notin Own(m, k) /\ 0 \notin Own(m, k)
  <2>1. \A n \in Behind(m, k) : n > k
    BY DEF Behind
  <2> QED BY <1>1, <1>3, <2>1 DEF Own
<1>13. ASSUME NEW i \in 1..o
       PROVE  p[1 + i].parts = <<Part(own[i], "self")>> /\ 1 + i \in 1..Len(p)
  <2>1. i \in 1..Len(r) /\ 1 + i \in 1..Len(p)
    BY <1>3, <1>8, <1>9
  <2>2. own[i] \in 1..Len(m)
    BY <1>3, <1>5
  <2>3. Itself(m, own[i]).parts = <<Part(own[i], "self")>>
    BY <2>2, ItselfIs
  <2> QED BY <1>3, <1>8, <2>1, <2>3
<1>14. ASSUME NEW i \in 1..s
       PROVE  Len(p[1 + (o + i)].parts) = 1 /\ p[1 + (o + i)].parts[1].from = 0
              /\ p[1 + (o + i)].parts \in Parts
  <2>1. o + i \in 1..Len(r)
    BY <1>3, <1>9
  <2>2. silent[i] \in DOMAIN calls
    BY <1>3, <1>6
  <2>3. /\ Len(StandIn(calls, silent[i]).parts) = 1
        /\ StandIn(calls, silent[i]).parts[1].from = 0
        /\ StandIn(calls, silent[i]) \in Entry
    <3> HIDE DEF calls
    <3> QED BY <1>3, <2>2, StandInIs
  <2>4. StandIn(calls, silent[i]).parts \in Parts
    BY <2>3 DEF Entry
  <2> HIDE DEF calls
  <2> QED BY <1>3, <1>8, <2>1, <2>3, <2>4
<1>15. ASSUME NEW e, NEW q, NEW n, At(p, e, q, n)
       PROVE  /\ q = 1
              /\ (e = 1 /\ n = k) \/ (\E i \in 1..o : e = 1 + i /\ n = own[i]) \/ n = 0
  <2>1. e \in 1..Len(p) /\ q \in DOMAIN p[e].parts /\ p[e].parts[q].from = n
    BY <1>9, <1>15 DEF At
  <2>2. CASE e = 1
    BY <1>2, <1>8, <2>1, <2>2 DEF Part
  <2>3. CASE e # 1 /\ e - 1 \in 1..o
    <3>1. e = 1 + (e - 1)
      BY <2>1
    <3>2. p[e].parts = <<Part(own[e - 1], "self")>>
      BY <1>13, <2>3, <3>1
    <3> QED BY <2>1, <2>3, <3>1, <3>2 DEF Part
  <2>4. CASE e # 1 /\ e - 1 \notin 1..o
    <3>1. (e - 1) - o \in 1..s /\ e = 1 + (o + ((e - 1) - o))
      <4>1. e \in Int /\ o \in Int /\ s \in Int /\ e >= 1 /\ e <= 1 + (o + s)
        BY <1>3, <1>8, <2>1
      <4> QED BY <2>4, <4>1
    <3>2. Len(p[e].parts) = 1 /\ p[e].parts[1].from = 0 /\ p[e].parts \in Parts
      BY <1>14, <3>1
    <3>3. DOMAIN p[e].parts = {1}
      BY <3>2 DEF Parts
    <3>4. q = 1 /\ n = 0
      BY <2>1, <3>2, <3>3
    <3> QED BY <3>4
  <2> QED BY <2>2, <2>3, <2>4
<1>16. CarriesOnce(p, k)
  <2>1. At(p, 1, 1, k)
    BY <1>2, <1>8, <1>9 DEF At, Part
  <2>2. \A f, t : At(p, f, t, k) => f = 1 /\ t = 1
    BY <1>1, <1>5, <1>12, <1>15
  <2> QED BY <2>1, <2>2, OncePlace
<1>17. ASSUME NEW n \in Own(m, k) PROVE CarriesOnce(p, n)
  <2>1. PICK i \in 1..o : own[i] = n
    BY <1>5
  <2>2. At(p, 1 + i, 1, n)
    <3>1. Part(own[i], "self").from = n
      BY <2>1 DEF Part
    <3>2. p[1 + i].parts = <<Part(own[i], "self")>> /\ 1 + i \in DOMAIN p
      BY <1>9, <1>13
    <3> QED BY <3>1, <3>2 DEF At
  <2>3. ASSUME NEW f, NEW t, At(p, f, t, n) PROVE f = 1 + i /\ t = 1
    <3>1. n # k /\ n # 0
      BY <1>12
    <3>2. t = 1 /\ \E h \in 1..o : f = 1 + h /\ n = own[h]
      BY <1>15, <2>3, <3>1
    <3> QED BY <1>5, <2>1, <3>2
  <2> QED BY <2>2, <2>3, OncePlace
<1>18. CarriesAll(p, {k} \union Own(m, k))
  <2>1. \A e, q, n : At(p, e, q, n) => n \in ({k} \union Own(m, k)) \union {0}
    BY <1>5, <1>15
  <2> QED BY <1>16, <1>17, <2>1 DEF CarriesAll
<1> QED BY <1>8, <1>11, <1>18 DEF p, r

\* A message, its results and the notes on foreign results fit, and carry the message
\* and the tool messages behind it.
LEMMA BlockFits ==
  ASSUME NEW m \in Seq(Message), NEW k \in Kept(m), m[k].role # "tool"
  PROVE  /\ Block(m, k) \in Seq(Entry) /\ Len(Block(m, k)) >= 1
         /\ Block(m, k)[1].role = m[k].role
         /\ Shape(m, Block(m, k))
         /\ CarriesAll(Block(m, k), {k} \union Behind(m, k))
<1> DEFINE a == Answers(m, k)
           S == Behind(m, k) \ Own(m, k)
           b == Notes(S)
<1>1. k \in 1..Len(m) /\ Behind(m, k) \subseteq 1..Len(m)
  <2>1. k \in 1..Len(m)
    BY DEF Kept
  <2> QED BY <2>1, BehindIs
<1>2. /\ a \in Seq(Entry) /\ Len(a) = 1 + Len(Results(m, k)) /\ a[1] = Itself(m, k)
      /\ Shape(m, a) /\ CarriesAll(a, {k} \union Own(m, k))
  BY AnswersFit
<1>3. b \in Seq(Entry) /\ Shape(m, b) /\ CarriesAll(b, S)
  <2>1. S \in SUBSET (1..Len(m))
    BY <1>1
  <2> HIDE DEF S
  <2> QED BY <2>1, NotesFit
<1>4. Block(m, k) = Joined(a, b)
  BY DEF Block, Answers
<1>5. ({k} \union Own(m, k)) \cap S = {} /\ 0 \notin {k} \union Own(m, k) /\ 0 \notin S
      /\ ({k} \union Own(m, k)) \union S = {k} \union Behind(m, k)
  <2>1. \A n \in Behind(m, k) : n > k
    BY DEF Behind
  <2>2. k \notin Behind(m, k) /\ 0 \notin Behind(m, k)
    BY <1>1, <2>1
  <2> QED BY <1>1, <2>2 DEF Own
<1>6. Len(a) \in Nat /\ Len(a) >= 1
  <2>1. Results(m, k) \in Seq(Entry)
    BY <1>1, ResultsAre
  <2>2. Len(Results(m, k)) \in Nat
    BY <2>1
  <2> HIDE DEF a
  <2> QED BY <1>2, <2>2
<1> HIDE DEF a, b, S
<1>7. Joined(a, b) \in Seq(Entry) /\ Len(Joined(a, b)) >= Len(a)
  BY <1>2, <1>3, JoinedIs
<1>8. Joined(a, b)[1].role = a[1].role
  <2>1. 1 \in 1..Len(a)
    BY <1>6
  <2> QED BY <1>2, <1>3, <2>1, JoinedLooks
<1>9. Itself(m, k).role = m[k].role
  BY <1>1, ItselfIs
<1>10. Shape(m, Joined(a, b))
  BY <1>2, <1>3, ShapeJoined
<1>11. CarriesAll(Joined(a, b), {k} \union Behind(m, k))
  <2>1. CarriesAll(Joined(a, b), ({k} \union Own(m, k)) \union S)
    BY <1>2, <1>3, <1>5, CarriesJoined
  <2> QED BY <1>5, <2>1
<1>12. Len(Joined(a, b)) >= 1
  BY <1>6, <1>7
<1> QED BY <1>2, <1>4, <1>7, <1>8, <1>9, <1>10, <1>11, <1>12

-----------------------------------------------------------------------------
(* The payload of a transcript *)

\* P holds the payloads of the first messages of m.
PayloadsOf(m, P) ==
  /\ P \in [0..Len(m) -> Seq(Entry)]
  /\ P[0] = Notes(Behind(m, 0))
  /\ \A k \in 1..Len(m) :
       P[k] = IF k \in Kept(m) /\ m[k].role # "tool"
              THEN Joined(P[k - 1], Block(m, k)) ELSE P[k - 1]

\* Sanitized(m) is the last of them.
LEMMA SanitizedIs ==
  ASSUME NEW m \in Seq(Message)
  PROVE  \E P : PayloadsOf(m, P) /\ Sanitized(m) = P[Len(m)]
<1> DEFINE N == Len(m)
           First == Notes(Behind(m, 0))
           Then(k, p) == IF k \in Kept(m) /\ m[k].role # "tool" THEN Joined(p, Block(m, k)) ELSE p
           Fits(g, n) == g[0] = First /\ \A k \in 1..n : g[k] = Then(k, g[k - 1])
           T == {n \in 0..N : \E g \in [0..n -> Seq(Entry)] : Fits(g, n)}
           payload[k \in 0..N] ==
             IF k = 0 THEN Notes(Behind(m, 0))
             ELSE IF k \in Kept(m) /\ m[k].role # "tool"
             THEN Joined(payload[k - 1], Block(m, k))
             ELSE payload[k - 1]
<1>1. N \in Nat
  OBVIOUS
<1>2. First \in Seq(Entry)
  <2>1. Behind(m, 0) \in SUBSET (1..N)
    BY <1>1, BehindIs
  <2> QED BY <1>1, <2>1, NotesAre
<1>3. ASSUME NEW k \in 1..N, NEW p \in Seq(Entry) PROVE Then(k, p) \in Seq(Entry)
  <2>1. CASE k \in Kept(m) /\ m[k].role # "tool"
    <3>1. Block(m, k) \in Seq(Entry)
      BY <2>1, BlockFits
    <3>2. Joined(p, Block(m, k)) \in Seq(Entry)
      BY <3>1, JoinedIs
    <3> QED BY <2>1, <3>2
  <2>2. CASE ~(k \in Kept(m) /\ m[k].role # "tool")
    BY <2>2
  <2> QED BY <2>1, <2>2
<1>4. 0 \in T
  <2> HIDE DEF First, Then
  <2>1. [k \in 0..0 |-> First] \in [0..0 -> Seq(Entry)] /\ Fits([k \in 0..0 |-> First], 0)
    BY <1>2
  <2> HIDE DEF Fits
  <2>2. \E g \in [0..0 -> Seq(Entry)] : Fits(g, 0)
    BY <2>1
  <2> QED BY <1>1, <2>2
<1>5. ASSUME NEW n \in 0..(N - 1), n \in T PROVE n + 1 \in T
  <2> HIDE DEF First, Then, N
  <2>1. PICK g \in [0..n -> Seq(Entry)] : Fits(g, n)
    BY <1>5
  <2> DEFINE h == [k \in 0..(n + 1) |-> IF k <= n THEN g[k] ELSE Then(k, g[k - 1])]
  <2>2. h \in [0..(n + 1) -> Seq(Entry)]
    <3>1. ASSUME NEW k \in 0..(n + 1) PROVE h[k] \in Seq(Entry)
      <4>1. CASE k <= n
        BY <4>1
      <4>2. CASE k = n + 1
        <5>1. k \in 1..N /\ k - 1 \in 0..n /\ ~(k <= n)
          BY <1>1, <4>2
        <5>2. Then(k, g[k - 1]) \in Seq(Entry)
          BY <1>3, <5>1
        <5> QED BY <5>1, <5>2
      <4> QED BY <4>1, <4>2
    <3> QED BY <3>1
  <2>3. Fits(h, n + 1)
    <3>1. ASSUME NEW k \in 1..(n + 1) PROVE h[k] = Then(k, h[k - 1])
      <4>1. h[k - 1] = g[k - 1]
        OBVIOUS
      <4>2. CASE k <= n
        <5>1. h[k] = g[k] /\ g[k] = Then(k, g[k - 1])
          BY <2>1, <4>2
        <5> HIDE DEF h
        <5> QED BY <4>1, <5>1
      <4>3. CASE k = n + 1
        <5>1. h[k] = Then(k, g[k - 1])
          BY <4>3
        <5> HIDE DEF h
        <5> QED BY <4>1, <5>1
      <4> QED BY <4>2, <4>3
    <3>2. h[0] = First
      BY <2>1
    <3> QED BY <3>1, <3>2
  <2>4. n + 1 \in 0..N
    BY <1>1
  <2> QED BY <2>2, <2>3, <2>4
<1>6. PICK g \in [0..N -> Seq(Entry)] : Fits(g, N)
  <2>0. \A n \in 0..(N - 1) : n \in T => n + 1 \in T
    BY <1>5
  <2> HIDE DEF T, N
  <2>1. N \in T
    <3>1. \A n \in 0..N : n \in T
      BY <1>1, <1>4, <2>0, UpTo
    <3> QED BY <1>1, <3>1
  <2>2. N \in {n \in 0..N : \E g \in [0..n -> Seq(Entry)] : Fits(g, n)}
    BY <2>1 DEF T
  <2> HIDE DEF Fits
  <2> QED BY <2>2
<1>7. g = [k \in 0..N |-> IF k = 0 THEN Notes(Behind(m, 0))
                          ELSE IF k \in Kept(m) /\ m[k].role # "tool"
                          THEN Joined(g[k - 1], Block(m, k))
                          ELSE g[k - 1]]
  <2>1. \A k \in 0..N : g[k] = IF k = 0 THEN Notes(Behind(m, 0))
                               ELSE IF k \in Kept(m) /\ m[k].role # "tool"
                               THEN Joined(g[k - 1], Block(m, k))
                               ELSE g[k - 1]
    BY <1>1, <1>6
  <2> QED BY <1>6, <2>1
<1>8. payload = [k \in 0..N |-> IF k = 0 THEN Notes(Behind(m, 0))
                                ELSE IF k \in Kept(m) /\ m[k].role # "tool"
                                THEN Joined(payload[k - 1], Block(m, k))
                                ELSE payload[k - 1]]
  BY <1>7
<1>9. PayloadsOf(m, payload)
  <2> HIDE DEF payload
  <2> DEFINE U == {k \in 0..N : payload[k] \in Seq(Entry)}
  <2>1. \A k \in 0..N : payload[k] = IF k = 0 THEN Notes(Behind(m, 0))
                                     ELSE IF k \in Kept(m) /\ m[k].role # "tool"
                                     THEN Joined(payload[k - 1], Block(m, k))
                                     ELSE payload[k - 1]
    BY <1>8
  <2>2. payload[0] = Notes(Behind(m, 0))
    BY <1>1, <2>1
  <2>3. \A k \in 1..N : payload[k] = IF k \in Kept(m) /\ m[k].role # "tool"
                                     THEN Joined(payload[k - 1], Block(m, k))
                                     ELSE payload[k - 1]
    BY <1>1, <2>1
  <2>4. 0 \in U
    BY <1>1, <1>2, <2>2
  <2>5. ASSUME NEW k \in 0..(N - 1), k \in U PROVE k + 1 \in U
    <3>1. k + 1 \in 1..N /\ (k + 1) - 1 = k /\ payload[k] \in Seq(Entry) /\ k + 1 \in 0..N
      BY <1>1, <2>5
    <3>2. CASE k + 1 \in Kept(m) /\ m[k + 1].role # "tool"
      <4>1. Block(m, k + 1) \in Seq(Entry)
        BY <3>2, BlockFits
      <4>2. Joined(payload[k], Block(m, k + 1)) \in Seq(Entry)
        BY <3>1, <4>1, JoinedIs
      <4>3. payload[k + 1] = Joined(payload[k], Block(m, k + 1))
        BY <2>3, <3>1, <3>2
      <4> QED BY <3>1, <4>2, <4>3
    <3>3. CASE ~(k + 1 \in Kept(m) /\ m[k + 1].role # "tool")
      <4>1. payload[k + 1] = payload[k]
        BY <2>3, <3>1, <3>3
      <4> QED BY <3>1, <4>1
    <3> QED BY <3>2, <3>3
  <2>6. \A k \in 0..N : payload[k] \in Seq(Entry)
    <3> HIDE DEF U
    <3>1. \A k \in 0..N : k \in U
      BY <1>1, <2>4, <2>5, UpTo
    <3> QED BY <3>1 DEF U
  <2>7. payload \in [0..N -> Seq(Entry)]
    BY <1>8, <2>6
  <2> QED BY <2>2, <2>3, <2>7 DEF PayloadsOf
<1>10. Sanitized(m) = payload[N]
  BY DEF Sanitized
<1> QED BY <1>9, <1>10

\* The tool messages behind a place and behind the one before it.
LEMMA BehindSteps ==
  ASSUME NEW m \in Seq(Message), NEW k \in 1..Len(m)
  PROVE  /\ k \in Kept(m) /\ m[k].role # "tool" => Behind(m, k - 1) = {}
         /\ k \notin Kept(m) => Behind(m, k - 1) = Behind(m, k)
         /\ k \in Kept(m) /\ m[k].role = "tool" => Behind(m, k - 1) = Behind(m, k) \union {k}
<1>1. k \in Nat /\ k - 1 \in Nat /\ (k - 1) + 1 = k /\ \A n \in Kept(m) : n \in Nat
  BY DEF Kept
<1>2. \A n \in Nat : n > k - 1 <=> n > k \/ n = k
  BY <1>1
<1>3. \A n \in Nat : k \in k..n <=> n >= k
  BY <1>1
<1>4. ASSUME k \in Kept(m), m[k].role # "tool", NEW n \in Behind(m, k - 1) PROVE FALSE
  <2>1. n \in Kept(m) /\ n \in Nat /\ n > k - 1
    BY <1>1 DEF Behind
  <2>2. k \in ((k - 1) + 1)..n
    BY <1>1, <2>1
  <2> QED BY <1>4, <2>2 DEF Behind
<1>5. ASSUME NEW n \in Behind(m, k - 1), n # k PROVE n \in Behind(m, k)
  <2>1. n \in Kept(m) /\ n \in Nat /\ n > k - 1
    BY <1>1 DEF Behind
  <2>2. n > k
    BY <1>1, <1>5, <2>1
  <2>3. \A i \in Kept(m) : i \in (k + 1)..n => i \in ((k - 1) + 1)..n
    BY <1>1
  <2>4. \A i \in Kept(m) : i \in (k + 1)..n => m[i].role = "tool"
    BY <2>3 DEF Behind
  <2> QED BY <2>1, <2>2, <2>4 DEF Behind
<1>6. ASSUME NEW n \in Behind(m, k), k \notin Kept(m) \/ m[k].role = "tool"
      PROVE  n \in Behind(m, k - 1)
  <2>1. n \in Kept(m) /\ n \in Nat /\ n > k
    BY <1>1 DEF Behind
  <2>2. n > k - 1
    BY <1>1, <2>1
  <2>3. \A i \in Kept(m) : i \in ((k - 1) + 1)..n => i = k \/ i \in (k + 1)..n
    BY <1>1
  <2>4. \A i \in Kept(m) : i \in (k + 1)..n => m[i].role = "tool"
    BY DEF Behind
  <2>5. \A i \in Kept(m) : i \in ((k - 1) + 1)..n => m[i].role = "tool"
    BY <1>6, <2>3, <2>4
  <2> QED BY <2>1, <2>2, <2>5 DEF Behind
<1>7. ASSUME k \in Kept(m), m[k].role = "tool" PROVE k \in Behind(m, k - 1)
  <2>1. k > k - 1
    BY <1>1
  <2>2. \A i \in Kept(m) : i \in ((k - 1) + 1)..k => i = k
    BY <1>1
  <2>3. \A i \in Kept(m) : i \in ((k - 1) + 1)..k => m[i].role = "tool"
    BY <1>7, <2>2
  <2> QED BY <1>7, <2>1, <2>3 DEF Behind
<1>8. k \notin Behind(m, k) /\ (k \in Behind(m, k - 1) => k \in Kept(m))
  <2>1. ~(k > k)
    BY <1>1
  <2> QED BY <2>1 DEF Behind
<1>9. k \in Kept(m) /\ m[k].role # "tool" => Behind(m, k - 1) = {}
  BY <1>4
<1>10. k \notin Kept(m) => Behind(m, k - 1) = Behind(m, k)
  <2>1. k \notin Kept(m) => Behind(m, k - 1) \subseteq Behind(m, k)
    BY <1>5, <1>8
  <2>2. k \notin Kept(m) => Behind(m, k) \subseteq Behind(m, k - 1)
    BY <1>6
  <2> QED BY <2>1, <2>2
<1>11. k \in Kept(m) /\ m[k].role = "tool" => Behind(m, k - 1) = Behind(m, k) \union {k}
  <2>1. Behind(m, k - 1) \subseteq Behind(m, k) \union {k}
    BY <1>5
  <2>2. k \in Kept(m) /\ m[k].role = "tool" => Behind(m, k) \union {k} \subseteq Behind(m, k - 1)
    BY <1>6, <1>7
  <2> QED BY <2>1, <2>2
<1> QED BY <1>9, <1>10, <1>11

\* No message is behind the last one.
LEMMA BehindLast ==
  ASSUME NEW m \in Seq(Message)
  PROVE  Behind(m, Len(m)) = {}
<1>1. \A n \in Kept(m) : n \in 1..Len(m)
  BY DEF Kept
<1>2. Len(m) \in Nat /\ \A n \in 1..Len(m) : ~(n > Len(m))
  OBVIOUS
<1> QED BY <1>1, <1>2 DEF Behind

\* The payloads are of the shape providers ask for, and carry what they are made of.
LEMMA PayloadsFit ==
  ASSUME NEW m \in Seq(Message), NEW P, PayloadsOf(m, P)
  PROVE  \A k \in 0..Len(m) :
           /\ Shape(m, P[k])
           /\ CarriesAll(P[k], {n \in Kept(m) : n <= k} \union Behind(m, k))
<1> DEFINE N == Len(m)
           C(k) == {n \in Kept(m) : n <= k} \union Behind(m, k)
           Fits(k) == Shape(m, P[k]) /\ CarriesAll(P[k], C(k))
           T == {k \in 0..N : Fits(k)}
<1>1. N \in Nat /\ Kept(m) \subseteq 1..N
  BY DEF Kept
<1>2. /\ P \in [0..N -> Seq(Entry)]
      /\ P[0] = Notes(Behind(m, 0))
      /\ \A k \in 1..N :
           P[k] = IF k \in Kept(m) /\ m[k].role # "tool"
                  THEN Joined(P[k - 1], Block(m, k)) ELSE P[k - 1]
  BY DEF PayloadsOf
<1> HIDE DEF N
<1>3. 0 \in T
  <2>1. Behind(m, 0) \subseteq 1..Len(m)
    BY BehindIs
  <2>2. Shape(m, P[0]) /\ CarriesAll(P[0], Behind(m, 0))
    BY <1>2, <2>1, NotesFit
  <2>3. \A n \in Kept(m) : ~(n <= 0)
    BY <1>1
  <2>4. C(0) = Behind(m, 0)
    BY <2>3
  <2> HIDE DEF C
  <2>5. Fits(0)
    BY <2>2, <2>4
  <2> HIDE DEF Fits
  <2> QED BY <1>1, <2>5
<1>4. ASSUME NEW j \in 0..(N - 1), j \in T PROVE j + 1 \in T
  <2> DEFINE k == j + 1
  <2>1. k \in 1..N /\ k \in 0..N /\ k - 1 = j /\ k \in Nat /\ j \in Nat /\ k \in 1..Len(m)
    BY <1>1, <1>4 DEF N
  <2> HIDE DEF k
  <2>2. Shape(m, P[j]) /\ CarriesAll(P[j], C(j)) /\ P[j] \in Seq(Entry)
    BY <1>2, <1>4
  <2>3. \A n \in Kept(m) : n \in Nat
    BY <1>1
  <2>4. \A n \in Nat : (n <= k <=> n <= j \/ n = k) /\ ~(n <= j /\ n = k) /\ ~(n <= j /\ n > k)
    BY <2>1
  <2>5. CASE k \in Kept(m) /\ m[k].role # "tool"
    <3> DEFINE B == {n \in Kept(m) : n <= j}
               D == {k} \union Behind(m, k)
    <3>1. Behind(m, j) = {}
      BY <2>1, <2>5, BehindSteps
    <3>2. CarriesAll(P[j], B)
      <4>1. C(j) = B
        BY <3>1
      <4> QED BY <2>2, <4>1
    <3>3. Block(m, k) \in Seq(Entry) /\ Shape(m, Block(m, k)) /\ CarriesAll(Block(m, k), D)
      BY <2>5, BlockFits
    <3>4. P[k] = Joined(P[j], Block(m, k))
      BY <1>2, <2>1, <2>5
    <3>5. Shape(m, P[k])
      BY <2>2, <3>3, <3>4, ShapeJoined
    <3>6. B \cap D = {} /\ 0 \notin B /\ 0 \notin D
      <4>1. \A n \in Behind(m, k) : n > k /\ n \in Kept(m)
        BY DEF Behind
      <4>2. 0 \notin Kept(m)
        BY <1>1
      <4> QED BY <2>3, <2>4, <2>5, <4>1, <4>2
    <3>7. B \union D = C(k)
      <4>1. \A n \in Behind(m, k) : n \in Kept(m)
        BY DEF Behind
      <4> QED BY <2>3, <2>4, <2>5, <4>1
    <3> HIDE DEF B, D
    <3>8. CarriesAll(P[k], B \union D)
      BY <2>2, <3>2, <3>3, <3>4, <3>6, CarriesJoined
    <3> QED BY <2>1, <3>5, <3>7, <3>8 DEF k
  <2>6. CASE k \notin Kept(m)
    <3>1. Behind(m, j) = Behind(m, k)
      BY <2>1, <2>6, BehindSteps
    <3>2. C(j) = C(k)
      BY <2>3, <2>4, <2>6, <3>1
    <3>3. P[k] = P[j]
      BY <1>2, <2>1, <2>6
    <3> QED BY <2>1, <2>2, <3>2, <3>3 DEF k
  <2>7. CASE k \in Kept(m) /\ m[k].role = "tool"
    <3>1. Behind(m, j) = Behind(m, k) \union {k}
      BY <2>1, <2>7, BehindSteps
    <3>2. C(j) = C(k)
      BY <2>3, <2>4, <2>7, <3>1
    <3>3. P[k] = P[j]
      BY <1>2, <2>1, <2>7
    <3> QED BY <2>1, <2>2, <3>2, <3>3 DEF k
  <2> QED BY <2>5, <2>6, <2>7
<1>5. \A k \in 0..N : k \in T
  <2>1. \A k \in 0..(N - 1) : k \in T => k + 1 \in T
    BY <1>4
  <2> HIDE DEF T
  <2> QED BY <1>1, <1>3, <2>1, UpTo
<1> QED BY <1>5 DEF N

\* Whatever the transcript: its payload has that shape, and carries each message with
\* text or calls once.
LEMMA SanitizedFits ==
  ASSUME NEW m \in Seq(Message)
  PROVE  /\ Sanitized(m) \in Seq(Entry)
         /\ Shape(m, Sanitized(m))
         /\ CarriesAll(Sanitized(m), Kept(m))
<1>1. PICK P : PayloadsOf(m, P) /\ Sanitized(m) = P[Len(m)]
  BY SanitizedIs
<1>2. Len(m) \in 0..Len(m)
  OBVIOUS
<1>3. Shape(m, P[Len(m)])
      /\ CarriesAll(P[Len(m)], {n \in Kept(m) : n <= Len(m)} \union Behind(m, Len(m)))
  BY <1>1, <1>2, PayloadsFit
<1>4. {n \in Kept(m) : n <= Len(m)} \union Behind(m, Len(m)) = Kept(m)
  <2>1. \A n \in Kept(m) : n \in 1..Len(m)
    BY DEF Kept
  <2>2. \A n \in 1..Len(m) : n <= Len(m)
    OBVIOUS
  <2> QED BY <2>1, <2>2, BehindLast
<1>5. P[Len(m)] \in Seq(Entry)
  BY <1>1, <1>2 DEF PayloadsOf
<1> QED BY <1>1, <1>3, <1>4, <1>5

-----------------------------------------------------------------------------
(* What providers accept *)

\* The run of tool entries behind an announcement holds its results and nothing else.
LEMMA RunIs ==
  ASSUME NEW m \in Seq(Message), NEW p \in Seq(Entry), Shape(m, p),
         NEW a \in DOMAIN p, p[a].calls # <<>>
  PROVE  \E k \in Kept(m) :
           /\ p[a] = Itself(m, k) /\ k \in 1..Len(m)
           /\ \A e \in DOMAIN p : InRunOf(p, e, a) <=> e \in (a + 1)..(a + Len(Results(m, k)))
           /\ \A i \in 1..Len(Results(m, k)) :
                a + i \in DOMAIN p /\ p[a + i] = Results(m, k)[i]
<1>1. DOMAIN p = 1..Len(p) /\ Len(p) \in Nat /\ a \in 1..Len(p) /\ a \in Nat
  OBVIOUS
<1>2. PICK k \in Kept(m) : p[a] = Itself(m, k) /\ Followed(p, a, Results(m, k))
  BY <1>1 DEF Shape, Answered
<1>3. k \in 1..Len(m)
  BY DEF Kept
<1> DEFINE r == Results(m, k)
<1>4. /\ a + Len(r) <= Len(p)
      /\ \A i \in 1..Len(r) : p[a + i] = r[i]
      /\ a + Len(r) < Len(p) => p[a + Len(r) + 1].role # "tool"
  BY <1>2 DEF Followed
<1>5. Len(r) \in Nat
  <2>1. r \in Seq(Entry)
    BY <1>3, ResultsAre
  <2> QED BY <2>1
<1>6. \A i \in 1..Len(r) : r[i].role = "tool"
  BY <1>3, ResultsAnswer
<1>7. p[a].role = "assistant"
  <2>1. p[a] \in Entry
    OBVIOUS
  <2> QED BY <2>1 DEF Entry
<1> HIDE DEF r
<1>8. ASSUME NEW e \in DOMAIN p, InRunOf(p, e, a) PROVE e \in (a + 1)..(a + Len(r))
  <2>1. a < e /\ \A n \in (a + 1)..e : p[n].role = "tool"
    BY <1>8 DEF InRunOf
  <2>2. e \in 1..Len(p)
    BY <1>1
  <2>3. ASSUME e > a + Len(r) PROVE FALSE
    <3>1. a + Len(r) + 1 \in (a + 1)..e /\ a + Len(r) < Len(p)
      BY <1>1, <1>5, <2>1, <2>2, <2>3
    <3> QED BY <1>4, <2>1, <3>1
  <2> QED BY <1>1, <1>5, <2>1, <2>2, <2>3
<1>9. ASSUME NEW e \in DOMAIN p, e \in (a + 1)..(a + Len(r)) PROVE InRunOf(p, e, a)
  <2>1. a < e /\ e \in Nat
    BY <1>1, <1>5, <1>9
  <2>2. ASSUME NEW n \in (a + 1)..e PROVE p[n].role = "tool"
    <3>1. n - a \in 1..Len(r) /\ a + (n - a) = n
      BY <1>1, <1>5, <1>9, <2>1
    <3> QED BY <1>4, <1>6, <3>1
  <2> QED BY <1>7, <2>1, <2>2 DEF InRunOf
<1>10. ASSUME NEW i \in 1..Len(r) PROVE a + i \in DOMAIN p /\ p[a + i] = r[i]
  <2>1. a + i \in 1..Len(p)
    BY <1>1, <1>4, <1>5
  <2> QED BY <1>1, <1>4, <2>1
<1> QED BY <1>2, <1>3, <1>8, <1>9, <1>10 DEF r

\* So every payload is one that strict providers accept.
LEMMA SanitizedAccepted ==
  ASSUME NEW m \in Seq(Message)
  PROVE  Acceptable(Sanitized(m))
<1> DEFINE p == Sanitized(m)
<1>1. p \in Seq(Entry) /\ Shape(m, p)
  BY SanitizedFits
<1> HIDE DEF p
<1>2. DOMAIN p = 1..Len(p) /\ Len(p) \in Nat
  BY <1>1
<1>3. \A e \in DOMAIN p : p[e] \in Entry
  BY <1>1
<1>4. ASSUME NEW e \in DOMAIN p, p[e].role = "tool"
      PROVE  \E j \in DOMAIN p : InRunOf(p, e, j) /\ p[e].id \in Ids(p[j].calls)
  <2>1. PICK a \in 1..(e - 1) : p[a].calls # <<>> /\ \A n \in (a + 1)..e : p[n].role = "tool"
    BY <1>1, <1>2, <1>4 DEF Shape, InRun
  <2>2. e \in 1..Len(p) /\ a \in 1..Len(p) /\ a \in DOMAIN p /\ a < e
    BY <1>2
  <2>3. p[a].role = "assistant"
    BY <1>3, <2>1, <2>2 DEF Entry
  <2>4. InRunOf(p, e, a)
    BY <2>1, <2>2, <2>3 DEF InRunOf
  <2>5. PICK k \in Kept(m) :
          /\ p[a] = Itself(m, k) /\ k \in 1..Len(m)
          /\ \A x \in DOMAIN p : InRunOf(p, x, a) <=> x \in (a + 1)..(a + Len(Results(m, k)))
          /\ \A i \in 1..Len(Results(m, k)) :
               a + i \in DOMAIN p /\ p[a + i] = Results(m, k)[i]
    BY <1>1, <2>1, <2>2, RunIs
  <2>6. Len(Results(m, k)) \in Nat
    <3>1. Results(m, k) \in Seq(Entry)
      BY <2>5, ResultsAre
    <3> QED BY <3>1
  <2>7. e \in (a + 1)..(a + Len(Results(m, k)))
    BY <2>4, <2>5
  <2>8. e - a \in 1..Len(Results(m, k)) /\ a + (e - a) = e
    BY <2>2, <2>6, <2>7
  <2>9. p[e] = Results(m, k)[e - a]
    BY <2>5, <2>8
  <2>10. Results(m, k)[e - a].id \in Ids(m[k].calls)
    BY <2>5, <2>8, ResultsAnswer
  <2>11. p[a].calls = m[k].calls
    BY <2>5, ItselfIs
  <2> QED BY <2>2, <2>4, <2>9, <2>10, <2>11
<1>5. ASSUME NEW j \in DOMAIN p, NEW id \in Ids(p[j].calls)
      PROVE  \E e \in DOMAIN p : InRunOf(p, e, j) /\ p[e].id = id
  <2>1. p[j].calls # <<>>
    <3>1. PICK c \in DOMAIN p[j].calls : TRUE
      BY DEF Ids
    <3>2. p[j].calls \in Seq(Call)
      BY <1>3 DEF Entry
    <3> QED BY <3>1, <3>2
  <2>2. PICK k \in Kept(m) :
          /\ p[j] = Itself(m, k) /\ k \in 1..Len(m)
          /\ \A x \in DOMAIN p : InRunOf(p, x, j) <=> x \in (j + 1)..(j + Len(Results(m, k)))
          /\ \A i \in 1..Len(Results(m, k)) :
               j + i \in DOMAIN p /\ p[j + i] = Results(m, k)[i]
    BY <1>1, <2>1, RunIs
  <2>3. p[j].calls = m[k].calls
    BY <2>2, ItselfIs
  <2>4. PICK i \in 1..Len(Results(m, k)) : Results(m, k)[i].id = id
    BY <2>2, <2>3, ResultsAnswer
  <2>5. Len(Results(m, k)) \in Nat /\ j \in Nat
    <3>1. Results(m, k) \in Seq(Entry)
      BY <2>2, ResultsAre
    <3> QED BY <1>2, <3>1
  <2>6. j + i \in (j + 1)..(j + Len(Results(m, k)))
    BY <2>5
  <2>7. j + i \in DOMAIN p /\ InRunOf(p, j + i, j) /\ p[j + i].id = id
    BY <2>2, <2>4, <2>6
  <2> QED BY <2>7
<1>6. \A e \in 1..(Len(p) - 1) : ~(p[e].role = "user" /\ p[e + 1].role = "user")
  BY <1>1 DEF Shape
<1> QED BY <1>4, <1>5, <1>6 DEF Acceptable, p

-----------------------------------------------------------------------------
(* Announcements whose results came back *)

\* A message that is not dropped.
Said(x) == ~x.blank \/ x.calls # <<>>

\* The first n calls of message j were answered, in their order, right behind it.
Came(m, j, n) ==
  /\ n \in 0..Len(m[j].calls) /\ j + n <= Len(m)
  /\ \A i \in 1..n : m[j + i] = Answering(m[j].calls[i].id)

\* A run of tool messages ends at place k.
Ends(m, k) == k <= Len(m) /\ m[k].role # "tool" /\ Said(m[k])

\* Nothing answers message j any more.
Closed(m, j) == \E n \in 0..Len(m[j].calls) : Came(m, j, n) /\ Ends(m, j + n + 1)

\* The answers to message j that came are right behind it.
Served(m, j) ==
  Closed(m, j) \/ \E n \in 0..Len(m[j].calls) : Came(m, j, n) /\ j + n = Len(m)

\* The answers that came are among the own results of an announcement.
LEMMA CameOwn ==
  ASSUME NEW m \in Seq(Message), NEW j \in 1..Len(m), NEW c \in 0..Len(m[j].calls),
         Came(m, j, c)
  PROVE  (j + 1)..(j + c) \subseteq Own(m, j)
<1>1. /\ Len(m) \in Nat /\ j \in Nat /\ m[j].calls \in Seq(Call) /\ Len(m[j].calls) \in Nat
      /\ c \in Nat /\ c <= Len(m[j].calls) /\ j + c <= Len(m)
  <2>1. m[j] \in Message
    OBVIOUS
  <2>2. m[j].calls \in Seq(Call)
    BY <2>1 DEF Message
  <2>3. Len(m[j].calls) \in Nat
    BY <2>2
  <2> QED BY <2>2, <2>3 DEF Came
<1>2. ASSUME NEW n \in (j + 1)..(j + c)
      PROVE  n \in 1..Len(m) /\ n > j /\ n \in Kept(m) /\ m[n].role = "tool"
             /\ m[n].id \in Ids(m[j].calls)
  <2>1. n - j \in 1..c /\ j + (n - j) = n /\ n - j \in 1..Len(m[j].calls) /\ n > j
        /\ n \in 1..Len(m)
    BY <1>1
  <2>2. m[n] = Answering(m[j].calls[n - j].id)
    BY <2>1 DEF Came
  <2>3. m[n].role = "tool" /\ m[n].blank = FALSE /\ m[n].id = m[j].calls[n - j].id
    BY <2>2 DEF Answering
  <2>4. n \in Kept(m)
    BY <2>1, <2>3 DEF Kept
  <2>5. n - j \in DOMAIN m[j].calls
    BY <1>1, <2>1
  <2> QED BY <2>1, <2>3, <2>4, <2>5 DEF Ids
<1>3. ASSUME NEW n \in (j + 1)..(j + c) PROVE n \in Own(m, j)
  <2>1. \A i \in (j + 1)..n : i \in (j + 1)..(j + c)
    BY <1>1
  <2>2. \A i \in Kept(m) : i \in (j + 1)..n => m[i].role = "tool"
    BY <1>2, <2>1
  <2> QED BY <1>2, <2>2 DEF Own, Behind
<1> QED BY <1>3

\* The own results of such an announcement are these answers.
LEMMA OwnOfServed ==
  ASSUME NEW m \in Seq(Message), NEW j \in 1..Len(m), NEW c \in 0..Len(m[j].calls),
         Came(m, j, c), Ends(m, j + c + 1) \/ j + c = Len(m)
  PROVE  Own(m, j) = (j + 1)..(j + c)
<1>1. /\ Len(m) \in Nat /\ j \in Nat /\ m[j].calls \in Seq(Call) /\ Len(m[j].calls) \in Nat
      /\ c \in Nat /\ c <= Len(m[j].calls) /\ j + c <= Len(m)
  <2>1. m[j] \in Message
    OBVIOUS
  <2>2. m[j].calls \in Seq(Call)
    BY <2>1 DEF Message
  <2>3. Len(m[j].calls) \in Nat
    BY <2>2
  <2> QED BY <2>2, <2>3 DEF Came
<1>2. ASSUME NEW n \in Own(m, j) PROVE n \in (j + 1)..(j + c)
  <2>1. n \in Kept(m) /\ n \in 1..Len(m) /\ n > j
    BY DEF Own, Behind, Kept
  <2>2. \A i \in Kept(m) : i \in (j + 1)..n => m[i].role = "tool"
    BY DEF Own, Behind
  <2>3. ASSUME n > j + c PROVE FALSE
    <3>1. Ends(m, j + c + 1)
      BY <1>1, <2>1, <2>3
    <3>2. j + c + 1 \in 1..Len(m) /\ j + c + 1 \in (j + 1)..n
      BY <1>1, <2>1, <2>3
    <3>3. j + c + 1 \in Kept(m) /\ m[j + c + 1].role # "tool"
      BY <3>1, <3>2 DEF Ends, Said, Kept
    <3> QED BY <2>2, <3>2, <3>3
  <2> QED BY <1>1, <2>1, <2>3
<1>3. (j + 1)..(j + c) \subseteq Own(m, j)
  BY CameOwn
<1> QED BY <1>2, <1>3

\* A set that is mapped one-to-one to places is no larger than their number.
LEMMA Fewer ==
  ASSUME NEW n \in Nat, NEW C \in SUBSET (1..n), NEW E, NEW f \in [E -> C], E # {},
         \A x, y \in E : f[x] = f[y] => x = y
  PROVE  Cardinality(E) \in 1..Cardinality(C)
<1>1. IsFiniteSet(C) /\ Cardinality(C) \in Nat
  BY InOrderLists
<1>2. f \in Injection(E, C)
  BY DEF Injection, IsInjective
<1>3. IsFiniteSet(E) /\ Cardinality(E) <= Cardinality(C)
  BY <1>1, <1>2, FS_Injection
<1>4. Cardinality(E) \in Nat /\ Cardinality(E) # 0
  BY <1>3, FS_CardinalityType, FS_EmptySet
<1> QED BY <1>1, <1>3, <1>4

\* In the payload, too, an id has a result, and no more of them than calls.
LEMMA ServedCount ==
  ASSUME NEW m \in Seq(Message), NEW p \in Seq(Entry), Shape(m, p),
         NEW a \in DOMAIN p, p[a].calls # <<>>,
         NEW j \in 1..Len(m), p[a] = Itself(m, j), Served(m, j),
         NEW id \in Ids(p[a].calls)
  PROVE  Cardinality({e \in DOMAIN p : InRunOf(p, e, a) /\ p[e].id = id})
           \in 1..Cardinality({c \in DOMAIN p[a].calls : p[a].calls[c].id = id})
<1> DEFINE calls == m[j].calls
           r == Results(m, j)
           o == Cardinality(Own(m, j))
           s == Cardinality(Silent(m, j))
           own == InOrder(Own(m, j))
           silent == InOrder(Silent(m, j))
           E == {e \in DOMAIN p : InRunOf(p, e, a) /\ p[e].id = id}
           C == {c \in DOMAIN calls : calls[c].id = id}
           h(i) == IF i <= o THEN own[i] - j ELSE silent[i - o]
           f == [e \in E |-> h(e - a)]
<1>1. p[a].calls = calls /\ calls \in Seq(Call) /\ Len(calls) \in Nat
  <2>1. m[j] \in Message
    OBVIOUS
  <2>2. calls \in Seq(Call)
    BY <2>1 DEF Message
  <2>3. p[a].calls = calls
    BY ItselfIs
  <2>4. Len(calls) \in Nat
    BY <2>2
  <2> QED BY <2>2, <2>3, <2>4
<1>2. PICK k \in Kept(m) :
        /\ p[a] = Itself(m, k) /\ k \in 1..Len(m)
        /\ \A e \in DOMAIN p : InRunOf(p, e, a) <=> e \in (a + 1)..(a + Len(Results(m, k)))
        /\ \A i \in 1..Len(Results(m, k)) :
             a + i \in DOMAIN p /\ p[a + i] = Results(m, k)[i]
  BY RunIs
<1>3. k = j
  <2>1. Itself(m, k).parts = <<Part(k, "self")>> /\ Itself(m, j).parts = <<Part(j, "self")>>
    BY <1>2, ItselfIs
  <2>2. Part(k, "self") = Part(j, "self")
    BY <1>2, <2>1
  <2> QED BY <2>2 DEF Part
<1>4. /\ \A e \in DOMAIN p : InRunOf(p, e, a) <=> e \in (a + 1)..(a + Len(r))
      /\ \A i \in 1..Len(r) : a + i \in DOMAIN p /\ p[a + i] = r[i]
  BY <1>2, <1>3
<1>5. PICK c \in 0..Len(calls) : Own(m, j) = (j + 1)..(j + c) /\ Came(m, j, c)
  <2>1. PICK c \in 0..Len(calls) : Came(m, j, c) /\ (Ends(m, j + c + 1) \/ j + c = Len(m))
    BY DEF Served, Closed
  <2> QED BY <2>1, OwnOfServed
<1>6. /\ o \in Nat /\ s \in Nat /\ Len(r) = o + s
      /\ \A i \in 1..o : r[i] = Itself(m, own[i])
      /\ \A i \in 1..s : r[o + i] = StandIn(calls, silent[i])
      /\ Own(m, j) \in SUBSET (1..Len(m)) /\ Silent(m, j) \in SUBSET (1..Len(calls))
  BY ResultsAre
<1>7. /\ own \in [1..o -> Own(m, j)]
      /\ \A x, y \in 1..o : own[x] = own[y] => x = y
  <2>1. Len(m) \in Nat
    OBVIOUS
  <2> QED BY <1>6, <2>1, InOrderLists
<1>8. /\ silent \in [1..s -> Silent(m, j)]
      /\ \A x, y \in 1..s : silent[x] = silent[y] => x = y
  <2> HIDE DEF calls
  <2> QED BY <1>1, <1>6, InOrderLists
<1>9. ASSUME NEW i \in 1..o
      PROVE  own[i] - j \in 1..Len(calls) /\ r[i].id = calls[own[i] - j].id
             /\ own[i] \in Own(m, j) /\ own[i] \in Int /\ m[own[i]].id = r[i].id
  <2>1. own[i] \in Own(m, j) /\ own[i] \in (j + 1)..(j + c) /\ own[i] \in 1..Len(m)
    BY <1>5, <1>6, <1>7
  <2>2. own[i] - j \in 1..c /\ j + (own[i] - j) = own[i] /\ c <= Len(calls)
    <3>1. j \in Nat /\ c \in Nat /\ c <= Len(calls)
      BY <1>1, <1>5
    <3> HIDE DEF own, calls
    <3> QED BY <2>1, <3>1
  <2>3. m[own[i]] = Answering(calls[own[i] - j].id)
    BY <1>5, <2>2 DEF Came
  <2>4. m[own[i]].id = calls[own[i] - j].id
    BY <2>3 DEF Answering
  <2>5. r[i].id = m[own[i]].id
    BY <1>6, <2>1, ItselfIs
  <2>6. own[i] - j \in 1..Len(calls)
    <3>1. Len(calls) \in Nat /\ c \in Nat
      BY <1>1
    <3> HIDE DEF own, calls
    <3> QED BY <2>2, <3>1
  <2> QED BY <2>1, <2>4, <2>5, <2>6
<1>10. ASSUME NEW i \in 1..s
       PROVE  /\ silent[i] \in 1..Len(calls) /\ r[o + i].id = calls[silent[i]].id
              /\ \A n \in Own(m, j) : m[n].id # calls[silent[i]].id
  <2>1. silent[i] \in Silent(m, j) /\ silent[i] \in 1..Len(calls) /\ silent[i] \in DOMAIN calls
    <3> HIDE DEF silent, s, calls
    <3> QED BY <1>1, <1>6, <1>8
  <2>2. StandIn(calls, silent[i]).id = calls[silent[i]].id
    <3>1. calls \in Seq(Call)
      BY <1>1
    <3> HIDE DEF calls, silent, o, s, r, own
    <3> QED BY <3>1, <2>1, StandInIs
  <2>3. r[o + i] = StandIn(calls, silent[i])
    <3> HIDE DEF calls, silent, o, s, r, own
    <3> QED BY <1>6
  <2>4. \A n \in Own(m, j) : m[n].id # calls[silent[i]].id
    <3>1. \A c2 \in Silent(m, j) : \A n \in Own(m, j) : m[n].id # calls[c2].id
      BY DEF Silent
    <3> HIDE DEF calls, silent, o, s, r, own
    <3> QED BY <2>1, <3>1
  <2> HIDE DEF calls, silent, o, s, r, own
  <2> QED BY <2>1, <2>2, <2>3, <2>4
<1> HIDE DEF calls, r, o, s, own, silent
<1>11. ASSUME NEW e \in E
       PROVE  e - a \in 1..(o + s) /\ r[e - a].id = id /\ e - a \in Int /\ a + (e - a) = e
  <2>1. e \in (a + 1)..(a + Len(r)) /\ a \in Nat /\ Len(r) \in Nat
    BY <1>4, <1>6
  <2>2. e - a \in 1..Len(r) /\ a + (e - a) = e
    BY <2>1
  <2> QED BY <1>4, <1>6, <2>2
<1>12. ASSUME NEW i \in 1..(o + s), r[i].id = id
       PROVE  h(i) \in C
  <2>1. CASE i <= o
    BY <1>1, <1>6, <1>9, <1>12, <2>1
  <2>2. CASE ~(i <= o)
    <3>1. i - o \in 1..s /\ o + (i - o) = i
      BY <1>6, <2>2
    <3> QED BY <1>1, <1>10, <1>12, <2>2, <3>1
  <2> QED BY <2>1, <2>2
<1>13. ASSUME NEW x \in 1..(o + s), NEW y \in 1..(o + s), r[x].id = id, r[y].id = id, h(x) = h(y)
       PROVE  x = y
  <2>1. CASE x <= o /\ y <= o
    <3>1. x \in 1..o /\ y \in 1..o
      BY <1>6, <2>1
    <3>2. own[x] - j = own[y] - j /\ own[x] \in Int /\ own[y] \in Int
      BY <1>9, <1>13, <2>1, <3>1
    <3>3. own[x] = own[y]
      BY <3>2
    <3> QED BY <1>7, <3>1, <3>3
  <2>2. CASE ~(x <= o) /\ ~(y <= o)
    <3>1. x - o \in 1..s /\ y - o \in 1..s
      BY <1>6, <2>2
    <3>2. silent[x - o] = silent[y - o]
      BY <1>13, <2>2
    <3>3. x - o = y - o
      BY <1>8, <3>1, <3>2
    <3> QED BY <1>6, <3>3
  <2>3. ASSUME NEW u \in 1..(o + s), NEW v \in 1..(o + s), r[u].id = id, r[v].id = id,
               u <= o, ~(v <= o)
        PROVE  FALSE
    <3>1. u \in 1..o /\ v - o \in 1..s /\ o + (v - o) = v
      BY <1>6, <2>3
    <3>2. own[u] \in Own(m, j) /\ m[own[u]].id = id
      BY <1>9, <2>3, <3>1
    <3>3. calls[silent[v - o]].id = id
      BY <1>10, <2>3, <3>1
    <3> QED BY <1>10, <3>1, <3>2, <3>3
  <2> QED BY <1>13, <2>1, <2>2, <2>3
<1>14. f \in [E -> C]
  <2>1. \A e \in E : h(e - a) \in C
    BY <1>11, <1>12
  <2> HIDE DEF h, E, C
  <2> QED BY <2>1
<1>15. ASSUME NEW x \in E, NEW y \in E, f[x] = f[y] PROVE x = y
  <2>1. h(x - a) = h(y - a)
    <3> HIDE DEF h, E
    <3> QED BY <1>15
  <2>2. x - a = y - a
    BY <1>11, <1>13, <2>1
  <2>3. x = a + (x - a) /\ y = a + (y - a)
    BY <1>11
  <2> QED BY <2>2, <2>3
<1>16. E # {}
  <2>1. \A n \in Ids(calls) : \E i \in 1..Len(r) : r[i].id = n
    BY ResultsAnswer DEF r, calls
  <2>2. PICK i \in 1..Len(r) : r[i].id = id
    BY <1>1, <2>1
  <2>3. a + i \in DOMAIN p /\ p[a + i].id = id
    BY <1>4, <2>2
  <2>4. a + i \in (a + 1)..(a + Len(r))
    <3>1. a \in Nat /\ Len(r) \in Nat
      BY <1>6
    <3> QED BY <3>1
  <2> QED BY <1>4, <2>3, <2>4
<1>17. C \in SUBSET (1..Len(calls))
  BY <1>1
<1>18. Cardinality(E) \in 1..Cardinality(C)
  <2> HIDE DEF E, C, f
  <2> QED BY <1>1, <1>14, <1>15, <1>16, <1>17, Fewer
<1> QED BY <1>1, <1>18

\* What is declared missing has no answer among the own results.
LEMMA MissingIsSilent ==
  ASSUME NEW m \in Seq(Message), NEW p \in Seq(Entry), Shape(m, p),
         NEW a \in DOMAIN p, p[a].calls # <<>>,
         NEW j \in 1..Len(m), p[a] = Itself(m, j),
         NEW e \in DOMAIN p, InRunOf(p, e, a), p[e].parts = <<Part(0, "missing")>>
  PROVE  \A n \in Own(m, j) : m[n].id # p[e].id
<1> DEFINE calls == m[j].calls
           r == Results(m, j)
           o == Cardinality(Own(m, j))
           s == Cardinality(Silent(m, j))
           own == InOrder(Own(m, j))
           silent == InOrder(Silent(m, j))
<1>1. calls \in Seq(Call) /\ Len(calls) \in Nat
  <2>1. m[j] \in Message
    OBVIOUS
  <2>2. calls \in Seq(Call)
    BY <2>1 DEF Message
  <2>3. Len(calls) \in Nat
    BY <2>2
  <2> QED BY <2>2, <2>3
<1>2. PICK k \in Kept(m) :
        /\ p[a] = Itself(m, k) /\ k \in 1..Len(m)
        /\ \A x \in DOMAIN p : InRunOf(p, x, a) <=> x \in (a + 1)..(a + Len(Results(m, k)))
        /\ \A i \in 1..Len(Results(m, k)) :
             a + i \in DOMAIN p /\ p[a + i] = Results(m, k)[i]
  BY RunIs
<1>3. k = j
  <2>1. Itself(m, k).parts = <<Part(k, "self")>> /\ Itself(m, j).parts = <<Part(j, "self")>>
    BY <1>2, ItselfIs
  <2>2. Part(k, "self") = Part(j, "self")
    BY <1>2, <2>1
  <2> QED BY <2>2 DEF Part
<1>4. e \in (a + 1)..(a + Len(r)) /\ \A i \in 1..Len(r) : p[a + i] = r[i]
  BY <1>2, <1>3
<1>5. /\ o \in Nat /\ s \in Nat /\ Len(r) = o + s
      /\ \A i \in 1..o : r[i] = Itself(m, own[i])
      /\ \A i \in 1..s : r[o + i] = StandIn(calls, silent[i])
      /\ Own(m, j) \in SUBSET (1..Len(m)) /\ Silent(m, j) \in SUBSET (1..Len(calls))
  BY ResultsAre
<1>6. own \in [1..o -> Own(m, j)]
  <2>1. Len(m) \in Nat
    OBVIOUS
  <2> QED BY <1>5, <2>1, InOrderLists
<1>7. silent \in [1..s -> Silent(m, j)]
  <2> HIDE DEF calls
  <2> QED BY <1>1, <1>5, InOrderLists
<1> HIDE DEF own, silent, o, s, r, calls
<1>8. PICK i \in 1..(o + s) : p[e] = r[i]
  <2>1. a \in Nat /\ e \in Nat /\ Len(r) \in Nat
    BY <1>5
  <2>2. e - a \in 1..Len(r) /\ a + (e - a) = e
    BY <1>4, <2>1
  <2>3. p[e] = r[e - a]
    BY <1>4, <2>2
  <2> QED BY <1>5, <2>2, <2>3
<1>9. CASE i <= o
  <2>1. i \in 1..o /\ own[i] \in 1..Len(m)
    BY <1>5, <1>6, <1>9
  <2>2. p[e].parts = <<Part(own[i], "self")>>
    BY <1>5, <1>8, <2>1, ItselfIs
  <2>3. Part(own[i], "self") = Part(0, "missing")
    BY <2>2
  <2>4. own[i] = 0
    BY <2>3 DEF Part
  <2> QED BY <2>1, <2>4
<1>10. CASE ~(i <= o)
  <2>1. i - o \in 1..s /\ o + (i - o) = i
    BY <1>5, <1>10
  <2>2. silent[i - o] \in Silent(m, j) /\ silent[i - o] \in DOMAIN calls
    BY <1>1, <1>5, <1>7, <2>1
  <2>3. p[e].id = calls[silent[i - o]].id
    BY <1>1, <1>5, <1>8, <2>1, <2>2, StandInIs
  <2> QED BY <2>2, <2>3 DEF Silent, calls
<1> QED BY <1>9, <1>10

-----------------------------------------------------------------------------
(* Transcripts that grow *)

Extends(a, m) == Len(a) <= Len(m) /\ \A i \in 1..Len(a) : m[i] = a[i]

\* Where a message other than a tool's comes next, the blocks so far stay as they are.
LEMMA SameBlocks ==
  ASSUME NEW a \in Seq(Message), NEW m \in Seq(Message), Extends(a, m),
         Ends(m, Len(a) + 1), NEW k \in 0..Len(a)
  PROVE  /\ Behind(m, k) = Behind(a, k)
         /\ k # 0 => /\ k \in Kept(m) <=> k \in Kept(a)
                     /\ m[k] = a[k]
                     /\ Block(m, k) = Block(a, k)
<1> DEFINE z == Len(a) + 1
<1>1. /\ Len(a) \in Nat /\ Len(m) \in Nat /\ z \in 1..Len(m) /\ z \in Nat /\ k \in Nat
      /\ \A i \in 1..Len(a) : m[i] = a[i] /\ i \in 1..Len(m)
  BY DEF Extends, Ends
<1>2. z \in Kept(m) /\ m[z].role # "tool"
  BY <1>1 DEF Ends, Said, Kept
<1>3. \A i \in 1..Len(a) : i \in Kept(m) <=> i \in Kept(a)
  BY <1>1 DEF Kept
<1>4. \A i \in Kept(m) : i \in 1..Len(m)
  BY DEF Kept
<1>5. \A i \in Kept(a) : i \in 1..Len(a)
  BY DEF Kept
<1>6. ASSUME NEW n \in Behind(m, k) PROVE n \in 1..Len(a)
  <2>1. n \in Kept(m) /\ n > k /\ n \in 1..Len(m)
    BY <1>4 DEF Behind
  <2>2. n >= z => z \in (k + 1)..n
    BY <1>1, <2>1
  <2>3. ~(n >= z)
    BY <1>2, <2>2 DEF Behind
  <2> QED BY <1>1, <2>1, <2>3
<1>7. ASSUME NEW n \in 1..Len(a) PROVE n \in Behind(m, k) <=> n \in Behind(a, k)
  <2>1. \A i \in (k + 1)..n : i \in 1..Len(a)
    BY <1>1
  <2>2. \A i \in (k + 1)..n : (i \in Kept(m) <=> i \in Kept(a)) /\ m[i] = a[i]
    BY <1>1, <1>3, <2>1
  <2>3. n \in Kept(m) <=> n \in Kept(a)
    BY <1>3
  <2>4. (\A i \in Kept(m) : i \in (k + 1)..n => m[i].role = "tool")
          <=> (\A i \in Kept(a) : i \in (k + 1)..n => a[i].role = "tool")
    BY <2>2
  <2> QED BY <2>3, <2>4 DEF Behind
<1>8. Behind(m, k) = Behind(a, k)
  <2>1. \A n \in Behind(a, k) : n \in 1..Len(a)
    BY <1>5 DEF Behind
  <2> QED BY <1>6, <1>7, <2>1
<1>9. ASSUME k # 0
      PROVE  /\ k \in Kept(m) <=> k \in Kept(a)
             /\ m[k] = a[k]
             /\ Block(m, k) = Block(a, k)
  <2>1. k \in 1..Len(a) /\ k \in 1..Len(m) /\ m[k] = a[k]
    BY <1>1, <1>9
  <2>2. \A n \in Behind(m, k) : n \in 1..Len(a) /\ m[n] = a[n]
    BY <1>1, <1>6
  <2>3. Own(m, k) = Own(a, k)
    BY <1>8, <2>1, <2>2 DEF Own
  <2>4. \A n \in Own(m, k) : n \in 1..Len(a) /\ m[n] = a[n]
    BY <2>2 DEF Own
  <2>5. Silent(m, k) = Silent(a, k)
    BY <2>1, <2>3, <2>4 DEF Silent
  <2>6. \A n \in 1..Len(a) : Itself(m, n) = Itself(a, n)
    BY <1>1 DEF Itself
  <2>7. Results(m, k) = Results(a, k)
    <3> DEFINE own == InOrder(Own(m, k))
               silent == InOrder(Silent(m, k))
    <3>1. DOMAIN own = 1..Cardinality(Own(m, k))
      BY DEF InOrder
    <3>2. \A n \in DOMAIN own : own[n] \in Own(m, k)
      <4>1. Own(m, k) \in SUBSET (1..Len(a))
        BY <2>4
      <4>2. own \in [1..Cardinality(Own(m, k)) -> Own(m, k)]
        BY <1>1, <4>1, InOrderLists
      <4> HIDE DEF own
      <4> QED BY <3>1, <4>2
    <3> HIDE DEF own, silent
    <3>3. \A n \in DOMAIN own : Itself(m, own[n]) = Itself(a, own[n])
      BY <2>4, <2>6, <3>2
    <3>4. [n \in DOMAIN own |-> Itself(m, own[n])] = [n \in DOMAIN own |-> Itself(a, own[n])]
      BY <3>3
    <3>5. Results(m, k) = [n \in DOMAIN own |-> Itself(m, own[n])]
                            \o [n \in DOMAIN silent |-> StandIn(m[k].calls, silent[n])]
      BY DEF Results, own, silent
    <3>6. Results(a, k) = [n \in DOMAIN own |-> Itself(a, own[n])]
                            \o [n \in DOMAIN silent |-> StandIn(a[k].calls, silent[n])]
      BY <2>3, <2>5 DEF Results, own, silent
    <3> QED BY <2>1, <3>4, <3>5, <3>6
  <2>8. Block(m, k) = Block(a, k)
    <3>1. Itself(m, k) = Itself(a, k)
      BY <2>1, <2>6
    <3> QED BY <1>8, <2>3, <2>7, <3>1 DEF Block
  <2> QED BY <1>3, <2>1, <2>8
<1> QED BY <1>8, <1>9

\* ... and so do the payloads.
LEMMA SamePayloads ==
  ASSUME NEW a \in Seq(Message), NEW m \in Seq(Message), Extends(a, m), Ends(m, Len(a) + 1),
         NEW P, NEW Q, PayloadsOf(a, P), PayloadsOf(m, Q)
  PROVE  \A k \in 0..Len(a) : Q[k] = P[k]
<1> DEFINE N == Len(a)
           T == {k \in 0..N : Q[k] = P[k]}
<1>1. N \in Nat /\ Len(m) \in Nat /\ N < Len(m)
  BY DEF Ends
<1>2. 0 \in T
  <2>1. Behind(m, 0) = Behind(a, 0)
    BY <1>1, SameBlocks
  <2>2. Q[0] = P[0]
    BY <2>1 DEF PayloadsOf
  <2> QED BY <1>1, <2>2
<1>3. ASSUME NEW j \in 0..(N - 1), j \in T PROVE j + 1 \in T
  <2> DEFINE k == j + 1
  <2>1. k \in 1..N /\ k \in 0..N /\ k - 1 = j /\ k # 0 /\ k \in 1..Len(m)
    BY <1>1
  <2>2. Q[j] = P[j]
    BY <1>3
  <2> HIDE DEF k
  <2>3. (k \in Kept(m) <=> k \in Kept(a)) /\ m[k] = a[k] /\ Block(m, k) = Block(a, k)
    BY <2>1, SameBlocks
  <2>4. P[k] = IF k \in Kept(a) /\ a[k].role # "tool"
               THEN Joined(P[k - 1], Block(a, k)) ELSE P[k - 1]
    BY <2>1 DEF PayloadsOf
  <2>5. Q[k] = IF k \in Kept(m) /\ m[k].role # "tool"
               THEN Joined(Q[k - 1], Block(m, k)) ELSE Q[k - 1]
    BY <2>1 DEF PayloadsOf
  <2>6. Q[k] = P[k]
    BY <2>1, <2>2, <2>3, <2>4, <2>5
  <2> QED BY <2>1, <2>6 DEF k
<1>4. \A k \in 0..(N - 1) : k \in T => k + 1 \in T
  BY <1>3
<1>5. \A k \in 0..N : k \in T
  <2> HIDE DEF T, N
  <2> QED BY <1>1, <1>2, <1>4, UpTo
<1> QED BY <1>5

\* The assistant's word is where a payload is cut: what comes later leaves what was
\* before it as it is.
LEMMA PrefixKept ==
  ASSUME NEW a \in Seq(Message), NEW m \in Seq(Message), Extends(a, m), Ends(m, Len(a) + 1),
         m[Len(a) + 1].role # "user"
  PROVE  IsPrefix(Sanitized(a), Sanitized(m))
<1> DEFINE p == Sanitized(a)
           N == Len(a)
           M == Len(m)
           z == N + 1
<1>1. PICK P : PayloadsOf(a, P) /\ p = P[N]
  BY SanitizedIs
<1>2. PICK Q : PayloadsOf(m, Q) /\ Sanitized(m) = Q[M]
  BY SanitizedIs
<1>3. N \in Nat /\ M \in Nat /\ z \in 1..M /\ z \in Nat /\ z - 1 = N
  BY DEF Ends
<1>4. Q[N] = p
  BY <1>1, <1>2, <1>3, SamePayloads
<1>5. /\ Q \in [0..M -> Seq(Entry)]
      /\ \A k \in 1..M : Q[k] = IF k \in Kept(m) /\ m[k].role # "tool"
                                THEN Joined(Q[k - 1], Block(m, k)) ELSE Q[k - 1]
  BY <1>2 DEF PayloadsOf
<1>6. p \in Seq(Entry)
  BY SanitizedFits
<1> DEFINE More(q) == q \in Seq(Entry) /\ Len(q) > Len(p) /\ \A i \in 1..Len(p) : q[i] = p[i]
<1>7. ASSUME NEW q \in Seq(Entry), NEW b \in Seq(Entry), Len(b) \in Nat,
             \/ More(q)
             \/ q = p /\ b # <<>> /\ b[1].role # "user"
      PROVE  More(Joined(q, b))
  <2> HIDE DEF p
  <2> DEFINE j == Joined(q, b)
  <2>1. /\ j \in Seq(Entry) /\ Shift(q, b) \in Nat
        /\ Len(j) = Shift(q, b) + Len(b) /\ Len(j) >= Len(q)
        /\ \A i \in 1..Len(q) : ~(Met(q, b) /\ i = Len(q)) => j[i] = q[i]
    BY JoinedIs
  <2>2. Len(p) \in Nat /\ Len(q) \in Nat /\ Len(j) \in Nat
    BY <1>6, <2>1
  <2> HIDE DEF j
  <2>3. CASE More(q)
    <3>1. Len(q) > Len(p) /\ \A i \in 1..Len(p) : q[i] = p[i]
      BY <2>3
    <3>2. Len(j) > Len(p)
      BY <2>1, <2>2, <3>1
    <3>3. ASSUME NEW i \in 1..Len(p) PROVE j[i] = p[i]
      <4>1. i \in 1..Len(q) /\ i # Len(q)
        BY <2>2, <3>1
      <4> QED BY <2>1, <3>1, <4>1
    <3> QED BY <2>1, <3>2, <3>3 DEF j
  <2>4. CASE q = p /\ b # <<>> /\ b[1].role # "user"
    <3>1. ~Met(q, b) /\ Shift(q, b) = Len(q)
      BY <2>4 DEF Met, Shift
    <3>2. Len(b) # 0
      BY <2>4
    <3>3. Len(j) > Len(p)
      BY <1>7, <2>1, <2>2, <2>4, <3>1, <3>2
    <3>4. \A i \in 1..Len(p) : j[i] = p[i]
      BY <2>1, <2>2, <2>4, <3>1
    <3> QED BY <2>1, <3>3, <3>4 DEF j
  <2> QED BY <1>7, <2>3, <2>4
<1>8. ASSUME NEW k \in 1..M, k \in Kept(m), m[k].role # "tool"
      PROVE  Block(m, k) \in Seq(Entry) /\ Len(Block(m, k)) \in Nat /\ Block(m, k) # <<>>
             /\ Block(m, k)[1].role = m[k].role
  <2>1. Block(m, k) \in Seq(Entry) /\ Len(Block(m, k)) >= 1 /\ Block(m, k)[1].role = m[k].role
    BY <1>8, BlockFits
  <2>2. Len(Block(m, k)) \in Nat
    BY <2>1
  <2>3. Block(m, k) # <<>>
    BY <2>1
  <2> QED BY <2>1, <2>2, <2>3
<1> DEFINE T == {i \in 0..(M - z) : More(Q[z + i])}
<1> HIDE DEF p, More
<1>9. 0 \in T
  <2>1. z \in Kept(m) /\ m[z].role # "tool" /\ m[z].role # "user"
    BY <1>3 DEF Ends, Said, Kept
  <2>2. Q[z] = Joined(p, Block(m, z))
    BY <1>3, <1>4, <1>5, <2>1
  <2>3. More(Joined(p, Block(m, z)))
    BY <1>3, <1>6, <1>7, <1>8, <2>1
  <2> QED BY <1>3, <2>2, <2>3
<1>10. ASSUME NEW i \in 0..((M - z) - 1), i \in T PROVE i + 1 \in T
  <2> DEFINE k == z + (i + 1)
  <2>1. k \in 1..M /\ k - 1 = z + i /\ i + 1 \in 0..(M - z) /\ z + i \in 0..M
    BY <1>3
  <2>2. More(Q[z + i]) /\ Q[z + i] \in Seq(Entry)
    BY <1>5, <1>10, <2>1
  <2> HIDE DEF k, z
  <2>3. More(Q[k])
    <3>1. CASE k \in Kept(m) /\ m[k].role # "tool"
      <4>1. Q[k] = Joined(Q[z + i], Block(m, k))
        BY <1>5, <2>1, <3>1
      <4>2. Block(m, k) \in Seq(Entry) /\ Len(Block(m, k)) \in Nat
        BY <1>8, <2>1, <3>1
      <4> QED BY <1>7, <2>2, <4>1, <4>2
    <3>2. CASE ~(k \in Kept(m) /\ m[k].role # "tool")
      <4>1. Q[k] = Q[z + i]
        BY <1>5, <2>1, <3>2
      <4> QED BY <2>2, <4>1
    <3> QED BY <3>1, <3>2
  <2> QED BY <2>1, <2>3 DEF k
<1>11. More(Q[M])
  <2>1. M - z \in Nat /\ z + (M - z) = M
    BY <1>3
  <2>2. \A i \in 0..((M - z) - 1) : i \in T => i + 1 \in T
    BY <1>10
  <2> HIDE DEF T, z, M
  <2>3. \A i \in 0..(M - z) : i \in T
    BY <1>9, <2>1, <2>2, UpTo
  <2>4. M - z \in T
    BY <2>1, <2>3
  <2>5. More(Q[z + (M - z)])
    BY <2>4 DEF T
  <2> QED BY <2>1, <2>5
<1>12. IsPrefix(p, Q[M])
  <2> DEFINE q == Q[M]
  <2>1. q \in Seq(Entry) /\ Len(q) > Len(p) /\ \A i \in 1..Len(p) : q[i] = p[i]
    BY <1>11 DEF More
  <2> HIDE DEF q
  <2>2. PICK n \in Nat : n = Len(p)
    BY <1>6
  <2>3. Len(q) \in Nat /\ n <= Len(q)
    BY <2>1, <2>2
  <2>4. \A i \in 1..n : p[i] \in Entry /\ q[i] \in Entry /\ q[i] = p[i]
    BY <1>6, <2>1, <2>2, <2>3
  <2>5. SubSeq(p, 1, n) \in Seq(Entry) /\ Len(SubSeq(p, 1, n)) = n
        /\ SubSeq(q, 1, n) \in Seq(Entry) /\ Len(SubSeq(q, 1, n)) = n
    BY <2>4, SubSeqProperties
  <2>6. \A i \in 1..n : SubSeq(p, 1, n)[i] = p[i] /\ SubSeq(q, 1, n)[i] = q[i]
    BY <2>4
  <2>7. SubSeq(p, 1, n) = SubSeq(q, 1, n)
    BY <2>4, <2>5, <2>6, SeqEqual
  <2> QED BY <2>2, <2>3, <2>7 DEF IsPrefix, q
<1> QED BY <1>2, <1>12 DEF p

\* A user message that comes last, behind something else, is an entry of its own.
LEMMA TailIs ==
  ASSUME NEW a \in Seq(Message), TailBehind(Sanitized(a))
  PROVE  Sanitized(Append(a, Text("user"))) = Append(Sanitized(a), TailEntry(Len(a) + 1))
<1> DEFINE p == Sanitized(a)
           x == Text("user")
           m == Append(a, x)
           z == Len(a) + 1
<1>1. x \in Message /\ x.role = "user" /\ x.calls = <<>> /\ x.id = NoId /\ x.blank = FALSE
  BY DEF Text, Message, Roles
<1> HIDE DEF x
<1>2. /\ m \in Seq(Message) /\ Len(m) = z /\ m[z] = x /\ \A i \in 1..Len(a) : m[i] = a[i]
      /\ Len(a) \in Nat /\ z \in 1..Len(m)
  BY <1>1
<1> HIDE DEF m
<1>3. Extends(a, m) /\ Ends(m, z)
  BY <1>1, <1>2 DEF Extends, Ends, Said
<1>4. PICK P : PayloadsOf(a, P) /\ p = P[Len(a)]
  BY SanitizedIs
<1>5. PICK Q : PayloadsOf(m, Q) /\ Sanitized(m) = Q[z]
  BY <1>2, SanitizedIs
<1>6. Q[Len(a)] = p
  BY <1>2, <1>3, <1>4, <1>5, SamePayloads
<1>7. z \in Kept(m) /\ m[z].role # "tool"
  BY <1>1, <1>2 DEF Kept
<1>8. Sanitized(m) = Joined(p, Block(m, z))
  <2>1. Q[z] = IF z \in Kept(m) /\ m[z].role # "tool"
               THEN Joined(Q[z - 1], Block(m, z)) ELSE Q[z - 1]
    BY <1>2, <1>5 DEF PayloadsOf
  <2>2. z - 1 = Len(a)
    BY <1>2
  <2> QED BY <1>5, <1>6, <1>7, <2>1, <2>2
<1>9. Itself(m, z) = TailEntry(z)
  BY <1>1, <1>2 DEF Itself, TailEntry
<1>10. Block(m, z) = <<TailEntry(z)>>
  <2>1. Behind(m, z) = {}
    BY <1>2, BehindLast
  <2>2. Own(m, z) = {} /\ Silent(m, z) = {} /\ Behind(m, z) \ Own(m, z) = {}
    BY <1>1, <1>2, <2>1 DEF Own, Silent
  <2>3. Notes({}) = <<>>
    BY DEF Notes
  <2>4. Results(m, z) \in Seq(Entry) /\ Len(Results(m, z)) = 0
    <3>1. Results(m, z) \in Seq(Entry)
          /\ Len(Results(m, z)) = Cardinality(Own(m, z)) + Cardinality(Silent(m, z))
      BY <1>2, ResultsAre
    <3>2. Cardinality(Own(m, z)) = 0 /\ Cardinality(Silent(m, z)) = 0
      BY <2>2, FS_EmptySet
    <3> QED BY <3>1, <3>2
  <2>5. Results(m, z) = <<>>
    BY <2>4, EmptySeq
  <2>6. TailEntry(z) \in Entry
    BY <1>2, <1>9, ItselfIs
  <2>7. <<TailEntry(z)>> \o <<>> = <<TailEntry(z)>>
    <3>1. <<TailEntry(z)>> \in Seq(Entry)
      BY <2>6
    <3> QED BY <3>1, ConcatEmptySeq
  <2>8. Joined(<<TailEntry(z)>>, <<>>) = <<TailEntry(z)>>
    BY <2>7 DEF Joined
  <2> QED BY <1>9, <2>2, <2>3, <2>5, <2>7, <2>8 DEF Block
<1>11. Joined(p, <<TailEntry(z)>>) = p \o <<TailEntry(z)>>
  BY DEF Joined, TailBehind
<1>12. p \o <<TailEntry(z)>> = Append(p, TailEntry(z))
  <2>1. p \in Seq(Entry) /\ TailEntry(z) \in Entry
    BY <1>2, <1>9, ItselfIs, SanitizedFits
  <2> HIDE DEF p, z
  <2> QED BY <2>1
<1> QED BY <1>8, <1>10, <1>11, <1>12 DEF m, x

-----------------------------------------------------------------------------
(* What the loop appends *)

\* Behind the h messages handed over nothing is blank, and what came of each
\* announcement's results is right behind it.
Held(m, h) ==
  \A k \in (h + 1)..Len(m) : Said(m[k]) /\ (m[k].calls # <<>> => Served(m, k))

\* The queue q holds the calls of message a from the one after the c-th on; the results
\* of the first c are right behind it, unless something came in between.
Owed(m, a, q, c) ==
  /\ c \in 0..Len(m[a].calls)
  /\ q = SubSeq(m[a].calls, c + 1, Len(m[a].calls))
  /\ Closed(m, a) \/ (Came(m, a, c) /\ a + c = Len(m))

\* Message a is the last announcement, and its remaining calls are queued.
Pending(m, h, a, q) ==
  /\ a \in (h + 1)..Len(m)
  /\ m[a].calls # <<>>
  /\ \A k \in (a + 1)..Len(m) : m[k].calls = <<>>
  /\ \E c \in Nat : Owed(m, a, q, c)

\* What is closed stays closed.
LEMMA ClosedStays ==
  ASSUME NEW m \in Seq(Message), NEW w \in Seq(Message), Extends(m, w),
         NEW j \in 1..Len(m), Closed(m, j)
  PROVE  Closed(w, j)
<1>1. Len(m) \in Nat /\ Len(w) \in Nat /\ Len(m) <= Len(w) /\ j \in Nat
      /\ w[j] = m[j] /\ \A i \in 1..Len(m) : w[i] = m[i]
  BY DEF Extends
<1>2. PICK n \in 0..Len(m[j].calls) : Came(m, j, n) /\ Ends(m, j + n + 1)
  BY DEF Closed
<1>3. n \in Nat /\ j + n <= Len(m) /\ j + n + 1 <= Len(m)
      /\ \A i \in 1..n : m[j + i] = Answering(m[j].calls[i].id)
  <2>1. m[j] \in Message
    OBVIOUS
  <2>2. m[j].calls \in Seq(Call)
    BY <2>1 DEF Message
  <2>3. Len(m[j].calls) \in Nat
    BY <2>2
  <2>4. n \in Nat
    BY <2>3
  <2>5. j + n <= Len(m) /\ \A i \in 1..n : m[j + i] = Answering(m[j].calls[i].id)
    BY <1>2 DEF Came
  <2>6. j + n + 1 <= Len(m)
    BY <1>2 DEF Ends
  <2> QED BY <2>4, <2>5, <2>6
<1>4. Came(w, j, n)
  <2>1. \A i \in 1..n : w[j + i] = Answering(w[j].calls[i].id)
    <3>1. \A i \in 1..n : j + i \in 1..Len(m)
      BY <1>1, <1>3
    <3>2. \A i \in 1..n : w[j + i] = m[j + i]
      BY <1>1, <3>1
    <3> QED BY <1>1, <1>3, <3>2
  <2>2. n \in 0..Len(w[j].calls)
    BY <1>1
  <2>3. j + n <= Len(w)
    BY <1>1, <1>3
  <2> QED BY <2>1, <2>2, <2>3 DEF Came
<1>5. Ends(w, j + n + 1)
  <2>1. w[j + n + 1] = m[j + n + 1] /\ j + n + 1 <= Len(w)
    BY <1>1, <1>3
  <2> QED BY <1>2, <2>1 DEF Ends
<1> QED BY <1>1, <1>2, <1>4, <1>5 DEF Closed

\* What was served is closed by the next message that is not a tool's.
LEMMA ServedCloses ==
  ASSUME NEW m \in Seq(Message), NEW w \in Seq(Message), Extends(m, w), Ends(w, Len(m) + 1),
         NEW j \in 1..Len(m), Served(m, j)
  PROVE  Closed(w, j)
<1>1. Len(m) \in Nat /\ Len(w) \in Nat /\ Len(m) <= Len(w) /\ j \in Nat
      /\ w[j] = m[j] /\ \A i \in 1..Len(m) : w[i] = m[i]
  BY DEF Extends
<1>2. CASE Closed(m, j)
  BY <1>2, ClosedStays
<1>3. ASSUME NEW n \in 0..Len(m[j].calls), Came(m, j, n), j + n = Len(m)
      PROVE  Closed(w, j)
  <2>1. n \in Nat /\ \A i \in 1..n : m[j + i] = Answering(m[j].calls[i].id)
    <3>1. m[j] \in Message
      OBVIOUS
    <3>2. m[j].calls \in Seq(Call)
      BY <3>1 DEF Message
    <3>3. Len(m[j].calls) \in Nat
      BY <3>2
    <3> QED BY <1>3, <3>3 DEF Came
  <2>2. Came(w, j, n)
    <3>1. \A i \in 1..n : w[j + i] = Answering(w[j].calls[i].id)
      BY <1>1, <1>3, <2>1
    <3> QED BY <1>1, <1>3, <3>1 DEF Came
  <2>3. Ends(w, j + n + 1)
    BY <1>3
  <2> QED BY <1>1, <1>3, <2>2, <2>3 DEF Closed
<1> QED BY <1>2, <1>3 DEF Served

\* A message that is not a tool's may be appended at any time.
LEMMA HeldAppend ==
  ASSUME NEW m \in Seq(Message), NEW h \in Nat, Held(m, h),
         NEW x \in Message, x.role # "tool", Said(x)
  PROVE  LET w == Append(m, x)
         IN  /\ w \in Seq(Message) /\ Len(w) = Len(m) + 1 /\ Extends(m, w) /\ w[Len(m) + 1] = x
             /\ Ends(w, Len(m) + 1)
             /\ Held(w, h)
             /\ \A j \in 1..Len(m) : Served(m, j) => Closed(w, j)
<1> DEFINE w == Append(m, x)
<1>1. /\ w \in Seq(Message) /\ Len(w) = Len(m) + 1 /\ w[Len(m) + 1] = x
      /\ \A i \in 1..Len(m) : w[i] = m[i]
      /\ Len(m) \in Nat
  OBVIOUS
<1> HIDE DEF w
<1>2. Extends(m, w) /\ Ends(w, Len(m) + 1)
  BY <1>1 DEF Extends, Ends
<1>3. \A j \in 1..Len(m) : Served(m, j) => Closed(w, j)
  BY <1>1, <1>2, ServedCloses
<1>4. ASSUME NEW k \in (h + 1)..Len(w)
      PROVE  Said(w[k]) /\ (w[k].calls # <<>> => Served(w, k))
  <2>1. CASE k \in 1..Len(m)
    <3>1. k \in (h + 1)..Len(m)
      BY <1>1, <2>1
    <3>2. w[k] = m[k] /\ Said(m[k]) /\ (m[k].calls # <<>> => Served(m, k))
      BY <1>1, <2>1, <3>1 DEF Held
    <3> QED BY <1>3, <2>1, <3>2 DEF Served
  <2>2. CASE k = Len(m) + 1
    <3>1. w[k] = x /\ k + 0 = Len(w)
      BY <1>1, <2>2
    <3>2. Len(w[k].calls) \in Nat
      <4>1. w[k].calls \in Seq(Call)
        BY <3>1 DEF Message
      <4> QED BY <4>1
    <3>3. Came(w, k, 0) /\ 0 \in 0..Len(w[k].calls)
      BY <1>1, <3>1, <3>2 DEF Came
    <3> QED BY <3>1, <3>3 DEF Served
  <2> QED BY <1>1, <2>1, <2>2
<1> QED BY <1>1, <1>2, <1>3, <1>4 DEF Held, w

\* With a message appended, the last announcement is still the last, and closed.
LEMMA PendingAppend ==
  ASSUME NEW m \in Seq(Message), NEW h \in Nat, Held(m, h), NEW a, NEW q, Pending(m, h, a, q),
         NEW x \in Message, x.role # "tool", Said(x), x.calls = <<>>
  PROVE  Pending(Append(m, x), h, a, q)
<1> DEFINE w == Append(m, x)
<1>1. /\ w \in Seq(Message) /\ Len(w) = Len(m) + 1 /\ w[Len(m) + 1] = x /\ Extends(m, w)
      /\ \A j \in 1..Len(m) : Served(m, j) => Closed(w, j)
  BY HeldAppend
<1>2. Len(m) \in Nat
  OBVIOUS
<1> HIDE DEF w
<1>3. a \in (h + 1)..Len(m) /\ a \in 1..Len(m) /\ m[a].calls # <<>> /\ w[a] = m[a]
      /\ \A k \in 1..Len(m) : w[k] = m[k]
  BY <1>1, <1>2 DEF Pending, Extends
<1>4. Closed(w, a)
  BY <1>1, <1>3 DEF Held
<1>5. \A k \in (a + 1)..Len(w) : w[k].calls = <<>>
  <2>1. \A k \in (a + 1)..Len(w) : k = Len(m) + 1 \/ (k \in (a + 1)..Len(m) /\ k \in 1..Len(m))
    BY <1>1, <1>2, <1>3
  <2> QED BY <1>1, <1>3, <2>1 DEF Pending
<1>6. PICK c \in Nat : Owed(m, a, q, c)
  BY DEF Pending
<1>7. Owed(w, a, q, c)
  BY <1>3, <1>4, <1>6 DEF Owed
<1>8. a \in (h + 1)..Len(w)
  BY <1>1, <1>2, <1>3
<1> QED BY <1>3, <1>5, <1>7, <1>8 DEF Pending, w

\* A call of message j with this id has come back.
Back(m, j, id) ==
  \E c \in 0..Len(m[j].calls) : Came(m, j, c) /\ \E i \in 1..c : m[j].calls[i].id = id

\* As long as all that follows an announcement is its results, it is not closed.
LEMMA AllCame ==
  ASSUME NEW m \in Seq(Message), NEW j \in 1..Len(m), NEW c, Came(m, j, c), j + c = Len(m)
  PROVE  ~Closed(m, j)
<1> SUFFICES ASSUME NEW n \in 0..Len(m[j].calls), Came(m, j, n), Ends(m, j + n + 1) PROVE FALSE
  BY DEF Closed
<1>1. Len(m[j].calls) \in Nat
  <2>1. m[j] \in Message
    OBVIOUS
  <2>2. m[j].calls \in Seq(Call)
    BY <2>1 DEF Message
  <2> QED BY <2>2
<1>2. c \in Nat /\ j \in Nat /\ n \in Nat
  BY <1>1 DEF Came
<1>3. n + 1 \in 1..c /\ j + (n + 1) = j + n + 1
  BY <1>2 DEF Ends
<1>4. m[j + (n + 1)] = Answering(m[j].calls[n + 1].id)
  BY <1>3 DEF Came
<1> QED BY <1>3, <1>4 DEF Ends, Answering

\* What has come back stays.
LEMMA BackStays ==
  ASSUME NEW m \in Seq(Message), NEW w \in Seq(Message), Extends(m, w),
         NEW j \in 1..Len(m), NEW id, Back(m, j, id)
  PROVE  Back(w, j, id)
<1>1. PICK c \in 0..Len(m[j].calls) : Came(m, j, c) /\ \E i \in 1..c : m[j].calls[i].id = id
  BY DEF Back
<1>2. Len(m[j].calls) \in Nat
  <2>1. m[j] \in Message
    OBVIOUS
  <2>2. m[j].calls \in Seq(Call)
    BY <2>1 DEF Message
  <2> QED BY <2>2
<1>3. c \in Nat /\ j \in Nat /\ j + c <= Len(m) /\ w[j] = m[j]
      /\ Len(m) \in Nat /\ Len(w) \in Nat /\ Len(m) <= Len(w)
  BY <1>1, <1>2 DEF Came, Extends
<1>4. \A i \in 1..c : w[j + i] = m[j + i]
  <2>1. \A i \in 1..c : j + i \in 1..Len(m)
    BY <1>3
  <2> QED BY <2>1 DEF Extends
<1>5. Came(w, j, c)
  BY <1>1, <1>3, <1>4 DEF Came
<1> QED BY <1>1, <1>3, <1>5 DEF Back

\* A queue of remaining calls, and what remains of it.
LEMMA Requeued ==
  ASSUME NEW calls \in Seq(Call), NEW c \in 0..Len(calls),
         NEW q, q = SubSeq(calls, c + 1, Len(calls)), NEW n \in 0..Len(q)
  PROVE  /\ q \in Seq(Call) /\ Len(q) = Len(calls) - c
         /\ \A i \in 1..Len(q) : q[i] = calls[c + i]
         /\ c + n \in 0..Len(calls)
         /\ SubSeq(q, n + 1, Len(q)) = SubSeq(calls, c + n + 1, Len(calls))
<1>1. Len(calls) \in Nat /\ c \in Nat /\ c <= Len(calls)
  OBVIOUS
<1>2. PICK l \in Nat : l = Len(calls) - c
  BY <1>1
<1>3. \A i \in (c + 1)..Len(calls) : calls[i] \in Call
  BY <1>1
<1>4. q \in Seq(Call) /\ Len(q) = l /\ \A i \in 1..l : q[i] = calls[c + i]
  <2>1. q \in Seq(Call) /\ Len(q) = IF c + 1 <= Len(calls) THEN Len(calls) - (c + 1) + 1 ELSE 0
    BY <1>1, <1>3, SubSeqProperties
  <2>2. Len(q) = l
    BY <1>1, <1>2, <2>1
  <2>3. \A i \in 1..(Len(calls) - (c + 1) + 1) : q[i] = calls[(c + 1) + i - 1]
    BY <1>1, <1>3, SubSeqProperties
  <2>4. \A i \in 1..l : q[i] = calls[c + i]
    <3>1. \A i \in 1..l : i \in 1..(Len(calls) - (c + 1) + 1) /\ (c + 1) + i - 1 = c + i
      BY <1>1, <1>2
    <3> QED BY <2>3, <3>1
  <2> QED BY <2>1, <2>2, <2>4
<1>5. n \in Nat /\ n <= l /\ c + n \in 0..Len(calls)
  BY <1>1, <1>2, <1>4
<1> DEFINE s == SubSeq(q, n + 1, l)
           t == SubSeq(calls, c + n + 1, Len(calls))
<1>6. s \in Seq(Call) /\ Len(s) = l - n /\ \A i \in 1..(l - n) : s[i] = q[n + i]
  <2>1. \A i \in (n + 1)..l : q[i] \in Call
    <3>1. \A i \in (n + 1)..l : i \in 1..Len(q)
      BY <1>4, <1>5
    <3>2. \A i \in 1..Len(q) : q[i] \in Call
      BY <1>4
    <3> QED BY <3>1, <3>2
  <2>2. s \in Seq(Call) /\ Len(s) = IF n + 1 <= l THEN l - (n + 1) + 1 ELSE 0
    BY <1>2, <1>5, <2>1, SubSeqProperties
  <2>3. \A i \in 1..(l - (n + 1) + 1) : s[i] = q[(n + 1) + i - 1]
    BY <1>2, <1>5, <2>1, SubSeqProperties
  <2>4. \A i \in 1..(l - n) : s[i] = q[n + i]
    <3>1. \A i \in 1..(l - n) : i \in 1..(l - (n + 1) + 1) /\ (n + 1) + i - 1 = n + i
      BY <1>2, <1>5
    <3> QED BY <2>3, <3>1
  <2>5. Len(s) = l - n
    BY <1>2, <1>5, <2>2
  <2> QED BY <2>2, <2>4, <2>5
<1>7. t \in Seq(Call) /\ Len(t) = l - n /\ \A i \in 1..(l - n) : t[i] = calls[c + n + i]
  <2>1. \A i \in (c + n + 1)..Len(calls) : calls[i] \in Call
    BY <1>1, <1>5
  <2> DEFINE f == c + n + 1
  <2>2. f \in Int /\ Len(calls) \in Int
    BY <1>1, <1>5
  <2>3. t = SubSeq(calls, f, Len(calls)) /\ \A i \in f..Len(calls) : calls[i] \in Call
    BY <2>1
  <2> HIDE DEF f, t
  <2>4. t \in Seq(Call)
        /\ Len(t) = (IF f <= Len(calls) THEN Len(calls) - f + 1 ELSE 0)
        /\ \A i \in 1..(Len(calls) - f + 1) : t[i] = calls[f + i - 1]
    BY <2>2, <2>3, SubSeqProperties
  <2>5. t \in Seq(Call)
        /\ Len(t) = IF c + n + 1 <= Len(calls) THEN Len(calls) - (c + n + 1) + 1 ELSE 0
    BY <2>4 DEF f
  <2>6. \A i \in 1..(Len(calls) - (c + n + 1) + 1) : t[i] = calls[(c + n + 1) + i - 1]
    BY <2>4 DEF f
  <2>7. \A i \in 1..(l - n) : t[i] = calls[c + n + i]
    <3>1. \A i \in 1..(l - n) : i \in 1..(Len(calls) - (c + n + 1) + 1)
                                /\ (c + n + 1) + i - 1 = c + n + i
      BY <1>1, <1>2, <1>5
    <3> QED BY <2>6, <3>1
  <2>8. Len(t) = l - n
    BY <1>1, <1>2, <1>5, <2>5
  <2> QED BY <2>5, <2>7, <2>8
<1>8. \A i \in 1..(l - n) : s[i] = t[i]
  <2>1. \A i \in 1..(l - n) : n + i \in 1..l /\ c + (n + i) = c + n + i
    BY <1>1, <1>2, <1>5
  <2> QED BY <1>4, <1>6, <1>7, <2>1
<1> HIDE DEF s, t
<1>9. s = t
  BY <1>6, <1>7, <1>8, SeqEqual
<1> QED BY <1>2, <1>4, <1>5, <1>9 DEF s, t

\* Results come in the order of the queue.
LEMMA PendingResults ==
  ASSUME NEW m \in Seq(Message), NEW h \in Nat, Held(m, h), NEW a, NEW q, Pending(m, h, a, q),
         NEW n \in 1..Len(q)
  PROVE  LET w == m \o [k \in 1..n |-> Answering(q[k].id)]
         IN  /\ w \in Seq(Message) /\ Len(w) = Len(m) + n /\ Extends(m, w)
             /\ q \in Seq(Call)
             /\ Held(w, h)
             /\ Pending(w, h, a, SubSeq(q, n + 1, Len(q)))
             /\ ~Closed(m, a) => ~Closed(w, a) /\ \A k \in 1..n : Back(w, a, q[k].id)
<1> DEFINE r == [k \in 1..n |-> Answering(q[k].id)]
           w == m \o r
           calls == m[a].calls
<1>1. /\ a \in 1..Len(m) /\ a \in (h + 1)..Len(m) /\ a \in Nat /\ calls # <<>>
      /\ \A k \in (a + 1)..Len(m) : m[k].calls = <<>>
      /\ Len(m) \in Nat
  BY DEF Pending
<1>2. calls \in Seq(Call) /\ Len(calls) \in Nat
  <2>1. m[a] \in Message
    BY <1>1
  <2>2. calls \in Seq(Call)
    BY <2>1 DEF Message
  <2>3. Len(calls) \in Nat
    BY <2>2
  <2> QED BY <2>2, <2>3
<1>3. PICK c \in Nat : Owed(m, a, q, c)
  BY DEF Pending
<1>4. c \in 0..Len(calls) /\ q = SubSeq(calls, c + 1, Len(calls))
      /\ (Closed(m, a) \/ (Came(m, a, c) /\ a + c = Len(m)))
  BY <1>3 DEF Owed
<1>5. q \in Seq(Call) /\ Len(q) = Len(calls) - c /\ \A i \in 1..Len(q) : q[i] = calls[c + i]
  <2>1. 0 \in 0..Len(q)
    <3>1. Len(q) \in Nat
      <4>1. \A i \in (c + 1)..Len(calls) : calls[i] \in Call
        BY <1>2
      <4>2. q \in Seq(Call)
        BY <1>2, <1>4, <4>1, SubSeqProperties
      <4> QED BY <4>2
    <3> QED BY <3>1
  <2> HIDE DEF calls
  <2> QED BY <1>2, <1>4, <2>1, Requeued
<1>6. n \in Nat /\ n \in 0..Len(q) /\ n <= Len(q) /\ Len(q) \in Nat
  BY <1>5
<1>7. c + n \in 0..Len(calls)
      /\ SubSeq(q, n + 1, Len(q)) = SubSeq(calls, c + n + 1, Len(calls))
  <2> HIDE DEF calls
  <2> QED BY <1>2, <1>4, <1>6, Requeued
<1>8. \A k \in 1..n : q[k] \in Call /\ q[k] = calls[c + k] /\ q[k].id \in CallIds
  <2>1. \A k \in 1..n : k \in 1..Len(q)
    BY <1>6
  <2>2. \A k \in 1..n : q[k] \in Call /\ q[k] = calls[c + k]
    BY <1>5, <2>1
  <2> QED BY <2>2 DEF Call
<1>9. \A k \in 1..n : /\ Answering(q[k].id) \in Message /\ Said(Answering(q[k].id))
                      /\ Answering(q[k].id).calls = <<>>
  BY <1>8 DEF Answering, Message, Roles, Said
<1>10. r \in Seq(Message) /\ Len(r) = n /\ \A k \in 1..n : r[k] = Answering(q[k].id)
  BY <1>6, <1>9
<1> HIDE DEF r
<1>11. /\ w \in Seq(Message) /\ Len(w) = Len(m) + n
       /\ \A i \in 1..(Len(m) + n) : w[i] = IF i <= Len(m) THEN m[i] ELSE r[i - Len(m)]
  BY <1>10, ConcatProperties
<1> HIDE DEF w
<1>12. \A i \in 1..Len(m) : w[i] = m[i]
  BY <1>1, <1>6, <1>11
<1>13. \A k \in 1..n : w[Len(m) + k] = Answering(q[k].id)
  <2>1. \A k \in 1..n : /\ Len(m) + k \in 1..(Len(m) + n) /\ ~(Len(m) + k <= Len(m))
                        /\ (Len(m) + k) - Len(m) = k
    BY <1>1, <1>6
  <2> QED BY <1>10, <1>11, <2>1
<1>14. Extends(m, w)
  BY <1>1, <1>6, <1>11, <1>12 DEF Extends
<1>15. w[a].calls = calls
  BY <1>1, <1>12
<1>16. ASSUME Came(m, a, c), a + c = Len(m)
       PROVE  Came(w, a, c + n) /\ a + (c + n) = Len(w)
  <2>1. a + (c + n) = Len(w) /\ c \in Nat
    <3>1. Len(w) = (a + c) + n /\ a \in Nat /\ c \in Nat /\ n \in Nat
      BY <1>1, <1>6, <1>11, <1>16
    <3> QED BY <3>1
  <2>2. ASSUME NEW i \in 1..(c + n) PROVE w[a + i] = Answering(calls[i].id)
    <3>1. CASE i <= c
      <4>1. i \in 1..c /\ a + i \in 1..Len(m)
        BY <1>1, <1>16, <2>1, <3>1
      <4> QED BY <1>12, <1>16, <4>1 DEF Came
    <3>2. CASE ~(i <= c)
      <4>1. i - c \in 1..n /\ a + i = Len(m) + (i - c) /\ c + (i - c) = i
        BY <1>1, <1>6, <1>16, <2>1, <3>2
      <4> QED BY <1>8, <1>13, <4>1
    <3> QED BY <3>1, <3>2
  <2>3. a + (c + n) <= Len(w)
    BY <1>1, <1>6, <1>11, <2>1
  <2> HIDE DEF calls
  <2>4. Came(w, a, c + n)
    BY <1>7, <1>15, <2>2, <2>3 DEF Came
  <2> QED BY <2>1, <2>4
<1>21. ASSUME ~Closed(m, a)
       PROVE  ~Closed(w, a) /\ \A k \in 1..n : Back(w, a, q[k].id)
  <2>1. Came(w, a, c + n) /\ a + (c + n) = Len(w)
    BY <1>4, <1>16, <1>21
  <2>2. a \in 1..Len(w)
    BY <1>1, <1>6, <1>11
  <2>3. ~Closed(w, a)
    BY <1>7, <1>11, <2>1, <2>2, AllCame
  <2>4. ASSUME NEW k \in 1..n PROVE Back(w, a, q[k].id)
    <3>1. c + k \in 1..(c + n) /\ w[a].calls[c + k].id = q[k].id
      BY <1>6, <1>8, <1>15
    <3>2. c + n \in 0..Len(w[a].calls)
      BY <1>7, <1>15
    <3> HIDE DEF calls
    <3> QED BY <2>1, <3>1, <3>2 DEF Back
  <2> QED BY <2>3, <2>4
<1>22. Closed(w, a) \/ (Came(w, a, c + n) /\ a + (c + n) = Len(w))
  <2>1. CASE Closed(m, a)
    BY <1>1, <1>11, <1>14, <2>1, ClosedStays
  <2> QED BY <1>4, <1>16, <2>1
<1>17. Owed(w, a, SubSeq(q, n + 1, Len(q)), c + n)
  <2> HIDE DEF calls
  <2> QED BY <1>7, <1>15, <1>22 DEF Owed
<1>18. Pending(w, h, a, SubSeq(q, n + 1, Len(q)))
  <2>1. a \in (h + 1)..Len(w) /\ w[a].calls # <<>>
    BY <1>1, <1>6, <1>11, <1>15
  <2>2. ASSUME NEW k \in (a + 1)..Len(w) PROVE w[k].calls = <<>>
    <3>1. CASE k <= Len(m)
      <4>1. k \in (a + 1)..Len(m) /\ k \in 1..Len(m)
        BY <1>1, <3>1
      <4> QED BY <1>1, <1>12, <4>1
    <3>2. CASE ~(k <= Len(m))
      <4>1. k - Len(m) \in 1..n /\ Len(m) + (k - Len(m)) = k
        BY <1>1, <1>6, <1>11, <3>2
      <4> QED BY <1>9, <1>13, <4>1
    <3> QED BY <3>1, <3>2
  <2>3. c + n \in Nat
    BY <1>6
  <2> QED BY <1>17, <2>1, <2>2, <2>3 DEF Pending
<1>19. ASSUME NEW k \in (h + 1)..Len(w)
       PROVE  Said(w[k]) /\ (w[k].calls # <<>> => Served(w, k))
  <2>1. CASE k <= Len(m)
    <3>1. k \in (h + 1)..Len(m) /\ k \in 1..Len(m) /\ w[k] = m[k]
      BY <1>1, <1>12, <2>1
    <3>2. Said(w[k])
      BY <3>1 DEF Held
    <3>3. ASSUME m[k].calls # <<>> PROVE Served(w, k)
      <4>1. CASE k = a
        <5>1. w[k].calls = calls
          BY <1>15, <4>1
        <5>2. CASE Closed(w, a)
          BY <4>1, <5>2 DEF Served
        <5>3. CASE Came(w, a, c + n) /\ a + (c + n) = Len(w)
          <6> HIDE DEF calls
          <6> QED BY <1>7, <4>1, <5>1, <5>3 DEF Served
        <5> QED BY <1>22, <5>2, <5>3
      <4>2. CASE k # a
        <5>1. k < a
          BY <1>1, <3>1, <3>3, <4>2
        <5>2. Served(m, k)
          BY <3>1, <3>3 DEF Held
        <5>3. ASSUME NEW i \in 0..Len(m[k].calls), Came(m, k, i), k + i = Len(m) PROVE FALSE
          <6>1. Len(m[k].calls) \in Nat
            <7>1. m[k] \in Message
              BY <3>1
            <7>2. m[k].calls \in Seq(Call)
              BY <7>1 DEF Message
            <7> QED BY <7>2
          <6>2. a - k \in 1..i /\ k + (a - k) = a
            BY <1>1, <3>1, <5>1, <5>3, <6>1
          <6>3. m[a] = Answering(m[k].calls[a - k].id)
            BY <5>3, <6>2 DEF Came
          <6>4. m[a].calls = <<>>
            BY <6>3 DEF Answering
          <6> QED BY <1>1, <6>4
        <5>4. Closed(m, k)
          BY <5>2, <5>3 DEF Served
        <5>5. Closed(w, k)
          BY <1>11, <1>14, <3>1, <5>4, ClosedStays
        <5> QED BY <5>5 DEF Served
      <4> QED BY <4>1, <4>2
    <3> QED BY <3>1, <3>2, <3>3
  <2>2. CASE ~(k <= Len(m))
    <3>1. k - Len(m) \in 1..n /\ Len(m) + (k - Len(m)) = k
      BY <1>1, <1>6, <1>11, <2>2
    <3> QED BY <1>9, <1>13, <3>1
  <2> QED BY <2>1, <2>2
<1>20. Held(w, h)
  BY <1>19 DEF Held
<1> QED BY <1>5, <1>11, <1>14, <1>18, <1>20, <1>21 DEF w, r

\* The first messages of a transcript.
LEMMA CutIs ==
  ASSUME NEW m \in Seq(Message), NEW n \in 0..Len(m)
  PROVE  /\ SubSeq(m, 1, n) \in Seq(Message) /\ Len(SubSeq(m, 1, n)) = n
         /\ \A i \in 1..n : SubSeq(m, 1, n)[i] = m[i]
         /\ Extends(SubSeq(m, 1, n), m)
<1>1. Len(m) \in Nat /\ n \in Nat /\ n <= Len(m)
  OBVIOUS
<1>2. \A i \in 1..n : m[i] \in Message
  BY <1>1
<1> DEFINE s == SubSeq(m, 1, n)
<1>3. s \in Seq(Message) /\ Len(s) = n
  BY <1>1, <1>2, SubSeqProperties
<1>4. \A i \in 1..n : s[i] = m[i]
  BY <1>1, <1>2
<1> HIDE DEF s
<1> QED BY <1>1, <1>3, <1>4 DEF Extends, s

\* ... stay the first ones.
LEMMA CutSame ==
  ASSUME NEW m \in Seq(Message), NEW w \in Seq(Message), Extends(m, w), NEW n \in 0..Len(m)
  PROVE  SubSeq(w, 1, n) = SubSeq(m, 1, n) /\ n \in 0..Len(w)
<1>1. Len(m) \in Nat /\ Len(w) \in Nat /\ Len(m) <= Len(w) /\ n \in 0..Len(w)
      /\ \A i \in 1..n : w[i] = m[i]
  BY DEF Extends
<1> DEFINE s == SubSeq(m, 1, n)
           t == SubSeq(w, 1, n)
<1>2. s \in Seq(Message) /\ Len(s) = n /\ \A i \in 1..n : s[i] = m[i]
  BY CutIs
<1>3. t \in Seq(Message) /\ Len(t) = n /\ \A i \in 1..n : t[i] = w[i]
  BY <1>1, CutIs
<1> HIDE DEF s, t
<1>4. s = t
  BY <1>1, <1>2, <1>3, SeqEqual
<1> QED BY <1>1, <1>4 DEF s, t

\* What extends an extension extends what was extended.
LEMMA ExtendsTwice ==
  ASSUME NEW a \in Seq(Message), NEW b \in Seq(Message), NEW c \in Seq(Message),
         Extends(a, b), Extends(b, c)
  PROVE  Extends(a, c)
<1>1. Len(a) \in Nat /\ Len(b) \in Nat /\ Len(c) \in Nat /\ Len(a) <= Len(b) /\ Len(b) <= Len(c)
  BY DEF Extends
<1>2. \A i \in 1..Len(a) : i \in 1..Len(b)
  BY <1>1
<1> QED BY <1>1, <1>2 DEF Extends

\* What the user, the host or the assistant says.
LEMMA TextIs ==
  ASSUME NEW role \in {"user", "assistant", "system"}
  PROVE  /\ Text(role) \in Message /\ Text(role).role = role /\ role # "tool"
         /\ Said(Text(role)) /\ Text(role).calls = <<>>
BY DEF Text, Message, Roles, Said

\* What a batch announces.
LEMMA AnnouncingIs ==
  ASSUME NEW batch \in Batches, NEW blank \in BOOLEAN
  PROVE  LET calls == Stamped(batch)
             x == Announcing(calls, blank)
         IN  /\ calls \in Seq(Call) /\ calls # <<>>
             /\ Len(calls) = Len(batch) /\ \A k \in 1..Len(batch) : calls[k].name = batch[k].name
             /\ x \in Message /\ x.role = "assistant" /\ Said(x) /\ x.calls = calls
<1> DEFINE calls == Stamped(batch)
           x == Announcing(calls, blank)
           Raw == [id : CallIds \union {NoId}, name : STRING]
<1>1. batch \in Seq(Raw) /\ batch # <<>> /\ DOMAIN batch \subseteq CallIds /\ NoId \notin CallIds
  BY TranscriptAssumption
<1>2. Len(batch) \in Nat \ {0} /\ DOMAIN batch = 1..Len(batch)
  BY <1>1
<1>3. ASSUME NEW k \in 1..Len(batch)
      PROVE  calls[k] \in Call /\ calls[k].name = batch[k].name
  <2>1. batch[k] \in Raw /\ k \in CallIds /\ k \in DOMAIN batch
    <3>1. k \in DOMAIN batch
      BY <1>2
    <3>2. batch[k] \in Raw
      <4> HIDE DEF Raw
      <4> QED BY <1>1
    <3> QED BY <1>1, <3>1, <3>2
  <2>2. calls[k] = IF batch[k].id = NoId THEN [batch[k] EXCEPT !.id = k] ELSE batch[k]
    BY <2>1 DEF Stamped
  <2>3. CASE batch[k].id = NoId
    <3>1. calls[k] = [batch[k] EXCEPT !.id = k]
      BY <2>2, <2>3
    <3> HIDE DEF calls
    <3> QED BY <2>1, <3>1 DEF Call
  <2>4. CASE batch[k].id # NoId
    <3>1. calls[k] = batch[k]
      BY <2>2, <2>4
    <3> HIDE DEF calls
    <3> QED BY <2>1, <2>4, <3>1 DEF Call
  <2> QED BY <2>3, <2>4
<1>4. calls \in Seq(Call) /\ Len(calls) = Len(batch)
  <2>1. DOMAIN calls = 1..Len(batch)
    BY <1>2 DEF Stamped
  <2>2. calls = [k \in 1..Len(batch) |-> calls[k]]
    BY <1>2, <2>1 DEF Stamped
  <2> HIDE DEF calls
  <2> QED BY <1>2, <1>3, <2>1, <2>2
<1> HIDE DEF calls
<1>5. calls # <<>>
  BY <1>2, <1>4
<1>6. x \in Message /\ x.role = "assistant" /\ Said(x) /\ x.calls = calls
  BY <1>4, <1>5 DEF Announcing, Message, Roles, Said
<1> QED BY <1>3, <1>4, <1>5, <1>6 DEF calls

\* The first message of all payloads that are empty.
LEMMA SanitizedNothing == Sanitized(<<>>) = <<>>
<1>1. <<>> \in Seq(Message) /\ Len(<<>>) = 0
  OBVIOUS
<1>2. PICK P : PayloadsOf(<<>>, P) /\ Sanitized(<<>>) = P[Len(<<>>)]
  BY <1>1, SanitizedIs
<1>3. P[0] = Notes(Behind(<<>>, 0))
  BY <1>2 DEF PayloadsOf
<1>4. Behind(<<>>, 0) = {}
  BY <1>1, BehindLast
<1> QED BY <1>1, <1>2, <1>3, <1>4 DEF Notes

-----------------------------------------------------------------------------
(* The history window *)

\* How far the window moves the messages it keeps.
Off(c) == IF c = 0 THEN 0 ELSE c - 1

\* Place k of the window is the notice.
Notice(c, k) == c > 0 /\ k = 1

\* The messages of a window: the notice, if any, and what it keeps.
LEMMA WindowIs ==
  ASSUME NEW m \in Seq(Message), NEW c \in 0..Len(m)
  PROVE  /\ Windowed(m, c) \in Seq(Message)
         /\ Len(Windowed(m, c)) = Len(m) - Off(c) /\ Off(c) \in Nat
         /\ \A k \in 1..Len(Windowed(m, c)) :
              /\ Place(c, k) = k + Off(c) /\ Place(c, k) \in 1..Len(m)
              /\ Windowed(m, c)[k] = IF Notice(c, k) THEN Text("user") ELSE m[Place(c, k)]
<1>1. Len(m) \in Nat /\ c \in Nat /\ c <= Len(m)
  OBVIOUS
<1>2. CASE c = 0
  <2>1. Windowed(m, c) = m /\ Off(c) = 0
    BY <1>2 DEF Windowed, Off
  <2>2. \A k \in 1..Len(m) : Place(c, k) = k /\ k = k + 0
    BY <1>1, <1>2 DEF Place
  <2>3. \A k \in 1..Len(m) : (IF Notice(c, k) THEN Text("user") ELSE m[Place(c, k)]) = m[k]
    BY <1>1, <1>2, <2>2 DEF Notice
  <2> QED BY <1>1, <2>1, <2>2, <2>3
<1>3. CASE c # 0
  <2> DEFINE u == <<Text("user")>>
             t == SubSeq(m, c + 1, Len(m))
             w == u \o t
  <2>1. Windowed(m, c) = w /\ Off(c) = c - 1
    BY <1>3 DEF Windowed, Off
  <2>2. Text("user") \in Message
    BY TextIs
  <2>3. u \in Seq(Message) /\ Len(u) = 1 /\ u[1] = Text("user")
    BY <2>2
  <2>4. \A k \in (c + 1)..Len(m) : m[k] \in Message
    BY <1>1
  <2>5. t \in Seq(Message) /\ Len(t) = Len(m) - c
        /\ \A k \in 1..(Len(m) - c) : t[k] = m[c + k]
    <3>1. t \in Seq(Message)
          /\ Len(t) = (IF c + 1 <= Len(m) THEN Len(m) - (c + 1) + 1 ELSE 0)
          /\ \A k \in 1..(Len(m) - (c + 1) + 1) : t[k] = m[(c + 1) + k - 1]
      BY <1>1, <2>4, SubSeqProperties
    <3>2. Len(t) = Len(m) - c
      BY <1>1, <3>1
    <3>3. \A k \in 1..(Len(m) - c) : (c + 1) + k - 1 = c + k
                                    /\ k \in 1..(Len(m) - (c + 1) + 1)
      BY <1>1
    <3> HIDE DEF t
    <3> QED BY <3>1, <3>2, <3>3
  <2> HIDE DEF u, t
  <2>6. w \in Seq(Message) /\ Len(w) = 1 + Len(t)
        /\ \A k \in 1..(1 + Len(t)) : w[k] = IF k <= 1 THEN u[k] ELSE t[k - 1]
    <3>1. /\ u \o t \in Seq(Message) /\ Len(u \o t) = Len(u) + Len(t)
          /\ \A k \in 1..(Len(u) + Len(t)) :
               (u \o t)[k] = IF k <= Len(u) THEN u[k] ELSE t[k - Len(u)]
      <4>1. u \in Seq(Message) /\ t \in Seq(Message)
        BY <2>3, <2>5
      <4> QED BY <4>1, ConcatProperties
    <3> QED BY <2>3, <3>1
  <2> HIDE DEF w
  <2>7. Len(w) = Len(m) - (c - 1) /\ c - 1 \in Nat
    BY <1>1, <1>3, <2>5, <2>6
  <2>8. ASSUME NEW k \in 1..Len(w)
        PROVE  /\ Place(c, k) = k + (c - 1) /\ Place(c, k) \in 1..Len(m)
               /\ w[k] = IF Notice(c, k) THEN Text("user") ELSE m[Place(c, k)]
    <3>1. Place(c, k) = k + c - 1
      BY <1>3 DEF Place
    <3>2. k + c - 1 = k + (c - 1) /\ k + c - 1 \in 1..Len(m) /\ k \in 1..(1 + Len(t))
      BY <1>1, <1>3, <2>5, <2>6
    <3>3. CASE k = 1
      <4>1. w[k] = Text("user")
        BY <2>3, <2>6, <3>2, <3>3
      <4> QED BY <1>1, <1>3, <3>1, <3>2, <3>3, <4>1 DEF Notice
    <3>4. CASE k # 1
      <4>1. k - 1 \in 1..(Len(m) - c) /\ c + (k - 1) = k + c - 1 /\ ~(k <= 1)
        BY <1>1, <2>5, <2>6, <3>2, <3>4
      <4>2. w[k] = m[k + c - 1]
        BY <2>5, <2>6, <3>2, <4>1
      <4> QED BY <3>1, <3>2, <3>4, <4>2 DEF Notice
    <3> QED BY <3>3, <3>4
  <2> QED BY <2>1, <2>6, <2>7, <2>8
<1> QED BY <1>2, <1>3

\* A window of a transcript that grows grows with it.
LEMMA WindowExtends ==
  ASSUME NEW a \in Seq(Message), NEW m \in Seq(Message), Extends(a, m), NEW c \in 0..Len(a)
  PROVE  Extends(Windowed(a, c), Windowed(m, c)) /\ c \in 0..Len(m)
<1>1. Len(a) \in Nat /\ Len(m) \in Nat /\ Len(a) <= Len(m) /\ c \in 0..Len(m)
      /\ \A i \in 1..Len(a) : m[i] = a[i]
  BY DEF Extends
<1> DEFINE v == Windowed(a, c)
           w == Windowed(m, c)
<1>2. /\ v \in Seq(Message) /\ Len(v) = Len(a) - Off(c) /\ Off(c) \in Nat
      /\ \A k \in 1..Len(v) :
           /\ Place(c, k) \in 1..Len(a)
           /\ v[k] = IF Notice(c, k) THEN Text("user") ELSE a[Place(c, k)]
  BY WindowIs
<1>3. /\ w \in Seq(Message) /\ Len(w) = Len(m) - Off(c)
      /\ \A k \in 1..Len(w) : w[k] = IF Notice(c, k) THEN Text("user") ELSE m[Place(c, k)]
  BY <1>1, WindowIs
<1> HIDE DEF v, w
<1>4. Len(v) <= Len(w) /\ \A k \in 1..Len(v) : k \in 1..Len(w)
  BY <1>1, <1>2, <1>3
<1>5. ASSUME NEW k \in 1..Len(v) PROVE w[k] = v[k]
  <2>1. CASE Notice(c, k)
    BY <1>2, <1>3, <1>4, <2>1
  <2>2. CASE ~Notice(c, k)
    BY <1>1, <1>2, <1>3, <1>4, <2>2
  <2> QED BY <2>1, <2>2
<1> QED BY <1>1, <1>4, <1>5 DEF Extends, v, w

\* What is appended to the transcript is appended to its window.
LEMMA WindowAppend ==
  ASSUME NEW m \in Seq(Message), NEW c \in 0..Len(m), NEW x \in Message, c < Len(m) + 1
  PROVE  Windowed(Append(m, x), c) = Append(Windowed(m, c), x)
<1> DEFINE y == Append(m, x)
           v == Windowed(m, c)
           w == Windowed(y, c)
           z == Append(v, x)
<1>1. y \in Seq(Message) /\ Len(y) = Len(m) + 1 /\ y[Len(m) + 1] = x /\ Len(m) \in Nat
      /\ \A i \in 1..Len(m) : y[i] = m[i]
  OBVIOUS
<1> HIDE DEF y
<1>2. /\ v \in Seq(Message) /\ Len(v) = Len(m) - Off(c) /\ Off(c) \in Nat
      /\ \A k \in 1..Len(v) :
           /\ Place(c, k) = k + Off(c) /\ Place(c, k) \in 1..Len(m)
           /\ v[k] = IF Notice(c, k) THEN Text("user") ELSE m[Place(c, k)]
  BY WindowIs
<1>3. c \in 0..Len(y) /\ c \in Nat /\ c <= Len(m)
  BY <1>1
<1>4. /\ w \in Seq(Message) /\ Len(w) = Len(y) - Off(c)
      /\ \A k \in 1..Len(w) :
           /\ Place(c, k) = k + Off(c)
           /\ w[k] = IF Notice(c, k) THEN Text("user") ELSE y[Place(c, k)]
  BY <1>1, <1>3, WindowIs
<1> HIDE DEF v, w
<1>5. z \in Seq(Message) /\ Len(z) = Len(v) + 1 /\ z[Len(v) + 1] = x /\ Len(v) \in Nat
      /\ \A i \in 1..Len(v) : z[i] = v[i]
  BY <1>2
<1> HIDE DEF z
<1>6. Len(w) = Len(z)
  BY <1>1, <1>2, <1>4, <1>5
<1>7. ASSUME NEW k \in 1..Len(w) PROVE w[k] = z[k]
  <2>1. CASE k \in 1..Len(v)
    BY <1>1, <1>2, <1>4, <1>5, <2>1
  <2>2. CASE k \notin 1..Len(v)
    <3>1. k = Len(v) + 1 /\ k + Off(c) = Len(m) + 1
      BY <1>2, <1>5, <1>6, <2>2
    <3>2. ~Notice(c, k)
      BY <1>1, <1>2, <1>3, <3>1 DEF Notice, Off
    <3> QED BY <1>1, <1>4, <1>5, <3>1, <3>2
  <2> QED BY <2>1, <2>2
<1>8. w = z
  BY <1>4, <1>5, <1>6, <1>7, SeqEqual
<1> QED BY <1>8 DEF w, z, v, y

\* Answers the window keeps with their announcement are right behind it there, too.
LEMMA WindowCame ==
  ASSUME NEW m \in Seq(Message), NEW c \in 0..Len(m),
         NEW j \in 1..Len(Windowed(m, c)), ~Notice(c, j), NEW n
  PROVE  /\ Windowed(m, c)[j] = m[Place(c, j)]
         /\ Came(m, Place(c, j), n) => Came(Windowed(m, c), j, n)
         /\ Came(m, Place(c, j), n) /\ Ends(m, Place(c, j) + n + 1)
              => Ends(Windowed(m, c), j + n + 1)
<1> DEFINE w == Windowed(m, c)
           a == Place(c, j)
           o == Off(c)
<1>1. /\ w \in Seq(Message) /\ Len(w) = Len(m) - o /\ o \in Nat
      /\ \A k \in 1..Len(w) :
           /\ Place(c, k) = k + o /\ Place(c, k) \in 1..Len(m)
           /\ w[k] = IF Notice(c, k) THEN Text("user") ELSE m[Place(c, k)]
  BY WindowIs
<1>2. Len(m) \in Nat /\ j \in Nat /\ c \in Nat
  BY DEF w
<1> HIDE DEF w, o
<1>3. j \in 1..Len(w)
  BY DEF w
<1>4. w[j] = m[a] /\ a = j + o /\ a \in 1..Len(m)
  BY <1>1, <1>3
<1> HIDE DEF a
<1>5. ASSUME NEW i \in Nat, a + i <= Len(m)
      PROVE  j + i \in 1..Len(w) /\ w[j + i] = m[a + i]
  <2>1. j + i \in 1..Len(w) /\ (j + i) + o = a + i
    BY <1>1, <1>2, <1>3, <1>4, <1>5
  <2>2. ~Notice(c, j + i)
    BY <1>2, <1>3 DEF Notice
  <2> QED BY <1>1, <2>1, <2>2
<1>6. ASSUME Came(m, a, n) PROVE n \in Nat /\ a + n <= Len(m) /\ Came(w, j, n)
  <2>1. Len(m[a].calls) \in Nat
    <3>1. m[a] \in Message
      BY <1>4
    <3>2. m[a].calls \in Seq(Call)
      BY <3>1 DEF Message
    <3> QED BY <3>2
  <2>2. n \in 0..Len(m[a].calls) /\ n \in Nat /\ a + n <= Len(m)
        /\ \A i \in 1..n : m[a + i] = Answering(m[a].calls[i].id)
    BY <1>6, <2>1 DEF Came
  <2>3. j + n \in 1..Len(w)
    BY <1>5, <2>2
  <2>4. \A i \in 1..n : i \in Nat /\ a + i <= Len(m)
    BY <1>1, <1>2, <1>4, <2>2
  <2>5. \A i \in 1..n : w[j + i] = Answering(w[j].calls[i].id)
    BY <1>4, <1>5, <2>2, <2>4
  <2> QED BY <1>4, <2>2, <2>3, <2>5 DEF Came
<1>7. ASSUME Came(m, a, n), Ends(m, a + n + 1) PROVE Ends(w, j + n + 1)
  <2>1. n + 1 \in Nat /\ a + (n + 1) = a + n + 1 /\ j + (n + 1) = j + n + 1
    <3>1. n \in Nat
      BY <1>6, <1>7
    <3> QED BY <1>1, <1>2, <1>4, <3>1
  <2>2. w[j + n + 1] = m[a + n + 1] /\ j + n + 1 \in 1..Len(w)
    BY <1>5, <1>7, <2>1 DEF Ends
  <2> QED BY <1>7, <2>2 DEF Ends
<1> QED BY <1>4, <1>6, <1>7 DEF w, a

\* So what was served is served in the window.
LEMMA WindowServed ==
  ASSUME NEW m \in Seq(Message), NEW c \in 0..Len(m),
         NEW j \in 1..Len(Windowed(m, c)), ~Notice(c, j), Served(m, Place(c, j))
  PROVE  Served(Windowed(m, c), j)
<1> DEFINE w == Windowed(m, c)
           a == Place(c, j)
<1>1. w[j] = m[a]
  BY WindowCame
<1>2. PICK n \in 0..Len(m[a].calls) :
        Came(m, a, n) /\ (Ends(m, a + n + 1) \/ a + n = Len(m))
  BY DEF Served, Closed
<1>3. Came(w, j, n) /\ (Ends(m, a + n + 1) => Ends(w, j + n + 1))
  BY <1>2, WindowCame
<1>4. a + n = Len(m) => j + n = Len(w)
  <2>1. Len(w) = Len(m) - Off(c) /\ a = j + Off(c) /\ Off(c) \in Nat
    BY WindowIs
  <2>2. Len(m) \in Nat /\ j \in Nat /\ n \in Nat
    <3>1. Len(m[a].calls) \in Nat
      <4>1. a \in 1..Len(m)
        BY WindowIs
      <4>2. m[a] \in Message
        BY <4>1
      <4>3. m[a].calls \in Seq(Call)
        BY <4>2 DEF Message
      <4> QED BY <4>3
    <3>2. w \in Seq(Message)
      BY WindowIs
    <3> QED BY <3>1, <3>2
  <2> HIDE DEF w, a
  <2> QED BY <2>1, <2>2
<1> HIDE DEF w, a
<1>5. Served(w, j)
  BY <1>1, <1>2, <1>3, <1>4 DEF Served, Closed
<1> QED BY <1>5 DEF w

-----------------------------------------------------------------------------
(* The inductive invariant *)

\* The last request was the payload of a window of the first n messages; what the
\* assistant said since then comes next.
Sent(n) ==
  /\ n \in 0..Len(durable)
  /\ cut = 0 \/ cut < n
  /\ sent = Sanitized(Windowed(SubSeq(durable, 1, n), cut))
  /\ at = "parse" => n = Len(durable)
  /\ n = 0 \/ n = Len(durable) \/ Ends(durable, n + 1)
  /\ spoke => Ends(durable, n + 1) /\ durable[n + 1].role # "user"
  /\ at \in {"act", "waiting"} => Pending(durable, handed, n + 1, queue)

\* The inductive invariant: the types, what the loop appended, and what it sent last.
IInv ==
  /\ TypeOK
  /\ handed < Len(durable)
  /\ Held(durable, handed)
  /\ at = "act" => queue # <<>>
  /\ Marked => cut < turn
  /\ \E n \in Nat : Sent(n)

\* The turn in progress begins where it began, and is not cut into.
LEMMA MarksStay ==
  ASSUME IInv, durable' \in Seq(Message), Extends(durable, durable'), turn' = turn, cut' = cut
  PROVE  turn' \in DOMAIN durable' /\ cut' \in Nat /\ (Marked => cut' < turn')
<1>1. /\ durable \in Seq(Message) /\ turn \in DOMAIN durable /\ cut \in Nat
      /\ Marked => cut < turn
  BY DEF IInv, TypeOK
<1>2. DOMAIN durable = 1..Len(durable) /\ DOMAIN durable' = 1..Len(durable')
      /\ Len(durable) \in Nat /\ Len(durable') \in Nat
  BY <1>1
<1>3. Len(durable) <= Len(durable')
  BY DEF Extends
<1>4. turn' \in DOMAIN durable'
  BY <1>1, <1>2, <1>3
<1> QED BY <1>1, <1>4

\* LastAnnounced finds the announcement whose calls are queued.
LEMMA LastIs ==
  ASSUME NEW a, durable \in Seq(Message), handed \in Nat, Pending(durable, handed, a, queue)
  PROVE  LastAnnounced = a
<1> DEFINE Is(k) == /\ durable[k].calls # <<>>
                    /\ \A j \in DOMAIN durable : durable[j].calls # <<>> => j <= k
<1>1. DOMAIN durable = 1..Len(durable) /\ Len(durable) \in Nat /\ a \in 1..Len(durable)
      /\ durable[a].calls # <<>>
      /\ \A k \in (a + 1)..Len(durable) : durable[k].calls = <<>>
  BY DEF Pending
<1>2. \A j \in DOMAIN durable : durable[j].calls # <<>> => j <= a
  <2>1. \A j \in 1..Len(durable) : ~(j <= a) => j \in (a + 1)..Len(durable)
    BY <1>1
  <2> QED BY <1>1, <2>1
<1>3. a \in DOMAIN durable /\ Is(a)
  BY <1>1, <1>2
<1>4. \A k \in DOMAIN durable : Is(k) => k = a
  BY <1>1, <1>2
<1> QED BY <1>3, <1>4 DEF LastAnnounced

\* A transcript handed over, whatever is in it, satisfies the invariant.
LEMMA InitInv == Init => IInv
<1> SUFFICES ASSUME Init PROVE IInv
  OBVIOUS
<1>1. PICK n \in 0..MaxHanded : \E session \in [1..n -> Handed] :
        durable = Append(session, Text("user")) /\ handed = n
  BY DEF Init
<1>2. PICK session \in [1..n -> Handed] : durable = Append(session, Text("user")) /\ handed = n
  BY <1>1
<1>3. n \in Nat /\ MaxHanded \in Nat
  BY TranscriptAssumption
<1>4. session \in Seq(Message) /\ Len(session) = n
  BY <1>3, TranscriptAssumption
<1>5. Text("user") \in Message /\ Text("user").role = "user"
      /\ Said(Text("user")) /\ Text("user").calls = <<>>
  BY TextIs
<1>6. Held(session, n)
  BY <1>3, <1>4 DEF Held
<1>7. durable \in Seq(Message) /\ Len(durable) = n + 1 /\ Held(durable, n)
  BY <1>2, <1>3, <1>4, <1>5, <1>6, HeldAppend
<1>8. TypeOK
  <2>1. queue \in Seq(Call) /\ stored \in BOOLEAN /\ spoke \in BOOLEAN
        /\ at \in {"reason", "parse", "act", "waiting"}
    <3>1. queue = <<>> /\ stored = TRUE /\ spoke = FALSE /\ at = "reason"
      BY DEF Init
    <3>2. stored \in BOOLEAN /\ spoke \in BOOLEAN
      BY <3>1
    <3>3. queue \in Seq(Call) /\ at \in {"reason", "parse", "act", "waiting"}
      BY <3>1
    <3> QED BY <3>2, <3>3
  <2>2. answered = {}
    BY DEF Init
  <2>3. answered \subseteq (DOMAIN durable) \X CallIds
    BY <2>2
  <2>4. turn \in DOMAIN durable /\ cut \in Nat
    <3>1. turn = Len(durable) /\ cut = 0
      BY DEF Init
    <3>2. DOMAIN durable = 1..Len(durable)
      BY <1>7
    <3> QED BY <1>3, <1>7, <3>1, <3>2
  <2> QED BY <1>2, <1>7, <2>1, <2>3, <2>4 DEF TypeOK
<1>9. Sent(0)
  <2>1. SubSeq(durable, 1, 0) = <<>>
    BY SubSeqEmpty
  <2>2. cut = 0 /\ sent = Sanitized(Windowed(SubSeq(durable, 1, 0), cut))
    BY <2>1, SanitizedNothing DEF Init, Windowed
  <2> QED BY <1>3, <1>7, <2>2 DEF Init, Sent
<1>10. handed < Len(durable) /\ at # "act" /\ cut < turn
  BY <1>2, <1>3, <1>7 DEF Init
<1> QED BY <1>2, <1>7, <1>8, <1>9, <1>10 DEF IInv

\* So does a request: reason_node sends what the window then keeps of the transcript.
LEMMA ReasonInv ==
  ASSUME IInv, NEW guided \in BOOLEAN, NEW chrome \in BOOLEAN, NEW actionable \in BOOLEAN,
         Reason(guided, chrome, actionable)
  PROVE  IInv' /\ Extends(durable, durable')
<1> DEFINE u == Text("user")
           base == IF guided THEN Append(durable, u) ELSE durable
           tailed == chrome \/ actionable
           view(c) == Windowed(base, c)
           payload(c) == Sanitized(view(c))
<1>1. durable \in Seq(Message) /\ handed \in Nat /\ handed \in 0..MaxHanded /\ queue \in Seq(Call)
      /\ handed < Len(durable) /\ Held(durable, handed)
      /\ answered \subseteq (DOMAIN durable) \X CallIds
      /\ turn \in DOMAIN durable
  BY TranscriptAssumption DEF IInv, TypeOK
<1>2. PICK c \in Cuts(base) :
      /\ durable' = IF tailed /\ TailStored(payload(c)) THEN Append(base, u) ELSE base
      /\ sent' = IF tailed /\ TailBehind(payload(c))
                 THEN Append(payload(c), TailEntry(Len(view(c)) + 1)) ELSE payload(c)
      /\ stored' = (TailBehind(payload(c)) \/ ~actionable)
      /\ cut' = c /\ spoke' = FALSE /\ at' = "parse"
      /\ queue' = queue /\ handed' = handed /\ turn' = turn /\ answered' = answered
  BY DEF Reason
<1>3. u \in Message /\ u.role # "tool" /\ Said(u) /\ u.calls = <<>>
  BY TextIs
<1> HIDE DEF u
<1>4. base \in Seq(Message) /\ Held(base, handed) /\ Extends(durable, base)
  <2>1. CASE guided
    BY <1>1, <1>3, <2>1, HeldAppend
  <2>2. CASE ~guided
    <3>1. Extends(durable, durable)
      BY <1>1 DEF Extends
    <3> QED BY <1>1, <2>2, <3>1
  <2> QED BY <2>1, <2>2
<1> HIDE DEF base
<1>5. Len(base) \in Nat /\ c \in 0..Len(base) /\ c < Len(base) /\ c \in Nat /\ c < Len(base) + 1
      /\ (Marked /\ c > 0 => c < turn)
  <2>1. Len(base) \in Nat
    BY <1>4
  <2> QED BY <1>2, <2>1 DEF Cuts
<1>6. view(c) \in Seq(Message)
  BY <1>4, <1>5, WindowIs
<1>7. durable' \in Seq(Message) /\ Held(durable', handed) /\ Extends(base, durable')
      /\ sent' = Sanitized(Windowed(durable', c))
  <2>1. CASE tailed /\ TailBehind(payload(c))
    <3>1. durable' = Append(base, u)
          /\ sent' = Append(payload(c), TailEntry(Len(view(c)) + 1))
      BY <1>2, <2>1 DEF TailStored
    <3>2. Sanitized(Append(view(c), u)) = Append(Sanitized(view(c)), TailEntry(Len(view(c)) + 1))
      <4> HIDE DEF view
      <4> QED BY <1>6, <2>1, TailIs DEF u
    <3>3. Windowed(Append(base, u), c) = Append(view(c), u)
      BY <1>3, <1>4, <1>5, WindowAppend
    <3> QED BY <1>1, <1>3, <1>4, <3>1, <3>2, <3>3, HeldAppend
  <2>2. CASE ~(tailed /\ TailBehind(payload(c)))
    <3>1. durable' = base /\ sent' = payload(c)
      BY <1>2, <2>2 DEF TailStored
    <3>2. Extends(base, base)
      BY <1>4 DEF Extends
    <3> QED BY <1>4, <3>1, <3>2
  <2> QED BY <2>1, <2>2
<1>8. Len(durable') \in Nat /\ Len(base) <= Len(durable')
  BY <1>7 DEF Extends
<1>9. stored' \in BOOLEAN /\ spoke' \in BOOLEAN /\ spoke' = FALSE /\ at' = "parse" /\ cut' = c /\ queue' = queue
      /\ handed' = handed /\ turn' = turn /\ answered' = answered
  BY <1>2
<1> HIDE DEF payload, tailed, view
<1>10. Extends(durable, durable')
  BY <1>1, <1>4, <1>7, ExtendsTwice
<1>11. Len(durable) \in Nat /\ Len(durable) <= Len(durable')
  BY <1>1, <1>10 DEF Extends
<1>12. DOMAIN durable \subseteq DOMAIN durable'
  BY <1>1, <1>7, <1>8, <1>11
<1>13. TypeOK'
  <2>1. answered' \subseteq (DOMAIN durable') \X CallIds /\ turn' \in DOMAIN durable'
    BY <1>1, <1>9, <1>12
  <2>2. at' \in {"reason", "parse", "act", "waiting"} /\ cut' \in Nat
    BY <1>5, <1>9
  <2> QED BY <1>1, <1>7, <1>9, <2>1, <2>2 DEF TypeOK
<1>14. PICK n \in Nat : n = Len(durable')
  BY <1>8
<1>15. Sent(n)'
  <2>1. SubSeq(durable', 1, n) = durable'
    BY <1>7, <1>14, SubSeqFull
  <2>2. sent' = Sanitized(Windowed(SubSeq(durable', 1, n), cut'))
    BY <1>7, <1>9, <2>1
  <2>3. n \in 0..Len(durable') /\ cut' < n
    BY <1>5, <1>8, <1>9, <1>14
  <2> QED BY <1>9, <1>14, <2>2, <2>3 DEF Sent
<1>16. handed' < Len(durable') /\ Held(durable', handed') /\ at' # "act"
  BY <1>1, <1>7, <1>9, <1>11
<1>17. Marked => cut' < turn'
  <2>1. turn \in Nat /\ 1 <= turn
    BY <1>1
  <2> QED BY <1>5, <1>9, <2>1
<1> QED BY <1>10, <1>13, <1>15, <1>16, <1>17 DEF IInv

\* What was sent does not depend on what comes later.
LEMMA SentStays ==
  ASSUME NEW n \in Nat, Sent(n), durable \in Seq(Message), durable' \in Seq(Message),
         Extends(durable, durable'), sent' = sent, cut' = cut
  PROVE  /\ n \in 0..Len(durable')
         /\ cut' = 0 \/ cut' < n
         /\ sent' = Sanitized(Windowed(SubSeq(durable', 1, n), cut'))
         /\ Ends(durable, n + 1) => Ends(durable', n + 1) /\ durable'[n + 1] = durable[n + 1]
<1>1. /\ n \in 0..Len(durable) /\ sent = Sanitized(Windowed(SubSeq(durable, 1, n), cut))
      /\ cut = 0 \/ cut < n
  BY DEF Sent
<1>2. SubSeq(durable', 1, n) = SubSeq(durable, 1, n) /\ n \in 0..Len(durable')
  BY <1>1, CutSame
<1>3. Ends(durable, n + 1) => Ends(durable', n + 1) /\ durable'[n + 1] = durable[n + 1]
  <2> SUFFICES ASSUME Ends(durable, n + 1)
               PROVE  Ends(durable', n + 1) /\ durable'[n + 1] = durable[n + 1]
    OBVIOUS
  <2>1. n + 1 \in 1..Len(durable) /\ Len(durable) \in Nat /\ Len(durable') \in Nat
        /\ Len(durable) <= Len(durable')
    BY DEF Ends, Extends
  <2>2. durable'[n + 1] = durable[n + 1] /\ n + 1 <= Len(durable')
    BY <2>1 DEF Extends
  <2> QED BY <2>2 DEF Ends
<1> QED BY <1>1, <1>2, <1>3

\* A batch announced is appended, and nothing is queued before it.
LEMMA AnnounceInv ==
  ASSUME IInv, NEW batch \in Batches, NEW blank \in BOOLEAN, Announce(batch, blank)
  PROVE  IInv' /\ Extends(durable, durable')
<1> DEFINE calls == Stamped(batch)
           x == Announcing(calls, blank)
           a == Len(durable) + 1
<1>1. durable \in Seq(Message) /\ handed \in Nat /\ handed \in 0..MaxHanded
      /\ handed < Len(durable) /\ Held(durable, handed)
      /\ answered \subseteq (DOMAIN durable) \X CallIds /\ stored \in BOOLEAN
  BY TranscriptAssumption DEF IInv, TypeOK
<1>2. /\ at = "parse" /\ durable' = Append(durable, x) /\ queue' = calls
      /\ spoke' = TRUE /\ at' = "act"
      /\ handed' = handed /\ turn' = turn /\ cut' = cut /\ sent' = sent /\ stored' = stored /\ answered' = answered
  BY DEF Announce
<1>3. PICK n \in Nat : Sent(n)
  BY DEF IInv
<1>4. n = Len(durable)
  BY <1>2, <1>3 DEF Sent
<1>5. calls \in Seq(Call) /\ calls # <<>>
      /\ x \in Message /\ x.role = "assistant" /\ Said(x) /\ x.calls = calls
  BY AnnouncingIs
<1> HIDE DEF calls, x
<1>6. /\ durable' \in Seq(Message) /\ Len(durable') = a /\ Extends(durable, durable')
      /\ durable'[a] = x /\ Ends(durable', a) /\ Held(durable', handed)
  BY <1>1, <1>2, <1>5, HeldAppend
<1>7. Len(durable) \in Nat /\ a \in Nat /\ n + 1 = a
  BY <1>1, <1>4
<1> HIDE DEF a
<1>8. answered \subseteq (DOMAIN durable') \X CallIds
  <2>1. DOMAIN durable \subseteq DOMAIN durable'
    BY <1>1, <1>6, <1>7 DEF a
  <2> QED BY <1>1, <2>1
<1>9. TypeOK'
  <2>1. spoke' \in BOOLEAN /\ stored' \in BOOLEAN
    BY <1>1, <1>2
  <2>2. at' \in {"reason", "parse", "act", "waiting"}
    BY <1>2
  <2>9. turn' \in DOMAIN durable' /\ cut' \in Nat
    BY <1>1, <1>2, <1>6, MarksStay
  <2> QED BY <1>1, <1>2, <1>5, <1>6, <1>8, <2>1, <2>2, <2>9 DEF TypeOK
<1>10. Pending(durable', handed', a, queue')
  <2>1. Len(calls) \in Nat
    BY <1>5
  <2>2. queue' = SubSeq(durable'[a].calls, 0 + 1, Len(durable'[a].calls))
    <3>1. SubSeq(calls, 1, Len(calls)) = calls
      BY <1>5, SubSeqFull
    <3> QED BY <1>2, <1>5, <1>6, <3>1
  <2>3. Came(durable', a, 0) /\ a + 0 = Len(durable')
    BY <1>5, <1>6, <1>7, <2>1 DEF Came
  <2>4. 0 \in 0..Len(durable'[a].calls)
    BY <1>5, <1>6, <2>1
  <2>5. Owed(durable', a, queue', 0)
    BY <2>2, <2>3, <2>4 DEF Owed
  <2>6. a \in (handed + 1)..Len(durable') /\ durable'[a].calls # <<>>
        /\ \A k \in (a + 1)..Len(durable') : durable'[k].calls = <<>>
    BY <1>1, <1>5, <1>6, <1>7 DEF a
  <2> QED BY <1>2, <2>5, <2>6 DEF Pending
<1>11. Sent(n)'
  <2>1. n \in 0..Len(durable') /\ sent' = Sanitized(Windowed(SubSeq(durable', 1, n), cut'))
        /\ (cut' = 0 \/ cut' < n)
    BY <1>1, <1>2, <1>3, <1>6, SentStays
  <2>2. Ends(durable', n + 1) /\ durable'[n + 1].role # "user"
    BY <1>5, <1>6, <1>7
  <2> QED BY <1>2, <1>7, <1>10, <2>1, <2>2 DEF Sent
<1>12. handed' < Len(durable') /\ Held(durable', handed') /\ queue' # <<>>
  BY <1>1, <1>2, <1>5, <1>6, <1>7 DEF a
<1>13. Marked => cut' < turn'
  BY <1>2, <1>6, MarksStay
<1> QED BY <1>6, <1>9, <1>11, <1>12, <1>13 DEF IInv

\* A retry leaves the transcript alone.
LEMMA RetryInv ==
  ASSUME IInv, Retry
  PROVE  IInv' /\ Extends(durable, durable')
<1>1. durable \in Seq(Message)
  BY DEF IInv, TypeOK
<1>2. /\ at = "parse" /\ at' = "reason" /\ durable' = durable /\ queue' = queue
      /\ handed' = handed /\ turn' = turn /\ cut' = cut /\ sent' = sent /\ stored' = stored /\ spoke' = spoke
      /\ answered' = answered
  BY DEF Retry
<1>3. PICK n \in Nat : Sent(n)
  BY DEF IInv
<1>4. Sent(n)'
  BY <1>2, <1>3 DEF Sent
<1>5. TypeOK'
  BY <1>2 DEF IInv, TypeOK
<1>6. Extends(durable, durable')
  BY <1>1, <1>2 DEF Extends
<1>7. handed' < Len(durable') /\ Held(durable', handed')
  BY <1>2 DEF IInv
<1> QED BY <1>2, <1>4, <1>5, <1>6, <1>7 DEF IInv

\* Results of a prefix of the queue are appended right behind their announcement, or
\* behind what already came in between.
LEMMA ActInv ==
  ASSUME IInv, NEW n \in 1..Len(queue), Act(n)
  PROVE  /\ IInv' /\ Extends(durable, durable')
         /\ \E a \in Nat : /\ LastAnnounced = a /\ Sent(a - 1)
                           /\ Pending(durable, handed, a, queue)
                           /\ Pending(durable', handed, a, queue')
<1> DEFINE r == [k \in 1..n |-> Answering(queue[k].id)]
<1>1. durable \in Seq(Message) /\ handed \in Nat /\ handed \in 0..MaxHanded /\ queue \in Seq(Call)
      /\ handed < Len(durable) /\ Held(durable, handed)
      /\ answered \subseteq (DOMAIN durable) \X CallIds /\ stored \in BOOLEAN /\ spoke \in BOOLEAN
  BY TranscriptAssumption DEF IInv, TypeOK
<1>2. /\ at = "act" /\ durable' = durable \o r
      /\ answered' = answered \union {<<LastAnnounced, queue[k].id>> : k \in 1..n}
      /\ queue' = SubSeq(queue, n + 1, Len(queue))
      /\ at' = IF queue' = <<>> THEN "reason" ELSE "act"
      /\ handed' = handed /\ turn' = turn /\ cut' = cut /\ sent' = sent /\ stored' = stored /\ spoke' = spoke
  BY DEF Act, ResultId
<1>3. PICK i \in Nat : Sent(i)
  BY DEF IInv
<1> DEFINE a == i + 1
<1>4. Pending(durable, handed, a, queue)
  BY <1>2, <1>3 DEF Sent
<1>5. /\ durable' \in Seq(Message) /\ Len(durable') = Len(durable) + n
      /\ Extends(durable, durable') /\ Held(durable', handed)
      /\ Pending(durable', handed, a, queue')
  <2>1. durable \o r \in Seq(Message) /\ Len(durable \o r) = Len(durable) + n
        /\ Extends(durable, durable \o r) /\ Held(durable \o r, handed)
        /\ Pending(durable \o r, handed, a, SubSeq(queue, n + 1, Len(queue)))
    <3> HIDE DEF a
    <3> QED BY <1>1, <1>4, PendingResults
  <2> HIDE DEF r, a
  <2> QED BY <1>2, <2>1
<1> HIDE DEF r
<1>6. LastAnnounced = a /\ a \in 1..Len(durable)
  <2>1. a \in 1..Len(durable)
    BY <1>1, <1>4 DEF Pending
  <2> HIDE DEF a
  <2> QED BY <1>1, <1>4, <2>1, LastIs
<1>7. Len(durable) \in Nat /\ n \in Nat /\ Len(queue) \in Nat
  BY <1>1
<1>8. queue' \in Seq(Call)
  <2>1. \A k \in (n + 1)..Len(queue) : queue[k] \in Call
    BY <1>1, <1>7
  <2> QED BY <1>2, <1>7, <2>1, SubSeqProperties
<1>9. answered' \subseteq (DOMAIN durable') \X CallIds
  <2>1. DOMAIN durable \subseteq DOMAIN durable' /\ a \in DOMAIN durable'
    BY <1>1, <1>5, <1>6, <1>7
  <2>2. \A k \in 1..n : queue[k].id \in CallIds
    <3>1. \A k \in 1..n : queue[k] \in Call
      BY <1>1, <1>7
    <3> QED BY <3>1 DEF Call
  <2>3. answered \subseteq (DOMAIN durable') \X CallIds
    BY <1>1, <2>1
  <2>4. \A k \in 1..n : <<a, queue[k].id>> \in (DOMAIN durable') \X CallIds
    BY <2>1, <2>2
  <2> HIDE DEF a
  <2> QED BY <1>2, <1>6, <2>3, <2>4
<1>10. TypeOK'
  <2>1. spoke' \in BOOLEAN /\ stored' \in BOOLEAN
    BY <1>1, <1>2
  <2>2. at' \in {"reason", "parse", "act", "waiting"}
    BY <1>2
  <2>9. turn' \in DOMAIN durable' /\ cut' \in Nat
    BY <1>1, <1>2, <1>5, MarksStay
  <2> QED BY <1>1, <1>2, <1>5, <1>8, <1>9, <2>1, <2>2, <2>9 DEF TypeOK
<1>11. Sent(i)'
  <2>1. i \in 0..Len(durable') /\ sent' = Sanitized(Windowed(SubSeq(durable', 1, i), cut'))
        /\ (cut' = 0 \/ cut' < i)
        /\ (Ends(durable, i + 1) => Ends(durable', i + 1) /\ durable'[i + 1] = durable[i + 1])
    BY <1>1, <1>2, <1>3, <1>5, SentStays
  <2>2. spoke' => Ends(durable', i + 1) /\ durable'[i + 1].role # "user"
    BY <1>2, <1>3, <2>1 DEF Sent
  <2>3. at' # "parse"
    BY <1>2
  <2>4. i = 0 \/ Ends(durable', i + 1)
    <3>1. i + 1 \in 1..Len(durable) /\ i # Len(durable)
      BY <1>1, <1>3, <1>4, <1>7 DEF Pending
    <3> QED BY <1>3, <2>1, <3>1 DEF Sent
  <2> QED BY <1>2, <1>5, <2>1, <2>2, <2>3, <2>4 DEF Sent
<1>12. handed' < Len(durable') /\ Held(durable', handed') /\ (at' = "act" => queue' # <<>>)
  BY <1>1, <1>2, <1>5, <1>7
<1>13. IInv'
  <2>1. Marked => cut' < turn'
    BY <1>2, <1>5, MarksStay
  <2> QED BY <1>3, <1>10, <1>11, <1>12, <2>1 DEF IInv
<1>14. a \in Nat /\ a - 1 = i
  BY <1>3
<1> QED BY <1>2, <1>3, <1>4, <1>5, <1>6, <1>13, <1>14

\* A question is appended, and its call is done with.
LEMMA AskInv ==
  ASSUME IInv, Ask
  PROVE  /\ IInv' /\ Extends(durable, durable')
         /\ \E a \in Nat : /\ Sent(a - 1) /\ Pending(durable, handed, a, queue)
                           /\ Pending(durable', handed, a, queue')
<1> DEFINE x == Text("assistant")
<1>1. durable \in Seq(Message) /\ handed \in Nat /\ handed \in 0..MaxHanded /\ queue \in Seq(Call)
      /\ handed < Len(durable) /\ Held(durable, handed)
      /\ answered \subseteq (DOMAIN durable) \X CallIds /\ stored \in BOOLEAN /\ spoke \in BOOLEAN
  BY TranscriptAssumption DEF IInv, TypeOK
<1>2. /\ at = "act" /\ durable' = Append(durable, x)
      /\ queue' = SubSeq(queue, 2, Len(queue)) /\ at' = "waiting"
      /\ handed' = handed /\ turn' = turn /\ cut' = cut /\ sent' = sent /\ stored' = stored /\ spoke' = spoke
      /\ answered' = answered
  BY DEF Ask
<1>3. PICK i \in Nat : Sent(i)
  BY DEF IInv
<1> DEFINE a == i + 1
<1>4. Pending(durable, handed, a, queue)
  BY <1>2, <1>3 DEF Sent
<1>5. x \in Message /\ x.role # "tool" /\ Said(x) /\ x.calls = <<>>
  BY TextIs
<1> HIDE DEF x
<1>6. /\ durable' \in Seq(Message) /\ Len(durable') = Len(durable) + 1
      /\ Extends(durable, durable') /\ Held(durable', handed)
  BY <1>1, <1>2, <1>5, HeldAppend
<1>7. Pending(durable', handed, a, queue)
  BY <1>1, <1>2, <1>4, <1>5, PendingAppend
<1>8. Len(durable) \in Nat /\ Len(queue) \in Nat /\ queue # <<>> /\ Len(queue) # 0
  <2>1. queue # <<>>
    BY <1>2 DEF IInv
  <2> QED BY <1>1, <2>1
<1>9. queue' \in Seq(Call)
  <2>1. \A k \in 2..Len(queue) : queue[k] \in Call
    BY <1>1
  <2> QED BY <1>2, <1>8, <2>1, SubSeqProperties
<1>10. Pending(durable', handed, a, queue')
  <2> DEFINE calls == durable'[a].calls
  <2>1. a \in 1..Len(durable)
    BY <1>1, <1>4 DEF Pending
  <2>2. Closed(durable', a)
    <3>1. Served(durable, a)
      BY <1>1, <1>4 DEF Pending, Held
    <3> QED BY <1>1, <1>2, <1>5, <2>1, <3>1, HeldAppend
  <2>3. PICK c \in Nat : Owed(durable', a, queue, c)
    BY <1>7 DEF Pending
  <2>4. c \in 0..Len(calls) /\ queue = SubSeq(calls, c + 1, Len(calls))
    BY <2>3 DEF Owed
  <2>5. calls \in Seq(Call)
    <3>1. durable'[a] \in Message
      BY <1>6, <1>8, <2>1
    <3> QED BY <3>1 DEF Message
  <2> HIDE DEF calls
  <2>6. 1 \in 0..Len(queue)
    BY <1>8
  <2>7. c + 1 \in 0..Len(calls)
        /\ SubSeq(queue, 1 + 1, Len(queue)) = SubSeq(calls, c + 1 + 1, Len(calls))
    BY <2>4, <2>5, <2>6, Requeued
  <2>8. queue' = SubSeq(calls, (c + 1) + 1, Len(calls))
    BY <1>2, <2>7
  <2>9. Owed(durable', a, queue', c + 1) /\ c + 1 \in Nat
    BY <2>2, <2>7, <2>8 DEF Owed, calls
  <2> HIDE DEF a
  <2> QED BY <1>7, <2>9 DEF Pending
<1>11. answered \subseteq (DOMAIN durable') \X CallIds
  <2>1. DOMAIN durable \subseteq DOMAIN durable'
    BY <1>1, <1>6, <1>8
  <2> QED BY <1>1, <2>1
<1>12. TypeOK'
  <2>1. spoke' \in BOOLEAN /\ stored' \in BOOLEAN
    BY <1>1, <1>2
  <2>2. at' \in {"reason", "parse", "act", "waiting"}
    BY <1>2
  <2>9. turn' \in DOMAIN durable' /\ cut' \in Nat
    BY <1>1, <1>2, <1>6, MarksStay
  <2> QED BY <1>1, <1>2, <1>6, <1>9, <1>11, <2>1, <2>2, <2>9 DEF TypeOK
<1>13. Sent(i)'
  <2>1. i \in 0..Len(durable') /\ sent' = Sanitized(Windowed(SubSeq(durable', 1, i), cut'))
        /\ (cut' = 0 \/ cut' < i)
        /\ (Ends(durable, i + 1) => Ends(durable', i + 1) /\ durable'[i + 1] = durable[i + 1])
    BY <1>1, <1>2, <1>3, <1>6, SentStays
  <2>2. spoke' => Ends(durable', i + 1) /\ durable'[i + 1].role # "user"
    BY <1>2, <1>3, <2>1 DEF Sent
  <2>4. i = 0 \/ Ends(durable', i + 1)
    <3>1. i + 1 \in 1..Len(durable) /\ i # Len(durable)
      BY <1>1, <1>3, <1>4, <1>8 DEF Pending
    <3> QED BY <1>3, <2>1, <3>1 DEF Sent
  <2> QED BY <1>2, <1>10, <2>1, <2>2, <2>4 DEF Sent
<1>14. handed' < Len(durable') /\ Held(durable', handed') /\ at' # "act"
  BY <1>1, <1>2, <1>6, <1>8
<1>15. IInv'
  <2>1. Marked => cut' < turn'
    BY <1>2, <1>6, MarksStay
  <2> QED BY <1>3, <1>12, <1>13, <1>14, <2>1 DEF IInv
<1>16. a \in Nat /\ a - 1 = i
  BY <1>3
<1> QED BY <1>3, <1>4, <1>6, <1>10, <1>15, <1>16

\* So is the user's answer.
LEMMA RespondInv ==
  ASSUME IInv, Respond
  PROVE  IInv' /\ Extends(durable, durable')
<1>1. durable \in Seq(Message) /\ handed \in Nat /\ handed \in 0..MaxHanded /\ queue \in Seq(Call)
      /\ handed < Len(durable) /\ Held(durable, handed)
      /\ answered \subseteq (DOMAIN durable) \X CallIds /\ stored \in BOOLEAN /\ spoke \in BOOLEAN
  BY TranscriptAssumption DEF IInv, TypeOK
<1>2. /\ at = "waiting"
      /\ at' = IF queue = <<>> THEN "reason" ELSE "act"
      /\ handed' = handed /\ turn' = turn /\ cut' = cut /\ sent' = sent /\ stored' = stored /\ spoke' = spoke
      /\ answered' = answered /\ queue' = queue
  BY DEF Respond
<1>3. PICK role \in {"user", "system"} : durable' = Append(durable, Text(role))
  BY DEF Respond
<1> DEFINE x == Text(role)
<1>4. x \in Message /\ x.role # "tool" /\ Said(x) /\ x.calls = <<>>
  BY TextIs
<1>5. durable' = Append(durable, x)
  BY <1>3
<1> HIDE DEF x
<1>6. PICK i \in Nat : Sent(i)
  BY DEF IInv
<1> DEFINE a == i + 1
<1>7. Pending(durable, handed, a, queue)
  BY <1>2, <1>6 DEF Sent
<1>8. /\ durable' \in Seq(Message) /\ Len(durable') = Len(durable) + 1
      /\ Extends(durable, durable') /\ Held(durable', handed)
  BY <1>1, <1>4, <1>5, HeldAppend
<1>9. Pending(durable', handed, a, queue)
  BY <1>1, <1>4, <1>5, <1>7, PendingAppend
<1>10. Len(durable) \in Nat
  BY <1>1
<1>11. answered \subseteq (DOMAIN durable') \X CallIds
  <2>1. DOMAIN durable \subseteq DOMAIN durable'
    BY <1>1, <1>8, <1>10
  <2> QED BY <1>1, <2>1
<1>12. TypeOK'
  <2>1. spoke' \in BOOLEAN /\ stored' \in BOOLEAN
    BY <1>1, <1>2
  <2>2. at' \in {"reason", "parse", "act", "waiting"}
    BY <1>2
  <2>9. turn' \in DOMAIN durable' /\ cut' \in Nat
    BY <1>1, <1>2, <1>8, MarksStay
  <2> QED BY <1>1, <1>2, <1>8, <1>11, <2>1, <2>2, <2>9 DEF TypeOK
<1>13. Sent(i)'
  <2>1. i \in 0..Len(durable') /\ sent' = Sanitized(Windowed(SubSeq(durable', 1, i), cut'))
        /\ (cut' = 0 \/ cut' < i)
        /\ (Ends(durable, i + 1) => Ends(durable', i + 1) /\ durable'[i + 1] = durable[i + 1])
    BY <1>1, <1>2, <1>6, <1>8, SentStays
  <2>2. spoke' => Ends(durable', i + 1) /\ durable'[i + 1].role # "user"
    BY <1>2, <1>6, <2>1 DEF Sent
  <2>3. at' # "parse"
    BY <1>2
  <2>4. i = 0 \/ Ends(durable', i + 1)
    <3>1. i + 1 \in 1..Len(durable) /\ i # Len(durable)
      BY <1>1, <1>6, <1>7, <1>10 DEF Pending
    <3> QED BY <1>6, <2>1, <3>1 DEF Sent
  <2> QED BY <1>2, <1>9, <2>1, <2>2, <2>3, <2>4 DEF Sent
<1>14. handed' < Len(durable') /\ Held(durable', handed') /\ (at' = "act" => queue' # <<>>)
  BY <1>1, <1>2, <1>8, <1>10
<1>15. Marked => cut' < turn'
  BY <1>2, <1>8, MarksStay
<1> QED BY <1>6, <1>8, <1>12, <1>13, <1>14, <1>15 DEF IInv

\* A turn of a visit ends with the assistant's answer and begins with the user's words.
LEMMA NextTurnInv ==
  ASSUME IInv, NextTurn
  PROVE  IInv' /\ Extends(durable, durable')
<1> DEFINE x == Text("assistant")
           y == Text("user")
           w == Append(durable, x)
<1>1. durable \in Seq(Message) /\ handed \in Nat /\ handed \in 0..MaxHanded /\ queue \in Seq(Call)
      /\ handed < Len(durable) /\ Held(durable, handed)
      /\ answered \subseteq (DOMAIN durable) \X CallIds /\ stored \in BOOLEAN /\ spoke \in BOOLEAN
      /\ turn \in DOMAIN durable /\ cut \in Nat /\ (Marked => cut < turn)
  BY TranscriptAssumption DEF IInv, TypeOK
<1>2. /\ at = "parse" /\ at' = "reason" /\ durable' = durable \o <<x, y>>
      /\ handed' = handed /\ cut' = cut /\ sent' = sent /\ stored' = stored /\ spoke' = TRUE
      /\ answered' = answered /\ queue' = queue /\ turn' = Len(durable')
  BY DEF NextTurn
<1>3. x \in Message /\ x.role = "assistant" /\ Said(x) /\ x.calls = <<>>
  BY TextIs
<1>4. y \in Message /\ y.role # "tool" /\ Said(y) /\ y.calls = <<>>
  BY TextIs
<1> HIDE DEF x, y
<1>5. /\ w \in Seq(Message) /\ Len(w) = Len(durable) + 1 /\ Extends(durable, w)
      /\ w[Len(durable) + 1] = x /\ Ends(w, Len(durable) + 1) /\ Held(w, handed)
  BY <1>1, <1>3, HeldAppend
<1>6. durable' = Append(w, y)
  <2>1. <<x>> \in Seq(Message) /\ <<y>> \in Seq(Message)
    BY <1>3, <1>4
  <2>2. <<x>> \o <<y>> = <<x, y>>
    <3> DEFINE s == <<x>> \o <<y>>
    <3>1. Len(<<x>>) = 1 /\ Len(<<y>>) = 1 /\ <<x>>[1] = x /\ <<y>>[1] = y
      OBVIOUS
    <3>2. s \in Seq(Message) /\ Len(s) = 1 + 1
          /\ \A i \in 1..(1 + 1) : s[i] = IF i <= 1 THEN <<x>>[i] ELSE <<y>>[i - 1]
      BY <2>1, <3>1, ConcatProperties
    <3> HIDE DEF s
    <3>3. s[1] = x /\ s[2] = y /\ Len(s) = 2
      BY <3>1, <3>2
    <3>4. <<x, y>> \in Seq(Message) /\ Len(<<x, y>>) = 2
          /\ <<x, y>>[1] = x /\ <<x, y>>[2] = y
      BY <1>3, <1>4
    <3>5. \A i \in 1..Len(s) : s[i] = <<x, y>>[i]
      <4>1. \A i \in 1..Len(s) : i = 1 \/ i = 2
        BY <3>3
      <4> QED BY <3>3, <3>4, <4>1
    <3>6. s = <<x, y>>
      BY <3>2, <3>3, <3>4, <3>5, SeqEqual
    <3> QED BY <3>6 DEF s
  <2>3. durable \o <<x>> = w
    BY <1>1, <1>3
  <2>4. (durable \o <<x>>) \o <<y>> = durable \o (<<x>> \o <<y>>)
    BY <1>1, <2>1, ConcatAssociative
  <2> HIDE DEF w
  <2>5. w \o <<y>> = Append(w, y)
    BY <1>4, <1>5
  <2> QED BY <1>2, <2>2, <2>3, <2>4, <2>5
<1> HIDE DEF w
<1>7. /\ durable' \in Seq(Message) /\ Len(durable') = Len(w) + 1 /\ Extends(w, durable')
      /\ Held(durable', handed)
  BY <1>1, <1>4, <1>5, <1>6, HeldAppend
<1>8. Extends(durable, durable') /\ Len(durable) \in Nat
  BY <1>1, <1>5, <1>7, ExtendsTwice
<1>9. PICK n \in Nat : Sent(n)
  BY DEF IInv
<1>10. n = Len(durable)
  BY <1>2, <1>9 DEF Sent
<1>11. answered \subseteq (DOMAIN durable') \X CallIds
  <2>1. DOMAIN durable \subseteq DOMAIN durable'
    BY <1>1, <1>5, <1>7, <1>8
  <2> QED BY <1>1, <2>1
<1>12. TypeOK'
  <2>1. spoke' \in BOOLEAN /\ stored' \in BOOLEAN
    BY <1>1, <1>2
  <2>2. at' \in {"reason", "parse", "act", "waiting"}
    BY <1>2
  <2>3. turn' \in DOMAIN durable' /\ cut' \in Nat
    <3>1. DOMAIN durable' = 1..Len(durable') /\ Len(durable') \in Nat \ {0}
      BY <1>5, <1>7, <1>8
    <3> QED BY <1>1, <1>2, <3>1
  <2> QED BY <1>1, <1>2, <1>7, <1>11, <2>1, <2>2, <2>3 DEF TypeOK
<1>13. Sent(n)'
  <2>1. n \in 0..Len(durable') /\ sent' = Sanitized(Windowed(SubSeq(durable', 1, n), cut'))
        /\ (cut' = 0 \/ cut' < n)
    BY <1>1, <1>2, <1>7, <1>8, <1>9, SentStays
  <2>2. n + 1 \in 1..Len(w) /\ durable'[n + 1] = x
    BY <1>5, <1>7, <1>8, <1>10 DEF Extends
  <2>3. Ends(durable', n + 1) /\ durable'[n + 1].role # "user"
    BY <1>3, <1>5, <1>7, <1>8, <1>10, <2>2 DEF Ends
  <2> QED BY <1>2, <2>1, <2>3 DEF Sent
<1>14. handed' < Len(durable') /\ Held(durable', handed') /\ at' # "act"
  BY <1>1, <1>2, <1>5, <1>7, <1>8
<1>15. Marked => cut' < turn'
  <2>1. turn \in Nat /\ turn <= Len(durable) /\ Len(durable') = Len(durable) + 2
    BY <1>1, <1>5, <1>7, <1>8
  <2> QED BY <1>1, <1>2, <1>8, <2>1
<1> QED BY <1>8, <1>9, <1>12, <1>13, <1>14, <1>15 DEF IInv

\* Every step keeps the invariant, and messages are only appended.
LEMMA NextInv ==
  IInv /\ [Next]_vars => IInv' /\ Extends(durable, durable')
<1> SUFFICES ASSUME IInv, [Next]_vars PROVE IInv' /\ Extends(durable, durable')
  OBVIOUS
<1>1. ASSUME NEW guided \in BOOLEAN, NEW chrome \in BOOLEAN, NEW actionable \in BOOLEAN,
             Reason(guided, chrome, actionable)
      PROVE  IInv' /\ Extends(durable, durable')
  BY <1>1, ReasonInv
<1>2. ASSUME NEW batch \in Batches, NEW blank \in BOOLEAN, Announce(batch, blank)
      PROVE  IInv' /\ Extends(durable, durable')
  BY <1>2, AnnounceInv
<1>3. ASSUME NEW n \in 1..Len(queue), Act(n) PROVE IInv' /\ Extends(durable, durable')
  BY <1>3, ActInv
<1>4. CASE Retry
  BY <1>4, RetryInv
<1>5. CASE Ask
  BY <1>5, AskInv
<1>6. CASE Respond
  BY <1>6, RespondInv
<1>7. CASE NextTurn
  BY <1>7, NextTurnInv
<1>8. CASE UNCHANGED vars
  <2>1. IInv'
    BY <1>8 DEF IInv, TypeOK, Sent, vars
  <2>2. durable \in Seq(Message) /\ durable' = durable
    BY <1>8 DEF IInv, TypeOK, vars
  <2>3. Extends(durable, durable')
    BY <2>2 DEF Extends
  <2> QED BY <2>1, <2>3
<1> QED BY <1>1, <1>2, <1>3, <1>4, <1>5, <1>6, <1>7, <1>8 DEF Next

-----------------------------------------------------------------------------
(* Theorems *)

\* In every reachable state each variable holds what the code can store in it, and the
\* durable transcript is what the invariant says.
THEOREM TypeCorrect == Spec => []TypeOK
<1>1. Init => IInv
  BY InitInv
<1>2. IInv /\ [Next]_vars => IInv'
  BY NextInv
<1>3. IInv => TypeOK
  BY DEF IInv
<1> QED BY <1>1, <1>2, <1>3, PTL DEF Spec

\* The last request is the payload of a window of some first messages, in which the
\* loop's own announcements were served.
LEMMA SentIs ==
  ASSUME IInv
  PROVE  \E n \in Nat :
           LET v == Windowed(SubSeq(durable, 1, n), cut)
           IN  /\ n \in 0..Len(durable) /\ Sent(n) /\ cut \in 0..n
               /\ SubSeq(durable, 1, n) \in Seq(Message)
               /\ Len(SubSeq(durable, 1, n)) = n
               /\ v \in Seq(Message) /\ sent = Sanitized(v)
               /\ \A k \in 1..Len(v) : Place(cut, k) \in 1..n
               /\ \A k \in 1..Len(v) :
                    IF Notice(cut, k) THEN v[k].calls = <<>>
                    ELSE /\ v[k] = durable[Place(cut, k)]
                         /\ v[k].calls # <<>> /\ Place(cut, k) > handed => Served(v, k)
<1>1. durable \in Seq(Message) /\ handed \in Nat /\ Held(durable, handed) /\ cut \in Nat
  BY TranscriptAssumption DEF IInv, TypeOK
<1>2. PICK n \in Nat : Sent(n)
  BY DEF IInv
<1> DEFINE b == SubSeq(durable, 1, n)
<1>3. n \in 0..Len(durable) /\ sent = Sanitized(Windowed(b, cut)) /\ cut \in 0..n
  BY <1>1, <1>2 DEF Sent
<1>4. b \in Seq(Message) /\ Len(b) = n /\ \A i \in 1..n : b[i] = durable[i]
  BY <1>1, <1>3, CutIs
<1> HIDE DEF b
<1>5. ASSUME NEW j \in (handed + 1)..n, durable[j].calls # <<>> PROVE Served(b, j)
  <2>1. j \in 1..n /\ j \in (handed + 1)..Len(durable) /\ j \in 1..Len(durable) /\ j \in Nat
        /\ Len(durable) \in Nat /\ n <= Len(durable)
    BY <1>1, <1>3
  <2>2. Served(durable, j) /\ b[j] = durable[j]
    BY <1>1, <1>4, <1>5, <2>1 DEF Held
  <2> DEFINE calls == durable[j].calls
  <2>3. calls \in Seq(Call) /\ Len(calls) \in Nat
    <3>1. durable[j] \in Message
      BY <1>1, <2>1
    <3>2. calls \in Seq(Call)
      BY <3>1 DEF Message
    <3>3. Len(calls) \in Nat
      BY <3>2
    <3> QED BY <3>2, <3>3
  <2>4. PICK c \in 0..Len(calls) :
          Came(durable, j, c) /\ (Ends(durable, j + c + 1) \/ j + c = Len(durable))
    BY <2>2 DEF Served, Closed
  <2>5. c \in Nat /\ c <= Len(calls) /\ j + c <= Len(durable)
        /\ \A i \in 1..c : durable[j + i] = Answering(calls[i].id)
    BY <2>3, <2>4 DEF Came
  <2> HIDE DEF calls
  <2>6. CASE j + c < n
    <3>1. Ends(durable, j + c + 1) /\ j + c + 1 \in 1..n
      BY <2>1, <2>4, <2>5, <2>6
    <3>2. Ends(b, j + c + 1)
      BY <1>4, <2>1, <3>1 DEF Ends
    <3>3. \A i \in 1..c : j + i \in 1..n
      BY <2>1, <2>5, <2>6
    <3>4. b[j].calls = calls
      BY <2>2 DEF calls
    <3>5. \A i \in 1..c : b[j + i] = Answering(calls[i].id)
      BY <1>4, <2>5, <3>3
    <3>6. j + c <= Len(b)
      BY <1>4, <2>6
    <3>7. Came(b, j, c)
      BY <2>4, <3>4, <3>5, <3>6 DEF Came
    <3> QED BY <2>4, <3>2, <3>4, <3>7 DEF Served, Closed
  <2>7. CASE ~(j + c < n)
    <3>1. n - j \in 0..Len(calls) /\ j + (n - j) = n /\ n - j <= c
      BY <2>1, <2>3, <2>5, <2>7
    <3>2. \A i \in 1..(n - j) : j + i \in 1..n /\ i \in 1..c
      BY <2>1, <2>5, <3>1
    <3>3. b[j].calls = calls
      BY <2>2 DEF calls
    <3>4. \A i \in 1..(n - j) : b[j + i] = Answering(b[j].calls[i].id)
      BY <1>4, <2>5, <3>2, <3>3
    <3>5. Came(b, j, n - j) /\ n - j \in 0..Len(b[j].calls)
      BY <1>4, <3>1, <3>3, <3>4 DEF Came
    <3> QED BY <1>4, <3>1, <3>5 DEF Served
  <2> QED BY <2>6, <2>7
<1> DEFINE v == Windowed(b, cut)
<1>6. /\ v \in Seq(Message)
      /\ \A k \in 1..Len(v) :
           /\ Place(cut, k) \in 1..n
           /\ v[k] = IF Notice(cut, k) THEN Text("user") ELSE b[Place(cut, k)]
  BY <1>3, <1>4, WindowIs
<1>7. ASSUME NEW k \in 1..Len(v)
      PROVE  IF Notice(cut, k) THEN v[k].calls = <<>>
             ELSE /\ v[k] = durable[Place(cut, k)]
                  /\ v[k].calls # <<>> /\ Place(cut, k) > handed => Served(v, k)
  <2>1. Place(cut, k) \in 1..n
    BY <1>6
  <2>2. CASE Notice(cut, k)
    BY <1>6, <2>2, TextIs
  <2>3. CASE ~Notice(cut, k)
    <3>1. v[k] = b[Place(cut, k)] /\ b[Place(cut, k)] = durable[Place(cut, k)]
      BY <1>4, <1>6, <2>1, <2>3
    <3>2. ASSUME v[k].calls # <<>>, Place(cut, k) > handed PROVE Served(v, k)
      <4>1. Place(cut, k) \in (handed + 1)..n /\ durable[Place(cut, k)].calls # <<>>
        BY <1>1, <2>1, <3>1, <3>2
      <4>2. Served(b, Place(cut, k))
        BY <1>5, <4>1
      <4>3. cut \in 0..Len(b)
        BY <1>3, <1>4
      <4> QED BY <1>4, <2>3, <4>2, <4>3, WindowServed
    <3> QED BY <2>3, <3>1, <3>2
  <2> QED BY <2>2, <2>3
<1>8. \A k \in 1..Len(v) : Place(cut, k) \in 1..n
  BY <1>6
<1>9. v \in Seq(Message) /\ sent = Sanitized(v)
  BY <1>3, <1>6
<1> HIDE DEF v
<1> QED BY <1>2, <1>3, <1>4, <1>7, <1>8, <1>9 DEF b, v

\* The payload sent has the shape providers ask for, as every payload has.
LEMMA AcceptedInv == IInv => RequestIsAccepted
<1> SUFFICES ASSUME IInv PROVE RequestIsAccepted
  OBVIOUS
<1>1. PICK n \in Nat :
        LET v == Windowed(SubSeq(durable, 1, n), cut)
        IN  /\ v \in Seq(Message) /\ sent = Sanitized(v)
            /\ \A k \in 1..Len(v) :
                 IF Notice(cut, k) THEN v[k].calls = <<>>
                 ELSE v[k].calls # <<>> /\ Place(cut, k) > handed => Served(v, k)
  BY SentIs
<1> DEFINE v == Windowed(SubSeq(durable, 1, n), cut)
<1>2. /\ v \in Seq(Message) /\ sent = Sanitized(v)
      /\ \A k \in 1..Len(v) : v[k].calls # <<>> /\ Place(cut, k) > handed => Served(v, k)
  BY <1>1
<1> HIDE DEF v
<1>3. Acceptable(sent)
  BY <1>2, SanitizedAccepted
<1>4. sent \in Seq(Entry) /\ Shape(v, sent)
  BY <1>2, SanitizedFits
<1>5. ASSUME NEW j \in DOMAIN sent, NEW id \in Ids(sent[j].calls), Origin(sent[j]) > handed
      PROVE  Cardinality({k \in DOMAIN sent : InRunOf(sent, k, j) /\ sent[k].id = id})
               \in 1..Cardinality({c \in DOMAIN sent[j].calls : sent[j].calls[c].id = id})
  <2>1. sent[j].calls # <<>>
    BY DEF Ids
  <2>2. PICK k \in Kept(v) : sent[j] = Itself(v, k) /\ k \in 1..Len(v)
    BY <1>2, <1>4, <2>1, RunIs
  <2>3. sent[j].calls = v[k].calls /\ Origin(sent[j]) = Place(cut, k)
    <3>1. sent[j].calls = v[k].calls /\ sent[j].parts = <<Part(k, "self")>>
      BY <1>2, <2>2, ItselfIs
    <3>2. <<Part(k, "self")>>[1].from = k
      BY DEF Part
    <3> QED BY <3>1, <3>2 DEF Origin
  <2>4. Served(v, k)
    BY <1>2, <1>5, <2>1, <2>2, <2>3
  <2> QED BY <1>2, <1>4, <2>1, <2>2, <2>4, ServedCount
<1> QED BY <1>3, <1>5 DEF RequestIsAccepted

\* It carries each message of the window that says something exactly once, as every
\* payload does.
LEMMA DroppedInv == IInv => NothingDropped
<1> SUFFICES ASSUME IInv, at = "parse"
             PROVE  LET said == {k \in 1..Len(Windowed(durable, cut)) :
                                   LET m == durable[Place(cut, k)]
                                   IN  (cut > 0 /\ k = 1) \/ ~m.blank \/ m.calls # <<>>}
                    IN  /\ Marked => cut < turn
                        /\ \A k \in said : CarriesOnce(sent, k)
                        /\ \A e \in DOMAIN sent : \A p \in DOMAIN sent[e].parts :
                             sent[e].parts[p].from \in said \union {0}
  BY DEF NothingDropped
<1> DEFINE v == Windowed(durable, cut)
           said == {k \in 1..Len(v) : LET m == durable[Place(cut, k)]
                                     IN  (cut > 0 /\ k = 1) \/ ~m.blank \/ m.calls # <<>>}
<1>1. durable \in Seq(Message) /\ cut \in Nat /\ (Marked => cut < turn)
  BY DEF IInv, TypeOK
<1>2. PICK n \in Nat : Sent(n)
  BY DEF IInv
<1>3. sent = Sanitized(v) /\ cut \in 0..Len(durable)
  <2>1. SubSeq(durable, 1, Len(durable)) = durable /\ Len(durable) \in Nat
    BY <1>1, SubSeqFull
  <2>2. n = Len(durable) /\ sent = Sanitized(Windowed(SubSeq(durable, 1, n), cut))
        /\ (cut = 0 \/ cut < n)
    BY <1>2 DEF Sent
  <2>3. cut \in 0..Len(durable)
    BY <1>1, <2>1, <2>2
  <2> QED BY <2>1, <2>2, <2>3
<1>4. /\ v \in Seq(Message)
      /\ \A k \in 1..Len(v) :
           v[k] = IF Notice(cut, k) THEN Text("user") ELSE durable[Place(cut, k)]
  BY <1>1, <1>3, WindowIs
<1> HIDE DEF v
<1>5. CarriesAll(sent, Kept(v))
  BY <1>3, <1>4, SanitizedFits
<1>6. Kept(v) = said
  <2>1. ASSUME NEW k \in 1..Len(v)
        PROVE  (~v[k].blank \/ v[k].calls # <<>>)
                 <=> LET m == durable[Place(cut, k)]
                     IN  (cut > 0 /\ k = 1) \/ ~m.blank \/ m.calls # <<>>
    <3>1. CASE Notice(cut, k)
      <4>1. Said(v[k])
        BY <1>4, <3>1, TextIs
      <4> QED BY <3>1, <4>1 DEF Notice, Said
    <3>2. CASE ~Notice(cut, k)
      <4>1. v[k] = durable[Place(cut, k)]
        BY <1>4, <3>2
      <4> QED BY <3>2, <4>1 DEF Notice
    <3> QED BY <3>1, <3>2
  <2>2. DOMAIN v = 1..Len(v)
    BY <1>4
  <2> QED BY <2>1, <2>2 DEF Kept
<1> HIDE DEF said
<1>7. \A k \in said : CarriesOnce(sent, k)
  BY <1>5, <1>6 DEF CarriesAll
<1>8. \A e \in DOMAIN sent : \A p \in DOMAIN sent[e].parts :
        sent[e].parts[p].from \in said \union {0}
  BY <1>5, <1>6 DEF CarriesAll, At
<1> QED BY <1>1, <1>7, <1>8 DEF said, v

\* What is sent next extends what was sent last, unless the assistant was silent or
\* the window moved.
LEMMA PrefixStep ==
  IInv /\ [Next]_vars
    => [sent' # sent /\ stored /\ spoke /\ cut' = cut => IsPrefix(sent, sent')]_vars
<1> SUFFICES ASSUME IInv, [Next]_vars, sent' # sent, spoke, cut' = cut PROVE IsPrefix(sent, sent')
  OBVIOUS
<1>1. IInv' /\ Extends(durable, durable')
  BY NextInv
<1>2. at' = "parse"
  <2>1. ASSUME NEW guided \in BOOLEAN, NEW chrome \in BOOLEAN, NEW actionable \in BOOLEAN,
               Reason(guided, chrome, actionable)
        PROVE  at' = "parse"
    BY <2>1 DEF Reason
  <2>2. ASSUME NEW batch \in Batches, NEW blank \in BOOLEAN, Announce(batch, blank)
        PROVE  FALSE
    BY <2>2 DEF Announce
  <2>3. ASSUME NEW n \in 1..Len(queue), Act(n) PROVE FALSE
    BY <2>3 DEF Act
  <2>4. ~Retry /\ ~Ask /\ ~Respond /\ ~NextTurn /\ ~UNCHANGED vars
    BY DEF Retry, Ask, Respond, NextTurn, vars
  <2> QED BY <2>1, <2>2, <2>3, <2>4 DEF Next
<1>3. durable \in Seq(Message) /\ durable' \in Seq(Message) /\ cut \in Nat
  BY <1>1 DEF IInv, TypeOK
<1>4. sent' = Sanitized(Windowed(durable', cut))
  <2>1. PICK n \in Nat : Sent(n)'
    BY <1>1 DEF IInv
  <2>2. n = Len(durable') /\ sent' = Sanitized(Windowed(SubSeq(durable', 1, n), cut))
    BY <1>2, <2>1 DEF Sent
  <2>3. SubSeq(durable', 1, n) = durable'
    BY <1>3, <2>2, SubSeqFull
  <2> QED BY <2>2, <2>3
<1>5. PICK n \in Nat : Sent(n)
  BY DEF IInv
<1> DEFINE b == SubSeq(durable, 1, n)
<1>6. /\ n \in 0..Len(durable) /\ sent = Sanitized(Windowed(b, cut)) /\ cut \in 0..n
      /\ cut = 0 \/ cut < n
      /\ Ends(durable, n + 1) /\ durable[n + 1].role # "user"
  BY <1>3, <1>5 DEF Sent
<1>7. b \in Seq(Message) /\ Len(b) = n /\ Extends(b, durable)
  BY <1>3, <1>6, CutIs
<1> HIDE DEF b
<1>8. Extends(b, durable')
  BY <1>1, <1>3, <1>7, ExtendsTwice
<1> DEFINE v == Windowed(b, cut)
           w == Windowed(durable', cut)
<1>9. v \in Seq(Message) /\ w \in Seq(Message) /\ Extends(v, w)
      /\ Len(v) = n - Off(cut) /\ Off(cut) \in Nat
      /\ Len(w) = Len(durable') - Off(cut)
      /\ \A k \in 1..Len(w) :
           /\ Place(cut, k) = k + Off(cut)
           /\ w[k] = IF Notice(cut, k) THEN Text("user") ELSE durable'[Place(cut, k)]
  <2>1. cut \in 0..Len(b) /\ cut \in 0..Len(durable')
    BY <1>3, <1>6, <1>7, <1>8, WindowExtends
  <2> QED BY <1>3, <1>7, <1>8, <2>1, WindowIs, WindowExtends
<1> HIDE DEF v, w
<1>10. Ends(w, Len(v) + 1) /\ w[Len(v) + 1].role # "user"
  <2>1. n + 1 \in 1..Len(durable) /\ n + 1 <= Len(durable') /\ Len(durable') \in Nat
    <3>1. Len(durable) \in Nat /\ Len(durable') \in Nat /\ Len(durable) <= Len(durable')
      BY <1>1, <1>3 DEF Extends
    <3> QED BY <1>6, <3>1 DEF Ends
  <2>2. durable'[n + 1] = durable[n + 1]
    BY <1>1, <2>1 DEF Extends
  <2>3. Len(v) \in Nat /\ Len(v) + 1 \in 1..Len(w) /\ (Len(v) + 1) + Off(cut) = n + 1
    BY <1>9, <2>1
  <2>4. ~Notice(cut, Len(v) + 1)
    BY <1>3, <1>6, <1>9 DEF Notice, Off
  <2>5. w[Len(v) + 1] = durable[n + 1]
    BY <1>9, <2>2, <2>3, <2>4
  <2> QED BY <1>6, <2>3, <2>5 DEF Ends
<1>11. IsPrefix(Sanitized(v), Sanitized(w))
  BY <1>9, <1>10, PrefixKept
<1> QED BY <1>4, <1>6, <1>11 DEF v, w

\* Whatever a session hands over and whichever batches are announced, every request is
\* acceptable to a strict provider, and the loop's own calls have their results in it.
THEOREM RequestsAreAccepted == Spec => []RequestIsAccepted
<1>1. Init => IInv
  BY InitInv
<1>2. IInv /\ [Next]_vars => IInv'
  BY NextInv
<1>3. IInv => RequestIsAccepted
  BY AcceptedInv
<1> QED BY <1>1, <1>2, <1>3, PTL DEF Spec

\* The repair loses no message the window keeps, among them the turn in progress where
\* a host marks it, and makes up nothing but stand-ins and the notice.
THEOREM NothingIsDropped == Spec => []NothingDropped
<1>1. Init => IInv
  BY InitInv
<1>2. IInv /\ [Next]_vars => IInv'
  BY NextInv
<1>3. IInv => NothingDropped
  BY DroppedInv
<1> QED BY <1>1, <1>2, <1>3, PTL DEF Spec

\* While the window leaves out the same, a call's messages are a prefix of the next
\* call's once the assistant spoke.
THEOREM PrefixIsKept == Spec => SentIsPrefix
<1>1. Init => IInv
  BY InitInv
<1>2. IInv /\ [Next]_vars => IInv'
  BY NextInv
<1>3. IInv /\ [Next]_vars
        => [sent' # sent /\ stored /\ spoke /\ cut' = cut => IsPrefix(sent, sent')]_vars
  BY PrefixStep
<1> QED BY <1>1, <1>2, <1>3, PTL DEF Spec, SentIsPrefix

-----------------------------------------------------------------------------
(* What is declared missing *)

\* One of the first c calls puts a question to the user.
Asked(calls, c) == \E d \in 1..c : calls[d].name = AskUser

\* The queue q holds the calls of message a from the one after the c-th on.  Of those
\* done with, each came back in the run behind its announcement, or was done behind a
\* question; and unless there was one, the run is still open.
Worked(m, a, q, c) ==
  /\ c \in 0..Len(m[a].calls)
  /\ q = SubSeq(m[a].calls, c + 1, Len(m[a].calls))
  /\ ~Closed(m, a) \/ Asked(m[a].calls, c)
  /\ \A x \in 1..c : Back(m, a, m[a].calls[x].id) \/ Asked(m[a].calls, x)

\* What has been noted as answered came back right behind its announcement or was done
\* behind a question.
Returned ==
  /\ at \in {"act", "waiting"} =>
       \E a, c \in Nat : /\ Pending(durable, handed, a, queue)
                         /\ Worked(durable, a, queue, c)
                         /\ at = "waiting" => Asked(durable[a].calls, c)
  /\ \A j, id : <<j, id>> \in answered =>
       /\ j \in (handed + 1)..Len(durable)
       /\ Back(durable, j, id) \/ BehindAQuestion(durable[j].calls, id)

\* What came back stays where it is.
LEMMA BackLater ==
  ASSUME durable \in Seq(Message), durable' \in Seq(Message), Extends(durable, durable'),
         handed \in Nat, handed' = handed, Returned,
         NEW j, NEW id, <<j, id>> \in answered
  PROVE  /\ j \in (handed' + 1)..Len(durable')
         /\ Back(durable', j, id) \/ BehindAQuestion(durable'[j].calls, id)
<1>1. /\ j \in (handed + 1)..Len(durable)
      /\ Back(durable, j, id) \/ BehindAQuestion(durable[j].calls, id)
  BY DEF Returned
<1>2. Len(durable) \in Nat /\ Len(durable') \in Nat /\ Len(durable) <= Len(durable')
  BY DEF Extends
<1>3. j \in 1..Len(durable) /\ j \in (handed' + 1)..Len(durable')
  BY <1>1, <1>2
<1>4. durable'[j] = durable[j]
  BY <1>3 DEF Extends
<1> QED BY <1>1, <1>3, <1>4, BackStays

\* The calls of an announcement that is pending.
LEMMA PendingCalls ==
  ASSUME NEW m \in Seq(Message), NEW h \in Nat, NEW a, NEW q, Pending(m, h, a, q)
  PROVE  /\ a \in 1..Len(m) /\ a \in (h + 1)..Len(m)
         /\ m[a].calls \in Seq(Call) /\ Len(m[a].calls) \in Nat
<1>1. a \in 1..Len(m) /\ a \in (h + 1)..Len(m)
  <2>1. Len(m) \in Nat
    OBVIOUS
  <2> QED BY <2>1 DEF Pending
<1>2. m[a] \in Message
  BY <1>1
<1>3. m[a].calls \in Seq(Call)
  BY <1>2 DEF Message
<1>4. Len(m[a].calls) \in Nat
  BY <1>3
<1> QED BY <1>1, <1>3, <1>4

\* A batch just announced has an open run of no results.
LEMMA ReturnedAnnounce ==
  ASSUME IInv, IInv', Extends(durable, durable'), Returned,
         NEW batch \in Batches, NEW blank \in BOOLEAN, Announce(batch, blank)
  PROVE  Returned'
<1> DEFINE calls == Stamped(batch)
           x == Announcing(calls, blank)
           a == Len(durable) + 1
<1>1. durable \in Seq(Message) /\ durable' \in Seq(Message) /\ handed \in Nat
      /\ Held(durable, handed) /\ handed < Len(durable)
  BY TranscriptAssumption DEF IInv, TypeOK
<1>2. /\ at = "parse" /\ durable' = Append(durable, x) /\ queue' = calls /\ at' = "act"
      /\ handed' = handed /\ answered' = answered
  BY DEF Announce
<1>3. /\ calls \in Seq(Call) /\ calls # <<>> /\ Len(calls) \in Nat
      /\ x \in Message /\ x.role = "assistant" /\ Said(x) /\ x.calls = calls
  <2>1. calls \in Seq(Call) /\ calls # <<>>
        /\ x \in Message /\ x.role = "assistant" /\ Said(x) /\ x.calls = calls
    BY AnnouncingIs
  <2> HIDE DEF calls, x
  <2> QED BY <2>1
<1> HIDE DEF calls, x
<1>4. Len(durable') = a /\ durable'[a] = x
  BY <1>1, <1>2, <1>3, HeldAppend
<1>5. Len(durable) \in Nat /\ a \in Nat
  BY <1>1
<1>6. PICK n \in Nat : Sent(n)'
  BY DEF IInv
<1>7. Pending(durable', handed', n + 1, queue')
  BY <1>2, <1>6 DEF Sent
<1> HIDE DEF a
<1>8. n + 1 = a
  <2>1. n + 1 \in 1..a /\ (n + 1 = a \/ a \in (n + 2)..Len(durable'))
    BY <1>1, <1>2, <1>4, <1>5, <1>6, <1>7 DEF Pending
  <2>2. (n + 1) + 1 = n + 2
    BY <1>6
  <2>3. \A k \in (n + 2)..Len(durable') : durable'[k].calls = <<>>
    BY <1>7, <2>2 DEF Pending
  <2> QED BY <1>3, <1>4, <2>1, <2>3
<1>9. ~Closed(durable', a)
  <2>1. Came(durable', a, 0)
    BY <1>3, <1>4, <1>5 DEF Came
  <2>2. a \in 1..Len(durable') /\ a + 0 = Len(durable')
    BY <1>4, <1>5 DEF a
  <2> QED BY <1>1, <2>1, <2>2, AllCame
<1>10. Worked(durable', a, queue', 0)
  <2>1. queue' = SubSeq(durable'[a].calls, 0 + 1, Len(durable'[a].calls))
    <3>1. SubSeq(calls, 1, Len(calls)) = calls
      BY <1>3, SubSeqFull
    <3> QED BY <1>2, <1>3, <1>4, <3>1
  <2>2. 0 \in 0..Len(durable'[a].calls)
    BY <1>3, <1>4
  <2> QED BY <1>9, <2>1, <2>2 DEF Worked
<1>11. \A j, id : <<j, id>> \in answered' =>
         /\ j \in (handed' + 1)..Len(durable')
         /\ Back(durable', j, id) \/ BehindAQuestion(durable'[j].calls, id)
  BY <1>1, <1>2, BackLater
<1>12. at' # "waiting"
  BY <1>2
<1> QED BY <1>5, <1>7, <1>8, <1>10, <1>11, <1>12 DEF Returned

\* Results of its calls extend the run right behind it as long as it is open.
LEMMA ReturnedAct ==
  ASSUME IInv, IInv', Extends(durable, durable'), Returned,
         NEW n \in 1..Len(queue), Act(n)
  PROVE  Returned'
<1>1. durable \in Seq(Message) /\ durable' \in Seq(Message) /\ handed \in Nat
      /\ Held(durable, handed) /\ queue \in Seq(Call)
  BY TranscriptAssumption DEF IInv, TypeOK
<1>2. /\ at = "act" /\ durable' = durable \o [k \in 1..n |-> Answering(queue[k].id)]
      /\ answered' = answered \union {<<LastAnnounced, queue[k].id>> : k \in 1..n}
      /\ queue' = SubSeq(queue, n + 1, Len(queue))
      /\ at' = IF queue' = <<>> THEN "reason" ELSE "act"
      /\ handed' = handed
  BY DEF Act, ResultId
<1>3. PICK a, c \in Nat : Pending(durable, handed, a, queue) /\ Worked(durable, a, queue, c)
  BY <1>2 DEF Returned
<1>4. /\ Pending(durable', handed', a, queue')
      /\ ~Closed(durable, a) => ~Closed(durable', a) /\ \A k \in 1..n : Back(durable', a, queue[k].id)
  BY <1>1, <1>2, <1>3, PendingResults
<1>5. LastAnnounced = a
  BY <1>1, <1>3, LastIs
<1> DEFINE calls == durable[a].calls
<1>6. a \in 1..Len(durable) /\ calls \in Seq(Call) /\ Len(calls) \in Nat
      /\ a \in (handed' + 1)..Len(durable') /\ durable'[a] = durable[a]
  <2>1. a \in 1..Len(durable) /\ calls \in Seq(Call) /\ Len(calls) \in Nat
    BY <1>1, <1>3, PendingCalls
  <2>2. a \in (handed' + 1)..Len(durable')
    <3>1. handed' \in Nat
      BY <1>1, <1>2
    <3> QED BY <1>1, <1>4, <3>1, PendingCalls
  <2> QED BY <2>1, <2>2 DEF Extends
<1>7. /\ c \in 0..Len(calls) /\ queue = SubSeq(calls, c + 1, Len(calls))
      /\ ~Closed(durable, a) \/ Asked(calls, c)
      /\ \A x \in 1..c : Back(durable, a, calls[x].id) \/ Asked(calls, x)
  BY <1>3 DEF Worked
<1> HIDE DEF calls
<1>8. /\ Len(queue) = Len(calls) - c /\ \A i \in 1..Len(queue) : queue[i] = calls[c + i]
      /\ c + n \in 0..Len(calls)
      /\ queue' = SubSeq(calls, (c + n) + 1, Len(calls))
  <2>1. n \in 0..Len(queue)
    BY <1>1
  <2>2. calls \in Seq(Call) /\ c \in 0..Len(calls) /\ queue = SubSeq(calls, c + 1, Len(calls))
    BY <1>6, <1>7
  <2>3. queue' = SubSeq(queue, n + 1, Len(queue))
    BY <1>2
  <2>4. /\ Len(queue) = Len(calls) - c /\ \A i \in 1..Len(queue) : queue[i] = calls[c + i]
        /\ c + n \in 0..Len(calls)
        /\ SubSeq(queue, n + 1, Len(queue)) = SubSeq(calls, c + n + 1, Len(calls))
    BY <2>1, <2>2, Requeued
  <2> QED BY <2>3, <2>4
<1>9. Len(queue) \in Nat /\ n \in Nat /\ n <= Len(queue) /\ c + n \in Nat
  BY <1>1, <1>3
<1>10. \A x \in c..(c + n) : Asked(calls, c) => Asked(calls, x)
  <2>1. \A x \in c..(c + n), d \in 1..c : d \in 1..x
    BY <1>3, <1>9
  <2> QED BY <2>1 DEF Asked
<1>11. \A x \in 1..(c + n) : Back(durable', a, calls[x].id) \/ Asked(calls, x)
  <2> SUFFICES ASSUME NEW x \in 1..(c + n)
               PROVE  Back(durable', a, calls[x].id) \/ Asked(calls, x)
    OBVIOUS
  <2>1. CASE x \in 1..c
    BY <1>1, <1>6, <1>7, <2>1, BackStays
  <2>2. CASE x \notin 1..c
    <3>1. x - c \in 1..n /\ x - c \in 1..Len(queue) /\ c + (x - c) = x /\ x \in c..(c + n)
      BY <1>3, <1>9, <2>2
    <3>2. queue[x - c] = calls[x]
      BY <1>8, <3>1
    <3> QED BY <1>4, <1>7, <1>10, <3>1, <3>2
  <2> QED BY <2>1, <2>2
<1>12. Worked(durable', a, queue', c + n)
  <2>1. c + n \in c..(c + n)
    BY <1>3, <1>9
  <2>2. ~Closed(durable', a) \/ Asked(calls, c + n)
    BY <1>4, <1>7, <1>10, <2>1
  <2>3. durable'[a].calls = calls
    BY <1>6 DEF calls
  <2> QED BY <1>8, <1>11, <2>2, <2>3 DEF Worked
<1>13. ASSUME NEW k \in 1..n
       PROVE  Back(durable', a, queue[k].id) \/ BehindAQuestion(calls, queue[k].id)
  <2> SUFFICES ASSUME ~Back(durable', a, queue[k].id), NEW x \in DOMAIN calls,
                      calls[x].id = queue[k].id
               PROVE  Asked(calls, x)
    BY DEF BehindAQuestion, Asked
  <2>1. Asked(calls, c)
    BY <1>4, <1>7
  <2>2. CASE x \in 1..(c + n)
    BY <1>11, <2>2
  <2>3. CASE x \notin 1..(c + n)
    <3>1. \A d \in 1..c : d \in 1..x
      BY <1>3, <1>6, <1>9, <2>3
    <3> QED BY <2>1, <3>1 DEF Asked
  <2> QED BY <2>2, <2>3
<1>14. ASSUME NEW j, NEW id, <<j, id>> \in answered'
       PROVE  /\ j \in (handed' + 1)..Len(durable')
              /\ Back(durable', j, id) \/ BehindAQuestion(durable'[j].calls, id)
  <2>1. CASE <<j, id>> \in answered
    BY <1>1, <1>2, <2>1, BackLater
  <2>2. CASE <<j, id>> \notin answered
    <3>1. PICK k \in 1..n : <<j, id>> = <<a, queue[k].id>>
      BY <1>2, <1>5, <1>14, <2>2
    <3> QED BY <1>6, <1>13, <3>1 DEF calls
  <2> QED BY <2>1, <2>2
<1>15. at' # "waiting"
  BY <1>2
<1> QED BY <1>3, <1>4, <1>9, <1>12, <1>14, <1>15 DEF Returned

\* A question closes the run.
LEMMA ReturnedAsk ==
  ASSUME IInv, IInv', Extends(durable, durable'), Returned, Ask
  PROVE  Returned'
<1> DEFINE t == Text("assistant")
<1>1. durable \in Seq(Message) /\ durable' \in Seq(Message) /\ handed \in Nat
      /\ Held(durable, handed) /\ queue \in Seq(Call)
  BY TranscriptAssumption DEF IInv, TypeOK
<1>2. /\ at = "act" /\ Head(queue).name = AskUser /\ durable' = Append(durable, t)
      /\ queue' = SubSeq(queue, 2, Len(queue)) /\ at' = "waiting"
      /\ handed' = handed /\ answered' = answered
  BY DEF Ask
<1>3. PICK a, c \in Nat : Pending(durable, handed, a, queue) /\ Worked(durable, a, queue, c)
  BY <1>2 DEF Returned
<1> DEFINE calls == durable[a].calls
<1>4. a \in 1..Len(durable) /\ calls \in Seq(Call) /\ Len(calls) \in Nat
      /\ durable'[a] = durable[a] /\ durable'[a].calls = calls
  <2>1. a \in 1..Len(durable) /\ calls \in Seq(Call) /\ Len(calls) \in Nat
    BY <1>1, <1>3, PendingCalls
  <2> QED BY <2>1 DEF Extends
<1>5. /\ c \in 0..Len(calls) /\ queue = SubSeq(calls, c + 1, Len(calls))
      /\ \A x \in 1..c : Back(durable, a, calls[x].id) \/ Asked(calls, x)
  BY <1>3 DEF Worked
<1> HIDE DEF calls, t
<1>6. queue # <<>> /\ Len(queue) \in Nat /\ Len(queue) # 0
  <2>1. queue # <<>>
    BY <1>2 DEF IInv
  <2> QED BY <1>1, <2>1
<1>7. /\ queue[1] = calls[c + 1] /\ c + 1 \in 0..Len(calls)
      /\ queue' = SubSeq(calls, (c + 1) + 1, Len(calls))
  <2>1. 1 \in 0..Len(queue) /\ 1 \in 1..Len(queue)
    BY <1>6
  <2> QED BY <1>2, <1>4, <1>5, <2>1, Requeued
<1>8. Asked(calls, c + 1)
  <2>1. Head(queue) = queue[1]
    BY <1>1, <1>6
  <2>2. c + 1 \in 1..(c + 1)
    BY <1>3
  <2> QED BY <1>2, <1>7, <2>1, <2>2 DEF Asked
<1>9. Worked(durable', a, queue', c + 1)
  <2>1. \A x \in 1..(c + 1) : x \in 1..c \/ x = c + 1
    BY <1>3
  <2>2. \A x \in 1..(c + 1) : Back(durable', a, calls[x].id) \/ Asked(calls, x)
    BY <1>1, <1>4, <1>5, <1>8, <2>1, BackStays
  <2> QED BY <1>4, <1>7, <1>8, <2>2 DEF Worked
<1>10. Pending(durable', handed', a, queue')
  <2>1. PICK b \in Nat : Pending(durable', handed', b, queue')
    <3>1. PICK i \in Nat : Sent(i)'
      BY DEF IInv
    <3>2. i + 1 \in Nat
      BY <3>1
    <3> QED BY <1>2, <3>1, <3>2 DEF Sent
  <2>2. Pending(durable', handed', a, queue)
    <3>1. t \in Message /\ t.role # "tool" /\ Said(t) /\ t.calls = <<>>
      BY TextIs DEF t
    <3> QED BY <1>1, <1>2, <1>3, <3>1, PendingAppend
  <2>3. a = b
    <3>1. handed' \in Nat
      BY <1>1, <1>2
    <3>2. a \in 1..Len(durable') /\ b \in 1..Len(durable')
      BY <1>1, <2>1, <2>2, <3>1, PendingCalls
    <3>3. a < b => b \in (a + 1)..Len(durable')
      BY <1>1, <3>2
    <3>4. b < a => a \in (b + 1)..Len(durable')
      BY <1>1, <3>2
    <3>5. ~(a < b) /\ ~(b < a)
      BY <2>1, <2>2, <3>3, <3>4 DEF Pending
    <3> QED BY <3>2, <3>5
  <2> QED BY <2>1, <2>3
<1>11. \A j, id : <<j, id>> \in answered' =>
         /\ j \in (handed' + 1)..Len(durable')
         /\ Back(durable', j, id) \/ BehindAQuestion(durable'[j].calls, id)
  BY <1>1, <1>2, BackLater
<1>12. c + 1 \in Nat /\ a \in Nat
  BY <1>3
<1> QED BY <1>4, <1>8, <1>9, <1>10, <1>11, <1>12 DEF Returned

\* The user's answer comes behind the question.
LEMMA ReturnedRespond ==
  ASSUME IInv, IInv', Extends(durable, durable'), Returned, Respond
  PROVE  Returned'
<1>1. durable \in Seq(Message) /\ durable' \in Seq(Message) /\ handed \in Nat
      /\ Held(durable, handed)
  BY TranscriptAssumption DEF IInv, TypeOK
<1>2. /\ at = "waiting" /\ at' = IF queue = <<>> THEN "reason" ELSE "act"
      /\ queue' = queue /\ handed' = handed /\ answered' = answered
  BY DEF Respond
<1>3. PICK role \in {"user", "system"} : durable' = Append(durable, Text(role))
  BY DEF Respond
<1>4. PICK a, c \in Nat : /\ Pending(durable, handed, a, queue) /\ Worked(durable, a, queue, c)
                          /\ Asked(durable[a].calls, c)
  BY <1>2 DEF Returned
<1>5. Pending(durable', handed', a, queue')
  <2>1. Text(role) \in Message /\ Text(role).role # "tool" /\ Said(Text(role))
        /\ Text(role).calls = <<>>
    BY TextIs
  <2> QED BY <1>1, <1>2, <1>3, <1>4, <2>1, PendingAppend
<1>6. a \in 1..Len(durable) /\ durable'[a] = durable[a]
  <2>1. a \in 1..Len(durable)
    BY <1>1, <1>4, PendingCalls
  <2> QED BY <2>1 DEF Extends
<1>7. Worked(durable', a, queue', c)
  <2>1. \A x \in 1..c : Back(durable, a, durable[a].calls[x].id)
                        => Back(durable', a, durable[a].calls[x].id)
    BY <1>1, <1>6, BackStays
  <2> QED BY <1>2, <1>4, <1>6, <2>1 DEF Worked
<1>8. \A j, id : <<j, id>> \in answered' =>
         /\ j \in (handed' + 1)..Len(durable')
         /\ Back(durable', j, id) \/ BehindAQuestion(durable'[j].calls, id)
  BY <1>1, <1>2, BackLater
<1>9. Asked(durable'[a].calls, c)
  BY <1>4, <1>6
<1> QED BY <1>4, <1>5, <1>7, <1>8, <1>9 DEF Returned

\* So every step keeps what is noted as answered where it is.
LEMMA ReturnedNext ==
  ASSUME IInv, [Next]_vars, Returned
  PROVE  Returned'
<1>1. IInv' /\ Extends(durable, durable')
  BY NextInv
<1>2. durable \in Seq(Message) /\ durable' \in Seq(Message) /\ handed \in Nat
  BY <1>1, TranscriptAssumption DEF IInv, TypeOK
<1>3. ASSUME handed' = handed, answered' = answered, at' \in {"reason", "parse"}
      PROVE  Returned'
  <2>1. \A j, id : <<j, id>> \in answered' =>
          /\ j \in (handed' + 1)..Len(durable')
          /\ Back(durable', j, id) \/ BehindAQuestion(durable'[j].calls, id)
    BY <1>1, <1>2, <1>3, BackLater
  <2> QED BY <1>3, <2>1 DEF Returned
<1>4. ASSUME NEW guided \in BOOLEAN, NEW chrome \in BOOLEAN, NEW actionable \in BOOLEAN,
             Reason(guided, chrome, actionable)
      PROVE  Returned'
  <2>1. handed' = handed /\ answered' = answered /\ at' = "parse"
    BY <1>4 DEF Reason
  <2> QED BY <1>3, <2>1
<1>5. ASSUME NEW batch \in Batches, NEW blank \in BOOLEAN, Announce(batch, blank)
      PROVE  Returned'
  BY <1>1, <1>5, ReturnedAnnounce
<1>6. ASSUME NEW n \in 1..Len(queue), Act(n) PROVE Returned'
  BY <1>1, <1>6, ReturnedAct
<1>7. CASE Retry \/ NextTurn
  <2>1. handed' = handed /\ answered' = answered /\ at' = "reason"
    BY <1>7 DEF Retry, NextTurn
  <2> QED BY <1>3, <2>1
<1>8. CASE Ask
  BY <1>1, <1>8, ReturnedAsk
<1>9. CASE Respond
  BY <1>1, <1>9, ReturnedRespond
<1>10. CASE UNCHANGED vars
  BY <1>10 DEF Returned, vars
<1> QED BY <1>4, <1>5, <1>6, <1>7, <1>8, <1>9, <1>10 DEF Next

\* And what is right behind its announcement is not declared missing.
LEMMA ExplainedInv == IInv /\ Returned => LostBehindAQuestion
<1> SUFFICES ASSUME IInv, Returned, NEW e, NEW j, e \in DOMAIN sent, j \in DOMAIN sent,
                    sent[e].parts = <<Part(0, "missing")>>, InRunOf(sent, e, j),
                    Origin(sent[j]) > handed,
                    <<Origin(sent[j]), sent[e].id>> \in answered,
                    ~BehindAQuestion(sent[j].calls, sent[e].id)
             PROVE  FALSE
  BY DEF LostBehindAQuestion
<1>1. durable \in Seq(Message) /\ handed \in Nat
  BY TranscriptAssumption DEF IInv, TypeOK
<1>2. PICK n \in Nat :
        LET v == Windowed(SubSeq(durable, 1, n), cut)
        IN  /\ n \in 0..Len(durable) /\ Sent(n) /\ cut \in 0..n
            /\ SubSeq(durable, 1, n) \in Seq(Message)
            /\ Len(SubSeq(durable, 1, n)) = n
            /\ v \in Seq(Message) /\ sent = Sanitized(v)
            /\ \A k \in 1..Len(v) : Place(cut, k) \in 1..n
            /\ \A k \in 1..Len(v) :
                 IF Notice(cut, k) THEN v[k].calls = <<>> ELSE v[k] = durable[Place(cut, k)]
  BY SentIs
<1> DEFINE b == SubSeq(durable, 1, n)
           v == Windowed(b, cut)
<1>3. \A i \in 1..n : b[i] = durable[i]
  BY <1>1, <1>2, CutIs
<1>4. b \in Seq(Message) /\ Len(b) = n /\ cut \in 0..Len(b)
      /\ v \in Seq(Message) /\ sent = Sanitized(v)
  BY <1>2
<1> HIDE DEF b, v
<1>5. sent \in Seq(Entry) /\ Shape(v, sent)
  BY <1>4, SanitizedFits
<1>6. DOMAIN sent = 1..Len(sent) /\ Len(sent) \in Nat /\ e \in Nat /\ j \in Nat
      /\ e \in 1..Len(sent) /\ j \in 1..Len(sent)
  BY <1>5
<1>7. j < e /\ sent[j].role = "assistant" /\ \A i \in (j + 1)..e : sent[i].role = "tool"
  BY DEF InRunOf
<1>8. sent[j].calls # <<>>
  <2>1. e \in (j + 1)..e
    BY <1>6, <1>7
  <2>2. sent[e].role = "tool"
    BY <1>7, <2>1
  <2>3. InRun(sent, e)
    BY <1>5, <1>6, <2>2 DEF Shape
  <2>4. PICK a \in 1..(e - 1) : sent[a].calls # <<>>
                                /\ \A i \in (a + 1)..e : sent[i].role = "tool"
    BY <2>3 DEF InRun
  <2>5. a \in DOMAIN sent /\ a \in Nat
    BY <1>6
  <2>6. sent[a].role # "tool"
    <3>1. PICK k \in Kept(v) : sent[a] = Itself(v, k) /\ k \in 1..Len(v)
      BY <1>4, <1>5, <2>4, <2>5, RunIs
    <3>2. sent[a].role = v[k].role /\ sent[a].calls = v[k].calls
      BY <3>1 DEF Itself
    <3>3. v[k] \in Message
      BY <1>4, <3>1
    <3> QED BY <2>4, <3>2, <3>3 DEF Message
  <2>7. ~(a > j)
    <3> SUFFICES ASSUME a > j PROVE FALSE
      OBVIOUS
    <3>1. a \in (j + 1)..e
      BY <1>6, <2>4, <2>5
    <3> QED BY <1>7, <2>6, <3>1
  <2>8. ~(a < j)
    <3> SUFFICES ASSUME a < j PROVE FALSE
      OBVIOUS
    <3>1. j \in (a + 1)..e
      BY <1>6, <1>7, <2>5
    <3> QED BY <1>7, <2>4, <3>1
  <2>9. a = j
    BY <1>6, <2>5, <2>7, <2>8
  <2> QED BY <2>4, <2>9
<1>9. PICK k \in Kept(v) : sent[j] = Itself(v, k) /\ k \in 1..Len(v)
  BY <1>4, <1>5, <1>8, RunIs
<1>10. sent[j].calls = v[k].calls /\ Origin(sent[j]) = Place(cut, k)
  <2>1. sent[j].calls = v[k].calls /\ sent[j].parts = <<Part(k, "self")>>
    BY <1>9 DEF Itself
  <2>2. <<Part(k, "self")>>[1].from = k
    BY DEF Part
  <2> QED BY <2>1, <2>2 DEF Origin
<1>11. \A i \in Own(v, k) : v[i].id # sent[e].id
  <2>1. v \in Seq(Message) /\ sent \in Seq(Entry) /\ Shape(v, sent)
        /\ sent[j].calls # <<>> /\ sent[j] = Itself(v, k) /\ k \in 1..Len(v)
    BY <1>4, <1>5, <1>8, <1>9
  <2> QED BY <2>1, MissingIsSilent
<1> DEFINE a == Place(cut, k)
<1>12. /\ ~Notice(cut, k) /\ v[k] = durable[a] /\ v[k] = b[a]
       /\ a \in 1..n /\ a \in Nat /\ n <= Len(durable) /\ Len(durable) \in Nat
  <2>1. IF Notice(cut, k) THEN v[k].calls = <<>> ELSE v[k] = durable[a]
    BY <1>2, <1>9 DEF v, b
  <2>2. a \in 1..n
    BY <1>2, <1>9 DEF v, b
  <2> HIDE DEF a
  <2> QED BY <1>1, <1>2, <1>3, <1>8, <1>10, <2>1, <2>2
<1>13. Back(durable, a, sent[e].id)
  <2>1. ~BehindAQuestion(durable[a].calls, sent[e].id)
    BY <1>10, <1>12
  <2> QED BY <1>10, <2>1 DEF Returned
<1> HIDE DEF a
<1> DEFINE calls == durable[a].calls
<1>14. calls \in Seq(Call) /\ Len(calls) \in Nat
  <2>1. durable[a] \in Message
    <3>1. a \in 1..Len(durable)
      BY <1>2, <1>12
    <3> QED BY <1>1, <3>1
  <2>2. calls \in Seq(Call)
    BY <2>1 DEF Message
  <2>3. Len(calls) \in Nat
    BY <2>2
  <2> QED BY <2>2, <2>3
<1>15. PICK c \in 0..Len(calls) : Came(durable, a, c) /\ \E i \in 1..c : calls[i].id = sent[e].id
  BY <1>13 DEF Back
<1>16. PICK i \in 1..c : calls[i].id = sent[e].id
  BY <1>15
<1>17. c \in Nat /\ c <= Len(calls) /\ a + c <= Len(durable) /\ i \in Nat /\ i <= c /\ 1 <= i
       /\ \A x \in 1..c : durable[a + x] = Answering(calls[x].id)
  BY <1>14, <1>15 DEF Came
<1>18. a + c <= n
  <2> SUFFICES ASSUME ~(a + c <= n) PROVE FALSE
    OBVIOUS
  <2>1. n # 0 /\ n # Len(durable)
    BY <1>12, <1>17
  <2>2. Ends(durable, n + 1)
    BY <1>2, <2>1 DEF Sent
  <2>3. n + 1 - a \in 1..c /\ a + (n + 1 - a) = n + 1
    BY <1>2, <1>12, <1>17
  <2>4. durable[n + 1] = Answering(calls[n + 1 - a].id)
    BY <1>17, <2>3
  <2> QED BY <2>2, <2>4 DEF Ends, Answering
<1>19. b[a].calls = calls /\ v[k].calls = calls
  BY <1>12
<1> HIDE DEF calls
<1>20. \A x \in 1..c : a + x \in 1..n
  BY <1>12, <1>17, <1>18
<1>21. Came(b, a, c)
  <2>1. \A x \in 1..c : b[a + x] = Answering(b[a].calls[x].id)
    BY <1>3, <1>17, <1>19, <1>20
  <2> QED BY <1>4, <1>15, <1>18, <1>19, <2>1 DEF Came
<1>22. Came(v, k, c)
  <2>1. k \in 1..Len(Windowed(b, cut)) /\ Came(b, Place(cut, k), c)
    BY <1>9, <1>21 DEF v, a
  <2> QED BY <1>4, <1>12, <2>1, WindowCame DEF v
<1>23. k + i \in Own(v, k) /\ v[k + i].id = sent[e].id
  <2>1. (k + 1)..(k + c) \subseteq Own(v, k)
    BY <1>4, <1>9, <1>15, <1>19, <1>22, CameOwn
  <2>2. k + i \in (k + 1)..(k + c)
    BY <1>4, <1>9, <1>17
  <2>3. v[k + i] = Answering(calls[i].id)
    BY <1>16, <1>19, <1>22 DEF Came
  <2> QED BY <1>16, <2>1, <2>2, <2>3 DEF Answering
<1> QED BY <1>11, <1>23

\* Whatever is announced, asked and answered, and whatever a window leaves out, the loop
\* declares a call's result missing only if it never came back or was done behind a
\* question of its own batch.
THEOREM LossesAreExplained == Spec => []LostBehindAQuestion
<1>1. Init => IInv /\ Returned
  <2>1. Init => at = "reason" /\ answered = {}
    BY DEF Init
  <2> QED BY <2>1, InitInv DEF Returned
<1>2. IInv /\ Returned /\ [Next]_vars => (IInv /\ Returned)'
  BY NextInv, ReturnedNext
<1>3. IInv /\ Returned => LostBehindAQuestion
  BY ExplainedInv
<1> QED BY <1>1, <1>2, <1>3, PTL DEF Spec
=============================================================================
