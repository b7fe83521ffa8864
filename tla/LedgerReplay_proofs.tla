-------------------------- MODULE LedgerReplay_proofs --------------------------
(***************************************************************************)
(* What LedgerReplay computes, for every snapshot and every journal: the   *)
(* facts that the proofs about the ledger rest on, and that its closed     *)
(* form of a load is the fold the code runs.                               *)
(***************************************************************************)
EXTENDS LedgerReplay, SequencesExt, SequenceTheorems, WellFoundedInduction, TLAPS

-----------------------------------------------------------------------------
(* Numbers.                                                                *)

\* The least-number principle, and from it the last of finitely many indices.
LEMMA LeastOf ==
    ASSUME NEW S \in SUBSET Nat, S # {}
    PROVE  \E x \in S : \A y \in S : x <= y
<1>1. PICK x \in S : \A y \in S : ~(<<y, x>> \in OpToRel(<, Nat))
  BY NatLessThanWellFounded, WFMin
<1>2. ASSUME NEW y \in S PROVE x <= y
  <2>1. x \in Nat /\ y \in Nat
    OBVIOUS
  <2>2. (y < x) => <<y, x>> \in OpToRel(<, Nat)
    BY <2>1 DEF OpToRel
  <2>3. ~(y < x)
    BY <1>1, <2>2, Zenon
  <2> QED
    BY <2>1, <2>3
<1> QED
  BY <1>2

LEMMA GreatestOf ==
    ASSUME NEW n \in Nat, NEW S \in SUBSET (1 .. n), S # {}
    PROVE  \E i \in S : \A j \in S : j <= i
<1> DEFINE D == {k \in Nat : \E i \in S : k = n - i}
<1>1. \A i \in S : n - i \in D
  OBVIOUS
<1>2. D \in SUBSET Nat /\ D # {}
  BY <1>1
<1>3. PICK k \in D : \A m \in D : k <= m
  <2> HIDE DEF D
  <2> QED
    BY <1>2, LeastOf
<1>4. PICK i \in S : k = n - i
  OBVIOUS
<1>5. \A j \in S : j <= i
  <2> SUFFICES ASSUME NEW j \in S PROVE j <= i
    OBVIOUS
  <2>1. k <= n - j
    BY <1>1, <1>3
  <2>2. i \in Int /\ j \in Int
    OBVIOUS
  <2> QED
    BY <1>4, <2>1, <2>2
<1> QED
  BY <1>5

\* Induction from 0 up to n, for a set of numbers.
LEMMA UpTo ==
    ASSUME NEW n \in Nat, NEW C, 0 \in C, \A m \in 0 .. (n - 1) : m \in C => m + 1 \in C
    PROVE  \A m \in 0 .. n : m \in C
<1> DEFINE Out == {m \in 0 .. n : m \notin C}
<1>1. SUFFICES ASSUME Out # {} PROVE FALSE
  OBVIOUS
<1>2. PICK m \in Out : \A k \in Out : m <= k
  <2>1. Out \in SUBSET Nat
    OBVIOUS
  <2> QED
    BY <1>1, <2>1, LeastOf
<1>3. m # 0 /\ m \in 0 .. n
  OBVIOUS
<1>4. m - 1 \in 0 .. (n - 1) /\ m - 1 \notin Out
  BY <1>2, <1>3
<1>5. m - 1 \in C
  BY <1>3, <1>4
<1>6. (m - 1) + 1 \in C
  BY <1>4, <1>5
<1> QED
  BY <1>3, <1>6

-----------------------------------------------------------------------------
(* Replay.                                                                 *)

LEMMA LastKindType ==
    ASSUME NEW events, NEW f
    PROVE  LastKind(events, f) \subseteq Kinds
    BY DEF LastKind

\* Loading any journal over any snapshot gives a ledger.
LEMMA ReplayType ==
    ASSUME NEW base \in Ledger, NEW events
    PROVE  Replay(base, events) \in Ledger
<1>1. ASSUME NEW f \in Fingerprints, LastKind(events, f) # {}
      PROVE  (CHOOSE k \in Kinds : k \in LastKind(events, f)) \in LastKind(events, f)
  BY <1>1, LastKindType
<1>2. QED
  BY <1>1, LastKindType DEF Replay, Ledger, Statuses

LEMMA LastKindExists ==
    ASSUME NEW events \in Seq(Event), NEW f,
           \E i \in DOMAIN events : events[i].fp = f
    PROVE  LastKind(events, f) # {}
<1> DEFINE S == {i \in DOMAIN events : events[i].fp = f}
<1>1. S \in SUBSET (1 .. Len(events)) /\ S # {} /\ Len(events) \in Nat
  OBVIOUS
<1>2. PICK i \in S : \A j \in S : j <= i
  <2> HIDE DEF S
  <2> QED
    BY <1>1, GreatestOf
<1>3. i \in DOMAIN events /\ events[i].fp = f /\ events[i].kind \in Kinds
  <2>1. i \in DOMAIN events /\ events[i].fp = f
    OBVIOUS
  <2>2. events[i] \in Event
    BY <2>1
  <2> QED
    BY <2>1, <2>2 DEF Event
<1>4. \A j \in DOMAIN events : events[j].fp = f => j <= i
  BY <1>2
<1>5. events[i].kind \in LastKind(events, f)
  BY <1>3, <1>4 DEF LastKind
<1> QED
  BY <1>5

LEMMA LastKindUnique ==
    ASSUME NEW events \in Seq(Event), NEW f,
           NEW k \in LastKind(events, f), NEW l \in LastKind(events, f)
    PROVE  k = l
<1>1. PICK i \in DOMAIN events : /\ events[i].fp = f /\ events[i].kind = k
                                /\ \A m \in DOMAIN events : events[m].fp = f => m <= i
  BY DEF LastKind
<1>2. PICK j \in DOMAIN events : /\ events[j].fp = f /\ events[j].kind = l
                                /\ \A m \in DOMAIN events : events[m].fp = f => m <= j
  BY DEF LastKind
<1>3. i <= j /\ j <= i /\ i \in Int /\ j \in Int
  BY <1>1, <1>2
<1> QED
  BY <1>1, <1>2, <1>3

\* Replay, fingerprint by fingerprint: the last event decides, if there is one
\* and the fingerprint is known.
LEMMA ReplayLast ==
    ASSUME NEW base \in Ledger, NEW events \in Seq(Event), NEW f \in Fingerprints,
           IsKnown(base, events, f), NEW k \in LastKind(events, f)
    PROVE  Replay(base, events)[f] = k
<1>1. (CHOOSE l \in Kinds : l \in LastKind(events, f)) \in LastKind(events, f)
  BY LastKindType
<1>2. (CHOOSE l \in Kinds : l \in LastKind(events, f)) = k
  BY <1>1, LastKindUnique
<1> QED
  BY <1>2 DEF Replay

LEMMA ReplayBase ==
    ASSUME NEW base, NEW events, NEW f \in Fingerprints,
           ~IsKnown(base, events, f) \/ LastKind(events, f) = {}
    PROVE  Replay(base, events)[f] = base[f]
    BY DEF Replay

\* A load reports exactly the fingerprints that the snapshot knows or that have
\* a pending event.
LEMMA ReplayKnown ==
    ASSUME NEW base \in Ledger, NEW events \in Seq(Event), NEW f \in Fingerprints
    PROVE  Replay(base, events)[f] # "none" <=> IsKnown(base, events, f)
<1>1. CASE IsKnown(base, events, f) /\ LastKind(events, f) # {}
  <2>1. PICK k \in LastKind(events, f) : TRUE
    BY <1>1
  <2>2. k # "none"
    BY LastKindType DEF Kinds
  <2> QED
    BY <1>1, <2>1, <2>2, ReplayLast
<1>2. CASE IsKnown(base, events, f) /\ LastKind(events, f) = {}
  <2>1. base[f] # "none"
    BY <1>2, LastKindExists DEF IsKnown
  <2> QED
    BY <1>2, <2>1, ReplayBase
<1>3. CASE ~IsKnown(base, events, f)
  BY <1>3, ReplayBase DEF IsKnown
<1> QED
  BY <1>1, <1>2, <1>3

LEMMA ReplayEmpty ==
    ASSUME NEW base \in Ledger
    PROVE  Replay(base, << >>) = base
<1>1. \A f \in Fingerprints : LastKind(<< >>, f) = {}
  BY DEF LastKind
<1>2. \A f \in Fingerprints : Replay(base, << >>)[f] = base[f]
  BY <1>1, ReplayBase
<1>3. Replay(base, << >>) \in Ledger
  BY ReplayType
<1> QED
  BY <1>2, <1>3 DEF Ledger

\* Folding one more event in is appending it to the journal.
LEMMA ReplayAppend ==
    ASSUME NEW base \in Ledger, NEW events \in Seq(Event), NEW e \in Event
    PROVE  Replay(base, Append(events, e)) = ApplyEvent(Replay(base, events), e)
<1> DEFINE more == Append(events, e)
           old == Replay(base, events)
           new == Replay(base, more)
<1>1. more \in Seq(Event) /\ Len(more) = Len(events) + 1 /\ more[Len(more)] = e
      /\ \A i \in DOMAIN events : more[i] = events[i]
      /\ DOMAIN more = DOMAIN events \cup {Len(more)}
  OBVIOUS
<1>2. \A i \in DOMAIN events : i \in Nat /\ i <= Len(more)
  BY <1>1
<1>3. old \in Ledger /\ new \in Ledger /\ ApplyEvent(old, e) \in Ledger
  <2>1. old \in Ledger /\ new \in Ledger
    BY ReplayType
  <2> QED
    BY <2>1 DEF ApplyEvent, Ledger, Event, Statuses
<1> HIDE DEF more
<1>4. ASSUME NEW f \in Fingerprints, f # e.fp
      PROVE  new[f] = ApplyEvent(old, e)[f]
  <2>1. LastKind(more, f) = LastKind(events, f)
    <3>1. ASSUME NEW k \in LastKind(more, f) PROVE k \in LastKind(events, f)
      BY <1>1, <1>4 DEF LastKind
    <3>2. ASSUME NEW k \in LastKind(events, f) PROVE k \in LastKind(more, f)
      BY <1>1, <1>4 DEF LastKind
    <3> QED
      BY <3>1, <3>2
  <2>2. IsKnown(base, more, f) <=> IsKnown(base, events, f)
    BY <1>1, <1>4 DEF IsKnown
  <2>3. new[f] = old[f]
    BY <2>1, <2>2 DEF Replay
  <2> QED
    BY <1>3, <1>4, <2>3 DEF ApplyEvent, Ledger
<1>5. ASSUME NEW f \in Fingerprints, f = e.fp
      PROVE  new[f] = ApplyEvent(old, e)[f]
  <2>1. e.kind \in LastKind(more, f)
    BY <1>1, <1>2, <1>5 DEF LastKind, Event
  <2>2. IsKnown(base, more, f) <=> IsKnown(base, events, f) \/ e.kind = "pending"
    BY <1>1, <1>5 DEF IsKnown
  <2>3. CASE old[f] # "none" \/ e.kind = "pending"
    <3>1. IsKnown(base, more, f)
      BY <2>2, <2>3, ReplayKnown
    <3>2. new[f] = e.kind
      BY <1>1, <2>1, <3>1, ReplayLast
    <3> QED
      BY <1>3, <1>5, <2>3, <3>2 DEF ApplyEvent, Ledger
  <2>4. CASE old[f] = "none" /\ e.kind # "pending"
    <3>1. ~IsKnown(base, more, f)
      BY <2>2, <2>4, ReplayKnown
    <3>2. new[f] = "none"
      BY <3>1, ReplayBase DEF IsKnown
    <3> QED
      BY <1>5, <2>4, <3>2 DEF ApplyEvent
  <2> QED
    BY <2>3, <2>4
<1> QED
  BY <1>3, <1>4, <1>5 DEF Ledger, more

\* A journal replayed over the snapshot it was folded into changes nothing: a
\* crash between writeSnapshot and truncateJournal is harmless.
LEMMA ReplayAgain ==
    ASSUME NEW base \in Ledger, NEW events \in Seq(Event)
    PROVE  Replay(Replay(base, events), events) = Replay(base, events)
<1> DEFINE once == Replay(base, events)
           twice == Replay(once, events)
<1>1. once \in Ledger /\ twice \in Ledger
  BY ReplayType
<1>2. ASSUME NEW f \in Fingerprints
      PROVE  twice[f] = once[f]
  <2>1. IsKnown(once, events, f) <=> IsKnown(base, events, f)
    BY ReplayKnown DEF IsKnown
  <2>2. CASE IsKnown(base, events, f) /\ LastKind(events, f) # {}
    BY <1>1, <2>1, <2>2, ReplayLast
  <2>3. CASE ~(IsKnown(base, events, f) /\ LastKind(events, f) # {})
    BY <2>1, <2>3, ReplayBase
  <2> QED
    BY <2>2, <2>3
<1> QED
  BY <1>1, <1>2 DEF Ledger

LEMMA ApplyEventType ==
    ASSUME NEW ledger \in Ledger, NEW e \in Event
    PROVE  ApplyEvent(ledger, e) \in Ledger
    BY DEF ApplyEvent, Ledger, Event, Statuses

-----------------------------------------------------------------------------
(* The fold.                                                               *)

LEMMA MaxOf ==
    ASSUME NEW n \in Nat, NEW s \in SUBSET (1 .. n), s # {}
    PROVE  Max(s) \in s /\ \A i \in s : i <= Max(s)
<1>1. PICK i \in s : \A j \in s : j <= i
  BY GreatestOf
<1>2. s \subseteq Int
  OBVIOUS
<1>3. i \in s /\ \A j \in s : i >= j
  BY <1>1, <1>2
<1>4. Max(s) \in s /\ \A j \in s : Max(s) >= j
  BY <1>3 DEF Max
<1> QED
  BY <1>2, <1>4

\* What FoldLeft applies to all the indices of a journal: the function that its
\* recursive definition over sets of indices defines.
IsFold(iter, base, events, n) ==
    iter = [s \in SUBSET (1 .. n) |->
               IF s = {} THEN base ELSE ApplyEvent(iter[s \ {Max(s)}], events[Max(s)])]

LEMMA FoldExists ==
    ASSUME NEW base, NEW events, NEW n \in Nat
    PROVE  \E iter : IsFold(iter, base, events, n)
<1> USE DEF IsFold
<1> DEFINE Folds(m, iter) == IsFold(iter, base, events, m)
           C == {m \in 0 .. n : \E iter : Folds(m, iter)}
<1>1. 0 \in C
  <2> DEFINE none == [s \in SUBSET (1 .. 0) |-> base]
  <2>1. \A s \in SUBSET (1 .. 0) : s = {}
    OBVIOUS
  <2>2. Folds(0, none)
    BY <2>1
  <2> QED
    BY <2>2
<1>2. ASSUME NEW m \in 0 .. (n - 1), m \in C PROVE m + 1 \in C
  <2>1. PICK iter : Folds(m, iter)
    BY <1>2
  <2> DEFINE more == [s \in SUBSET (1 .. (m + 1)) |->
                         IF m + 1 \in s THEN ApplyEvent(iter[s \ {m + 1}], events[m + 1])
                         ELSE iter[s]]
  <2>2. ASSUME NEW s \in SUBSET (1 .. (m + 1)), m + 1 \in s
        PROVE  s # {} /\ more[s] = ApplyEvent(more[s \ {Max(s)}], events[Max(s)])
    <3>1. Max(s) = m + 1
      <4>1. m + 1 \in Nat
        OBVIOUS
      <4>2. Max(s) \in s /\ m + 1 <= Max(s)
        BY <2>2, <4>1, MaxOf
      <4>3. Max(s) \in 1 .. (m + 1)
        BY <4>2
      <4> QED
        BY <4>1, <4>2, <4>3
    <3>2. s \ {m + 1} \in SUBSET (1 .. (m + 1)) /\ m + 1 \notin s \ {m + 1}
      OBVIOUS
    <3>3. more[s \ {m + 1}] = iter[s \ {m + 1}]
      BY <3>2
    <3>4. more[s] = ApplyEvent(iter[s \ {m + 1}], events[m + 1])
      BY <2>2
    <3> HIDE DEF more
    <3> QED
      BY <2>2, <3>1, <3>3, <3>4
  <2>3. ASSUME NEW s \in SUBSET (1 .. (m + 1)), m + 1 \notin s
        PROVE  more[s] = IF s = {} THEN base ELSE ApplyEvent(more[s \ {Max(s)}], events[Max(s)])
    <3>1. s \in SUBSET (1 .. m)
      BY <2>3
    <3>2. more[s] = iter[s]
      BY <2>3
    <3>3. s \ {Max(s)} \in SUBSET (1 .. (m + 1)) /\ m + 1 \notin s \ {Max(s)}
      BY <2>3
    <3>4. more[s \ {Max(s)}] = iter[s \ {Max(s)}]
      BY <3>3
    <3> HIDE DEF more
    <3> QED
      BY <2>1, <3>1, <3>2, <3>4
  <2>4. Folds(m + 1, more)
    <3>1. \A s \in SUBSET (1 .. (m + 1)) :
             more[s] = IF s = {} THEN base ELSE ApplyEvent(more[s \ {Max(s)}], events[Max(s)])
      <4> HIDE DEF more
      <4> QED
        BY <2>2, <2>3
    <3>2. more = [s \in SUBSET (1 .. (m + 1)) |-> more[s]]
      OBVIOUS
    <3> HIDE DEF more
    <3> QED
      BY <3>1, <3>2
  <2>5. m + 1 \in 0 .. n
    OBVIOUS
  <2> QED
    BY <2>4, <2>5
<1>3. n \in C
  <2> HIDE DEF C
  <2> QED
    BY <1>1, <1>2, UpTo
<1> QED
  BY <1>3

\* The closed form is the fold: loading a journal line by line (idempotency.ts:367-374)
\* gives every fingerprint the status of its last event if it is known by then.
LEMMA ReplayFolds ==
    ASSUME NEW base \in Ledger, NEW events \in Seq(Event)
    PROVE  Replay(base, events) = FoldLeft(ApplyEvent, base, events)
<1> DEFINE n == Len(events)
           fold == CHOOSE iter : IsFold(iter, base, events, n)
           C == {m \in 0 .. n : fold[1 .. m] = Replay(base, SubSeq(events, 1, m))}
<1>1. n \in Nat /\ DOMAIN events = 1 .. n /\ n = Len(events)
  OBVIOUS
<1>2. FoldLeft(ApplyEvent, base, events) = fold[1 .. n]
  BY <1>1 DEF FoldLeft, MapThenFoldSet, IsFold
<1>3. IsFold(fold, base, events, n)
  BY <1>1, FoldExists
<1> HIDE DEF fold, n
<1>4. 0 \in C
  <2>1. 1 .. 0 = {} /\ 1 .. 0 \in SUBSET (1 .. n) /\ SubSeq(events, 1, 0) = << >>
    OBVIOUS
  <2>2. fold[1 .. 0] = base
    BY <1>3, <2>1 DEF IsFold
  <2>3. 0 \in 0 .. n
    BY <1>1
  <2> QED
    BY <2>1, <2>2, <2>3, ReplayEmpty
<1>5. ASSUME NEW m \in 0 .. (n - 1), m \in C PROVE m + 1 \in C
  <2>1. m \in Nat /\ m + 1 \in 1 .. n
    BY <1>1
  <2>2. Max(1 .. (m + 1)) = m + 1
    <3>1. m + 1 \in Nat /\ m + 1 \in 1 .. (m + 1)
      BY <2>1
    <3> DEFINE s == 1 .. (m + 1)
    <3>2. s \in SUBSET (1 .. (m + 1)) /\ m + 1 \in s
      BY <3>1
    <3>3. Max(s) \in s /\ \A i \in s : i <= Max(s)
      <4> HIDE DEF s
      <4> QED
        BY <3>1, <3>2, MaxOf
    <3> QED
      BY <3>1, <3>3
  <2>3. (1 .. (m + 1)) \ {m + 1} = 1 .. m /\ m + 1 \in 1 .. (m + 1) /\ 1 .. (m + 1) \in SUBSET (1 .. n)
    <3>1. m \in Int /\ n \in Int /\ 1 <= m + 1 /\ m + 1 <= n
      BY <1>1, <2>1
    <3> QED
      BY <3>1
  <2>4. fold[1 .. (m + 1)] = ApplyEvent(fold[1 .. m], events[m + 1])
    BY <1>3, <2>2, <2>3 DEF IsFold
  <2>5. SubSeq(events, 1, m + 1) = Append(SubSeq(events, 1, m), events[m + 1])
        /\ SubSeq(events, 1, m) \in Seq(Event) /\ events[m + 1] \in Event
    BY <1>1, <2>1
  <2>6. Replay(base, SubSeq(events, 1, m + 1)) = ApplyEvent(Replay(base, SubSeq(events, 1, m)), events[m + 1])
    BY <2>5, ReplayAppend
  <2> QED
    BY <1>5, <2>1, <2>4, <2>6
<1>6. n \in C
  <2> HIDE DEF C
  <2> QED
    BY <1>1, <1>4, <1>5, UpTo
<1>7. SubSeq(events, 1, n) = events
  BY <1>1
<1> QED
  BY <1>2, <1>6, <1>7

================================================================================
