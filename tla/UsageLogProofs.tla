---------------------------- MODULE UsageLogProofs ----------------------------
(***************************************************************************)
(* What TLAPS proves of the usage log, for every capacity of the channel   *)
(* and of the batch, and for any number of loggers on one file.            *)
(***************************************************************************)
EXTENDS UsageLog, SequenceTheorems, FiniteSetTheorems, TLAPS

Rising(s) == \A i, j \in DOMAIN s : i < j => s[i] < s[j]
Before(s, t) == \A x \in ToSet(s), y \in ToSet(t) : x < y

-----------------------------------------------------------------------------
(* Sequences of numbers.                                                   *)

\* An empty sequence rises.
LEMMA Empty == << >> \in Seq(Nat) /\ ToSet(<< >>) = {} /\ Rising(<< >>)
BY DEF ToSet, Rising

\* The elements of a sequence of numbers are numbers.
LEMMA Elements ==
    ASSUME NEW s \in Seq(Nat)
    PROVE  /\ ToSet(s) \subseteq Nat
           /\ \A i \in DOMAIN s : s[i] \in ToSet(s)
           /\ \A x \in ToSet(s) : \E i \in DOMAIN s : x = s[i]
BY DEF ToSet

\* Log, and the writer when it receives, put an entry at the end.
LEMMA Appended ==
    ASSUME NEW s \in Seq(Nat), NEW e \in Nat
    PROVE  /\ Append(s, e) \in Seq(Nat)
           /\ ToSet(Append(s, e)) = ToSet(s) \cup {e}
           /\ (Rising(s) /\ \A x \in ToSet(s) : x < e) => Rising(Append(s, e))
<1>1. Append(s, e) \in Seq(Nat) /\ Len(Append(s, e)) = Len(s) + 1
  BY AppendProperties
<1>2. /\ \A i \in 1..Len(s) : Append(s, e)[i] = s[i]
      /\ Append(s, e)[Len(s) + 1] = e
  BY AppendProperties
<1>3. /\ DOMAIN s = 1..Len(s) /\ Len(s) \in Nat
      /\ DOMAIN Append(s, e) = 1..(Len(s) + 1)
  BY <1>1
<1>4. ToSet(Append(s, e)) = ToSet(s) \cup {e}
  <2>1. \A x \in ToSet(Append(s, e)) : x \in ToSet(s) \cup {e}
    BY <1>2, <1>3 DEF ToSet
  <2>2. e \in ToSet(Append(s, e))
    BY <1>2, <1>3 DEF ToSet
  <2>3. \A x \in ToSet(s) : x \in ToSet(Append(s, e))
    BY <1>2, <1>3 DEF ToSet
  <2>4. QED
    BY <2>1, <2>2, <2>3
<1>5. ASSUME Rising(s), \A x \in ToSet(s) : x < e
      PROVE  Rising(Append(s, e))
  <2>1. \A i \in 1..Len(s) : s[i] < e
    BY <1>3, <1>5, Elements
  <2>2. QED
    BY <1>2, <1>3, <1>5, <2>1 DEF Rising
<1>6. QED
  BY <1>1, <1>4, <1>5

\* The writer takes the entry at the head of the channel.
LEMMA Taken ==
    ASSUME NEW s \in Seq(Nat), s # << >>
    PROVE  /\ Head(s) \in Nat /\ Tail(s) \in Seq(Nat)
           /\ ToSet(s) = {Head(s)} \cup ToSet(Tail(s))
           /\ Rising(s) => Rising(Tail(s)) /\ \A x \in ToSet(Tail(s)) : Head(s) < x
<1>1. Head(s) \in Nat /\ Tail(s) \in Seq(Nat) /\ Len(Tail(s)) = Len(s) - 1
  BY HeadTailProperties
<1>2. \A i \in 1..Len(Tail(s)) : Tail(s)[i] = s[i + 1]
  BY HeadTailProperties
<1>3. Len(s) \in Nat /\ Len(s) > 0 /\ Head(s) = s[1]
  BY EmptySeq
<1>4. DOMAIN s = 1..Len(s) /\ DOMAIN Tail(s) = 1..(Len(s) - 1)
  BY <1>1
<1>5. ToSet(s) = {Head(s)} \cup ToSet(Tail(s))
  <2>1. ASSUME NEW i \in DOMAIN s PROVE s[i] \in {Head(s)} \cup ToSet(Tail(s))
    <3>1. CASE i = 1
      BY <1>3, <3>1
    <3>2. CASE i # 1
      <4>1. i - 1 \in DOMAIN Tail(s) /\ Tail(s)[i - 1] = s[i]
        BY <1>1, <1>2, <1>3, <1>4, <3>2
      <4>2. QED
        BY <4>1 DEF ToSet
    <3>3. QED
      BY <3>1, <3>2
  <2>2. \A i \in DOMAIN Tail(s) : i + 1 \in DOMAIN s /\ Tail(s)[i] = s[i + 1]
    BY <1>1, <1>2, <1>3, <1>4
  <2>3. ToSet(Tail(s)) \subseteq ToSet(s)
    BY <2>2 DEF ToSet
  <2>4. Head(s) \in ToSet(s)
    BY <1>3, <1>4 DEF ToSet
  <2>5. ToSet(s) \subseteq {Head(s)} \cup ToSet(Tail(s))
    BY <2>1, Elements
  <2>6. QED
    BY <2>3, <2>4, <2>5
<1>6. ASSUME Rising(s)
      PROVE  Rising(Tail(s)) /\ \A x \in ToSet(Tail(s)) : Head(s) < x
  <2>1. \A i \in DOMAIN Tail(s) : i + 1 \in DOMAIN s /\ Tail(s)[i] = s[i + 1] /\ 1 < i + 1
    BY <1>1, <1>2, <1>3, <1>4
  <2>2. Rising(Tail(s))
    BY <1>4, <1>6, <2>1 DEF Rising
  <2>3. \A i \in DOMAIN Tail(s) : Head(s) < Tail(s)[i]
    BY <1>3, <1>4, <1>6, <2>1 DEF Rising
  <2>4. QED
    BY <1>1, <2>2, <2>3, Elements
<1>7. QED
  BY <1>1, <1>5, <1>6

\* A transaction puts the batch after the rows.
LEMMA Joined ==
    ASSUME NEW s \in Seq(Nat), NEW t \in Seq(Nat)
    PROVE  /\ s \o t \in Seq(Nat)
           /\ ToSet(s \o t) = ToSet(s) \cup ToSet(t)
           /\ (Rising(s) /\ Rising(t) /\ Before(s, t)) => Rising(s \o t)
<1>1. s \o t \in Seq(Nat) /\ Len(s \o t) = Len(s) + Len(t)
  BY ConcatProperties
<1>2. \A i \in 1..(Len(s) + Len(t)) : (s \o t)[i] = IF i <= Len(s) THEN s[i] ELSE t[i - Len(s)]
  BY ConcatProperties
<1>3. /\ DOMAIN s = 1..Len(s) /\ Len(s) \in Nat /\ DOMAIN t = 1..Len(t) /\ Len(t) \in Nat
      /\ DOMAIN (s \o t) = 1..(Len(s) + Len(t))
  BY <1>1
<1>4. /\ \A i \in DOMAIN s : i \in DOMAIN (s \o t) /\ (s \o t)[i] = s[i]
      /\ \A i \in DOMAIN t : Len(s) + i \in DOMAIN (s \o t) /\ (s \o t)[Len(s) + i] = t[i]
  BY <1>2, <1>3
<1>5. \A i \in DOMAIN (s \o t) : \/ i \in DOMAIN s /\ (s \o t)[i] = s[i]
                                 \/ /\ i > Len(s) /\ i - Len(s) \in DOMAIN t
                                    /\ (s \o t)[i] = t[i - Len(s)]
  BY <1>2, <1>3
<1>6. ToSet(s \o t) = ToSet(s) \cup ToSet(t)
  <2>1. ToSet(s \o t) \subseteq ToSet(s) \cup ToSet(t)
    BY <1>5 DEF ToSet
  <2>2. ToSet(s) \subseteq ToSet(s \o t) /\ ToSet(t) \subseteq ToSet(s \o t)
    BY <1>4 DEF ToSet
  <2>3. QED
    BY <2>1, <2>2
<1>7. ASSUME Rising(s), Rising(t), Before(s, t)
      PROVE  Rising(s \o t)
  <2>1. \A i \in DOMAIN s, j \in DOMAIN t : s[i] < t[j]
    BY <1>7, Elements DEF Before
  <2>2. ASSUME NEW i \in DOMAIN (s \o t), NEW j \in DOMAIN (s \o t), i < j
        PROVE  (s \o t)[i] < (s \o t)[j]
    <3>1. CASE j \in DOMAIN s /\ (s \o t)[j] = s[j]
      BY <1>3, <1>4, <1>5, <1>7, <2>2, <3>1 DEF Rising
    <3>2. CASE j > Len(s) /\ j - Len(s) \in DOMAIN t /\ (s \o t)[j] = t[j - Len(s)]
      <4>1. CASE i \in DOMAIN s /\ (s \o t)[i] = s[i]
        BY <2>1, <3>2, <4>1
      <4>2. CASE i > Len(s) /\ i - Len(s) \in DOMAIN t /\ (s \o t)[i] = t[i - Len(s)]
        <5>1. i - Len(s) < j - Len(s)
          BY <1>3, <2>2
        <5>2. QED
          BY <1>7, <3>2, <4>2, <5>1 DEF Rising
      <4>3. QED
        BY <1>5, <4>1, <4>2
    <3>3. QED
      BY <1>5, <3>1, <3>2
  <2>3. QED
    BY <2>2 DEF Rising
<1>8. QED
  BY <1>1, <1>6, <1>7

\* A cleanup leaves what is to stay, in its order.
LEMMA Left ==
    ASSUME NEW s \in Seq(Nat), NEW gone, NEW t \in Without(s, gone)
    PROVE  /\ t \in Seq(Nat)
           /\ ToSet(t) = ToSet(s) \ gone
           /\ Rising(s) => Rising(t)
<1> DEFINE at == {i \in DOMAIN s : s[i] \notin gone}
           n == Cardinality(at)
<1>1. IsFiniteSet(at) /\ n \in Nat
  <2>1. at \in SUBSET (1..Len(s)) /\ Len(s) \in Nat
    OBVIOUS
  <2>2. IsFiniteSet(1..Len(s))
    BY <2>1, FS_Interval
  <2>3. IsFiniteSet(at)
    BY <2>1, <2>2, FS_Subset
  <2>4. QED
    BY <2>3, FS_CardinalityType
<1>2. PICK p \in [1..n -> at] : /\ \A j, k \in DOMAIN p : j < k => p[j] < p[k]
                                /\ t = [k \in 1..n |-> s[p[k]]]
  BY DEF Without
<1>3. /\ n = Cardinality(at) /\ at \subseteq 1..Len(s) /\ Len(s) \in Nat
      /\ at \subseteq DOMAIN s /\ \A i \in DOMAIN s : i \in at <=> s[i] \notin gone
  OBVIOUS
<1> HIDE DEF at, n
<1>4. \A x \in at : \E k \in 1..n : p[k] = x
  <2>1. p \in Injection(1..n, at)
    <3>1. \A j, k \in 1..n : p[j] = p[k] => j = k
      <4>1. ASSUME NEW j \in 1..n, NEW k \in 1..n, p[j] = p[k], j # k PROVE FALSE
        <5>1. j < k \/ k < j
          BY <1>1, <4>1
        <5>2. p[j] < p[k] \/ p[k] < p[j]
          BY <1>2, <5>1
        <5>3. p[j] \in 1..Len(s) /\ p[k] \in 1..Len(s) /\ Len(s) \in Nat
          BY <1>2, <1>3
        <5>4. QED
          BY <4>1, <5>2, <5>3
      <4>2. QED
        BY <4>1
    <3>2. QED
      BY <1>2, <3>1 DEF Injection, IsInjective
  <2>2. IsFiniteSet(1..n) /\ Cardinality(1..n) = n
    BY <1>1, FS_Interval
  <2>3. p \in Surjection(1..n, at)
    BY <1>1, <1>3, <2>1, <2>2, FS_Injection
  <2>4. QED
    BY <2>3 DEF Surjection
<1>5. \A k \in 1..n : p[k] \in DOMAIN s /\ s[p[k]] \notin gone
  <2>1. \A k \in 1..n : p[k] \in at
    BY <1>2
  <2>2. QED
    BY <1>3, <2>1
<1>6. t \in Seq(Nat) /\ DOMAIN t = 1..n
  <2>1. t \in [1..n -> Nat]
    BY <1>2, <1>5
  <2>2. QED
    BY <1>1, <2>1
<1>7. ToSet(t) = ToSet(s) \ gone
  <2>1. ToSet(t) \subseteq ToSet(s) \ gone
    BY <1>2, <1>5, <1>6 DEF ToSet
  <2>2. ASSUME NEW x \in ToSet(s) \ gone PROVE x \in ToSet(t)
    <3>1. PICK i \in DOMAIN s : x = s[i]
      BY Elements
    <3>2. PICK k \in 1..n : p[k] = i
      BY <1>3, <1>4, <2>2, <3>1
    <3>3. t[k] = x /\ k \in DOMAIN t
      BY <1>2, <1>6, <3>1, <3>2
    <3>4. QED
      BY <3>3 DEF ToSet
  <2>3. QED
    BY <2>1, <2>2
<1>8. ASSUME Rising(s) PROVE Rising(t)
  <2>1. ASSUME NEW j \in DOMAIN t, NEW k \in DOMAIN t, j < k PROVE t[j] < t[k]
    <3>1. p[j] < p[k] /\ p[j] \in DOMAIN s /\ p[k] \in DOMAIN s
      BY <1>2, <1>5, <1>6, <2>1
    <3>2. s[p[j]] < s[p[k]]
      BY <1>8, <3>1 DEF Rising
    <3>3. QED
      BY <1>2, <1>6, <2>1, <3>2
  <2>2. QED
    BY <2>1 DEF Rising
<1>9. QED
  BY <1>6, <1>7, <1>8

\* A sequence that rises has as many elements as positions.
LEMMA Counted ==
    ASSUME NEW s \in Seq(Nat), Rising(s)
    PROVE  IsFiniteSet(ToSet(s)) /\ Cardinality(ToSet(s)) = Len(s)
<1>1. DOMAIN s = 1..Len(s) /\ Len(s) \in Nat
  OBVIOUS
<1>2. s \in Surjection(1..Len(s), ToSet(s))
  BY <1>1 DEF Surjection, ToSet
<1>3. s \in Injection(1..Len(s), ToSet(s))
  <2>1. ASSUME NEW j \in 1..Len(s), NEW k \in 1..Len(s), s[j] = s[k], j # k PROVE FALSE
    <3>1. j < k \/ k < j
      BY <1>1, <2>1
    <3>2. s[j] < s[k] \/ s[k] < s[j]
      BY <1>1, <3>1 DEF Rising
    <3>3. s[j] \in Nat /\ s[k] \in Nat
      BY <1>1
    <3>4. QED
      BY <2>1, <3>2, <3>3
  <2>2. s \in [1..Len(s) -> ToSet(s)]
    BY <1>1 DEF ToSet
  <2>3. QED
    BY <2>1, <2>2 DEF Injection, IsInjective
<1>4. IsFiniteSet(1..Len(s)) /\ Cardinality(1..Len(s)) = Len(s)
  <2>1. PICK m \in Nat : m = Len(s)
    BY <1>1
  <2>2. IsFiniteSet(1..m) /\ Cardinality(1..m) = m
    BY FS_Interval
  <2>3. QED
    BY <2>1, <2>2
<1>5. QED
  BY <1>2, <1>3, <1>4, FS_Surjection
-----------------------------------------------------------------------------
(* SQLite mode.                                                            *)

Typed == /\ logged \in Nat /\ dropped \in Nat
         /\ logCh \in Seq(Nat) /\ batch \in Seq(Nat) /\ db \in Seq(Nat)

\* Rows, batch and channel are in the order of Log one after the other.
InOrder == /\ Rising(db) /\ Rising(batch) /\ Rising(logCh)
           /\ Before(db, batch) /\ Before(db, logCh) /\ Before(batch, logCh)

\* What there is was logged, and what a cleanup deleted is nowhere else.
Numbered == /\ Pending \cup Stored \subseteq Entries
            /\ expired \cap (Pending \cup ToSet(db)) = {}

\* The writer's last write comes after the last entry, and Close waits for it.
Draining == /\ closer # "none" => ~open
            /\ writer \in {"last", "last_retry", "done"} => ~open /\ logCh = <<>>
            /\ writer = "done" => batch = <<>>
            /\ closer = "drained" => writer = "done"

SqliteInv == Typed /\ InOrder /\ Numbered /\ Draining /\ DropsAreCounted

\* Entries that are gone, which DropsAreCounted counts.
Lost == Entries \ (Pending \cup Stored)

LEMMA LostIsFinite == Typed => IsFiniteSet(Lost)
<1> SUFFICES ASSUME Typed PROVE IsFiniteSet(Lost)
  OBVIOUS
<1>1. PICK n \in Nat : n = logged
  BY DEF Typed
<1>2. IsFiniteSet(1..n)
  BY FS_Interval
<1>3. IsFiniteSet(Entries) /\ Lost \in SUBSET Entries
  BY <1>1, <1>2 DEF Entries, Lost
<1>4. QED
  BY <1>3, FS_Subset

\* SqliteInit establishes the invariant.
LEMMA SqliteStarts == SqliteInit => SqliteInv
<1> SUFFICES ASSUME SqliteInit PROVE SqliteInv
  OBVIOUS
<1>1. Typed
  BY DEF SqliteInit, Typed
<1>2. InOrder
  BY Empty DEF SqliteInit, InOrder, Before
<1>3. Numbered
  BY Empty DEF SqliteInit, Numbered, Pending, Stored
<1>4. Draining
  BY DEF SqliteInit, Draining
<1>5. DropsAreCounted
  <2>1. Entries \ (Pending \cup Stored) = {} /\ dropped = 0
    BY DEF SqliteInit, Entries
  <2>2. QED
    BY <2>1, FS_EmptySet DEF DropsAreCounted
<1>6. QED
  BY <1>1, <1>2, <1>3, <1>4, <1>5 DEF SqliteInv

\* Steps that move no entry leave only Draining to be shown.
LEMMA NothingMoves ==
    ASSUME SqliteInv, UNCHANGED <<logged, logCh, batch, db, expired, dropped>>, Draining'
    PROVE  SqliteInv'
BY DEF SqliteInv, Typed, InOrder, Before, Rising, Numbered, DropsAreCounted, Pending, Stored,
       Entries

\* Log.
LEMMA LogKeeps == SqliteInv /\ LogToChannel => SqliteInv'
<1> SUFFICES ASSUME SqliteInv, LogToChannel PROVE SqliteInv'
  OBVIOUS
<1>1. Typed /\ InOrder /\ Numbered /\ Draining /\ DropsAreCounted
  BY DEF SqliteInv
<1>2. PICK e \in Nat : e = logged + 1
  BY <1>1 DEF Typed
<1>3. logged' = e /\ UNCHANGED <<open, writer, batch, db, dbOpen, expired, closer>>
  BY <1>2 DEF LogToChannel, store
<1>4. /\ Entries' = Entries \cup {e} /\ e \notin Entries
      /\ \A x \in Entries : x < e
  BY <1>1, <1>2, <1>3 DEF Entries, Typed
<1>5. e \notin Pending \cup Stored
  BY <1>1, <1>4 DEF Numbered
<1>6. Draining'
  BY <1>1, <1>3 DEF Draining, LogToChannel
<1>7. IsFiniteSet(Lost) /\ dropped = Cardinality(Lost)
  BY <1>1, LostIsFinite DEF DropsAreCounted, Lost
<1>8. CASE logCh' = Append(logCh, e) /\ dropped' = dropped
  <2>1. \A x \in ToSet(logCh) : x < e
    BY <1>1, <1>4 DEF Numbered, Pending
  <2>2. /\ logCh' \in Seq(Nat) /\ ToSet(logCh)' = ToSet(logCh) \cup {e}
        /\ Rising(logCh)'
    <3>1. PICK s \in Seq(Nat) : s = logCh /\ Rising(s)
      BY <1>1 DEF Typed, InOrder
    <3>2. /\ Append(s, e) \in Seq(Nat) /\ ToSet(Append(s, e)) = ToSet(s) \cup {e}
          /\ Rising(Append(s, e))
      BY <2>1, <3>1, Appended
    <3>3. QED
      BY <1>8, <3>1, <3>2
  <2>3. Typed'
    BY <1>1, <1>3, <1>8, <2>2 DEF Typed
  <2>4. InOrder'
    <3>1. \A x \in ToSet(db) \cup ToSet(batch) : x < e
      BY <1>1, <1>4 DEF Numbered, Pending, Stored
    <3>2. Before(db, logCh)' /\ Before(batch, logCh)'
      BY <1>1, <1>3, <2>2, <3>1 DEF InOrder, Before
    <3>3. QED
      BY <1>1, <1>3, <2>2, <3>2 DEF InOrder, Before, Rising
  <2>5. Pending' = Pending \cup {e} /\ Stored' = Stored /\ ToSet(db)' = ToSet(db)
    BY <1>3, <2>2 DEF Pending, Stored
  <2>6. Numbered'
    BY <1>1, <1>3, <1>4, <1>5, <2>5 DEF Numbered, Stored
  <2>7. DropsAreCounted'
    <3>1. Lost' = Lost
      BY <1>4, <1>5, <2>5 DEF Lost
    <3>2. QED
      BY <1>7, <1>8, <3>1 DEF DropsAreCounted, Lost
  <2>8. QED
    BY <1>6, <2>3, <2>4, <2>6, <2>7 DEF SqliteInv
<1>9. CASE logCh' = logCh /\ dropped' = dropped + 1
  <2>1. Pending' = Pending /\ Stored' = Stored /\ ToSet(db)' = ToSet(db)
    BY <1>3, <1>9 DEF Pending, Stored
  <2>2. Typed' /\ InOrder'
    BY <1>1, <1>3, <1>9 DEF Typed, InOrder, Before, Rising
  <2>3. Numbered'
    BY <1>1, <1>3, <1>4, <2>1 DEF Numbered
  <2>4. DropsAreCounted'
    <3>1. Lost' = Lost \cup {e} /\ e \notin Lost
      BY <1>4, <1>5, <2>1 DEF Lost
    <3>2. Cardinality(Lost \cup {e}) = Cardinality(Lost) + 1
      BY <1>7, <3>1, FS_AddElement
    <3>3. QED
      BY <1>7, <1>9, <3>1, <3>2 DEF DropsAreCounted, Lost
  <2>5. QED
    BY <1>6, <2>2, <2>3, <2>4 DEF SqliteInv
<1>10. QED
  BY <1>2, <1>8, <1>9 DEF LogToChannel

\* The writer takes an entry out of the channel.
LEMMA ReceiveKeeps == SqliteInv /\ Receive => SqliteInv'
<1> SUFFICES ASSUME SqliteInv, Receive PROVE SqliteInv'
  OBVIOUS
<1>1. Typed /\ InOrder /\ Numbered /\ Draining /\ DropsAreCounted
  BY DEF SqliteInv
<1>2. PICK s \in Seq(Nat), b \in Seq(Nat) : s = logCh /\ b = batch /\ s # <<>>
  BY <1>1 DEF Typed, Receive
<1>3. PICK e, r : e = Head(s) /\ r = Tail(s)
  OBVIOUS
<1>4. /\ e \in Nat /\ r \in Seq(Nat) /\ ToSet(s) = {e} \cup ToSet(r)
      /\ Rising(s) => Rising(r) /\ \A x \in ToSet(r) : e < x
  BY <1>2, <1>3, Taken
<1>5. /\ Append(b, e) \in Seq(Nat) /\ ToSet(Append(b, e)) = ToSet(b) \cup {e}
      /\ (Rising(b) /\ \A x \in ToSet(b) : x < e) => Rising(Append(b, e))
  BY <1>2, <1>4, Appended
<1>6. /\ logCh' = r /\ batch' = Append(b, e)
      /\ UNCHANGED <<logged, open, db, dbOpen, expired, dropped, closer>>
      /\ writer' \in {"write", "select"} /\ writer = "select"
  BY <1>2, <1>3 DEF Receive, store
<1>7. Typed'
  BY <1>1, <1>4, <1>5, <1>6 DEF Typed
<1>8. InOrder'
  <2>1. Rising(r) /\ \A x \in ToSet(r) : e < x
    BY <1>1, <1>2, <1>4 DEF InOrder
  <2>2. (\A x \in ToSet(b) : x < e) /\ (\A x \in ToSet(db) : x < e)
    BY <1>1, <1>2, <1>4 DEF InOrder, Before
  <2>3. Rising(Append(b, e))
    BY <1>1, <1>2, <1>5, <2>2 DEF InOrder
  <2>4. Before(db, Append(b, e)) /\ Before(db, r) /\ Before(Append(b, e), r)
    BY <1>1, <1>2, <1>4, <1>5, <2>1, <2>2 DEF InOrder, Before
  <2>5. QED
    BY <1>1, <1>6, <2>1, <2>3, <2>4 DEF InOrder, Rising, Before
<1>9. Pending' = Pending /\ Stored' = Stored /\ ToSet(db)' = ToSet(db) /\ Entries' = Entries
  BY <1>2, <1>4, <1>5, <1>6 DEF Pending, Stored, Entries
<1>10. Numbered' /\ DropsAreCounted'
  BY <1>1, <1>6, <1>9 DEF Numbered, DropsAreCounted
<1>11. Draining'
  BY <1>1, <1>6 DEF Draining
<1>12. QED
  BY <1>7, <1>8, <1>10, <1>11 DEF SqliteInv

\* Rows past the retention are deleted.
LEMMA CleanupKeeps == SqliteInv /\ Cleanup => SqliteInv'
<1> SUFFICES ASSUME SqliteInv, Cleanup PROVE SqliteInv'
  OBVIOUS
<1>1. Typed /\ InOrder /\ Numbered /\ Draining /\ DropsAreCounted
  BY DEF SqliteInv
<1>2. PICK s \in Seq(Nat) : s = db
  BY <1>1 DEF Typed
<1>3. PICK gone \in SUBSET ToSet(s) : db' \in Without(s, gone) /\ expired' = expired \cup gone
  BY <1>2 DEF Cleanup
<1>4. PICK rows \in Without(s, gone) : rows = db'
  BY <1>3
<1>5. /\ rows \in Seq(Nat) /\ ToSet(rows) = ToSet(s) \ gone
      /\ Rising(s) => Rising(rows)
  BY <1>2, <1>4, Left
<1>6. /\ UNCHANGED <<logged, logCh, open, writer, batch, dbOpen, dropped, closer>>
      /\ writer = "select"
  BY DEF Cleanup
<1>7. Typed'
  BY <1>1, <1>4, <1>5, <1>6 DEF Typed
<1>8. InOrder'
  <2>1. Rising(rows) /\ Before(rows, batch) /\ Before(rows, logCh)
    BY <1>1, <1>2, <1>5 DEF InOrder, Before
  <2>2. QED
    BY <1>1, <1>4, <1>6, <2>1 DEF InOrder, Rising, Before
<1>9. Pending' = Pending /\ Entries' = Entries
  BY <1>6 DEF Pending, Entries
<1>10. ToSet(db)' = ToSet(db) \ gone /\ gone \subseteq ToSet(db)
  BY <1>2, <1>4, <1>5
<1>11. Stored' = Stored
  BY <1>3, <1>10 DEF Stored
<1>12. Numbered'
  <2>1. gone \cap Pending = {}
    <3>1. \A x \in ToSet(db), y \in Pending : x # y
      <4>1. \A x \in ToSet(db), y \in Pending : x < y
        BY <1>1 DEF InOrder, Before, Pending
      <4>2. ToSet(db) \subseteq Nat
        BY <1>2, Elements
      <4>3. QED
        BY <4>1, <4>2
    <3>2. QED
      BY <1>10, <3>1
  <2>2. expired' \cap (Pending' \cup ToSet(db)') = {}
    BY <1>1, <1>3, <1>9, <1>10, <2>1 DEF Numbered
  <2>3. QED
    BY <1>1, <1>9, <1>11, <2>2 DEF Numbered
<1>13. DropsAreCounted'
  BY <1>1, <1>6, <1>9, <1>11 DEF DropsAreCounted
<1>14. Draining'
  BY <1>1, <1>6 DEF Draining
<1>15. QED
  BY <1>7, <1>8, <1>12, <1>13, <1>14 DEF SqliteInv

\* The transaction is committed.
LEMMA CommitKeeps == SqliteInv /\ Commit => SqliteInv'
<1> SUFFICES ASSUME SqliteInv, Commit PROVE SqliteInv'
  OBVIOUS
<1>1. Typed /\ InOrder /\ Numbered /\ Draining /\ DropsAreCounted
  BY DEF SqliteInv
<1>2. PICK s \in Seq(Nat), b \in Seq(Nat) : s = db /\ b = batch
  BY <1>1 DEF Typed
<1>3. /\ db' = s \o b /\ batch' = <<>>
      /\ UNCHANGED <<logged, logCh, open, dbOpen, expired, dropped, closer>>
      /\ writer \in {"write", "retry", "last", "last_retry"} /\ writer' = After(writer)
  BY <1>2 DEF Commit
<1>4. /\ s \o b \in Seq(Nat) /\ ToSet(s \o b) = ToSet(s) \cup ToSet(b)
      /\ (Rising(s) /\ Rising(b) /\ Before(s, b)) => Rising(s \o b)
  BY <1>2, Joined
<1>5. Typed'
  BY <1>1, <1>3, <1>4, Empty DEF Typed
<1>6. InOrder'
  <2>1. Rising(s \o b) /\ Before(s \o b, logCh)
    BY <1>1, <1>2, <1>4 DEF InOrder, Before
  <2>2. Rising(db)' /\ Before(db, logCh)' /\ Rising(logCh)'
    BY <1>1, <1>3, <2>1 DEF InOrder, Rising, Before
  <2>3. Rising(batch)' /\ Before(db, batch)' /\ Before(batch, logCh)'
    BY <1>3, Empty DEF Before, Rising
  <2>4. QED
    BY <2>2, <2>3 DEF InOrder
<1>7. /\ ToSet(db)' = ToSet(db) \cup ToSet(batch) /\ ToSet(batch)' = {}
      /\ ToSet(logCh)' = ToSet(logCh) /\ Entries' = Entries
  BY <1>2, <1>3, <1>4, Empty DEF Entries
<1>8. Numbered'
  BY <1>1, <1>3, <1>7 DEF Numbered, Pending, Stored
<1>9. DropsAreCounted'
  <2>1. Pending' \cup Stored' = Pending \cup Stored
    BY <1>3, <1>7 DEF Pending, Stored
  <2>2. QED
    BY <1>1, <1>3, <1>7, <2>1 DEF DropsAreCounted
<1>10. Draining'
  BY <1>1, <1>3 DEF Draining, After
<1>11. QED
  BY <1>5, <1>6, <1>8, <1>9, <1>10 DEF SqliteInv

\* The batch is dropped and counted.
LEMMA GiveUpKeeps == SqliteInv /\ GiveUp => SqliteInv'
<1> SUFFICES ASSUME SqliteInv, GiveUp PROVE SqliteInv'
  OBVIOUS
<1>1. Typed /\ InOrder /\ Numbered /\ Draining /\ DropsAreCounted
  BY DEF SqliteInv
<1>2. PICK b \in Seq(Nat) : b = batch
  BY <1>1 DEF Typed
<1>3. /\ batch' = <<>> /\ dropped' = dropped + Len(b)
      /\ UNCHANGED <<logged, logCh, open, db, dbOpen, expired, closer>>
      /\ writer \in {"retry", "last_retry"} /\ writer' = After(writer)
  BY <1>2 DEF GiveUp, store
<1>4. Typed'
  BY <1>1, <1>2, <1>3, Empty DEF Typed
<1>5. InOrder'
  <2>1. Rising(db)' /\ Before(db, logCh)' /\ Rising(logCh)'
    BY <1>1, <1>3 DEF InOrder, Rising, Before
  <2>2. Rising(batch)' /\ Before(db, batch)' /\ Before(batch, logCh)'
    BY <1>3, Empty DEF Before, Rising
  <2>3. QED
    BY <2>1, <2>2 DEF InOrder
<1>6. /\ ToSet(batch)' = {} /\ ToSet(logCh)' = ToSet(logCh) /\ ToSet(db)' = ToSet(db)
      /\ Entries' = Entries
  BY <1>3, Empty DEF Entries
<1>7. Numbered'
  BY <1>1, <1>3, <1>6 DEF Numbered, Pending, Stored
<1>8. DropsAreCounted'
  <2>1. /\ ToSet(batch) \cap (ToSet(logCh) \cup Stored) = {} /\ ToSet(batch) \subseteq Entries
    <3>1. \A x \in ToSet(batch), y \in ToSet(logCh) : x < y
      BY <1>1 DEF InOrder, Before
    <3>2. \A x \in ToSet(db), y \in ToSet(batch) : x < y
      BY <1>1 DEF InOrder, Before
    <3>3. ToSet(batch) \subseteq Nat
      BY <1>2, Elements
    <3>4. ToSet(batch) \cap (ToSet(logCh) \cup ToSet(db)) = {}
      BY <3>1, <3>2, <3>3
    <3>5. QED
      BY <1>1, <3>4 DEF Numbered, Pending, Stored
  <2>2. Lost' = Lost \cup ToSet(b) /\ Lost \cap ToSet(b) = {}
    BY <1>2, <1>3, <1>6, <2>1 DEF Lost, Pending, Stored
  <2>3. IsFiniteSet(Lost) /\ dropped = Cardinality(Lost)
    BY <1>1, LostIsFinite DEF DropsAreCounted, Lost
  <2>4. IsFiniteSet(ToSet(b)) /\ Cardinality(ToSet(b)) = Len(b)
    BY <1>1, <1>2, Counted DEF InOrder
  <2>5. Cardinality(Lost \cup ToSet(b)) = Cardinality(Lost) + Cardinality(ToSet(b))
    <3>1. Cardinality(Lost \cup ToSet(b))
            = Cardinality(Lost) + Cardinality(ToSet(b)) - Cardinality(Lost \cap ToSet(b))
      BY <2>3, <2>4, FS_Union
    <3>2. Cardinality(Lost \cap ToSet(b)) = 0
      BY <2>2, FS_EmptySet
    <3>3. Cardinality(Lost) \in Nat /\ Cardinality(ToSet(b)) \in Nat
      BY <2>3, <2>4, FS_CardinalityType
    <3>4. QED
      BY <3>1, <3>2, <3>3
  <2>6. QED
    BY <1>3, <2>2, <2>3, <2>4, <2>5 DEF DropsAreCounted, Lost
<1>9. Draining'
  BY <1>1, <1>3 DEF Draining, After
<1>10. QED
  BY <1>4, <1>5, <1>7, <1>8, <1>9 DEF SqliteInv

\* The invariant is kept by every step of SQLite mode.
LEMMA SqliteKeeps == SqliteInv /\ [SqliteNext]_sqliteVars => SqliteInv'
<1> SUFFICES ASSUME SqliteInv, [SqliteNext]_sqliteVars PROVE SqliteInv'
  OBVIOUS
<1> USE DEF store
<1>1. Draining
  BY DEF SqliteInv
<1>2. CASE LogToChannel
  BY <1>2, LogKeeps
<1>3. CASE Receive
  BY <1>3, ReceiveKeeps
<1>4. CASE Flush
  BY <1>1, <1>4, NothingMoves DEF Flush, Draining
<1>5. CASE ReceiveClosed
  BY <1>1, <1>5, NothingMoves DEF ReceiveClosed, Draining
<1>6. CASE Cleanup
  BY <1>6, CleanupKeeps
<1>7. CASE Commit
  BY <1>7, CommitKeeps
<1>8. CASE Fail
  BY <1>1, <1>8, NothingMoves DEF Fail, Draining
<1>9. CASE GiveUp
  BY <1>9, GiveUpKeeps
<1>10. CASE CloseChannel
  BY <1>1, <1>10, NothingMoves DEF CloseChannel, Draining
<1>11. CASE Drained
  BY <1>1, <1>11, NothingMoves DEF Drained, Draining
<1>12. CASE Forced
  BY <1>1, <1>12, NothingMoves DEF Forced, Draining
<1>13. CASE UNCHANGED sqliteVars
  BY <1>1, <1>13, NothingMoves DEF sqliteVars, Draining
<1>14. QED
  BY <1>2, <1>3, <1>4, <1>5, <1>6, <1>7, <1>8, <1>9, <1>10, <1>11, <1>12, <1>13
  DEF SqliteNext, Writer, Write

-----------------------------------------------------------------------------
(* JSONL mode.                                                             *)

LoggersOf == [pc : {"none", "open", "rewrite", "closed"}, file : 1..MaxFiles,
              closing : BOOLEAN, kept : Seq(Nat)]

FilesTyped == /\ newest \in Nat /\ cutoff \in Nat /\ written \subseteq 1..newest
              /\ path \in 1..MaxFiles /\ files \in 1..MaxFiles
              /\ file \in [1..MaxFiles -> Seq(Nat)]
              /\ logger \in [Loggers -> LoggersOf]

\* The entries of any file are in their order, and those a cleanup kept are.
LinesOK == /\ \A f \in 1..MaxFiles : Rising(file[f]) /\ ToSet(file[f]) \subseteq 1..newest
           /\ \A l \in Loggers : /\ Rising(logger[l].kept)
                                 /\ ToSet(logger[l].kept) \subseteq 1..newest

Alone == \A l \in Loggers \ {First} : logger[l].pc = "none"

\* A logger that has the path for itself appends to the file it leads to, and
\* its cleanup has kept what was written and is within the retention.
SurvivalOK ==
    Alone => /\ written \ (1..cutoff) \subseteq ToSet(file[path])
             /\ logger[First].pc # "closed" => logger[First].file = path
             /\ logger[First].pc = "rewrite" =>
                    written \ (1..cutoff) \subseteq ToSet(logger[First].kept)

JsonlInv == FilesTyped /\ LinesOK /\ SurvivalOK

IInv == SqliteInv /\ JsonlInv

\* newJSONLLogger makes the one logger there is.
LEMMA JsonlStarts == JsonlInit => JsonlInv
<1> SUFFICES ASSUME JsonlInit PROVE JsonlInv
  OBVIOUS
<1>1. 1 \in 1..MaxFiles /\ First \in Loggers
  BY JsonlAssumption
<1>2. Opened(1) \in LoggersOf /\ Unmade \in LoggersOf
  BY <1>1, Empty DEF Opened, Unmade, LoggersOf
<1>3. FilesTyped
  BY <1>1, <1>2, Empty DEF JsonlInit, FilesTyped
<1>4. \A l \in Loggers : logger[l].kept = <<>>
  BY DEF JsonlInit, Opened, Unmade
<1>5. LinesOK
  BY <1>4, Empty DEF JsonlInit, LinesOK
<1>6. SurvivalOK
  BY <1>1 DEF JsonlInit, SurvivalOK, Opened
<1>7. QED
  BY <1>3, <1>5, <1>6 DEF JsonlInv

\* What a step of l that is not a write does to the loggers: no other one
\* changes, and the one l has become is as it must be.
LEMMA LoggerMoves ==
    ASSUME JsonlInv, NEW l \in Loggers, NEW q \in LoggersOf,
           logger' = [logger EXCEPT ![l] = q],
           UNCHANGED <<newest, cutoff, file, path, files, written>>,
           q.pc # "none",
           Rising(q.kept), ToSet(q.kept) \subseteq 1..newest,
           Alone /\ l = First =>
               /\ q.pc # "closed" => q.file = path
               /\ q.pc = "rewrite" => written \ (1..cutoff) \subseteq ToSet(q.kept)
    PROVE  JsonlInv'
<1>1. FilesTyped /\ LinesOK /\ SurvivalOK
  BY DEF JsonlInv
<1>2. logger'[l] = q /\ \A k \in Loggers \ {l} : logger'[k] = logger[k]
  BY <1>1 DEF FilesTyped
<1>3. FilesTyped'
  BY <1>1 DEF FilesTyped
<1>4. LinesOK'
  <2>1. \A k \in Loggers : Rising(logger'[k].kept) /\ ToSet(logger'[k].kept) \subseteq 1..newest
    BY <1>1, <1>2 DEF LinesOK
  <2>2. QED
    BY <1>1, <2>1 DEF LinesOK, Rising
<1>5. SurvivalOK'
  <2>1. SUFFICES ASSUME Alone'
                 PROVE  /\ written \ (1..cutoff) \subseteq ToSet(file[path])
                        /\ logger'[First].pc # "closed" => logger'[First].file = path
                        /\ logger'[First].pc = "rewrite" =>
                               written \ (1..cutoff) \subseteq ToSet(logger'[First].kept)
    BY DEF SurvivalOK
  <2>2. l = First
    BY <1>2, <2>1 DEF Alone
  <2>3. Alone
    BY <1>2, <2>1, <2>2 DEF Alone
  <2>4. QED
    BY <1>1, <1>2, <2>2, <2>3 DEF SurvivalOK
<1>6. QED
  BY <1>3, <1>4, <1>5 DEF JsonlInv

\* newJSONLLogger, on a reload.
LEMMA OpenKeeps == ASSUME JsonlInv, NEW l \in Loggers, Open(l) PROVE JsonlInv'
<1>1. FilesTyped
  BY DEF JsonlInv
<1>2. PICK q : q = Opened(path)
  OBVIOUS
<1>3. q \in LoggersOf /\ q.pc = "open" /\ q.file = path /\ q.kept = <<>>
  BY <1>1, <1>2, Empty DEF FilesTyped, Opened, LoggersOf
<1>4. Rising(q.kept) /\ ToSet(q.kept) \subseteq 1..newest
  BY <1>3, Empty
<1>5. logger' = [logger EXCEPT ![l] = q]
      /\ UNCHANGED <<newest, cutoff, file, path, files, written>>
  BY <1>2 DEF Open
<1>6. QED
  BY <1>3, <1>4, <1>5, LoggerMoves

\* A cleanup that failed has changed nothing.
LEMMA RewriteFailsKeeps == ASSUME JsonlInv, NEW l \in Loggers, RewriteFails(l) PROVE JsonlInv'
<1>1. FilesTyped /\ SurvivalOK
  BY DEF JsonlInv
<1>2. PICK r \in LoggersOf : r = logger[l] /\ r.pc = "rewrite"
  BY <1>1 DEF FilesTyped, RewriteFails
<1>3. PICK q : q = [r EXCEPT !.pc = "open", !.kept = <<>>]
  OBVIOUS
<1>4. q \in LoggersOf /\ q.pc = "open" /\ q.file = r.file /\ q.kept = <<>>
  BY <1>2, <1>3, Empty DEF LoggersOf
<1>5. Rising(q.kept) /\ ToSet(q.kept) \subseteq 1..newest
  BY <1>4, Empty
<1>6. logger' = [logger EXCEPT ![l] = q]
      /\ UNCHANGED <<newest, cutoff, file, path, files, written>>
  BY <1>1, <1>2, <1>3 DEF RewriteFails, FilesTyped
<1>7. Alone /\ l = First => q.file = path
  BY <1>1, <1>2, <1>4 DEF SurvivalOK
<1>8. QED
  BY <1>4, <1>5, <1>6, <1>7, LoggerMoves

\* Close changes neither what is kept nor the file.
LEMMA StopCleanupKeeps == ASSUME JsonlInv, NEW l \in Loggers, StopCleanup(l) PROVE JsonlInv'
<1>1. FilesTyped /\ LinesOK /\ SurvivalOK
  BY DEF JsonlInv
<1>2. PICK r \in LoggersOf : r = logger[l] /\ r.pc \in {"open", "rewrite"}
  BY <1>1 DEF FilesTyped, StopCleanup
<1>3. PICK q : q = [r EXCEPT !.closing = TRUE]
  OBVIOUS
<1>4. q \in LoggersOf /\ q.pc = r.pc /\ q.file = r.file /\ q.kept = r.kept
  BY <1>2, <1>3 DEF LoggersOf
<1>5. Rising(q.kept) /\ ToSet(q.kept) \subseteq 1..newest
  BY <1>1, <1>2, <1>4 DEF LinesOK
<1>6. logger' = [logger EXCEPT ![l] = q]
      /\ UNCHANGED <<newest, cutoff, file, path, files, written>>
  BY <1>1, <1>2, <1>3 DEF StopCleanup, FilesTyped
<1>7. Alone /\ l = First =>
          /\ q.pc # "closed" => q.file = path
          /\ q.pc = "rewrite" => written \ (1..cutoff) \subseteq ToSet(q.kept)
  BY <1>1, <1>2, <1>4 DEF SurvivalOK
<1>8. QED
  BY <1>2, <1>4, <1>5, <1>6, <1>7, LoggerMoves

\* The file is closed.
LEMMA CloseFileKeeps == ASSUME JsonlInv, NEW l \in Loggers, CloseFile(l) PROVE JsonlInv'
<1>1. FilesTyped /\ LinesOK /\ SurvivalOK
  BY DEF JsonlInv
<1>2. PICK r \in LoggersOf : r = logger[l]
  BY <1>1 DEF FilesTyped
<1>3. PICK q : q = [r EXCEPT !.pc = "closed"]
  OBVIOUS
<1>4. q \in LoggersOf /\ q.pc = "closed" /\ q.kept = r.kept
  BY <1>2, <1>3 DEF LoggersOf
<1>5. Rising(q.kept) /\ ToSet(q.kept) \subseteq 1..newest
  BY <1>1, <1>2, <1>4 DEF LinesOK
<1>6. logger' = [logger EXCEPT ![l] = q]
      /\ UNCHANGED <<newest, cutoff, file, path, files, written>>
  BY <1>1, <1>2, <1>3 DEF CloseFile, FilesTyped
<1>7. QED
  BY <1>4, <1>5, <1>6, LoggerMoves

\* A cleanup has read the file by its name.
LEMMA ReadAllKeeps == ASSUME JsonlInv, NEW l \in Loggers, ReadAll(l) PROVE JsonlInv'
<1>1. FilesTyped /\ LinesOK /\ SurvivalOK
  BY DEF JsonlInv
<1>2. PICK r \in LoggersOf : r = logger[l] /\ r.pc = "open"
  BY <1>1 DEF FilesTyped, ReadAll
<1>3. PICK s \in Seq(Nat) : s = file[path] /\ Rising(s) /\ ToSet(s) \subseteq 1..newest
  BY <1>1 DEF FilesTyped, LinesOK
<1>4. PICK gone : gone = 1..cutoff
  OBVIOUS
<1>5. PICK kept \in Without(s, gone) :
         logger' = [logger EXCEPT ![l].pc = "rewrite", ![l].kept = kept]
  BY <1>3, <1>4 DEF ReadAll
<1>6. kept \in Seq(Nat) /\ ToSet(kept) = ToSet(s) \ gone /\ Rising(kept)
  BY <1>3, <1>5, Left
<1>7. PICK q : q = [r EXCEPT !.pc = "rewrite", !.kept = kept]
  OBVIOUS
<1>8. q \in LoggersOf /\ q.pc = "rewrite" /\ q.file = r.file /\ q.kept = kept
  BY <1>2, <1>6, <1>7 DEF LoggersOf
<1>9. logger' = [logger EXCEPT ![l] = q]
      /\ UNCHANGED <<newest, cutoff, file, path, files, written>>
  BY <1>1, <1>2, <1>5, <1>7 DEF ReadAll, FilesTyped
<1>10. Rising(q.kept) /\ ToSet(q.kept) \subseteq 1..newest
  BY <1>3, <1>6, <1>8
<1>11. Alone /\ l = First =>
          /\ q.file = path
          /\ written \ (1..cutoff) \subseteq ToSet(q.kept)
  BY <1>1, <1>2, <1>3, <1>4, <1>6, <1>8 DEF SurvivalOK
<1>12. QED
  BY <1>8, <1>9, <1>10, <1>11, LoggerMoves

\* Log writes a line to the file of its descriptor, if that is open.
LEMMA LogToFileKeeps == ASSUME JsonlInv, NEW l \in Loggers, LogToFile(l) PROVE JsonlInv'
<1>1. FilesTyped /\ LinesOK /\ SurvivalOK
  BY DEF JsonlInv
<1>2. PICK e \in Nat : e = newest + 1
  BY <1>1 DEF FilesTyped
<1>3. /\ newest' = e /\ UNCHANGED <<cutoff, path, files, logger>>
      /\ logger[l].pc \in {"open", "closed"}
  BY <1>2 DEF LogToFile
<1>4. 1..newest \subseteq 1..e /\ e \in 1..e /\ e \notin 1..newest /\ \A x \in 1..newest : x < e
  BY <1>1, <1>2 DEF FilesTyped
<1>5. CASE logger[l].pc = "closed"
  <2>1. UNCHANGED <<file, written>>
    BY <1>5 DEF LogToFile
  <2>2. FilesTyped'
    BY <1>1, <1>3, <1>4, <2>1 DEF FilesTyped
  <2>3. LinesOK'
    BY <1>1, <1>3, <1>4, <2>1 DEF LinesOK, Rising
  <2>4. SurvivalOK'
    BY <1>1, <1>3, <2>1 DEF SurvivalOK, Alone
  <2>5. QED
    BY <2>2, <2>3, <2>4 DEF JsonlInv
<1>6. CASE logger[l].pc = "open"
  <2>1. PICK f \in 1..MaxFiles : f = logger[l].file
    BY <1>1 DEF FilesTyped, LoggersOf
  <2>2. PICK s \in Seq(Nat) : s = file[f] /\ Rising(s) /\ ToSet(s) \subseteq 1..newest
    BY <1>1 DEF FilesTyped, LinesOK
  <2>3. PICK t : t = Append(s, e)
    OBVIOUS
  <2>4. t \in Seq(Nat) /\ ToSet(t) = ToSet(s) \cup {e} /\ Rising(t)
    <3>1. \A x \in ToSet(s) : x < e
      BY <1>4, <2>2
    <3>2. QED
      BY <2>2, <2>3, <3>1, Appended
  <2>5. file' = [file EXCEPT ![f] = t] /\ written' = written \cup {e}
    BY <1>2, <1>6, <2>1, <2>2, <2>3 DEF LogToFile
  <2>6. file'[f] = t /\ \A g \in 1..MaxFiles \ {f} : file'[g] = file[g]
    BY <1>1, <2>5 DEF FilesTyped
  <2>7. FilesTyped'
    BY <1>1, <1>3, <1>4, <2>4, <2>5 DEF FilesTyped
  <2>8. LinesOK'
    <3>1. ASSUME NEW g \in 1..MaxFiles
          PROVE  Rising(file'[g]) /\ ToSet(file'[g]) \subseteq 1..e
      <4>1. CASE g = f
        BY <1>4, <2>2, <2>4, <2>6, <4>1
      <4>2. CASE g # f
        BY <1>1, <1>4, <2>6, <4>2 DEF LinesOK
      <4>3. QED
        BY <4>1, <4>2
    <3>2. \A k \in Loggers : Rising(logger'[k].kept) /\ ToSet(logger'[k].kept) \subseteq 1..e
      BY <1>1, <1>3, <1>4 DEF LinesOK
    <3>3. QED
      BY <1>3, <3>1, <3>2 DEF LinesOK, Rising
  <2>9. SurvivalOK'
    <3>1. SUFFICES ASSUME Alone' PROVE /\ written' \ (1..cutoff) \subseteq ToSet(file'[path])
                                       /\ logger[First].pc # "closed" => logger[First].file = path
                                       /\ logger[First].pc # "rewrite"
      BY <1>3 DEF SurvivalOK
    <3>2. Alone /\ l = First
      BY <1>3, <1>6, <3>1 DEF Alone
    <3>3. f = path /\ written \ (1..cutoff) \subseteq ToSet(s)
      BY <1>1, <1>6, <2>1, <2>2, <3>2 DEF SurvivalOK
    <3>4. written' \ (1..cutoff) \subseteq ToSet(t)
      BY <2>4, <2>5, <3>3
    <3>5. QED
      BY <1>6, <2>1, <2>6, <3>2, <3>3, <3>4
  <2>10. QED
    BY <2>7, <2>8, <2>9 DEF JsonlInv
<1>7. QED
  BY <1>3, <1>5, <1>6

\* The name is moved to a new file with what the cleanup kept.
LEMMA RewriteKeeps == ASSUME JsonlInv, NEW l \in Loggers, Rewrite(l) PROVE JsonlInv'
<1>1. FilesTyped /\ LinesOK /\ SurvivalOK
  BY DEF JsonlInv
<1>2. PICK r \in LoggersOf : r = logger[l] /\ r.pc = "rewrite"
  BY <1>1 DEF FilesTyped, Rewrite
<1>3. PICK f \in 1..MaxFiles : f = files + 1
  BY <1>1, JsonlAssumption DEF FilesTyped, Rewrite
<1>4. PICK s \in Seq(Nat) : s = r.kept /\ Rising(s) /\ ToSet(s) \subseteq 1..newest
  BY <1>1, <1>2 DEF LinesOK, LoggersOf
<1>5. PICK q : q = [r EXCEPT !.pc = "open", !.file = f, !.kept = <<>>]
  OBVIOUS
<1>6. q \in LoggersOf /\ q.pc = "open" /\ q.file = f /\ q.kept = <<>>
  BY <1>2, <1>5, Empty DEF LoggersOf
<1>7. /\ files' = f /\ path' = f /\ file' = [file EXCEPT ![f] = s]
      /\ UNCHANGED <<newest, cutoff, written>>
  BY <1>2, <1>3, <1>4 DEF Rewrite
<1>8. logger' = [logger EXCEPT ![l] = q]
  BY <1>1, <1>2, <1>3, <1>5 DEF Rewrite, FilesTyped
<1>9. logger'[l] = q /\ \A k \in Loggers \ {l} : logger'[k] = logger[k]
  BY <1>1, <1>8 DEF FilesTyped
<1>10. file'[f] = s /\ \A g \in 1..MaxFiles \ {f} : file'[g] = file[g]
  BY <1>1, <1>7 DEF FilesTyped
<1>11. FilesTyped'
  BY <1>1, <1>4, <1>6, <1>7, <1>8 DEF FilesTyped
<1>12. LinesOK'
  <2>1. ASSUME NEW g \in 1..MaxFiles
        PROVE  Rising(file'[g]) /\ ToSet(file'[g]) \subseteq 1..newest
    BY <1>1, <1>4, <1>10 DEF LinesOK
  <2>2. ASSUME NEW k \in Loggers
        PROVE  Rising(logger'[k].kept) /\ ToSet(logger'[k].kept) \subseteq 1..newest
    <3>1. CASE k = l
      BY <1>6, <1>9, <3>1, Empty
    <3>2. CASE k # l
      BY <1>1, <1>9, <3>2 DEF LinesOK
    <3>3. QED
      BY <3>1, <3>2
  <2>3. QED
    BY <1>7, <2>1, <2>2 DEF LinesOK, Rising
<1>13. SurvivalOK'
  <2>1. SUFFICES ASSUME Alone'
                 PROVE  /\ written \ (1..cutoff) \subseteq ToSet(file'[f])
                        /\ logger'[First].file = f /\ logger'[First].pc = "open"
    BY <1>7 DEF SurvivalOK
  <2>2. l = First
    BY <1>6, <1>9, <2>1 DEF Alone
  <2>3. Alone
    BY <1>9, <2>1, <2>2 DEF Alone
  <2>4. written \ (1..cutoff) \subseteq ToSet(s)
    BY <1>1, <1>2, <1>4, <2>2, <2>3 DEF SurvivalOK
  <2>5. QED
    BY <1>6, <1>9, <1>10, <2>2, <2>4
<1>14. QED
  BY <1>11, <1>12, <1>13 DEF JsonlInv

\* Time passes, and less is within the retention.
LEMMA ExpireKeeps == ASSUME JsonlInv, Expire PROVE JsonlInv'
<1>1. FilesTyped /\ LinesOK /\ SurvivalOK
  BY DEF JsonlInv
<1>2. cutoff' = cutoff + 1 /\ UNCHANGED <<newest, file, path, files, logger, written>>
  BY DEF Expire
<1>3. cutoff \in Nat /\ 1..cutoff \subseteq 1..(cutoff + 1)
  BY <1>1 DEF FilesTyped
<1>4. FilesTyped' /\ LinesOK'
  BY <1>1, <1>2, <1>3 DEF FilesTyped, LinesOK, Rising
<1>5. SurvivalOK'
  BY <1>1, <1>2, <1>3 DEF SurvivalOK, Alone
<1>6. QED
  BY <1>4, <1>5 DEF JsonlInv

\* The invariant is kept by every step of JSONL mode.
LEMMA JsonlKeeps == JsonlInv /\ [JsonlNext]_jsonlVars => JsonlInv'
<1> SUFFICES ASSUME JsonlInv, [JsonlNext]_jsonlVars PROVE JsonlInv'
  OBVIOUS
<1>1. ASSUME NEW l \in Loggers,
             \/ Open(l) \/ LogToFile(l) \/ ReadAll(l) \/ Rewrite(l)
             \/ RewriteFails(l) \/ StopCleanup(l) \/ CloseFile(l)
      PROVE  JsonlInv'
  BY <1>1, OpenKeeps, LogToFileKeeps, ReadAllKeeps, RewriteKeeps, RewriteFailsKeeps,
     StopCleanupKeeps, CloseFileKeeps
<1>2. CASE Expire
  BY <1>2, ExpireKeeps
<1>3. CASE UNCHANGED jsonlVars
  BY <1>3 DEF JsonlInv, FilesTyped, LinesOK, SurvivalOK, Alone, Rising, jsonlVars
<1>4. QED
  BY <1>1, <1>2, <1>3 DEF JsonlNext

-----------------------------------------------------------------------------
(* The logger, in the mode that it was made in.                            *)

\* Both invariants hold of a TokenLogger in either mode, whatever it does.
THEOREM Invariance == Spec => []IInv
<1>1. Init => IInv
  BY SqliteStarts, JsonlStarts DEF Init, IInv
<1>2. IInv /\ [Next]_vars => IInv'
  <2> SUFFICES ASSUME IInv, [Next]_vars PROVE IInv'
    OBVIOUS
  <2>1. [SqliteNext]_sqliteVars /\ [JsonlNext]_jsonlVars
    BY DEF Next, vars
  <2>2. QED
    BY <2>1, SqliteKeeps, JsonlKeeps DEF IInv
<1>3. QED
  BY <1>1, <1>2, PTL DEF Spec

\* DropsAreCounted, in SQLite mode: whatever writes fail, and also when Close
\* shuts the database under the writer, DroppedEntries counts each entry that is
\* lost, and no other.
THEOREM LossIsCounted == Spec => []DropsAreCounted
<1>1. IInv => DropsAreCounted
  BY DEF IInv, SqliteInv
<1>2. QED
  BY <1>1, Invariance, PTL

\* CloseDrains: a Close that did not run into its time limit leaves no entry in the
\* channel or in the batch.
THEOREM CloseLeavesNothing == Spec => []CloseDrains
<1>1. IInv => CloseDrains
  BY Empty DEF IInv, SqliteInv, Draining, CloseDrains, Pending
<1>2. QED
  BY <1>1, Invariance, PTL

\* EntriesInOrder: in either mode entries are stored in the order of the calls of
\* Log and none is there twice, through retries, cleanups and two loggers on a file.
THEOREM OrderIsKept == Spec => []EntriesInOrder
<1>1. IInv => LinesInOrder
  BY DEF IInv, JsonlInv, FilesTyped, LinesOK, LinesInOrder, Rising
<1>2. IInv => OrderKept
  <2> SUFFICES ASSUME IInv PROVE OrderKept
    OBVIOUS
  <2>1. PICK s \in Seq(Nat), t \in Seq(Nat), u \in Seq(Nat) : s = db /\ t = batch /\ u = logCh
    BY DEF IInv, SqliteInv, Typed
  <2>2. /\ Rising(s) /\ Rising(t) /\ Rising(u)
        /\ Before(s, t) /\ Before(s, u) /\ Before(t, u)
    BY <2>1 DEF IInv, SqliteInv, InOrder
  <2>3. PICK st : st = s \o t
    OBVIOUS
  <2>4. st \in Seq(Nat) /\ ToSet(st) = ToSet(s) \cup ToSet(t) /\ Rising(st)
    BY <2>2, <2>3, Joined
  <2>5. Before(st, u)
    BY <2>2, <2>4 DEF Before
  <2>6. Rising(st \o u)
    BY <2>2, <2>4, <2>5, Joined
  <2>7. st \o u = db \o batch \o logCh
    BY <2>1, <2>3
  <2>8. QED
    BY <2>6, <2>7 DEF OrderKept, Rising
<1>3. QED
  BY <1>1, <1>2, Invariance, PTL DEF EntriesInOrder

\* EntriesSurviveCleanup: while one logger has the file, what was written and is
\* within the retention is in it, whatever its cleanups do and wherever they fail.
THEOREM CleanupLosesNothing == Spec => []EntriesSurviveCleanup
<1>1. IInv => EntriesSurviveCleanup
  BY DEF IInv, JsonlInv, SurvivalOK, Alone, EntriesSurviveCleanup
<1>2. QED
  BY <1>1, Invariance, PTL
=============================================================================
