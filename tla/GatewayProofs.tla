---------------------------- MODULE GatewayProofs ----------------------------
(* Admission for any requests, limits and number of reloads: the limit in     *)
(* force is the configured one, if one caller of Gateway.Reload comes after   *)
(* another, and slots are counted exactly and granted in order of arrival.    *)
EXTENDS Gateway, SequenceTheorems, FiniteSetTheorems, TLAPS

-----------------------------------------------------------------------------
(* The limit in force.                                                       *)

SemFields == {"cap", "held", "waiting"}
IsSem(s) == s = [field \in SemFields |-> s[field]]

\* The semaphores made so far are a sequence of semaphores.
SemsOK == /\ sems \in Seq({sems[i] : i \in DOMAIN sems})
          /\ \A i \in DOMAIN sems : IsSem(sems[i])

ReloadOK == /\ reload \in [Embedders -> {None} \cup {<<l>> : l \in Limits}]
            /\ limit \in Limits

\* A reload that is under way brings the limit that was configured last.
BringsLimit == \A p \in Embedders : reload[p] # None /\ ~saved => reload[p][1] = limit

\* The limit l is enforced by the semaphore made[c].
Enforced(made, c, l) == IF l <= 0 THEN c = 0 ELSE c \in DOMAIN made /\ made[c].cap = l
CurrentOK == (~saved /\ \A p \in Embedders : reload[p] = None) => Enforced(sems, current, limit)

LimitInv == SemsOK /\ ReloadOK /\ BringsLimit /\ CurrentOK

\* A semaphore keeps its capacity, however it is used.
CapsKept == /\ DOMAIN sems' = DOMAIN sems
            /\ \A i \in DOMAIN sems : sems'[i].cap = sems[i].cap

LEMMA Replaced ==
    ASSUME SemsOK, NEW i, NEW s, IsSem(s), i \in DOMAIN sems => s.cap = sems[i].cap,
           sems' = [sems EXCEPT ![i] = s]
    PROVE  SemsOK' /\ CapsKept
<1> DEFINE S == {sems[j] : j \in DOMAIN sems}
<1>1. sems \in [1..Len(sems) -> S] /\ Len(sems) \in Nat /\ DOMAIN sems = 1..Len(sems)
  BY SMT DEF SemsOK
<1>2. DOMAIN sems' = DOMAIN sems /\ \A j \in DOMAIN sems : sems'[j] = IF j = i THEN s ELSE sems[j]
  BY <1>1
<1>3. sems' \in [1..Len(sems) -> {sems'[j] : j \in DOMAIN sems'}]
  BY <1>1, <1>2
<1>4. sems' \in Seq({sems'[j] : j \in DOMAIN sems'})
  <2> DEFINE T == {sems'[j] : j \in DOMAIN sems'}
             n == Len(sems)
  <2>1. sems' \in [1..n -> T] /\ n \in Nat
    BY <1>1, <1>3
  <2> HIDE DEF T, n
  <2>2. sems' \in Seq(T)
    BY <2>1, SeqDef
  <2>3. QED
    BY <2>2 DEF T
<1>5. QED
  BY <1>2, <1>4 DEF SemsOK, CapsKept

LEMMA Untouched ==
    ASSUME SemsOK, NEW i, i \notin DOMAIN sems,
           \/ \E h : sems' = [sems EXCEPT ![i].held = h]
           \/ \E q : sems' = [sems EXCEPT ![i].waiting = q]
    PROVE  SemsOK' /\ CapsKept
<1>1. sems = [j \in 1..Len(sems) |-> sems[j]] /\ DOMAIN sems = 1..Len(sems)
  BY SMT DEF SemsOK
<1>2. sems' = sems
  <2>1. ASSUME NEW h, sems' = [sems EXCEPT ![i].held = h] PROVE sems' = sems
    BY <1>1, <2>1
  <2>2. ASSUME NEW q, sems' = [sems EXCEPT ![i].waiting = q] PROVE sems' = sems
    BY <1>1, <2>2
  <2>3. QED
    BY <2>1, <2>2
<1>3. QED
  BY <1>2 DEF SemsOK, CapsKept

LEMMA Used ==
    ASSUME LimitInv, SemsOK', CapsKept, UNCHANGED <<current, setting, reload>>
    PROVE  LimitInv'
<1>1. UNCHANGED <<current, limit, saved, reload>>
  BY DEF setting
<1>2. ReloadOK' /\ BringsLimit'
  BY <1>1 DEF LimitInv, ReloadOK, BringsLimit
<1>3. Enforced(sems, current, limit) => Enforced(sems', current, limit)
  BY DEF Enforced, CapsKept
<1>4. CurrentOK'
  BY <1>1, <1>3 DEF LimitInv, CurrentOK
<1>5. QED
  BY <1>2, <1>4 DEF LimitInv

LEMMA InitOK == Init => LimitInv
<1> SUFFICES ASSUME Init PROVE LimitInv
  OBVIOUS
<1>1. StartLimit \in Limits /\ StartLimit \in Int
  BY GatewayAssumption
<1>2. CASE StartLimit <= 0
  BY <1>1, <1>2 DEF Init, Sems, Current, LimitInv, SemsOK, ReloadOK, BringsLimit, CurrentOK, Enforced
<1>3. CASE ~(StartLimit <= 0)
  <2>1. sems = <<NewSem(StartLimit)>> /\ current = 1
    BY <1>3 DEF Init, Sems, Current
  <2>2. IsSem(NewSem(StartLimit)) /\ NewSem(StartLimit).cap = StartLimit
    BY DEF IsSem, SemFields, NewSem
  <2>3. SemsOK
    BY <2>1, <2>2 DEF SemsOK
  <2>4. QED
    BY <1>1, <1>3, <2>1, <2>2, <2>3 DEF Init, LimitInv, ReloadOK, BringsLimit, CurrentOK, Enforced
<1>4. QED
  BY <1>2, <1>3

\* A request takes, awaits or frees a slot of one semaphore, if any.
LEMMA RequestOK ==
    ASSUME LimitInv, NEW r \in Requests, Arrive(r) \/ Serve(r)
    PROVE  LimitInv'
<1>1. UNCHANGED <<current, setting, reload>>
  BY DEF Arrive, Serve, Enter, Wait, GiveUp, Leave
<1> DEFINE i == req[r].sem
<1>2. sems' = sems \/ \E h : sems' = [sems EXCEPT ![i].held = h]
                   \/ \E q : sems' = [sems EXCEPT ![i].waiting = q]
  <2>1. CASE Arrive(r)
    BY <2>1 DEF Arrive
  <2>2. CASE Enter(r)
    BY <2>2 DEF Enter
  <2>3. CASE Wait(r)
    BY <2>3 DEF Wait
  <2>4. CASE GiveUp(r)
    BY <2>4 DEF GiveUp
  <2>5. CASE Leave(r)
    BY <2>5 DEF Leave
  <2>6. QED
    BY <2>1, <2>2, <2>3, <2>4, <2>5 DEF Serve
<1>3. SemsOK' /\ CapsKept
  <2>1. CASE sems' = sems
    BY <2>1 DEF LimitInv, SemsOK, CapsKept
  <2>2. ASSUME NEW h, sems' = [sems EXCEPT ![i].held = h]
        PROVE  SemsOK' /\ CapsKept
    <3> DEFINE s == [sems[i] EXCEPT !.held = h]
    <3>1. CASE i \in DOMAIN sems
      <4>1. IsSem(sems[i])
        BY <3>1 DEF LimitInv, SemsOK
      <4>2. IsSem(s) /\ s.cap = sems[i].cap
        BY <4>1 DEF IsSem, SemFields
      <4>3. sems' = [sems EXCEPT ![i] = s]
        BY <2>2
      <4>4. QED
        BY <4>2, <4>3, Replaced DEF LimitInv
    <3>2. CASE i \notin DOMAIN sems
      BY <2>2, <3>2, Untouched DEF LimitInv
    <3>3. QED
      BY <3>1, <3>2
  <2>3. ASSUME NEW q, sems' = [sems EXCEPT ![i].waiting = q]
        PROVE  SemsOK' /\ CapsKept
    <3> DEFINE s == [sems[i] EXCEPT !.waiting = q]
    <3>1. CASE i \in DOMAIN sems
      <4>1. IsSem(sems[i])
        BY <3>1 DEF LimitInv, SemsOK
      <4>2. IsSem(s) /\ s.cap = sems[i].cap
        BY <4>1 DEF IsSem, SemFields
      <4>3. sems' = [sems EXCEPT ![i] = s]
        BY <2>3
      <4>4. QED
        BY <4>2, <4>3, Replaced DEF LimitInv
    <3>2. CASE i \notin DOMAIN sems
      BY <2>3, <3>2, Untouched DEF LimitInv
    <3>3. QED
      BY <3>1, <3>2
  <2>4. QED
    BY <1>2, <2>1, <2>2, <2>3
<1>4. QED
  BY <1>1, <1>3, Used

\* A new semaphore comes last and leaves the others as they are.
LEMMA MadeOK ==
    ASSUME SemsOK, NEW l \in Limits, sems' = Sems(sems, l), current' = Current(sems, l)
    PROVE  SemsOK' /\ Enforced(sems', current', l)
<1>1. l \in Int
  BY GatewayAssumption
<1>2. CASE l <= 0
  BY <1>2 DEF SemsOK, Sems, Current, Enforced
<1>3. CASE ~(l <= 0)
  <2> DEFINE S == {sems[j] : j \in DOMAIN sems} \cup {NewSem(l)}
             n == Len(sems) + 1
  <2>1. sems' = Append(sems, NewSem(l)) /\ current' = Len(sems')
    BY <1>3 DEF Sems, Current
  <2>2. sems \in Seq(S) /\ NewSem(l) \in S
    <3>1. {sems[j] : j \in DOMAIN sems} \subseteq S
      OBVIOUS
    <3>2. QED
      BY <3>1, SeqMonotonic DEF SemsOK
  <2>3. /\ sems' \in Seq(S) /\ Len(sems') = n /\ sems'[n] = NewSem(l)
        /\ \A j \in 1..Len(sems) : sems'[j] = sems[j]
        /\ Len(sems) \in Nat /\ DOMAIN sems = 1..Len(sems) /\ DOMAIN sems' = 1..n
    <3> HIDE DEF S
    <3>1. QED
      BY <2>1, <2>2, AppendProperties, LenProperties
  <2>4. \A j \in DOMAIN sems' : IsSem(sems'[j])
    BY <2>3 DEF SemsOK, IsSem, SemFields, NewSem
  <2>5. sems' \in Seq({sems'[j] : j \in DOMAIN sems'})
    <3> DEFINE T == {sems'[j] : j \in DOMAIN sems'}
    <3>1. sems' \in [1..n -> T] /\ n \in Nat
      BY <2>3
    <3> HIDE DEF T, n
    <3>2. sems' \in Seq(T)
      BY <3>1, SeqDef
    <3>3. QED
      BY <3>2 DEF T
  <2>6. QED
    BY <1>3, <2>1, <2>3, <2>4, <2>5 DEF SemsOK, Enforced, NewSem
<1>4. QED
  BY <1>2, <1>3

\* The caller p of Gateway.Reload is the only one.
LEMMA ReloadServerOK ==
    ASSUME LimitInv, NEW p \in Embedders, \A q \in Embedders : q = p, ReloadServer(p)
    PROVE  LimitInv'
<1>1. PICK l \in Limits : limit' = l /\ reload' = [reload EXCEPT ![p] = <<l>>]
  BY DEF ReloadServer
<1>2. reload'[p] = <<l>> /\ reload'[p] # None
  BY <1>1 DEF LimitInv, ReloadOK, None
<1>3. SemsOK' /\ ReloadOK'
  BY <1>1 DEF LimitInv, ReloadServer, SemsOK, ReloadOK
<1>4. BringsLimit' /\ CurrentOK'
  BY <1>1, <1>2 DEF BringsLimit, CurrentOK
<1>5. QED
  BY <1>3, <1>4 DEF LimitInv

LEMMA SwapSemOK ==
    ASSUME LimitInv, NEW p \in Embedders, \A q \in Embedders : q = p, SwapSem(p)
    PROVE  LimitInv'
<1>1. PICK l \in Limits : reload[p] = <<l>>
  BY DEF LimitInv, ReloadOK, SwapSem
<1>2. SemsOK' /\ Enforced(sems', current', l)
  BY <1>1, MadeOK DEF LimitInv, SwapSem
<1>3. reload'[p] = None /\ UNCHANGED <<limit, saved>>
  BY DEF LimitInv, ReloadOK, SwapSem, setting
<1>4. ~saved => limit = l
  BY <1>1 DEF LimitInv, BringsLimit, SwapSem
<1>5. ReloadOK' /\ BringsLimit'
  BY <1>3 DEF LimitInv, ReloadOK, BringsLimit, SwapSem
<1>6. CurrentOK'
  BY <1>2, <1>3, <1>4 DEF CurrentOK
<1>7. QED
  BY <1>2, <1>5, <1>6 DEF LimitInv

LEMMA OthersOK ==
    ASSUME LimitInv, ConsoleSave \/ Signal \/ CloseGateway \/ Exit \/ Overdue \/ UNCHANGED vars
    PROVE  LimitInv'
<1>1. CASE ConsoleSave
  BY <1>1 DEF ConsoleSave, LimitInv, SemsOK, ReloadOK, BringsLimit, CurrentOK
<1>2. CASE UNCHANGED <<sems, current, setting, reload>>
  BY <1>2 DEF LimitInv, SemsOK, ReloadOK, BringsLimit, CurrentOK, Enforced, setting
<1>3. QED
  BY <1>1, <1>2 DEF Signal, CloseGateway, Exit, Overdue, vars, setting

\* With one caller of Gateway.Reload, whatever it is given and whenever it
\* comes: the capacity that requests meet is the limit configured last, unless
\* the console configured it.
THEOREM LimitHolds ==
    ASSUME \A p, q \in Embedders : p = q
    PROVE  Spec => []LimitIsEnforced
<1>1. LimitInv /\ [Next]_vars => LimitInv'
  BY RequestOK, ReloadServerOK, SwapSemOK, OthersOK DEF Next
<1>2. LimitInv => LimitIsEnforced
  <2>1. ASSUME SemsOK, CurrentOK PROVE LimitIsEnforced
    <3>1. 0 \notin DOMAIN sems
      BY <2>1, LenProperties DEF SemsOK
    <3>2. QED
      BY <2>1, <3>1 DEF CurrentOK, Enforced, LimitIsEnforced
  <2>2. QED
    BY <2>1 DEF LimitInv
<1>3. QED
  BY <1>1, <1>2, InitOK, PTL DEF Spec

-----------------------------------------------------------------------------
(* One semaphore: s, whose slots are held by H and awaited by Q.             *)

SemType == [cap : Nat, held : Nat, waiting : Seq(Requests)]
Fits(s, H, Q) == /\ s.held = Cardinality(H) /\ s.held <= s.cap
                 /\ ToSet(s.waiting) = Q /\ IsInjective(s.waiting)
                 /\ s.waiting # <<>> => s.held = s.cap

\* makeConcurrencySem's new channel: nobody holds or awaits a slot.
LEMMA NewSemFits ==
    ASSUME NEW l \in Int, ~(l <= 0)
    PROVE  NewSem(l) \in SemType /\ Fits(NewSem(l), {}, {})
<1>1. l \in Nat /\ <<>> \in Seq(Requests) /\ Cardinality({}) = 0
  BY EmptySeq, FS_EmptySet
<1>2. NewSem(l) \in SemType
  BY <1>1 DEF NewSem, SemType
<1>3. ToSet(<<>>) = {} /\ IsInjective(<<>>)
  BY DEF ToSet, IsInjective
<1>4. QED
  BY <1>1, <1>2, <1>3 DEF NewSem, Fits

\* A slot is free, and taken at once.
LEMMA SlotTaken ==
    ASSUME NEW s \in SemType, NEW H, NEW Q, IsFiniteSet(H), Fits(s, H, Q),
           NEW r, r \notin H, s.held < s.cap
    PROVE  /\ [s EXCEPT !.held = @ + 1] \in SemType
           /\ Fits([s EXCEPT !.held = @ + 1], H \cup {r}, Q)
<1> DEFINE t == [s EXCEPT !.held = @ + 1]
<1>1. t \in SemType /\ t.held = s.held + 1 /\ t.cap = s.cap /\ t.waiting = s.waiting
  BY DEF SemType
<1>2. Cardinality(H \cup {r}) = Cardinality(H) + 1
  BY FS_AddElement
<1>3. t.waiting = <<>> /\ t.held <= t.cap
  BY <1>1 DEF Fits, SemType
<1> HIDE DEF t
<1>4. QED
  BY <1>1, <1>2, <1>3 DEF Fits, t

\* No slot is free: r joins the queue.
LEMMA SlotAwaited ==
    ASSUME NEW s \in SemType, NEW H, NEW Q, Fits(s, H, Q),
           NEW r \in Requests, r \notin Q, s.held = s.cap
    PROVE  /\ [s EXCEPT !.waiting = Append(@, r)] \in SemType
           /\ Fits([s EXCEPT !.waiting = Append(@, r)], H, Q \cup {r})
<1> DEFINE t == [s EXCEPT !.waiting = Append(@, r)]
           w == s.waiting
<1>1. w \in Seq(Requests)
  BY DEF SemType
<1>2. PICK v \in Seq(Requests) : v = Append(w, r)
  BY <1>1, AppendProperties
<1>3. t \in SemType /\ t.held = s.held /\ t.cap = s.cap /\ t.waiting = v
  BY <1>2 DEF SemType
<1>4. /\ Len(w) \in Nat /\ DOMAIN w = 1..Len(w) /\ DOMAIN v = 1..(Len(w) + 1)
      /\ v[Len(w) + 1] = r /\ \A k \in 1..Len(w) : v[k] = w[k]
  BY <1>1, <1>2, AppendProperties, LenProperties
<1>5. ToSet(v) = Q \cup {r}
  BY <1>4 DEF Fits, ToSet
<1>6. IsInjective(v)
  <2>1. \A k \in DOMAIN w : w[k] # r
    BY DEF Fits, ToSet
  <2>2. QED
    BY <1>4, <2>1 DEF Fits, IsInjective
<1> HIDE DEF t
<1>7. QED
  BY <1>3, <1>5, <1>6 DEF Fits, t

\* v is the queue w without its k-th request.
Without(v, w, k) == /\ v \in Seq(Requests) /\ Len(v) = Len(w) - 1
                    /\ \A j \in 1..(Len(w) - 1) : v[j] = IF j < k THEN w[j] ELSE w[j + 1]

LEMMA RemoveAtProperties ==
    ASSUME NEW w \in Seq(Requests), NEW k \in 1..Len(w)
    PROVE  Without(RemoveAt(w, k), w, k)
<1>1. Len(w) \in Nat /\ k \in Nat /\ k - 1 \in Int /\ k + 1 \in Int
  BY LenProperties
<1>2. PICK u : u = SubSeq(w, 1, k - 1)
  OBVIOUS
<1>3. PICK v : v = SubSeq(w, k + 1, Len(w))
  OBVIOUS
<1>4. u \in Seq(Requests) /\ Len(u) = k - 1 /\ \A j \in 1..(k - 1) : u[j] = w[j]
  <2>1. \A j \in 1..(k - 1) : w[j] \in Requests
    BY <1>1, ElementOfSeq
  <2>2. QED
    BY <1>1, <1>2, <2>1, SubSeqProperties
<1>5. v \in Seq(Requests) /\ Len(v) = Len(w) - k /\ \A j \in 1..(Len(w) - k) : v[j] = w[k + j]
  <2>1. \A j \in (k + 1)..Len(w) : w[j] \in Requests
    BY <1>1, ElementOfSeq
  <2>2. QED
    BY <1>1, <1>3, <2>1, SubSeqProperties
<1>6. /\ u \o v \in Seq(Requests) /\ Len(u \o v) = Len(u) + Len(v)
      /\ \A j \in 1..(Len(u) + Len(v)) : (u \o v)[j] = IF j <= Len(u) THEN u[j] ELSE v[j - Len(u)]
  BY <1>4, <1>5, ConcatProperties
<1>7. ASSUME NEW j \in 1..(Len(w) - 1)
      PROVE  (u \o v)[j] = IF j < k THEN w[j] ELSE w[j + 1]
  <2>1. (u \o v)[j] = IF j <= k - 1 THEN u[j] ELSE v[j - (k - 1)]
    BY <1>1, <1>4, <1>5, <1>6
  <2>2. CASE j < k
    BY <1>1, <1>4, <2>1, <2>2
  <2>3. CASE ~(j < k)
    <3>1. PICK i \in 1..(Len(w) - k) : i = j - (k - 1) /\ k + i = j + 1
      BY <1>1, <2>3
    <3>2. v[i] = w[j + 1]
      BY <1>5, <3>1
    <3>3. (u \o v)[j] = v[i]
      BY <1>1, <2>1, <2>3, <3>1
    <3>4. QED
      BY <2>3, <3>2, <3>3
  <2>4. QED
    BY <2>2, <2>3
<1>8. RemoveAt(w, k) = u \o v
  BY <1>2, <1>3 DEF RemoveAt
<1>9. Len(u \o v) = Len(w) - 1
  BY <1>1, <1>4, <1>5, <1>6
<1>10. QED
  BY <1>6, <1>7, <1>8, <1>9 DEF Without

\* The k-th in the queue leaves it: it gave up, or, if it was the first, was
\* handed a slot.
LEMMA QueueLeft ==
    ASSUME NEW w \in Seq(Requests), IsInjective(w), NEW k \in 1..Len(w),
           NEW v, Without(v, w, k)
    PROVE  ToSet(v) = ToSet(w) \ {w[k]} /\ IsInjective(v)
<1>1. /\ Len(w) \in Nat /\ DOMAIN w = 1..Len(w) /\ DOMAIN v = 1..(Len(w) - 1)
      /\ \A j \in 1..(Len(w) - 1) : v[j] = IF j < k THEN w[j] ELSE w[j + 1]
  BY LenProperties DEF Without
<1>2. \A j \in DOMAIN v : v[j] \in ToSet(w) /\ v[j] # w[k]
  BY <1>1 DEF ToSet, IsInjective
<1>3. ASSUME NEW j \in DOMAIN w, w[j] # w[k]
      PROVE  w[j] \in ToSet(v)
  <2>1. CASE j < k
    BY <1>1, <2>1 DEF ToSet
  <2>2. CASE j > k
    <3>1. j - 1 \in DOMAIN v /\ v[j - 1] = w[j]
      BY <1>1, <2>2
    <3>2. QED
      BY <3>1 DEF ToSet
  <2>3. QED
    BY <1>1, <1>3, <2>1, <2>2
<1>4. IsInjective(v)
  <2> SUFFICES ASSUME NEW a \in DOMAIN v, NEW b \in DOMAIN v, v[a] = v[b]
               PROVE  a = b
    BY DEF IsInjective
  <2>1. PICK c \in DOMAIN w : v[a] = w[c] /\ c = IF a < k THEN a ELSE a + 1
    BY <1>1
  <2>2. PICK d \in DOMAIN w : v[b] = w[d] /\ d = IF b < k THEN b ELSE b + 1
    BY <1>1
  <2>3. c = d
    BY <2>1, <2>2 DEF IsInjective
  <2>4. QED
    BY <1>1, <2>1, <2>2, <2>3
<1>5. QED
  BY <1>2, <1>3, <1>4 DEF ToSet

LEMMA GivenUp ==
    ASSUME NEW s \in SemType, NEW H, NEW Q, Fits(s, H, Q), NEW k \in DOMAIN s.waiting
    PROVE  /\ [s EXCEPT !.waiting = RemoveAt(@, k)] \in SemType
           /\ Fits([s EXCEPT !.waiting = RemoveAt(@, k)], H, Q \ {s.waiting[k]})
<1> DEFINE t == [s EXCEPT !.waiting = RemoveAt(@, k)]
<1>1. PICK w \in Seq(Requests) : w = s.waiting
  BY DEF SemType
<1>2. k \in 1..Len(w)
  BY <1>1, LenProperties
<1>3. PICK v \in Seq(Requests) : v = RemoveAt(w, k) /\ Without(v, w, k)
  BY <1>2, RemoveAtProperties DEF Without
<1>4. ToSet(v) = ToSet(w) \ {w[k]} /\ IsInjective(v)
  <2>1. IsInjective(w)
    BY <1>1 DEF Fits
  <2>2. QED
    BY <1>2, <1>3, <2>1, QueueLeft
<1>5. t \in SemType /\ t.held = s.held /\ t.cap = s.cap /\ t.waiting = v
  BY <1>1, <1>3 DEF SemType
<1>6. w # <<>>
  BY <1>2, EmptySeq
<1> HIDE DEF t
<1>7. QED
  BY <1>1, <1>4, <1>5, <1>6 DEF Fits, t

\* A slot is freed that nobody waits for ...
LEMMA SlotFreed ==
    ASSUME NEW s \in SemType, NEW H, NEW Q, IsFiniteSet(H), Fits(s, H, Q),
           NEW r \in H, s.waiting = <<>>
    PROVE  /\ [s EXCEPT !.held = @ - 1] \in SemType
           /\ Fits([s EXCEPT !.held = @ - 1], H \ {r}, Q)
<1> DEFINE t == [s EXCEPT !.held = @ - 1]
<1>1. Cardinality(H \ {r}) = Cardinality(H) - 1 /\ Cardinality(H \ {r}) \in Nat
  BY FS_RemoveElement, FS_CardinalityType
<1>2. s.held - 1 \in Nat /\ s.held - 1 <= s.cap
  BY <1>1 DEF Fits, SemType
<1>3. t \in SemType /\ t.held = s.held - 1 /\ t.cap = s.cap /\ t.waiting = s.waiting
  BY <1>2 DEF SemType
<1> HIDE DEF t
<1>4. QED
  BY <1>1, <1>2, <1>3 DEF Fits, t

\* ... or handed to the first in the queue.
LEMMA SlotHandedOn ==
    ASSUME NEW s \in SemType, NEW H, NEW Q, IsFiniteSet(H), Fits(s, H, Q), H \cap Q = {},
           NEW r \in H, s.waiting # <<>>
    PROVE  /\ [s EXCEPT !.waiting = Tail(@)] \in SemType /\ Head(s.waiting) \in Q
           /\ Fits([s EXCEPT !.waiting = Tail(@)],
                   (H \ {r}) \cup {Head(s.waiting)}, Q \ {Head(s.waiting)})
<1> DEFINE t == [s EXCEPT !.waiting = Tail(@)]
<1>1. PICK w \in Seq(Requests) : w = s.waiting /\ w # <<>>
  BY DEF SemType
<1>2. Len(w) \in Nat /\ 1 \in 1..Len(w) /\ DOMAIN w = 1..Len(w) /\ Head(w) = w[1]
  BY <1>1, EmptySeq, LenProperties
<1>3. PICK v \in Seq(Requests) : v = Tail(w) /\ Without(v, w, 1)
  <2>1. PICK v : v = Tail(w)
    OBVIOUS
  <2>2. /\ v \in Seq(Requests) /\ Len(v) = Len(w) - 1
        /\ \A j \in 1..(Len(w) - 1) : v[j] = w[j + 1]
    BY <1>1, <1>2, <2>1, HeadTailProperties
  <2>3. \A j \in 1..(Len(w) - 1) : ~(j < 1)
    BY <1>2
  <2>4. Without(v, w, 1)
    BY <2>2, <2>3 DEF Without
  <2>5. QED
    BY <2>1, <2>2, <2>4
<1>4. ToSet(v) = ToSet(w) \ {w[1]} /\ IsInjective(v)
  <2>1. IsInjective(w)
    BY <1>1 DEF Fits
  <2>2. QED
    BY <1>2, <1>3, <2>1, QueueLeft
<1>5. t \in SemType /\ t.held = s.held /\ t.cap = s.cap /\ t.waiting = v
  BY <1>1, <1>3 DEF SemType
<1>6. w[1] \in Q
  BY <1>1, <1>2 DEF Fits, ToSet
<1>7. Cardinality((H \ {r}) \cup {w[1]}) = Cardinality(H)
  <2>1. IsFiniteSet(H \ {r}) /\ Cardinality(H \ {r}) = Cardinality(H) - 1 /\ Cardinality(H) \in Nat
    BY FS_RemoveElement, FS_CardinalityType
  <2>2. Cardinality((H \ {r}) \cup {w[1]}) = Cardinality(H \ {r}) + 1
    BY <1>6, <2>1, FS_AddElement
  <2>3. QED
    BY <2>1, <2>2
<1> HIDE DEF t
<1>8. QED
  BY <1>1, <1>2, <1>4, <1>5, <1>6, <1>7 DEF Fits, t

-----------------------------------------------------------------------------
(* All semaphores.                                                           *)

ReqType == [pc : {"idle", "arrived", "waiting", "handled"}, sem : Nat]
ReqsOK == /\ req \in [Requests -> ReqType]
          /\ \A r \in Requests : req[r].sem \in 0..Len(sems)
          /\ \A r \in Requests : req[r].pc = "waiting" => req[r].sem # 0

\* Each semaphore counts its holders, and its queue is those who wait for it.
SlotInv == /\ sems \in Seq(SemType) /\ current \in 0..Len(sems)
           /\ ReloadOK /\ ReqsOK
           /\ \A i \in 1..Len(sems) : Fits(sems[i], Holding(i), Queued(i))

LEMMA SemOf ==
    ASSUME SlotInv, NEW r \in Requests, req[r].sem # 0
    PROVE  \E i \in 1..Len(sems) : i = req[r].sem /\ sems[i] \in SemType
<1>1. Len(sems) \in Nat
  BY LenProperties DEF SlotInv
<1>2. req[r].sem \in 1..Len(sems)
  BY <1>1 DEF SlotInv, ReqsOK
<1>3. QED
  BY <1>2, ElementOfSeq DEF SlotInv

LEMMA HoldersFinite ==
    \A i : IsFiniteSet(Holding(i)) /\ Holding(i) \cap Queued(i) = {}
BY GatewayAssumption, FS_Subset DEF Holding, Queued

\* Requests change that use semaphore i, and go on with it or have done.
Concerns(i) == /\ req' \in [Requests -> ReqType]
               /\ \A r \in Requests : req'[r] # req[r] =>
                     req[r].sem = i /\ (req'[r] = Idle \/ req'[r].sem = i)

\* Such a step, by which semaphore i becomes s.
LEMMA OneSem ==
    ASSUME SlotInv, NEW i \in 1..Len(sems), NEW s \in SemType, sems' = [sems EXCEPT ![i] = s],
           UNCHANGED <<current, setting, reload>>, Concerns(i),
           Fits(s, Holding(i)', Queued(i)')
    PROVE  SlotInv'
<1>1. /\ sems' \in Seq(SemType) /\ Len(sems') = Len(sems) /\ Len(sems) \in Nat
      /\ \A j \in 1..Len(sems) : sems'[j] = IF j = i THEN s ELSE sems[j]
  <2>1. sems \in Seq(SemType)
    BY DEF SlotInv
  <2>2. QED
    BY <2>1, ExceptSeq, LenProperties
<1>2. ReloadOK' /\ current' \in 0..Len(sems')
  BY <1>1 DEF SlotInv, ReloadOK, setting
<1>3. ReqsOK'
  <2>1. i # 0 /\ i \in 0..Len(sems) /\ 0 \in 0..Len(sems)
    BY <1>1
  <2>2. ASSUME NEW r \in Requests
        PROVE  req'[r].sem \in 0..Len(sems) /\ (req'[r].pc = "waiting" => req'[r].sem # 0)
    BY <2>1 DEF SlotInv, ReqsOK, Concerns, Idle
  <2>3. QED
    BY <1>1, <2>2 DEF ReqsOK, Concerns
<1>4. ASSUME NEW j \in 1..Len(sems), j # i
      PROVE  Holding(j)' = Holding(j) /\ Queued(j)' = Queued(j)
  <2>1. \A r \in Requests : req'[r] = req[r] \/ (req[r].sem = i /\ req'[r].sem \in {0, i})
    BY DEF Concerns, Idle
  <2>2. j # 0
    BY <1>1
  <2>3. QED
    BY <1>4, <2>1, <2>2 DEF Holding, Queued
<1>5. \A j \in 1..Len(sems') : Fits(sems'[j], Holding(j)', Queued(j)')
  BY <1>1, <1>4 DEF SlotInv
<1>6. QED
  BY <1>1, <1>2, <1>3, <1>5 DEF SlotInv

\* A step that leaves the semaphores, and who holds and awaits them, alone.
LEMMA NoSem ==
    ASSUME SlotInv, UNCHANGED <<sems, current>>, ReloadOK', ReqsOK',
           \A i \in 1..Len(sems) : Holding(i)' = Holding(i) /\ Queued(i)' = Queued(i)
    PROVE  SlotInv'
BY DEF SlotInv

LEMMA EnterKeeps ==
    ASSUME SlotInv, NEW r \in Requests, Enter(r)
    PROVE  SlotInv'
<1>1. /\ req[r].pc = "arrived" /\ req' = [req EXCEPT ![r].pc = "handled"]
      /\ UNCHANGED <<current, setting, reload>>
  BY DEF Enter
<1>2. req' \in [Requests -> ReqType] /\ req'[r].pc = "handled" /\ req'[r].sem = req[r].sem
      /\ \A q \in Requests \ {r} : req'[q] = req[q]
  BY <1>1 DEF SlotInv, ReqsOK, ReqType
<1>3. ReloadOK'
  BY <1>1 DEF SlotInv, ReloadOK, setting
<1>4. CASE req[r].sem = 0
  <2>1. sems' = sems
    BY <1>4 DEF Enter
  <2>2. \A i \in 1..Len(sems) : Holding(i)' = Holding(i) /\ Queued(i)' = Queued(i)
    BY <1>1, <1>2, <1>4 DEF Holding, Queued
  <2>3. ReqsOK'
    BY <1>1, <1>2, <2>1 DEF SlotInv, ReqsOK
  <2>4. QED
    BY <1>1, <1>3, <2>1, <2>2, <2>3, NoSem
<1>5. CASE req[r].sem # 0
  <2>1. PICK i \in 1..Len(sems) : i = req[r].sem /\ sems[i] \in SemType
    BY <1>5, SemOf
  <2>2. sems[i].held < sems[i].cap /\ sems' = [sems EXCEPT ![i] = [sems[i] EXCEPT !.held = @ + 1]]
    BY <1>5, <2>1 DEF Enter
  <2>3. Fits(sems[i], Holding(i), Queued(i)) /\ IsFiniteSet(Holding(i))
    BY HoldersFinite DEF SlotInv
  <2>4. r \notin Holding(i)
    BY <1>1 DEF Holding
  <2>5. PICK s \in SemType : sems' = [sems EXCEPT ![i] = s] /\ Fits(s, Holding(i) \cup {r}, Queued(i))
    BY <2>1, <2>2, <2>3, <2>4, SlotTaken
  <2>6. Holding(i)' = Holding(i) \cup {r} /\ Queued(i)' = Queued(i)
    BY <1>1, <1>2, <2>1 DEF Holding, Queued
  <2>7. Concerns(i)
    BY <1>2, <2>1 DEF Concerns
  <2>8. QED
    BY <1>1, <2>5, <2>6, <2>7, OneSem
<1>6. QED
  BY <1>4, <1>5

LEMMA WaitKeeps ==
    ASSUME SlotInv, NEW r \in Requests, Wait(r)
    PROVE  SlotInv'
<1>1. /\ req[r].pc = "arrived" /\ req[r].sem # 0 /\ req' = [req EXCEPT ![r].pc = "waiting"]
      /\ UNCHANGED <<current, setting, reload>>
  BY DEF Wait
<1>2. req' \in [Requests -> ReqType] /\ req'[r].pc = "waiting" /\ req'[r].sem = req[r].sem
      /\ \A q \in Requests \ {r} : req'[q] = req[q]
  BY <1>1 DEF SlotInv, ReqsOK, ReqType
<1>3. PICK i \in 1..Len(sems) : i = req[r].sem /\ sems[i] \in SemType
  BY <1>1, SemOf
<1>4. /\ sems[i].held = sems[i].cap
      /\ sems' = [sems EXCEPT ![i] = [sems[i] EXCEPT !.waiting = Append(@, r)]]
  BY <1>3 DEF Wait
<1>5. Fits(sems[i], Holding(i), Queued(i))
  BY DEF SlotInv
<1>6. r \notin Queued(i)
  BY <1>1 DEF Queued
<1>7. PICK s \in SemType : sems' = [sems EXCEPT ![i] = s] /\ Fits(s, Holding(i), Queued(i) \cup {r})
  BY <1>3, <1>4, <1>5, <1>6, SlotAwaited
<1>8. Holding(i)' = Holding(i) /\ Queued(i)' = Queued(i) \cup {r}
  BY <1>1, <1>2, <1>3 DEF Holding, Queued
<1>9. Concerns(i)
  BY <1>2, <1>3 DEF Concerns
<1>10. QED
  BY <1>1, <1>3, <1>7, <1>8, <1>9, OneSem

LEMMA GiveUpKeeps ==
    ASSUME SlotInv, NEW r \in Requests, GiveUp(r)
    PROVE  SlotInv'
<1>1. /\ req[r].sem # 0 /\ req' = [req EXCEPT ![r] = Idle]
      /\ UNCHANGED <<current, setting, reload>>
  BY DEF GiveUp
<1>2. req' \in [Requests -> ReqType] /\ req'[r] = Idle /\ \A q \in Requests \ {r} : req'[q] = req[q]
  BY <1>1 DEF SlotInv, ReqsOK, ReqType, Idle
<1>3. ReloadOK'
  BY <1>1 DEF SlotInv, ReloadOK, setting
<1>4. CASE req[r].pc = "arrived" /\ UNCHANGED sems
  <2>1. \A i \in 1..Len(sems) : Holding(i)' = Holding(i) /\ Queued(i)' = Queued(i)
    BY <1>2, <1>4 DEF Holding, Queued, Idle
  <2>2. 0 \in 0..Len(sems)
    BY LenProperties DEF SlotInv
  <2>3. ReqsOK'
    BY <1>2, <1>4, <2>2 DEF SlotInv, ReqsOK, Idle
  <2>4. QED
    BY <1>1, <1>3, <1>4, <2>1, <2>3, NoSem
<1>5. CASE req[r].pc = "waiting"
  <2>1. PICK i \in 1..Len(sems) : i = req[r].sem /\ sems[i] \in SemType
    BY <1>1, SemOf
  <2>2. PICK k \in DOMAIN sems[i].waiting :
           /\ sems[i].waiting[k] = r
           /\ sems' = [sems EXCEPT ![i] = [sems[i] EXCEPT !.waiting = RemoveAt(@, k)]]
    BY <1>5, <2>1 DEF GiveUp
  <2>3. Fits(sems[i], Holding(i), Queued(i))
    BY DEF SlotInv
  <2>4. PICK s \in SemType : sems' = [sems EXCEPT ![i] = s] /\ Fits(s, Holding(i), Queued(i) \ {r})
    BY <2>1, <2>2, <2>3, GivenUp
  <2>5. Holding(i)' = Holding(i) /\ Queued(i)' = Queued(i) \ {r}
    BY <1>2, <1>5 DEF Holding, Queued, Idle
  <2>6. Concerns(i)
    BY <1>2, <2>1 DEF Concerns
  <2>7. QED
    BY <1>1, <2>4, <2>5, <2>6, OneSem
<1>6. QED
  BY <1>4, <1>5 DEF GiveUp

LEMMA LeaveKeeps ==
    ASSUME SlotInv, NEW r \in Requests, Leave(r)
    PROVE  SlotInv'
<1>1. req[r].pc = "handled" /\ UNCHANGED <<current, setting, reload>>
  BY DEF Leave
<1>2. req \in [Requests -> ReqType] /\ Idle \in ReqType /\ ReloadOK'
  BY <1>1 DEF SlotInv, ReqsOK, ReqType, Idle, ReloadOK, setting
<1>3. CASE req[r].sem = 0
  <2>1. sems' = sems /\ req' = [req EXCEPT ![r] = Idle]
    BY <1>3 DEF Leave
  <2>2. \A i \in 1..Len(sems) : Holding(i)' = Holding(i) /\ Queued(i)' = Queued(i)
    BY <1>1, <1>2, <1>3, <2>1 DEF Holding, Queued, Idle
  <2>3. 0 \in 0..Len(sems)
    BY LenProperties DEF SlotInv
  <2>4. ReqsOK'
    BY <1>2, <2>1, <2>3 DEF SlotInv, ReqsOK, Idle
  <2>5. QED
    BY <1>1, <1>2, <2>1, <2>2, <2>4, NoSem
<1>4. CASE req[r].sem # 0
  <2>1. PICK i \in 1..Len(sems) : i = req[r].sem /\ sems[i] \in SemType
    BY <1>4, SemOf
  <2>2. Fits(sems[i], Holding(i), Queued(i)) /\ IsFiniteSet(Holding(i)) /\ Holding(i) \cap Queued(i) = {}
    BY HoldersFinite DEF SlotInv
  <2>3. r \in Holding(i)
    BY <1>1, <2>1 DEF Holding
  <2>4. CASE sems[i].waiting = <<>>
    <3>1. /\ sems' = [sems EXCEPT ![i] = [sems[i] EXCEPT !.held = @ - 1]]
          /\ req' = [req EXCEPT ![r] = Idle]
      BY <1>4, <2>1, <2>4 DEF Leave
    <3>2. PICK s \in SemType : sems' = [sems EXCEPT ![i] = s] /\ Fits(s, Holding(i) \ {r}, Queued(i))
      BY <2>1, <2>2, <2>3, <2>4, <3>1, SlotFreed
    <3>3. Holding(i)' = Holding(i) \ {r} /\ Queued(i)' = Queued(i)
      BY <1>1, <1>2, <3>1 DEF Holding, Queued, Idle
    <3>4. Concerns(i)
      BY <1>2, <2>1, <3>1 DEF Concerns
    <3>5. QED
      BY <1>1, <3>2, <3>3, <3>4, OneSem
  <2>5. CASE sems[i].waiting # <<>>
    <3>1. PICK h : h = Head(sems[i].waiting)
      OBVIOUS
    <3>2. /\ sems' = [sems EXCEPT ![i] = [sems[i] EXCEPT !.waiting = Tail(@)]]
          /\ req' = [req EXCEPT ![r] = Idle, ![h].pc = "handled"]
      BY <1>4, <2>1, <2>5, <3>1 DEF Leave
    <3>3. /\ h \in Queued(i)
          /\ \E s \in SemType : /\ sems' = [sems EXCEPT ![i] = s]
                                /\ Fits(s, (Holding(i) \ {r}) \cup {h}, Queued(i) \ {h})
      BY <2>1, <2>2, <2>3, <2>5, <3>1, <3>2, SlotHandedOn
    <3>4. h \in Requests /\ h # r /\ req[h].pc = "waiting" /\ req[h].sem = i
      BY <1>1, <3>3 DEF Queued
    <3>5. /\ req' \in [Requests -> ReqType] /\ req'[r] = Idle
          /\ req'[h].pc = "handled" /\ req'[h].sem = i
          /\ \A q \in Requests \ {r, h} : req'[q] = req[q]
      BY <1>2, <3>2, <3>4 DEF ReqType
    <3>6. Holding(i)' = (Holding(i) \ {r}) \cup {h} /\ Queued(i)' = Queued(i) \ {h}
      BY <1>1, <3>4, <3>5 DEF Holding, Queued, Idle
    <3>7. Concerns(i)
      BY <2>1, <3>4, <3>5 DEF Concerns
    <3>8. QED
      BY <1>1, <3>3, <3>6, <3>7, OneSem
  <2>6. QED
    BY <2>4, <2>5
<1>5. QED
  BY <1>3, <1>4

LEMMA SwapSemKeeps ==
    ASSUME SlotInv, NEW p \in Embedders, SwapSem(p)
    PROVE  SlotInv'
<1>1. PICK l \in Limits : reload[p] = <<l>>
  BY DEF SlotInv, ReloadOK, SwapSem
<1>2. /\ l \in Int /\ sems' = Sems(sems, l) /\ current' = Current(sems, l)
      /\ UNCHANGED <<setting, req>>
  BY <1>1, GatewayAssumption DEF SwapSem
<1>3. ReloadOK'
  BY DEF SlotInv, ReloadOK, SwapSem, setting
<1>4. \A i : Holding(i)' = Holding(i) /\ Queued(i)' = Queued(i)
  BY <1>2 DEF Holding, Queued
<1>5. sems \in Seq(SemType) /\ Len(sems) \in Nat
  BY LenProperties DEF SlotInv
<1>6. CASE l <= 0
  <2>1. sems' = sems /\ current' \in 0..Len(sems)
    BY <1>2, <1>5, <1>6 DEF Sems, Current
  <2>2. QED
    BY <1>2, <1>3, <1>4, <2>1 DEF SlotInv, ReqsOK
<1>7. CASE ~(l <= 0)
  <2>1. PICK s \in SemType : s = NewSem(l) /\ Fits(s, {}, {})
    BY <1>2, <1>7, NewSemFits
  <2>2. sems' = Append(sems, s) /\ current' = Len(sems')
    BY <1>2, <1>7, <2>1 DEF Sems, Current
  <2>3. /\ sems' \in Seq(SemType) /\ Len(sems') = Len(sems) + 1 /\ sems'[Len(sems) + 1] = s
        /\ \A i \in 1..Len(sems) : sems'[i] = sems[i]
    BY <1>5, <2>2, AppendProperties
  <2>4. Fits(s, Holding(Len(sems) + 1), Queued(Len(sems) + 1))
    <3>1. \A r \in Requests : req[r].sem # Len(sems) + 1
      BY <1>5 DEF SlotInv, ReqsOK
    <3>2. Holding(Len(sems) + 1) = {} /\ Queued(Len(sems) + 1) = {}
      BY <3>1 DEF Holding, Queued
    <3>3. QED
      BY <2>1, <3>2
  <2>5. ASSUME NEW i \in 1..Len(sems')
        PROVE  Fits(sems'[i], Holding(i)', Queued(i)')
    <3>1. i \in 1..Len(sems) \/ i = Len(sems) + 1
      BY <1>5, <2>3
    <3>2. QED
      BY <1>4, <2>3, <2>4, <3>1 DEF SlotInv
  <2>6. ReqsOK' /\ current' \in 0..Len(sems')
    BY <1>2, <1>5, <2>2, <2>3 DEF SlotInv, ReqsOK
  <2>7. QED
    BY <1>3, <2>3, <2>5, <2>6 DEF SlotInv
<1>8. QED
  BY <1>6, <1>7

LEMMA QuietKeeps ==
    ASSUME SlotInv, UNCHANGED <<sems, current>>, ReloadOK',
           \/ req' = req
           \/ \E r \in Requests : Arrive(r)
    PROVE  SlotInv'
<1>1. CASE req' = req
  <2>1. ReqsOK' /\ \A i : Holding(i)' = Holding(i) /\ Queued(i)' = Queued(i)
    BY <1>1 DEF SlotInv, ReqsOK, Holding, Queued
  <2>2. QED
    BY <2>1, NoSem
<1>2. ASSUME NEW r \in Requests, Arrive(r)
      PROVE  SlotInv'
  <2>1. req[r].pc = "idle" /\ req' = [req EXCEPT ![r] = [pc |-> "arrived", sem |-> current]]
    BY <1>2 DEF Arrive
  <2>2. current \in Nat
    BY LenProperties DEF SlotInv
  <2>3. /\ req' \in [Requests -> ReqType] /\ req'[r].pc = "arrived" /\ req'[r].sem = current
        /\ \A q \in Requests \ {r} : req'[q] = req[q]
    BY <2>1, <2>2 DEF SlotInv, ReqsOK, ReqType
  <2>4. ReqsOK'
    BY <2>3 DEF SlotInv, ReqsOK
  <2>5. \A i : Holding(i)' = Holding(i) /\ Queued(i)' = Queued(i)
    BY <2>1, <2>3 DEF Holding, Queued
  <2>6. QED
    BY <2>4, <2>5, NoSem
<1>3. QED
  BY <1>1, <1>2

LEMMA SlotsStart == Init => SlotInv
<1> SUFFICES ASSUME Init PROVE SlotInv
  OBVIOUS
<1>1. StartLimit \in Limits /\ StartLimit \in Int
  BY GatewayAssumption
<1>2. ReloadOK
  BY <1>1 DEF Init, ReloadOK
<1>3. \A i : Holding(i) = {} /\ Queued(i) = {}
  BY DEF Init, Idle, Holding, Queued
<1>4. CASE StartLimit <= 0
  <2>1. sems = <<>> /\ current = 0
    BY <1>1, <1>4 DEF Init, Sems, Current
  <2>2. sems \in Seq(SemType) /\ Len(sems) = 0
    BY <2>1, EmptySeq
  <2>3. QED
    BY <1>2, <2>1, <2>2 DEF Init, SlotInv, ReqsOK, ReqType, Idle
<1>5. CASE ~(StartLimit <= 0)
  <2>1. PICK s \in SemType : s = NewSem(StartLimit) /\ Fits(s, {}, {})
    BY <1>1, <1>5, NewSemFits
  <2>2. sems = <<s>> /\ current = 1
    BY <1>1, <1>5, <2>1 DEF Init, Sems, Current
  <2>3. sems \in Seq(SemType) /\ Len(sems) = 1 /\ sems[1] = s
    BY <2>2
  <2>4. ASSUME NEW i \in 1..Len(sems)
        PROVE  Fits(sems[i], Holding(i), Queued(i))
    <3>1. i = 1
      BY <2>3
    <3>2. sems[i] = s /\ Holding(i) = {} /\ Queued(i) = {}
      BY <1>3, <2>3, <3>1
    <3>3. QED
      BY <2>1, <3>2
  <2>5. ReqsOK
    <3>1. req = [r \in Requests |-> [pc |-> "idle", sem |-> 0]]
      BY DEF Init, Idle
    <3>2. 0 \in 0..Len(sems)
      BY <2>3
    <3>3. QED
      BY <3>1, <3>2 DEF ReqsOK, ReqType
  <2>6. current \in 0..Len(sems)
    BY <2>2, <2>3
  <2>7. QED
    BY <1>2, <2>3, <2>4, <2>5, <2>6 DEF SlotInv
<1>6. QED
  BY <1>4, <1>5

LEMMA SlotsKept ==
    ASSUME SlotInv, [Next]_vars
    PROVE  SlotInv'
<1>1. ASSUME NEW r \in Requests, Serve(r)
      PROVE  SlotInv'
  BY <1>1, EnterKeeps, WaitKeeps, GiveUpKeeps, LeaveKeeps DEF Serve
<1>2. ASSUME NEW r \in Requests, Arrive(r)
      PROVE  SlotInv'
  <2>1. UNCHANGED <<sems, current>> /\ ReloadOK'
    BY <1>2 DEF Arrive, SlotInv, ReloadOK, setting
  <2>2. QED
    BY <1>2, <2>1, QuietKeeps
<1>3. ASSUME NEW p \in Embedders, ReloadServer(p)
      PROVE  SlotInv'
  <2>1. UNCHANGED <<sems, current, req>> /\ ReloadOK'
    BY <1>3 DEF ReloadServer, SlotInv, ReloadOK
  <2>2. QED
    BY <2>1, QuietKeeps
<1>4. ASSUME NEW p \in Embedders, SwapSem(p)
      PROVE  SlotInv'
  BY <1>4, SwapSemKeeps
<1>5. CASE ConsoleSave \/ Signal \/ CloseGateway \/ Exit \/ Overdue \/ UNCHANGED vars
  <2>1. UNCHANGED <<sems, current, req>> /\ ReloadOK'
    BY <1>5 DEF ConsoleSave, Signal, CloseGateway, Exit, Overdue, vars, setting, SlotInv, ReloadOK
  <2>2. QED
    BY <2>1, QuietKeeps
<1>6. QED
  BY <1>1, <1>2, <1>3, <1>4, <1>5 DEF Next

\* No slot is lost or granted twice: each semaphore, whichever reloads replaced
\* it, counts exactly the requests that are handled through it, within its
\* capacity, its queue is exactly those that wait for it, and nobody waits while
\* a slot is free.
THEOREM SlotsCounted == Spec => []SlotsAreExact
<1>1. SlotInv /\ [Next]_vars => SlotInv'
  BY SlotsKept
<1>2. SlotInv => SlotsAreExact
  <2> SUFFICES ASSUME SlotInv PROVE SlotsAreExact
    OBVIOUS
  <2>1. DOMAIN sems = 1..Len(sems)
    BY LenProperties DEF SlotInv
  <2>2. QED
    BY <2>1 DEF SlotInv, SlotsAreExact, Fits
<1>3. QED
  BY <1>1, <1>2, SlotsStart, PTL DEF Spec

\* Of two requests that wait for one semaphore the one that came first is the
\* first to be served, unless it gives up: a slot is handed to the head of the
\* queue only, and who comes while a slot is free finds no queue.
THEOREM FirstComeFirstServed == Spec => NoOvertaking
<1> DEFINE Fair == \A i \in DOMAIN sems : \A m, n \in DOMAIN sems[i].waiting :
                      (m < n /\ req'[sems[i].waiting[n]].pc = "handled")
                          => req'[sems[i].waiting[m]].pc # "waiting"
<1>1. SlotInv /\ [Next]_vars => [Fair]_vars
  <2> SUFFICES ASSUME SlotInv, Next,
                      NEW i \in DOMAIN sems, NEW m \in DOMAIN sems[i].waiting,
                      NEW n \in DOMAIN sems[i].waiting, m < n,
                      req'[sems[i].waiting[n]].pc = "handled"
               PROVE  FALSE
    OBVIOUS
  <2>1. /\ i \in 1..Len(sems) /\ DOMAIN sems = 1..Len(sems) /\ sems[i] \in SemType
        /\ Fits(sems[i], Holding(i), Queued(i)) /\ req \in [Requests -> ReqType]
    BY LenProperties, ElementOfSeq DEF SlotInv, ReqsOK
  <2>2. PICK w \in Seq(Requests) : w = sems[i].waiting
    BY <2>1 DEF SemType
  <2>3. Len(w) \in Nat /\ m \in 1..Len(w) /\ n \in 1..Len(w) /\ n # 1
    BY <2>2, LenProperties
  <2>4. PICK q \in Requests : q = w[n] /\ req[q].pc = "waiting" /\ req[q].sem = i
    BY <2>1, <2>2 DEF Fits, ToSet, Queued
  <2>5. req'[q].pc = "handled"
    BY <2>2, <2>4
  <2>6. PICK r \in Requests : Enter(r) \/ Leave(r)
    <3>1. ASSUME NEW r \in Requests, Arrive(r) \/ Wait(r) \/ GiveUp(r)
          PROVE  FALSE
      <4>1. CASE Arrive(r)
        BY <2>1, <2>4, <2>5, <4>1 DEF Arrive
      <4>2. CASE Wait(r)
        BY <2>1, <2>4, <2>5, <4>2 DEF Wait
      <4>3. CASE GiveUp(r)
        <5>1. req' = [req EXCEPT ![r] = Idle]
          BY <4>3 DEF GiveUp
        <5>2. QED
          BY <2>1, <2>4, <2>5, <5>1 DEF Idle
      <4>4. QED
        BY <3>1, <4>1, <4>2, <4>3
    <3>2. ASSUME UNCHANGED req
          PROVE  FALSE
      BY <2>4, <2>5, <3>2
    <3>3. QED
      BY <3>1, <3>2 DEF Next, Serve, ReloadServer, SwapSem, ConsoleSave, Signal, CloseGateway,
                        Exit, Overdue
  <2>7. CASE Enter(r)
    BY <2>1, <2>4, <2>5, <2>7 DEF Enter
  <2>8. CASE Leave(r)
    <3>1. PICK h : req[r].sem # 0 /\ h = Head(sems[req[r].sem].waiting)
                   /\ sems[req[r].sem].waiting # <<>>
                   /\ req' = [req EXCEPT ![r] = Idle, ![h].pc = "handled"]
      BY <2>1, <2>4, <2>5, <2>8 DEF Leave, Idle
    <3>2. h = q
      BY <2>1, <2>4, <2>5, <3>1 DEF Idle
    <3>3. PICK j \in 1..Len(sems) : j = req[r].sem /\ sems[j] \in SemType
      BY <3>1, SemOf
    <3>4. Fits(sems[j], Holding(j), Queued(j))
      BY DEF SlotInv
    <3>5. PICK v \in Seq(Requests) : v = sems[j].waiting /\ v # <<>>
      BY <3>1, <3>3 DEF SemType
    <3>6. h = v[1] /\ 1 \in DOMAIN v
      <4>1. h = Head(v)
        BY <3>1, <3>3, <3>5
      <4>2. Len(v) \in Nat /\ DOMAIN v = 1..Len(v) /\ Len(v) # 0
        BY <3>5, LenProperties, EmptySeq
      <4>3. QED
        BY <3>5, <4>1, <4>2
    <3>7. req[h].sem = j
      BY <3>4, <3>5, <3>6 DEF Fits, ToSet, Queued
    <3>8. w[n] = w[1] /\ IsInjective(w) /\ 1 \in DOMAIN w /\ n \in DOMAIN w
      BY <2>1, <2>2, <2>4, <3>2, <3>5, <3>6, <3>7 DEF Fits
    <3>9. QED
      BY <2>3, <3>8 DEF IsInjective
  <2>9. QED
    BY <2>6, <2>7, <2>8
<1>2. SlotInv /\ [Next]_vars => SlotInv'
  BY SlotsKept
<1>3. QED
  BY <1>1, <1>2, SlotsStart, PTL DEF Spec, NoOvertaking
=============================================================================
