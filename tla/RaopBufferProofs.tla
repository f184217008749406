-------------------------- MODULE RaopBufferProofs --------------------------
(***************************************************************************)
(* The jitter buffer keeps its ring consistent, for every ring length, every *)
(* width of the sequence numbers and every set of timestamps.               *)
(***************************************************************************)
EXTENDS RaopBuffer, FiniteSetTheorems, TLAPS

(***************************************************************************)
(* Sequence numbers.  The first group turns "%" into sums by cases, after  *)
(* which everything about seqnum_cmp is linear arithmetic; the group about *)
(* slots needs that the ring length divides the number of sequence numbers. *)
(***************************************************************************)

\* Division with remainder, for a positive divisor.
LEMMA Division ==
  ASSUME NEW m \in Nat \ {0}, NEW x \in Int
  PROVE  /\ x = (m * (x \div m)) + (x % m)
         /\ x % m \in 0 .. m - 1
         /\ (x \div m) \in Int
  OBVIOUS

\* A multiple of m that is less than m away from 0 is 0.
LEMMA SmallMultiple ==
  ASSUME NEW m \in Nat \ {0}, NEW q \in Int, m * q \in (1 - m) .. (m - 1)
  PROVE  q = 0
<1>1. CASE q >= 1
  <2>1. m * q >= m
    BY <1>1
  <2> QED
    BY <2>1
<1>2. CASE q <= -1
  <2>1. m * q <= -m
    BY <1>2
  <2> QED
    BY <2>1
<1> QED
  BY <1>1, <1>2

\* Quotient and remainder are unique.
LEMMA Remainder ==
  ASSUME NEW m \in Nat \ {0}, NEW q \in Int, NEW r \in 0 .. m - 1
  PROVE  ((m * q) + r) % m = r
<1> DEFINE x == (m * q) + r
<1>1. x \in Int
  OBVIOUS
<1>2. /\ x = (m * (x \div m)) + (x % m)
      /\ x % m \in 0 .. m - 1
      /\ (x \div m) \in Int
  BY <1>1, Division
<1>3. m * (q - (x \div m)) = (x % m) - r
  BY <1>2
<1>4. q - (x \div m) = 0
  BY <1>2, <1>3, SmallMultiple
<1> QED
  BY <1>2, <1>3, <1>4

\* Adding a multiple does not change the remainder.
LEMMA RemainderPeriodic ==
  ASSUME NEW m \in Nat \ {0}, NEW x \in Int, NEW k \in Int
  PROVE  (x + (m * k)) % m = x % m
<1>1. /\ x = (m * (x \div m)) + (x % m)
      /\ x % m \in 0 .. m - 1
      /\ (x \div m) \in Int
  BY Division
<1>2. x + (m * k) = (m * ((x \div m) + k)) + (x % m)
  BY <1>1
<1>3. (x \div m) + k \in Int
  BY <1>1
<1> QED
  BY <1>1, <1>2, <1>3, Remainder

\* Numbers less than m apart with the same remainder are equal.
LEMMA RemainderInjective ==
  ASSUME NEW m \in Nat \ {0}, NEW a \in Int, NEW b \in Int,
         a % m = b % m, a - b \in (1 - m) .. (m - 1)
  PROVE  a = b
<1>1. a = (m * (a \div m)) + (a % m) /\ (a \div m) \in Int /\ a % m \in Int
  BY Division
<1>2. b = (m * (b \div m)) + (b % m) /\ (b \div m) \in Int /\ b % m \in Int
  BY Division
<1>3. m * ((a \div m) - (b \div m)) = a - b
  <2> DEFINE p == a \div m
             q == b \div m
             r == a % m
  <2>1. a = (m * p) + r /\ b = (m * q) + r /\ p \in Int /\ q \in Int /\ r \in Int
    BY <1>1, <1>2
  <2> HIDE DEF p, q, r
  <2>2. m * (p - q) = a - b
    BY <2>1
  <2> QED
    BY <2>2 DEF p, q
<1>4. (a \div m) - (b \div m) = 0
  BY <1>1, <1>2, <1>3, SmallMultiple
<1> QED
  BY <1>3, <1>4

-----------------------------------------------------------------------------

LEMMA SeqModType == SeqMod \in Nat \ {0} /\ SeqMod = 2 * HalfMod /\ HalfMod \in Nat
  BY SeqnumAssumption DEF SeqMod

\* The unsigned short of a number that is at most one lap out of range.
LEMMA WrapCases ==
  ASSUME NEW x \in (-SeqMod) .. (2 * SeqMod - 1)
  PROVE  Wrap(x) = IF x < 0 THEN x + SeqMod
                   ELSE IF x >= SeqMod THEN x - SeqMod ELSE x
<1> USE SeqModType
<1>1. CASE x < 0
  <2>1. x = (SeqMod * (-1)) + (x + SeqMod) /\ x + SeqMod \in 0 .. SeqMod - 1
    BY <1>1
  <2> QED
    BY <1>1, <2>1, Remainder DEF Wrap
<1>2. CASE x \in 0 .. SeqMod - 1
  <2>1. x = (SeqMod * 0) + x
    BY <1>2
  <2> QED
    BY <1>2, <2>1, Remainder DEF Wrap
<1>3. CASE x >= SeqMod
  <2>1. x = (SeqMod * 1) + (x - SeqMod) /\ x - SeqMod \in 0 .. SeqMod - 1
    BY <1>3
  <2> QED
    BY <1>3, <2>1, Remainder DEF Wrap
<1> QED
  BY <1>1, <1>2, <1>3

LEMMA WrapType == ASSUME NEW x \in Int PROVE Wrap(x) \in Seqnums
  BY SeqModType, Division DEF Wrap, Seqnums

\* seqnum_cmp without remainders.
LEMMA CmpCases ==
  ASSUME NEW a \in Seqnums, NEW b \in Seqnums
  PROVE  seqnum_cmp(a, b) = IF a - b >= HalfMod THEN a - b - SeqMod
                            ELSE IF a - b < -HalfMod THEN a - b + SeqMod
                            ELSE a - b
<1>1. a - b \in (-SeqMod) .. (2 * SeqMod - 1)
  BY SeqModType DEF Seqnums
<1>2. Wrap(a - b) = IF a - b < 0 THEN a - b + SeqMod ELSE a - b
  BY <1>1, WrapCases, SeqModType DEF Seqnums
<1> QED
  BY <1>2, SeqModType DEF seqnum_cmp, Seqnums

\* A comparison fits a short, and is 0 only between equal numbers.
LEMMA CmpType ==
  ASSUME NEW a \in Seqnums, NEW b \in Seqnums
  PROVE  /\ seqnum_cmp(a, b) \in (-HalfMod) .. (HalfMod - 1)
         /\ seqnum_cmp(a, b) = 0 <=> a = b
  BY CmpCases, SeqModType DEF Seqnums

\* The number k places ahead of a is k ahead of it.
LEMMA CmpAhead ==
  ASSUME NEW a \in Seqnums, NEW k \in 0 .. HalfMod - 1
  PROVE  Wrap(a + k) \in Seqnums /\ seqnum_cmp(Wrap(a + k), a) = k
<1>1. a + k \in (-SeqMod) .. (2 * SeqMod - 1)
  BY SeqModType DEF Seqnums
<1>2. Wrap(a + k) = IF a + k >= SeqMod THEN a + k - SeqMod ELSE a + k
  BY <1>1, WrapCases, SeqModType DEF Seqnums
<1>3. Wrap(a + k) \in Seqnums
  BY <1>2, SeqModType DEF Seqnums
<1> QED
  BY <1>2, <1>3, CmpCases, SeqModType DEF Seqnums

\* A number that compares as not before a is that many places ahead of it.
LEMMA AheadCmp ==
  ASSUME NEW a \in Seqnums, NEW q \in Seqnums, seqnum_cmp(q, a) >= 0
  PROVE  Wrap(a + seqnum_cmp(q, a)) = q
<1>1. seqnum_cmp(q, a) = IF q < a THEN q - a + SeqMod ELSE q - a
  BY CmpCases, SeqModType DEF Seqnums
<1>2. a + seqnum_cmp(q, a) \in (-SeqMod) .. (2 * SeqMod - 1)
  BY <1>1, SeqModType DEF Seqnums
<1> QED
  BY <1>1, <1>2, WrapCases, SeqModType DEF Seqnums

-----------------------------------------------------------------------------

LEMMA SlotType == ASSUME NEW x \in Int PROVE SlotOf(x) \in Slots
  BY Division, SeqnumAssumption DEF SlotOf, Slots

\* Taking the unsigned short does not change the slot.
LEMMA SlotOfWrap == ASSUME NEW x \in Int PROVE SlotOf(Wrap(x)) = SlotOf(x)
<1> DEFINE n == RAOP_BUFFER_LENGTH
           laps == SeqMod \div n
<1>1. n \in Nat \ {0} /\ laps \in Int /\ SeqMod = n * laps
  <2>1. SeqMod = (n * laps) + (SeqMod % n) /\ laps \in Int
    BY Division, SeqModType, SeqnumAssumption
  <2> QED
    BY <2>1, SeqnumAssumption
<1>2. x = (SeqMod * (x \div SeqMod)) + Wrap(x) /\ (x \div SeqMod) \in Int /\ Wrap(x) \in Int
  <2>1. SeqMod \in Nat \ {0}
    BY SeqModType
  <2>2. /\ x = (SeqMod * (x \div SeqMod)) + (x % SeqMod)
        /\ x % SeqMod \in 0 .. SeqMod - 1
        /\ (x \div SeqMod) \in Int
    BY <2>1, Division
  <2> QED
    BY <2>1, <2>2 DEF Wrap
<1> DEFINE y == x \div SeqMod
           w == Wrap(x)
<1> HIDE DEF laps, y, w
<1>3. x = w + (n * (laps * y))
  <2>1. x = (SeqMod * y) + w /\ y \in Int /\ w \in Int
    BY <1>2 DEF y, w
  <2>2. SeqMod * y = n * (laps * y)
    BY <1>1, <2>1
  <2> QED
    BY <2>1, <2>2, <1>1
<1>4. laps * y \in Int /\ w \in Int
  BY <1>1, <1>2 DEF y, w
<1>5. x % n = w % n
  BY <1>1, <1>3, <1>4, RemainderPeriodic
<1> QED
  BY <1>5 DEF w, SlotOf

\* Two numbers of one window of at most RAOP_BUFFER_LENGTH have different slots.
LEMMA SlotInjective ==
  ASSUME NEW f \in Seqnums, NEW j \in Slots, NEW k \in Slots,
         SlotOf(Wrap(f + j)) = SlotOf(Wrap(f + k))
  PROVE  j = k
<1>1. (f + j) % RAOP_BUFFER_LENGTH = (f + k) % RAOP_BUFFER_LENGTH
  BY SlotOfWrap, SeqModType DEF SlotOf, Seqnums, Slots
<1>2. f + j = f + k
  <2>1. /\ RAOP_BUFFER_LENGTH \in Nat \ {0}
        /\ f + j \in Int
        /\ f + k \in Int
    BY SeqnumAssumption, SeqModType DEF Seqnums, Slots
  <2>2. (f + j) - (f + k) \in (1 - RAOP_BUFFER_LENGTH) .. (RAOP_BUFFER_LENGTH - 1)
    BY SeqnumAssumption, SeqModType DEF Seqnums, Slots
  <2> QED
    BY <1>1, <2>1, <2>2, RemainderInjective
<1> QED
  BY <1>2, SeqModType, SeqnumAssumption DEF Seqnums, Slots

\* One lap of the ring further on is the same slot.
LEMMA SlotLap ==
  ASSUME NEW f \in Seqnums
  PROVE  SlotOf(Wrap(f + RAOP_BUFFER_LENGTH)) = SlotOf(f)
<1>1. SlotOf(Wrap(f + RAOP_BUFFER_LENGTH)) = SlotOf(f + RAOP_BUFFER_LENGTH)
  BY SlotOfWrap, SeqModType, SeqnumAssumption DEF Seqnums
<1>2. f + RAOP_BUFFER_LENGTH = f + (RAOP_BUFFER_LENGTH * 1)
  BY SeqnumAssumption, SeqModType DEF Seqnums
<1>3. (f + (RAOP_BUFFER_LENGTH * 1)) % RAOP_BUFFER_LENGTH = f % RAOP_BUFFER_LENGTH
  <2>1. f \in Int /\ 1 \in Int /\ RAOP_BUFFER_LENGTH \in Nat \ {0}
    BY SeqnumAssumption, SeqModType DEF Seqnums
  <2> QED
    BY <2>1, RemainderPeriodic
<1> QED
  BY <1>1, <1>2, <1>3 DEF SlotOf

-----------------------------------------------------------------------------
(* The ring *)

N == RAOP_BUFFER_LENGTH

LEMMA RingLength == N \in Nat \ {0} /\ N < HalfMod /\ HalfMod \in Nat /\ SeqMod = 2 * HalfMod
  BY SeqnumAssumption, SeqModType DEF N

\* Distances from a common number subtract.
LEMMA CmpDifference ==
  ASSUME NEW a \in Seqnums, NEW b \in Seqnums, NEW f \in Seqnums,
         seqnum_cmp(a, f) - seqnum_cmp(b, f) \in (-HalfMod) .. (HalfMod - 1)
  PROVE  seqnum_cmp(a, b) = seqnum_cmp(a, f) - seqnum_cmp(b, f)
  BY CmpCases, RingLength DEF Seqnums

\* The distance to the number one further on is one less.
LEMMA CmpSuccessor ==
  ASSUME NEW a \in Seqnums, NEW f \in Seqnums, seqnum_cmp(a, f) >= 0
  PROVE  /\ Wrap(f + 1) \in Seqnums
         /\ seqnum_cmp(a, Wrap(f + 1)) = seqnum_cmp(a, f) - 1
<1>1. Wrap(f + 1) = IF f + 1 = SeqMod THEN 0 ELSE f + 1
  BY WrapCases, RingLength DEF Seqnums
<1> QED
  BY <1>1, CmpCases, RingLength DEF Seqnums

\* The number before n is one behind n.
LEMMA CmpPredecessor ==
  ASSUME NEW n \in Seqnums
  PROVE  /\ Wrap(n - 1) \in Seqnums
         /\ seqnum_cmp(Wrap(n - 1), n) = -1
         /\ seqnum_cmp(n, Wrap(n - 1)) = 1
<1>1. Wrap(n - 1) = IF n = 0 THEN SeqMod - 1 ELSE n - 1
  BY WrapCases, RingLength DEF Seqnums
<1> QED
  BY <1>1, CmpCases, RingLength DEF Seqnums

\* A packet that is neither late nor beyond the ring belongs to one of the
\* RAOP_BUFFER_LENGTH numbers from first_seqnum on.
LEMMA InRing ==
  ASSUME NEW q \in Seqnums, NEW f \in Seqnums, seqnum_cmp(q, f) >= 0
  PROVE  seqnum_cmp(q, Wrap(f + RAOP_BUFFER_LENGTH)) < 0 <=> seqnum_cmp(q, f) < N
<1>1. Wrap(f + RAOP_BUFFER_LENGTH) = IF f + N >= SeqMod THEN f + N - SeqMod ELSE f + N
  BY WrapCases, RingLength DEF Seqnums, N
<1> DEFINE e == Wrap(f + RAOP_BUFFER_LENGTH)
<1>2. e \in Seqnums
  BY WrapType, RingLength DEF Seqnums, N
<1>3. seqnum_cmp(q, f) = IF q - f >= HalfMod THEN q - f - SeqMod
                         ELSE IF q - f < -HalfMod THEN q - f + SeqMod
                         ELSE q - f
  BY CmpCases
<1> HIDE DEF e
<1>4. seqnum_cmp(q, e) = IF q - e >= HalfMod THEN q - e - SeqMod
                         ELSE IF q - e < -HalfMod THEN q - e + SeqMod
                         ELSE q - e
  BY <1>2, CmpCases
<1>5. seqnum_cmp(q, e) < 0 <=> seqnum_cmp(q, f) < N
  BY <1>1, <1>2, <1>3, <1>4, RingLength DEF Seqnums, e
<1> QED
  BY <1>5 DEF e

\* Numbers of one window in one slot are equal.
LEMMA SameSlot ==
  ASSUME NEW f \in Seqnums, NEW a \in Seqnums, NEW b \in Seqnums,
         seqnum_cmp(a, f) \in 0 .. N - 1, seqnum_cmp(b, f) \in 0 .. N - 1,
         SlotOf(a) = SlotOf(b)
  PROVE  a = b
<1> DEFINE j == seqnum_cmp(a, f)
           k == seqnum_cmp(b, f)
<1>1. Wrap(f + j) = a /\ Wrap(f + k) = b
  BY AheadCmp, RingLength
<1>2. j \in Slots /\ k \in Slots
  BY DEF Slots, N
<1>3. j = k
  <2> HIDE DEF j, k
  <2> QED
    BY <1>1, <1>2, SlotInjective
<1> QED
  BY <1>1, <1>3

\* The span of the window without the narrowing to a short.
LEMMA BufLenValue ==
  ASSUME first_seqnum \in Seqnums, last_seqnum \in Seqnums,
         BufLen \in 0 .. N \/ seqnum_cmp(last_seqnum, first_seqnum) \in -1 .. N - 1
  PROVE  /\ BufLen = seqnum_cmp(last_seqnum, first_seqnum) + 1
         /\ BufLen \in 0 .. N
         /\ seqnum_cmp(last_seqnum, first_seqnum) \in -1 .. N - 1
  BY CmpType, RingLength DEF BufLen

-----------------------------------------------------------------------------
(* Type correctness *)

LEMMA GapLengthType ==
  ASSUME TypeOK
  PROVE  GapLength \in 0 .. HalfMod
<1> DEFINE ahead == seqnum_cmp(last_seqnum, first_seqnum)
<1>1. ahead \in (-HalfMod) .. (HalfMod - 1)
  BY CmpType DEF TypeOK
<1>2. /\ IsFiniteSet(0 .. ahead - 1)
      /\ Cardinality(0 .. ahead - 1) = IF 0 > ahead - 1 THEN 0 ELSE ahead
  <2> DEFINE b == ahead - 1
  <2>1. 0 \in Int /\ b \in Int
    BY <1>1, RingLength
  <2> HIDE DEF b
  <2>2. /\ IsFiniteSet(0 .. b)
        /\ Cardinality(0 .. b) = IF 0 > b THEN 0 ELSE b - 0 + 1
    BY <2>1, FS_Interval
  <2>3. b - 0 + 1 = ahead
    BY <1>1, RingLength DEF b
  <2> QED
    BY <2>2, <2>3 DEF b
<1>3. LeadingGap \subseteq 0 .. ahead - 1
  BY DEF LeadingGap
<1>4. Cardinality(LeadingGap) \in Nat /\ Cardinality(LeadingGap) <= Cardinality(0 .. ahead - 1)
  BY <1>2, <1>3, FS_Subset, FS_CardinalityType
<1> QED
  BY <1>1, <1>2, <1>4, RingLength DEF GapLength

LEMMA TypeInit == Init => TypeOK
  BY RingLength DEF Init, TypeOK, AllVacant, NoRequest, Seqnums

LEMMA TypeStep == TypeOK /\ [Next]_vars => TypeOK'
<1> SUFFICES ASSUME TypeOK, [Next]_vars PROVE TypeOK'
  OBVIOUS
<1> USE DEF TypeOK
<1>0. NoRequest \in [seqnum: Seqnums, count: 0 .. HalfMod]
  BY RingLength DEF NoRequest, Seqnums
<1>1. CASE QueueNoPacket
  BY <1>0, <1>1 DEF QueueNoPacket, Returns
<1>2. ASSUME NEW q \in Seqnums, NEW ts \in Timestamps, Queue(q, ts) PROVE TypeOK'
  <2>1. CASE QueueIgnored(q)
    BY <1>0, <2>1 DEF QueueIgnored, Returns
  <2>2. CASE QueueStored(q, ts)
    <3>1. Wrap(q - 1) \in Seqnums
      BY CmpPredecessor
    <3>2. entries' \in [Slots -> AvailableEntry \cup {Vacant}]
      BY <2>2 DEF QueueStored, AllVacant, AvailableEntry
    <3> QED
      BY <1>0, <2>2, <3>1, <3>2 DEF QueueStored, Returns
  <2> QED
    BY <1>2, <2>1, <2>2 DEF Queue
<1>3. ASSUME NEW no_resend \in BOOLEAN, Dequeue(no_resend) PROVE TypeOK'
  <2>1. CASE DequeueNothing(no_resend)
    BY <1>0, <2>1 DEF DequeueNothing
  <2>2. CASE DequeueHead(no_resend)
    <3>1. Wrap(first_seqnum + 1) \in Seqnums
      BY WrapType DEF Seqnums
    <3>2. SlotOf(first_seqnum) \in Slots
      BY SlotType DEF Seqnums
    <3> QED
      BY <1>0, <2>2, <3>1, <3>2 DEF DequeueHead
  <2> QED
    BY <1>3, <2>1, <2>2 DEF Dequeue
<1>4. CASE HandleResends
  BY <1>0, <1>4, GapLengthType DEF HandleResends
<1>5. ASSUME NEW next_seq \in Seqnums, FlushTo(next_seq) PROVE TypeOK'
  BY <1>0, <1>5, CmpPredecessor DEF FlushTo, Returns, AllVacant
<1>6. CASE FlushAll
  BY <1>0, <1>6 DEF FlushAll, Returns, AllVacant
<1>7. CASE UNCHANGED vars
  BY <1>7 DEF vars
<1> QED
  BY <1>1, <1>2, <1>3, <1>4, <1>5, <1>6, <1>7 DEF Next

\* A call that runs out of memory keeps the types too, though not the window.
LEMMA OutOfMemoryType ==
  ASSUME TypeOK, NEW q \in Seqnums, NEW ts \in Timestamps, QueueOutOfMemory(q, ts)
  PROVE  TypeOK'
<1> DEFINE jump  == Beyond(q)
           ring  == IF jump THEN AllVacant ELSE entries
           old   == ring[SlotOf(q)]
           entry == [seqnum |-> q, timestamp |-> ts,
                     decoded |-> old # Vacant /\ old.decoded]
<1>1. Wrap(q - 1) \in Seqnums /\ SlotOf(q) \in Slots
  BY CmpPredecessor, SlotType DEF Seqnums
<1>2. ring \in [Slots -> AvailableEntry \cup {Vacant}]
  BY DEF TypeOK, AllVacant
<1>3. entry \in AvailableEntry
  <2>1. (old # Vacant /\ old.decoded) \in BOOLEAN
    BY Zenon
  <2> QED
    BY <2>1 DEF AvailableEntry
<1>4. entries' = [ring EXCEPT ![SlotOf(q)] = entry]
  BY DEF QueueOutOfMemory
<1> HIDE DEF ring, entry
<1>5. entries' \in [Slots -> AvailableEntry \cup {Vacant}]
  BY <1>2, <1>3, <1>4
<1> QED
  BY <1>1, <1>5, RingLength
     DEF QueueOutOfMemory, Returns, NoRequest, TypeOK, Seqnums

\* Every variable keeps its type: no sequence number leaves the unsigned short,
\* and every slot of the ring holds one packet or none.
THEOREM TypeCorrect == Spec => []TypeOK
<1> QED
  BY TypeInit, TypeStep, PTL DEF Spec
-----------------------------------------------------------------------------
(* The ring holds exactly packets of its window *)

\* The inductive invariant: WindowInv alone is not inductive, because advancing
\* first_seqnum keeps it only if BufLen is the true distance, which TypeOK and
\* the bound on BufLen give.
IInv == TypeOK /\ WindowInv /\ NewestIsHeld

LEMMA IInvInit == Init => IInv
  BY TypeInit DEF Init, IInv, WindowInv, RingGeometry, NewestIsHeld, AllVacant

LEMMA EntryIsNotVacant ==
  ASSUME NEW q \in Seqnums, NEW ts \in Timestamps
  PROVE  [seqnum |-> q, timestamp |-> ts, decoded |-> TRUE] # Vacant
<1>1. [seqnum |-> q, timestamp |-> ts, decoded |-> TRUE] \in AvailableEntry
  BY DEF AvailableEntry
<1> QED
  BY <1>1, BufferAssumption

\* A ring holding only the packet q, which is first and last.
LEMMA OnlyPacket ==
  ASSUME NEW q \in Seqnums, NEW ts \in Timestamps,
         first_seqnum' = q, last_seqnum' = q,
         entries' = [AllVacant EXCEPT ![SlotOf(q)] =
                       [seqnum |-> q, timestamp |-> ts, decoded |-> TRUE]],
         is_empty' = FALSE
  PROVE  WindowInv' /\ NewestIsHeld'
<1>1. SlotOf(q) \in Slots
  BY SlotType DEF Seqnums
<1>2. seqnum_cmp(q, q) = 0
  BY CmpType
<1>3. BufLen' = 1
  BY <1>2, RingLength DEF BufLen
<1>4. \A s \in Slots : entries'[s] # Vacant =>
         s = SlotOf(q) /\ entries'[s].seqnum = q
  BY <1>1 DEF AllVacant
<1>5. entries'[SlotOf(q)] # Vacant /\ entries'[SlotOf(q)].seqnum = q
  <2>1. [seqnum |-> q, timestamp |-> ts, decoded |-> TRUE] # Vacant
    BY EntryIsNotVacant
  <2> QED
    BY <1>1, <2>1 DEF AllVacant
<1> QED
  BY <1>2, <1>3, <1>4, <1>5, RingLength
     DEF WindowInv, RingGeometry, NewestIsHeld, Available, N

\* A packet added inside the window.
LEMMA AddedPacket ==
  ASSUME IInv, NEW q \in Seqnums, NEW ts \in Timestamps,
         ~is_empty, ~Stale(q), ~Beyond(q), QueueStored(q, ts)
  PROVE  WindowInv' /\ NewestIsHeld'
<1> DEFINE d == seqnum_cmp(q, first_seqnum)
           b == seqnum_cmp(last_seqnum, first_seqnum)
<1> USE RingLength
<1>1. /\ first_seqnum \in Seqnums /\ last_seqnum \in Seqnums
      /\ SlotOf(q) \in Slots
      /\ entries \in [Slots -> AvailableEntry \cup {Vacant}]
  BY SlotType DEF IInv, TypeOK, Seqnums
<1>2. d \in 0 .. N - 1
  <2>1. seqnum_cmp(q, first_seqnum) \in Int /\ seqnum_cmp(q, first_seqnum) >= 0
    BY <1>1, CmpType DEF Stale
  <2>2. /\ seqnum_cmp(q, Wrap(first_seqnum + RAOP_BUFFER_LENGTH)) \in Int
        /\ seqnum_cmp(q, Wrap(first_seqnum + RAOP_BUFFER_LENGTH)) < 0
    <3>1. Wrap(first_seqnum + RAOP_BUFFER_LENGTH) \in Seqnums
      BY <1>1, WrapType DEF N, Seqnums
    <3> QED
      BY <3>1, CmpType DEF Beyond
  <2> QED
    BY <1>1, <2>1, <2>2, InRing
<1>3. BufLen = b + 1 /\ b \in -1 .. N - 1
  BY <1>1, BufLenValue DEF IInv, WindowInv, RingGeometry, N
<1>4. seqnum_cmp(q, last_seqnum) = d - b
  BY <1>1, <1>2, <1>3, CmpDifference
<1>5. /\ first_seqnum' = first_seqnum
      /\ last_seqnum' = IF d > b THEN q ELSE last_seqnum
      /\ is_empty' = FALSE
      /\ entries' = [entries EXCEPT ![SlotOf(q)] =
                       [seqnum |-> q, timestamp |-> ts, decoded |-> TRUE]]
  BY <1>2, <1>3, <1>4 DEF QueueStored
<1>6. seqnum_cmp(last_seqnum', first_seqnum') = IF d > b THEN d ELSE b
  BY <1>5
<1>7. BufLen' = (IF d > b THEN d ELSE b) + 1
  BY <1>2, <1>3, <1>6 DEF BufLen
<1>8. entries'[SlotOf(q)] # Vacant /\ entries'[SlotOf(q)].seqnum = q
  <2>1. [seqnum |-> q, timestamp |-> ts, decoded |-> TRUE] # Vacant
    BY EntryIsNotVacant
  <2> QED
    BY <1>1, <1>5, <2>1
<1>9. \A s \in Slots : s # SlotOf(q) => entries'[s] = entries[s]
  BY <1>1, <1>5
<1>10. RingGeometry'
  BY <1>2, <1>3, <1>5, <1>7, <1>8, <1>9 DEF RingGeometry, IInv, WindowInv, N
<1>11. ASSUME NEW s \in Slots, entries'[s] # Vacant
       PROVE  seqnum_cmp(entries'[s].seqnum, first_seqnum') \in 0 .. BufLen' - 1
  <2>1. CASE s = SlotOf(q)
    BY <1>2, <1>3, <1>5, <1>7, <1>8, <2>1
  <2>2. CASE s # SlotOf(q)
    <3>1. seqnum_cmp(entries[s].seqnum, first_seqnum) \in 0 .. b
      BY <1>3, <1>9, <1>11, <2>2 DEF IInv, WindowInv
    <3> QED
      BY <1>2, <1>3, <1>5, <1>7, <1>9, <2>2, <3>1
  <2> QED
    BY <2>1, <2>2
<1>12. NewestIsHeld'
  <2>1. CASE d > b
    BY <1>5, <1>8, <2>1 DEF NewestIsHeld, Available
  <2>2. CASE d <= b
    <3>1. last_seqnum' = last_seqnum /\ BufLen > 0
      BY <1>2, <1>3, <1>5, <2>2
    <3>2. /\ entries[SlotOf(last_seqnum)] # Vacant
          /\ entries[SlotOf(last_seqnum)].seqnum = last_seqnum
      BY <3>1 DEF IInv, NewestIsHeld, Available
    <3>3. SlotOf(last_seqnum) = SlotOf(q) => last_seqnum = q
      BY <1>1, <1>2, <1>3, <2>2, SameSlot
    <3>4. SlotOf(last_seqnum) \in Slots
      BY <1>1, SlotType DEF Seqnums
    <3> QED
      BY <1>8, <1>9, <3>1, <3>2, <3>3, <3>4 DEF NewestIsHeld, Available
  <2> QED
    BY <1>2, <1>3, <2>1, <2>2
<1> QED
  BY <1>5, <1>10, <1>11, <1>12 DEF WindowInv

\* Playing the head.
LEMMA PlayedPacket ==
  ASSUME IInv, NEW no_resend \in BOOLEAN, DequeueHead(no_resend)
  PROVE  WindowInv' /\ NewestIsHeld'
<1> DEFINE b == seqnum_cmp(last_seqnum, first_seqnum)
<1> USE RingLength
<1>1. /\ first_seqnum \in Seqnums /\ last_seqnum \in Seqnums
      /\ SlotOf(first_seqnum) \in Slots
      /\ entries \in [Slots -> AvailableEntry \cup {Vacant}]
      /\ ~is_empty
  BY SlotType DEF IInv, TypeOK, Seqnums, DequeueHead, HasHead
<1>2. BufLen = b + 1 /\ b \in 0 .. N - 1
  BY <1>1, BufLenValue DEF IInv, WindowInv, RingGeometry, N, DequeueHead, HasHead
<1>3. /\ first_seqnum' = Wrap(first_seqnum + 1)
      /\ last_seqnum' = last_seqnum
      /\ is_empty' = FALSE
      /\ entries' = [entries EXCEPT ![SlotOf(first_seqnum)] = Vacant]
  BY <1>1 DEF DequeueHead
<1>4. seqnum_cmp(last_seqnum', first_seqnum') = b - 1
  BY <1>1, <1>2, <1>3, CmpSuccessor
<1>5. BufLen' = b
  BY <1>2, <1>4 DEF BufLen
<1>6. \A s \in Slots : entries'[s] # Vacant =>
         s # SlotOf(first_seqnum) /\ entries'[s] = entries[s]
  BY <1>1, <1>3
<1>7. RingGeometry'
  BY <1>2, <1>3, <1>5, <1>6 DEF RingGeometry, IInv, WindowInv, N
<1>8. ASSUME NEW s \in Slots, entries'[s] # Vacant
      PROVE  seqnum_cmp(entries'[s].seqnum, first_seqnum') \in 0 .. BufLen' - 1
  <2> DEFINE p == entries[s].seqnum
  <2>1. /\ p \in Seqnums /\ SlotOf(p) = s
        /\ seqnum_cmp(p, first_seqnum) \in 0 .. b
        /\ entries'[s].seqnum = p
    BY <1>1, <1>2, <1>6, <1>8 DEF IInv, WindowInv, RingGeometry, AvailableEntry
  <2>2. p # first_seqnum
    BY <1>6, <1>8, <2>1
  <2>3. seqnum_cmp(p, first_seqnum) # 0
    BY <1>1, <2>1, <2>2, CmpType
  <2>4. seqnum_cmp(p, first_seqnum') = seqnum_cmp(p, first_seqnum) - 1
    BY <1>1, <1>3, <2>1, CmpSuccessor
  <2> QED
    BY <1>2, <1>5, <2>1, <2>3, <2>4
<1>9. NewestIsHeld'
  <2> SUFFICES ASSUME b > 0
               PROVE  /\ entries'[SlotOf(last_seqnum)] # Vacant
                      /\ entries'[SlotOf(last_seqnum)].seqnum = last_seqnum
    BY <1>3, <1>5 DEF NewestIsHeld, Available
  <2>1. last_seqnum # first_seqnum /\ seqnum_cmp(first_seqnum, first_seqnum) = 0
    BY <1>1, CmpType
  <2>2. SlotOf(last_seqnum) # SlotOf(first_seqnum)
    BY <1>1, <1>2, <2>1, SameSlot
  <2>3. /\ entries[SlotOf(last_seqnum)] # Vacant
        /\ entries[SlotOf(last_seqnum)].seqnum = last_seqnum
    BY <1>1, <1>2 DEF IInv, NewestIsHeld, Available
  <2>4. SlotOf(last_seqnum) \in Slots
    BY <1>1, SlotType DEF Seqnums
  <2> QED
    BY <1>1, <1>3, <2>2, <2>3, <2>4
<1> QED
  BY <1>3, <1>7, <1>8, <1>9 DEF WindowInv

LEMMA IInvStep == IInv /\ [Next]_vars => IInv'
<1> SUFFICES ASSUME IInv, [Next]_vars PROVE WindowInv' /\ NewestIsHeld'
  BY TypeStep DEF IInv
<1> USE RingLength
<1>0. ASSUME UNCHANGED <<is_empty, first_seqnum, last_seqnum, entries>>
      PROVE  WindowInv' /\ NewestIsHeld'
  BY <1>0 DEF IInv, WindowInv, RingGeometry, NewestIsHeld, BufLen, Available
<1>1. CASE QueueNoPacket
  BY <1>0, <1>1 DEF QueueNoPacket
<1>2. ASSUME NEW q \in Seqnums, NEW ts \in Timestamps, Queue(q, ts)
      PROVE  WindowInv' /\ NewestIsHeld'
  <2>1. CASE QueueIgnored(q)
    BY <1>0, <2>1 DEF QueueIgnored
  <2>2. CASE QueueStored(q, ts)
    <3>1. CASE ~is_empty /\ ~Beyond(q)
      BY <2>2, <3>1, AddedPacket DEF QueueStored
    <3>2. CASE is_empty \/ Beyond(q)
      <4>1. is_empty => entries = AllVacant
        BY DEF IInv, WindowInv
      <4>2. seqnum_cmp(q, Wrap(q - 1)) > 0
        BY CmpPredecessor
      <4>3. /\ first_seqnum' = q /\ last_seqnum' = q /\ is_empty' = FALSE
            /\ entries' = [AllVacant EXCEPT ![SlotOf(q)] =
                             [seqnum |-> q, timestamp |-> ts, decoded |-> TRUE]]
        BY <2>2, <3>2, <4>1, <4>2 DEF QueueStored
      <4> QED
        BY <4>3, OnlyPacket
    <3> QED
      BY <3>1, <3>2
  <2> QED
    BY <1>2, <2>1, <2>2 DEF Queue
<1>3. ASSUME NEW no_resend \in BOOLEAN, Dequeue(no_resend)
      PROVE  WindowInv' /\ NewestIsHeld'
  BY <1>0, <1>3, PlayedPacket DEF Dequeue, DequeueNothing
<1>4. CASE HandleResends
  BY <1>0, <1>4 DEF HandleResends
<1>5. ASSUME NEW next_seq \in Seqnums, FlushTo(next_seq)
      PROVE  WindowInv' /\ NewestIsHeld'
  <2>1. entries' = AllVacant /\ is_empty' = is_empty
    BY <1>5 DEF FlushTo
  <2>2. seqnum_cmp(last_seqnum', first_seqnum') = -1
    BY <1>5, CmpPredecessor DEF FlushTo
  <2>3. BufLen' = 0
    BY <2>2 DEF BufLen
  <2> QED
    BY <2>1, <2>3 DEF WindowInv, RingGeometry, NewestIsHeld, AllVacant, N
<1>6. CASE FlushAll
  BY <1>6 DEF FlushAll, WindowInv, RingGeometry, NewestIsHeld, AllVacant
<1>7. CASE UNCHANGED vars
  BY <1>0, <1>7 DEF vars
<1> QED
  BY <1>1, <1>2, <1>3, <1>4, <1>5, <1>6, <1>7 DEF Next

LEMMA IInvHolds == Spec => []IInv
<1> QED
  BY IInvInit, IInvStep, PTL DEF Spec

\* The ring holds only packets of the current window, each in its own slot, and
\* the window never exceeds the ring (raop_buffer_queue, _dequeue and _flush).
THEOREM WindowCorrect == Spec => []WindowInv
<1>1. IInv => WindowInv
  BY DEF IInv
<1> QED
  BY <1>1, IInvHolds, PTL

\* The newest packet of a window that is not used up is held.
THEOREM NewestHeld == Spec => []NewestIsHeld
<1>1. IInv => NewestIsHeld
  BY DEF IInv
<1> QED
  BY <1>1, IInvHolds, PTL

-----------------------------------------------------------------------------
(* The gap at the head *)

\* The number of elements of 0 .. n - 1.
LEMMA SegmentSize ==
  ASSUME NEW n \in Nat
  PROVE  IsFiniteSet(0 .. n - 1) /\ Cardinality(0 .. n - 1) = n
<1> DEFINE b == n - 1
<1>1. b \in Int /\ 0 \in Int
  OBVIOUS
<1> HIDE DEF b
<1>2. IsFiniteSet(0 .. b) /\ Cardinality(0 .. b) = IF 0 > b THEN 0 ELSE b - 0 + 1
  BY <1>1, FS_Interval
<1>3. (IF 0 > b THEN 0 ELSE b - 0 + 1) = n
  BY DEF b
<1> QED
  BY <1>2, <1>3 DEF b

\* A finite set of naturals that has with a number every smaller one is the
\* segment of its size.
LEMMA DownwardClosedIsSegment ==
  ASSUME NEW n \in Nat, NEW S \in SUBSET (0 .. n - 1),
         \A k \in S : 0 .. k \subseteq S
  PROVE  /\ Cardinality(S) \in 0 .. n
         /\ S = 0 .. Cardinality(S) - 1
<1> DEFINE c == Cardinality(S)
<1>1. IsFiniteSet(S) /\ Cardinality(S) <= n
  <2> DEFINE T == 0 .. n - 1
  <2>1. IsFiniteSet(T) /\ Cardinality(T) = n /\ S \in SUBSET T
    BY SegmentSize
  <2> HIDE DEF T
  <2>2. IsFiniteSet(S) /\ Cardinality(S) <= Cardinality(T)
    BY <2>1, FS_Subset
  <2> QED
    BY <2>1, <2>2
<1>2. c \in Nat
  BY <1>1, FS_CardinalityType
<1>3. S \subseteq 0 .. c - 1
  <2> SUFFICES ASSUME NEW k \in S, k >= c
               PROVE  FALSE
    BY <1>2
  <2>1. k \in Nat /\ k + 1 \in Nat
    OBVIOUS
  <2>2. 0 .. (k + 1) - 1 \in SUBSET S
    BY <2>1
  <2>3. Cardinality(0 .. (k + 1) - 1) = k + 1
    BY <2>1, SegmentSize
  <2>4. k + 1 <= c
    BY <1>1, <2>2, <2>3, FS_Subset
  <2> QED
    BY <1>2, <2>1, <2>4
<1>4. IsFiniteSet(0 .. c - 1) /\ Cardinality(0 .. c - 1) = c
  BY <1>2, SegmentSize
<1>5. S = 0 .. c - 1
  BY <1>3, <1>4, FS_Subset
<1> QED
  BY <1>1, <1>2, <1>5

\* The scan of raop_buffer_handle_resends goes over the whole gap at the head
\* and ends at a packet that is held.
LEMMA GapAtHead ==
  ASSUME IInv, HasHead
  PROVE  /\ GapLength \in 0 .. BufLen - 1
         /\ \A k \in 0 .. GapLength - 1 : ~Available(Wrap(first_seqnum + k))
         /\ Available(Wrap(first_seqnum + GapLength))
<1> DEFINE ahead == seqnum_cmp(last_seqnum, first_seqnum)
           Missing(k) == ~Available(Wrap(first_seqnum + k))
<1>1. first_seqnum \in Seqnums /\ last_seqnum \in Seqnums
  BY DEF IInv, TypeOK
<1>2. ahead \in Nat /\ BufLen = ahead + 1
  BY <1>1, BufLenValue, RingLength DEF IInv, WindowInv, RingGeometry, HasHead, N
<1>3. ~Missing(ahead)
  <2>1. Available(last_seqnum)
    BY DEF IInv, NewestIsHeld, HasHead
  <2>2. Wrap(first_seqnum + ahead) = last_seqnum
    BY <1>1, <1>2, AheadCmp
  <2> QED
    BY <2>1, <2>2
<1>4. LeadingGap = {k \in 0 .. ahead - 1 : \A j \in 0 .. k : Missing(j)}
  BY DEF LeadingGap
<1> HIDE DEF ahead, Missing
<1>5. /\ LeadingGap \in SUBSET (0 .. ahead - 1)
      /\ \A k \in LeadingGap : 0 .. k \subseteq LeadingGap
  BY <1>2, <1>4
<1>6. /\ GapLength \in 0 .. ahead
      /\ LeadingGap = 0 .. GapLength - 1
  BY <1>2, <1>5, DownwardClosedIsSegment DEF GapLength
<1>7. ASSUME NEW k \in 0 .. GapLength - 1 PROVE Missing(k)
  <2>1. k \in 0 .. k
    BY <1>6
  <2>2. k \in LeadingGap
    BY <1>6
  <2> QED
    BY <1>4, <2>1, <2>2
<1>8. ~Missing(GapLength)
  <2>1. CASE GapLength = ahead
    BY <1>3, <2>1
  <2>2. CASE GapLength # ahead
    <3>1. GapLength \in 0 .. ahead - 1 /\ GapLength \notin LeadingGap
      BY <1>2, <1>6, <2>2
    <3>2. PICK j \in 0 .. GapLength : ~Missing(j)
      BY <1>4, <3>1
    <3> QED
      BY <1>6, <1>7, <3>2
  <2> QED
    BY <2>1, <2>2
<1> QED
  BY <1>2, <1>6, <1>7, <1>8 DEF Missing

LEMMA HeadIsAskedFor == IInv => HeldBackIsRequested
<1> SUFFICES ASSUME IInv, HasHead, ~Available(first_seqnum)
             PROVE  GapLength > 0
  BY DEF HeldBackIsRequested, AwaitsResend
<1>1. GapLength \in Nat /\ Available(Wrap(first_seqnum + GapLength))
  BY GapAtHead
<1>2. Wrap(first_seqnum + 0) = first_seqnum
  BY WrapCases, RingLength DEF IInv, TypeOK, Seqnums
<1> QED
  BY <1>1, <1>2

\* Whenever raop_buffer_dequeue holds the head back for a packet that is
\* missing, raop_buffer_handle_resends has something to ask for.
THEOREM HeldBackRequested == Spec => []HeldBackIsRequested
  BY IInvHolds, HeadIsAskedFor, PTL

LEMMA ResendStep == IInv /\ ResendAsksForTheGap /\ [Next]_vars => ResendAsksForTheGap'
<1> SUFFICES ASSUME IInv, ResendAsksForTheGap, [Next]_vars
             PROVE  ResendAsksForTheGap'
  OBVIOUS
<1>1. ASSUME request' = NoRequest PROVE ResendAsksForTheGap'
  BY <1>1 DEF ResendAsksForTheGap, NoRequest
<1>2. CASE HandleResends
  <2> SUFFICES ASSUME ~is_empty, GapLength # 0
               PROVE  ResendAsksForTheGap'
    BY <1>1, <1>2 DEF HandleResends, ResendAsksForTheGap
  <2>1. request' = [seqnum |-> first_seqnum, count |-> GapLength]
    BY <1>2 DEF HandleResends
  <2>2. HasHead
    <3> DEFINE ahead == seqnum_cmp(last_seqnum, first_seqnum)
    <3>1. first_seqnum \in Seqnums /\ last_seqnum \in Seqnums
      BY DEF IInv, TypeOK
    <3>2. BufLen = ahead + 1 /\ ahead \in Int
      BY <3>1, BufLenValue, RingLength DEF IInv, WindowInv, RingGeometry, N
    <3>3. CASE ahead <= 0
      <4>1. LeadingGap = {}
        BY <3>2, <3>3 DEF LeadingGap
      <4> QED
        BY <4>1, FS_EmptySet DEF GapLength
    <3> QED
      BY <3>2, <3>3 DEF HasHead
  <2>3. /\ GapLength \in 0 .. BufLen - 1
        /\ \A k \in 0 .. GapLength - 1 : ~Available(Wrap(first_seqnum + k))
        /\ Available(Wrap(first_seqnum + GapLength))
    BY <2>2, GapAtHead
  <2>4. UNCHANGED <<is_empty, first_seqnum, last_seqnum, entries>>
    BY <1>2 DEF HandleResends
  <2>5. BufLen \in Int
    BY BufLenValue DEF IInv, TypeOK, WindowInv, RingGeometry, N
  <2> QED
    BY <2>1, <2>3, <2>4, <2>5 DEF ResendAsksForTheGap, Available, BufLen
<1>3. CASE UNCHANGED vars
  BY <1>3 DEF vars, ResendAsksForTheGap, Available, BufLen
<1>4. ASSUME Next, ~HandleResends PROVE request' = NoRequest
  BY <1>4 DEF Next, QueueNoPacket, Queue, QueueIgnored, QueueStored, Returns,
              Dequeue, DequeueNothing, DequeueHead, FlushTo, FlushAll
<1> QED
  BY <1>1, <1>2, <1>3, <1>4

\* A resend request names the whole gap at the head and nothing else.
THEOREM ResendCorrect == Spec => []ResendAsksForTheGap
<1>1. Init => ResendAsksForTheGap
  BY DEF Init, ResendAsksForTheGap
<1> QED
  BY IInvHolds, <1>1, ResendStep, PTL DEF Spec

-----------------------------------------------------------------------------
(***************************************************************************)
(* The ring implements the sliding window of PlayoutWindow: position k of  *)
(* the window is the slot of the number k places after first_seqnum.       *)
(* Adding a packet touches one position because the slots of one window    *)
(* differ; playing the head shifts every position by one, and the slot set *)
(* free is the one of the number a lap further on.                         *)
(***************************************************************************)

\* The sliding window's arithmetic is the ring's.
LEMMA SameArithmetic ==
  /\ Window!Seqnums = Seqnums
  /\ Window!Positions = Slots
  /\ Window!AllVacant = [k \in Slots |-> Vacant]
  /\ \A x \in Int : Window!Wrap(x) = Wrap(x)
  /\ \A a, b \in Seqnums : Window!seqnum_cmp(a, b) = seqnum_cmp(a, b)
  BY DEF Window!Seqnums, Window!Positions, Window!AllVacant, Window!Wrap,
         Window!seqnum_cmp, Window!SeqMod, Seqnums, Slots, Wrap, SeqMod, seqnum_cmp

\* Wrapping early or late gives the same number.
LEMMA WrapTwice ==
  ASSUME NEW f \in Seqnums, NEW k \in Slots
  PROVE  Wrap(Wrap(f + 1) + k) = Wrap(f + (k + 1))
<1>1. Wrap(f + 1) = IF f + 1 = SeqMod THEN 0 ELSE f + 1
  BY WrapCases, RingLength DEF Seqnums
<1>2. k \in 0 .. HalfMod - 2
  BY RingLength DEF Slots, N
<1>3. Wrap(f + (k + 1)) = IF f + (k + 1) >= SeqMod THEN f + (k + 1) - SeqMod ELSE f + (k + 1)
  BY <1>2, WrapCases, RingLength DEF Seqnums
<1>4. CASE f + 1 = SeqMod
  BY <1>1, <1>2, <1>3, <1>4, WrapCases, RingLength DEF Seqnums
<1>5. CASE f + 1 # SeqMod
  BY <1>1, <1>2, <1>3, <1>5, WrapCases, RingLength DEF Seqnums
<1> QED
  BY <1>4, <1>5

LEMMA WrapSelf == ASSUME NEW f \in Seqnums PROVE Wrap(f + 0) = f /\ 0 \in Slots
  BY WrapCases, RingLength DEF Seqnums, Slots, N

LEMMA Numbers ==
  ASSUME NEW f \in Seqnums, NEW k \in Slots
  PROVE  Wrap(f + k) \in Seqnums /\ SlotOf(Wrap(f + k)) \in Slots
<1>1. Wrap(f + k) \in Seqnums
  BY WrapType DEF Seqnums, Slots
<1> QED
  BY <1>1, SlotType DEF Seqnums

-----------------------------------------------------------------------------

LEMMA WindowInitMaps == Init => Window!WindowInit
<1> SUFFICES ASSUME Init PROVE Window!WindowInit
  OBVIOUS
<1>1. \A k \in Slots : entries[SlotOf(Wrap(first_seqnum + k))] = Vacant
  <2>1. first_seqnum \in Seqnums
    BY RingLength DEF Init, Seqnums
  <2> QED
    BY <2>1, Numbers DEF Init, AllVacant
<1>2. windowHeld = Window!AllVacant
  BY <1>1, SameArithmetic DEF windowHeld, Available
<1> QED
  BY <1>2 DEF Init, Window!WindowInit, windowHead, windowSpan, windowPlayed

\* A step that leaves the ring alone and plays nothing.
LEMMA NoEffectMaps ==
  ASSUME UNCHANGED <<is_empty, first_seqnum, last_seqnum, entries>>, played' = Nothing
  PROVE  Window!NoEffect
  BY DEF Window!NoEffect, windowHead, windowSpan, windowHeld, windowPlayed, Available, BufLen

\* The first packet, or one beyond the ring.
LEMMA StartMaps ==
  ASSUME IInv, NEW q \in Seqnums, NEW ts \in Timestamps, QueueStored(q, ts),
         is_empty \/ Beyond(q)
  PROVE  Window!StartAt(q, ts)
<1> USE RingLength
<1>1. first_seqnum' = q /\ last_seqnum' = q /\ is_empty' = FALSE /\ played' = Nothing
  <2>1. seqnum_cmp(q, Wrap(q - 1)) > 0
    BY CmpPredecessor
  <2> QED
    BY <2>1 DEF QueueStored, Returns
<1>2. entries' = [AllVacant EXCEPT ![SlotOf(q)] =
                    [seqnum |-> q, timestamp |-> ts, decoded |-> TRUE]]
  BY DEF QueueStored, IInv, WindowInv
<1>3. windowSpan' = 1 /\ windowHead' = q
  <2>1. seqnum_cmp(q, q) = 0
    BY CmpType
  <2> QED
    BY <1>1, <2>1 DEF windowSpan, windowHead, BufLen
<1>4. windowHeld' = [Window!AllVacant EXCEPT ![0] = ts]
  <2>1. ASSUME NEW k \in Slots
        PROVE  windowHeld'[k] = IF k = 0 THEN ts ELSE Vacant
    <3>1. windowHeld'[k] = IF entries'[SlotOf(Wrap(q + k))] # Vacant
                           THEN entries'[SlotOf(Wrap(q + k))].timestamp ELSE Vacant
      BY <1>1 DEF windowHeld, Available
    <3>2. SlotOf(Wrap(q + k)) \in Slots /\ SlotOf(q) \in Slots
      BY Numbers, SlotType DEF Seqnums
    <3>3. CASE k = 0
      BY <1>2, <3>1, <3>2, <3>3, WrapSelf, EntryIsNotVacant DEF AllVacant
    <3>4. CASE k # 0
      <4>1. SlotOf(Wrap(q + k)) # SlotOf(q)
        BY <3>4, WrapSelf, SlotInjective
      <4> QED
        BY <1>2, <3>1, <3>2, <3>4, <4>1 DEF AllVacant
    <3> QED
      BY <3>3, <3>4
  <2>2. windowHeld' = [k \in Slots |-> windowHeld'[k]]
    BY DEF windowHeld
  <2> QED
    BY <2>1, <2>2, SameArithmetic, WrapSelf
<1>5. ~is_empty => seqnum_cmp(q, first_seqnum) >= N
  <2> SUFFICES ASSUME ~is_empty PROVE seqnum_cmp(q, first_seqnum) >= N
    OBVIOUS
  <2>1. first_seqnum \in Seqnums
    BY DEF IInv, TypeOK
  <2>2. seqnum_cmp(q, first_seqnum) \in Int /\ seqnum_cmp(q, first_seqnum) >= 0
    BY <2>1, CmpType DEF QueueStored, Stale
  <2>3. seqnum_cmp(q, Wrap(first_seqnum + RAOP_BUFFER_LENGTH)) >= 0
    BY DEF Beyond
  <2>4. seqnum_cmp(q, Wrap(first_seqnum + RAOP_BUFFER_LENGTH)) \in Int
    <3>1. Wrap(first_seqnum + RAOP_BUFFER_LENGTH) \in Seqnums
      BY <2>1, WrapType DEF N, Seqnums
    <3> QED
      BY <3>1, CmpType
  <2> QED
    BY <2>1, <2>2, <2>3, <2>4, InRing
<1>6. ~is_empty => Window!seqnum_cmp(q, windowHead) >= RAOP_BUFFER_LENGTH
  BY <1>5, SameArithmetic DEF windowHead, IInv, TypeOK, N
<1>7. windowPlayed' = Nothing
  BY <1>1 DEF windowPlayed
<1> QED
  BY <1>1, <1>3, <1>4, <1>6, <1>7 DEF Window!StartAt

\* A packet inside the window.
LEMMA KeepMaps ==
  ASSUME IInv, NEW q \in Seqnums, NEW ts \in Timestamps, QueueStored(q, ts),
         ~is_empty, ~Beyond(q)
  PROVE  Window!Keep(q, ts)
<1> DEFINE d == seqnum_cmp(q, first_seqnum)
           b == seqnum_cmp(last_seqnum, first_seqnum)
<1> USE RingLength
<1>1. /\ first_seqnum \in Seqnums /\ last_seqnum \in Seqnums
      /\ SlotOf(q) \in Slots
      /\ entries \in [Slots -> AvailableEntry \cup {Vacant}]
  BY SlotType DEF IInv, TypeOK, Seqnums
<1>2. d \in Slots
  <2>1. d \in Int /\ d >= 0
    BY <1>1, CmpType DEF Stale, QueueStored
  <2>2. Wrap(first_seqnum + RAOP_BUFFER_LENGTH) \in Seqnums
    BY <1>1, WrapType DEF N, Seqnums
  <2>3. seqnum_cmp(q, Wrap(first_seqnum + RAOP_BUFFER_LENGTH)) < 0
    BY <1>1, <2>2, CmpType DEF Beyond
  <2> QED
    BY <1>1, <2>1, <2>3, InRing DEF Slots, N
<1>3. BufLen = b + 1 /\ b \in -1 .. N - 1
  BY <1>1, BufLenValue DEF IInv, WindowInv, RingGeometry, N
<1>4. seqnum_cmp(q, last_seqnum) = d - b
  BY <1>1, <1>2, <1>3, CmpDifference DEF Slots, N
<1>5. /\ first_seqnum' = first_seqnum
      /\ last_seqnum' = IF d > b THEN q ELSE last_seqnum
      /\ is_empty' = FALSE
      /\ played' = Nothing
      /\ entries' = [entries EXCEPT ![SlotOf(q)] =
                       [seqnum |-> q, timestamp |-> ts, decoded |-> TRUE]]
  BY <1>2, <1>3, <1>4 DEF QueueStored, Returns, Slots
<1>6. windowSpan' = IF d >= windowSpan THEN d + 1 ELSE windowSpan
  <2>1. seqnum_cmp(last_seqnum', first_seqnum') = IF d > b THEN d ELSE b
    BY <1>5
  <2>2. BufLen' = (IF d > b THEN d ELSE b) + 1
    BY <1>2, <1>3, <2>1 DEF BufLen, Slots, N
  <2> QED
    BY <1>2, <1>3, <1>5, <2>2 DEF windowSpan, Slots
<1>7. Wrap(first_seqnum + d) = q
  BY <1>1, <1>2, AheadCmp DEF Slots
<1>8. entries[SlotOf(q)] = Vacant
  <2> SUFFICES ASSUME entries[SlotOf(q)] # Vacant PROVE FALSE
    OBVIOUS
  <2> DEFINE p == entries[SlotOf(q)].seqnum
  <2>1. p # q
    BY DEF QueueStored, Resent, Available
  <2>2. /\ p \in Seqnums /\ SlotOf(p) = SlotOf(q)
        /\ seqnum_cmp(p, first_seqnum) \in 0 .. N - 1
    BY <1>1, <1>3 DEF IInv, WindowInv, RingGeometry, AvailableEntry
  <2>3. d \in 0 .. N - 1
    BY <1>2 DEF Slots, N
  <2> QED
    BY <1>1, <2>1, <2>2, <2>3, SameSlot
<1>9. windowHeld[d] = Vacant
  BY <1>2, <1>7, <1>8 DEF windowHeld, Available
<1>10. windowHeld' = [windowHeld EXCEPT ![d] = ts]
  <2>1. ASSUME NEW k \in Slots
        PROVE  windowHeld'[k] = IF k = d THEN ts ELSE windowHeld[k]
    <3>1. windowHeld'[k] = IF entries'[SlotOf(Wrap(first_seqnum + k))] # Vacant
                           THEN entries'[SlotOf(Wrap(first_seqnum + k))].timestamp
                           ELSE Vacant
      BY <1>5 DEF windowHeld, Available
    <3>2. SlotOf(Wrap(first_seqnum + k)) \in Slots
      BY <1>1, Numbers
    <3>3. CASE k = d
      BY <1>1, <1>5, <1>7, <3>1, <3>3, EntryIsNotVacant
    <3>4. CASE k # d
      <4>1. SlotOf(Wrap(first_seqnum + k)) # SlotOf(Wrap(first_seqnum + d))
        BY <1>1, <1>2, <3>4, SlotInjective
      <4>2. entries'[SlotOf(Wrap(first_seqnum + k))] = entries[SlotOf(Wrap(first_seqnum + k))]
        BY <1>1, <1>5, <1>7, <3>2, <4>1
      <4> QED
        BY <3>1, <3>4, <4>2 DEF windowHeld, Available
    <3> QED
      BY <3>3, <3>4
  <2>2. /\ windowHeld' = [k \in Slots |-> windowHeld'[k]]
        /\ windowHeld = [k \in Slots |-> windowHeld[k]]
    BY DEF windowHeld
  <2> QED
    BY <1>2, <2>1, <2>2
<1>11. Window!seqnum_cmp(q, windowHead) = d /\ windowHead' = windowHead
  BY <1>1, <1>5, SameArithmetic DEF windowHead
<1>12. windowPlayed' = Nothing
  BY <1>5 DEF windowPlayed
<1> HIDE DEF d
<1> QED
  BY <1>2, <1>5, <1>6, <1>9, <1>10, <1>11, <1>12, SameArithmetic DEF Window!Keep

\* Playing the head.
LEMMA PlayMaps ==
  ASSUME IInv, NEW no_resend \in BOOLEAN, DequeueHead(no_resend)
  PROVE  Window!PlayHead
<1> DEFINE b == seqnum_cmp(last_seqnum, first_seqnum)
<1> USE RingLength
<1>1. /\ first_seqnum \in Seqnums /\ last_seqnum \in Seqnums
      /\ SlotOf(first_seqnum) \in Slots
      /\ entries \in [Slots -> AvailableEntry \cup {Vacant}]
      /\ ~is_empty
  BY SlotType DEF IInv, TypeOK, Seqnums, DequeueHead, HasHead
<1>2. BufLen = b + 1 /\ b \in 0 .. N - 1
  BY <1>1, BufLenValue DEF IInv, WindowInv, RingGeometry, N, DequeueHead, HasHead
<1>3. /\ first_seqnum' = Wrap(first_seqnum + 1)
      /\ last_seqnum' = last_seqnum
      /\ is_empty' = FALSE
      /\ entries' = [entries EXCEPT ![SlotOf(first_seqnum)] = Vacant]
      /\ played' = IF entries[SlotOf(first_seqnum)] = Vacant THEN Silence
                   ELSE entries[SlotOf(first_seqnum)]
  BY <1>1 DEF DequeueHead
<1>4. windowSpan > 0 /\ windowSpan' = windowSpan - 1
  <2>1. seqnum_cmp(last_seqnum', first_seqnum') = b - 1
    BY <1>1, <1>2, <1>3, CmpSuccessor
  <2>2. BufLen' = b
    BY <1>2, <2>1 DEF BufLen
  <2> QED
    BY <1>1, <1>2, <1>3, <2>2 DEF windowSpan
<1>5. windowHead' = Window!Wrap(windowHead + 1)
  BY <1>1, <1>3, SameArithmetic DEF windowHead, Seqnums
<1>6. windowHeld[0] = IF entries[SlotOf(first_seqnum)] # Vacant
                      THEN entries[SlotOf(first_seqnum)].timestamp ELSE Vacant
  BY <1>1, WrapSelf DEF windowHeld, Available
<1>7. windowPlayed' = IF windowHeld[0] = Vacant THEN Silence
                      ELSE [seqnum |-> windowHead, timestamp |-> windowHeld[0]]
  <2> DEFINE e == entries[SlotOf(first_seqnum)]
  <2>1. CASE e = Vacant
    BY <1>3, <1>6, <2>1 DEF windowPlayed
  <2>2. CASE e # Vacant
    <3>1. e \in AvailableEntry /\ SlotOf(e.seqnum) = SlotOf(first_seqnum)
      BY <1>1, <2>2 DEF IInv, WindowInv, RingGeometry
    <3>2. e.seqnum \in Seqnums /\ e.timestamp \in Timestamps
      BY <3>1 DEF AvailableEntry
    <3>3. e.seqnum = first_seqnum
      <4>1. seqnum_cmp(e.seqnum, first_seqnum) \in 0 .. N - 1
        BY <1>1, <1>2, <2>2 DEF IInv, WindowInv
      <4>2. seqnum_cmp(first_seqnum, first_seqnum) \in 0 .. N - 1
        BY <1>1, CmpType
      <4> QED
        BY <1>1, <3>1, <3>2, <4>1, <4>2, SameSlot
    <3>4. e.timestamp # Vacant /\ e \notin {Nothing, Silence}
      BY <3>1, <3>2, BufferAssumption
    <3>5. played' = e
      BY <1>3, <2>2
    <3> HIDE DEF e
    <3>6. windowPlayed' = [seqnum |-> e.seqnum, timestamp |-> e.timestamp]
      BY <3>4, <3>5 DEF windowPlayed
    <3>7. windowHeld[0] = e.timestamp
      BY <1>6, <2>2 DEF e
    <3> QED
      BY <1>1, <3>3, <3>4, <3>6, <3>7 DEF windowHead
  <2> QED
    BY <2>1, <2>2
<1>8. windowHeld' = [k \in Slots |-> IF k + 1 \in Slots THEN windowHeld[k + 1] ELSE Vacant]
  <2>1. ASSUME NEW k \in Slots
        PROVE  windowHeld'[k] = IF k + 1 \in Slots THEN windowHeld[k + 1] ELSE Vacant
    <3>1. windowHeld'[k] = IF entries'[SlotOf(Wrap(first_seqnum + (k + 1)))] # Vacant
                           THEN entries'[SlotOf(Wrap(first_seqnum + (k + 1)))].timestamp
                           ELSE Vacant
      BY <1>1, <1>3, WrapTwice DEF windowHeld, Available
    <3>2. CASE k + 1 \in Slots
      <4>1. k + 1 # 0
        BY DEF Slots
      <4>2. SlotOf(Wrap(first_seqnum + (k + 1))) # SlotOf(first_seqnum)
        BY <1>1, <3>2, <4>1, SlotInjective, WrapSelf
      <4>3. SlotOf(Wrap(first_seqnum + (k + 1))) \in Slots
        BY <1>1, <3>2, Numbers
      <4> QED
        BY <1>1, <1>3, <3>1, <3>2, <4>2, <4>3 DEF windowHeld, Available
    <3>3. CASE k + 1 \notin Slots
      <4>1. k + 1 = RAOP_BUFFER_LENGTH
        BY <3>3 DEF Slots, N
      <4>2. SlotOf(Wrap(first_seqnum + (k + 1))) = SlotOf(first_seqnum)
        BY <1>1, <4>1, SlotLap
      <4> QED
        BY <1>1, <1>3, <3>1, <3>3, <4>2
    <3> QED
      BY <3>2, <3>3
  <2>2. windowHeld' = [k \in Slots |-> windowHeld'[k]]
    BY DEF windowHeld
  <2> QED
    BY <2>1, <2>2
<1> QED
  BY <1>1, <1>3, <1>4, <1>5, <1>7, <1>8, SameArithmetic DEF Window!PlayHead

\* A flush, to a known or an unknown number.
LEMMA FlushMaps ==
  ASSUME IInv, FlushAll \/ \E next_seq \in Seqnums : FlushTo(next_seq)
  PROVE  Window!Reposition
<1> USE RingLength
<1>1. first_seqnum' \in Seqnums /\ entries' = AllVacant /\ played' = Nothing
  BY DEF FlushAll, FlushTo, Returns, IInv, TypeOK
<1>2. windowHeld' = Window!AllVacant
  <2>1. \A k \in Slots : entries'[SlotOf(Wrap(first_seqnum' + k))] = Vacant
    BY <1>1, Numbers DEF AllVacant
  <2> QED
    BY <2>1, SameArithmetic DEF windowHeld, Available
<1>3. windowSpan' = 0
  <2>1. CASE FlushAll
    BY <2>1 DEF FlushAll, windowSpan
  <2>2. ASSUME NEW next_seq \in Seqnums, FlushTo(next_seq) PROVE windowSpan' = 0
    <3>1. seqnum_cmp(last_seqnum', first_seqnum') = -1
      BY <2>2, CmpPredecessor DEF FlushTo
    <3> QED
      BY <3>1 DEF windowSpan, BufLen
  <2> QED
    BY <2>1, <2>2
<1>4. \/ ~is_empty /\ ~is_empty' /\ windowHead' \in Seqnums
      \/ is_empty' /\ windowHead' = 0
  BY <1>1 DEF FlushAll, FlushTo, windowHead, IInv, TypeOK
<1>5. windowPlayed' = Nothing
  BY <1>1 DEF windowPlayed
<1>6. is_empty \in BOOLEAN /\ is_empty' \in BOOLEAN
  BY DEF FlushAll, FlushTo, IInv, TypeOK
<1> QED
  BY <1>2, <1>3, <1>4, <1>5, <1>6, SameArithmetic DEF Window!Reposition

LEMMA StepMaps == IInv /\ [Next]_vars => [Window!WindowNext]_Window!windowVars
<1> SUFFICES ASSUME IInv, [Next]_vars PROVE [Window!WindowNext]_Window!windowVars
  OBVIOUS
<1> USE DEF Window!WindowNext
<1>1. CASE QueueNoPacket
  BY <1>1, NoEffectMaps DEF QueueNoPacket, Returns
<1>2. ASSUME NEW q \in Seqnums, NEW ts \in Timestamps, Queue(q, ts)
      PROVE  Window!WindowNext
  <2>1. CASE QueueIgnored(q)
    BY <2>1, NoEffectMaps DEF QueueIgnored, Returns
  <2>2. CASE QueueStored(q, ts)
    <3>1. Window!StartAt(q, ts) \/ Window!Keep(q, ts)
      BY <2>2, StartMaps, KeepMaps
    <3> QED
      BY <3>1, SameArithmetic
  <2> QED
    BY <1>2, <2>1, <2>2 DEF Queue
<1>3. ASSUME NEW no_resend \in BOOLEAN, Dequeue(no_resend)
      PROVE  Window!WindowNext
  BY <1>3, NoEffectMaps, PlayMaps DEF Dequeue, DequeueNothing
<1>4. CASE HandleResends
  BY <1>4, NoEffectMaps DEF HandleResends
<1>5. CASE FlushAll \/ \E next_seq \in Seqnums : FlushTo(next_seq)
  BY <1>5, FlushMaps
<1>6. CASE UNCHANGED vars
  BY <1>6 DEF vars, Window!windowVars, windowHead, windowSpan, windowHeld,
     windowPlayed, Available, BufLen
<1> QED
  BY <1>1, <1>2, <1>3, <1>4, <1>5, <1>6 DEF Next

\* What is dropped on arrival has no place left in the window.
LEMMA NoneDropped == IInv => TimelyPacketsAccepted
<1> SUFFICES ASSUME IInv, NEW q \in Seqnums, ~Stale(q), ~Beyond(q), Resent(q)
             PROVE  /\ ~is_empty
                    /\ windowHeld[seqnum_cmp(q, first_seqnum)] # Vacant
  BY DEF TimelyPacketsAccepted, Stale
<1> DEFINE d == seqnum_cmp(q, first_seqnum)
<1>1. /\ first_seqnum \in Seqnums
      /\ SlotOf(q) \in Slots
      /\ entries \in [Slots -> AvailableEntry \cup {Vacant}]
  BY SlotType DEF IInv, TypeOK, Seqnums
<1>2. ~is_empty
  BY <1>1 DEF IInv, WindowInv, AllVacant, Resent, Available
<1>3. d \in Slots
  <2>1. d \in Int /\ d >= 0
    BY <1>1, <1>2, CmpType, RingLength DEF Stale
  <2>2. Wrap(first_seqnum + RAOP_BUFFER_LENGTH) \in Seqnums
    BY <1>1, WrapType, RingLength DEF N, Seqnums
  <2>3. seqnum_cmp(q, Wrap(first_seqnum + RAOP_BUFFER_LENGTH)) < 0
    BY <1>1, <2>2, CmpType, RingLength DEF Beyond
  <2> QED
    BY <1>1, <2>1, <2>3, InRing, RingLength DEF Slots, N
<1>4. Wrap(first_seqnum + d) = q
  BY <1>1, <1>3, AheadCmp DEF Slots
<1>5. entries[SlotOf(q)] # Vacant /\ entries[SlotOf(q)].timestamp # Vacant
  BY <1>1, BufferAssumption DEF Resent, Available, AvailableEntry
<1> QED
  BY <1>2, <1>3, <1>4, <1>5 DEF windowHeld, Available

\* A packet that comes in time is never dropped.
THEOREM TimelyAccepted == Spec => []TimelyPacketsAccepted
  BY NoneDropped, IInvHolds, PTL

\* Whatever packets arrive, late, early, twice or not at all, and whatever is
\* flushed, the ring does to the stream what the sliding window does.
THEOREM Refinement == Spec => ImplementsWindow
<1> QED
  BY WindowInitMaps, StepMaps, IInvHolds, PTL DEF Spec, ImplementsWindow, Window!WindowSpec
=============================================================================
