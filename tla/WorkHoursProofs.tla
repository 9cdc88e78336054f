---------------------------- MODULE WorkHoursProofs ----------------------------
(***************************************************************************)
(* Proofs about WorkHours, for every plan, session and allocation, and for *)
(* every order in which sheets are printed and hours recorded.  The lemmas *)
(* count hours, done and hours of a session in tenths.                     *)
(***************************************************************************)
EXTENDS WorkHours, TLAPS

LEMMA Scaled ==
  ASSUME NEW a \in Int, NEW b \in Int, NEW c \in Nat \ {0}
  PROVE  /\ a <= b <=> c * a <= c * b
         /\ a < b <=> c * a < c * b
OBVIOUS

\* A quotient rounded up is the least that reaches the dividend.
LEMMA CeilBounds ==
  ASSUME NEW a \in Int, NEW b \in Nat \ {0}
  PROVE  /\ Ceil(a, b) \in Int
         /\ b * Ceil(a, b) >= a
         /\ b * (Ceil(a, b) - 1) < a
<1> DEFINE q == (-a) \div b
<1>1. q \in Int /\ b * q <= -a /\ -a < b * q + b
  OBVIOUS
<1>2. Ceil(a, b) = -q
  BY DEF Ceil
<1> HIDE DEF q
<1> QED BY <1>1, <1>2

LEMMA CeilOfPositive ==
  ASSUME NEW a \in Nat \ {0}, NEW b \in Nat \ {0}
  PROVE  Ceil(a, b) \in Nat \ {0}
<1>1. Ceil(a, b) \in Int /\ b * Ceil(a, b) >= a
  BY CeilBounds
<1>2. b * 0 < b * Ceil(a, b)
  BY <1>1
<1> QED BY <1>1, <1>2, Scaled

\* The policy's rows of a month, and those of the next at most one more.
LEMMA Allowed ==
  ASSUME NEW p \in Plan, NEW m \in ADJUSTMENT_START_MONTH..LAST_MONTH
  PROVE  /\ DefaultRows(p) \in Nat \ {0}
         /\ AllowedRows(p, m) \in Nat \ {0}
         /\ AllowedRows(p, m + 1) <= AllowedRows(p, m) + 1
         /\ AllowedRows(p, ADJUSTMENT_START_MONTH) <= DefaultRows(p) + 1
<1>1. p.default \in Nat \ {0} /\ p.max \in Nat \ {0}
  BY DEF Plan
<1>2. DefaultRows(p) \in Nat \ {0} /\ MaxRows(p) \in Nat \ {0}
  BY <1>1, CeilOfPositive DEF DefaultRows, MaxRows, PUBLIC_STANDARD_SESSION
<1> QED BY <1>2 DEF AllowedRows, Smaller, ADJUSTMENT_START_MONTH, LAST_MONTH

LEMMA MonthsRemain ==
  ASSUME NEW m \in 1..LAST_MONTH, NEW s \in Nat \ {0}
  PROVE  /\ RemainingMonths(m) \in Nat \ {0}
         /\ RemainingMonths(m) * s * TENTHS \in Nat \ {0}
         /\ RemainingMonths(m) * s * TENTHS = RemainingMonths(m) * (s * TENTHS)
         /\ s * TENTHS \in Nat \ {0}
         /\ s * TENTHS <= RemainingMonths(m) * (s * TENTHS)
<1>1. RemainingMonths(m) \in Nat \ {0}
  BY DEF RemainingMonths, LAST_MONTH
<1> PICK r : r = RemainingMonths(m)
  OBVIOUS
<1> PICK t : t = s * TENTHS
  OBVIOUS
<1>2. t \in Nat \ {0}
  BY DEF TENTHS
<1>3. r * s * TENTHS = r * t
  BY <1>1 DEF TENTHS
<1>4. t * 1 <= t * r /\ t * r = r * t /\ r * t \in Nat
  BY <1>1, <1>2, Scaled
<1>5. r * t \in Nat \ {0}
  BY <1>2, <1>4
<1> QED BY <1>1, <1>2, <1>3, <1>4, <1>5

\* From July on: the rows of a month that is not at its limit are those that the
\* hours left ask for, and no month has more.
LEMMA RowsOfTheSecondHalf ==
  ASSUME NEW p \in Plan, p.kind = "public_benefit", NEW hours \in Nat, NEW done \in Int,
         done < hours * TENTHS, NEW m \in ADJUSTMENT_START_MONTH..LAST_MONTH, NEW s \in Nat \ {0}
  PROVE  LET rows == MonthlyRows(p, hours, done, m, s)
         IN  /\ rows \in Nat \ {0} /\ rows <= AllowedRows(p, m)
             /\ IdealRows(hours, done, m, s) \in Int
             /\ rows <= IdealRows(hours, done, m, s)
             /\ rows < AllowedRows(p, m) => rows = IdealRows(hours, done, m, s)
<1> DEFINE ideal == IdealRows(hours, done, m, s)
<1> DEFINE allowed == AllowedRows(p, m)
<1>1. hours * TENTHS \in Int /\ hours * TENTHS - done \in Nat \ {0} /\ m \in 1..LAST_MONTH
  BY DEF ADJUSTMENT_START_MONTH, LAST_MONTH, TENTHS
<1>2. ideal \in Nat \ {0}
  BY <1>1, MonthsRemain, CeilOfPositive DEF IdealRows
<1>3. allowed \in Nat \ {0}
  BY Allowed
<1>4. MonthlyRows(p, hours, done, m, s) = Larger(0, Smaller(ideal, allowed))
  <2>1. ~(hours * TENTHS <= done) /\ ~(m < ADJUSTMENT_START_MONTH)
    BY <1>1 DEF ADJUSTMENT_START_MONTH
  <2> QED BY <2>1 DEF MonthlyRows
<1> HIDE DEF ideal, allowed
<1>5. LET rows == MonthlyRows(p, hours, done, m, s)
      IN  /\ rows \in Nat \ {0} /\ rows <= allowed /\ rows <= ideal
          /\ rows < allowed => rows = ideal
  BY <1>2, <1>3, <1>4 DEF Larger, Smaller
<1> QED BY <1>2, <1>5 DEF ideal, allowed

\* Nothing is left of the year.
LEMMA NothingLeft ==
  ASSUME NEW p \in Plan, p.kind = "public_benefit", NEW hours \in Nat, NEW done \in Int,
         ~(done < hours * TENTHS), NEW m \in ADJUSTMENT_START_MONTH..LAST_MONTH, NEW s
  PROVE  MonthlyRows(p, hours, done, m, s) = 0
<1>1. hours * TENTHS <= done /\ ~(m < ADJUSTMENT_START_MONTH)
  BY DEF TENTHS, ADJUSTMENT_START_MONTH, LAST_MONTH
<1> QED BY <1>1 DEF MonthlyRows

LEMMA RowsAreNatural ==
  ASSUME NEW p \in Plan, NEW hours \in Nat, NEW done \in Int, NEW m \in 1..LAST_MONTH,
         NEW s \in Nat \ {0}
  PROVE  MonthlyRows(p, hours, done, m, s) \in Nat
<1>1. CASE p.kind # "public_benefit"
  <2>1. p.default \in Nat \ {0}
    BY DEF Plan
  <2> QED BY <1>1, <2>1, CeilOfPositive DEF MonthlyRows
<1>2. CASE p.kind = "public_benefit" /\ m < ADJUSTMENT_START_MONTH
  <2>1. DefaultRows(p) \in Nat
    BY Allowed DEF ADJUSTMENT_START_MONTH, LAST_MONTH
  <2> QED BY <1>2, <2>1 DEF MonthlyRows
<1>3. CASE p.kind = "public_benefit" /\ ~(m < ADJUSTMENT_START_MONTH)
  <2>1. m \in ADJUSTMENT_START_MONTH..LAST_MONTH
    BY <1>3 DEF ADJUSTMENT_START_MONTH, LAST_MONTH
  <2>2. CASE done < hours * TENTHS
    BY <1>3, <2>1, <2>2, RowsOfTheSecondHalf
  <2>3. CASE ~(done < hours * TENTHS)
    BY <1>3, <2>1, <2>3, NothingLeft
  <2> QED BY <2>2, <2>3
<1> QED BY <1>1, <1>2, <1>3

\* The rows of one month leave less than a session over what was asked for.
LEMMA LessThanASession ==
  ASSUME NEW p \in Plan, p.kind = "public_benefit", NEW hours \in Nat, NEW done \in Int,
         NEW m \in ADJUSTMENT_START_MONTH..LAST_MONTH, NEW s \in Nat \ {0}
  PROVE  LET rows == MonthlyRows(p, hours, done, m, s)
         IN  /\ rows \in Nat
             /\ rows # 0 => done + rows * s * TENTHS < hours * TENTHS + s * TENTHS
<1> PICK rows : rows = MonthlyRows(p, hours, done, m, s)
  OBVIOUS
<1> PICK all : all = hours * TENTHS
  OBVIOUS
<1> PICK t : t = s * TENTHS
  OBVIOUS
<1>1. CASE done < all
  <2> PICK ideal : ideal = IdealRows(hours, done, m, s)
    OBVIOUS
  <2> PICK b : b = RemainingMonths(m) * s * TENTHS
    OBVIOUS
  <2>1. ideal \in Int /\ rows <= ideal /\ rows \in Nat \ {0} /\ all \in Nat
    BY <1>1, RowsOfTheSecondHalf DEF TENTHS
  <2>2. b \in Nat \ {0} /\ t \in Nat \ {0} /\ t <= b
    <3>1. m \in 1..LAST_MONTH
      BY DEF ADJUSTMENT_START_MONTH
    <3> QED BY <3>1, MonthsRemain
  <2>3. b * (ideal - 1) < all - done
    <3>1. ideal = Ceil(all - done, b) /\ all - done \in Int
      BY <2>1 DEF IdealRows
    <3> QED BY <2>2, <3>1, CeilBounds
  <2>4. t * (rows - 1) <= t * (ideal - 1)
    BY <2>1, <2>2, Scaled
  <2>5. t * (ideal - 1) <= b * (ideal - 1)
    <3>1. CASE ideal - 1 = 0
      BY <2>2, <3>1
    <3>2. CASE ideal - 1 \in Nat \ {0}
      <4>1. (ideal - 1) * t <= (ideal - 1) * b
        BY <2>2, <3>2, Scaled
      <4> QED BY <2>2, <3>2, <4>1
    <3> QED BY <2>1, <3>1, <3>2
  <2>6. t * (rows - 1) < all - done
    BY <2>1, <2>2, <2>3, <2>4, <2>5
  <2>7. t * (rows - 1) = rows * t - t /\ rows * t = rows * s * TENTHS
    BY <2>1, <2>2 DEF TENTHS
  <2>8. rows * t \in Int
    BY <2>1, <2>2
  <2>9. done + rows * s * TENTHS < all + t
    BY <2>1, <2>2, <2>6, <2>7, <2>8
  <2> QED BY <2>1, <2>9
<1>2. CASE ~(done < all)
  BY <1>2, NothingLeft
<1> QED BY <1>1, <1>2

\* A sheet of November that is below its limit asks for all that is left.
LEMMA LastSheet ==
  ASSUME NEW p \in Plan, p.kind = "public_benefit", NEW hours \in Nat, NEW done \in Int,
         NEW s \in Nat \ {0},
         MonthlyRows(p, hours, done, LAST_MONTH, s) < AllowedRows(p, LAST_MONTH)
  PROVE  done + MonthlyRows(p, hours, done, LAST_MONTH, s) * s * TENTHS >= hours * TENTHS
<1> PICK rows : rows = MonthlyRows(p, hours, done, LAST_MONTH, s)
  OBVIOUS
<1> PICK all : all = hours * TENTHS
  OBVIOUS
<1> PICK t : t = s * TENTHS
  OBVIOUS
<1>1. LAST_MONTH \in ADJUSTMENT_START_MONTH..LAST_MONTH /\ LAST_MONTH \in 1..LAST_MONTH
  BY DEF ADJUSTMENT_START_MONTH, LAST_MONTH
<1>2. all \in Nat /\ t \in Nat \ {0}
  BY DEF TENTHS
<1>3. CASE done < all
  <2>1. rows = IdealRows(hours, done, LAST_MONTH, s) /\ rows \in Nat
    BY <1>1, <1>3, RowsOfTheSecondHalf
  <2>2. RemainingMonths(LAST_MONTH) * s * TENTHS = t
    BY DEF RemainingMonths, LAST_MONTH
  <2>3. rows = Ceil(all - done, t) /\ all - done \in Int
    BY <1>2, <2>1, <2>2 DEF IdealRows
  <2>4. t * rows >= all - done
    BY <1>2, <2>3, CeilBounds
  <2>5. t * rows = rows * s * TENTHS /\ t * rows \in Int
    BY <1>2, <2>1 DEF TENTHS
  <2> QED BY <1>2, <2>4, <2>5
<1>4. CASE ~(done < all)
  <2>1. rows = 0
    BY <1>1, <1>4, NothingLeft
  <2> QED BY <1>2, <1>4, <2>1 DEF TENTHS
<1> QED BY <1>3, <1>4

\* A month has at most one row more than the month before, when all that the
\* sheet of that month had seen and asked for was on record.
LEMMA NextMonth ==
  ASSUME NEW p \in Plan, p.kind = "public_benefit", NEW hours \in Nat, NEW done \in Int,
         NEW m \in 1..LAST_MONTH, m + 1 \in 1..LAST_MONTH, NEW s \in Nat \ {0}, NEW seen \in Int,
         seen >= done + MonthlyRows(p, hours, done, m, s) * s * TENTHS
  PROVE  MonthlyRows(p, hours, seen, m + 1, s) <= MonthlyRows(p, hours, done, m, s) + 1
<1> PICK rows : rows = MonthlyRows(p, hours, done, m, s)
  OBVIOUS
<1> PICK next : next = MonthlyRows(p, hours, seen, m + 1, s)
  OBVIOUS
<1> PICK all : all = hours * TENTHS
  OBVIOUS
<1> PICK t : t = s * TENTHS
  OBVIOUS
<1>1. rows \in Nat /\ next \in Nat /\ all \in Nat /\ t \in Nat \ {0}
  BY RowsAreNatural DEF TENTHS
<1>2. rows * s * TENTHS = rows * t /\ rows * t \in Nat
  BY <1>1 DEF TENTHS
<1>3. seen >= done + rows * t
  BY <1>2
<1>4. CASE m + 1 < ADJUSTMENT_START_MONTH
  <2>1. rows = DefaultRows(p) /\ next = DefaultRows(p)
    BY <1>4 DEF MonthlyRows, ADJUSTMENT_START_MONTH, LAST_MONTH
  <2> QED BY <1>1, <2>1
<1>5. CASE ~(m + 1 < ADJUSTMENT_START_MONTH) /\ ~(seen < all)
  <2>1. m + 1 \in ADJUSTMENT_START_MONTH..LAST_MONTH
    BY <1>5 DEF ADJUSTMENT_START_MONTH, LAST_MONTH
  <2>2. next = 0
    BY <1>5, <2>1, NothingLeft
  <2> QED BY <1>1, <2>2
<1>6. CASE ~(m + 1 < ADJUSTMENT_START_MONTH) /\ seen < all
  <2>1. m + 1 \in ADJUSTMENT_START_MONTH..LAST_MONTH
    BY <1>6 DEF ADJUSTMENT_START_MONTH, LAST_MONTH
  <2>2. next <= AllowedRows(p, m + 1) /\ next <= IdealRows(hours, seen, m + 1, s)
        /\ IdealRows(hours, seen, m + 1, s) \in Int
        /\ AllowedRows(p, m + 1) \in Nat
    BY <1>6, <2>1, RowsOfTheSecondHalf, Allowed
  <2>3. CASE m + 1 = ADJUSTMENT_START_MONTH
    <3>1. rows = DefaultRows(p)
      BY <2>3 DEF MonthlyRows, ADJUSTMENT_START_MONTH, LAST_MONTH
    <3>2. AllowedRows(p, m + 1) <= DefaultRows(p) + 1
      BY <2>1, <2>3, Allowed
    <3> QED BY <1>1, <2>2, <3>1, <3>2
  <2>4. CASE m + 1 # ADJUSTMENT_START_MONTH
    <3>1. m \in ADJUSTMENT_START_MONTH..LAST_MONTH
      BY <2>1, <2>4 DEF ADJUSTMENT_START_MONTH, LAST_MONTH
    <3>2. done < all
      BY <1>1, <1>2, <1>3, <1>6
    <3>3. CASE rows = AllowedRows(p, m)
      BY <1>1, <2>2, <3>1, <3>3, Allowed
    <3>4. CASE rows # AllowedRows(p, m)
      <4> PICK r : r = RemainingMonths(m)
        OBVIOUS
      <4> PICK ideal : ideal = IdealRows(hours, seen, m + 1, s)
        OBVIOUS
      <4> PICK b : b = (r - 1) * t
        OBVIOUS
      <4>1. r \in Nat \ {0} /\ r - 1 \in Nat \ {0} /\ RemainingMonths(m + 1) = r - 1
        BY <2>1, <3>1 DEF RemainingMonths, ADJUSTMENT_START_MONTH, LAST_MONTH
      <4>2. rows = IdealRows(hours, done, m, s)
        BY <1>1, <3>1, <3>2, <3>4, RowsOfTheSecondHalf, Allowed
      <4>3. /\ b \in Nat \ {0} /\ b + t \in Nat \ {0}
            /\ r * s * TENTHS = b + t /\ (r - 1) * s * TENTHS = b
        <5>1. (r - 1) * 0 < (r - 1) * t
          BY <1>1, <4>1, Scaled
        <5>2. b \in Nat \ {0}
          BY <1>1, <4>1, <5>1
        <5>3. r * s * TENTHS = r * t /\ (r - 1) * s * TENTHS = (r - 1) * t
          BY <4>1 DEF TENTHS
        <5>4. r * t = (r - 1) * t + t
          BY <1>1, <4>1
        <5> QED BY <1>1, <5>2, <5>3, <5>4
      <4>4. (b + t) * rows >= all - done
        <5>1. rows = Ceil(all - done, b + t) /\ all - done \in Int
          BY <1>1, <4>2, <4>3 DEF IdealRows
        <5> QED BY <4>3, <5>1, CeilBounds
      <4>5. ideal \in Int /\ b * (ideal - 1) < all - seen
        <5>1. ideal = Ceil(all - seen, b) /\ all - seen \in Int
          BY <1>1, <4>1, <4>3 DEF IdealRows
        <5> QED BY <4>3, <5>1, CeilBounds
      <4>6. b * (ideal - 1) < b * rows
        <5>1. (b + t) * rows = b * rows + rows * t /\ b * rows \in Int /\ b * (ideal - 1) \in Int
          BY <1>1, <4>3, <4>5
        <5> QED BY <1>1, <1>2, <1>3, <4>4, <4>5, <5>1
      <4>7. ideal - 1 < rows
        BY <1>1, <4>3, <4>5, <4>6, Scaled
      <4> QED BY <1>1, <2>2, <4>5, <4>7
    <3> QED BY <3>3, <3>4
  <2> QED BY <2>3, <2>4
<1> QED BY <1>4, <1>5, <1>6

-----------------------------------------------------------------------------
\* The rows of a sheet follow from the hours it has seen, whatever came on record
\* since.
SheetsOK ==
  \A m \in 1..LAST_MONTH :
    sheets[m] # NoSheet =>
      sheets[m].rows = MonthlyRows(plan, allocated, sheets[m].seen, m, sheets[m].session)

IInv == TypeOK /\ SheetsOK

LEMMA SumIsWhole ==
  ASSUME TypeOK, NEW m \in 1..LAST_MONTH
  PROVE  WorkedBefore(m) \in Int
<1> DEFINE of(i) == IF i < m THEN recorded[i] ELSE 0
<1>1. \A i \in 1..LAST_MONTH : recorded[i] \in Int
  BY DEF TypeOK
<1>2. \A i \in 1..10 : of(i) \in Int
  BY <1>1 DEF LAST_MONTH
<1>3. /\ of(1) \in Int /\ of(2) \in Int /\ of(3) \in Int /\ of(4) \in Int /\ of(5) \in Int
      /\ of(6) \in Int /\ of(7) \in Int /\ of(8) \in Int /\ of(9) \in Int /\ of(10) \in Int
  <2> HIDE DEF of
  <2> QED BY <1>2
<1>4. WorkedBefore(m) = of(1) + of(2) + of(3) + of(4) + of(5) + of(6) + of(7) + of(8) + of(9) + of(10)
  BY DEF WorkedBefore
<1> HIDE DEF of
<1> QED BY <1>3, <1>4

LEMMA Typed ==
  ASSUME TypeOK
  PROVE  /\ plan \in Plan /\ allocated \in Nat /\ session \in Nat \ {0}
         /\ \A m \in 1..LAST_MONTH :
              /\ recorded[m] \in Int
              /\ sheets[m] # NoSheet =>
                   /\ sheets[m] \in Sheet /\ sheets[m].seen \in Int /\ sheets[m].rows \in Nat
                   /\ sheets[m].session \in Nat \ {0}
<1>1. plan \in Plan /\ allocated \in Nat /\ session \in Nat \ {0}
  BY PlanAssumption, SessionAssumption DEF TypeOK
<1>2. \A m \in 1..LAST_MONTH : recorded[m] \in Int /\ sheets[m] \in Sheet \union {NoSheet}
  BY DEF TypeOK
<1> QED BY <1>1, <1>2, SessionAssumption DEF Sheet

LEMMA Starts == Init => IInv
BY DEF Init, IInv, TypeOK, SheetsOK, CHECK_MAX_HOURS, TENTHS

LEMMA PrintKept ==
  ASSUME IInv, NEW m \in 1..LAST_MONTH, PrintSheet(m)
  PROVE  IInv'
<1> PICK seen : seen = WorkedBefore(m)
  OBVIOUS
<1> PICK rows : rows = MonthlyRows(plan, allocated, seen, m, session)
  OBVIOUS
<1> PICK sheet : sheet = [session |-> session, seen |-> seen, rows |-> rows]
  OBVIOUS
<1>1. sheets' = [sheets EXCEPT ![m] = sheet] /\ UNCHANGED <<plan, allocated, session, recorded>>
  BY DEF PrintSheet
<1>2. seen \in Int /\ rows \in Nat
  BY SumIsWhole, Typed, RowsAreNatural DEF IInv
<1>3. sheet \in Sheet /\ sheet.rows = rows /\ sheet.seen = seen /\ sheet.session = session
  BY <1>2 DEF Sheet, IInv, TypeOK
<1>4. /\ sheets' \in [1..LAST_MONTH -> Sheet \union {NoSheet}] /\ sheets'[m] = sheet
      /\ \A i \in 1..LAST_MONTH : i # m => sheets'[i] = sheets[i]
  BY <1>1, <1>3 DEF IInv, TypeOK
<1>5. TypeOK'
  BY <1>1, <1>4 DEF IInv, TypeOK
<1>6. ASSUME NEW i \in 1..LAST_MONTH, sheets'[i] # NoSheet
      PROVE  sheets'[i].rows = MonthlyRows(plan, allocated, sheets'[i].seen, i, sheets'[i].session)
  <2>1. CASE i = m
    BY <1>3, <1>4, <2>1
  <2>2. CASE i # m
    BY <1>4, <1>6, <2>2 DEF IInv, SheetsOK
  <2> QED BY <2>1, <2>2
<1>7. SheetsOK'
  BY <1>1, <1>6 DEF SheetsOK, MonthlyRows
<1> QED BY <1>5, <1>7 DEF IInv

LEMMA RecordKept ==
  ASSUME IInv, NEW m \in 1..LAST_MONTH, NEW hours \in Int, RecordHours(m, hours)
  PROVE  IInv'
<1>1. TypeOK'
  BY DEF RecordHours, IInv, TypeOK
<1>2. SheetsOK'
  BY DEF RecordHours, IInv, SheetsOK, MonthlyRows
<1> QED BY <1>1, <1>2 DEF IInv

LEMMA Invariant == Spec => []IInv
<1>1. IInv /\ [Next]_vars => IInv'
  <2> SUFFICES ASSUME IInv, [Next]_vars PROVE IInv'
    OBVIOUS
  <2>1. ASSUME NEW s \in SessionLengths, ChangeSession(s) PROVE IInv'
    BY <2>1 DEF ChangeSession, IInv, TypeOK, SheetsOK, MonthlyRows
  <2>2. ASSUME NEW m \in Months, PrintSheet(m) PROVE IInv'
    BY <2>2, RecordAssumption, PrintKept
  <2>3. ASSUME NEW m \in Months, NEW hours \in Hours, RecordHours(m, hours) PROVE IInv'
    BY <2>3, RecordAssumption, RecordKept
  <2>4. ASSUME NEW m \in Months, sheets[m] # NoSheet, RecordHours(m, AskedFor(m)) PROVE IInv'
    <3>1. m \in 1..LAST_MONTH
      BY RecordAssumption
    <3>2. AskedFor(m) \in Int
      BY <2>4, <3>1, Typed DEF AskedFor, TENTHS, IInv
    <3> QED BY <2>4, <3>1, <3>2, RecordKept
  <2>5. CASE UNCHANGED vars
    BY <2>5 DEF vars, IInv, TypeOK, SheetsOK, MonthlyRows
  <2> QED BY <2>1, <2>2, <2>3, <2>4, <2>5 DEF Next
<1> QED BY Starts, <1>1, PTL DEF Spec

\* Hours on record fit their table, and no sheet has fewer than no rows.
THEOREM TypeCorrect == Spec => []TypeOK
<1>1. IInv => TypeOK
  BY DEF IInv
<1> QED BY Invariant, <1>1, PTL

\* A sheet from July on that was printed when the months before were on record
\* does not lead past the yearly allocation by a session, whatever the order of
\* all other sheets and records.
THEOREM OvershootIsBounded == Spec => []OvershootIsLessThanASession
<1>1. IInv => OvershootIsLessThanASession
  <2> SUFFICES ASSUME IInv, plan.kind = "public_benefit",
                      NEW m \in ADJUSTMENT_START_MONTH..LAST_MONTH, WorkedAsSeen(m)
               PROVE  WorkedBefore(m) + recorded[m] < (allocated + sheets[m].session) * TENTHS
    BY DEF OvershootIsLessThanASession
  <2> PICK s : s = sheets[m].session
    OBVIOUS
  <2> PICK rows : rows = sheets[m].rows
    OBVIOUS
  <2> PICK seen : seen = sheets[m].seen
    OBVIOUS
  <2> PICK before : before = WorkedBefore(m)
    OBVIOUS
  <2> PICK worked : worked = recorded[m]
    OBVIOUS
  <2>1. m \in 1..LAST_MONTH
    BY DEF ADJUSTMENT_START_MONTH
  <2>2. /\ plan \in Plan /\ allocated \in Nat /\ s \in Nat \ {0} /\ rows \in Nat
        /\ seen \in Int /\ before \in Int /\ worked \in Int
        /\ rows = MonthlyRows(plan, allocated, seen, m, s)
    BY <2>1, Typed, SumIsWhole DEF IInv, SheetsOK, WorkedAsSeen
  <2>3. before <= seen /\ worked > 0 /\ worked <= rows * s * TENTHS
    BY DEF WorkedAsSeen, AskedFor
  <2>4. rows * s * TENTHS \in Int /\ allocated * TENTHS \in Int /\ s * TENTHS \in Int
    BY <2>2 DEF TENTHS
  <2>5. rows # 0
    BY <2>2, <2>3 DEF TENTHS
  <2>6. seen + rows * s * TENTHS < allocated * TENTHS + s * TENTHS
    BY <2>2, <2>5, LessThanASession
  <2>7. before + worked < allocated * TENTHS + s * TENTHS
    BY <2>2, <2>3, <2>4, <2>6
  <2>8. allocated * TENTHS + s * TENTHS = (allocated + s) * TENTHS
    BY <2>2 DEF TENTHS
  <2> QED BY <2>7, <2>8
<1> QED BY Invariant, <1>1, PTL

\* When the sheet of November is below its limit and is worked in full, the hours
\* of the year are reached.
THEOREM TheYearIsFilled == Spec => []YearIsFilled
<1>1. IInv => YearIsFilled
  <2> PICK sheet : sheet = sheets[LAST_MONTH]
    OBVIOUS
  <2> PICK before : before = WorkedBefore(LAST_MONTH)
    OBVIOUS
  <2> PICK worked : worked = recorded[LAST_MONTH]
    OBVIOUS
  <2> SUFFICES ASSUME IInv, plan.kind = "public_benefit", sheet # NoSheet,
                      sheet.rows < AllowedRows(plan, LAST_MONTH),
                      before >= sheet.seen, worked >= sheet.rows * sheet.session * TENTHS
               PROVE  before + worked >= allocated * TENTHS
    BY DEF YearIsFilled, AskedFor
  <2>1. LAST_MONTH \in 1..LAST_MONTH
    BY DEF LAST_MONTH
  <2>2. /\ plan \in Plan /\ allocated \in Nat /\ sheet.session \in Nat \ {0}
        /\ sheet.rows \in Nat /\ sheet.seen \in Int /\ before \in Int /\ worked \in Int
        /\ sheet.rows = MonthlyRows(plan, allocated, sheet.seen, LAST_MONTH, sheet.session)
    BY <2>1, Typed, SumIsWhole DEF IInv, SheetsOK
  <2>3. sheet.seen + sheet.rows * sheet.session * TENTHS >= allocated * TENTHS
    BY <2>2, LastSheet
  <2>4. sheet.rows * sheet.session * TENTHS \in Int /\ allocated * TENTHS \in Int
    BY <2>2 DEF TENTHS
  <2> QED BY <2>2, <2>3, <2>4
<1> QED BY Invariant, <1>1, PTL

\* The next sheet has at most one row more, if it was printed when all that the
\* sheet before had seen and asked for was on record.
THEOREM RowsRise == Spec => []RowsRiseByOne
<1>1. IInv => RowsRiseByOne
  <2> SUFFICES ASSUME IInv, plan.kind = "public_benefit", NEW m \in 1..(LAST_MONTH - 1),
                      sheets[m] # NoSheet, sheets[m + 1] # NoSheet,
                      sheets[m + 1].session = sheets[m].session,
                      sheets[m + 1].seen >= sheets[m].seen + AskedFor(m)
               PROVE  sheets[m + 1].rows <= sheets[m].rows + 1
    BY DEF RowsRiseByOne
  <2>1. m \in 1..LAST_MONTH /\ m + 1 \in 1..LAST_MONTH
    BY DEF LAST_MONTH
  <2>2. /\ plan \in Plan /\ allocated \in Nat /\ sheets[m].session \in Nat \ {0}
        /\ sheets[m].seen \in Int /\ sheets[m + 1].seen \in Int
        /\ sheets[m].rows = MonthlyRows(plan, allocated, sheets[m].seen, m, sheets[m].session)
        /\ sheets[m + 1].rows =
             MonthlyRows(plan, allocated, sheets[m + 1].seen, m + 1, sheets[m].session)
    BY <2>1, Typed DEF IInv, SheetsOK
  <2>3. sheets[m + 1].seen >= sheets[m].seen
          + MonthlyRows(plan, allocated, sheets[m].seen, m, sheets[m].session)
              * sheets[m].session * TENTHS
    BY <2>2 DEF AskedFor
  <2> QED BY <2>1, <2>2, <2>3, NextMonth
<1> QED BY Invariant, <1>1, PTL

\* What a feasibility suggests reaches the target, within the limit, and what no
\* suggestion reaches is called unavoidable.
LEMMA Suggestions ==
  ASSUME NEW s \in Nat \ {0}, NEW days \in Nat \ {0}, NEW target \in Nat, NEW max \in Nat \ {0}
  PROVE  LET f == Feasibility(s, days, target, max)
         IN  /\ \A d \in f.days : d * Smaller(s, max) >= target /\ d > days
             /\ \A h \in f.hours : h * days >= target /\ h <= max /\ h > Smaller(s, max)
             /\ f.feasible \/ f.hours # {} \/ f.unavoidable
<1> PICK hours : hours = Smaller(s, max)
  OBVIOUS
<1> PICK needed : needed = Ceil(target, days)
  OBVIOUS
<1> PICK more : more = Ceil(target, hours)
  OBVIOUS
<1>1. hours \in Nat \ {0} /\ hours * days \in Nat /\ max * days \in Nat
  BY DEF Smaller
<1>2. needed \in Int /\ days * needed >= target /\ days * (needed - 1) < target
  BY CeilBounds
<1>3. more \in Int /\ hours * more >= target
  <2>1. hours \in Nat \ {0} /\ target \in Int
    BY <1>1
  <2> QED BY <2>1, CeilBounds
<1> PICK f : f = Feasibility(s, days, target, max)
  OBVIOUS
<1>4. /\ f.feasible <=> hours * days >= target
      /\ f.days = IF hours * days < target THEN {more} ELSE {}
      /\ f.hours = IF hours * days < target /\ needed <= max THEN {needed} ELSE {}
      /\ f.unavoidable <=> hours * days < target /\ max * days <= target
  BY DEF Feasibility
<1>5. hours * days < target => more * hours >= target /\ more > days
  <2>1. more * hours = hours * more
    BY <1>1, <1>3
  <2>2. hours * days < target => hours * days < hours * more
    BY <1>1, <1>3
  <2> QED BY <1>1, <1>3, <2>1, <2>2, Scaled
<1>6. hours * days < target => needed * days >= target /\ needed > hours
  <2>1. needed * days = days * needed /\ hours * days = days * hours
    BY <1>1, <1>2
  <2>2. hours * days < target => days * hours < days * needed
    BY <1>1, <1>2, <2>1
  <2> QED BY <1>1, <1>2, <2>1, <2>2, Scaled
<1>7. needed > max => max * days <= target
  <2>1. needed > max => days * max <= days * (needed - 1)
    BY <1>2, Scaled
  <2>2. max * days = days * max
    OBVIOUS
  <2> QED BY <1>1, <1>2, <2>1, <2>2
<1>8. \A d \in f.days : d * hours >= target /\ d > days
  BY <1>4, <1>5
<1>9. \A h \in f.hours : h * days >= target /\ h <= max /\ h > hours
  BY <1>4, <1>6
<1>10. f.feasible \/ f.hours # {} \/ f.unavoidable
  BY <1>1, <1>2, <1>4, <1>7
<1> QED BY <1>8, <1>9, <1>10

\* The same, of every session a senior may have.
THEOREM SuggestionsReach == Spec => []SuggestionsReachTheTarget
<1>1. IInv => SuggestionsReachTheTarget
  BY Typed, Suggestions, SessionAssumption DEF IInv, SuggestionsReachTheTarget
<1> QED BY Invariant, <1>1, PTL
================================================================================
