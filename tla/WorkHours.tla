------------------------------ MODULE WorkHours ------------------------------
(***************************************************************************)
(* The rows of the monthly sheet a senior signs: calculate_monthly_rows    *)
(* and validate_work_feasibility of services/work_hours.py, over a year of *)
(* one senior.  The rows of any month are asked for at any time, and are   *)
(* computed from the hours that are on record by then for the months       *)
(* before.  Hours of any month are recorded, changed and deleted at any    *)
(* time, whatever its sheet said.  Nothing ties the two but the senior who *)
(* works what a sheet asks for.                                            *)
(***************************************************************************)
EXTENDS Integers

CONSTANTS
  Plans,            \* hour columns of the business units, as records
  SessionLengths,   \* default_session_hours a senior may have
  Allocations,      \* allocated_hours a senior may have
  Hours,            \* worked_hours a record may be sent with, in tenths
  Months,           \* months of the year that are looked at
  SessionMaxs,      \* session_max a feasibility may be asked with
  WorkingDays,      \* working_days of a feasibility
  NoSheet

VARIABLES
  plan,             \* the business unit of the senior, whose hours are fixed
  allocated,        \* allocated_hours, never changed after the creation
  session,          \* default_session_hours
  recorded,         \* month -> worked_hours on record, in tenths, 0 if none are
  sheets            \* month -> its sheet as it was last printed

vars == <<plan, allocated, session, recorded, sheets>>

ADJUSTMENT_START_MONTH == 7
PUBLIC_STANDARD_SESSION == 3
TENTHS == 10                      \* NUMERIC(5, 1)
CHECK_MAX_HOURS == 42 * TENTHS    \* CHECK (worked_hours <= 42)
LAST_MONTH == 11                  \* CHECK (month <= 11)

Plan == [kind : {"public_benefit", "social_service", "market"},
         default : Nat \ {0}, max : Nat \ {0}]

\* seen is history: the hours before the month that were on record by then.
Sheet == [session : SessionLengths, rows : Nat, seen : Int]

ASSUME PlanAssumption == Plans \subseteq Plan /\ Allocations \subseteq Nat
ASSUME SessionAssumption ==
  SessionLengths \subseteq Nat \ {0} /\ SessionMaxs \subseteq Nat \ {0}
    /\ WorkingDays \subseteq Nat \ {0}
ASSUME RecordAssumption == Hours \subseteq Int /\ Months \subseteq 1..LAST_MONTH
ASSUME NullAssumption == NoSheet \notin Sheet

-----------------------------------------------------------------------------
(* The rows of a sheet.                                                    *)

Smaller(a, b) == IF a < b THEN a ELSE b
Larger(a, b)  == IF a < b THEN b ELSE a

\* Mutant: the last session is not rounded up.
Floor(a, b) == a \div b

\* math.ceil(a / b): a float quotient of tenths is exact when it is whole, and
\* otherwise further from a whole number than it is rounded.
Ceil(a, b) == -((-a) \div b)

DefaultRows(p) == Ceil(p.default, PUBLIC_STANDARD_SESSION)
MaxRows(p)     == Ceil(p.max, PUBLIC_STANDARD_SESSION)

\* Mutant: two rows more a month.
AllowedTwice(p, m) == Smaller(DefaultRows(p) + 2 * (m - ADJUSTMENT_START_MONTH + 1), MaxRows(p))

\* One row more in July, two in August, up to the monthly maximum.
AllowedRows(p, m) == Smaller(DefaultRows(p) + m - ADJUSTMENT_START_MONTH + 1, MaxRows(p))

\* Mutant: the year has twelve months of work.
RemainingOfTwelve(m) == LAST_MONTH - m + 2

RemainingMonths(m) == LAST_MONTH - m + 1

\* Mutant: what was worked is not taken off.
IdealRowsOfAll(hours, done, m, s) == Ceil(hours * TENTHS, RemainingMonths(m) * s * TENTHS)

\* What is left of the year, spread over the months left, in sessions.
IdealRows(hours, done, m, s) == Ceil(hours * TENTHS - done, RemainingMonths(m) * s * TENTHS)

\* done is in tenths of hours.
MonthlyRows(p, hours, done, m, s) ==
  CASE p.kind # "public_benefit"  -> Ceil(p.default, s)
    [] p.kind = "public_benefit" /\ m < ADJUSTMENT_START_MONTH -> DefaultRows(p)
    [] OTHER -> IF hours * TENTHS <= done
                  THEN 0
                  ELSE Larger(0, Smaller(IdealRows(hours, done, m, s), AllowedRows(p, m)))

-----------------------------------------------------------------------------
(* Whether a target of hours can be reached in a month.                    *)

Feasibility(s, days, target, max) ==
  LET hours      == Smaller(s, max)
      achievable == hours * days
      absolute   == max * days
      needed     == Ceil(target, days)
  IN  [feasible    |-> achievable >= target,
       achievable  |-> achievable,
       violated    |-> s > max,
       days        |-> IF achievable < target THEN {Ceil(target, hours)} ELSE {},
       hours       |-> IF achievable < target /\ needed <= max THEN {needed} ELSE {},
       unavoidable |-> achievable < target /\ absolute <= target]

-----------------------------------------------------------------------------
Init ==
  /\ plan \in Plans
  /\ allocated \in Allocations
  /\ session \in SessionLengths
  /\ recorded = [m \in 1..LAST_MONTH |-> 0]
  /\ sheets = [m \in 1..LAST_MONTH |-> NoSheet]

\* The sum of worked_hours of the months before.
WorkedBefore(m) ==
  LET of(i) == IF i < m THEN recorded[i] ELSE 0
  IN  of(1) + of(2) + of(3) + of(4) + of(5) + of(6) + of(7) + of(8) + of(9) + of(10)

\* The sheet of any month, at any time, and as often as it is asked for.
PrintSheet(m) ==
  /\ sheets' = [sheets EXCEPT ![m] =
       [session |-> session, seen |-> WorkedBefore(m),
        rows |-> MonthlyRows(plan, allocated, WorkedBefore(m), m, session)]]
  /\ UNCHANGED <<plan, allocated, session, recorded>>

\* The hours of a month, created, changed while they are a draft, or deleted
\* with 0; only their upper bound is checked.
RecordHours(m, hours) ==
  /\ hours <= CHECK_MAX_HOURS
  /\ recorded' = [recorded EXCEPT ![m] = hours]
  /\ UNCHANGED <<plan, allocated, session, sheets>>

\* The hours of all rows of the sheet of a month.
AskedFor(m) == sheets[m].rows * sheets[m].session * TENTHS

ChangeSession(s) ==
  /\ session' = s
  /\ UNCHANGED <<plan, allocated, recorded, sheets>>

Next ==
  \/ \E m \in Months :
       \/ PrintSheet(m)
       \/ \E hours \in Hours : RecordHours(m, hours)
       \/ sheets[m] # NoSheet /\ RecordHours(m, AskedFor(m))
  \/ \E s \in SessionLengths : ChangeSession(s)

Spec == Init /\ [][Next]_vars
-----------------------------------------------------------------------------
(* Properties.                                                             *)

\* Hours on record fit their table, and no sheet has fewer than no rows.
TypeOK ==
  /\ plan \in Plans /\ allocated \in Allocations /\ session \in SessionLengths
  /\ recorded \in [1..LAST_MONTH -> {h \in Int : h <= CHECK_MAX_HOURS}]
  /\ sheets \in [1..LAST_MONTH -> Sheet \union {NoSheet}]

\* The senior worked no more of the month than its sheet asked for, and what is
\* on record of the months before was so when the sheet was printed.
WorkedAsSeen(m) ==
  /\ sheets[m] # NoSheet
  /\ WorkedBefore(m) <= sheets[m].seen
  /\ recorded[m] > 0 /\ recorded[m] <= AskedFor(m)

\* The rows rounded up month by month do not add up: a sheet from July on does
\* not lead a public senior past the yearly allocation by a session, if it was
\* printed when the months before were on record.  A sheet that is read ahead
\* of them may: it asks for their hours once more.
OvershootIsLessThanASession ==
  plan.kind = "public_benefit" =>
    \A m \in ADJUSTMENT_START_MONTH..LAST_MONTH :
      WorkedAsSeen(m) =>
        WorkedBefore(m) + recorded[m] < (allocated + sheets[m].session) * TENTHS

\* When the sheet of November is below its limit and is worked in full, the
\* hours of the year are reached, whatever months fell short before, in whatever
\* order their hours came on record, and unless some are taken back afterwards.
YearIsFilled ==
  plan.kind = "public_benefit" /\ sheets[LAST_MONTH] # NoSheet =>
    LET sheet == sheets[LAST_MONTH]
    IN  /\ sheet.rows < AllowedRows(plan, LAST_MONTH)
        /\ WorkedBefore(LAST_MONTH) >= sheet.seen
        /\ recorded[LAST_MONTH] >= AskedFor(LAST_MONTH)
        => WorkedBefore(LAST_MONTH) + recorded[LAST_MONTH] >= allocated * TENTHS

\* README.md:46, "점진 조정(7월~)", gradual from July on: the sheet of a month has
\* at most one row more than that of the month before, if it was printed when
\* all that the other had seen, and all that it asked for, was on record.
RowsRiseByOne ==
  plan.kind = "public_benefit" =>
    \A m \in 1..(LAST_MONTH - 1) :
      /\ sheets[m] # NoSheet /\ sheets[m + 1] # NoSheet
      /\ sheets[m + 1].session = sheets[m].session
      /\ sheets[m + 1].seen >= sheets[m].seen + AskedFor(m)
      => sheets[m + 1].rows <= sheets[m].rows + 1

\* What a feasibility suggests reaches the target, within the limit; a target
\* that no suggestion of longer sessions reaches is called unavoidable.
SuggestionsReachTheTarget ==
  \A max \in SessionMaxs, days \in WorkingDays :
    LET f == Feasibility(session, days, allocated, max)
    IN  /\ \A d \in f.days : d * Smaller(session, max) >= allocated /\ d > days
        /\ \A h \in f.hours : h * days >= allocated /\ h <= max /\ h > Smaller(session, max)
        /\ f.feasible \/ f.hours # {} \/ f.unavoidable
=============================================================================
