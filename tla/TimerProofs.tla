---------------------------- MODULE TimerProofs ----------------------------
(***************************************************************************)
(* A timer for any width of the clock, any period and any budgets.         *)
(***************************************************************************)
EXTENDS Timer, TLAPS

USE WidthAssumption, ScaleAssumption, PeriodAssumption, TimeoutsAssumption, FailuresAssumption

LEMMA ModuloRange ==
    ASSUME NEW x \in Int, NEW w \in Nat \ {0}
    PROVE  x % w \in 0..w-1
OBVIOUS

LEMMA ModuloSmall ==
    ASSUME NEW w \in Nat \ {0}, NEW x \in 0..w-1
    PROVE  x % w = x
OBVIOUS

LEMMA SignedRange ==
    ASSUME NEW x \in Int
    PROVE  /\ Signed(x) \in Time
           /\ x \in Time => Signed(x) = x
<1>1. Width \in Nat \ {0}
  BY DEF Width
<1>2. (x + Half) % Width \in 0..Width-1
  BY <1>1, ModuloRange
<1> QED
  BY <1>2 DEF Signed, Time, Width

LEMMA UnsignedRange ==
    ASSUME NEW x \in Int
    PROVE  /\ Unsigned(x) \in 0..Width-1
           /\ x \in 0..Half-1 => Unsigned(x) = x
<1>1. Width \in Nat \ {0} /\ Half - 1 <= Width - 1
  BY DEF Width
<1> QED
  BY <1>1, ModuloRange, ModuloSmall DEF Unsigned

LEMMA ScaledBudget ==
    ASSUME NEW budget \in Nat
    PROVE  Scale * budget \in Nat /\ budget <= Scale * budget
OBVIOUS

\* A budget and a start the width allows have the deadline one expects.
LEMMA DeadlineFits ==
    ASSUME NEW from \in 0..MaxNow, NEW budget \in Timeouts \cup {0}
    PROVE  /\ Deadline(from, budget) \in Time
           /\ from + Scale * budget < Half => Deadline(from, budget) = from + Scale * budget
<1>1. budget \in Nat /\ from \in Nat
  OBVIOUS
<1>2. Signed(budget) \in Int /\ Scale * Signed(budget) \in Int
  BY <1>1, SignedRange DEF Time
<1>3. Signed(Scale * Signed(budget)) \in Int
  BY <1>2, SignedRange DEF Time
<1>4. Deadline(from, budget) \in Time
  BY <1>1, <1>3, SignedRange DEF Deadline
<1>5. ASSUME from + Scale * budget < Half
      PROVE  Deadline(from, budget) = from + Scale * budget
  <2>1. Scale * budget \in Nat /\ budget <= Scale * budget
    BY <1>1, ScaledBudget
  <2>2. budget \in Time /\ Scale * budget \in Time /\ from + Scale * budget \in Time
    BY <1>1, <1>5, <2>1 DEF Time
  <2> QED
    BY <1>1, <2>1, <2>2, SignedRange DEF Deadline
<1> QED
  BY <1>4, <1>5

-----------------------------------------------------------------------------
(***************************************************************************)
(* The inductive invariant.  TypeOK is not inductive by itself: calls_     *)
(* stays a natural number because it is read before it reaches 0.          *)
(***************************************************************************)

Counts == ~expired => calls >= 1 /\ (running => late + calls <= Period * (1 + failures))

Deadlines ==
    /\ began <= now
    /\ running => end = Deadline(start, timeout)
    /\ running /\ failures = 0 => start = began

TimerInv == TypeOK /\ Counts /\ Deadlines /\ NeverEarly /\ ReportsAgree

LEMMA ReadingType ==
    ASSUME TypeOK, NEW reading \in Reading
    PROVE  /\ reading.time \in 0..MaxNow /\ reading.failed \in {0, 1}
           /\ reading.time <= now
           /\ reading.failed = 0 => reading.time = now
BY DEF Reading, TypeOK

LEMMA MorePeriods ==
    ASSUME NEW n \in Nat
    PROVE  /\ Period * (1 + n) \in Nat
           /\ Period <= Period * (1 + n)
           /\ Period * (1 + (n + 1)) = Period * (1 + n) + Period
OBVIOUS

LEMMA OneMorePeriod ==
    ASSUME NEW l \in Nat, NEW m \in Nat, NEW x \in Nat, l <= m + 1, m + 1 <= x
    PROVE  l + Period <= x + Period
OBVIOUS

\* What a deadline that is over says of the budget.
LEMMA OverIsSpent ==
    ASSUME TypeOK, Deadlines, running, start = began, Fits, end <= now
    PROVE  Spent
<1>1. start \in 0..MaxNow /\ timeout \in Timeouts \cup {0} /\ end = Deadline(start, timeout)
  BY DEF TypeOK, Deadlines
<1> QED
  BY <1>1, DeadlineFits DEF Fits, Spent

LEMMA ConstructInv ==
    ASSUME TimerInv, NEW budget \in Timeouts, Construct(budget) PROVE TimerInv'
<1> USE DEF TimerInv, TypeOK
<1>1. PICK reading \in Reading :
         /\ reading.failed <= MaxFailures
         /\ start' = reading.time
         /\ end' = Deadline(reading.time, budget)
         /\ failures' = reading.failed
  BY DEF Construct
<1>2. /\ reading.time \in 0..MaxNow /\ reading.failed \in {0, 1}
      /\ reading.failed = 0 => reading.time = now
  BY ReadingType
<1>3. TypeOK'
  <2>1. end' \in Time
    BY <1>1, <1>2, DeadlineFits
  <2>2. /\ now' \in 0..MaxNow /\ timeout' \in Timeouts \cup {0}
        /\ began' \in 0..MaxNow /\ start' \in 0..MaxNow
        /\ calls' \in Nat /\ late' \in Nat /\ failures' \in 0..MaxFailures
    BY <1>1, <1>2 DEF Construct
  <2>3. running' \in BOOLEAN /\ expired' \in BOOLEAN
        /\ report' \in [timeout : BOOLEAN, runtime : 0..Width-1]
    BY Zenon DEF Construct
  <2> QED
    BY <2>1, <2>2, <2>3
<1>4. Counts'
  BY <1>1, <1>2, MorePeriods DEF Construct, Counts
<1>5. Deadlines'
  BY <1>1, <1>2 DEF Construct, Deadlines
<1> QED
  BY <1>3, <1>4, <1>5 DEF Construct, NeverEarly, ReportsAgree

LEMMA UnreadInv == TimerInv /\ Unread => TimerInv'
<1> SUFFICES ASSUME TimerInv, Unread PROVE TimerInv'
  OBVIOUS
<1> USE DEF TimerInv, TypeOK
<1>1. calls > 1 /\ calls' \in Nat
  BY DEF Unread, Counts
<1>2. Period * (1 + failures) \in Nat
  BY MorePeriods
<1>3. TypeOK'
  BY <1>1 DEF Unread, No, timer
<1>4. Counts'
  BY <1>1, <1>2, MorePeriods DEF Unread, No, Counts
<1>5. Deadlines' /\ NeverEarly' /\ ReportsAgree'
  BY DEF Unread, timer, Deadlines, NeverEarly, ReportsAgree, Fits, Spent
<1> QED
  BY <1>3, <1>4, <1>5

LEMMA ReadInv == TimerInv /\ Read => TimerInv'
<1> SUFFICES ASSUME TimerInv, Read PROVE TimerInv'
  OBVIOUS
<1> USE DEF TimerInv, TypeOK
<1>1. PICK reading \in Reading :
         /\ failures + reading.failed <= MaxFailures
         /\ failures' = failures + reading.failed
         /\ IF end <= reading.time
            THEN expired' = TRUE /\ calls' = 0 /\ UNCHANGED late
            ELSE expired' = FALSE /\ calls' = Period /\ No
  BY DEF Read
<1>2. /\ reading.time \in 0..MaxNow /\ reading.failed \in {0, 1}
      /\ reading.time <= now
      /\ reading.failed = 0 => reading.time = now
  BY ReadingType
<1>3. TypeOK'
  <2>1. /\ now' \in 0..MaxNow /\ timeout' \in Timeouts \cup {0}
        /\ began' \in 0..MaxNow /\ start' \in 0..MaxNow /\ end' \in Time
        /\ running' \in BOOLEAN /\ report' \in [timeout : BOOLEAN, runtime : 0..Width-1]
    BY Zenon DEF Read, timer
  <2>2. calls' \in Nat /\ late' \in Nat /\ failures' \in 0..MaxFailures
    BY <1>1, <1>2 DEF No
  <2>3. expired' \in BOOLEAN
    BY <1>1, Zenon
  <2> QED
    BY <2>1, <2>2, <2>3
<1>4. Counts'
  <2>1. CASE end <= reading.time
    BY <1>1, <2>1 DEF Counts
  <2>2. CASE ~(end <= reading.time) /\ reading.failed = 0
    <3>1. calls' = Period /\ late' = 0 /\ failures' = failures
      BY <1>1, <1>2, <2>2 DEF No, Time
    <3> QED
      BY <3>1, MorePeriods DEF Counts
  <2>3. CASE ~(end <= reading.time) /\ reading.failed = 1
    <3>1. calls' = Period /\ late' <= late + 1 /\ failures' = failures + 1
      BY <1>1, <1>2, <2>3 DEF No
    <3>2. late + 1 <= Period * (1 + failures)
      BY DEF Counts, Read
    <3>3. late' \in Nat /\ Period * (1 + failures) \in Nat
      BY <1>3, MorePeriods
    <3>4. Period * (1 + failures') = Period * (1 + failures) + Period
      BY <3>1, MorePeriods
    <3>5. late' + calls' <= Period * (1 + failures')
      BY <3>1, <3>2, <3>3, <3>4, OneMorePeriod
    <3> QED
      BY <3>1, <3>5 DEF Counts
  <2> QED
    BY <1>2, <2>1, <2>2, <2>3
<1>5. Deadlines'
  BY <1>1, <1>2 DEF Read, timer, Deadlines
<1>6. NeverEarly'
  <2>1. ASSUME expired', start' = began', Fits' PROVE Spent'
    <3>1. end <= now
      BY <1>1, <1>2, <2>1 DEF Time
    <3>2. running /\ start = began /\ Fits
      BY <2>1 DEF Read, timer, Fits
    <3> QED
      BY <3>1, <3>2, OverIsSpent DEF Read, timer, Spent
  <2> QED
    BY <2>1 DEF NeverEarly
<1>7. ReportsAgree'
  BY DEF Read, ReportsAgree
<1> QED
  BY <1>3, <1>4, <1>5, <1>6, <1>7

LEMMA ReportInv == TimerInv /\ Report => TimerInv'
<1> SUFFICES ASSUME TimerInv, Report PROVE TimerInv'
  OBVIOUS
<1> USE DEF TimerInv, TypeOK
<1>1. PICK reading \in Reading :
         /\ failures + reading.failed <= MaxFailures
         /\ failures' = failures + reading.failed
         /\ report' = [timeout |-> expired, runtime |-> Unsigned(reading.time - start)]
  BY DEF Report
<1>2. /\ reading.time \in 0..MaxNow /\ reading.failed \in {0, 1}
      /\ reading.failed = 0 => reading.time = now
  BY ReadingType
<1>3. reading.time - start \in Int
  BY <1>2
<1>4. TypeOK'
  <2>1. /\ now' \in 0..MaxNow /\ timeout' \in Timeouts \cup {0}
        /\ began' \in 0..MaxNow /\ start' \in 0..MaxNow /\ end' \in Time
        /\ running' \in BOOLEAN /\ expired' \in BOOLEAN
        /\ calls' \in Nat /\ late' \in Nat
    BY Zenon DEF Report, timer
  <2>2. failures' \in 0..MaxFailures
    BY <1>1, <1>2
  <2>3. Unsigned(reading.time - start) \in 0..Width-1
    BY <1>3, UnsignedRange
  <2>4. report' \in [timeout : BOOLEAN, runtime : 0..Width-1]
    BY <1>1, <2>3
  <2> QED
    BY <2>1, <2>2, <2>4
<1>5. Counts' /\ Deadlines' /\ NeverEarly'
  BY DEF Report, timer, Counts, Deadlines, NeverEarly
<1>6. ReportsAgree'
  <2>1. ASSUME report'.timeout, failures' = 0, Fits' PROVE report'.runtime >= Scale * timeout'
    <3>1. failures = 0 /\ reading.time = now /\ start = began
      BY <1>1, <1>2, <2>1 DEF Report, Deadlines
    <3>2. expired /\ running /\ Fits
      BY <1>1, <2>1 DEF Report, timer, Fits
    <3>3. Spent
      BY <3>1, <3>2 DEF NeverEarly
    <3>4. now - began \in 0..Half-1
      BY DEF Deadlines
    <3>5. report'.runtime = now - began
      BY <1>1, <1>3, <3>1, <3>4, UnsignedRange
    <3>6. timeout' = timeout /\ timeout \in Nat /\ Scale * timeout \in Nat
      BY ScaledBudget DEF Report, timer
    <3> QED
      BY <3>3, <3>5, <3>6 DEF Spent
  <2> QED
    BY <2>1 DEF ReportsAgree
<1> QED
  BY <1>4, <1>5, <1>6

LEMMA TickInv == TimerInv /\ Tick => TimerInv'
<1> SUFFICES ASSUME TimerInv, Tick PROVE TimerInv'
  OBVIOUS
<1> USE DEF TimerInv, TypeOK
<1>1. TypeOK' /\ Counts' /\ Deadlines' /\ ReportsAgree'
  BY DEF Tick, timer, Counts, Deadlines, ReportsAgree, Fits
<1>2. NeverEarly'
  <2>1. Spent => Spent'
    <3>1. timeout \in Nat
      OBVIOUS
    <3> QED
      BY <3>1, ScaledBudget DEF Spent, Tick, timer
  <2> QED
    BY <2>1 DEF Tick, timer, NeverEarly, Fits
<1> QED
  BY <1>1, <1>2

LEMMA TimerInvCorrect == Spec => []TimerInv
<1>1. Init => TimerInv
  <2>1. 0 \in 0..MaxNow /\ 0 \in Time /\ 0 \in 0..Width-1
    BY DEF Time, Width
  <2> SUFFICES ASSUME Init PROVE TimerInv
    OBVIOUS
  <2>2. TypeOK
    <3>1. report \in [timeout : BOOLEAN, runtime : 0..Width-1]
      BY <2>1 DEF Init
    <3>2. running \in BOOLEAN /\ expired \in BOOLEAN
      BY DEF Init
    <3> QED
      BY <2>1, <3>1, <3>2 DEF Init, TypeOK
  <2>3. Counts /\ Deadlines /\ NeverEarly /\ ReportsAgree
    BY <2>1 DEF Init, Counts, Deadlines, NeverEarly, ReportsAgree
  <2> QED
    BY <2>2, <2>3 DEF TimerInv
<1>2. TimerInv /\ [Next]_vars => TimerInv'
  <2> SUFFICES ASSUME TimerInv, [Next]_vars PROVE TimerInv'
    OBVIOUS
  <2>1. CASE \E budget \in Timeouts : Construct(budget)
    BY <2>1, ConstructInv
  <2>2. CASE Unread \/ Read \/ Report \/ Tick
    BY <2>2, UnreadInv, ReadInv, ReportInv, TickInv
  <2>3. CASE AlreadyExpired \/ UNCHANGED vars
    BY <2>3 DEF AlreadyExpired, vars, TimerInv, TypeOK, Counts, Deadlines, NeverEarly,
                ReportsAgree, Fits, Spent
  <2> QED
    BY <2>1, <2>2, <2>3 DEF Next
<1> QED
  BY <1>1, <1>2, PTL DEF Spec

-----------------------------------------------------------------------------
\* Every variable of a timer keeps its type: the deadline of any budget is in
\* the range of the clock, also when it wraps, and calls_ never passes below 0.
THEOREM TimerTypeCorrect == Spec => []TypeOK
<1>1. TimerInv => TypeOK
  BY DEF TimerInv
<1> QED
  BY <1>1, TimerInvCorrect, PTL

\* A timer whose budget fits the clock never expires before it is spent.
THEOREM NeverEarlyCorrect == Spec => []NeverEarly
<1>1. TimerInv => NeverEarly
  BY DEF TimerInv
<1> QED
  BY <1>1, TimerInvCorrect, PTL

\* After the deadline the answer is "no" fewer than Period times, and Period
\* times more for each reading of the clock that fails.
THEOREM NoticedInTimeCorrect == Spec => []NoticedInTime
<1>1. TimerInv => NoticedInTime
  <2> SUFFICES ASSUME TimerInv, running, ~expired PROVE late < Period * (1 + failures)
    BY DEF NoticedInTime
  <2>1. late \in Nat /\ calls \in Nat /\ failures \in Nat
    BY DEF TimerInv, TypeOK
  <2>2. Period * (1 + failures) \in Nat
    BY <2>1, MorePeriods
  <2> QED
    BY <2>1, <2>2 DEF TimerInv, Counts
<1> QED
  BY <1>1, TimerInvCorrect, PTL

\* A result that says there was a timeout also says a run time of at least the
\* budget, when no reading of the clock has failed.
THEOREM ReportsAgreeCorrect == Spec => []ReportsAgree
<1>1. TimerInv => ReportsAgree
  BY DEF TimerInv
<1> QED
  BY <1>1, TimerInvCorrect, PTL
=============================================================================
