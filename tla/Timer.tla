------------------------------- MODULE Timer -------------------------------
(***************************************************************************)
(* The deadline of a call of ddwaf_run (clock.hpp, clock.cpp).  The clock  *)
(* is read once every Period questions only; a reading may fail, and is    *)
(* then 0.  A time is a signed count of nanoseconds of limited width.      *)
(***************************************************************************)
EXTENDS Integers

CONSTANTS
    Half,         \* times are in -Half..Half-1: 2^63
    Scale,        \* nanoseconds in a microsecond: 1000
    Period,       \* syscall_period_: 16
    Timeouts,     \* the budgets given to ddwaf_run, in microseconds
    MaxNow,       \* bound on the clock
    MaxFailures   \* bound on the failed readings of one timer

ASSUME WidthAssumption == Half \in Nat \ {0} /\ MaxNow \in 0..Half-1
ASSUME ScaleAssumption == Scale \in Nat \ {0}
ASSUME PeriodAssumption == Period \in Nat \ {0}
ASSUME TimeoutsAssumption == Timeouts \subseteq 0..2*Half-1
ASSUME FailuresAssumption == MaxFailures \in Nat

VARIABLES
    now,        \* CLOCK_MONOTONIC
    running,    \* whether there is a timer
    timeout,    \* the budget it was made for
    began,      \* when it was made
    start,      \* start_
    end,        \* end_
    calls,      \* calls_
    expired,    \* expired_
    late,       \* history: the questions answered "no" after the deadline
    failures,   \* history: the failed readings of this timer
    report      \* total_runtime and timeout of the last result

vars == <<now, running, timeout, began, start, end, calls, expired, late, failures, report>>
timer == <<timeout, began, start, end>>

Width == 2 * Half
Signed(x) == IF x \in -Half..Half-1 THEN x ELSE ((x + Half) % Width) - Half
Unsigned(x) == x % Width
\* Mutant: the budget is taken for nanoseconds.
Deadline_Unscaled(from, budget) == Signed(from + Signed(budget))

Deadline(from, budget) == Signed(from + Signed(Scale * Signed(budget)))

Time == -Half..Half-1

TypeOK ==
    /\ now \in 0..MaxNow /\ running \in BOOLEAN
    /\ timeout \in Timeouts \cup {0}
    /\ began \in 0..MaxNow /\ start \in 0..MaxNow /\ end \in Time
    /\ calls \in Nat
    /\ expired \in BOOLEAN
    /\ late \in Nat /\ failures \in 0..MaxFailures
    /\ report \in [timeout : BOOLEAN, runtime : 0..Width-1]

Init ==
    /\ now \in 0..MaxNow
    /\ running = FALSE
    /\ timeout = 0 /\ began = 0 /\ start = 0 /\ end = 0
    /\ calls = 1 /\ expired = FALSE /\ late = 0 /\ failures = 0
    /\ report = [timeout |-> FALSE, runtime |-> 0]

(* monotonic_clock::now: what a reading gives, and what it adds to failures. *)
Reading == {[time |-> now, failed |-> 0], [time |-> 0, failed |-> 1]}

Construct(budget) ==
    /\ ~running
    /\ running' = TRUE /\ timeout' = budget /\ began' = now
    /\ \E reading \in Reading :
          /\ reading.failed <= MaxFailures
          /\ start' = reading.time
          /\ end' = Deadline(reading.time, budget)
          /\ failures' = reading.failed
    /\ calls' = 1 /\ expired' = FALSE /\ late' = 0
    /\ UNCHANGED <<now, report>>

No == late' = IF end <= now THEN late + 1 ELSE 0

(* expired(): what each branch leaves. *)
AlreadyExpired ==
    /\ running /\ expired
    /\ UNCHANGED vars

Unread ==
    /\ running /\ ~expired /\ calls # 1
    /\ calls' = calls - 1 /\ No
    /\ UNCHANGED <<now, running, timer, expired, failures, report>>

\* Mutant: one question more before the clock is read again.
Read_OneMore ==
    /\ running /\ ~expired /\ calls = 1
    /\ \E reading \in Reading :
          /\ failures + reading.failed <= MaxFailures
          /\ failures' = failures + reading.failed
          /\ IF end <= reading.time
             THEN expired' = TRUE /\ calls' = 0 /\ UNCHANGED late
             ELSE expired' = FALSE /\ calls' = Period + 1 /\ No
    /\ UNCHANGED <<now, running, timer, report>>

Read ==
    /\ running /\ ~expired /\ calls = 1
    /\ \E reading \in Reading :
          /\ failures + reading.failed <= MaxFailures
          /\ failures' = failures + reading.failed
          /\ IF end <= reading.time
             THEN expired' = TRUE /\ calls' = 0 /\ UNCHANGED late
             ELSE expired' = FALSE /\ calls' = Period /\ No
    /\ UNCHANGED <<now, running, timer, report>>

(* The result: elapsed() and expired_before(); the timer ends with the call. *)

\* Mutant: the time is counted from the deadline.
Report_SinceDeadline ==
    /\ running
    /\ \E reading \in Reading :
          /\ failures + reading.failed <= MaxFailures
          /\ failures' = failures + reading.failed
          /\ report' = [timeout |-> expired, runtime |-> Unsigned(reading.time - end)]
    /\ running' = FALSE
    /\ UNCHANGED <<now, timer, calls, expired, late>>

Report ==
    /\ running
    /\ \E reading \in Reading :
          /\ failures + reading.failed <= MaxFailures
          /\ failures' = failures + reading.failed
          /\ report' = [timeout |-> expired, runtime |-> Unsigned(reading.time - start)]
    /\ running' = FALSE
    /\ UNCHANGED <<now, timer, calls, expired, late>>

Tick ==
    /\ now < MaxNow
    /\ now' = now + 1
    /\ UNCHANGED <<running, timer, calls, expired, late, failures, report>>

Next ==
    \/ \E budget \in Timeouts : Construct(budget)
    \/ AlreadyExpired \/ Unread \/ Read \/ Report \/ Tick

Spec == Init /\ [][Next]_vars

-----------------------------------------------------------------------------
Spent == began + Scale * timeout <= now

(* The budget and the deadline are in the range of the clock. *)
Fits == began + Scale * timeout < Half

(* A timer that could read the clock when it was made never expires before  *)
(* its budget is spent, although it counts questions and not time           *)
(* (timer::expired; tests TestTimer.Basic and ValidatePeriod).              *)
NeverEarly == running /\ expired /\ start = began /\ Fits => Spent

(* The clock is read only every Period questions: still, after the deadline *)
(* the answer is "no" fewer than Period times, and Period times more for    *)
(* each reading that fails (test TestTimer.ValidatePeriod).                 *)
NoticedInTime == running /\ ~expired => late < Period * (1 + failures)

(* A result that says there was a timeout also says a run time of at least  *)
(* the budget: total_runtime and timeout come from two readings             *)
(* (context::run).                                                          *)
ReportsAgree ==
    ~running /\ report.timeout /\ failures = 0 /\ Fits => report.runtime >= Scale * timeout

(* "Maximum time budget in microseconds": whatever the budget, a call has   *)
(* no timeout before it is spent (include/ddwaf.h:293).                     *)
BudgetRespected == running /\ expired /\ start = began => Spent
=============================================================================
