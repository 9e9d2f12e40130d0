-------------------------- MODULE ExecutionBudget --------------------------
(***************************************************************************)
(* core/execution-budget.ts: a request shares one deadline and one abort     *)
(* signal.  Callers dispatch attempts with run and wait between them with    *)
(* backoff, whose long delays are cut into timers of at most MaxTimer.       *)
(* The clock and the timers are external: a timer fires at its time or       *)
(* later.                                                                   *)
(***************************************************************************)
EXTENDS Integers

CONSTANTS Callers,
          HasDeadline,   \* FALSE: deadline is undefined
          Deadline,      \* absolute time
          Delays,        \* milliseconds passed to backoff
          MaxTimer,      \* 2147483647 in the code
          MaxClock,      \* bound on the clock
          MaxAttempts    \* bound on the attempts of a caller

BudgetAssumption ==
    /\ Deadline \in Nat /\ Delays \subseteq Nat /\ MaxTimer \in Nat \ {0}
    /\ MaxClock \in Nat /\ MaxAttempts \in Nat /\ HasDeadline \in BOOLEAN

VARIABLES clock, aborted, caller

vars == <<clock, aborted, caller>>

Ready == [st |-> "ready", left |-> 0, due |-> 0, until |-> 0, attempts |-> 0, why |-> "none"]

Init == /\ clock = 0 /\ aborted = FALSE
        /\ caller = [c \in Callers |-> Ready]

Expired == HasDeadline /\ clock >= Deadline
Remaining == Deadline - clock

(* activeState: the reason it throws, the signal first.                     *)
Inactive == aborted \/ Expired
Reason == IF aborted THEN "aborted" ELSE "deadline"

Set(c, r) == caller' = [caller EXCEPT ![c] = r] /\ UNCHANGED <<clock, aborted>>

Ended(c, why) == [caller[c] EXCEPT !.st = "refused", !.why = why, !.left = 0, !.due = 0]

(* run: the check and the dispatch are one synchronous step; the operation   *)
(* then ends whenever it ends.                                              *)
Run(c) == /\ caller[c].st = "ready" /\ caller[c].attempts < MaxAttempts
          /\ ~Inactive
          /\ Set(c, [caller[c] EXCEPT !.st = "running", !.attempts = @ + 1])

RunRefused(c) == /\ caller[c].st = "ready" /\ Inactive
                 /\ Set(c, Ended(c, Reason))

Succeed(c) == caller[c].st = "running" /\ Set(c, [caller[c] EXCEPT !.st = "done"])
Fail(c) == caller[c].st = "running" /\ Set(c, [caller[c] EXCEPT !.st = "failed"])

Fits(ms) == HasDeadline => ms < Remaining

WholeTimer(left) == left
Timer(left) == IF left < MaxTimer THEN left ELSE MaxTimer

(* setTimeout: a delay beyond the signed 32-bit range fires at once.         *)
FiresAt(delay) == IF delay > MaxTimer THEN clock ELSE clock + delay

(* backoff: refused when the full delay does not end before the deadline;    *)
(* the first tick arms the first timer.                                     *)
Backoff(c, ms) ==
    /\ caller[c].st = "failed" /\ ~Inactive /\ Fits(ms)
    /\ Set(c, IF ms = 0 THEN [caller[c] EXCEPT !.st = "ready", !.until = clock]
              ELSE [caller[c] EXCEPT !.st = "waiting", !.until = clock + ms,
                        !.left = ms - Timer(ms), !.due = FiresAt(Timer(ms))])

BackoffRefused(c, ms) ==
    /\ caller[c].st = "failed" /\ (Inactive \/ ~Fits(ms))
    /\ Set(c, Ended(c, IF aborted THEN "aborted" ELSE "deadline"))

WaitedOut(c) == caller[c].left = 0

(* tick, when the timer fires.                                              *)
TimerFires(c) ==
    /\ caller[c].st = "waiting" /\ clock >= caller[c].due
    /\ Set(c, IF Inactive THEN Ended(c, Reason)
              ELSE IF WaitedOut(c) THEN [caller[c] EXCEPT !.st = "ready", !.due = 0]
              ELSE [caller[c] EXCEPT !.left = @ - Timer(@), !.due = FiresAt(Timer(caller[c].left))])

NobodyListens == {}
Listening == {c \in Callers : caller[c].st = "waiting"}

(* The abort event runs the listeners of all waiting calls at once.         *)
Abort == /\ ~aborted /\ aborted' = TRUE
         /\ caller' = [c \in Callers |-> IF c \in Listening THEN Ended(c, "aborted") ELSE caller[c]]
         /\ UNCHANGED clock

Tick == clock < MaxClock /\ clock' = clock + 1 /\ UNCHANGED <<aborted, caller>>

Next == \/ Tick \/ Abort
        \/ \E c \in Callers : \/ Run(c) \/ RunRefused(c) \/ Succeed(c) \/ Fail(c) \/ TimerFires(c)
                              \/ \E ms \in Delays : Backoff(c, ms) \/ BackoffRefused(c, ms)

Spec == Init /\ [][Next]_vars

-----------------------------------------------------------------------------
(* A wait that ends well has lasted its full delay and leaves time: no       *)
(* attempt is dispatched early, at or after the deadline, or after an abort *)
(* (backoff, run).                                                          *)
AttemptsInsideBudget ==
    \A c \in Callers : caller[c].st = "ready" /\ caller'[c].st = "running" =>
      /\ clock >= caller[c].until /\ ~aborted
      /\ HasDeadline => clock < Deadline

(* A wait is refused for the deadline only if the delay would reach it, or   *)
(* timers fired late: the last attempt that fits is not dropped (backoff     *)
(* compares with >=), and a wait whose delay does not fit never starts.     *)
LastAttemptKept ==
    \A c \in Callers :
      /\ caller[c].st = "failed" /\ caller'[c].st = "refused" /\ ~aborted /\ HasDeadline
           => \E ms \in Delays : clock + ms >= Deadline
      /\ caller[c].st = "failed" /\ caller'[c].st = "waiting" /\ HasDeadline
           => caller'[c].until < Deadline

(* Once aborted nobody keeps waiting: the listener ends the wait without     *)
(* another timer (abort removes its listener and clears the timer).         *)
AbortWakesAll == aborted => \A c \in Callers : caller[c].st # "waiting"
=============================================================================
