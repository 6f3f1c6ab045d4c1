------------------------------ MODULE MonoTime ------------------------------
(***************************************************************************)
(* The monotonic clock that every finite wait of the stack is built on:    *)
(* common/time.c, the SysTick counter of mcu/cortex_m/time.c behind it and *)
(* das_time_init of the board.                                             *)
(*                                                                         *)
(* One task waits; any other waiter only reads the same clock.  A second   *)
(* context installs the source, and SysTick interrupts both.  Every call   *)
(* of das_time_now_ms reads the source first and its context afterwards.   *)
(***************************************************************************)
EXTENDS Naturals

CONSTANTS
  Half,     \* half the range of a timestamp (2^31 on the device)
  Gap       \* bound: milliseconds counted between two polls of a wait

ASSUME HalfAssumption == Half \in Nat \ {0}
ASSUME GapAssumption == Gap \in Nat

Range     == 2 * Half
Stamps    == 0 .. Range - 1
Intervals == 0 .. Half - 1                 \* up to DAS_TIME_MAX_INTERVAL_MS
Sources   == {"systick", "external"}
Kinds     == {"interval", "deadline", "delay"}

VARIABLES
  ticking,            \* SysTick is enabled
  pend,               \* its exception is pending
  counter,            \* g_systick_ms
  source, context,    \* g_time_source, and whose context the other word holds
  installing, step,   \* the source das_time_set_source installs, and its step
  pc, fetched,        \* the waiting task, and the source it is about to call
  kind, span, mark,   \* its wait: helper, milliseconds, start or deadline
  ret,                \* what the task's last step told it
  since, real,        \* history: milliseconds counted, and passed, since mark
                      \*   was taken; both stop at Range
  unpolled            \* history: milliseconds counted since the last poll

clock   == <<ticking, pend, counter>>
install == <<source, context, installing, step>>
wait    == <<pc, fetched, kind, span, mark>>
hist    == <<since, real, unpolled>>
vars    == <<clock, install, wait, ret, hist>>

\* The uint32_t arithmetic of timestamps.
AddUnwrapped(a, b) == a + b
Add(a, b) == IF a + b < Range THEN a + b ELSE a + b - Range
SubSaturated(a, b) == IF a >= b THEN a - b ELSE 0
Sub(a, b) == IF a >= b THEN a - b ELSE a + Range - b

\* A source of the application runs some milliseconds ahead of the counter.
Ahead == 1
Value(s) == IF s = "systick" THEN counter ELSE Add(counter, Ahead)

Waiting == pc \in {"waiting", "poll"}

Init ==
  /\ ticking = FALSE /\ pend = FALSE /\ counter = 0
  /\ source = "none" /\ context = "none" /\ installing = "none" /\ step = "none"
  /\ pc = "idle" /\ fetched = "none"
  /\ kind = "interval" /\ span = 0 /\ mark = 0
  /\ ret = "none"
  /\ since = 0 /\ real = 0 /\ unpolled = 0

-----------------------------------------------------------------------------
(* SysTick. *)

UpTo(n) == IF n < Range THEN n + 1 ELSE Range

\* A millisecond passes.  If the last one is still pending, it is lost.
Passes ==
  /\ ticking
  /\ pend' = TRUE /\ ret' = "none"
  /\ real' = IF Waiting THEN UpTo(real) ELSE real
  /\ UNCHANGED <<ticking, counter, install, wait, since, unpolled>>

\* das_cortex_m_systick_hook.
Hook ==
  /\ pend
  /\ (Waiting => unpolled < Gap)
  /\ pend' = FALSE /\ counter' = Add(counter, 1) /\ ret' = "none"
  /\ IF Waiting THEN since' = UpTo(since) /\ unpolled' = unpolled + 1
                ELSE UNCHANGED <<since, unpolled>>
  /\ UNCHANGED <<ticking, install, wait, real>>

-----------------------------------------------------------------------------
(* das_time_set_source and das_time_init. *)

\* das/time.h:38: the pair is replaced while nobody reads the time.  The first
\* source, and the same one again, may come at any moment.
MayInstall(s) == source \in {"none", s} \/ pc = "idle"
MayRead == source \in {"none", installing} \/ installing = "none"

\* The application installs its own source, and runs SysTick for it.
SetSource ==
  /\ installing = "none" /\ MayInstall("external")
  /\ installing' = "external" /\ step' = "context"
  /\ ticking' = TRUE /\ ret' = "none"
  /\ UNCHANGED <<pend, counter, source, context, wait, hist>>

\* das_time_init with a core frequency SysTick can divide: it stops, and starts
\* from a full period.  The counter keeps its value.
TimeInit ==
  /\ installing = "none" /\ MayInstall("systick")
  /\ installing' = "systick" /\ step' = "configure"
  /\ ticking' = FALSE /\ ret' = "none"
  /\ UNCHANGED <<pend, counter, source, context, wait, hist>>

\* Any other frequency is refused before SysTick is touched.
TimeInitRefused ==
  /\ installing = "none"
  /\ ret' = "none"
  /\ UNCHANGED <<clock, install, wait, hist>>

SysTickConfigReset ==
  /\ step = "configure"
  /\ ticking' = TRUE /\ counter' = 0 /\ step' = "context" /\ ret' = "none"
  /\ UNCHANGED <<pend, source, context, installing, wait, hist>>
SysTickConfig ==
  /\ step = "configure"
  /\ ticking' = TRUE /\ step' = "context" /\ ret' = "none"
  /\ UNCHANGED <<pend, counter, source, context, installing, wait, hist>>

SetContextSkipped ==
  /\ step = "context"
  /\ step' = "source" /\ ret' = "none"
  /\ UNCHANGED <<clock, source, context, installing, wait, hist>>
SetContext ==
  /\ step = "context"
  /\ context' = installing /\ step' = "source" /\ ret' = "none"
  /\ UNCHANGED <<clock, source, installing, wait, hist>>

SetFunction ==
  /\ step = "source"
  /\ source' = installing
  /\ installing' = "none" /\ step' = "none" /\ ret' = "none"
  /\ UNCHANGED <<clock, context, wait, hist>>

-----------------------------------------------------------------------------
(* The waits: prepare_wait and das_time_interval_elapsed of the drivers,     *)
(* das_time_deadline_after and das_time_deadline_reached, das_delay_ms.      *)

Answer(result) ==
  /\ ret' = result
  /\ UNCHANGED <<clock, install, wait, hist>>

\* An interval of half the range or more is refused; so is a wait before there
\* is a source, except that a delay of nothing is done already.
Refused ==
  /\ pc = "idle" /\ MayRead
  /\ \/ Answer("INVALID_ARGUMENT")
     \/ Answer("OK")
     \/ source = "none" /\ Answer("NOT_READY")

Begin ==
  /\ pc = "idle" /\ MayRead /\ source # "none"
  /\ kind' \in Kinds /\ span' \in Intervals
  /\ (kind' = "delay" => span' # 0)
  /\ fetched' = source
  /\ pc' = "start" /\ ret' = "none"
  /\ UNCHANGED <<mark, clock, install, hist>>

Start ==
  /\ pc = "start"
  /\ mark' = IF kind = "deadline" THEN Add(Value(fetched), span) ELSE Value(fetched)
  /\ pc' = "waiting" /\ fetched' = "none" /\ ret' = "none"
  /\ since' = 0 /\ real' = 0 /\ unpolled' = 0
  /\ UNCHANGED <<kind, span, clock, install>>

Fetch ==
  /\ pc = "waiting"
  /\ fetched' = source
  /\ pc' = "poll" /\ ret' = "none"
  /\ UNCHANGED <<kind, span, mark, clock, install, hist>>

ReachedStrictly(now) ==
  IF kind = "deadline" THEN Sub(now, mark) < Half ELSE Sub(now, mark) > span
Reached(now) ==
  IF kind = "deadline" THEN Sub(now, mark) < Half ELSE Sub(now, mark) >= span

Poll ==
  /\ pc = "poll"
  /\ IF Reached(Value(fetched))
     THEN pc' = "idle" /\ ret' = "EXPIRED"
     ELSE pc' = "waiting" /\ ret' = "PENDING"
  /\ fetched' = "none" /\ unpolled' = 0
  /\ UNCHANGED <<kind, span, mark, clock, install, since, real>>

\* What the task waited for happens first, or it gives up.
Leave ==
  /\ pc = "waiting" /\ kind # "delay"
  /\ pc' = "idle" /\ ret' = "none"
  /\ UNCHANGED <<fetched, kind, span, mark, clock, install, hist>>

Installing == SysTickConfig \/ SetContext \/ SetFunction
Polling    == Start \/ Fetch \/ Poll

Next ==
  \/ Passes \/ Hook
  \/ SetSource \/ TimeInit \/ TimeInitRefused \/ Installing
  \/ Refused \/ Begin \/ Polling \/ Leave

Spec == Init /\ [][Next]_vars

\* The interrupt is taken and both contexts get the processor; SysTick is not
\* configured so often that no millisecond of it ever ends.
FairSpec ==
  /\ Spec
  /\ SF_vars(Passes) /\ WF_vars(Hook) /\ WF_vars(Installing) /\ WF_vars(Polling)

-----------------------------------------------------------------------------
(* Properties. *)

TypeOK ==
  /\ ticking \in BOOLEAN /\ pend \in BOOLEAN /\ counter \in Stamps
  /\ source \in Sources \cup {"none"} /\ context \in Sources \cup {"none"}
  /\ installing \in Sources \cup {"none"}
  /\ step \in {"none", "configure", "context", "source"}
  /\ pc \in {"idle", "start", "waiting", "poll"}
  /\ fetched \in Sources \cup {"none"}
  /\ kind \in Kinds /\ span \in Intervals /\ mark \in Stamps
  /\ ret \in {"none", "OK", "INVALID_ARGUMENT", "NOT_READY", "EXPIRED", "PENDING"}
  /\ since \in 0 .. Range /\ real \in 0 .. Range /\ unpolled \in Nat

\* A wait never ends early, wherever the counter wraps, however often the clock
\* is configured again meanwhile and whatever ticks are lost: not before its
\* milliseconds are counted, and not before they have passed, the one under way
\* when it began counting as whole.
NeverEarly == ret = "EXPIRED" => span <= since /\ span <= real + 1

\* A poll that finds a wait pending is right, unless it comes so late that the
\* comparison has turned over: a whole range after the start, or half of it
\* after a deadline.
TurnsOver == IF kind = "deadline" THEN span + Half ELSE Range
NeverMissed == ret = "PENDING" => since < span \/ TurnsOver <= since

\* A source is called with its own context, also by a reader that runs while
\* the first source is being installed.
SourceGetsItsContext == pc \in {"start", "poll"} => context = fetched /\ fetched # "none"

\* A wait polled at least every half range ends.
WaitsEnd == [](unpolled <= Half) => (pc = "waiting" ~> pc = "idle")

=============================================================================
