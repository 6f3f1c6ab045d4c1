--------------------------- MODULE MonoTimeProofs ---------------------------
(***************************************************************************)
(* What MonoTime promises, for every width of the counter.  The invariant  *)
(* has three parts: the pair a reader meets (Steady), the relation of the  *)
(* wrapped counter to the milliseconds counted since the mark of the wait  *)
(* (Counted), and the relation of those to the milliseconds that passed    *)
(* (Lived).                                                                *)
(***************************************************************************)
EXTENDS MonoTime, TLAPS

\* Nobody replaces the source of a wait in progress, and a source that can be
\* read has its context beside it.
Steady ==
  /\ pc # "idle" => source # "none" /\ installing \in {"none", source}
  /\ installing = "none" <=> step = "none"
  /\ step = "source" => context = installing
  /\ source # "none" /\ installing \in {"none", source} => context = source
  /\ pc \in {"start", "poll"} => fetched = source

\* The timestamp at which the wait began.
Origin == IF kind = "deadline" THEN Sub(mark, span) ELSE mark

Counted ==
  Waiting =>
    /\ Sub(Value(source), Origin) <= since
    /\ since < Range => Sub(Value(source), Origin) = since

Lived == Waiting => since + (IF pend THEN 1 ELSE 0) <= real + 1

-----------------------------------------------------------------------------
(* The arithmetic of timestamps. *)

\* Sums and differences of timestamps are timestamps.
LEMMA StampsClosed ==
  ASSUME NEW a \in Stamps, NEW b \in Stamps
  PROVE  Add(a, b) \in Stamps /\ Sub(a, b) \in Stamps
BY HalfAssumption DEF Add, Sub, Stamps, Range

\* One and every interval are timestamps too.
LEMMA SmallStamps == 1 \in Stamps /\ Intervals \subseteq Stamps
BY HalfAssumption DEF Intervals, Stamps, Range

\* A difference undoes a sum: the origin of a deadline is when it was made.
LEMMA SubAdd ==
  ASSUME NEW a \in Stamps, NEW b \in Stamps
  PROVE  Sub(Add(a, b), b) = a /\ Add(Sub(a, b), b) = a /\ Sub(a, a) = 0
BY HalfAssumption DEF Add, Sub, Stamps, Range

\* A tick makes every difference one larger, or turns it over to nothing.
LEMMA SubTick ==
  ASSUME NEW a \in Stamps, NEW b \in Stamps
  PROVE  Sub(Add(a, 1), b) = IF Sub(a, b) = Range - 1 THEN 0 ELSE Sub(a, b) + 1
BY HalfAssumption DEF Add, Sub, Stamps, Range

\* The half-range comparison of das_time_deadline_reached, unwrapped.
LEMMA DeadlineWindow ==
  ASSUME NEW o \in Stamps, NEW d \in Intervals, NEW n \in Stamps
  PROVE  Sub(n, Add(o, d)) < Half <=> d <= Sub(n, o) /\ Sub(n, o) < d + Half
BY HalfAssumption DEF Add, Sub, Stamps, Range, Intervals

\* What a source returns is a timestamp.
LEMMA ValueStamp ==
  ASSUME TypeOK, NEW s \in Sources
  PROVE  Value(s) \in Stamps
<1>1. counter \in Stamps
  BY DEF TypeOK
<1>2. Add(counter, 1) \in Stamps
  BY <1>1, StampsClosed, SmallStamps
<1>3. QED
  BY <1>1, <1>2 DEF Value, Ahead

-----------------------------------------------------------------------------
(* Types. *)

\* The clock, the source and the waiter start in their types.
LEMMA InitTypeOK == Init => TypeOK
<1>1. 0 \in Stamps /\ 0 \in Intervals /\ 0 \in 0 .. Range /\ 0 \in Nat
  BY HalfAssumption DEF Stamps, Range, Intervals
<1>2. QED
  BY <1>1 DEF Init, TypeOK, Kinds, Sources

\* Type correctness is inductive.
LEMMA NextTypeOK == TypeOK /\ [Next]_vars => TypeOK'
<1> SUFFICES ASSUME TypeOK, [Next]_vars PROVE TypeOK'
  OBVIOUS
<1> USE HalfAssumption, GapAssumption
<1>1. CASE Passes
  <2>1. real' \in 0 .. Range
    BY <1>1 DEF TypeOK, Passes, UpTo, Range
  <2>2. QED
    BY <1>1, <2>1 DEF TypeOK, Passes, install, wait
<1>2. CASE Hook
  <2>1. counter \in Stamps
    BY DEF TypeOK
  <2>2. Add(counter, 1) \in Stamps
    BY <2>1, StampsClosed, SmallStamps
  <2>3. since' \in 0 .. Range /\ unpolled' \in Nat
    BY <1>2 DEF TypeOK, Hook, UpTo, Range
  <2>4. QED
    BY <1>2, <2>2, <2>3 DEF TypeOK, Hook, install, wait
<1>3. CASE SetSource \/ TimeInit \/ TimeInitRefused
  <2>1. CASE SetSource
    BY <2>1 DEF TypeOK, SetSource, wait, hist, Sources
  <2>2. CASE TimeInit
    BY <2>2 DEF TypeOK, TimeInit, wait, hist, Sources
  <2>3. CASE TimeInitRefused
    BY <2>3 DEF TypeOK, TimeInitRefused, clock, install, wait, hist
  <2>4. QED
    BY <1>3, <2>1, <2>2, <2>3
<1>4. CASE Installing
  BY <1>4 DEF TypeOK, Installing, SysTickConfig, SetContext, SetFunction, clock,
              wait, hist
<1>5. CASE Refused \/ Leave
  BY <1>5 DEF TypeOK, Refused, Answer, Leave, clock, install, wait, hist
<1>6. CASE Begin
  BY <1>6 DEF TypeOK, Begin, clock, install, hist
<1>7. CASE Start
  <2>1. ASSUME NEW s \in Sources
        PROVE  Value(s) \in Stamps /\ Add(Value(s), span) \in Stamps
    BY ValueStamp, StampsClosed, SmallStamps DEF TypeOK
  <2>2. CASE fetched \in Sources
    BY <1>7, <2>1, <2>2 DEF TypeOK, Start, clock, install, Range
  <2>3. CASE fetched = "none"
    <3>1. Value(fetched) \in Stamps /\ Add(Value(fetched), span) \in Stamps
      BY <2>3, StampsClosed, SmallStamps DEF TypeOK, Value, Ahead
    <3>2. QED
      BY <1>7, <3>1 DEF TypeOK, Start, clock, install, Range
  <2>4. QED
    BY <2>2, <2>3 DEF TypeOK
<1>8. CASE Fetch \/ Poll
  BY <1>8 DEF TypeOK, Fetch, Poll, clock, install, hist
<1>9. CASE UNCHANGED vars
  BY <1>9 DEF TypeOK, vars, clock, install, wait, hist
<1>10. QED
  BY <1>1, <1>2, <1>3, <1>4, <1>5, <1>6, <1>7, <1>8, <1>9 DEF Next, Polling

\* Every variable of the clock stays in its range, in particular the counter
\* and the marks in uint32_t (time.c, mcu/cortex_m/time.c).
THEOREM TypeCorrect == Spec => []TypeOK
<1>1. QED
  BY InitTypeOK, NextTypeOK, PTL DEF Spec

-----------------------------------------------------------------------------
(* The source and its context. *)

\* At first no source is installed and no install is under way.
LEMMA InitSteady == Init => Steady
BY DEF Init, Steady

\* The rule for installing keeps source and context together, step by step.
LEMMA NextSteady == TypeOK /\ Steady /\ [Next]_vars => Steady'
<1> SUFFICES ASSUME TypeOK, Steady, [Next]_vars PROVE Steady'
  OBVIOUS
<1>1. CASE Passes \/ Hook \/ TimeInitRefused
  BY <1>1 DEF Steady, Passes, Hook, TimeInitRefused, install, wait
<1>2. CASE SetSource \/ TimeInit
  BY <1>2 DEF Steady, SetSource, TimeInit, MayInstall, wait
<1>3. CASE SysTickConfig
  BY <1>3 DEF Steady, SysTickConfig, wait
<1>4. CASE SetContext
  BY <1>4 DEF Steady, SetContext, wait
<1>5. CASE SetFunction
  BY <1>5 DEF Steady, SetFunction, wait
<1>6. CASE Refused \/ Leave
  BY <1>6 DEF Steady, Refused, Answer, Leave, install, wait
<1>7. CASE Begin
  BY <1>7 DEF Steady, Begin, MayRead, install
<1>8. CASE Start \/ Fetch \/ Poll
  BY <1>8 DEF Steady, Start, Fetch, Poll, install
<1>9. CASE UNCHANGED vars
  BY <1>9 DEF Steady, vars, install, wait
<1>10. QED
  BY <1>1, <1>2, <1>3, <1>4, <1>5, <1>6, <1>7, <1>8, <1>9 DEF Next, Installing, Polling

\* What a reader fetched is then paired with its own context.
LEMMA SteadyPairs == Steady /\ TypeOK => SourceGetsItsContext
BY DEF Steady, TypeOK, SourceGetsItsContext

\* das_time_set_source writes the context before the function (time.c:19), so a
\* reader that runs meanwhile never calls a source with a context not its own.
THEOREM SourcePaired == Spec => []SourceGetsItsContext
<1>1. Init => TypeOK /\ Steady
  BY InitTypeOK, InitSteady
<1>2. TypeOK /\ Steady /\ [Next]_vars => TypeOK' /\ Steady'
  BY NextTypeOK, NextSteady
<1>3. QED
  BY <1>1, <1>2, SteadyPairs, PTL DEF Spec

-----------------------------------------------------------------------------
(* Waits. *)

IInv ==
  /\ TypeOK /\ Steady /\ Counted /\ Lived
  /\ NeverEarly /\ NeverMissed

\* The waiter starts idle, with nothing counted.
LEMMA InitIInv == Init => IInv
<1> SUFFICES ASSUME Init PROVE IInv
  OBVIOUS
<1>1. TypeOK /\ Steady
  BY InitTypeOK, InitSteady
<1>2. Counted /\ Lived /\ NeverEarly /\ NeverMissed
  BY DEF Init, Counted, Lived, Waiting, NeverEarly, NeverMissed
<1>3. QED
  BY <1>1, <1>2 DEF IInv

\* A step that leaves the wait and the counter alone keeps what relates them.
LEMMA CountedKept ==
  ASSUME IInv, UNCHANGED <<wait, counter, since>>, Waiting => source' = source
  PROVE  Counted'
<1>1. SUFFICES ASSUME Waiting PROVE Counted'
  BY DEF Counted, Waiting, wait
<1>2. UNCHANGED <<source, counter, kind, span, mark, since>>
  BY <1>1 DEF wait
<1>3. Counted
  BY DEF IInv
<1>4. QED
  BY <1>1, <1>2, <1>3 DEF Counted, Value, Origin, Sub, Add, Range

\* A step that tells the waiting task nothing of its wait breaks no promise.
LEMMA SilentKept ==
  ASSUME ret' \notin {"EXPIRED", "PENDING"}
  PROVE  NeverEarly' /\ NeverMissed'
BY DEF NeverEarly, NeverMissed

\* Each tick, install, poll and lost tick keeps the counts in step with the marks.
LEMMA NextIInv == IInv /\ [Next]_vars => IInv'
<1> SUFFICES ASSUME IInv, [Next]_vars PROVE IInv'
  OBVIOUS
<1>a. TypeOK /\ Steady /\ Counted /\ Lived
  BY DEF IInv
<1>b. TypeOK' /\ Steady'
  BY <1>a, NextTypeOK, NextSteady
<1>c. SUFFICES Counted' /\ Lived' /\ NeverEarly' /\ NeverMissed'
  BY <1>b DEF IInv
<1>d. Waiting => source \in Sources /\ installing \in {"none", source}
  BY <1>a DEF Steady, TypeOK, Waiting
<1> USE HalfAssumption
<1>1. CASE Passes
  <2>1. Counted'
    BY <1>1, CountedKept DEF Passes, wait, install
  <2>2. Lived'
    BY <1>1, <1>a DEF Passes, Lived, Waiting, wait, UpTo, TypeOK, Range
  <2>3. QED
    BY <1>1, <2>1, <2>2, SilentKept DEF Passes
<1>2. CASE Hook
  <2>1. Counted'
    <3>1. SUFFICES ASSUME Waiting PROVE Counted'
      BY <1>2 DEF Hook, Counted, Waiting, wait
    <3> DEFINE v == Value(source)
               o == Origin
    <3>2. v \in Stamps /\ o \in Stamps
      BY <3>1, <1>a, <1>d, ValueStamp, StampsClosed, SmallStamps DEF Origin, TypeOK
    <3>3. Value(source)' = Add(v, 1) /\ Origin' = o
      BY <1>2 DEF Hook, install, wait, Value, Ahead, Origin, Sub, Add, Range
    <3>4. Sub(Add(v, 1), o) = IF Sub(v, o) = Range - 1 THEN 0 ELSE Sub(v, o) + 1
      BY <3>2, SubTick
    <3>5. Sub(v, o) \in Stamps /\ since' = UpTo(since) /\ since \in 0 .. Range
      BY <1>2, <1>a, <3>1, <3>2, StampsClosed DEF Hook, TypeOK
    <3>6. Sub(v, o) <= since /\ (since < Range => Sub(v, o) = since)
      BY <1>a, <3>1 DEF Counted
    <3>7. Sub(Value(source), Origin)' = Sub(Add(v, 1), o)
      BY <3>3 DEF Sub, Range
    <3> HIDE DEF v, o
    <3>8. /\ Sub(Add(v, 1), o) <= since'
          /\ since' < Range => Sub(Add(v, 1), o) = since'
      BY <3>4, <3>5, <3>6 DEF UpTo, Stamps, Range
    <3>9. QED
      BY <3>7, <3>8 DEF Counted, Range
  <2>2. Lived'
    BY <1>2, <1>a DEF Hook, Lived, Waiting, wait, UpTo, TypeOK, Range
  <2>3. QED
    BY <1>2, <2>1, <2>2, SilentKept DEF Hook
<1>3. CASE SetSource \/ TimeInit \/ TimeInitRefused \/ SysTickConfig \/ SetContext
  <2>1. /\ UNCHANGED <<wait, counter, since, real, pend, source>>
        /\ ret' = "none"
    BY <1>3 DEF SetSource, TimeInit, TimeInitRefused, SysTickConfig, SetContext,
                clock, install, hist
  <2>2. Counted'
    BY <2>1, CountedKept
  <2>3. Lived'
    BY <1>a, <2>1 DEF Lived, Waiting, wait
  <2>4. QED
    BY <2>1, <2>2, <2>3, SilentKept
<1>4. CASE SetFunction
  <2>1. Waiting => source' = source
    BY <1>4, <1>a, <1>d DEF SetFunction, Steady
  <2>2. Counted'
    BY <1>4, <2>1, CountedKept DEF SetFunction, clock, hist
  <2>3. Lived'
    BY <1>4, <1>a DEF SetFunction, Lived, Waiting, wait, clock, hist
  <2>4. QED
    BY <1>4, <2>2, <2>3, SilentKept DEF SetFunction
<1>5. CASE Refused \/ Begin \/ Leave
  BY <1>5 DEF Refused, Answer, Begin, Leave, Counted, Lived, Waiting, wait,
              NeverEarly, NeverMissed
<1>6. CASE Start
  <2>1. fetched = source /\ source \in Sources
    BY <1>6, <1>a DEF Start, Steady, TypeOK
  <2>2. Value(source) \in Stamps /\ span \in Stamps
    BY <1>a, <2>1, ValueStamp, SmallStamps DEF TypeOK
  <2>3. Sub(Value(source), Origin)' = 0
    <3>1. Origin' = Value(source)
      BY <1>6, <2>1, <2>2, SubAdd DEF Start, Origin, Sub, Range
    <3>2. Value(source)' = Value(source)
      BY <1>6 DEF Start, clock, install, Value, Add, Range
    <3>3. QED
      BY <2>2, <3>1, <3>2, SubAdd DEF Sub, Range
  <2>4. Counted'
    BY <1>6, <2>3 DEF Start, Counted, Range
  <2>5. Lived'
    BY <1>6 DEF Start, Lived
  <2>6. QED
    BY <1>6, <2>4, <2>5, SilentKept DEF Start
<1>7. CASE Fetch
  <2>1. Counted' /\ Lived'
    BY <1>7, <1>a DEF Fetch, Counted, Lived, Waiting, Value, Origin, Sub, Add, Range,
                      clock, install, hist
  <2>2. QED
    BY <1>7, <2>1, SilentKept DEF Fetch
<1>8. CASE Poll
  <2>1. Counted' /\ Lived'
    BY <1>8, <1>a DEF Poll, Counted, Lived, Waiting, Value, Origin, Sub, Add, Range,
                      clock, install
  <2> DEFINE now == Value(source)
             o == Origin
  <2>2. /\ fetched = source /\ Waiting
        /\ now \in Stamps /\ mark \in Stamps /\ span \in Intervals /\ span \in Stamps
        /\ since \in 0 .. Range /\ real \in 0 .. Range
    BY <1>8, <1>a, <1>d, ValueStamp, SmallStamps DEF Poll, Waiting, Steady, TypeOK
  <2>3. o \in Stamps /\ Sub(now, o) \in Stamps
    BY <2>2, StampsClosed DEF Origin
  <2>4. Reached(now) <=> /\ span <= Sub(now, o)
                         /\ kind = "deadline" => Sub(now, o) < span + Half
    <3>1. CASE kind = "deadline"
      BY <2>2, <2>3, <3>1, SubAdd, DeadlineWindow DEF Reached, Origin
    <3>2. CASE kind # "deadline"
      BY <2>2, <2>3, <3>2 DEF Reached, Origin, Intervals, Stamps
    <3>3. QED
      BY <3>1, <3>2
  <2>5. Sub(now, o) <= since /\ (since < Range => Sub(now, o) = since)
    BY <1>a, <2>2 DEF Counted
  <2>6. since <= real + 1
    BY <1>a, <2>2 DEF Lived, Range
  <2>7. UNCHANGED <<kind, span, since, real>>
        /\ ret' = IF Reached(now) THEN "EXPIRED" ELSE "PENDING"
    BY <1>8, <2>2 DEF Poll
  <2> HIDE DEF now, o
  <2>8. NeverEarly'
    BY <2>2, <2>3, <2>4, <2>5, <2>6, <2>7 DEF NeverEarly, Intervals, Stamps, Range
  <2>9. NeverMissed'
    BY <2>2, <2>3, <2>4, <2>5, <2>7 DEF NeverMissed, TurnsOver, Intervals, Stamps, Range
  <2>10. QED
    BY <2>1, <2>8, <2>9
<1>9. CASE UNCHANGED vars
  BY <1>9 DEF IInv, Counted, Lived, NeverEarly, NeverMissed, TurnsOver, Waiting, Value,
              Origin, Sub, Add, Range, vars, clock, install, wait, hist
<1>10. QED
  BY <1>1, <1>2, <1>3, <1>4, <1>5, <1>6, <1>7, <1>8, <1>9 DEF Next, Installing, Polling

\* So the inductive invariant holds in every behaviour.
LEMMA IInvHolds == Spec => []IInv
<1>1. QED
  BY InitIInv, NextIInv, PTL DEF Spec

\* No finite wait of the stack ends before its time, for every width of the
\* counter, across wraps, lost ticks and new configurations of SysTick.
THEOREM WaitsAreNotShort == Spec => []NeverEarly
<1>1. IInv => NeverEarly
  BY DEF IInv
<1>2. QED
  BY <1>1, IInvHolds, PTL

\* A poll in time sees that the wait is over: within a range of the start for
\* das_time_interval_elapsed and das_delay_ms, within half a range of the
\* deadline for das_time_deadline_reached.
THEOREM WaitsAreNotMissed == Spec => []NeverMissed
<1>1. IInv => NeverMissed
  BY DEF IInv
<1>2. QED
  BY <1>1, IInvHolds, PTL

=============================================================================
