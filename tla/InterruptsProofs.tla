-------------------------- MODULE InterruptsProofs --------------------------
(***************************************************************************)
(* Theorems about pending flags and output pins, for every set of lines,   *)
(* ports and edges that an application asks for.                           *)
(***************************************************************************)
EXTENDS Interrupts, TLAPS

-----------------------------------------------------------------------------
(* The invariant. *)

\* The calls a task may be in, by what they concern.
PinCalls ==
  [step : {"route", "rise", "fall", "mask", "clear"}, pin : Pin, port : Port,
   edges : SUBSET {"rising", "falling"}]
TimerCalls == [step : {"ug", "sr"}, pin : {Tim}]
ModeCalls == [step : {"moder"}, out : {"task", "handler"}, output : BOOLEAN]
ToggleCalls == [step : {"bsrr"}, read : SUBSET {"task", "handler"}]

CallInv ==
  \/ call = NoCall
  \/ call \in PinCalls /\ part = "pins"
  \/ call \in TimerCalls /\ part = "timer"
  \/ call \in ModeCalls \cup ToggleCalls /\ part = "outputs"

\* Flags are raised where pins or the timer are exercised only.
FlagInv ==
  /\ part = "outputs" => flag = {} /\ running = FALSE
  /\ running \in BOOLEAN /\ (running => part = "timer")
  /\ \A s \in flag : s \in due \/ (call # NoCall /\ call.pin = s)

\* An output differs from its owner's wish only in the middle of the task's toggle,
\* which has read the output as it still is, whatever the handler did since.
OutputInv ==
  /\ odr \in SUBSET {"task", "handler"} /\ want \in SUBSET {"task", "handler"}
  /\ "handler" \in odr <=> "handler" \in want
  /\ call.step # "bsrr" => ("task" \in odr <=> "task" \in want)
  /\ call.step = "bsrr" =>
       /\ "task" \in call.read <=> "task" \in odr
       /\ "task" \in odr <=> "task" \notin want
  /\ driven \subseteq {"task", "handler"}

IInv == CallInv /\ FlagInv /\ OutputInv

-----------------------------------------------------------------------------

LEMMA InitIInv == Init => IInv
<1> SUFFICES ASSUME Init PROVE IInv
  OBVIOUS
<1>1. CallInv
  BY DEF Init, CallInv
<1>2. FlagInv
  BY DEF Init, FlagInv
<1>3. OutputInv
  BY DEF Init, OutputInv, NoCall
<1> QED
  BY <1>1, <1>2, <1>3 DEF IInv

\* The step tells the kind of call.
LEMMA CallKinds ==
  ASSUME CallInv
  PROVE  /\ call.step \in {"route", "rise", "fall", "mask", "clear"} =>
              call \in PinCalls /\ part = "pins"
         /\ call.step \in {"ug", "sr"} => call \in TimerCalls /\ part = "timer"
         /\ call.step = "moder" => call \in ModeCalls /\ part = "outputs"
         /\ call.step = "bsrr" => call \in ToggleCalls /\ part = "outputs"
BY DEF CallInv, PinCalls, TimerCalls, ModeCalls, ToggleCalls, NoCall

\* A step that leaves the task's call and the outputs alone.
LEMMA FlagSteps ==
  ASSUME IInv, UNCHANGED <<part, call, odr, driven, want>>, FlagInv'
  PROVE  IInv'
BY DEF IInv, CallInv, OutputInv

\* A step that leaves flags and events alone, and the pin of the call.
LEMMA QuietSteps ==
  ASSUME IInv, UNCHANGED <<part, flag, running, due>>, CallInv', OutputInv',
         call # NoCall => flag = {} \/ (call' # NoCall /\ call'.pin = call.pin)
  PROVE  IInv'
BY DEF IInv, FlagInv

\* The inputs, the counter, the controller and the handlers.
LEMMA OthersKeep ==
  ASSUME IInv,
         \/ \E i \in Input : Change(i)
         \/ Overflow
         \/ \E i \in Irqs : Latch(i) \/ Enter(i)
         \/ Handler
  PROVE  IInv'
<1>1. CASE \E i \in Input : Change(i)
  <2>1. PICK i \in Input : Change(i)
    BY <1>1
  <2>2. FlagInv'
    BY <2>1 DEF Change, IInv, FlagInv
  <2> QED
    BY <2>1, <2>2, FlagSteps DEF Change, outputs
<1>2. CASE Overflow
  <2>1. FlagInv'
    BY <1>2 DEF Overflow, IInv, FlagInv
  <2> QED
    BY <1>2, <2>1, FlagSteps DEF Overflow, outputs
<1>3. CASE \E i \in Irqs : Latch(i) \/ Enter(i)
  <2>1. UNCHANGED <<part, flag, running, due, call, odr, driven, want>>
    BY <1>3 DEF Latch, Enter, outputs
  <2>2. FlagInv'
    BY <2>1 DEF IInv, FlagInv
  <2> QED
    BY <2>1, <2>2, FlagSteps
<1>4. CASE Look \/ HandlerRead
  <2>1. UNCHANGED <<part, flag, running, due, call, odr, driven, want>>
    BY <1>4 DEF Look, HandlerRead, outputs
  <2>2. FlagInv'
    BY <2>1 DEF IInv, FlagInv
  <2> QED
    BY <2>1, <2>2, FlagSteps
<1>5. CASE HandlerClear
  <2> DEFINE s == Current
  <2>1. /\ flag' = flag \ {s} /\ due' = due \ {s}
        /\ UNCHANGED <<part, running, call, odr, driven, want>>
    BY <1>5 DEF HandlerClear, Clear, outputs
  <2> HIDE DEF s
  <2>2. FlagInv'
    BY <2>1 DEF IInv, FlagInv
  <2> QED
    BY <2>1, <2>2, FlagSteps
<1>6. CASE \E toggle \in BOOLEAN : Exit(toggle)
  <2>1. UNCHANGED <<part, flag, running, due, call, driven>>
    BY <1>6 DEF Exit
  <2>2. \/ odr' = Set("handler", "handler" \notin odr) /\ want' = Flip(want, "handler")
        \/ UNCHANGED <<odr, want>>
    BY <1>6 DEF Exit
  <2>3. OutputInv'
    BY <2>1, <2>2 DEF IInv, OutputInv, Set, Flip
  <2>4. CallInv' /\ FlagInv'
    BY <2>1 DEF IInv, CallInv, FlagInv
  <2> QED
    BY <2>3, <2>4 DEF IInv
<1> QED
  BY <1>1, <1>2, <1>3, <1>4, <1>5, <1>6 DEF Handler

\* The task's operations on lines.
LEMMA PinsKeep ==
  ASSUME IInv,
         \/ \E s \in Setups : Configure(s[1], s[2], s[3])
         \/ Route
         \/ SetRising
         \/ SetFalling
         \/ MaskLine
         \/ ClearLine
         \/ \E s \in Source : InterruptClear(s)
         \/ (\E s \in Source, on \in BOOLEAN : InterruptEnable(s, on)) \/ (\E p \in Pin : Watch(p))
  PROVE  IInv'
<1> USE DEF IInv, Task, Idle, At, Goto
<1>1. CASE \E s \in Setups : Configure(s[1], s[2], s[3])
  <2>1. PICK s \in Setups : Configure(s[1], s[2], s[3])
    BY <1>1
  <2>2. s[1] \in Pin /\ s[2] \in Port /\ s[3] \in SUBSET {"rising", "falling"}
    BY InterruptsAssumption DEF Pin
  <2>3. /\ UNCHANGED <<part, flag, running, due, odr, driven, want>>
        /\ call = NoCall /\ part = "pins" /\ call' \in PinCalls
    BY <2>1, <2>2 DEF Configure, PinCalls, outputs
  <2>4. CallInv' /\ OutputInv'
    BY <2>3 DEF CallInv, OutputInv, PinCalls, NoCall
  <2> QED
    BY <2>3, <2>4, QuietSteps
<1>2. CASE Route
  <2>1. /\ UNCHANGED <<part, running, due, odr, driven, want>>
        /\ call \in PinCalls /\ part = "pins" /\ call' \in PinCalls /\ call'.pin = call.pin
        /\ flag' = flag \/ flag' = flag \cup {call.pin}
    BY <1>2, CallKinds DEF Route, PinCalls, outputs
  <2>2. CallInv' /\ OutputInv'
    BY <2>1 DEF CallInv, OutputInv, PinCalls
  <2>3. call' # NoCall
    BY <2>1 DEF PinCalls, NoCall
  <2>4. FlagInv'
    BY <2>1, <2>3 DEF FlagInv
  <2> QED
    BY <2>2, <2>4
<1>3. CASE SetRising
  <2>1. /\ UNCHANGED <<part, flag, running, due, odr, driven, want>>
        /\ call \in PinCalls /\ part = "pins" /\ call' \in PinCalls /\ call'.pin = call.pin
    BY <1>3, CallKinds DEF SetRising, PinCalls, outputs
  <2>2. CallInv' /\ OutputInv'
    BY <2>1 DEF CallInv, OutputInv, PinCalls
  <2>3. call' # NoCall
    BY <2>1 DEF PinCalls, NoCall
  <2> QED
    BY <2>1, <2>2, <2>3, QuietSteps
<1>4. CASE SetFalling
  <2>1. /\ UNCHANGED <<part, flag, running, due, odr, driven, want>>
        /\ call \in PinCalls /\ part = "pins" /\ call' \in PinCalls /\ call'.pin = call.pin
    BY <1>4, CallKinds DEF SetFalling, PinCalls, outputs
  <2>2. CallInv' /\ OutputInv'
    BY <2>1 DEF CallInv, OutputInv, PinCalls
  <2>3. call' # NoCall
    BY <2>1 DEF PinCalls, NoCall
  <2> QED
    BY <2>1, <2>2, <2>3, QuietSteps
<1>5. CASE MaskLine
  <2>1. /\ UNCHANGED <<part, flag, running, due, odr, driven, want>>
        /\ call \in PinCalls /\ part = "pins" /\ call' \in PinCalls /\ call'.pin = call.pin
    BY <1>5, CallKinds DEF MaskLine, PinCalls, outputs
  <2>2. CallInv' /\ OutputInv'
    BY <2>1 DEF CallInv, OutputInv, PinCalls
  <2>3. call' # NoCall
    BY <2>1 DEF PinCalls, NoCall
  <2> QED
    BY <2>1, <2>2, <2>3, QuietSteps
<1>6. CASE ClearLine
  <2>1. /\ UNCHANGED <<part, running, odr, driven, want>>
        /\ call \in PinCalls /\ part = "pins" /\ call' = NoCall
        /\ flag' = flag \ {call.pin} /\ due' = due \ {call.pin}
    BY <1>6, CallKinds DEF ClearLine, Clear, outputs
  <2>2. CallInv' /\ OutputInv'
    BY <2>1 DEF CallInv, OutputInv, PinCalls, NoCall
  <2>3. FlagInv'
    BY <2>1 DEF FlagInv
  <2> QED
    BY <2>2, <2>3
<1>7. CASE \E s \in Source : InterruptClear(s)
  <2>1. PICK s \in Source : InterruptClear(s)
    BY <1>7
  <2>2. /\ UNCHANGED <<part, running, call, odr, driven, want>>
        /\ flag' = flag \ {s} /\ due' = due \ {s}
    BY <2>1 DEF InterruptClear, Clear, outputs
  <2>3. FlagInv'
    BY <2>2 DEF FlagInv
  <2> QED
    BY <2>2, <2>3, FlagSteps
<1>8. CASE (\E s \in Source, on \in BOOLEAN : InterruptEnable(s, on)) \/ (\E p \in Pin : Watch(p))
  <2>1. UNCHANGED <<part, flag, running, due, call, odr, driven, want>>
    BY <1>8 DEF InterruptEnable, Watch, outputs
  <2>2. FlagInv'
    BY <2>1 DEF FlagInv
  <2> QED
    BY <2>1, <2>2, FlagSteps
<1> QED
  BY <1>1, <1>2, <1>3, <1>4, <1>5, <1>6, <1>7, <1>8

\* Its operations on the timer and the controller.
LEMMA TimerKeeps ==
  ASSUME IInv,
         \/ TimerInit
         \/ TimerUpdate
         \/ TimerClear
         \/ \E on \in BOOLEAN : TimerRun(on)
         \/ \E i \in Irqs, on \in BOOLEAN : IrqEnable(i, on) \/ IrqPend(i, on)
  PROVE  IInv'
<1> USE DEF IInv, Task, Idle, At, Goto
<1>1. CASE TimerInit
  <2>1. /\ UNCHANGED <<part, flag, due, odr, driven, want>> /\ running' = FALSE
        /\ call = NoCall /\ part = "timer" /\ call' \in TimerCalls
    BY <1>1 DEF TimerInit, TimerCalls, outputs
  <2>2. CallInv' /\ OutputInv' /\ FlagInv'
    BY <2>1 DEF CallInv, OutputInv, FlagInv, TimerCalls, NoCall
  <2> QED
    BY <2>2
<1>2. CASE TimerUpdate
  <2>1. /\ UNCHANGED <<part, running, due, odr, driven, want>> /\ flag' = flag \cup {Tim}
        /\ call \in TimerCalls /\ part = "timer" /\ call' \in TimerCalls
    BY <1>2, CallKinds DEF TimerUpdate, TimerCalls, outputs
  <2>2. call.pin = Tim /\ call'.pin = Tim /\ call' # NoCall
    BY <2>1 DEF TimerCalls, NoCall
  <2>3. CallInv' /\ OutputInv'
    BY <2>1 DEF CallInv, OutputInv, TimerCalls
  <2>4. FlagInv'
    BY <2>1, <2>2 DEF FlagInv
  <2> QED
    BY <2>3, <2>4
<1>3. CASE TimerClear
  <2>1. /\ UNCHANGED <<part, running, odr, driven, want>>
        /\ call \in TimerCalls /\ part = "timer" /\ call' = NoCall
        /\ flag' = flag \ {Tim} /\ due' = due \ {Tim}
    BY <1>3, CallKinds DEF TimerClear, Clear, outputs
  <2>2. CallInv' /\ OutputInv'
    BY <2>1 DEF CallInv, OutputInv, TimerCalls, NoCall
  <2>3. FlagInv'
    BY <2>1 DEF FlagInv, TimerCalls
  <2> QED
    BY <2>2, <2>3
<1>4. CASE \E on \in BOOLEAN : TimerRun(on)
  <2>1. /\ UNCHANGED <<part, flag, due, call, odr, driven, want>>
        /\ running' \in BOOLEAN /\ part = "timer"
    BY <1>4 DEF TimerRun, outputs
  <2>2. FlagInv'
    BY <2>1 DEF FlagInv
  <2> QED
    BY <2>1, <2>2, FlagSteps
<1>5. CASE \E i \in Irqs, on \in BOOLEAN : IrqEnable(i, on) \/ IrqPend(i, on)
  <2>1. UNCHANGED <<part, flag, running, due, call, odr, driven, want>>
    BY <1>5 DEF IrqEnable, IrqPend, outputs
  <2>2. FlagInv'
    BY <2>1 DEF FlagInv
  <2> QED
    BY <2>1, <2>2, FlagSteps
<1> QED
  BY <1>1, <1>2, <1>3, <1>4, <1>5

\* Its operations on outputs.
LEMMA OutputsKeep ==
  ASSUME IInv,
         \/ \E o \in {"task", "handler"} : ConfigureInput(o)
         \/ \E o \in {"task", "handler"}, on \in BOOLEAN : ConfigureOutput(o, on)
         \/ SetMode
         \/ \E on \in BOOLEAN : Write(on)
         \/ ToggleRead
         \/ ToggleWrite
  PROVE  IInv'
<1> USE DEF IInv, Task, Idle, At, Goto
<1>1. CASE \E o \in {"task", "handler"} : ConfigureInput(o)
  <2>1. /\ UNCHANGED <<part, flag, running, due, odr, driven, want>>
        /\ call = NoCall /\ part = "outputs" /\ call' \in ModeCalls
    BY <1>1 DEF ConfigureInput, ModeCalls, outputs
  <2>2. CallInv' /\ OutputInv'
    BY <2>1 DEF CallInv, OutputInv, ModeCalls, NoCall
  <2> QED
    BY <2>1, <2>2, QuietSteps
<1>2. CASE \E o \in {"task", "handler"}, on \in BOOLEAN : ConfigureOutput(o, on)
  <2>1. PICK o \in {"task", "handler"}, on \in BOOLEAN : ConfigureOutput(o, on)
    BY <1>2
  <2>2. /\ UNCHANGED <<part, flag, running, due, driven>>
        /\ call = NoCall /\ part = "outputs" /\ call' \in ModeCalls
        /\ odr' = Set(o, on) /\ want' = IF on THEN want \cup {o} ELSE want \ {o}
    BY <2>1 DEF ConfigureOutput, ModeCalls
  <2>3. CallInv' /\ OutputInv'
    BY <2>2 DEF CallInv, OutputInv, ModeCalls, NoCall, Set
  <2> QED
    BY <2>2, <2>3, QuietSteps
<1>3. CASE SetMode
  <2>1. /\ UNCHANGED <<part, flag, running, due, odr, want>>
        /\ call \in ModeCalls /\ part = "outputs" /\ call' = NoCall
        /\ driven' = driven \cup {call.out} \/ driven' = driven \ {call.out}
    BY <1>3, CallKinds DEF SetMode
  <2>2. CallInv' /\ OutputInv' /\ flag = {}
    BY <2>1 DEF CallInv, OutputInv, FlagInv, ModeCalls, NoCall
  <2> QED
    BY <2>1, <2>2, QuietSteps
<1>4. CASE \E on \in BOOLEAN : Write(on)
  <2>1. PICK on \in BOOLEAN : Write(on)
    BY <1>4
  <2>2. /\ UNCHANGED <<part, flag, running, due, driven, call>> /\ call = NoCall
        /\ odr' = Set("task", on)
        /\ want' = IF on THEN want \cup {"task"} ELSE want \ {"task"}
    BY <2>1 DEF Write
  <2>3. CallInv' /\ OutputInv'
    BY <2>2 DEF CallInv, OutputInv, NoCall, Set
  <2> QED
    BY <2>2, <2>3, QuietSteps
<1>5. CASE ToggleRead
  <2>1. /\ UNCHANGED <<part, flag, running, due, driven, odr>>
        /\ call = NoCall /\ part = "outputs" /\ call' = [step |-> "bsrr", read |-> odr]
        /\ want' = Flip(want, "task")
    BY <1>5 DEF ToggleRead
  <2>2. CallInv' /\ OutputInv'
    BY <2>1 DEF CallInv, OutputInv, ToggleCalls, NoCall, Flip
  <2> QED
    BY <2>1, <2>2, QuietSteps
<1>6. CASE ToggleWrite
  <2>1. /\ UNCHANGED <<part, flag, running, due, driven, want>>
        /\ call \in ToggleCalls /\ part = "outputs" /\ call' = NoCall
        /\ odr' = Set("task", "task" \notin call.read)
    BY <1>6, CallKinds DEF ToggleWrite
  <2>2. CallInv' /\ OutputInv' /\ flag = {}
    BY <2>1 DEF CallInv, OutputInv, FlagInv, ToggleCalls, NoCall, Set
  <2> QED
    BY <2>1, <2>2, QuietSteps
<1> QED
  BY <1>1, <1>2, <1>3, <1>4, <1>5, <1>6

\* IInv is inductive, and holds in every state.
LEMMA Invariance == Spec => []IInv
<1>1. IInv /\ [Next]_vars => IInv'
  <2> SUFFICES ASSUME IInv, [Next]_vars PROVE IInv'
    OBVIOUS
  <2>1. CASE UNCHANGED vars
    BY <2>1 DEF vars, pins, outputs, nvic, IInv, CallInv, FlagInv, OutputInv
  <2>2. CASE Next
    BY <2>2, OthersKeep, PinsKeep, TimerKeeps, OutputsKeep, Zenon DEF Next
  <2> QED
    BY <2>1, <2>2
<1> QED
  BY InitIInv, <1>1, PTL DEF Spec

-----------------------------------------------------------------------------
(* Results. *)

\* A pending flag of a GPIO line or of the timer stands for an event that the
\* configuration in place asks for: neither a change of the route or the edges nor the
\* UG of das_timer_init leaves one behind (das_gpio_interrupt_configure).
THEOREM FlagsAreDue == Spec => []PendingIsDue
<1>1. IInv => PendingIsDue
  BY DEF IInv, FlagInv, PendingIsDue
<1> QED
  BY <1>1, Invariance, PTL

\* An output has the level its owner set last, though a handler changes another pin of
\* its port between the read and the write of das_gpio_toggle.
THEOREM OutputsAreOwn == Spec => []PinsAreOwn
<1>1. IInv => PinsAreOwn
  BY DEF IInv, OutputInv, PinsAreOwn, NoCall
<1> QED
  BY <1>1, Invariance, PTL

=============================================================================
