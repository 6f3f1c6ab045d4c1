----------------------------- MODULE Interrupts -----------------------------
(***************************************************************************)
(* One task and the interrupt handlers that preempt it: GPIO input lines   *)
(* of EXTI, of which several share one interrupt, the update interrupt of  *)
(* TIM2, the NVIC, and output pins of one port of which the task owns one  *)
(* and a handler the other.  Task steps are register accesses; a handler   *)
(* runs to its end, with every priority equal.                             *)
(***************************************************************************)
EXTENDS Integers, FiniteSetsExt

CONSTANTS Setups    \* the configurations asked for: a pin, its port, its edges

Port == {"A", "B"}
Tim == 16      \* the update of TIM2, a source of interrupts next to the sixteen lines

ASSUME InterruptsAssumption ==
  \A s \in Setups :
    s[1] \in 0 .. 15 /\ s[2] \in Port /\ s[3] \in (SUBSET {"rising", "falling"}) \ {{}}

Pin == {s[1] : s \in Setups}
Input == {<<s[2], s[1]>> : s \in Setups}
Source == Pin \cup {Tim}

VARIABLES
  part,        \* bound: what the behaviour exercises
  route,       \* SYSCFG_EXTICR: the port of a line
  rise, fall,  \* EXTI_RTSR1, EXTI_FTSR1
  mask,        \* EXTI_IMR1, TIM2_DIER.UIE: the sources that may interrupt
  flag,        \* EXTI_PR1, TIM2_SR.UIF
  running,     \* TIM2_CR1.CEN
  high,        \* the inputs that are high
  enabled, pended,    \* NVIC
  odr, driven, \* GPIO_ODR; the pins in output mode
  call,        \* the task's call in progress
  hand,        \* the handler that runs: its interrupt, sources left, step
  due,         \* history: flags set by an event that the configuration asks for
  seen,        \* history: the level of a pin that the application knows of
  missed,      \* history: pins whose last edge fell between a handler's read and clear
  want         \* history: the outputs whose owner wants them high

pins == <<route, rise, fall, high>>
outputs == <<odr, driven, want>>
nvic == <<enabled, pended>>
known == <<seen, missed>>
vars == <<part, pins, mask, flag, running, nvic, outputs, call, hand, due, known>>

\* das_gpio_interrupt_get_irq, by NVIC number; TIM2_IRQn.
Irq(s) ==
  CASE s = Tim -> 28
    [] s \in 0 .. 4 -> 6 + s
    [] s \in 5 .. 9 -> 23
    [] s \in 10 .. 15 -> 40
Irqs == {Irq(s) : s \in Source}
Concerns(i) == i = Irq(Tim) <=> part = "timer"
Sources(i) == {s \in Source : Irq(s) = i}

Level(p) == IF <<route[p], p>> \in high THEN "high" ELSE "low"

NoCall == [step |-> "none"]
NoHandler == [irq |-> 0, todo |-> {}, step |-> "none"]

\* A step of the task: no handler runs.
Task == hand = NoHandler /\ UNCHANGED <<part, hand>>
Idle(p) == Task /\ part = p /\ call = NoCall
At(step) == Task /\ call.step = step
Goto(step) == call' = [call EXCEPT !.step = step]

\* The handler that runs, and the source it is at.
Current == Min(hand.todo)
Handling(step) == hand.irq # 0 /\ hand.todo # {} /\ hand.step = step
Then(step) == hand' = [hand EXCEPT !.step = step]
Done == hand' = [hand EXCEPT !.step = "look", !.todo = @ \ {Current}]

\* What the application knows of the pins from now on.
Know(level) == seen' = level /\ missed' = {p \in missed : level[p] = seen[p]}
Forget(ps) == Know([p \in Pin |-> IF p \in ps THEN "unknown" ELSE seen[p]])

-----------------------------------------------------------------------------
(* GPIO interrupts. *)

\* A write of one to a bit of PR1 clears that bit; of zero, nothing.
ClearAll(s) == flag' = {} /\ due' = due \ {s}
Clear(s) == flag' = flag \ {s} /\ due' = due \ {s}

\* das_gpio_interrupt_configure: the register writes in the order of the source.
Configure(p, port, edges) ==
  /\ Idle("pins")
  /\ call' = [step |-> "route", pin |-> p, port |-> port, edges |-> edges]
  /\ Forget({p})
  /\ UNCHANGED <<pins, mask, flag, running, nvic, outputs, due>>

\* The new input may have another level, which the line may take for an edge.
Route ==
  /\ At("route") /\ Goto("rise")
  /\ LET p == call.pin IN
     /\ route' = [route EXCEPT ![p] = call.port]
     /\ \/ UNCHANGED flag
        \/ /\ (<<route[p], p>> \in high) # (<<call.port, p>> \in high)
           /\ flag' = flag \cup {p}
  /\ UNCHANGED <<rise, fall, high, mask, running, nvic, outputs, due, known>>

SetRising ==
  /\ At("rise") /\ Goto("fall")
  /\ rise' = IF "rising" \in call.edges THEN rise \cup {call.pin} ELSE rise \ {call.pin}
  /\ UNCHANGED <<route, fall, high, mask, flag, running, nvic, outputs, due, known>>
SetFalling ==
  /\ At("fall") /\ Goto("mask")
  /\ fall' = IF "falling" \in call.edges THEN fall \cup {call.pin} ELSE fall \ {call.pin}
  /\ UNCHANGED <<route, rise, high, mask, flag, running, nvic, outputs, due, known>>
MaskLine ==
  /\ At("mask") /\ Goto("clear")
  /\ mask' = mask \ {call.pin}
  /\ UNCHANGED <<pins, flag, running, nvic, outputs, due, known>>
\* PR1 is left as it is.
ClearLineNot ==
  /\ At("clear") /\ call' = NoCall
  /\ due' = due \ {call.pin}
  /\ UNCHANGED <<pins, mask, flag, running, nvic, outputs, known>>
ClearLine ==
  /\ At("clear") /\ call' = NoCall
  /\ Clear(call.pin)
  /\ UNCHANGED <<pins, mask, running, nvic, outputs, known>>

\* das_gpio_interrupt_enable, and das_timer_update_interrupt_enable.
InterruptEnable(s, on) ==
  /\ Idle(IF s = Tim THEN "timer" ELSE "pins")
  /\ mask' = IF on THEN mask \cup {s} ELSE mask \ {s}
  /\ IF on THEN UNCHANGED known ELSE Forget({s})
  /\ UNCHANGED <<pins, flag, running, nvic, outputs, call, due>>

\* das_gpio_interrupt_clear, and das_timer_clear_update.  A task that clears the
\* line of a pin gives up an event, and what it knew of the pin with it.
InterruptClear(s) ==
  /\ Idle(IF s = Tim THEN "timer" ELSE "pins")
  /\ Clear(s) /\ Forget({s})
  /\ UNCHANGED <<pins, mask, running, nvic, outputs, call>>

\* The application reads the level of a pin it has set up for both edges.
Watch(p) ==
  /\ Idle("pins")
  /\ p \in rise \cap fall \cap mask /\ Irq(p) \in enabled
  /\ Know([seen EXCEPT ![p] = Level(p)])
  /\ UNCHANGED <<pins, mask, flag, running, nvic, outputs, call, due>>

\* An input changes.  A line that is masked may or may not set its flag.
Change(i) ==
  LET p == i[2]
      edge == route[p] = i[1] /\ p \in (IF i \in high THEN fall ELSE rise)
  IN
  /\ part = "pins"
  /\ high' = IF i \in high THEN high \ {i} ELSE high \cup {i}
  /\ \/ edge /\ flag' = flag \cup {p} /\ due' = due \cup {p}
     \/ ~(edge /\ p \in mask) /\ UNCHANGED <<flag, due>>
  /\ missed' = IF route[p] # i[1] THEN missed
               ELSE IF Handling("clear") /\ Current = p /\ seen[p] # "unknown"
               THEN missed \cup {p} ELSE missed \ {p}
  /\ UNCHANGED <<part, route, rise, fall, mask, running, nvic, outputs, call, hand, seen>>

-----------------------------------------------------------------------------
(* TIM2. *)

\* das_timer_init: the counter is stopped and its interrupt off; UG loads the
\* registers and raises UIF; SR is cleared.
TimerInit ==
  /\ Idle("timer")
  /\ running' = FALSE /\ mask' = mask \ {Tim}
  /\ call' = [step |-> "ug", pin |-> Tim]
  /\ UNCHANGED <<pins, flag, nvic, outputs, due, known>>
TimerUpdate ==
  /\ At("ug") /\ Goto("sr")
  /\ flag' = flag \cup {Tim}
  /\ UNCHANGED <<pins, mask, running, nvic, outputs, due, known>>
TimerClear ==
  /\ At("sr") /\ call' = NoCall
  /\ Clear(Tim)
  /\ UNCHANGED <<pins, mask, running, nvic, outputs, known>>

\* das_timer_start, das_timer_stop.
TimerRun(on) ==
  /\ Idle("timer") /\ running' = on
  /\ UNCHANGED <<pins, mask, flag, nvic, outputs, call, due, known>>

Overflow ==
  /\ running
  /\ flag' = flag \cup {Tim} /\ due' = due \cup {Tim}
  /\ UNCHANGED <<part, pins, mask, running, nvic, outputs, call, hand, known>>

-----------------------------------------------------------------------------
(* Outputs: the task owns the pin "task", a handler the pin "handler". *)

Set(o, on) == IF on THEN odr \cup {o} ELSE odr \ {o}

\* das_gpio_configure: BSRR, for an output only, and MODER last.
ConfigureOutput(o, on) ==
  /\ Idle("outputs")
  /\ odr' = Set(o, on) /\ want' = IF on THEN want \cup {o} ELSE want \ {o}
  /\ call' = [step |-> "moder", out |-> o, output |-> TRUE]
  /\ UNCHANGED <<pins, mask, flag, running, nvic, driven, due, known>>
ConfigureInput(o) ==
  /\ Idle("outputs")
  /\ call' = [step |-> "moder", out |-> o, output |-> FALSE]
  /\ UNCHANGED <<pins, mask, flag, running, nvic, outputs, due, known>>
SetMode ==
  /\ At("moder") /\ call' = NoCall
  /\ driven' = IF call.output THEN driven \cup {call.out} ELSE driven \ {call.out}
  /\ UNCHANGED <<pins, mask, flag, running, nvic, odr, want, due, known>>

\* das_gpio_write.
Write(on) ==
  /\ Idle("outputs")
  /\ odr' = Set("task", on) /\ want' = IF on THEN want \cup {"task"} ELSE want \ {"task"}
  /\ UNCHANGED <<pins, mask, flag, running, nvic, driven, call, due, known>>

Flip(set, o) == (set \cup {o}) \ (set \cap {o})

\* das_gpio_toggle reads ODR and writes BSRR.
ToggleRead ==
  /\ Idle("outputs")
  /\ call' = [step |-> "bsrr", read |-> odr] /\ want' = Flip(want, "task")
  /\ UNCHANGED <<pins, mask, flag, running, nvic, odr, driven, due, known>>
\* ODR is written as a whole.
ToggleWriteOdr ==
  /\ At("bsrr") /\ call' = NoCall
  /\ odr' = Flip(call.read, "task")
  /\ UNCHANGED <<pins, mask, flag, running, nvic, driven, want, due, known>>
ToggleWrite ==
  /\ At("bsrr") /\ call' = NoCall
  /\ odr' = Set("task", "task" \notin call.read)
  /\ UNCHANGED <<pins, mask, flag, running, nvic, driven, want, due, known>>

-----------------------------------------------------------------------------
(* The interrupt controller, and its operations by the task. *)

\* das_irq_enable, das_irq_disable.
IrqEnable(i, on) ==
  /\ Task /\ call = NoCall /\ Concerns(i)
  /\ enabled' = IF on THEN enabled \cup {i} ELSE enabled \ {i}
  /\ IF on THEN UNCHANGED known ELSE Forget(Sources(i))
  /\ UNCHANGED <<pins, mask, flag, running, pended, outputs, call, due>>

\* das_irq_set_pending, das_irq_clear_pending.
IrqPend(i, on) ==
  /\ Task /\ call = NoCall /\ Concerns(i)
  /\ pended' = IF on THEN pended \cup {i} ELSE pended \ {i}
  /\ UNCHANGED <<pins, mask, flag, running, enabled, outputs, call, due, known>>

\* An unmasked flag keeps the request of its interrupt up.
Latch(i) ==
  /\ Sources(i) \cap flag \cap mask # {} /\ i \notin pended /\ hand.irq # i
  /\ pended' = pended \cup {i}
  /\ UNCHANGED <<part, pins, mask, flag, running, enabled, outputs, call, hand, due, known>>

Enter(i) ==
  /\ hand = NoHandler /\ i \in pended \cap enabled
  /\ pended' = pended \ {i}
  /\ hand' = [irq |-> i, todo |-> Sources(i), step |-> "look"]
  /\ UNCHANGED <<part, pins, mask, flag, running, enabled, outputs, call, due, known>>

-----------------------------------------------------------------------------
(* A handler as the two of the repository's hardware tests are written, for each *)
(* source of its interrupt: it asks whether the source is pending, reads the     *)
(* input, clears the source, and goes by what it has read.                       *)

Look ==
  /\ Handling("look")
  /\ IF Current \in flag THEN Then("read") ELSE Done
  /\ UNCHANGED <<part, pins, mask, flag, running, nvic, outputs, call, due, known>>
HandlerRead ==
  /\ Handling("read") /\ Then("clear")
  /\ Know([p \in Pin |-> IF p = Current /\ seen[p] # "unknown" THEN Level(p) ELSE seen[p]])
  /\ UNCHANGED <<part, pins, mask, flag, running, nvic, outputs, call, due>>
HandlerClear ==
  /\ Handling("clear") /\ Done
  /\ Clear(Current)
  /\ UNCHANGED <<part, pins, mask, running, nvic, outputs, call, known>>
\* At its end it may toggle its output.
Exit(toggle) ==
  /\ hand.irq # 0 /\ hand.todo = {} /\ hand' = NoHandler
  /\ IF toggle /\ part = "outputs"
     THEN /\ odr' = Set("handler", "handler" \notin odr)
          /\ want' = Flip(want, "handler")
     ELSE UNCHANGED <<odr, want>>
  /\ UNCHANGED <<part, pins, mask, flag, running, nvic, driven, call, due, known>>

Handler == Look \/ HandlerRead \/ HandlerClear \/ \E toggle \in BOOLEAN : Exit(toggle)

-----------------------------------------------------------------------------

\* Reset.
Init ==
  /\ part \in {"pins", "timer", "outputs"}
  /\ route = [p \in Pin |-> "A"] /\ rise = {} /\ fall = {}
  /\ mask = {} /\ flag = {} /\ running = FALSE /\ high = {}
  /\ enabled = {} /\ pended = {}
  /\ odr = {} /\ driven = {} /\ want = {}
  /\ call = NoCall /\ hand = NoHandler
  /\ due = {} /\ seen = [p \in Pin |-> "unknown"] /\ missed = {}

Next ==
  \/ \E s \in Setups : Configure(s[1], s[2], s[3])
  \/ Route \/ SetRising \/ SetFalling \/ MaskLine \/ ClearLine
  \/ \E s \in Source : InterruptClear(s) \/ \E on \in BOOLEAN : InterruptEnable(s, on)
  \/ \E p \in Pin : Watch(p)
  \/ \E i \in Input : Change(i)
  \/ TimerInit \/ TimerUpdate \/ TimerClear \/ (\E on \in BOOLEAN : TimerRun(on)) \/ Overflow
  \/ \E o \in {"task", "handler"} : ConfigureInput(o) \/ \E on \in BOOLEAN : ConfigureOutput(o, on)
  \/ SetMode \/ (\E on \in BOOLEAN : Write(on)) \/ ToggleRead \/ ToggleWrite
  \/ \E i \in Irqs, on \in BOOLEAN : IrqEnable(i, on) \/ IrqPend(i, on)
  \/ \E i \in Irqs : Latch(i) \/ Enter(i)
  \/ Handler

\* The controller latches a request and takes an interrupt at once; between equals
\* none is passed over for ever, and a handler ends.
Spec ==
  /\ Init /\ [][Next]_vars
  /\ \A i \in Irqs : WF_vars(Latch(i)) /\ SF_vars(Enter(i))
  /\ WF_vars(Handler)

-----------------------------------------------------------------------------
(* Properties. *)

\* docs/interrupts.md leaves pending and clear of a source to the owning API.  A
\* pending flag stands for an event of the configuration in place, since it was
\* made and since the last clear: a change of the route, of the edges or of the
\* timer's period leaves no event of its own behind.
PendingIsDue ==
  \A s \in flag : s \in due \/ (call # NoCall /\ call.pin = s)

\* das/gpio.h: "Several GPIO pins may share one controller IRQ".  An application
\* that has read the level of a pin it listens to on both edges comes to know
\* every level the pin keeps, whatever its other pins do, unless the source or
\* the interrupt is turned off or the last edge came while the pin's own handler
\* was between its read and its clear.  An update of the timer reaches its handler.
EventsReachTheirHandler ==
  /\ \A p \in Pin :
       seen[p] \notin {"unknown", Level(p)} ~>
         seen[p] \in {"unknown", Level(p)} \/ p \in missed
  /\ LET wanted == Tim \in flag \cap mask /\ Irq(Tim) \in enabled IN wanted ~> ~wanted

\* The press and release of a button are both counted, as
\* scripts/gdb/stm32h755_button_state.gdb:31 asks of the handler at
\* button_firmware.c:173: as long as the application's last reading of a pin is
\* not its level, the edge that came since still stands, or a handler is about to
\* read the pin.
NoEdgeIsLost ==
  \A p \in Pin :
    \/ seen[p] \in {"unknown", Level(p)} \/ p \in flag
    \/ Handling("read") /\ Current = p

\* An output shows what its owner set last, from the moment it is driven, though
\* the owner of another pin of its port may run between any two steps.
PinsAreOwn ==
  \A o \in driven : (o \in odr) = (o \in want) \/ (o = "task" /\ call # NoCall)

=============================================================================
