-------------------------- MODULE ClockTreeProofs ---------------------------
(***************************************************************************)
(* Theorems about the change of the system clock, for every configuration  *)
(* a board may ask for, every rate of its oscillator and every state that  *)
(* reset may leave, in ClockTree and among the clients of ClockClients;    *)
(* about the duty of a PWM channel, for every period, every resolution of  *)
(* the duty and every clock; and about the dividers of all clients, for    *)
(* every rate asked for.                                                   *)
(***************************************************************************)
EXTENDS ClockClients, TLAPS

-----------------------------------------------------------------------------
(* The invariant. *)

Factor == Nat \ {0}
DivSet == [core : Factor, ahb : Factor, apb : Factor]
Fits(c) == WithinLimits(Tree(SystemOf(c), c.div))
LockRate(source, m, n, p) == (SourceMHz(source) * n) \div (m * p)

\* SYSCLK is HSI and nothing else is asked for.
OnHsi == {"vos?", "dividers", "source", "hse-?", "hse+?", "pll", "pll-?", "pll+?"}
Divided == (OnHsi \ {"vos?", "dividers"}) \cup {"target?"}
Accepted == OnHsi \cup {"hsi?", "target?"}
Steps == Accepted \cup {"idle", "supply", "supply?", "apply"}

ClocksTypeOK ==
  /\ sw \in {"HSI", "HSE", "PLL1"} /\ sws \in {"HSI", "HSE", "PLL1"}
  /\ hsidiv \in {1, 2, 4, 8}
  /\ hse \in [on : BOOLEAN, ready : BOOLEAN]
  /\ pll \in [on : BOOLEAN, ready : BOOLEAN, source : {"HSI", "HSE"},
              m : Factor, n : Nat, p : Factor, out : Int]
  /\ div \in DivSet
PowerTypeOK ==
  /\ supply \in [mode : {"run*", "smps", "other"}, ready : BOOLEAN]
  /\ vos \in [level : {1, 3}, ready : BOOLEAN]
  /\ latency \in {4, 7}
CallTypeOK ==
  /\ pc \in Steps
  /\ pc # "idle" => cfg \in Configs /\ ret = "none"
  /\ ret \in {"none", "OK", "TIMEOUT", "UNSUPPORTED", "INVALID_ARGUMENT"}
TreeTypeOK == ClocksTypeOK /\ PowerTypeOK /\ CallTypeOK

Powered == supply.mode = "smps" /\ supply.ready
Scaled == vos.level = 1 /\ vos.ready

\* What the call in progress has made sure of by the step it is at.
Programmed ==
  cfg.use => /\ pll.on
             /\ pll.source = cfg.source /\ pll.m = cfg.m /\ pll.n = cfg.n /\ pll.p = cfg.p
CallInv ==
  /\ pc = "supply?" => supply.mode = "smps"
  /\ pc \in Accepted \cup {"apply"} => Powered
  /\ pc \in Accepted => Derivable(cfg) /\ Fits(cfg) /\ hsidiv = 1
  /\ pc = "hsi?" => sw = "HSI"
  /\ pc \in OnHsi => sw = "HSI" /\ sws = "HSI"
  /\ pc = "vos?" => vos.level = 1
  /\ pc \in Divided \cup {"dividers"} => Scaled
  /\ pc \in Divided => div = cfg.div
  /\ pc = "hse-?" => cfg.source = "HSE"
  /\ pc = "hse+?" => cfg.source = "HSE" /\ hse.on
  /\ pc = "pll" => cfg.source = "HSI"
  /\ pc \in {"pll-?", "pll+?"} /\ cfg.source = "HSE" => hse.on /\ hse.ready
  /\ pc = "pll+?" => cfg.use /\ Programmed

\* A lock is of the rate the registers say, and needs its source.
LockInv ==
  /\ pll.on \/ pll.ready => hsidiv = 1
  /\ pll.ready => pll.out = LockRate(pll.source, pll.m, pll.n, pll.p)

\* What is in use, or will be as soon as it can be, runs and keeps running.
InUse ==
  /\ "HSE" \in {sw, sws} => hse.on /\ hse.ready
  /\ "PLL1" \in {sw, sws} =>
       /\ pll.on /\ pll.ready /\ (pll.source = "HSE" => hse.on /\ hse.ready)
       /\ WithinLimits(Tree(pll.out, div))
       /\ Powered /\ Scaled

\* The target has been asked for, and after OK reached.
Arrived ==
  /\ pc = "target?" \/ ret = "OK" =>
       /\ cfg \in Configs /\ Derivable(cfg)
       /\ sw = Target(cfg) /\ div = cfg.div /\ hsidiv = 1 /\ Programmed
  /\ ret = "OK" => sws = sw

TreeInv == TreeTypeOK /\ CallInv /\ LockInv /\ InUse /\ Arrived

-----------------------------------------------------------------------------
(* Arithmetic. *)

\* A division is determined by its remainder's range.
LEMMA DivUnique ==
  ASSUME NEW x \in Nat, NEW d \in Factor, NEW q \in Nat, q * d <= x, x < (q + 1) * d
  PROVE  x \div d = q
<1>1. x \div d \in Int /\ (x \div d) * d <= x /\ x < (x \div d + 1) * d
  BY DEF Factor
<1>2. \A a, b \in Int : a < b => (a + 1) * d <= b * d
  BY DEF Factor
<1>3. ~(x \div d < q) /\ ~(q < x \div d)
  BY <1>1, <1>2, SMT DEF Factor
<1> QED
  BY <1>1, <1>3

\* A divider makes no clock faster.
LEMMA DivLess ==
  ASSUME NEW x \in Nat, NEW d \in Factor
  PROVE  x \div d \in Nat /\ x \div d <= x
BY DEF Factor

\* No divider can take a clock of up to 100 MHz out of its limits.
LEMMA SlowFits ==
  ASSUME NEW x \in 0 .. 100, NEW d \in DivSet
  PROVE  WithinLimits(Tree(x, d))
<1> DEFINE core == x \div d.core
           ahb == core \div d.ahb
           apb == ahb \div d.apb
<1>1. core \in Nat /\ core <= 100
  BY DivLess DEF DivSet
<1>2. ahb \in Nat /\ ahb <= 100
  BY <1>1, DivLess DEF DivSet
<1>3. apb \in Nat /\ apb <= 100
  BY <1>2, DivLess DEF DivSet
<1> QED
  BY <1>1, <1>2, <1>3 DEF WithinLimits, Tree

\* The rate read back from the factors, which multiplies first, is the one derived
\* from the configuration, which divides first.
LEMMA LockOfTarget ==
  ASSUME NEW c \in Configs, Derivable(c), c.use
  PROVE  LockRate(c.source, c.m, c.n, c.p) = SystemOf(c)
<1> DEFINE s == SourceMHz(c.source)
           k == s \div c.m
           q == (k * c.n) \div c.p
<1>1. s \in Nat
  BY ClockTreeAssumption DEF SourceMHz, HSI
<1>2. c.m \in Factor /\ c.n \in Nat /\ c.p \in Factor /\ s % c.m = 0
  BY DEF Derivable, Configs, Factor
<1>3. k \in Nat /\ s = c.m * k
  BY <1>1, <1>2 DEF Factor
<1>4. k * c.n \in Nat
  BY <1>2, <1>3
<1>5. q \in Nat /\ q * c.p <= k * c.n /\ k * c.n < (q + 1) * c.p
  BY <1>2, <1>4 DEF Factor
<1>6. q * (c.m * c.p) <= s * c.n /\ s * c.n < (q + 1) * (c.m * c.p)
  <2>1. \A a, b \in Int : a <= b => c.m * a <= c.m * b
    BY <1>2 DEF Factor
  <2>2. \A a, b \in Int : a < b => c.m * a < c.m * b
    BY <1>2 DEF Factor
  <2>3. c.m * (q * c.p) <= c.m * (k * c.n) /\ c.m * (k * c.n) < c.m * ((q + 1) * c.p)
    BY <2>1, <2>2, <1>2, <1>4, <1>5 DEF Factor
  <2> QED
    BY <2>3, <1>2, <1>3, <1>5 DEF Factor
<1>7. s * c.n \in Nat /\ c.m * c.p \in Factor
  BY <1>1, <1>2 DEF Factor
<1>8. (s * c.n) \div (c.m * c.p) = q
  BY <1>5, <1>6, <1>7, DivUnique
<1> QED
  BY <1>8 DEF LockRate, SystemOf, Vco

-----------------------------------------------------------------------------
(* The invariant holds. *)

\* The configurations of the board's profiles and of other boards have their type.
LEMMA ProfileTyped ==
  ASSUME NEW f \in Frequencies
  PROVE  Profile(f) \in Configs
BY DEF Profile, Frequencies, Configs

\* A configuration that passes validation has dividers and factors to divide by.
LEMMA DerivableTyped ==
  ASSUME NEW c \in Configs, Derivable(c)
  PROVE  c.div \in DivSet /\ (c.use => c.m \in Factor /\ c.n \in Nat /\ c.p \in Factor)
BY DEF Derivable, Configs, DivSet, Factor, CoreDividers, ApbDividers

\* Reset.
LEMMA InitTreeInv == TreeInit => TreeInv
<1> SUFFICES ASSUME TreeInit PROVE TreeInv
  OBVIOUS
<1> USE DEF TreeInit, NoCfg
<1>1. TreeTypeOK
  BY ClockTreeAssumption DEF TreeTypeOK, ClocksTypeOK, PowerTypeOK, CallTypeOK, Steps, Accepted,
  OnHsi, Factor, DivSet
<1>2. CallInv /\ LockInv /\ InUse /\ Arrived
  BY DEF CallInv, LockInv, InUse, Arrived, OnHsi, Accepted, Divided
<1> QED
  BY <1>1, <1>2 DEF TreeInv

\* A call that begins.
LEMMA BeginKeeps ==
  ASSUME TreeInv, NEW c \in Configs, NEW step \in {"supply", "apply"}, Begin(step, c),
         step = "apply" => Powered
  PROVE  TreeInv'
<1> USE DEF TreeInv, Begin, clocks, power
<1>1. TreeTypeOK'
  BY DEF TreeTypeOK, ClocksTypeOK, PowerTypeOK, CallTypeOK, Steps
<1>2. CallInv'
  BY DEF CallInv, OnHsi, Accepted, Divided, Powered
<1>3. LockInv' /\ InUse' /\ Arrived'
  BY DEF LockInv, InUse, Arrived, Powered, Scaled
<1> QED
  BY <1>1, <1>2, <1>3

\* A step of the call.
LEMMA CallKeeps ==
  ASSUME TreeInv, Call
  PROVE  TreeInv'
<1> USE DEF TreeInv, TreeTypeOK, Goto, Return, clocks, power
<1>1. CASE ConfigureSupply
  <2> USE <1>1 DEF ConfigureSupply
  <2>1. ClocksTypeOK'
    BY DEF ClocksTypeOK, CallTypeOK
  <2>2. PowerTypeOK'
    <3>1. supply' = supply \/ supply' = [mode |-> "smps", ready |-> FALSE]
      OBVIOUS
    <3>2. [mode |-> "smps", ready |-> FALSE] \in [mode : {"run*", "smps", "other"}, ready : BOOLEAN]
      OBVIOUS
    <3> QED
      BY <3>1, <3>2 DEF PowerTypeOK
  <2>3. CallTypeOK'
    BY DEF CallTypeOK, Steps, OnHsi, Accepted
  <2>4. CallInv'
    BY DEF ClocksTypeOK, PowerTypeOK, CallTypeOK, CallInv, OnHsi, Accepted, Divided,
           Powered, Scaled, Programmed
  <2>5. LockInv'
    BY DEF ClocksTypeOK, CallTypeOK, CallInv, LockInv, OnHsi, Accepted, Divided
  <2>6. InUse'
    BY DEF ClocksTypeOK, PowerTypeOK, CallTypeOK, CallInv, InUse, OnHsi, Accepted,
           Divided, Powered, Scaled
  <2>7. Arrived'
    BY DEF ClocksTypeOK, CallTypeOK, CallInv, Arrived, OnHsi, Accepted, Divided, Programmed
  <2> QED
    BY <2>1, <2>2, <2>3, <2>4, <2>5, <2>6, <2>7
<1>2. CASE StartApply
  <2> USE <1>2 DEF StartApply
  <2>1. ClocksTypeOK'
    BY DEF ClocksTypeOK, CallTypeOK
  <2>2. PowerTypeOK'
    BY DEF PowerTypeOK
  <2>3. CallTypeOK'
    BY DEF CallTypeOK, Steps, OnHsi, Accepted
  <2>4. CallInv'
    BY DEF ClocksTypeOK, PowerTypeOK, CallTypeOK, CallInv, OnHsi, Accepted, Divided,
           Powered, Scaled, Programmed
  <2>5. LockInv'
    BY DEF ClocksTypeOK, CallTypeOK, CallInv, LockInv, OnHsi, Accepted, Divided
  <2>6. InUse'
    BY DEF ClocksTypeOK, PowerTypeOK, CallTypeOK, CallInv, InUse, OnHsi, Accepted,
           Divided, Powered, Scaled
  <2>7. Arrived'
    BY DEF ClocksTypeOK, CallTypeOK, CallInv, Arrived, OnHsi, Accepted, Divided, Programmed
  <2> QED
    BY <2>1, <2>2, <2>3, <2>4, <2>5, <2>6, <2>7
<1>3. CASE Refuse
  <2> USE <1>3 DEF Refuse
  <2>1. ClocksTypeOK'
    BY DEF ClocksTypeOK, CallTypeOK
  <2>2. PowerTypeOK'
    BY DEF PowerTypeOK
  <2>3. CallTypeOK'
    BY DEF CallTypeOK, Steps, OnHsi, Accepted
  <2>4. CallInv'
    BY DEF ClocksTypeOK, PowerTypeOK, CallTypeOK, CallInv, OnHsi, Accepted, Divided,
           Powered, Scaled, Programmed
  <2>5. LockInv'
    BY DEF ClocksTypeOK, CallTypeOK, CallInv, LockInv, OnHsi, Accepted, Divided
  <2>6. InUse'
    BY DEF ClocksTypeOK, PowerTypeOK, CallTypeOK, CallInv, InUse, OnHsi, Accepted,
           Divided, Powered, Scaled
  <2>7. Arrived'
    BY DEF ClocksTypeOK, CallTypeOK, CallInv, Arrived, OnHsi, Accepted, Divided, Programmed
  <2> QED
    BY <2>1, <2>2, <2>3, <2>4, <2>5, <2>6, <2>7
<1>4. CASE SwitchToHsi
  <2> USE <1>4 DEF SwitchToHsi
  <2>1. ClocksTypeOK'
    BY DEF ClocksTypeOK, CallTypeOK
  <2>2. PowerTypeOK'
    BY DEF PowerTypeOK
  <2>3. CallTypeOK'
    BY DEF CallTypeOK, Steps, OnHsi, Accepted
  <2>4. CallInv'
    BY DEF ClocksTypeOK, CallTypeOK, CallInv, OnHsi, Accepted, Divided, Powered, Fits
  <2>5. LockInv'
    BY DEF ClocksTypeOK, CallTypeOK, CallInv, LockInv, OnHsi, Accepted, Divided
  <2>6. InUse'
    BY DEF ClocksTypeOK, PowerTypeOK, CallTypeOK, CallInv, InUse, OnHsi, Accepted,
           Divided, Powered, Scaled
  <2>7. Arrived'
    BY DEF ClocksTypeOK, CallTypeOK, CallInv, Arrived, OnHsi, Accepted, Divided, Programmed
  <2> QED
    BY <2>1, <2>2, <2>3, <2>4, <2>5, <2>6, <2>7
<1>5. CASE RaiseVoltage
  <2> USE <1>5 DEF RaiseVoltage
  <2>1. ClocksTypeOK'
    BY DEF ClocksTypeOK, CallTypeOK
  <2>2. PowerTypeOK'
    BY DEF PowerTypeOK
  <2>3. CallTypeOK'
    BY DEF CallTypeOK, Steps, OnHsi, Accepted
  <2>4. CallInv'
    BY DEF ClocksTypeOK, PowerTypeOK, CallTypeOK, CallInv, OnHsi, Accepted, Divided,
           Powered, Scaled, Programmed
  <2>5. LockInv'
    BY DEF ClocksTypeOK, CallTypeOK, CallInv, LockInv, OnHsi, Accepted, Divided
  <2>6. InUse'
    BY DEF ClocksTypeOK, PowerTypeOK, CallTypeOK, CallInv, InUse, OnHsi, Accepted,
           Divided, Powered, Scaled
  <2>7. Arrived'
    BY DEF ClocksTypeOK, CallTypeOK, CallInv, Arrived, OnHsi, Accepted, Divided, Programmed
  <2> QED
    BY <2>1, <2>2, <2>3, <2>4, <2>5, <2>6, <2>7
<1>6. CASE SlowFlash
  <2> USE <1>6 DEF SlowFlash
  <2>1. ClocksTypeOK'
    BY DEF ClocksTypeOK, CallTypeOK
  <2>2. PowerTypeOK'
    BY DEF PowerTypeOK
  <2>3. CallTypeOK'
    BY DEF CallTypeOK, Steps, OnHsi, Accepted
  <2>4. CallInv'
    BY DEF ClocksTypeOK, PowerTypeOK, CallTypeOK, CallInv, OnHsi, Accepted, Divided,
           Powered, Scaled, Programmed
  <2>5. LockInv'
    BY DEF ClocksTypeOK, CallTypeOK, CallInv, LockInv, OnHsi, Accepted, Divided
  <2>6. InUse'
    BY DEF ClocksTypeOK, PowerTypeOK, CallTypeOK, CallInv, InUse, OnHsi, Accepted,
           Divided, Powered, Scaled
  <2>7. Arrived'
    BY DEF ClocksTypeOK, CallTypeOK, CallInv, Arrived, OnHsi, Accepted, Divided, Programmed
  <2> QED
    BY <2>1, <2>2, <2>3, <2>4, <2>5, <2>6, <2>7
<1>7. CASE ConfigureBusDividers
  <2> USE <1>7 DEF ConfigureBusDividers
  <2>1. ClocksTypeOK'
    BY DerivableTyped DEF ClocksTypeOK, CallTypeOK, CallInv, OnHsi, Accepted
  <2>2. PowerTypeOK'
    BY DEF PowerTypeOK
  <2>3. CallTypeOK'
    BY DEF CallTypeOK, Steps, OnHsi, Accepted
  <2>4. CallInv'
    BY DEF ClocksTypeOK, PowerTypeOK, CallTypeOK, CallInv, OnHsi, Accepted, Divided,
           Powered, Scaled, Programmed
  <2>5. LockInv'
    BY DEF ClocksTypeOK, CallTypeOK, CallInv, LockInv, OnHsi, Accepted, Divided
  <2>6. InUse'
    BY DEF ClocksTypeOK, PowerTypeOK, CallTypeOK, CallInv, InUse, OnHsi, Accepted,
           Divided, Powered, Scaled
  <2>7. Arrived'
    BY DEF ClocksTypeOK, CallTypeOK, CallInv, Arrived, OnHsi, Accepted, Divided, Programmed
  <2> QED
    BY <2>1, <2>2, <2>3, <2>4, <2>5, <2>6, <2>7
<1>8. CASE ConfigureHsi
  <2> USE <1>8 DEF ConfigureHsi
  <2>1. ClocksTypeOK'
    BY DEF ClocksTypeOK, CallTypeOK
  <2>2. PowerTypeOK'
    BY DEF PowerTypeOK
  <2>3. CallTypeOK'
    BY DEF CallTypeOK, Steps, OnHsi, Accepted
  <2>4. CallInv'
    BY DEF ClocksTypeOK, PowerTypeOK, CallTypeOK, CallInv, OnHsi, Accepted, Divided,
           Powered, Scaled, Programmed
  <2>5. LockInv'
    BY DEF ClocksTypeOK, CallTypeOK, CallInv, LockInv, OnHsi, Accepted, Divided
  <2>6. InUse'
    BY DEF ClocksTypeOK, PowerTypeOK, CallTypeOK, CallInv, InUse, OnHsi, Accepted,
           Divided, Powered, Scaled
  <2>7. Arrived'
    BY DEF ClocksTypeOK, CallTypeOK, CallInv, Arrived, OnHsi, Accepted, Divided, Programmed
  <2> QED
    BY <2>1, <2>2, <2>3, <2>4, <2>5, <2>6, <2>7
<1>9. CASE StopHse
  <2> USE <1>9 DEF StopHse
  <2>1. ClocksTypeOK'
    BY DEF ClocksTypeOK, CallTypeOK
  <2>2. PowerTypeOK'
    BY DEF PowerTypeOK
  <2>3. CallTypeOK'
    BY DEF CallTypeOK, Steps, OnHsi, Accepted
  <2>4. CallInv'
    BY DEF ClocksTypeOK, PowerTypeOK, CallTypeOK, CallInv, OnHsi, Accepted, Divided,
           Powered, Scaled, Programmed
  <2>5. LockInv'
    BY DEF ClocksTypeOK, CallTypeOK, CallInv, LockInv, OnHsi, Accepted, Divided
  <2>6. InUse'
    BY DEF ClocksTypeOK, PowerTypeOK, CallTypeOK, CallInv, InUse, OnHsi, Accepted,
           Divided, Powered, Scaled
  <2>7. Arrived'
    BY DEF ClocksTypeOK, CallTypeOK, CallInv, Arrived, OnHsi, Accepted, Divided, Programmed
  <2> QED
    BY <2>1, <2>2, <2>3, <2>4, <2>5, <2>6, <2>7
<1>10. CASE StartHse
  <2> USE <1>10 DEF StartHse
  <2>1. ClocksTypeOK'
    BY DEF ClocksTypeOK, CallTypeOK
  <2>2. PowerTypeOK'
    BY DEF PowerTypeOK
  <2>3. CallTypeOK'
    BY DEF CallTypeOK, Steps, OnHsi, Accepted
  <2>4. CallInv'
    BY DEF ClocksTypeOK, PowerTypeOK, CallTypeOK, CallInv, OnHsi, Accepted, Divided,
           Powered, Scaled, Programmed
  <2>5. LockInv'
    BY DEF ClocksTypeOK, CallTypeOK, CallInv, LockInv, OnHsi, Accepted, Divided
  <2>6. InUse'
    BY DEF ClocksTypeOK, PowerTypeOK, CallTypeOK, CallInv, InUse, OnHsi, Accepted,
           Divided, Powered, Scaled
  <2>7. Arrived'
    BY DEF ClocksTypeOK, CallTypeOK, CallInv, Arrived, OnHsi, Accepted, Divided, Programmed
  <2> QED
    BY <2>1, <2>2, <2>3, <2>4, <2>5, <2>6, <2>7
<1>11. CASE StopPll
  <2> USE <1>11 DEF StopPll
  <2>1. ClocksTypeOK'
    BY DEF ClocksTypeOK, CallTypeOK
  <2>2. PowerTypeOK'
    BY DEF PowerTypeOK
  <2>3. CallTypeOK'
    BY DEF CallTypeOK, Steps, OnHsi, Accepted
  <2>4. CallInv'
    BY DEF ClocksTypeOK, PowerTypeOK, CallTypeOK, CallInv, OnHsi, Accepted, Divided,
           Powered, Scaled, Programmed
  <2>5. LockInv'
    BY DEF ClocksTypeOK, CallTypeOK, CallInv, LockInv, OnHsi, Accepted, Divided
  <2>6. InUse'
    BY DEF ClocksTypeOK, PowerTypeOK, CallTypeOK, CallInv, InUse, OnHsi, Accepted,
           Divided, Powered, Scaled
  <2>7. Arrived'
    BY DEF ClocksTypeOK, CallTypeOK, CallInv, Arrived, OnHsi, Accepted, Divided, Programmed
  <2> QED
    BY <2>1, <2>2, <2>3, <2>4, <2>5, <2>6, <2>7
<1>12. CASE StartPll
  <2> USE <1>12 DEF StartPll
  <2>1. ClocksTypeOK'
    <3>1. cfg \in Configs /\ cfg.m \in Factor /\ cfg.n \in Nat /\ cfg.p \in Factor
      BY DerivableTyped DEF CallTypeOK, CallInv, OnHsi, Accepted
    <3> QED
      BY <3>1 DEF ClocksTypeOK, Configs
  <2>2. PowerTypeOK'
    BY DEF PowerTypeOK
  <2>3. CallTypeOK'
    BY DEF CallTypeOK, Steps, OnHsi, Accepted
  <2>4. CallInv'
    BY DEF ClocksTypeOK, PowerTypeOK, CallTypeOK, CallInv, OnHsi, Accepted, Divided,
           Powered, Scaled, Programmed
  <2>5. LockInv'
    BY DEF ClocksTypeOK, CallTypeOK, CallInv, LockInv, OnHsi, Accepted, Divided
  <2>6. InUse'
    BY DEF ClocksTypeOK, PowerTypeOK, CallTypeOK, CallInv, InUse, OnHsi, Accepted,
           Divided, Powered, Scaled
  <2>7. Arrived'
    BY DEF ClocksTypeOK, CallTypeOK, CallInv, Arrived, OnHsi, Accepted, Divided, Programmed
  <2> QED
    BY <2>1, <2>2, <2>3, <2>4, <2>5, <2>6, <2>7
<1>13. CASE SwitchToTarget
  <2> USE <1>13 DEF SwitchToTarget
  <2>1. ClocksTypeOK'
    BY DEF ClocksTypeOK, CallTypeOK, Target, Configs
  <2>2. PowerTypeOK'
    BY DEF PowerTypeOK
  <2>3. CallTypeOK'
    BY DEF CallTypeOK, Steps, OnHsi, Accepted
  <2>4. CallInv'
    BY DEF ClocksTypeOK, PowerTypeOK, CallTypeOK, CallInv, OnHsi, Accepted, Divided,
           Powered, Scaled, Programmed
  <2>5. LockInv'
    BY DEF ClocksTypeOK, CallTypeOK, CallInv, LockInv, OnHsi, Accepted, Divided
  <2>6. InUse'
    <3>1. sw = "HSI" /\ sws = "HSI" /\ div = cfg.div /\ Powered /\ Scaled
      BY DEF CallInv, OnHsi, Accepted, Divided
    <3>2. cfg \in Configs /\ Derivable(cfg) /\ Fits(cfg)
      BY DEF CallTypeOK, CallInv, OnHsi, Accepted
    <3>3. cfg.source = "HSE" => hse.on /\ hse.ready
      BY DEF CallInv
    <3>4. CASE pc = "pll-?" /\ ~cfg.use
      BY <3>1, <3>2, <3>3, <3>4 DEF InUse, Target, Configs
    <3>5. CASE pc = "pll+?" /\ pll.ready
      <4>1. cfg.use /\ pll.on /\ pll.source = cfg.source /\ pll.out = SystemOf(cfg)
        BY <3>2, <3>5, LockOfTarget DEF CallInv, Programmed, LockInv
      <4> QED
        BY <3>1, <3>2, <3>3, <3>5, <4>1 DEF InUse, Target, Fits, Powered, Scaled
    <3> QED
      BY <3>4, <3>5
  <2>7. Arrived'
    BY DEF ClocksTypeOK, CallTypeOK, CallInv, Arrived, OnHsi, Accepted, Divided, Programmed
  <2> QED
    BY <2>1, <2>2, <2>3, <2>4, <2>5, <2>6, <2>7
<1>14. CASE Verify
  <2> USE <1>14 DEF Verify
  <2>1. ClocksTypeOK'
    BY DEF ClocksTypeOK, CallTypeOK
  <2>2. PowerTypeOK'
    BY DEF PowerTypeOK
  <2>3. CallTypeOK'
    BY DEF CallTypeOK, Steps, OnHsi, Accepted
  <2>4. CallInv'
    BY DEF ClocksTypeOK, PowerTypeOK, CallTypeOK, CallInv, OnHsi, Accepted, Divided,
           Powered, Scaled, Programmed
  <2>5. LockInv'
    BY DEF ClocksTypeOK, CallTypeOK, CallInv, LockInv, OnHsi, Accepted, Divided
  <2>6. InUse'
    BY DEF ClocksTypeOK, PowerTypeOK, CallTypeOK, CallInv, InUse, OnHsi, Accepted,
           Divided, Powered, Scaled
  <2>7. Arrived'
    BY DEF ClocksTypeOK, CallTypeOK, CallInv, Arrived, OnHsi, Accepted, Divided, Programmed
  <2> QED
    BY <2>1, <2>2, <2>3, <2>4, <2>5, <2>6, <2>7
<1>15. CASE GiveUp
  <2> USE <1>15 DEF GiveUp
  <2>1. ClocksTypeOK'
    BY DEF ClocksTypeOK, CallTypeOK
  <2>2. PowerTypeOK'
    BY DEF PowerTypeOK
  <2>3. CallTypeOK'
    BY DEF CallTypeOK, Steps, OnHsi, Accepted
  <2>4. CallInv'
    BY DEF ClocksTypeOK, PowerTypeOK, CallTypeOK, CallInv, OnHsi, Accepted, Divided,
           Powered, Scaled, Programmed
  <2>5. LockInv'
    BY DEF ClocksTypeOK, CallTypeOK, CallInv, LockInv, OnHsi, Accepted, Divided
  <2>6. InUse'
    BY DEF ClocksTypeOK, PowerTypeOK, CallTypeOK, CallInv, InUse, OnHsi, Accepted,
           Divided, Powered, Scaled
  <2>7. Arrived'
    BY DEF ClocksTypeOK, CallTypeOK, CallInv, Arrived, OnHsi, Accepted, Divided, Programmed
  <2> QED
    BY <2>1, <2>2, <2>3, <2>4, <2>5, <2>6, <2>7
<1> QED
  BY <1>1, <1>2, <1>3, <1>4, <1>5, <1>6, <1>7, <1>8, <1>9, <1>10, <1>11, <1>12,
     <1>13, <1>14, <1>15 DEF Call

\* The PLL locks at the rate of its registers: HSI is undivided where it is on.
LEMMA LockedAt ==
  ASSUME TreeInv, PllLocks
  PROVE  pll' = [pll EXCEPT !.ready = TRUE, !.out = LockRate(pll.source, pll.m, pll.n, pll.p)]
<1>1. LiveSource(pll.source, HseMHz) = SourceMHz(pll.source)
  BY DEF TreeInv, LockInv, PllLocks, LiveSource, SourceMHz, HsiMHz, HSI
<1> QED
  BY <1>1 DEF PllLocks, LockRate

\* A step of the hardware.
LEMMA HardwareKeeps ==
  ASSUME TreeInv, Hardware
  PROVE  TreeInv'
<1> USE DEF TreeInv, TreeTypeOK, clocks, power, callVars
<1>1. CASE SupplySettles
  <2> USE <1>1 DEF SupplySettles
  <2>1. ClocksTypeOK'
    BY DEF ClocksTypeOK, CallTypeOK
  <2>2. PowerTypeOK'
    BY DEF PowerTypeOK
  <2>3. CallTypeOK'
    BY DEF CallTypeOK, Steps, OnHsi, Accepted
  <2>4. CallInv'
    BY DEF ClocksTypeOK, PowerTypeOK, CallTypeOK, CallInv, OnHsi, Accepted, Divided,
           Powered, Scaled, Programmed
  <2>5. LockInv'
    BY DEF ClocksTypeOK, CallTypeOK, CallInv, LockInv, OnHsi, Accepted, Divided
  <2>6. InUse'
    BY DEF ClocksTypeOK, PowerTypeOK, CallTypeOK, CallInv, InUse, OnHsi, Accepted,
           Divided, Powered, Scaled
  <2>7. Arrived'
    BY DEF ClocksTypeOK, CallTypeOK, CallInv, Arrived, OnHsi, Accepted, Divided, Programmed
  <2> QED
    BY <2>1, <2>2, <2>3, <2>4, <2>5, <2>6, <2>7
<1>2. CASE VoltageSettles
  <2> USE <1>2 DEF VoltageSettles
  <2>1. ClocksTypeOK'
    BY DEF ClocksTypeOK, CallTypeOK
  <2>2. PowerTypeOK'
    BY DEF PowerTypeOK
  <2>3. CallTypeOK'
    BY DEF CallTypeOK, Steps, OnHsi, Accepted
  <2>4. CallInv'
    BY DEF ClocksTypeOK, PowerTypeOK, CallTypeOK, CallInv, OnHsi, Accepted, Divided,
           Powered, Scaled, Programmed
  <2>5. LockInv'
    BY DEF ClocksTypeOK, CallTypeOK, CallInv, LockInv, OnHsi, Accepted, Divided
  <2>6. InUse'
    BY DEF ClocksTypeOK, PowerTypeOK, CallTypeOK, CallInv, InUse, OnHsi, Accepted,
           Divided, Powered, Scaled
  <2>7. Arrived'
    BY DEF ClocksTypeOK, CallTypeOK, CallInv, Arrived, OnHsi, Accepted, Divided, Programmed
  <2> QED
    BY <2>1, <2>2, <2>3, <2>4, <2>5, <2>6, <2>7
<1>3. CASE Switch
  <2> USE <1>3 DEF Switch
  <2>1. ClocksTypeOK'
    BY DEF ClocksTypeOK, CallTypeOK
  <2>2. PowerTypeOK'
    BY DEF PowerTypeOK
  <2>3. CallTypeOK'
    BY DEF CallTypeOK, Steps, OnHsi, Accepted
  <2>4. CallInv'
    BY DEF ClocksTypeOK, PowerTypeOK, CallTypeOK, CallInv, OnHsi, Accepted, Divided,
           Powered, Scaled, Programmed
  <2>5. LockInv'
    BY DEF ClocksTypeOK, CallTypeOK, CallInv, LockInv, OnHsi, Accepted, Divided
  <2>6. InUse'
    BY DEF ClocksTypeOK, PowerTypeOK, CallTypeOK, CallInv, InUse, OnHsi, Accepted,
           Divided, Powered, Scaled
  <2>7. Arrived'
    BY DEF ClocksTypeOK, CallTypeOK, CallInv, Arrived, OnHsi, Accepted, Divided, Programmed
  <2> QED
    BY <2>1, <2>2, <2>3, <2>4, <2>5, <2>6, <2>7
<1>4. CASE HseStarts
  <2> USE <1>4 DEF HseStarts
  <2>1. ClocksTypeOK'
    BY DEF ClocksTypeOK, CallTypeOK
  <2>2. PowerTypeOK'
    BY DEF PowerTypeOK
  <2>3. CallTypeOK'
    BY DEF CallTypeOK, Steps, OnHsi, Accepted
  <2>4. CallInv'
    BY DEF ClocksTypeOK, PowerTypeOK, CallTypeOK, CallInv, OnHsi, Accepted, Divided,
           Powered, Scaled, Programmed
  <2>5. LockInv'
    BY DEF ClocksTypeOK, CallTypeOK, CallInv, LockInv, OnHsi, Accepted, Divided
  <2>6. InUse'
    BY DEF ClocksTypeOK, PowerTypeOK, CallTypeOK, CallInv, InUse, OnHsi, Accepted,
           Divided, Powered, Scaled
  <2>7. Arrived'
    BY DEF ClocksTypeOK, CallTypeOK, CallInv, Arrived, OnHsi, Accepted, Divided, Programmed
  <2> QED
    BY <2>1, <2>2, <2>3, <2>4, <2>5, <2>6, <2>7
<1>5. CASE HseStops
  <2> USE <1>5 DEF HseStops
  <2>1. ClocksTypeOK'
    BY DEF ClocksTypeOK, CallTypeOK
  <2>2. PowerTypeOK'
    BY DEF PowerTypeOK
  <2>3. CallTypeOK'
    BY DEF CallTypeOK, Steps, OnHsi, Accepted
  <2>4. CallInv'
    BY DEF ClocksTypeOK, PowerTypeOK, CallTypeOK, CallInv, OnHsi, Accepted, Divided,
           Powered, Scaled, Programmed
  <2>5. LockInv'
    BY DEF ClocksTypeOK, CallTypeOK, CallInv, LockInv, OnHsi, Accepted, Divided
  <2>6. InUse'
    BY DEF ClocksTypeOK, PowerTypeOK, CallTypeOK, CallInv, InUse, OnHsi, Accepted,
           Divided, Powered, Scaled
  <2>7. Arrived'
    BY DEF ClocksTypeOK, CallTypeOK, CallInv, Arrived, OnHsi, Accepted, Divided, Programmed
  <2> QED
    BY <2>1, <2>2, <2>3, <2>4, <2>5, <2>6, <2>7
<1>6. CASE PllLocks
  <2> USE <1>6 DEF PllLocks
  <2>1. ClocksTypeOK'
    <3>1. pll' = [pll EXCEPT !.ready = TRUE, !.out = LockRate(pll.source, pll.m, pll.n, pll.p)]
      BY LockedAt
    <3>2. LockRate(pll.source, pll.m, pll.n, pll.p) \in Int
      BY ClockTreeAssumption DEF ClocksTypeOK, LockRate, SourceMHz, HSI, Factor
    <3> QED
      BY <3>1, <3>2 DEF ClocksTypeOK
  <2>2. PowerTypeOK'
    BY DEF PowerTypeOK
  <2>3. CallTypeOK'
    BY DEF CallTypeOK, Steps, OnHsi, Accepted
  <2>4. CallInv'
    BY DEF ClocksTypeOK, PowerTypeOK, CallTypeOK, CallInv, OnHsi, Accepted, Divided,
           Powered, Scaled, Programmed
  <2>5. LockInv'
    BY LockedAt DEF ClocksTypeOK, LockInv
  <2>6. InUse'
    BY DEF ClocksTypeOK, PowerTypeOK, CallTypeOK, CallInv, InUse, OnHsi, Accepted,
           Divided, Powered, Scaled
  <2>7. Arrived'
    BY DEF ClocksTypeOK, CallTypeOK, CallInv, Arrived, OnHsi, Accepted, Divided, Programmed
  <2> QED
    BY <2>1, <2>2, <2>3, <2>4, <2>5, <2>6, <2>7
<1>7. CASE PllStops
  <2> USE <1>7 DEF PllStops
  <2>1. ClocksTypeOK'
    BY DEF ClocksTypeOK, CallTypeOK
  <2>2. PowerTypeOK'
    BY DEF PowerTypeOK
  <2>3. CallTypeOK'
    BY DEF CallTypeOK, Steps, OnHsi, Accepted
  <2>4. CallInv'
    BY DEF ClocksTypeOK, PowerTypeOK, CallTypeOK, CallInv, OnHsi, Accepted, Divided,
           Powered, Scaled, Programmed
  <2>5. LockInv'
    BY DEF ClocksTypeOK, CallTypeOK, CallInv, LockInv, OnHsi, Accepted, Divided
  <2>6. InUse'
    BY DEF ClocksTypeOK, PowerTypeOK, CallTypeOK, CallInv, InUse, OnHsi, Accepted,
           Divided, Powered, Scaled
  <2>7. Arrived'
    BY DEF ClocksTypeOK, CallTypeOK, CallInv, Arrived, OnHsi, Accepted, Divided, Programmed
  <2> QED
    BY <2>1, <2>2, <2>3, <2>4, <2>5, <2>6, <2>7
<1> QED
  BY <1>1, <1>2, <1>3, <1>4, <1>5, <1>6, <1>7 DEF Hardware

\* The invariant is inductive.
LEMMA TreeInvKept == TreeInv /\ [TreeNext]_treeVars => TreeInv'
<1> SUFFICES ASSUME TreeInv, [TreeNext]_treeVars PROVE TreeInv'
  OBVIOUS
<1>1. CASE \E f \in Frequencies : SetFrequency(f)
  BY <1>1, ProfileTyped, BeginKeeps DEF SetFrequency
<1>2. CASE \E c \in Managed : ApplyManaged(c)
  <2>1. PICK c \in Managed : ApplyManaged(c)
    BY <1>2
  <2>2. c \in Configs /\ Powered
    BY <2>1, ClockTreeAssumption DEF ApplyManaged, Powered
  <2> QED
    BY <2>1, <2>2, BeginKeeps DEF ApplyManaged
<1>3. CASE Call
  BY <1>3, CallKeeps
<1>4. CASE Hardware
  BY <1>4, HardwareKeeps
<1>5. CASE UNCHANGED treeVars
  <2> USE <1>5 DEF treeVars, TreeInv
  <2>1. TreeTypeOK'
    BY DEF TreeTypeOK, ClocksTypeOK, PowerTypeOK, CallTypeOK
  <2>2. CallInv'
    BY DEF CallInv, Powered, Scaled, Programmed
  <2>3. LockInv' /\ InUse' /\ Arrived'
    BY DEF LockInv, InUse, Arrived, Powered, Scaled, Programmed
  <2> QED
    BY <2>1, <2>2, <2>3
<1> QED
  BY <1>1, <1>2, <1>3, <1>4, <1>5 DEF TreeNext

\* An init, and an operation of a PWM channel, only read the tree.
LEMMA ClientSteps ==
  ASSUME Next
  PROVE  \/ Change
         \/ (Call \/ Hardware) /\ UNCHANGED clientVars
         \/ UNCHANGED <<treeVars, timpre>>
<1>1. CASE \E r \in UartRequests, bits \in {7, 8}, parity \in BOOLEAN : UartInit(r, bits, parity)
  BY <1>1, Zenon DEF UartInit, Becomes
<1>2. CASE \E r \in SpiRequests : SpiInit(r)
  BY <1>2, Zenon DEF SpiInit, Becomes
<1>3. CASE \E bus \in {100, 400} : I2cInit(bus)
  BY <1>3, Zenon DEF I2cInit, Becomes
<1>4. CASE \E r \in TimerRequests : TimerInit(r)
  BY <1>4, Zenon DEF TimerInit, Becomes
<1>5. CASE TimeInit
  BY <1>5, Zenon DEF TimeInit, Becomes
<1>6. CASE \E r \in PwmRequests, duty \in Duties : PwmInit(r, duty)
  BY <1>6, Zenon DEF PwmInit, Becomes
<1>7. CASE PwmStart \/ PwmStop \/ (\E duty \in Duties : PwmSetDuty(duty)) \/ PwmPeriodEnds
  BY <1>7, Zenon DEF PwmStart, PwmStop, PwmSetDuty, PwmPeriodEnds, Pwm
<1> QED
  BY <1>1, <1>2, <1>3, <1>4, <1>5, <1>6, <1>7, Zenon DEF Next

\* The clients only read the tree: each behaviour of ClockClients is one of ClockTree.
THEOREM ClientsLeaveTheTree == Spec => TreeSpec
<1>1. Init => TreeInit
  BY DEF Init
<1>2. [Next]_vars => [TreeNext]_treeVars
  <2> SUFFICES ASSUME [Next]_vars PROVE [TreeNext]_treeVars
    OBVIOUS
  <2>1. CASE Change
    BY <2>1 DEF Change, TreeNext
  <2>2. CASE (Call \/ Hardware) /\ UNCHANGED clientVars
    BY <2>2 DEF TreeNext
  <2>3. CASE UNCHANGED vars
    BY <2>3 DEF vars
  <2>4. CASE UNCHANGED <<treeVars, timpre>>
    BY <2>4
  <2> QED
    BY <2>1, <2>2, <2>3, <2>4, ClientSteps
<1> QED
  BY <1>1, <1>2, PTL DEF Spec, TreeSpec

\* The invariant, in every state of every specification of the tree.
THEOREM TreeIsInvariant == TreeSpec => []TreeInv
BY InitTreeInv, TreeInvKept, PTL DEF TreeSpec

-----------------------------------------------------------------------------
(* What follows from the invariant. *)

\* Whatever is in use, only the PLL is faster than HSI.
LEMMA SlowSources ==
  ASSUME TreeInv, sws # "PLL1"
  PROVE  Running \in 0 .. HSI
BY ClockTreeAssumption DEF TreeInv, TreeTypeOK, ClocksTypeOK, Running, HsiMHz, HSI

\* The registers tell the rate in use.
LEMMA ReadBack ==
  ASSUME TreeInv
  PROVE  LiveSystem(HseMHz) = Running /\ (Readable => LiveSystem(0) = Running)
<1> USE DEF TreeInv, TreeTypeOK, LiveSystem, LiveSource, Running, Readable
<1>1. CASE sws = "HSI"
  BY <1>1
<1>2. CASE sws = "HSE"
  BY <1>2
<1>3. CASE sws = "PLL1"
  <2>1. hsidiv = 1 /\ pll.out = LockRate(pll.source, pll.m, pll.n, pll.p)
    BY <1>3 DEF InUse, LockInv
  <2>2. LiveSource(pll.source, HseMHz) = SourceMHz(pll.source)
    BY <2>1 DEF SourceMHz, HsiMHz, HSI
  <2>3. pll.source = "HSE" => LiveSystem(0) = 0
    BY <1>3 DEF ClocksTypeOK, Factor
  <2>4. pll.source = "HSI" => LiveSource(pll.source, 0) = SourceMHz(pll.source)
    BY <2>1 DEF SourceMHz, HsiMHz, HSI
  <2> QED
    BY <1>3, <2>1, <2>2, <2>3, <2>4 DEF LockRate, ClocksTypeOK
<1> QED
  BY <1>1, <1>2, <1>3 DEF ClocksTypeOK

\* The rate in use is a natural number.
LEMMA RunningTyped == TreeInv => Running \in Nat
<1> SUFFICES ASSUME TreeInv PROVE Running \in Nat
  OBVIOUS
<1>1. CASE sws = "PLL1"
  <2> DEFINE n == SourceMHz(pll.source) * pll.n
             d == pll.m * pll.p
  <2>1. n \in Nat /\ d \in Factor
    BY ClockTreeAssumption DEF TreeInv, TreeTypeOK, ClocksTypeOK, SourceMHz, HSI, Factor
  <2>2. n \div d \in Nat
    BY <2>1, DivLess
  <2> QED
    BY <1>1, <2>2 DEF TreeInv, InUse, LockInv, LockRate, Running
<1>2. CASE sws # "PLL1"
  BY <1>2, SlowSources DEF HSI
<1> QED
  BY <1>1, <1>2

\* The invariant puts the clock within its limits.
LEMMA LimitsHold == TreeInv => RunsWithinLimits
<1> SUFFICES ASSUME TreeInv PROVE RunsWithinLimits
  OBVIOUS
<1> USE DEF TreeInv, TreeTypeOK
<1>1. Alive(sws)
  BY DEF ClocksTypeOK, InUse, Alive
<1>2. CASE sws = "PLL1"
  <2>1. Running = pll.out /\ WithinLimits(Tree(pll.out, div)) /\ Powered /\ Scaled
    BY <1>2 DEF InUse, Running
  <2>2. supply = [mode |-> "smps", ready |-> TRUE] /\ vos = [level |-> 1, ready |-> TRUE]
    BY <2>1 DEF PowerTypeOK, Powered, Scaled
  <2> QED
    BY <1>1, <2>1, <2>2 DEF RunsWithinLimits, PowerTypeOK
<1>3. CASE sws # "PLL1"
  <2>1. Running \in 0 .. 100 /\ ~(Running > HSI)
    BY <1>3, SlowSources DEF HSI
  <2>2. WithinLimits(Tree(Running, div))
    BY <2>1, SlowFits DEF ClocksTypeOK
  <2> QED
    BY <1>1, <2>1, <2>2 DEF RunsWithinLimits
<1> QED
  BY <1>2, <1>3

\* docs/clocks.md, "managed envelope": at every step of every change, and after each
\* that gave up, the source in use runs, no bus exceeds its limit, and supply,
\* voltage and flash are those its rate needs (stm32h755_clock_apply).
THEOREM ClockIsWithinLimits == Spec => []RunsWithinLimits
BY LimitsHold, TreeIsInvariant, ClientsLeaveTheTree, PTL

\* das_clock_set_frequency returns OK only for the profile asked for, on a clock that
\* nothing left under way will change; and the check of the tree read back never
\* refuses a change whose waits were all answered.
THEOREM OkIsTheProfile == Spec => []OkMeansProfile
<1>1. TreeInv => OkMeansProfile
  <2> SUFFICES ASSUME TreeInv, ret = "OK" \/ (pc = "target?" /\ sws = Target(cfg))
      PROVE  /\ sw = Target(cfg) /\ sws = sw
             /\ Running = SystemOf(cfg) /\ div = cfg.div
             /\ sws = "PLL1" => pll.on
             /\ LiveSystem(HseMHz) = Running
    BY DEF OkMeansProfile
  <2> USE DEF TreeInv
  <2>1. /\ cfg \in Configs /\ Derivable(cfg) /\ hsidiv = 1 /\ Programmed
        /\ sw = Target(cfg) /\ sws = sw /\ div = cfg.div
    BY DEF Arrived
  <2>2. Running = SystemOf(cfg)
    <3>1. CASE cfg.use
      BY <2>1, <3>1, LockOfTarget
      DEF InUse, LockInv, Programmed, Target, Running
    <3>2. CASE ~cfg.use
      BY <2>1, <3>2 DEF Target, Configs, Running, SystemOf, SourceMHz, HsiMHz, HSI
    <3> QED
      BY <3>1, <3>2 DEF Configs
  <2>3. sws = "PLL1" => pll.on
    BY DEF InUse
  <2> QED
    BY <2>1, <2>2, <2>3, ReadBack
<1> QED
  BY <1>1, TreeIsInvariant, ClientsLeaveTheTree, PTL

\* timer_kernel_frequency, from the rates of AHB and APB, is the kernel clock of the
\* reference manual: twice the bus, or four times with TIMPRE, at most the AHB.
LEMMA KernelOfRates ==
  ASSUME NEW ahb \in Nat, NEW apb \in Factor, apb <= ahb, ahb % apb = 0, NEW pre \in BOOLEAN
  PROVE  KernelFrequency(ahb, ahb \div apb, pre) =
           LET most == (IF pre THEN 4 ELSE 2) * apb IN IF most < ahb THEN most ELSE ahb
<1> DEFINE k == ahb \div apb
<1>1. k \in Factor /\ ahb = apb * k
  BY DEF Factor
<1>2. ahb \div k = apb
  <2>1. apb * k <= ahb /\ ahb < (apb + 1) * k
    BY <1>1 DEF Factor
  <2> QED
    BY <1>1, <2>1, DivUnique DEF Factor
<1>3. CASE ~pre
  BY <1>1, <1>2, <1>3 DEF KernelFrequency, Factor
<1>4. CASE pre
  BY <1>1, <1>2, <1>4 DEF KernelFrequency, Factor
<1> QED
  BY <1>3, <1>4

\* The timer clock selection is never written.
LEMMA TimpreTyped == Spec => [](timpre \in BOOLEAN)
<1>1. Init => timpre \in BOOLEAN
  BY DEF Init
<1>2. timpre \in BOOLEAN /\ [Next]_vars => (timpre \in BOOLEAN)'
  <2> SUFFICES ASSUME timpre \in BOOLEAN, [Next]_vars PROVE UNCHANGED timpre
    OBVIOUS
  <2> QED
    BY ClientSteps DEF vars, clientVars, Change
<1> QED
  BY <1>1, <1>2, PTL DEF Spec

\* The kernel clock a timer computes with is the one it has.
LEMMA KernelIsTrue ==
  ASSUME TreeInv, timpre \in BOOLEAN, TimerReadable
  PROVE  TimerKernel = TrueTimerKernel /\ TimerKernel \in Nat
<1>1. LiveTree(0) = BusRates
  BY ReadBack DEF TimerReadable, LiveTree, BusRates
<1>2. BusRates.ahb \in Nat /\ BusRates.apb \in Nat /\ BusRates.apb <= BusRates.ahb
  BY RunningTyped, DivLess DEF TreeInv, TreeTypeOK, ClocksTypeOK, DivSet, BusRates, Tree
<1>3. BusRates.apb \in Factor /\ BusRates.ahb % BusRates.apb = 0
  BY <1>1, <1>2 DEF TimerReadable, Factor
<1>4. KernelFrequency(BusRates.ahb, BusRates.ahb \div BusRates.apb, timpre) =
        LET most == (IF timpre THEN 4 ELSE 2) * BusRates.apb
        IN IF most < BusRates.ahb THEN most ELSE BusRates.ahb
  BY <1>2, <1>3, KernelOfRates
<1>5. TimerKernel = TrueTimerKernel
  BY <1>1, <1>4 DEF TimerKernel, TrueTimerKernel
<1> QED
  BY <1>2, <1>5, SMT DEF TrueTimerKernel, Hz

\* das_clock_get_frequency returns the rate in use, or refuses, in the middle of a
\* change and after one that gave up, and a timer reports the rate it counts at.
THEOREM RatesReadBack == Spec => []ReadsBackTrue
<1>1. TreeInv /\ timpre \in BOOLEAN => ReadsBackTrue
  <2> SUFFICES ASSUME TreeInv, timpre \in BOOLEAN PROVE ReadsBackTrue
    OBVIOUS
  <2>1. LiveSystem(HseMHz) = Running /\ (Readable => LiveSystem(0) = Running)
    BY ReadBack
  <2>2. TimerReadable => TimerKernel = TrueTimerKernel
    BY KernelIsTrue
  <2> QED
    BY <2>1, <2>2 DEF ReadsBackTrue, Frequency
<1> QED
  BY <1>1, TreeIsInvariant, ClientsLeaveTheTree, TimpreTyped, PTL

-----------------------------------------------------------------------------
(* Duties and compare values. *)

\* What rounding to the nearest means.
LEMMA NearestBounds ==
  ASSUME NEW n \in Nat, NEW d \in Factor
  PROVE  /\ Nearest(n, d) \in Nat
         /\ Nearest(n, d) * d <= n + d \div 2
         /\ n + d \div 2 < Nearest(n, d) * d + d
<1> DEFINE x == n + d \div 2
           q == x \div d
<1>1. x \in Nat
  BY DEF Factor
<1>2. q \in Nat /\ q * d <= x /\ x < (q + 1) * d
  BY <1>1 DEF Factor
<1>3. (q + 1) * d = q * d + d
  BY <1>2 DEF Factor
<1> QED
  BY <1>2, <1>3 DEF Nearest

\* A number is the nearest where the remainder says so.
LEMMA NearestUnique ==
  ASSUME NEW n \in Nat, NEW d \in Factor, NEW q \in Nat,
         q * d <= n + d \div 2, n + d \div 2 < q * d + d
  PROVE  Nearest(n, d) = q
<1>1. n + d \div 2 \in Nat /\ (q + 1) * d = q * d + d
  BY DEF Factor
<1> QED
  BY <1>1, DivUnique DEF Nearest

\* What the arithmetic of duties and periods needs to know of its sizes.
LEMMA Sizes ==
  /\ Top \in Nat \ {0} /\ Mille \in Nat \ {0} /\ 2 * Mille <= Top /\ Top >= 4
  /\ Duties \subseteq 0 .. Mille
BY RatesAssumption, ClockClientsAssumption

\* The fastest clock of a timer is below the square of the longest period.
LEMMA ClockBelowSquare ==
  ASSUME NEW most \in Nat, NEW top \in Nat \ {0}, most \div top < top
  PROVE  most < top * top
<1>1. most \div top \in Nat /\ most < (most \div top + 1) * top
  OBVIOUS
<1>2. (most \div top + 1) * top <= top * top
  BY <1>1
<1> QED
  BY <1>1, <1>2

\* A megahertz in hertz.
LEMMA HertzTyped == Hz \in Nat \ {0} /\ 200 * Hz \in Nat
BY SMT DEF Hz

\* pwm_compare: the nearest compare value, unless it does not fit CCR4, which happens
\* for a full duty of the longest period only.
LEMMA CompareIsNearest ==
  ASSUME NEW counts \in 1 .. Top, NEW duty \in 0 .. Mille
  PROVE  /\ PwmCompare(counts, duty) \in Nat /\ PwmCompare(counts, duty) < Top
         /\ \/ PwmCompare(counts, duty) = Nearest(counts * duty, Mille)
            \/ PwmCompare(counts, duty) = Top - 1 /\ counts = Top /\ duty = Mille
<1> USE Sizes
<1> DEFINE r == Nearest(counts * duty, Mille)
           h == Mille \div 2
<1>1. Mille \in Factor /\ Top \in Factor /\ 2 * Mille <= Top /\ h \in Nat /\ 2 * h <= Mille
  BY DEF Factor
<1>2. counts * duty \in Nat
  OBVIOUS
<1>3. r \in Nat /\ r * Mille <= counts * duty + h
  BY <1>1, <1>2, NearestBounds
<1>4. PwmCompare(counts, duty) = IF r > Top - 1 THEN Top - 1 ELSE r
  BY DEF PwmCompare, Nearest
<1>5. ASSUME r > Top - 1 PROVE counts = Top /\ duty = Mille
  <2>1. Top * Mille <= r * Mille
    BY <1>1, <1>3, <1>5 DEF Factor
  <2>2. Top * Mille <= counts * duty + h
    BY <1>1, <1>2, <1>3, <2>1 DEF Factor
  <2>3. duty = Mille
    <3>1. counts * duty <= Top * duty
      BY <1>1 DEF Factor
    <3>2. duty < Mille => Top * duty <= Top * Mille - Top
      <4>1. duty < Mille => Top * duty <= Top * (Mille - 1)
        BY <1>1 DEF Factor
      <4> QED
        BY <4>1, <1>1 DEF Factor
    <3> QED
      BY <1>1, <2>2, <3>1, <3>2 DEF Factor
  <2>4. counts = Top
    <3>1. counts < Top => counts * Mille <= Top * Mille - Mille
      <4>1. counts < Top => counts * Mille <= (Top - 1) * Mille
        BY <1>1 DEF Factor
      <4> QED
        BY <4>1, <1>1 DEF Factor
    <3> QED
      BY <1>1, <2>2, <2>3, <3>1 DEF Factor
  <2> QED
    BY <2>3, <2>4
<1> QED
  BY <1>1, <1>3, <1>4, <1>5 DEF Factor

\* das_pwm_get_duty returns what das_pwm_set_duty was given, where the period has at
\* least as many counts as there are duties.
THEOREM DutyReadsBack ==
  ASSUME NEW counts \in 1 .. Top, NEW duty \in 0 .. Mille, counts >= Mille
  PROVE  ReadDuty(counts, PwmCompare(counts, duty)) = duty
<1> USE Sizes
<1> DEFINE compare == PwmCompare(counts, duty)
           h == Mille \div 2
           g == counts \div 2
<1>1. /\ Mille \in Factor /\ Top \in Factor /\ 2 * Mille <= Top /\ counts \in Factor
      /\ h \in Nat /\ 2 * h <= Mille /\ Mille <= 2 * h + 1
      /\ g \in Nat /\ 2 * g <= counts /\ counts <= 2 * g + 1
  BY DEF Factor
<1>2. compare \in Nat /\ compare * Mille \in Nat /\ duty * counts \in Nat
      /\ duty * counts = counts * duty
  BY <1>1, CompareIsNearest DEF Factor
<1>3. ReadDuty(counts, compare) =
        LET d == Nearest(compare * Mille, counts) IN IF d > Mille THEN Mille ELSE d
  BY DEF ReadDuty
<1>4. CASE compare = Nearest(counts * duty, Mille)
  <2>1. compare * Mille <= counts * duty + h /\ counts * duty + h < compare * Mille + Mille
    BY <1>1, <1>2, <1>4, NearestBounds
  <2>2. compare * Mille + g < duty * counts + counts
    <3>1. CASE counts = Mille
      <4>1. duty * Mille <= counts * duty + h /\ counts * duty + h < duty * Mille + Mille
        BY <1>1, <1>2, <3>1 DEF Factor
      <4>2. counts * duty \in Nat /\ duty \in Nat
        BY <1>1 DEF Factor
      <4>3. Nearest(counts * duty, Mille) = duty
        BY <1>1, <4>1, <4>2, NearestUnique
      <4>4. compare = duty
        BY <1>4, <4>3
      <4> QED
        BY <1>1, <1>2, <3>1, <4>4 DEF Factor
    <3>2. CASE counts > Mille
      BY <1>1, <1>2, <2>1, <3>2 DEF Factor
    <3> QED
      BY <1>1, <3>1, <3>2 DEF Factor
  <2>3. duty * counts <= compare * Mille + g
    BY <1>1, <1>2, <2>1 DEF Factor
  <2>4. compare * Mille \in Nat /\ duty \in Nat
    BY <1>2
  <2>5. Nearest(compare * Mille, counts) = duty
    BY <1>1, <2>2, <2>3, <2>4, NearestUnique
  <2> QED
    BY <1>1, <1>3, <2>5 DEF Factor
<1>5. CASE compare = Top - 1 /\ counts = Top /\ duty = Mille
  <2> DEFINE d == Nearest(compare * Mille, counts)
  <2>1. d \in Nat /\ compare * Mille + g < d * counts + counts
    BY <1>1, <1>2, NearestBounds
  <2>2. Mille * counts <= compare * Mille + g
    BY <1>1, <1>5 DEF Factor
  <2>3. Mille * counts < (d + 1) * counts
    BY <1>1, <1>2, <2>1, <2>2 DEF Factor
  <2>4. d + 1 > Mille
    BY <1>1, <2>1, <2>3 DEF Factor
  <2> QED
    BY <1>1, <1>3, <1>5, <2>1, <2>4 DEF Factor
<1> QED
  BY <1>4, <1>5, CompareIsNearest

-----------------------------------------------------------------------------
(* The channel. *)

\* The dividers that pwm_dividers accepts, and a channel that has them; its compare
\* value is that of the duty set last.
Periods == [ok : {TRUE}, psc : Nat, arr : 0 .. Top - 1]
Channels ==
  [of : {"pwm"}, rate : PwmRequests, reg : Periods, duty : 0 .. Mille, on : BOOLEAN,
   compare : Nat, active : Nat, late : BOOLEAN]
Channel(c) ==
  /\ c \in Channels
  /\ c.compare = PwmCompare(c.reg.arr + 1, c.duty)
  /\ c.late \/ c.active = c.compare
PwmInv == client.of = "pwm" /\ client.reg.ok => Channel(client)

\* A period that pwm_dividers accepts fits its field.
LEMMA PeriodFits ==
  ASSUME NEW clock \in Nat, NEW rate \in Factor, PwmDividers(clock, rate).ok
  PROVE  PwmDividers(clock, rate) \in Periods
<1> USE RatesAssumption
<1> DEFINE presc == PwmPrescaler(Nearest(clock, rate))
           period == Nearest(clock, rate * presc)
           counts == IF period = 0 THEN 1 ELSE period
<1>1. rate <= clock /\ ~(counts > Top)
      /\ PwmDividers(clock, rate) = [ok |-> TRUE, psc |-> presc - 1, arr |-> counts - 1]
  BY DEF PwmDividers, None, Factor
<1>2. presc \in Factor
  <2> DEFINE n == Nearest(clock, rate)
  <2>1. n \in Nat /\ clock + rate \div 2 < n * rate + rate
    BY NearestBounds
  <2>2. n # 0
    BY <1>1, <2>1 DEF Factor
  <2>3. n + Top - 1 \in Nat /\ n + Top - 1 >= Top /\ Top \in Factor
    BY <2>1, <2>2 DEF Factor
  <2>4. \A x \in Nat, d \in Factor : x >= d => x \div d \in Factor
    BY DEF Factor
  <2> QED
    BY <2>3, <2>4 DEF PwmPrescaler, CeilDiv
<1>3. rate * presc \in Factor
  BY <1>2 DEF Factor
<1>4. period \in Nat
  BY <1>3, NearestBounds
<1>5. counts \in 1 .. Top
  BY <1>1, <1>4
<1> QED
  BY <1>1, <1>2, <1>5 DEF Periods, Factor

\* No other init makes a PWM channel.
LEMMA OtherInits ==
  ASSUME NEW r, NEW bits, NEW parity, NEW bus,
         UartInit(r, bits, parity) \/ SpiInit(r) \/ I2cInit(bus) \/ TimerInit(r) \/ TimeInit
  PROVE  client'.of # "pwm"
<1>1. CASE UartInit(r, bits, parity)
  <2>1. client'.of = "uart"
    BY <1>1, Zenon DEF UartInit, Becomes
  <2> QED
    BY <2>1
<1>2. CASE SpiInit(r)
  <2>1. client'.of = "spi"
    BY <1>2, Zenon DEF SpiInit, Becomes
  <2> QED
    BY <2>1
<1>3. CASE I2cInit(bus)
  <2>1. client'.of = "i2c"
    BY <1>3, Zenon DEF I2cInit, Becomes
  <2> QED
    BY <2>1
<1>4. CASE TimerInit(r)
  <2>1. client'.of = "timer"
    BY <1>4, Zenon DEF TimerInit, Becomes
  <2> QED
    BY <2>1
<1>5. CASE TimeInit
  <2>1. client'.of = "systick"
    BY <1>5, Zenon DEF TimeInit, Becomes
  <2> QED
    BY <2>1
<1> QED
  BY <1>1, <1>2, <1>3, <1>4, <1>5

\* The operations of a channel keep it one.
LEMMA ChannelKept ==
  ASSUME Channel(client),
         PwmStart \/ PwmStop \/ (\E duty \in Duties : PwmSetDuty(duty)) \/ PwmPeriodEnds
  PROVE  Channel(client')
<1> USE Sizes DEF Channel, Channels
<1>1. CASE PwmStart
  BY <1>1 DEF PwmStart, Pwm
<1>2. CASE PwmStop
  BY <1>2 DEF PwmStop, Pwm
<1>3. CASE \E duty \in Duties : PwmSetDuty(duty)
  <2>1. PICK duty \in Duties : PwmSetDuty(duty)
    BY <1>3
  <2>2. client.reg.arr + 1 \in 1 .. Top
    BY DEF Periods
  <2>3. PwmCompare(client.reg.arr + 1, duty) \in Nat
    BY <2>2, CompareIsNearest
  <2> QED
    BY <2>1, <2>3 DEF PwmSetDuty, Pwm
<1>4. CASE PwmPeriodEnds
  BY <1>4 DEF PwmPeriodEnds, Pwm
<1> QED
  BY <1>1, <1>2, <1>3, <1>4

\* An init sets up a channel, or is refused.
LEMMA ChannelStarts ==
  ASSUME TreeInv, timpre \in BOOLEAN,
         NEW rate \in PwmRequests, NEW duty \in Duties, PwmInit(rate, duty), client'.reg.ok
  PROVE  Channel(client')
<1> USE Sizes
<1> DEFINE d == PwmDividers(TimerKernel, rate)
           compare == PwmCompare(d.arr + 1, duty)
<1>1. TimerKernel \in Nat /\ rate \in Factor
  BY KernelIsTrue, ClockClientsAssumption DEF PwmInit, Factor
<1>2. client' = IF d.ok
                THEN [of |-> "pwm", rate |-> rate, reg |-> d, duty |-> duty, on |-> FALSE,
                      compare |-> compare, active |-> compare, late |-> FALSE]
                ELSE [of |-> "pwm", rate |-> rate, reg |-> d]
  BY Zenon DEF PwmInit, Becomes
<1>3. d.ok
  BY <1>2
<1>4. d \in Periods
  BY <1>1, <1>3, PeriodFits
<1>5. d.arr + 1 \in 1 .. Top
  BY <1>4 DEF Periods
<1>6. compare \in Nat
  BY <1>5, CompareIsNearest
<1> HIDE DEF d, compare
<1>7. client' = [of |-> "pwm", rate |-> rate, reg |-> d, duty |-> duty, on |-> FALSE,
                 compare |-> compare, active |-> compare, late |-> FALSE]
  BY <1>2, <1>3
<1>8. client' \in Channels
  BY <1>4, <1>6, <1>7 DEF Channels
<1>9. client'.compare = PwmCompare(client'.reg.arr + 1, client'.duty)
  BY <1>7 DEF compare
<1> QED
  BY <1>7, <1>8, <1>9 DEF Channel

\* Every step keeps the channel.
LEMMA PwmInvKept ==
  ASSUME TreeInv, timpre \in BOOLEAN, PwmInv, [Next]_vars
  PROVE  PwmInv'
<1> SUFFICES ASSUME client'.of = "pwm", client'.reg.ok PROVE Channel(client')
  BY DEF PwmInv, Channel, Channels
<1>1. CASE UNCHANGED client
  BY <1>1 DEF PwmInv
<1>2. CASE Change
  <2>1. client' = client \/ client'.of = "none"
    BY <1>2 DEF Change, NoClient
  <2> QED
    BY <1>1, <2>1
<1>3. CASE \E r \in PwmRequests, duty \in Duties : PwmInit(r, duty)
  BY <1>3, ChannelStarts
<1>4. CASE PwmStart \/ PwmStop \/ (\E duty \in Duties : PwmSetDuty(duty)) \/ PwmPeriodEnds
  <2>1. client.of = "pwm" /\ client.reg.ok
    BY <1>4, Zenon DEF PwmStart, PwmStop, PwmSetDuty, PwmPeriodEnds, Pwm
  <2> QED
    BY <1>4, <2>1, ChannelKept DEF PwmInv
<1>5. (Call \/ Hardware) /\ UNCHANGED clientVars => UNCHANGED client
  BY DEF clientVars
<1>6. UNCHANGED vars => UNCHANGED client
  BY DEF vars, clientVars
<1> QED
  BY <1>1, <1>2, <1>3, <1>4, <1>5, <1>6, OtherInits, Zenon DEF Next

\* The channel is one in every state.
LEMMA PwmIsInvariant == Spec => []PwmInv
<1>1. Init => PwmInv
  <2> SUFFICES ASSUME Init PROVE client.of = "none"
    BY DEF PwmInv
  <2> QED
    BY DEF Init, NoClient
<1>2. TreeInv /\ timpre \in BOOLEAN /\ PwmInv /\ [Next]_vars => PwmInv'
  BY PwmInvKept
<1> QED
  BY <1>1, <1>2, TreeIsInvariant, ClientsLeaveTheTree, TimpreTyped, PTL DEF Spec

\* docs/timer.md: over every sequence of operations of a PWM channel and every change
\* of the clock, the duty read back is the one set last wherever the period tells all
\* duties apart, and the channel works with it but for one set in the middle of a
\* period (das_pwm_init, das_pwm_set_duty, das_pwm_get_duty).
THEOREM DutyIsKept == Spec => []DutyHolds
<1>1. PwmInv => DutyHolds
  <2> USE Sizes
  <2> SUFFICES ASSUME client.of = "pwm", client.reg.ok, Channel(client)
      PROVE  /\ client.compare < Top
             /\ client.reg.arr + 1 >= Mille =>
                  ReadDuty(client.reg.arr + 1, client.compare) = client.duty
             /\ client.late \/ client.active = client.compare
    BY DEF PwmInv, DutyHolds
  <2>1. /\ client.reg.arr + 1 \in 1 .. Top /\ client.duty \in 0 .. Mille
        /\ client.compare = PwmCompare(client.reg.arr + 1, client.duty)
        /\ client.late \/ client.active = client.compare
    BY DEF Channel, Channels, Periods
  <2> QED
    BY <2>1, CompareIsNearest, DutyReadsBack
<1> QED
  BY <1>1, PwmIsInvariant, PTL

-----------------------------------------------------------------------------
(* What the searches for dividers find. *)

\* The eight dividers.
LEMMA Dividers8 ==
  /\ Divider(0) = 2 /\ Divider(1) = 4 /\ Divider(2) = 8 /\ Divider(3) = 16
  /\ Divider(4) = 32 /\ Divider(5) = 64 /\ Divider(6) = 128 /\ Divider(7) = 256
BY DEF Divider

\* The first of the eight dividers that is slow enough, if there is one.
LEMMA PrescalerIsFirst ==
  ASSUME NEW kernel \in Nat, NEW rate \in Nat
  PROVE  \/ /\ SelectPrescaler(kernel, rate) = None
            /\ \A e \in 0 .. 7 : ~(kernel \div Divider(e) <= rate)
         \/ \E e \in 0 .. 7 :
              /\ SelectPrescaler(kernel, rate) =
                   [ok |-> kernel \div Divider(e) # 0, mbr |-> e]
              /\ kernel \div Divider(e) <= rate
              /\ \A d \in 0 .. e - 1 : ~(kernel \div Divider(d) <= rate)
<1> DEFINE Slow(e) == kernel \div Divider(e) <= rate
           Reg(e)  == [ok |-> kernel \div Divider(e) # 0, mbr |-> e]
           Search(f) == f = [e \in 0 .. 8 |->
              IF e = 8 THEN None ELSE IF Slow(e) THEN Reg(e) ELSE f[e + 1]]
           from == CHOOSE f : Search(f)
<1>1. \E f : Search(f)
  <2> HIDE DEF Slow, Reg
  <2> DEFINE c7 == IF Slow(7) THEN Reg(7) ELSE None
             c6 == IF Slow(6) THEN Reg(6) ELSE c7
             c5 == IF Slow(5) THEN Reg(5) ELSE c6
             c4 == IF Slow(4) THEN Reg(4) ELSE c5
             c3 == IF Slow(3) THEN Reg(3) ELSE c4
             c2 == IF Slow(2) THEN Reg(2) ELSE c3
             c1 == IF Slow(1) THEN Reg(1) ELSE c2
             c0 == IF Slow(0) THEN Reg(0) ELSE c1
             w == [e \in 0 .. 8 |-> CASE e = 0 -> c0 [] e = 1 -> c1 [] e = 2 -> c2
                     [] e = 3 -> c3 [] e = 4 -> c4 [] e = 5 -> c5 [] e = 6 -> c6
                     [] e = 7 -> c7 [] OTHER -> None]
  <2>1. /\ w[1] = c1 /\ w[2] = c2 /\ w[3] = c3 /\ w[4] = c4 /\ w[5] = c5
        /\ w[6] = c6 /\ w[7] = c7 /\ w[8] = None /\ w[0] = c0
    <3> HIDE DEF c0, c1, c2, c3, c4, c5, c6, c7
    <3> QED
      OBVIOUS
  <2> DEFINE g == [e \in 0 .. 8 |->
              IF e = 8 THEN None ELSE IF Slow(e) THEN Reg(e) ELSE w[e + 1]]
  <2>2. ASSUME NEW e \in 0 .. 8 PROVE w[e] = g[e]
    <3>1. e \in {0, 1, 2, 3, 4, 5, 6, 7, 8}
      OBVIOUS
    <3> HIDE DEF w
    <3> QED
      BY <2>1, <3>1
  <2>3. w = g
    <3> HIDE DEF c0, c1, c2, c3, c4, c5, c6, c7
    <3>1. w = [e \in 0 .. 8 |-> w[e]] /\ g = [e \in 0 .. 8 |-> g[e]]
      OBVIOUS
    <3> HIDE DEF w, g
    <3> QED
      BY <2>2, <3>1
  <2> QED
    BY <2>3
<1>2. Search(from)
  <2> HIDE DEF Search
  <2> QED
    BY <1>1
<1>3. SelectPrescaler(kernel, rate) = from[0]
  BY DEF SelectPrescaler
<1> HIDE DEF from, Slow, Reg
<1>4. /\ from[8] = None
      /\ from[7] = IF Slow(7) THEN Reg(7) ELSE from[8]
      /\ from[6] = IF Slow(6) THEN Reg(6) ELSE from[7]
      /\ from[5] = IF Slow(5) THEN Reg(5) ELSE from[6]
      /\ from[4] = IF Slow(4) THEN Reg(4) ELSE from[5]
      /\ from[3] = IF Slow(3) THEN Reg(3) ELSE from[4]
      /\ from[2] = IF Slow(2) THEN Reg(2) ELSE from[3]
      /\ from[1] = IF Slow(1) THEN Reg(1) ELSE from[2]
      /\ from[0] = IF Slow(0) THEN Reg(0) ELSE from[1]
  BY <1>2
<1>5. \/ from[0] = None /\ \A e \in {0, 1, 2, 3, 4, 5, 6, 7} : ~Slow(e)
      \/ \E e \in {0, 1, 2, 3, 4, 5, 6, 7} : 
           from[0] = Reg(e) /\ Slow(e) /\ \A d \in {0, 1, 2, 3, 4, 5, 6, 7} : d < e => ~Slow(d)
  BY <1>4
<1>6. \A e : e \in 0 .. 7 <=> e \in {0, 1, 2, 3, 4, 5, 6, 7}
  OBVIOUS
<1>7. \A e \in 0 .. 7 : \A d \in 0 .. e - 1 : d \in 0 .. 7 /\ d < e
  OBVIOUS
<1>8. \/ from[0] = None /\ \A e \in 0 .. 7 : ~Slow(e)
      \/ \E e \in 0 .. 7 : 
           from[0] = Reg(e) /\ Slow(e) /\ \A d \in 0 .. e - 1 : ~Slow(d)
  BY <1>5, <1>6, <1>7
<1> QED
  BY <1>3, <1>8 DEF Slow, Reg

\* A half period fits its field exactly where the kernel clock is between the two bounds.
LEMMA HalfPeriodFits ==
  ASSUME NEW kernel \in Factor, NEW d \in Factor
  PROVE  CeilDiv(kernel, d) \in 2 .. 256 <=> d < kernel /\ kernel <= 256 * d
<1> DEFINE x == kernel + d - 1
           q == x \div d
<1>1. x \in Nat /\ kernel \in Int /\ d \in Int /\ d > 0
  BY DEF Factor
<1>2. q \in Nat /\ q * d <= x /\ x < q * d + d
  BY <1>1
<1>3. q >= 2 <=> x >= 2 * d
  <2>1. q >= 2 => q * d >= 2 * d
    BY <1>1, <1>2
  <2>2. q <= 1 => q * d <= d
    BY <1>1, <1>2
  <2> HIDE DEF q
  <2> QED
    BY <1>1, <1>2, <2>1, <2>2
<1>4. q <= 256 <=> x < 257 * d
  <2>1. q <= 256 => q * d <= 256 * d
    BY <1>1, <1>2
  <2>2. q >= 257 => q * d >= 257 * d
    BY <1>1, <1>2
  <2> HIDE DEF q
  <2> QED
    BY <1>1, <1>2, <2>1, <2>2
<1>5. CeilDiv(kernel, d) = q
  BY DEF CeilDiv
<1> HIDE DEF q
<1> QED
  BY <1>1, <1>2, <1>3, <1>4, <1>5

\* The first prescaler that fits: only for 100 kHz from 64 MHz is it not the first of all.
LEMMA PrescalerOfHsi ==
  ASSUME NEW kernel \in {8000, 16000, 32000, 64000}, NEW bus \in {100, 400}
  PROVE  PrescalerDiv(kernel, bus) = IF kernel = 64000 /\ bus = 100 THEN 2 ELSE 1
<1> DEFINE Stops(p) == p = 17 \/ HalfTicks(kernel, bus, p) \in 2 .. 256
           Search(f) == f = [p \in 1 .. 17 |-> IF Stops(p) THEN p ELSE f[p + 1]]
           from == CHOOSE f : Search(f)
           far == kernel = 64000 /\ bus = 100
<1>1. ASSUME NEW p \in 1 .. 17
      PROVE  Stops(p) <=> p = 17 \/ (2 * bus * p < kernel /\ (p > 1 \/ ~far))
  <2>1. 2 * bus * p \in Factor /\ kernel \in Factor
    BY DEF Factor
  <2>2. HalfTicks(kernel, bus, p) \in 2 .. 256
          <=> 2 * bus * p < kernel /\ kernel <= 256 * (2 * bus * p)
    BY <2>1, HalfPeriodFits DEF HalfTicks
  <2>3. kernel <= 256 * (2 * bus * p) <=> p > 1 \/ ~far
    OBVIOUS
  <2> QED
    BY <2>2, <2>3
<1>2. \E f : Search(f)
  <2> DEFINE w == [p \in 1 .. 17 |->
               IF p = 1 /\ far THEN 2 ELSE IF 2 * bus * p < kernel THEN p ELSE 17]
  <2> HIDE DEF Stops
  <2>1. ASSUME NEW p \in 1 .. 17 PROVE w[p] = IF Stops(p) THEN p ELSE w[p + 1]
    <3>1. CASE bus = 100
      BY <1>1, <3>1
    <3>2. CASE bus = 400
      BY <1>1, <3>2
    <3> QED
      BY <3>1, <3>2
  <2>2. w = [p \in 1 .. 17 |-> IF Stops(p) THEN p ELSE w[p + 1]]
    <3>1. w = [p \in 1 .. 17 |-> w[p]]
      OBVIOUS
    <3> HIDE DEF w
    <3> QED
      BY <2>1, <3>1
  <2> QED
    BY <2>2
<1>3. Search(from)
  <2> HIDE DEF Search
  <2> QED
    BY <1>2
<1>4. PrescalerDiv(kernel, bus) = from[1]
  BY DEF PrescalerDiv
<1> HIDE DEF from, Stops
<1>5. from[1] = (IF Stops(1) THEN 1 ELSE from[2]) /\ from[2] = IF Stops(2) THEN 2 ELSE from[3]
  BY <1>3
<1> QED
  BY <1>1, <1>4, <1>5

\* The timing that calculate_timing finds from each rate of HSI.
TimingFits(kernel, bus, t) ==
  /\ t.ok
  /\ t.presc \in 0 .. 15 /\ t.scl \in 0 .. 255
  /\ t.scldel \in 0 .. 15 /\ t.sdadel \in 0 .. 15
  /\ I2cFrequency(kernel, t) <= bus
  /\ bus * 2 * (t.presc + 1) * t.scl < kernel
  /\ (t.scldel + 1) * (t.presc + 1) * Hz >= kernel * Setup(bus)
  /\ t.sdadel * (t.presc + 1) * Hz >= kernel * Hold
LEMMA TimingOfHsi ==
  ASSUME NEW kernel \in {8000, 16000, 32000, 64000}, NEW bus \in {100, 400}
  PROVE  TimingFits(kernel, bus, Timing(kernel, bus))
<1> USE PrescalerOfHsi DEF Timing, TimingFits, HalfTicks, DelayTicks, Setup, Hold, Hz, CeilDiv,
        I2cFrequency
<1>1. CASE kernel = 8000 /\ bus = 100
  BY <1>1
<1>2. CASE kernel = 8000 /\ bus = 400
  BY <1>2
<1>3. CASE kernel = 16000 /\ bus = 100
  BY <1>3
<1>4. CASE kernel = 16000 /\ bus = 400
  BY <1>4
<1>5. CASE kernel = 32000 /\ bus = 100
  BY <1>5
<1>6. CASE kernel = 32000 /\ bus = 400
  BY <1>6
<1>7. CASE kernel = 64000 /\ bus = 100
  BY <1>7
<1>8. CASE kernel = 64000 /\ bus = 400
  BY <1>8
<1> HIDE DEF TimingFits, Timing
<1> QED
  BY <1>1, <1>2, <1>3, <1>4, <1>5, <1>6, <1>7, <1>8

\* The nearest is at most half a unit away, and nothing beyond it is nearer.
LEMMA NearestIsNear ==
  ASSUME NEW n \in Nat, NEW d \in Factor
  PROVE  /\ 2 * Distance(Nearest(n, d) * d, n) <= d
         /\ \A q \in Nat : q # Nearest(n, d) => 2 * Distance(q * d, n) >= d
<1> DEFINE r == Nearest(n, d)
           h == d \div 2
<1>1. /\ r \in Nat /\ r * d \in Nat /\ r * d <= n + h /\ n + h < r * d + d
      /\ d \in Nat /\ d > 0
  BY NearestBounds DEF Factor
<1>2. h \in Nat /\ 2 * h <= d /\ d <= 2 * h + 1
  BY <1>1
<1> HIDE DEF r, h
<1>3. 2 * Distance(r * d, n) <= d
  BY <1>1, <1>2 DEF Distance
<1>4. ASSUME NEW q \in Nat, q # r PROVE 2 * Distance(q * d, n) >= d
  <2>1. CASE q < r
    <3>1. q * d <= r * d - d /\ q * d \in Nat
      <4>1. q * d <= (r - 1) * d
        BY <1>1, <2>1
      <4> QED
        BY <1>1, <4>1
    <3> QED
      BY <1>1, <1>2, <3>1 DEF Distance
  <2>2. CASE q > r
    <3>1. q * d >= r * d + d /\ q * d \in Nat
      <4>1. q * d >= (r + 1) * d
        BY <1>1, <2>2
      <4> QED
        BY <1>1, <4>1
    <3> QED
      BY <1>1, <1>2, <3>1 DEF Distance
  <2> QED
    BY <1>1, <1>4, <2>1, <2>2
<1> QED
  BY <1>3, <1>4 DEF r

\* UART: the best divider, if it fits BRR; otherwise the request is out of its reach.
LEMMA BrrIsBest ==
  ASSUME NEW clock \in Nat, NEW baud \in Factor
  PROVE  LET reg == Brr(clock, baud) IN
         IF reg.ok
         THEN /\ reg.brr \in BrrMin .. BrrMax
              /\ 2 * Distance(reg.brr * baud, clock) <= baud
         ELSE clock < BrrMin * baud \/ clock \div baud >= BrrMax
<1> DEFINE q == Nearest(clock, baud)
<1>1. BaudDivider(clock, baud) = q
  BY DEF BaudDivider, Nearest
<1>2. /\ q \in Nat /\ q * baud <= clock + baud \div 2 /\ clock + baud \div 2 < q * baud + baud
      /\ 2 * Distance(q * baud, clock) <= baud
  BY NearestBounds, NearestIsNear
<1>3. Brr(clock, baud) = IF q \in BrrMin .. BrrMax THEN [ok |-> TRUE, brr |-> q] ELSE [ok |-> FALSE]
  BY <1>1 DEF Brr, None
<1> HIDE DEF q
<1>4. /\ BrrMin \in Nat /\ BrrMax \in Nat /\ baud \in Nat /\ baud > 0
      /\ baud \div 2 \in Nat /\ 2 * (baud \div 2) <= baud
  BY RatesAssumption DEF Factor
<1>5. ASSUME q < BrrMin PROVE clock < BrrMin * baud
  <2>1. (q + 1) * baud <= BrrMin * baud /\ (q + 1) * baud = q * baud + baud
    BY <1>2, <1>4, <1>5
  <2> QED
    BY <1>2, <1>4, <2>1
<1>6. ASSUME q > BrrMax PROVE clock \div baud >= BrrMax
  <2>1. (BrrMax + 1) * baud <= q * baud /\ (BrrMax + 1) * baud = BrrMax * baud + baud
    BY <1>2, <1>4, <1>6
  <2>2. BrrMax * baud <= clock /\ BrrMax * baud \in Nat
    BY <1>2, <1>4, <2>1
  <2>3. clock \div baud \in Nat /\ clock < (clock \div baud + 1) * baud
    BY <1>4
  <2>4. clock \div baud < BrrMax => (clock \div baud + 1) * baud <= BrrMax * baud
    BY <1>4, <2>3
  <2> QED
    BY <1>4, <2>2, <2>3, <2>4
<1> QED
  BY <1>2, <1>3, <1>4, <1>5, <1>6

\* A quotient rounded up.
LEMMA CeilBounds ==
  ASSUME NEW n \in Factor, NEW d \in Factor
  PROVE  /\ CeilDiv(n, d) \in Factor /\ CeilDiv(n, d) <= n
         /\ n <= CeilDiv(n, d) * d /\ (CeilDiv(n, d) - 1) * d < n
<1> DEFINE x == n + d - 1
           q == x \div d
<1>1. x \in Nat /\ d \in Nat /\ d > 0 /\ n \in Nat /\ n > 0
  BY DEF Factor
<1>2. q \in Nat /\ q * d <= x /\ x < q * d + d
  BY <1>1
<1>3. CeilDiv(n, d) = q
  BY DEF CeilDiv
<1> HIDE DEF q
<1>4. q # 0
  BY <1>1, <1>2
<1>5. (q - 1) * d = q * d - d
  BY <1>1, <1>2
<1>6. q <= n
  <2>1. q > n => (q - 1) * d >= n * d
    BY <1>1, <1>2
  <2>2. n * d >= n
    BY <1>1
  <2> QED
    BY <1>1, <1>2, <1>5, <2>1, <2>2
<1> QED
  BY <1>1, <1>2, <1>3, <1>4, <1>5, <1>6 DEF Factor

\* A period nearest to the clock has more than one count where the rate asked for is below
\* two thirds of the clock, and only then.
LEMMA SeveralCounts ==
  ASSUME NEW clock \in Nat, NEW rate \in Nat \ {0}, NEW presc \in Nat \ {0}, NEW counts \in Nat,
         2 * Distance(counts * (presc * rate), clock) <= presc * rate
  PROVE  /\ counts > 1 => 3 * rate <= 2 * clock
         /\ counts = 1 /\ presc = 1 => 2 * clock <= 3 * rate
<1> DEFINE step == presc * rate
<1>1. step \in Nat /\ step >= rate
  BY SMT
<1>2. presc = 1 => step = rate
  OBVIOUS
<1>3. counts > 1 => counts * step >= 2 * step
  BY <1>1
<1>4. counts * step \in Nat
  BY <1>1
<1>5. counts = 1 => counts * step = step
  BY <1>1
<1> HIDE DEF step
<1>6. counts * step - clock <= Distance(counts * step, clock)
      /\ clock - counts * step <= Distance(counts * step, clock)
      /\ Distance(counts * step, clock) \in Nat
  BY <1>4 DEF Distance
<1>7. 2 * Distance(counts * step, clock) <= step
  BY DEF step
<1> QED
  BY <1>1, <1>2, <1>3, <1>4, <1>5, <1>6, <1>7

\* A timer counts at the nearest rate wherever that is below two thirds of its clock.
LEMMA PeriodIsNearest ==
  ASSUME NEW clock \in Nat, NEW rate \in Factor
  PROVE  LET reg == PeriodicDividers(clock, rate) IN
         /\ 3 * rate < 2 * clock => Counts(reg)
         /\ Counts(reg) =>
              LET count == (reg.psc + 1) * rate
              IN /\ 3 * rate <= 2 * clock
                 /\ 2 * Distance((reg.arr + 1) * count, clock) <= count
<1> DEFINE q == Nearest(clock, rate)
<1>1. q \in Nat /\ 2 * Distance(q * rate, clock) <= rate
  BY NearestBounds, NearestIsNear
<1>2. PeriodicDividers(clock, rate) =
        IF rate > clock THEN [ok |-> FALSE] ELSE [ok |-> TRUE, psc |-> 0, arr |-> q - 1]
  BY DEF PeriodicDividers, None
<1>3. rate <= clock => q # 0
  BY NearestBounds DEF Factor
<1> HIDE DEF q
<1>4. (q - 1) + 1 = q /\ (0 + 1) * rate = rate /\ 1 * rate = rate /\ rate \in Nat \ {0}
  BY <1>1 DEF Factor
<1>5. (q > 1 => 3 * rate <= 2 * clock) /\ (q = 1 => 2 * clock <= 3 * rate)
  <2>1. 2 * Distance(q * (1 * rate), clock) <= 1 * rate
    BY <1>1, <1>4
  <2>2. 1 \in Nat \ {0}
    OBVIOUS
  <2> QED
    BY <1>1, <1>4, <2>1, <2>2, SeveralCounts, Zenon
<1>6. CASE rate > clock
  BY <1>2, <1>4, <1>6 DEF Counts
<1>7. CASE ~(rate > clock)
  <2>1. PeriodicDividers(clock, rate) = [ok |-> TRUE, psc |-> 0, arr |-> q - 1]
    BY <1>2, <1>7
  <2>2. q >= 1
    BY <1>1, <1>3, <1>4, <1>7
  <2>3. 3 * rate < 2 * clock => q - 1 > 0
    BY <1>1, <1>4, <1>5, <2>2
  <2>4. q - 1 > 0 => 3 * rate <= 2 * clock
    BY <1>1, <1>5
  <2> QED
    BY <1>1, <1>4, <2>1, <2>3, <2>4 DEF Counts
<1> QED
  BY <1>6, <1>7

\* The period of a PWM channel is rounded once for the prescaler and once with it, and
\* never needs more than Top counts.
LEMMA PwmPeriodFits ==
  ASSUME NEW clock \in 0 .. 200 * Hz, NEW rate \in Factor
  PROVE  LET reg == PwmDividers(clock, rate) IN
         /\ 3 * rate < 2 * clock => Counts(reg)
         /\ Counts(reg) =>
              LET count == (reg.psc + 1) * rate
              IN /\ 3 * rate <= 2 * clock
                 /\ 2 * Distance((reg.arr + 1) * count, clock) <= count
         /\ reg.ok =>
              /\ reg.arr + 1 \in 1 .. Top
              /\ reg.psc > 0 => 2 * clock >= (2 * reg.psc * Top + 1) * rate
<1> USE RatesAssumption
<1>0. clock \in Nat /\ Top \in Nat /\ Top >= 4 /\ clock < Top * Top
  <2>1. 200 * Hz < Top * Top
    BY Sizes, HertzTyped, ClockBelowSquare, ClockClientsAssumption
  <2>2. clock \in Nat /\ clock <= 200 * Hz
    BY HertzTyped
  <2>3. Top \in Nat /\ Top >= 4 /\ Top * Top \in Nat
    BY Sizes
  <2> QED
    BY <2>1, <2>2, <2>3, HertzTyped
<1> DEFINE n == Nearest(clock, rate)
           presc == PwmPrescaler(n)
           step == rate * presc
           period == Nearest(clock, step)
           counts == IF period = 0 THEN 1 ELSE period
           h == rate \div 2
           s == step \div 2
<1>1. PwmDividers(clock, rate) =
        IF rate > clock \/ presc > Top \/ counts > Top THEN [ok |-> FALSE]
        ELSE [ok |-> TRUE, psc |-> presc - 1, arr |-> counts - 1]
  BY DEF PwmDividers, None
<1>2. /\ rate \in Nat /\ rate > 0 /\ Top \in Nat /\ Top > 0 /\ clock \in Nat
      /\ h \in Nat /\ 2 * h <= rate /\ rate <= 2 * h + 1
  BY <1>0 DEF Factor
<1>3. ASSUME rate <= clock
      PROVE  /\ presc \in Factor /\ presc <= Top /\ period \in 1 .. Top
             /\ 2 * Distance(period * step, clock) <= step
             /\ presc > 1 => 2 * clock >= (2 * (presc - 1) * Top + 1) * rate
  <2>1. n \in Nat /\ n * rate <= clock + h /\ clock + h < n * rate + rate
    BY <1>2, NearestBounds
  <2>2. n # 0
    BY <1>2, <1>3, <2>1
  <2>3. n <= clock
    <3>1. n > clock => n * rate >= (clock + 1) * rate
      BY <1>2, <2>1
    <3>2. (clock + 1) * rate >= clock + rate
      <4>1. clock * rate >= clock
        BY <1>2
      <4>2. (clock + 1) * rate = clock * rate + rate
        BY <1>2
      <4> QED
        BY <1>2, <4>1, <4>2
    <3> HIDE DEF n, h
    <3> QED
      BY <1>2, <2>1, <3>1, <3>2
  <2>4. /\ presc \in Factor /\ presc <= n
        /\ n <= presc * Top /\ (presc - 1) * Top < n
    BY <2>1, <2>2, CeilBounds DEF PwmPrescaler, Factor
  <2> HIDE DEF n, presc
  <2>5. presc \in Nat /\ presc > 0 /\ n \in Nat
    BY <2>1, <2>4 DEF Factor
  <2>6. presc <= Top
    <3>1. presc > Top => (presc - 1) * Top >= Top * Top
      BY <1>2, <2>5
    <3> QED
      BY <1>0, <1>2, <2>3, <2>4, <2>5, <3>1
  <2>7. step \in Nat /\ step >= rate /\ step \in Factor
    BY <1>2, <2>5 DEF Factor
  <2>8. presc * rate <= n * rate /\ n * rate <= (presc * Top) * rate
        /\ (presc * Top) * rate = step * Top /\ presc * rate = step
    BY <1>2, <2>4, <2>5
  <2>9. s \in Nat /\ 2 * s <= step /\ h <= s
    BY <1>2, <2>7
  <2>10. step = rate \/ step >= 2 * rate
    <3>1. presc = 1 => step = rate
      BY <1>2
    <3>2. presc >= 2 => rate * presc >= rate * 2
      BY <1>2, <2>5
    <3> QED
      BY <1>2, <2>5, <3>1, <3>2
  <2>11. step * Top \in Nat /\ n * rate \in Nat
    BY <1>2, <2>5, <2>7
  <2>12. period \in Nat /\ period * step <= clock + s /\ clock + s < period * step + step
    BY <1>2, <2>7, NearestBounds
  <2>13. step = rate => s = h
    OBVIOUS
  <2> HIDE DEF step, h, s, period
  <2>14. period <= Top
    <3>1. period > Top => period * step >= step * Top + step
      <4>1. period > Top => period * step >= (Top + 1) * step
        BY <1>2, <2>7, <2>12
      <4> QED
        BY <1>2, <2>7, <4>1
    <3>2. clock + s < step * Top + step
      BY <1>2, <2>1, <2>7, <2>8, <2>9, <2>10, <2>11, <2>13
    <3> QED
      BY <1>2, <2>7, <2>9, <2>11, <2>12, <3>1, <3>2
  <2>15. period # 0
    BY <1>2, <2>1, <2>7, <2>8, <2>9, <2>11, <2>12
  <2>16. 2 * Distance(period * step, clock) <= step
    BY <1>2, <2>7, NearestIsNear DEF period
  <2>17. presc > 1 => 2 * clock >= (2 * (presc - 1) * Top + 1) * rate
    <3> DEFINE m == (presc - 1) * Top
    <3>1. m \in Nat /\ m + 1 <= n
      BY <1>2, <2>4, <2>5
    <3>2. 2 * (presc - 1) * Top = 2 * m
      BY <1>2, <2>5
    <3> HIDE DEF m
    <3>3. (m + 1) * rate <= n * rate
      BY <1>2, <2>5, <3>1
    <3>4. (m + 1) * rate = m * rate + rate /\ (2 * m + 1) * rate = 2 * (m * rate) + rate
          /\ m * rate \in Nat
      BY <1>2, <3>1
    <3> QED
      BY <1>2, <2>1, <2>11, <3>2, <3>3, <3>4
  <2> QED
    BY <2>4, <2>6, <2>12, <2>14, <2>15, <2>16, <2>17
\* It has several counts where the rate asked for is below two thirds of the clock.
<1>4. ASSUME rate <= clock
      PROVE  /\ period > 1 => 3 * rate <= 2 * clock
             /\ 3 * rate < 2 * clock => period > 1
  <2> HIDE DEF presc, period, n
  <2>1. presc \in Nat \ {0} /\ presc * rate = step /\ period \in Nat /\ period >= 1
    BY <1>2, <1>3, <1>4 DEF Factor
  <2>2. 2 * Distance(period * (presc * rate), clock) <= presc * rate
    BY <1>3, <1>4, <2>1
  <2>3. /\ period > 1 => 3 * rate <= 2 * clock
        /\ period = 1 /\ presc = 1 => 2 * clock <= 3 * rate
    <3>1. rate \in Nat \ {0} /\ clock \in Nat /\ presc \in Nat \ {0} /\ period \in Nat
      BY <1>2, <2>1
    <3> QED
      BY <2>2, <3>1, SeveralCounts
  <2>4. ASSUME period = 1, presc > 1 PROVE FALSE
    <3>1. step \in Nat
      BY <1>2, <2>1
    <3>2. 2 * Distance(step, clock) <= step
      BY <1>2, <2>1, <2>2, <2>4, <3>1
    <3>3. 2 * clock <= 3 * step
      BY <1>2, <3>1, <3>2 DEF Distance
    <3> DEFINE k == presc - 1
    <3>4. k \in Nat /\ k >= 1 /\ presc = k + 1
      BY <2>1, <2>4
    <3> HIDE DEF k
    <3>5. 2 * clock >= (2 * k * Top + 1) * rate
      BY <1>3, <1>4, <2>4, <3>4 DEF k
    <3>6. k * Top >= 4 * k /\ k * Top \in Nat
      BY <1>0, <3>4
    <3>7. (2 * k * Top + 1) * rate >= (8 * k + 1) * rate
      BY <1>0, <1>2, <3>4, <3>6
    <3>8. k * rate \in Nat /\ k * rate >= rate /\ step = k * rate + rate
          /\ (8 * k + 1) * rate = 8 * (k * rate) + rate
      BY <1>2, <2>1, <3>4
    <3>9. (2 * k * Top + 1) * rate \in Nat
      BY <1>0, <1>2, <3>4
    <3> QED
      BY <1>0, <1>2, <3>3, <3>5, <3>7, <3>8, <3>9
  <2> QED
    BY <1>0, <1>2, <2>1, <2>3, <2>4
<1>5. CASE rate > clock
  <2> HIDE DEF presc, counts
  <2> QED
    BY <1>1, <1>2, <1>5 DEF Counts
<1>6. CASE rate <= clock
  <2> HIDE DEF presc, period, n
  <2>1. ~(presc > Top) /\ counts = period /\ ~(counts > Top) /\ ~(rate > clock)
        /\ presc \in Nat /\ presc > 0
    BY <1>2, <1>3, <1>6 DEF Factor
  <2>2. PwmDividers(clock, rate) = [ok |-> TRUE, psc |-> presc - 1, arr |-> period - 1]
    BY <1>1, <2>1
  <2>3. (presc - 1) + 1 = presc /\ (period - 1) + 1 = period /\ presc * rate = step
        /\ period \in Nat
    BY <1>2, <1>3, <1>6, <2>1
  <2> HIDE DEF step, counts
  <2>4. period - 1 > 0 <=> period > 1
    BY <2>3
  <2>5. Counts(PwmDividers(clock, rate)) <=> period > 1
    BY <2>2, <2>4 DEF Counts
  <2>6. Counts(PwmDividers(clock, rate)) =>
          LET count == (PwmDividers(clock, rate).psc + 1) * rate
          IN /\ 3 * rate <= 2 * clock
             /\ 2 * Distance((PwmDividers(clock, rate).arr + 1) * count, clock) <= count
    BY <1>3, <1>4, <1>6, <2>2, <2>3, <2>5
  <2>7. /\ PwmDividers(clock, rate).arr + 1 \in 1 .. Top
        /\ PwmDividers(clock, rate).psc > 0 =>
             2 * clock >= (2 * PwmDividers(clock, rate).psc * Top + 1) * rate
    BY <1>2, <1>3, <1>6, <2>1, <2>2, <2>3
  <2>8. 3 * rate < 2 * clock => Counts(PwmDividers(clock, rate))
    BY <1>4, <1>6, <2>5
  <2> QED
    BY <2>6, <2>7, <2>8
<1>7. rate \in Int /\ clock \in Int
  BY <1>2
<1> HIDE DEF presc, counts
<1> QED
  BY <1>5, <1>6, <1>7

\* SPI: the fastest of the eight dividers that does not exceed the request, if there is one,
\* from a clock that the slowest of them divides.
Allowed(kernel, rate) == {d \in {2, 4, 8, 16, 32, 64, 128, 256} : kernel \div d <= rate}
LEMMA PrescalerIsFastest ==
  ASSUME NEW kernel \in Nat, kernel >= 256, NEW rate \in Factor
  PROVE  LET reg == SelectPrescaler(kernel, rate)
             allowed == Allowed(kernel, rate)
         IN IF reg.ok
            THEN /\ Divider(reg.mbr) \in allowed
                 /\ \A d \in allowed : Divider(reg.mbr) <= d
            ELSE allowed = {}
<1> DEFINE reg == SelectPrescaler(kernel, rate)
           allowed == Allowed(kernel, rate)
           Exps == {0, 1, 2, 3, 4, 5, 6, 7}
<1>1. \A e \in 0 .. 7 : Divider(e) \in {2, 4, 8, 16, 32, 64, 128, 256} /\ kernel \div Divider(e) # 0
  <2>1. \A d \in {2, 4, 8, 16, 32, 64, 128, 256} : kernel \div d # 0
    OBVIOUS
  <2>2. \A e \in 0 .. 7 : e \in Exps
    OBVIOUS
  <2> QED
    BY <2>1, <2>2, Dividers8
<1>2. \A d \in {2, 4, 8, 16, 32, 64, 128, 256} : \E e \in 0 .. 7 : d = Divider(e)
  <2>1. \A e \in Exps : e \in 0 .. 7
    OBVIOUS
  <2> QED
    BY <2>1, Dividers8
<1>3. \A e \in 0 .. 7 : \A d \in 0 .. 7 : d \in 0 .. e - 1 \/ Divider(e) <= Divider(d)
  <2>1. \A e \in Exps : \A d \in Exps : d < e \/ Divider(e) <= Divider(d)
    BY Dividers8
  <2>2. \A e \in 0 .. 7 : e \in Exps
    OBVIOUS
  <2>3. \A e \in 0 .. 7 : \A d \in 0 .. 7 : d < e => d \in 0 .. e - 1
    OBVIOUS
  <2> QED
    BY <2>1, <2>2, <2>3
<1>4. CASE /\ reg = None
           /\ \A e \in 0 .. 7 : ~(kernel \div Divider(e) <= rate)
  <2>1. allowed = {}
    BY <1>2, <1>4 DEF Allowed
  <2>2. ~reg.ok
    BY <1>4 DEF None
  <2> QED
    BY <2>1, <2>2
<1>5. ASSUME NEW e \in 0 .. 7,
             reg = [ok |-> kernel \div Divider(e) # 0, mbr |-> e],
             kernel \div Divider(e) <= rate,
             \A d \in 0 .. e - 1 : ~(kernel \div Divider(d) <= rate)
      PROVE  reg.ok /\ reg.mbr = e /\ Divider(e) \in allowed /\ \A d \in allowed : Divider(e) <= d
  <2>1. reg.ok /\ reg.mbr = e
    <3>1. kernel \div Divider(e) # 0
      BY <1>1
    <3> HIDE DEF reg
    <3> QED
      BY <1>5, <3>1, Zenon
  <2>2. Divider(e) \in allowed
    BY <1>1, <1>5 DEF Allowed
  <2>3. ASSUME NEW d \in allowed PROVE Divider(e) <= d
    <3>1. PICK b \in 0 .. 7 : d = Divider(b) /\ kernel \div Divider(b) <= rate
      BY <1>2, <2>3 DEF Allowed
    <3> QED
      BY <1>3, <1>5, <3>1
  <2> QED
    BY <2>1, <2>2, <2>3
<1>6. kernel \in Nat /\ rate \in Nat
  BY DEF Factor
<1> HIDE DEF reg, allowed
<1>7. IF reg.ok
      THEN Divider(reg.mbr) \in allowed /\ \A d \in allowed : Divider(reg.mbr) <= d
      ELSE allowed = {}
  <2>1. CASE reg = None /\ \A e \in 0 .. 7 : ~(kernel \div Divider(e) <= rate)
    BY <1>4, <2>1 DEF reg, allowed
  <2>2. CASE \E e \in 0 .. 7 :
               /\ reg = [ok |-> kernel \div Divider(e) # 0, mbr |-> e]
               /\ kernel \div Divider(e) <= rate
               /\ \A d \in 0 .. e - 1 : ~(kernel \div Divider(d) <= rate)
    <3>1. PICK e \in 0 .. 7 :
            reg.ok /\ reg.mbr = e /\ Divider(e) \in allowed /\ \A d \in allowed : Divider(e) <= d
      BY <1>5, <2>2
    <3> QED
      BY <3>1
  <2> QED
    BY <1>6, <2>1, <2>2, PrescalerIsFirst DEF reg
<1> QED
  BY <1>7 DEF reg, allowed

-----------------------------------------------------------------------------
(* What the clients have computed. *)

\* What a client of HSI has computed its dividers from, and for how long it holds.
HsiClients == {"spi", "i2c"}
HsiInv ==
  client.of \in HsiClients =>
    /\ hsidiv \in {client.met, 1}
    /\ hsidiv = client.met /\ client.of = "spi" =>
         /\ client.rate \in Factor
         /\ client.reg = SelectPrescaler(HsiMHz * Hz, client.rate)
    /\ hsidiv = client.met /\ client.of = "i2c" =>
         client.rate \in {100, 400} /\ client.reg = Timing(HsiMHz * KHz, client.rate)

\* What a client of the buses has computed its dividers from.
BusClients == {"uart", "timer", "pwm", "systick"}
Computed(c) ==
  /\ c.of = "uart" =>
       /\ c.rate \in Factor /\ c.reg = Brr(BusRates.apb * Hz, c.rate)
       /\ c.mask = 2 ^ c.bits - 1
  /\ c.of = "timer" =>
       c.rate \in Factor /\ c.reg = PeriodicDividers(TrueTimerKernel, c.rate)
  /\ c.of = "pwm" =>
       c.rate \in Factor /\ c.reg = PwmDividers(TrueTimerKernel, c.rate)
  /\ c.of = "systick" => c.ticks = BusRates.core * KHz
BusInv ==
  fresh /\ client.of \in BusClients => pc = "idle" /\ Settled /\ Computed(client)

\* A step of a call leaves HSIDIV alone, or clears it.
LEMMA CallKeepsHsi ==
  ASSUME Call
  PROVE  pc # "idle" /\ (hsidiv' = hsidiv \/ hsidiv' = 1)
<1> USE DEF clocks, power
<1>1. CASE ConfigureSupply \/ StartApply \/ Refuse \/ SwitchToHsi \/ RaiseVoltage
  BY <1>1 DEF ConfigureSupply, StartApply, Refuse, SwitchToHsi, RaiseVoltage
<1>2. CASE SlowFlash \/ ConfigureBusDividers \/ ConfigureHsi \/ StopHse \/ StartHse
  BY <1>2 DEF SlowFlash, ConfigureBusDividers, ConfigureHsi, StopHse, StartHse
<1>3. CASE StopPll \/ StartPll \/ SwitchToTarget \/ Verify \/ GiveUp
  BY <1>3 DEF StopPll, StartPll, SwitchToTarget, Verify, GiveUp, Waits
<1> QED
  BY <1>1, <1>2, <1>3 DEF Call

\* The hardware touches neither HSIDIV nor the call.
LEMMA HardwareKeepsHsi ==
  ASSUME Hardware
  PROVE  hsidiv' = hsidiv /\ pc' = pc
BY DEF Hardware, SupplySettles, VoltageSettles, Switch, HseStarts, HseStops, PllLocks,
       PllStops, clocks, callVars

\* Where the mux has settled, nothing the hardware still does changes a rate.
LEMMA HardwareSettled ==
  ASSUME TreeInv, Settled, Hardware
  PROVE  Settled' /\ BusRates' = BusRates
<1> USE DEF Settled
<1>1. sws' = sws /\ sw' = sw /\ div' = div /\ hsidiv' = hsidiv
  BY DEF Hardware, SupplySettles, VoltageSettles, Switch, HseStarts, HseStops, PllLocks,
         PllStops, clocks
<1>2. sws = "PLL1" => pll'.out = pll.out
  <2>1. sws = "PLL1" => pll.on /\ pll.ready
    BY DEF TreeInv, InUse
  <2>2. pll \in [on : BOOLEAN, ready : BOOLEAN, source : {"HSI", "HSE"},
                 m : Factor, n : Nat, p : Factor, out : Int]
    BY DEF TreeInv, TreeTypeOK, ClocksTypeOK
  <2> QED
    BY <2>1, <2>2 DEF Hardware, SupplySettles, VoltageSettles, Switch, HseStarts, HseStops,
         PllLocks, PllStops, clocks
<1>3. Running' = Running
  BY <1>1, <1>2 DEF Running, HsiMHz, TreeInv, TreeTypeOK, ClocksTypeOK
<1> QED
  BY <1>1, <1>3 DEF BusRates

\* The rates are a function of the registers.
LEMMA RatesUnchanged ==
  ASSUME UNCHANGED <<treeVars, timpre>>
  PROVE  /\ UNCHANGED <<pc, hsidiv, BusRates, TrueTimerKernel, HsiMHz>>
         /\ Settled' = Settled
<1>1. UNCHANGED <<sw, sws, hsidiv, pll, div, pc, timpre>>
  BY DEF treeVars
<1> QED
  BY <1>1 DEF BusRates, Running, HsiMHz, TrueTimerKernel, Settled

\* The mask of application_data_mask has a bit for each of the data bits asked for.
LEMMA MaskOfBits ==
  ASSUME NEW bits \in {7, 8}, NEW parity \in BOOLEAN
  PROVE  DataMask(FrameBits(bits, parity), parity) = 2 ^ bits - 1
<1> DEFINE data == IF parity THEN FrameBits(bits, parity) - 1 ELSE FrameBits(bits, parity)
<1>1. 2 ^ 8 - 1 = 255
  OBVIOUS
<1>2. data = bits
  BY DEF FrameBits
<1>3. DataMask(FrameBits(bits, parity), parity) = IF data >= 8 THEN 255 ELSE 2 ^ data - 1
  BY DEF DataMask
<1> HIDE DEF data
<1>4. DataMask(FrameBits(bits, parity), parity) = IF bits >= 8 THEN 255 ELSE 2 ^ bits - 1
  BY <1>2, <1>3, Zenon
<1>5. bits # 8 => ~(bits >= 8)
  OBVIOUS
<1>6. bits = 8 => 2 ^ bits - 1 = 255 /\ bits >= 8
  BY <1>1
<1> QED
  BY <1>4, <1>5, <1>6, Zenon

\* Both: every client's registers are what its init computes from the clock there is.
RateInv == HsiInv /\ BusInv

\* What each init leaves is what it computed, from the clock of the hardware.
LEMMA SpiComputes ==
  ASSUME NEW r \in SpiRequests, SpiInit(r)
  PROVE  RateInv'
<1>1. /\ client' = [of |-> "spi", rate |-> r, met |-> hsidiv,
                    reg |-> SelectPrescaler(HsiMHz * Hz, r)]
      /\ pc = "idle" /\ UNCHANGED <<treeVars, timpre>>
  BY Zenon DEF SpiInit, Becomes
<1>2. /\ client'.of = "spi" /\ client'.rate = r /\ client'.met = hsidiv
      /\ client'.reg = SelectPrescaler(HsiMHz * Hz, r)
  BY <1>1
<1>3. r \in Factor
  BY ClockClientsAssumption DEF Factor
<1> QED
  BY <1>1, <1>2, <1>3, RatesUnchanged DEF RateInv, HsiInv, BusInv, BusClients

\* I2C, from HSI.
LEMMA I2cComputes ==
  ASSUME NEW bus \in {100, 400}, I2cInit(bus)
  PROVE  RateInv'
<1>1. /\ client' = [of |-> "i2c", rate |-> bus, met |-> hsidiv,
                    reg |-> Timing(HsiMHz * KHz, bus)]
      /\ pc = "idle" /\ UNCHANGED <<treeVars, timpre>>
  BY Zenon DEF I2cInit, Becomes
<1>2. /\ client'.of = "i2c" /\ client'.rate = bus /\ client'.met = hsidiv
      /\ client'.reg = Timing(HsiMHz * KHz, bus)
  BY <1>1
<1> QED
  BY <1>1, <1>2, RatesUnchanged DEF RateInv, HsiInv, BusInv, BusClients

\* UART, from its bus.
LEMMA UartComputes ==
  ASSUME TreeInv, NEW r \in UartRequests, NEW bits \in {7, 8}, NEW parity \in BOOLEAN,
         UartInit(r, bits, parity)
  PROVE  RateInv'
<1> DEFINE mask == DataMask(FrameBits(bits, parity), parity)
<1>1. /\ client' = [of |-> "uart", rate |-> r, reg |-> Brr(UartKernel, r), bits |-> bits,
                    mask |-> mask]
      /\ fresh' = Settled /\ pc = "idle" /\ UNCHANGED <<treeVars, timpre>> /\ Readable
  BY Zenon DEF UartInit, Becomes
<1>2. mask = 2 ^ bits - 1
  BY MaskOfBits
<1> HIDE DEF mask
<1>3. /\ client'.of = "uart" /\ client'.rate = r /\ client'.reg = Brr(UartKernel, r)
      /\ client'.bits = bits /\ client'.mask = mask
  BY <1>1
<1>4. r \in Factor
  BY ClockClientsAssumption DEF Factor
<1>5. UartKernel = BusRates.apb * Hz
  BY <1>1, ReadBack DEF UartKernel, LiveTree, BusRates
<1>6. BusRates' = BusRates /\ pc' = pc /\ Settled' = Settled
  BY <1>1, RatesUnchanged
<1>7. Computed(client)'
  BY <1>2, <1>3, <1>4, <1>5, <1>6 DEF Computed
<1> QED
  BY <1>1, <1>3, <1>6, <1>7 DEF RateInv, HsiInv, BusInv, HsiClients

\* A periodic timer, from the kernel clock of the timers.
LEMMA TimerComputes ==
  ASSUME TreeInv, timpre \in BOOLEAN, NEW r \in TimerRequests, TimerInit(r)
  PROVE  RateInv'
<1>1. /\ client' = [of |-> "timer", rate |-> r, reg |-> PeriodicDividers(TimerKernel, r)]
      /\ fresh' = Settled /\ pc = "idle" /\ UNCHANGED <<treeVars, timpre>> /\ TimerReadable
  BY Zenon DEF TimerInit, Becomes
<1>2. /\ client'.of = "timer" /\ client'.rate = r
      /\ client'.reg = PeriodicDividers(TimerKernel, r)
  BY <1>1
<1>3. r \in Factor
  BY ClockClientsAssumption DEF Factor
<1>4. TimerKernel = TrueTimerKernel
  BY <1>1, KernelIsTrue
<1>5. TrueTimerKernel' = TrueTimerKernel /\ pc' = pc /\ Settled' = Settled
  BY <1>1, RatesUnchanged
<1>6. Computed(client)'
  BY <1>2, <1>3, <1>4, <1>5 DEF Computed
<1> QED
  BY <1>1, <1>2, <1>5, <1>6 DEF RateInv, HsiInv, BusInv, HsiClients

\* SysTick, from the core.
LEMMA TimeComputes ==
  ASSUME TreeInv, TimeInit
  PROVE  RateInv'
<1>1. /\ client' = [of |-> "systick", ticks |-> LiveTree(0).core * KHz]
      /\ fresh' = Settled /\ pc = "idle" /\ UNCHANGED <<treeVars, timpre>> /\ Readable
  BY Zenon DEF TimeInit, Becomes
<1>2. client'.of = "systick" /\ client'.ticks = LiveTree(0).core * KHz
  BY <1>1
<1>3. LiveTree(0) = BusRates
  BY <1>1, ReadBack DEF LiveTree, BusRates
<1>4. BusRates' = BusRates /\ pc' = pc /\ Settled' = Settled
  BY <1>1, RatesUnchanged
<1>5. Computed(client)'
  BY <1>2, <1>3, <1>4 DEF Computed
<1> QED
  BY <1>1, <1>2, <1>4, <1>5 DEF RateInv, HsiInv, BusInv, HsiClients

\* A PWM channel, from the kernel clock of the timers, whether it is refused or not.
LEMMA PwmComputes ==
  ASSUME TreeInv, timpre \in BOOLEAN, NEW r \in PwmRequests, NEW duty \in Duties,
         PwmInit(r, duty)
  PROVE  RateInv'
<1> DEFINE d == PwmDividers(TimerKernel, r)
           compare == PwmCompare(d.arr + 1, duty)
<1>1. /\ client' = IF d.ok
                   THEN [of |-> "pwm", rate |-> r, reg |-> d, duty |-> duty, on |-> FALSE,
                         compare |-> compare, active |-> compare, late |-> FALSE]
                   ELSE [of |-> "pwm", rate |-> r, reg |-> d]
      /\ fresh' = Settled /\ pc = "idle" /\ UNCHANGED <<treeVars, timpre>> /\ TimerReadable
  BY Zenon DEF PwmInit, Becomes
<1> HIDE DEF d, compare
<1>2. client'.of = "pwm" /\ client'.rate = r /\ client'.reg = d
  BY <1>1
<1>3. r \in Factor
  BY ClockClientsAssumption DEF Factor
<1>4. d = PwmDividers(TrueTimerKernel, r)
  BY <1>1, KernelIsTrue DEF d
<1>5. TrueTimerKernel' = TrueTimerKernel /\ pc' = pc /\ Settled' = Settled
  BY <1>1, RatesUnchanged
<1>6. Computed(client)'
  BY <1>2, <1>3, <1>4, <1>5 DEF Computed
<1> QED
  BY <1>1, <1>2, <1>5, <1>6 DEF RateInv, HsiInv, BusInv, HsiClients

\* An operation of a channel leaves its period.
LEMMA OperationsKeepThePeriod ==
  ASSUME PwmInv,
         PwmStart \/ PwmStop \/ (\E duty \in Duties : PwmSetDuty(duty)) \/ PwmPeriodEnds
  PROVE  /\ client.of = "pwm" /\ client'.of = "pwm"
         /\ client'.rate = client.rate /\ client'.reg = client.reg
         /\ UNCHANGED <<treeVars, timpre, fresh>>
<1>1. client.of = "pwm" /\ client.reg.ok /\ UNCHANGED <<treeVars, timpre, fresh>>
  BY Zenon DEF PwmStart, PwmStop, PwmSetDuty, PwmPeriodEnds, Pwm
<1>2. client \in Channels
  BY <1>1 DEF PwmInv, Channel
<1> QED
  <2>1. client'.of = "pwm" /\ client'.rate = client.rate /\ client'.reg = client.reg
    <3>1. CASE PwmStart
      BY <1>2, <3>1 DEF PwmStart, Pwm, Channels
    <3>2. CASE PwmStop
      BY <1>2, <3>2 DEF PwmStop, Pwm, Channels
    <3>3. CASE \E duty \in Duties : PwmSetDuty(duty)
      BY <1>2, <3>3 DEF PwmSetDuty, Pwm, Channels
    <3>4. CASE PwmPeriodEnds
      BY <1>2, <3>4 DEF PwmPeriodEnds, Pwm, Channels
    <3> QED
      BY <3>1, <3>2, <3>3, <3>4
  <2> QED
    BY <1>1, <2>1

\* Every step keeps what was computed, or ends it.
LEMMA RateInvKept ==
  ASSUME TreeInv, timpre \in BOOLEAN, PwmInv, RateInv, [Next]_vars
  PROVE  RateInv'
<1>1. CASE Change
  <2>1. fresh' = FALSE
    BY <1>1 DEF Change
  <2>2. client' = client \/ client'.of = "none"
    BY <1>1 DEF Change, NoClient
  <2>3. hsidiv' = hsidiv
    BY <1>1 DEF Change, SetFrequency, ApplyManaged, Begin, clocks
  <2>4. HsiMHz' = HsiMHz
    BY <2>3 DEF HsiMHz
  <2>5. HsiInv'
    BY <2>2, <2>3, <2>4 DEF RateInv, HsiInv, HsiClients
  <2>6. BusInv'
    BY <2>1 DEF BusInv
  <2> QED
    BY <2>5, <2>6 DEF RateInv
<1>2. CASE Call /\ UNCHANGED clientVars
  <2>1. UNCHANGED <<client, fresh>> /\ pc # "idle" /\ (hsidiv' = hsidiv \/ hsidiv' = 1)
    BY <1>2, CallKeepsHsi DEF clientVars
  <2>2. client.of \in HsiClients => hsidiv' \in {client.met, 1}
    BY <2>1 DEF RateInv, HsiInv
  \* A divider of HSI that is again the one the init met has not changed.
  <2>3. client.of \in HsiClients /\ hsidiv' = client.met => hsidiv' = hsidiv /\ HsiMHz' = HsiMHz
    BY <2>1 DEF RateInv, HsiInv, HsiMHz
  <2>4. HsiInv'
    BY <2>1, <2>2, <2>3 DEF RateInv, HsiInv, HsiClients
  <2>5. BusInv'
    BY <2>1 DEF RateInv, BusInv
  <2> QED
    BY <2>4, <2>5 DEF RateInv
<1>3. CASE Hardware /\ UNCHANGED clientVars
  <2>1. UNCHANGED <<client, fresh, timpre, pc, hsidiv>>
    BY <1>3, HardwareKeepsHsi DEF clientVars
  <2>2. HsiMHz' = HsiMHz
    BY <2>1 DEF HsiMHz
  <2>3. HsiInv'
    BY <2>1, <2>2 DEF RateInv, HsiInv
  <2>4. ASSUME Settled, Computed(client) PROVE Settled' /\ Computed(client)'
    <3>1. Settled' /\ BusRates' = BusRates
      BY <1>3, <2>4, HardwareSettled
    <3>2. TrueTimerKernel' = TrueTimerKernel
      BY <2>1, <3>1 DEF TrueTimerKernel
    <3> QED
      BY <2>1, <2>4, <3>1, <3>2 DEF Computed
  <2>5. BusInv'
    BY <2>1, <2>4 DEF RateInv, BusInv
  <2> QED
    BY <2>3, <2>5 DEF RateInv
<1>4. CASE PwmStart \/ PwmStop \/ (\E duty \in Duties : PwmSetDuty(duty)) \/ PwmPeriodEnds
  <2>1. /\ client.of = "pwm" /\ client'.of = "pwm"
        /\ client'.rate = client.rate /\ client'.reg = client.reg
        /\ UNCHANGED <<treeVars, timpre, fresh>>
    BY <1>4, OperationsKeepThePeriod
  <2>2. UNCHANGED <<pc, TrueTimerKernel>> /\ Settled' = Settled
    BY <2>1, RatesUnchanged
  <2>3. Computed(client) => Computed(client)'
    BY <2>1, <2>2 DEF Computed
  <2> QED
    BY <2>1, <2>2, <2>3 DEF RateInv, HsiInv, BusInv, HsiClients
<1>5. CASE UNCHANGED vars
  <2>1. UNCHANGED <<treeVars, timpre, client, fresh>>
    BY <1>5 DEF vars, clientVars
  <2>2. UNCHANGED <<pc, hsidiv, BusRates, TrueTimerKernel, HsiMHz>> /\ Settled' = Settled
    BY <2>1, RatesUnchanged
  <2>3. Computed(client) => Computed(client)'
    BY <2>1, <2>2 DEF Computed
  <2> QED
    BY <2>1, <2>2, <2>3 DEF RateInv, HsiInv, BusInv
<1>6. CASE \E r \in UartRequests, bits \in {7, 8}, parity \in BOOLEAN : UartInit(r, bits, parity)
  BY <1>6, UartComputes
<1>7. CASE \E r \in SpiRequests : SpiInit(r)
  BY <1>7, SpiComputes
<1>8. CASE \E bus \in {100, 400} : I2cInit(bus)
  BY <1>8, I2cComputes
<1>9. CASE \E r \in TimerRequests : TimerInit(r)
  BY <1>9, TimerComputes
<1>10. CASE TimeInit
  BY <1>10, TimeComputes
<1>11. CASE \E r \in PwmRequests, duty \in Duties : PwmInit(r, duty)
  BY <1>11, PwmComputes
<1> QED
  BY <1>1, <1>2, <1>3, <1>4, <1>5, <1>6, <1>7, <1>8, <1>9, <1>10, <1>11, Zenon DEF Next

\* The clocks of the buses, and of the timers on them.
LEMMA BusRatesTyped ==
  ASSUME TreeInv, timpre \in BOOLEAN
  PROVE  BusRates.apb * Hz \in Nat /\ TrueTimerKernel \in 0 .. 200 * Hz
<1>1. BusRates.ahb \in Nat /\ BusRates.apb \in Nat
  BY RunningTyped, DivLess DEF TreeInv, TreeTypeOK, ClocksTypeOK, DivSet, BusRates, Tree
<1>2. BusRates.ahb <= 200
  BY LimitsHold DEF RunsWithinLimits, WithinLimits, BusRates
<1> DEFINE most == (IF timpre THEN 4 ELSE 2) * BusRates.apb
           kernel == IF most < BusRates.ahb THEN most ELSE BusRates.ahb
<1>3. kernel \in Nat /\ kernel <= 200
  BY <1>1, <1>2
<1>4. TrueTimerKernel = kernel * Hz
  BY DEF TrueTimerKernel
<1> HIDE DEF kernel
<1>5. kernel * Hz \in Nat /\ kernel * Hz <= 200 * Hz
  BY <1>3, SMT DEF Hz
<1> QED
  BY <1>1, <1>4, <1>5, HertzTyped

\* HSI in hertz and in kilohertz.
LEMMA HsiRates ==
  ASSUME TreeInv
  PROVE  /\ HsiMHz * KHz \in {8000, 16000, 32000, 64000}
         /\ HsiMHz * Hz \in Nat /\ HsiMHz * Hz >= 256
<1>1. HsiMHz \in {8, 16, 32, 64}
  BY DEF TreeInv, TreeTypeOK, ClocksTypeOK, HsiMHz, HSI
<1> QED
  BY <1>1, SMT DEF Hz, KHz

\* What was computed, in every state.
THEOREM RateInvHolds == Spec => []RateInv
<1>1. Init => RateInv
  <2> SUFFICES ASSUME Init PROVE ~fresh /\ client.of = "none"
    BY DEF RateInv, HsiInv, HsiClients, BusInv
  <2> QED
    BY DEF Init, NoClient
<1>2. TreeInv /\ timpre \in BOOLEAN /\ PwmInv /\ RateInv /\ [Next]_vars => RateInv'
  BY RateInvKept
<1> QED
  BY <1>1, <1>2, TreeIsInvariant, ClientsLeaveTheTree, TimpreTyped, PwmIsInvariant, PTL DEF Spec

\* das/spi.h, das/i2c.h: the SPI clock is the fastest that does not exceed the request, and
\* the I2C timing fits its fields and keeps the bus, from each rate HSI can have; through
\* every later change of the system clock while HSI has the divider that the init met, which
\* a change can only set to 1 (select_prescaler, calculate_timing, switch_to_hsi).
THEOREM HsiClientsAreKept == Spec => []HsiClientsKeepTheirRate
<1>1. TreeInv /\ RateInv => HsiClientsKeepTheirRate
  <2> SUFFICES ASSUME TreeInv, HsiInv PROVE HsiClientsKeepTheirRate
    BY DEF RateInv
  <2>1. ASSUME hsidiv = client.met, client.of = "spi"
        PROVE  LET allowed == Allowed(HsiMHz * Hz, client.rate)
               IN IF client.reg.ok
                  THEN /\ Divider(client.reg.mbr) \in allowed
                       /\ \A d \in allowed : Divider(client.reg.mbr) <= d
                  ELSE allowed = {}
    BY <2>1, HsiRates, PrescalerIsFastest DEF HsiInv, HsiClients
  <2>2. ASSUME hsidiv = client.met, client.of = "i2c"
        PROVE  TimingFits(HsiMHz * KHz, client.rate, client.reg)
    BY <2>2, HsiRates, TimingOfHsi DEF HsiInv, HsiClients
  <2>3. client.of \in {"spi", "i2c"} => hsidiv \in {client.met, 1}
    BY DEF HsiInv, HsiClients
  <2> QED
    BY <2>1, <2>2, <2>3, Zenon DEF HsiClientsKeepTheirRate, Allowed, TimingFits
<1> QED
  BY <1>1, RateInvHolds, TreeIsInvariant, ClientsLeaveTheTree, PTL

\* docs/uart.md, docs/timer.md: what was initialised after the last change runs at the rate
\* asked for, as near as its divider allows, on the clock that is really there, for every
\* limit of BRR and every length of a period; UART refuses only what BRR cannot reach, and
\* a timer counts wherever the rate asked for is below two thirds of its clock
\* (das_uart_init, periodic_dividers, pwm_dividers, das_time_init).
THEOREM ClientsAreOnRate == Spec => []ClientsRunAtTheirRate
<1>1. TreeInv /\ timpre \in BOOLEAN /\ RateInv => ClientsRunAtTheirRate
  <2> SUFFICES ASSUME TreeInv, timpre \in BOOLEAN, fresh, client.of \in BusClients, Computed(client)
      PROVE  ClientsRunAtTheirRate
    BY DEF RateInv, BusInv, BusClients, ClientsRunAtTheirRate
  <2>1. BusRates.apb * Hz \in Nat /\ TrueTimerKernel \in 0 .. 200 * Hz /\ TrueTimerKernel \in Nat
    BY BusRatesTyped, HertzTyped
  <2>2. ASSUME client.of = "uart"
        PROVE  /\ client.mask = 2 ^ client.bits - 1
               /\ IF client.reg.ok
                  THEN /\ client.reg.brr \in BrrMin .. BrrMax
                       /\ 2 * Distance(client.reg.brr * client.rate, BusRates.apb * Hz)
                            <= client.rate
                  ELSE \/ BusRates.apb * Hz < BrrMin * client.rate
                       \/ (BusRates.apb * Hz) \div client.rate >= BrrMax
    BY <2>1, <2>2, BrrIsBest, Zenon DEF Computed
  <2>3. ASSUME client.of \in {"timer", "pwm"}
        PROVE  /\ 3 * client.rate < 2 * TrueTimerKernel => Counts(client.reg)
               /\ Counts(client.reg) =>
                    LET count == (client.reg.psc + 1) * client.rate
                    IN /\ 3 * client.rate <= 2 * TrueTimerKernel
                       /\ 2 * Distance((client.reg.arr + 1) * count, TrueTimerKernel) <= count
    <3>1. CASE client.of = "timer"
      BY <2>1, <3>1, PeriodIsNearest, Zenon DEF Computed
    <3>2. CASE client.of = "pwm"
      BY <2>1, <3>2, PwmPeriodFits, Zenon DEF Computed
    <3> QED
      BY <2>3, <3>1, <3>2
  <2>4. ASSUME client.of = "pwm", client.reg.ok
        PROVE  /\ client.reg.arr + 1 \in 1 .. Top
               /\ client.reg.psc > 0 =>
                    2 * TrueTimerKernel >= (2 * client.reg.psc * Top + 1) * client.rate
    BY <2>1, <2>4, PwmPeriodFits, Zenon DEF Computed
  <2>5. client.of = "systick" => client.ticks = BusRates.core * KHz
    BY DEF Computed
  <2> QED
    BY <2>2, <2>3, <2>4, <2>5, Zenon DEF ClientsRunAtTheirRate
<1> QED
  BY <1>1, RateInvHolds, TreeIsInvariant, ClientsLeaveTheTree, TimpreTyped, PTL

=============================================================================
