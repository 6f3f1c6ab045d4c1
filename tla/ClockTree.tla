----------------------------- MODULE ClockTree ------------------------------
(***************************************************************************)
(* The change of the system clock: das_clock_set_frequency of the board,   *)
(* direct SMPS, and stm32h755_clock_apply, which go from register to       *)
(* register and may give up at every wait; and the hardware, which follows *)
(* in its own time, after a call has given up too.  Frequencies are in     *)
(* MHz.  The four APB buses have the same divider in every configuration   *)
(* of the repository and are one here.                                     *)
(***************************************************************************)
EXTENDS Integers

CONSTANTS
  Managed,    \* device configurations besides those of the board's profiles
  Supplies,   \* supply configurations the core may start with
  Dividers,   \* values of HSIDIV it may start with
  HseMHz      \* frequency of the external oscillator, if there is one

\* stm32h755_clock_config_t.
Configs ==
  [source : {"HSI", "HSE"}, use : BOOLEAN, m : Nat, n : Nat, p : Nat,
   div : [core : Nat, ahb : Nat, apb : Nat]]

ASSUME ClockTreeAssumption ==
  /\ Managed \subseteq Configs
  /\ HseMHz \in 4 .. 48
  /\ Dividers \subseteq {1, 2, 4, 8}
  /\ Supplies \subseteq {"run*", "smps", "other"}

VARIABLES
  sw, sws,    \* RCC_CFGR: the source asked for, and the one in use
  hsidiv,     \* RCC_CR.HSIDIV
  hse,        \* RCC_CR: HSEON and HSERDY
  pll,        \* PLL1: on and ready, source and factors, and the rate it locked at
  div,        \* D1CFGR, D2CFGR, D3CFGR
  supply,     \* PWR_CR3, and ACTVOSRDY
  vos,        \* PWR_D3CR: the scale asked for, and VOSRDY
  latency,    \* FLASH_ACR.LATENCY
  pc, cfg,    \* the step of the call in progress and its configuration, which is
              \* remembered after a call that returned OK
  ret         \* what the last call returned

clocks == <<sw, sws, hsidiv, hse, pll, div>>
power == <<supply, vos, latency>>
treeVars == <<sw, sws, hsidiv, hse, pll, div, supply, vos, latency, pc, cfg, ret>>

HSI == 64

-----------------------------------------------------------------------------
(* Configurations. *)

SourceMHz(source) == IF source = "HSI" THEN HSI ELSE HseMHz

CoreDividers == {1, 2, 4, 8, 16, 64, 128, 256, 512}
ApbDividers == {1, 2, 4, 8, 16}

Vco(c) == (SourceMHz(c.source) \div c.m) * c.n
SystemOf(c) == IF c.use THEN Vco(c) \div c.p ELSE SourceMHz(c.source)

\* The rates of the core, the AHB and the APB buses.
Tree(system, d) ==
  [core |-> system \div d.core,
   ahb  |-> (system \div d.core) \div d.ahb,
   apb  |-> ((system \div d.core) \div d.ahb) \div d.apb]

\* derive_frequencies: what a configuration must satisfy to mean anything.
Derivable(c) ==
  /\ c.use =>
       /\ c.m \in 1 .. 63 /\ c.n \in 4 .. 512 /\ c.p \in 1 .. 128
       /\ SourceMHz(c.source) % c.m = 0
       /\ SourceMHz(c.source) \div c.m \in 1 .. 16
       /\ Vco(c) \in 192 .. 836
  /\ c.div.core \in CoreDividers /\ c.div.ahb \in CoreDividers /\ c.div.apb \in ApbDividers

\* The managed limits of validate_managed_config.
WithinLimits(t) == t.core <= 400 /\ t.ahb <= 200 /\ t.apb <= 100

\* build_profile.
Frequencies == {64, 200, 300, 400}
Profile(f) ==
  [source |-> "HSI", use |-> f # 64,
   m |-> IF f = 64 THEN 1 ELSE 8, n |-> IF f = 64 THEN 4 ELSE f \div 4, p |-> 2,
   div |-> [core |-> 1, ahb |-> IF f > 200 THEN 2 ELSE 1, apb |-> IF f = 64 THEN 1 ELSE 2]]

Target(c) == IF c.use THEN "PLL1" ELSE c.source

-----------------------------------------------------------------------------
(* Reading the tree back, and the truth. *)

\* hsi_frequency_hz, pll1_source_frequency and system_frequency_hz; 0 stands for UNSUPPORTED.  The
\* registers do not tell the rate of HSE: the caller does, or passes 0.
HsiMHz == HSI \div hsidiv
LiveSource(source, external) == IF source = "HSI" THEN HsiMHz ELSE external
LiveSystemFullHsi(external) ==
  IF sws = "HSI" THEN HSI
  ELSE IF sws = "HSE" THEN external
  ELSE (LiveSource(pll.source, external) * pll.n) \div (pll.m * pll.p)
LiveSystem(external) ==
  IF sws # "PLL1" THEN LiveSource(sws, external)
  ELSE (LiveSource(pll.source, external) * pll.n) \div (pll.m * pll.p)

\* stm32h755_clock_get_frequencies.
LiveTree(external) == Tree(LiveSystem(external), div)

\* The rate the hardware runs at.
Running ==
  CASE sws = "HSI" -> HsiMHz
    [] sws = "HSE" -> HseMHz
    [] sws = "PLL1" -> pll.out

Alive(source) ==
  CASE source = "HSI" -> TRUE
    [] source = "HSE" -> hse.ready
    [] source = "PLL1" -> pll.ready

-----------------------------------------------------------------------------
(* The call. *)

NoCfg == [source |-> "none"]

Goto(step) == pc' = step /\ UNCHANGED <<cfg, ret>>
Return(result) ==
  pc' = "idle" /\ ret' = result /\ cfg' = IF result = "OK" THEN cfg ELSE NoCfg

Begin(step, c) ==
  /\ pc = "idle"
  /\ pc' = step /\ cfg' = c /\ ret' = "none"
  /\ UNCHANGED <<clocks, power>>

\* das_clock_set_frequency: an unknown frequency is refused.
SetFrequency(f) == f \in Frequencies /\ Begin("supply", Profile(f))

\* stm32h755_clock_apply with a configuration of another board, whose supply is
\* known to be right.
ApplyManaged(c) ==
  supply = [mode |-> "smps", ready |-> TRUE] /\ Begin("apply", c)

\* stm32h755_power_configure_direct_smps, up to its wait.  A locked supply does not
\* take the write.
ConfigureSupply ==
  /\ pc = "supply"
  /\ \/ /\ supply.mode = "run*"
        /\ supply' = [mode |-> "smps", ready |-> FALSE]
        /\ Goto("supply?")
     \/ supply.mode = "smps" /\ UNCHANGED supply /\ Goto("supply?")
     \/ supply.mode # "smps" /\ UNCHANGED supply /\ Return("UNSUPPORTED")
  /\ UNCHANGED <<clocks, vos, latency>>

StartApply ==
  pc = "supply?" /\ supply.ready /\ Goto("apply") /\ UNCHANGED <<clocks, power>>

\* Validation changes nothing.
Refuse ==
  /\ pc = "apply"
  /\ \/ ~Derivable(cfg) /\ Return("INVALID_ARGUMENT")
     \/ /\ Derivable(cfg) /\ ~WithinLimits(Tree(SystemOf(cfg), cfg.div))
        /\ Return("UNSUPPORTED")
  /\ UNCHANGED <<clocks, power>>

\* SW is left alone where SWS says HSI already.
SwitchToHsiIfNeeded ==
  /\ pc = "apply" /\ Derivable(cfg) /\ WithinLimits(Tree(SystemOf(cfg), cfg.div))
  /\ sw' = (IF sws = "HSI" THEN sw ELSE "HSI") /\ hsidiv' = 1
  /\ Goto("hsi?")
  /\ UNCHANGED <<sws, hse, pll, div, power>>
SwitchToHsi ==
  /\ pc = "apply" /\ Derivable(cfg) /\ WithinLimits(Tree(SystemOf(cfg), cfg.div))
  /\ sw' = "HSI" /\ hsidiv' = 1
  /\ Goto("hsi?")
  /\ UNCHANGED <<sws, hse, pll, div, power>>

RaiseVoltage ==
  /\ pc = "hsi?" /\ sws = "HSI"
  /\ vos' = IF vos.level = 1 THEN vos ELSE [level |-> 1, ready |-> FALSE]
  /\ Goto("vos?")
  /\ UNCHANGED <<clocks, supply, latency>>

\* FLASH may refuse the write; the code reads it back once.
SlowFlash ==
  /\ pc = "vos?" /\ vos.ready
  /\ \/ latency' = 4 /\ Goto("dividers")
     \/ latency # 4 /\ UNCHANGED latency /\ Return("UNSUPPORTED")
  /\ UNCHANGED <<clocks, supply, vos>>

ConfigureBusDividers ==
  /\ pc = "dividers"
  /\ div' = cfg.div
  /\ Goto("source")
  /\ UNCHANGED <<sw, sws, hsidiv, hse, pll, power>>

\* configure_source.  HSI is on and ready in every state.
ConfigureHsi ==
  /\ pc = "source" /\ cfg.source = "HSI"
  /\ hsidiv' = 1
  /\ Goto("pll")
  /\ UNCHANGED <<sw, sws, hse, pll, div, power>>
StopHse ==
  /\ pc = "source" /\ cfg.source = "HSE"
  /\ hse' = [hse EXCEPT !.on = FALSE]
  /\ Goto("hse-?")
  /\ UNCHANGED <<sw, sws, hsidiv, pll, div, power>>
StartHse ==
  /\ pc = "hse-?" /\ ~hse.ready
  /\ hse' = [hse EXCEPT !.on = TRUE]
  /\ Goto("hse+?")
  /\ UNCHANGED <<sw, sws, hsidiv, pll, div, power>>

\* configure_pll1.
StopPll ==
  /\ \/ pc = "pll"
     \/ pc = "hse+?" /\ hse.ready
  /\ pll' = [pll EXCEPT !.on = FALSE]
  /\ Goto("pll-?")
  /\ UNCHANGED <<sw, sws, hsidiv, hse, div, power>>
\* The PLL is programmed before it has stopped.
StartPllAtOnce ==
  /\ pc = "pll-?" /\ cfg.use
  /\ pll' = [pll EXCEPT !.on = TRUE, !.source = cfg.source,
                        !.m = cfg.m, !.n = cfg.n, !.p = cfg.p]
  /\ Goto("pll+?")
  /\ UNCHANGED <<sw, sws, hsidiv, hse, div, power>>
StartPll ==
  /\ pc = "pll-?" /\ ~pll.ready /\ cfg.use
  /\ pll' = [pll EXCEPT !.on = TRUE, !.source = cfg.source,
                        !.m = cfg.m, !.n = cfg.n, !.p = cfg.p]
  /\ Goto("pll+?")
  /\ UNCHANGED <<sw, sws, hsidiv, hse, div, power>>

SwitchToTarget ==
  /\ \/ pc = "pll-?" /\ ~pll.ready /\ ~cfg.use
     \/ pc = "pll+?" /\ pll.ready
  /\ sw' = Target(cfg)
  /\ Goto("target?")
  /\ UNCHANGED <<sws, hsidiv, hse, pll, div, power>>

\* The tree read back must be the one derived from the configuration.
Verify ==
  /\ pc = "target?" /\ sws = Target(cfg)
  /\ LET external == IF cfg.source = "HSE" THEN HseMHz ELSE 0
     IN Return(IF LiveSystem(external) = SystemOf(cfg)
                  /\ LiveTree(external) = Tree(SystemOf(cfg), cfg.div)
               THEN "OK" ELSE "UNSUPPORTED")
  /\ UNCHANGED <<clocks, power>>

\* What each wait waits for.  wait_mask polls at least once: a wait whose
\* condition holds does not time out.
Awaited(step) ==
  CASE step = "supply?" -> supply.ready
    [] step = "hsi?"    -> sws = "HSI"
    [] step = "vos?"    -> vos.ready
    [] step = "hse-?"   -> ~hse.ready
    [] step = "hse+?"   -> hse.ready
    [] step = "pll-?"   -> ~pll.ready
    [] step = "pll+?"   -> pll.ready
    [] step = "target?" -> sws = Target(cfg)

Waits == {"supply?", "hsi?", "vos?", "hse-?", "hse+?", "pll-?", "pll+?", "target?"}

GiveUp ==
  /\ pc \in Waits /\ ~Awaited(pc)
  /\ Return("TIMEOUT")
  /\ UNCHANGED <<clocks, power>>

Call ==
  \/ ConfigureSupply \/ StartApply \/ Refuse \/ SwitchToHsi \/ RaiseVoltage
  \/ SlowFlash \/ ConfigureBusDividers \/ ConfigureHsi \/ StopHse \/ StartHse
  \/ StopPll \/ StartPll \/ SwitchToTarget \/ Verify \/ GiveUp

-----------------------------------------------------------------------------
(* The hardware. *)

callVars == <<pc, cfg, ret>>

SupplySettles ==
  /\ ~supply.ready /\ supply' = [supply EXCEPT !.ready = TRUE]
  /\ UNCHANGED <<clocks, vos, latency, callVars>>
VoltageSettles ==
  /\ ~vos.ready /\ vos' = [vos EXCEPT !.ready = TRUE]
  /\ UNCHANGED <<clocks, supply, latency, callVars>>

\* The mux follows SW as soon as the source asked for is ready.
Switch ==
  /\ sws # sw /\ Alive(sw) /\ sws' = sw
  /\ UNCHANGED <<sw, hsidiv, hse, pll, div, power, callVars>>

HseStarts ==
  /\ hse.on /\ ~hse.ready /\ hse' = [hse EXCEPT !.ready = TRUE]
  /\ UNCHANGED <<sw, sws, hsidiv, pll, div, power, callVars>>
\* A PLL whose reference stops loses its lock.
HseStops ==
  /\ ~hse.on /\ hse.ready /\ hse' = [hse EXCEPT !.ready = FALSE]
  /\ pll' = [pll EXCEPT !.ready = @ /\ pll.source # "HSE"]
  /\ UNCHANGED <<sw, sws, hsidiv, div, power, callVars>>

\* The PLL locks at the rate its registers say at that moment.
PllLocks ==
  /\ pll.on /\ ~pll.ready /\ Alive(pll.source)
  /\ pll' = [pll EXCEPT !.ready = TRUE,
       !.out = (LiveSource(pll.source, HseMHz) * pll.n) \div (pll.m * pll.p)]
  /\ UNCHANGED <<sw, sws, hsidiv, hse, div, power, callVars>>
PllStops ==
  /\ ~pll.on /\ pll.ready /\ pll' = [pll EXCEPT !.ready = FALSE]
  /\ UNCHANGED <<sw, sws, hsidiv, hse, div, power, callVars>>

Hardware ==
  \/ SupplySettles \/ VoltageSettles \/ Switch
  \/ HseStarts \/ HseStops \/ PllLocks \/ PllStops

-----------------------------------------------------------------------------

\* Reset: HSI undivided at 64 MHz unless what ran before has divided it, voltage
\* scale 3, seven wait states, PLL1 off with the factors of RCC_PLL1DIVR's reset.
TreeInit ==
  /\ sw = "HSI" /\ sws = "HSI" /\ hsidiv \in Dividers
  /\ hse = [on |-> FALSE, ready |-> FALSE]
  /\ pll = [on |-> FALSE, ready |-> FALSE, source |-> "HSI", m |-> 32, n |-> 129, p |-> 2,
            out |-> 0]
  /\ div = [core |-> 1, ahb |-> 1, apb |-> 1]
  /\ \E mode \in Supplies : supply = [mode |-> mode, ready |-> TRUE]
  /\ vos = [level |-> 3, ready |-> TRUE] /\ latency = 7
  /\ pc = "idle" /\ cfg = NoCfg /\ ret = "none"

TreeNext ==
  \/ \E f \in Frequencies : SetFrequency(f)
  \/ \E c \in Managed : ApplyManaged(c)
  \/ Call
  \/ Hardware

TreeSpec == TreeInit /\ [][TreeNext]_treeVars

-----------------------------------------------------------------------------
(* Properties. *)

\* docs/clocks.md, "managed envelope" and "Safe transition sequence".  At every
\* step of every change, and after every change that gave up, with the hardware
\* still catching up: the source in use runs, no bus is faster than its limit
\* with the dividers then in place, and above the rate of HSI the supply, the
\* voltage scale and the flash are those the rate needs.
RunsWithinLimits ==
  /\ Alive(sws)
  /\ WithinLimits(Tree(Running, div))
  /\ Running > HSI =>
       /\ supply = [mode |-> "smps", ready |-> TRUE]
       /\ vos = [level |-> 1, ready |-> TRUE]
       /\ latency >= 4

\* das_clock_set_frequency returns OK only if the hardware runs the profile asked
\* for, and nothing an earlier call left under way will change that.  The check
\* of the tree read back never refuses a change whose waits were all answered,
\* whatever the calls before left behind.
OkMeansProfile ==
  (ret = "OK" \/ (pc = "target?" /\ sws = Target(cfg))) =>
    /\ sw = Target(cfg) /\ sws = sw
    /\ Running = SystemOf(cfg) /\ div = cfg.div
    /\ sws = "PLL1" => pll.on
    /\ LiveSystem(HseMHz) = Running

=============================================================================
