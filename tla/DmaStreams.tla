----------------------------- MODULE DmaStreams -----------------------------
(***************************************************************************)
(* The generic DMA backend of the STM32H755 (device/stm32h755/dma.c): the  *)
(* table of streams, their allocation tokens, and the operations of        *)
(* das/dma.h, run by tasks that preempt one another on one core.           *)
(*                                                                         *)
(* A task is preempted between the steps below and never inside one.  Two  *)
(* steps run with interrupts masked in the code (the claim of an acquire   *)
(* and the commit of a release); the other steps group accesses that no    *)
(* other operation on the same token can separate.  A task calls an        *)
(* operation with any token ever returned, released ones included, or with *)
(* a token nobody was given.                                               *)
(*                                                                         *)
(* serialised says whether the callers of this behaviour keep the rule of  *)
(* das/dma.h and docs/dma.md: they serialise operations on the same live   *)
(* handle.  Where they do not, only the allocation bookkeeping is          *)
(* promised.                                                               *)
(***************************************************************************)
EXTENDS Naturals

CONSTANTS
  Task,          \* the preemptive tasks and interrupt handlers that call DAS
  StreamCount,   \* DMA1 streams (8 on the device)
  GenLimit,      \* STM32H755_DMA_HANDLE_GENERATION_LIMIT
  MaxAllocs      \* bound: allocations of one stream in a behaviour

ASSUME StreamCountAssumption == StreamCount \in Nat \ {0}
ASSUME GenLimitAssumption    == GenLimit \in Nat /\ GenLimit > 2
ASSUME MaxAllocsAssumption   == MaxAllocs \in Nat

Streams == 0 .. StreamCount - 1

(***************************************************************************)
(* The storage word of a handle is its index and generation.  "alloc" says *)
(* which allocation of the stream issued the token; the code cannot see    *)
(* it.  Allocation 0 stands for words the driver never issued: a zeroed    *)
(* handle and DAS_DMA_INVALID (all ones).                                  *)
(***************************************************************************)
Token == [index : Streams, gen : 0 .. GenLimit, alloc : Nat]
Forged == { [index |-> 0, gen |-> 0, alloc |-> 0],
            [index |-> StreamCount - 1, gen |-> GenLimit, alloc |-> 0] }

Requests == {"mem2mem", "peripheral"}
Flags    == {"TE", "TC"}
Jobs     == {"none", "run", "doomed", "done", "failed", "cut"}
Clocks   == {"none", "forever", "running", "expired"}
Steps    == {"idle", "acquire_reset",
             "release_stop", "release_spin", "release_clear", "release_commit",
             "configure_write", "configure_route", "route_write",
             "start_arm", "start_enable", "state_sample", "wait_sample",
             "abort_stop", "abort_spin", "abort_clear"}
Results  == {"OK", "INVALID_ARGUMENT", "NOT_READY", "TIMEOUT", "IO",
             "IDLE", "BUSY", "COMPLETE", "ERROR"}

VARIABLES
  claimed, generation, configured, active,   \* the driver's tables
  request,       \* DMAMUX channel: which request line drives the stream
  en,            \* the EN bit as a read of CR returns it
  stopping,      \* software cleared EN and the hardware still drains
  trailing,      \* EN cleared at the end of a transfer, TCIF not yet visible
  flags,         \* the stream's TEIF and TCIF
  pc, arg,       \* each task's next step and the token it was called with
  clock,         \* the wait a task is in
  ret,           \* what the last step returned to its caller
  serialised,    \* whether callers keep the rule: chosen once, for ever
  allocs,        \* history: allocations of each stream so far
  issued,        \* history: tokens returned by an acquire
  job            \* history: what became of the last transfer started

book == <<claimed, generation, configured, active>>
hw   == <<request, en, stopping, trailing, flags>>
call == <<pc, arg, clock, ret>>
hist == <<allocs, issued, job>>
vars == <<book, hw, call, serialised, hist>>

NoToken  == [index |-> 0, gen |-> 0, alloc |-> 0]
NoReturn == [op |-> "none", result |-> "none", stream |-> 0]

Goto(t, step) ==
  /\ pc' = [pc EXCEPT ![t] = step]
  /\ ret' = NoReturn
  /\ UNCHANGED <<arg, clock>>
Return(t, k, op, result) ==
  /\ pc' = [pc EXCEPT ![t] = "idle"]
  /\ arg' = [arg EXCEPT ![t] = NoToken]
  /\ clock' = [clock EXCEPT ![t] = "none"]
  /\ ret' = [op |-> op, result |-> result, stream |-> k.index]

(***************************************************************************)
(* dma_handle_internal.h and the claim check every operation begins with.  *)
(***************************************************************************)
NextGenerationUnwrapped(previous) == previous + 1
NextGenerationStuck(previous) == IF previous = 0 THEN 1 ELSE previous
NextGeneration(previous) == IF previous >= GenLimit - 1 THEN 1 ELSE previous + 1

MatchesIgnoringGeneration(k) == claimed[k.index] /\ k.gen # 0 /\ k.gen < GenLimit
Matches(k) ==
  /\ claimed[k.index]
  /\ k.gen # 0
  /\ k.gen < GenLimit
  /\ k.gen = generation[k.index]

SameWord(j, k) == j.index = k.index /\ j.gen = k.gen

Busy(t) == pc[t] # "idle"

\* Task t may call an operation with token k.
MayCall(t, k) ==
  /\ pc[t] = "idle"
  /\ k \in issued \cup Forged
  /\ serialised => \A u \in Task : Busy(u) => ~SameWord(arg[u], k)

\* The arguments pass the operation's checks: it goes on to its first step.
Enter(t, k, step) ==
  /\ MayCall(t, k)
  /\ Matches(k)
  /\ pc' = [pc EXCEPT ![t] = step]
  /\ arg' = [arg EXCEPT ![t] = k]
  /\ ret' = NoReturn
  /\ UNCHANGED <<book, hw, hist>>

\* They do not: it returns at once.
Refuse(t, k, result) ==
  /\ MayCall(t, k)
  /\ Return(t, NoToken, "refused", result)
  /\ UNCHANGED <<book, hw, hist>>

-----------------------------------------------------------------------------
(* Hardware, as dma.c relies on it. *)

Init ==
  /\ claimed    = [s \in Streams |-> FALSE]
  /\ generation = [s \in Streams |-> 0]
  /\ configured = [s \in Streams |-> FALSE]
  /\ active     = [s \in Streams |-> FALSE]
  /\ request    = [s \in Streams |-> "mem2mem"]
  /\ en         = [s \in Streams |-> FALSE]
  /\ stopping   = [s \in Streams |-> FALSE]
  /\ trailing   = [s \in Streams |-> FALSE]
  /\ flags      = [s \in Streams |-> {}]
  /\ pc         = [t \in Task |-> "idle"]
  /\ arg        = [t \in Task |-> NoToken]
  /\ clock      = [t \in Task |-> "none"]
  /\ ret        = NoReturn
  /\ serialised \in BOOLEAN
  /\ allocs     = [s \in Streams |-> 0]
  /\ issued     = {}
  /\ job        = [s \in Streams |-> "none"]

\* The last element moved: EN clears first, the completion flag follows.
HwFinish(s) ==
  /\ en[s]
  /\ en' = [en EXCEPT ![s] = FALSE]
  /\ stopping' = [stopping EXCEPT ![s] = FALSE]
  /\ trailing' = [trailing EXCEPT ![s] = TRUE]
  /\ job' = [job EXCEPT ![s] = "done"]
  /\ ret' = NoReturn
  /\ UNCHANGED <<book, request, flags, pc, arg, clock, allocs, issued>>

HwCompleteFlag(s) ==
  /\ trailing[s]
  /\ trailing' = [trailing EXCEPT ![s] = FALSE]
  /\ flags' = [flags EXCEPT ![s] = @ \cup {"TC"}]
  /\ ret' = NoReturn
  /\ UNCHANGED <<book, request, en, stopping, pc, arg, clock, hist>>

HwError(s) ==
  /\ en[s]
  /\ en' = [en EXCEPT ![s] = FALSE]
  /\ stopping' = [stopping EXCEPT ![s] = FALSE]
  /\ flags' = [flags EXCEPT ![s] = @ \cup {"TE"}]
  /\ job' = [job EXCEPT ![s] = "failed"]
  /\ ret' = NoReturn
  /\ UNCHANGED <<book, request, trailing, pc, arg, clock, allocs, issued>>

\* A stream told to stop drains its current access and raises TCIF.
HwHalt(s) ==
  /\ en[s] /\ stopping[s]
  /\ en' = [en EXCEPT ![s] = FALSE]
  /\ stopping' = [stopping EXCEPT ![s] = FALSE]
  /\ flags' = [flags EXCEPT ![s] = @ \cup {"TC"}]
  /\ job' = [job EXCEPT ![s] = IF @ = "doomed" THEN "doomed" ELSE "cut"]
  /\ ret' = NoReturn
  /\ UNCHANGED <<book, request, trailing, pc, arg, clock, allocs, issued>>

Hardware(s) == HwFinish(s) \/ HwCompleteFlag(s) \/ HwError(s) \/ HwHalt(s)

\* clear_stream_flags: by the time it runs a trailing TCIF has become visible
\* (the assumption TrailSettled of the README).
ClearFlags(s) ==
  /\ ~trailing[s]
  /\ flags' = [flags EXCEPT ![s] = {}]

\* Clearing EN in CR asks the hardware to stop; a stream that is off stays off.
RequestStop(s) == stopping' = [stopping EXCEPT ![s] = en[s]]


-----------------------------------------------------------------------------
(* das_dma_acquire. *)

FreeStreams == {s \in Streams : ~claimed[s]}

\* One interrupt-masked section: find the lowest free stream and claim it.
AcquireClaim(t) ==
  /\ pc[t] = "idle"
  /\ \E s \in FreeStreams :
       /\ \A r \in FreeStreams : s <= r
       /\ allocs[s] < MaxAllocs
       /\ LET gen == NextGeneration(generation[s])
              k   == [index |-> s, gen |-> gen, alloc |-> allocs[s] + 1]
          IN  /\ generation' = [generation EXCEPT ![s] = gen]
              /\ arg' = [arg EXCEPT ![t] = k]
       /\ claimed' = [claimed EXCEPT ![s] = TRUE]
       /\ configured' = [configured EXCEPT ![s] = FALSE]
       /\ active' = [active EXCEPT ![s] = FALSE]
       /\ allocs' = [allocs EXCEPT ![s] = @ + 1]
       /\ job' = [job EXCEPT ![s] = "none"]
  /\ pc' = [pc EXCEPT ![t] = "acquire_reset"]
  /\ ret' = NoReturn
  /\ UNCHANGED <<hw, clock, issued>>

AcquireFail(t) ==
  /\ pc[t] = "idle"
  /\ FreeStreams = {}
  /\ Return(t, NoToken, "acquire", "NOT_READY")
  /\ UNCHANGED <<book, hw, hist>>

\* After the mask is restored: clear the stale flags and the request line.
AcquireReset(t) ==
  LET s == arg[t].index IN
  /\ pc[t] = "acquire_reset"
  /\ ClearFlags(s)
  /\ request' = [request EXCEPT ![s] = "mem2mem"]
  /\ issued' = issued \cup {arg[t]}
  /\ Return(t, arg[t], "acquire", "OK")
  /\ UNCHANGED <<book, en, stopping, trailing, allocs, job>>

-----------------------------------------------------------------------------
(* das_dma_release. *)

Release(t, k) == Enter(t, k, "release_stop") /\ UNCHANGED clock

\* stop_stream clears EN and then polls it.
ReleaseStop(t) ==
  /\ pc[t] = "release_stop"
  /\ RequestStop(arg[t].index)
  /\ Goto(t, "release_spin")
  /\ UNCHANGED <<book, request, en, trailing, flags, hist>>

ReleaseSpinIgnored(t) ==
  /\ pc[t] = "release_spin"
  /\ Goto(t, "release_clear")
  /\ UNCHANGED <<book, hw, hist>>
ReleaseSpin(t) ==
  /\ pc[t] = "release_spin"
  /\ ~en[arg[t].index]
  /\ Goto(t, "release_clear")
  /\ UNCHANGED <<book, hw, hist>>

ReleaseTimeout(t) ==
  LET s == arg[t].index IN
  /\ pc[t] = "release_spin"
  /\ en[s]
  /\ job' = [job EXCEPT ![s] = IF @ = "run" THEN "doomed" ELSE @]
  /\ Return(t, arg[t], "release", "TIMEOUT")
  /\ UNCHANGED <<book, hw, allocs, issued>>

ReleaseClear(t) ==
  /\ pc[t] = "release_clear"
  /\ ClearFlags(arg[t].index)
  /\ request' = [request EXCEPT ![arg[t].index] = "mem2mem"]
  /\ Goto(t, "release_commit")
  /\ UNCHANGED <<book, en, stopping, trailing, hist>>

\* One interrupt-masked section: the token is checked again before the
\* stream is published as free.
ReleaseCommitUnchecked(t) ==
  LET s == arg[t].index IN
  /\ pc[t] = "release_commit"
  /\ active' = [active EXCEPT ![s] = FALSE]
  /\ configured' = [configured EXCEPT ![s] = FALSE]
  /\ claimed' = [claimed EXCEPT ![s] = FALSE]
  /\ Return(t, arg[t], "release", "OK")
  /\ UNCHANGED <<generation, hw, hist>>
ReleaseCommit(t) ==
  LET s == arg[t].index IN
  /\ pc[t] = "release_commit"
  /\ Matches(arg[t])
  /\ active' = [active EXCEPT ![s] = FALSE]
  /\ configured' = [configured EXCEPT ![s] = FALSE]
  /\ claimed' = [claimed EXCEPT ![s] = FALSE]
  /\ Return(t, arg[t], "release", "OK")
  /\ UNCHANGED <<generation, hw, hist>>

ReleaseLost(t) ==
  /\ pc[t] = "release_commit"
  /\ ~Matches(arg[t])
  /\ Return(t, arg[t], "release", "INVALID_ARGUMENT")
  /\ UNCHANGED <<book, hw, hist>>

-----------------------------------------------------------------------------
(* das_dma_configure and the private stm32h755_dma_set_request. *)

Configure(t, k) == ~en[k.index] /\ Enter(t, k, "configure_write") /\ UNCHANGED clock

\* A bad token, or a configuration config_valid rejects.
ConfigureRefused(t, k) == Refuse(t, k, "INVALID_ARGUMENT")

ConfigureEnabled(t, k) ==
  Matches(k) /\ en[k.index] /\ Refuse(t, k, "NOT_READY")

ConfigureWrite(t) ==
  LET s == arg[t].index IN
  /\ pc[t] = "configure_write"
  /\ RequestStop(s)
  /\ ClearFlags(s)
  /\ active' = [active EXCEPT ![s] = FALSE]
  /\ configured' = [configured EXCEPT ![s] = TRUE]
  /\ job' = [job EXCEPT ![s] = "none"]
  /\ Goto(t, "configure_route")
  /\ UNCHANGED <<claimed, generation, request, en, trailing, allocs, issued>>

\* set_request checks the token and EN again before it touches the DMAMUX.
Route(t, s, op, line) ==
  \/ /\ Matches(arg[t]) /\ ~en[s]
     /\ request' = [request EXCEPT ![s] = line]
     /\ Return(t, arg[t], op, "OK")
  \/ /\ ~Matches(arg[t])
     /\ Return(t, arg[t], op, "INVALID_ARGUMENT") /\ UNCHANGED request
  \/ /\ Matches(arg[t]) /\ en[s]
     /\ Return(t, arg[t], op, "NOT_READY") /\ UNCHANGED request

ConfigureRoute(t) ==
  /\ pc[t] = "configure_route"
  /\ Route(t, arg[t].index, "configure", "mem2mem")
  /\ UNCHANGED <<book, en, stopping, trailing, flags, hist>>

SetRequest(t, k) == Enter(t, k, "route_write") /\ UNCHANGED clock

RouteWrite(t) ==
  /\ pc[t] = "route_write"
  /\ Route(t, arg[t].index, "set_request", "peripheral")
  /\ UNCHANGED <<book, en, stopping, trailing, flags, hist>>

-----------------------------------------------------------------------------
(* das_dma_start. *)

StartOverOutcome(t, k) ==
  /\ configured[k.index]
  /\ ~en[k.index]
  /\ Enter(t, k, "start_arm")
  /\ UNCHANGED clock
Start(t, k) ==
  /\ configured[k.index]
  /\ ~en[k.index] /\ ~active[k.index]
  /\ Enter(t, k, "start_arm")
  /\ UNCHANGED clock

\* A bad token or argument, or a stream that was never configured.
StartRefused(t, k) == Refuse(t, k, "INVALID_ARGUMENT")

StartBusy(t, k) ==
  /\ Matches(k) /\ configured[k.index]
  /\ en[k.index] \/ active[k.index]
  /\ Refuse(t, k, "NOT_READY")

StartArm(t) ==
  LET s == arg[t].index IN
  /\ pc[t] = "start_arm"
  /\ ClearFlags(s)
  /\ active' = [active EXCEPT ![s] = TRUE]
  /\ Goto(t, "start_enable")
  /\ UNCHANGED <<claimed, generation, configured, request, en, stopping, trailing, hist>>

StartEnable(t) ==
  LET s == arg[t].index IN
  /\ pc[t] = "start_enable"
  /\ en' = [en EXCEPT ![s] = TRUE]
  /\ job' = [job EXCEPT ![s] = "run"]
  /\ Return(t, arg[t], "start", "OK")
  /\ UNCHANGED <<book, request, stopping, trailing, flags, allocs, issued>>

-----------------------------------------------------------------------------
(* das_dma_get_state. *)

StateFromEnable(s) ==
  IF "TE" \in flags[s] THEN "ERROR"
  ELSE IF "TC" \in flags[s] THEN "COMPLETE"
  ELSE IF en[s] THEN "BUSY"
  ELSE "IDLE"
StateActiveFirst(s) ==
  IF active[s] THEN "BUSY"
  ELSE IF "TE" \in flags[s] THEN "ERROR"
  ELSE IF "TC" \in flags[s] THEN "COMPLETE"
  ELSE "IDLE"
State(s) ==
  IF "TE" \in flags[s] THEN "ERROR"
  ELSE IF "TC" \in flags[s] THEN "COMPLETE"
  ELSE IF active[s] THEN "BUSY"
  ELSE "IDLE"

\* An observed end of the transfer also ends its activity.
Sample(s) ==
  active' = [active EXCEPT ![s] = @ /\ State(s) \notin {"ERROR", "COMPLETE"}]

GetState(t, k) == Enter(t, k, "state_sample") /\ UNCHANGED clock

StateSample(t) ==
  LET s == arg[t].index IN
  /\ pc[t] = "state_sample"
  /\ Sample(s)
  /\ Return(t, arg[t], "get_state", State(s))
  /\ UNCHANGED <<claimed, generation, configured, hw, hist>>

-----------------------------------------------------------------------------
(* das_dma_wait_timeout and das_dma_wait; das_dma_abort, which a wait that *)
(* expired calls too.                                                      *)

Wait(t, k) ==
  /\ Enter(t, k, "wait_sample")
  /\ \E c \in {"forever", "running"} : clock' = [clock EXCEPT ![t] = c]

\* The time source is not ready.
WaitRefused(t, k) == Matches(k) /\ Refuse(t, k, "NOT_READY")

WaitResult(state) ==
  CASE state = "COMPLETE" -> "OK"
    [] state = "ERROR"    -> "IO"
    [] state = "IDLE"     -> "NOT_READY"

Expire(t) ==
  /\ clock[t] = "running"
  /\ clock' = [clock EXCEPT ![t] = "expired"]
  /\ ret' = NoReturn
  /\ UNCHANGED <<book, hw, pc, arg, hist>>

WaitSettled(t) ==
  LET s == arg[t].index IN
  /\ pc[t] = "wait_sample"
  /\ Matches(arg[t])
  /\ State(s) # "BUSY"
  /\ Sample(s)
  /\ Return(t, arg[t], "wait", WaitResult(State(s)))
  /\ UNCHANGED <<claimed, generation, configured, hw, hist>>

WaitLost(t) ==
  /\ pc[t] = "wait_sample"
  /\ ~Matches(arg[t])
  /\ Return(t, arg[t], "wait", "INVALID_ARGUMENT")
  /\ UNCHANGED <<book, hw, hist>>

\* Busy, and the deadline has passed: the stream is aborted.
WaitExpired(t) ==
  /\ pc[t] = "wait_sample"
  /\ Matches(arg[t])
  /\ State(arg[t].index) = "BUSY"
  /\ clock[t] = "expired"
  /\ Goto(t, "abort_stop")
  /\ UNCHANGED <<book, hw, hist>>

Abort(t, k) == Enter(t, k, "abort_stop") /\ UNCHANGED clock

\* A wait drops the abort's own result.
AbortReturn(t, result) ==
  IF clock[t] = "expired"
  THEN Return(t, arg[t], "wait", "TIMEOUT")
  ELSE Return(t, arg[t], "abort", result)

\* The abort of an expired wait checks the token for itself.
AbortRefused(t) ==
  /\ pc[t] = "abort_stop"
  /\ clock[t] = "expired" /\ ~Matches(arg[t])
  /\ AbortReturn(t, "INVALID_ARGUMENT")
  /\ UNCHANGED <<book, hw, hist>>

AbortStop(t) ==
  /\ pc[t] = "abort_stop"
  /\ clock[t] = "expired" => Matches(arg[t])
  /\ RequestStop(arg[t].index)
  /\ Goto(t, "abort_spin")
  /\ UNCHANGED <<book, request, en, trailing, flags, hist>>

AbortSpin(t) ==
  /\ pc[t] = "abort_spin"
  /\ ~en[arg[t].index]
  /\ Goto(t, "abort_clear")
  /\ UNCHANGED <<book, hw, hist>>

AbortSpinForever(t) ==
  /\ pc[t] = "abort_spin"
  /\ en[arg[t].index]
  /\ Goto(t, "abort_spin")
  /\ UNCHANGED <<book, hw, hist>>
AbortTimeout(t) ==
  LET s == arg[t].index IN
  /\ pc[t] = "abort_spin"
  /\ en[s]
  /\ job' = [job EXCEPT ![s] = IF @ = "run" THEN "doomed" ELSE @]
  /\ AbortReturn(t, "TIMEOUT")
  /\ UNCHANGED <<book, hw, allocs, issued>>

AbortClear(t) ==
  LET s == arg[t].index IN
  /\ pc[t] = "abort_clear"
  /\ ClearFlags(s)
  /\ active' = [active EXCEPT ![s] = FALSE]
  /\ job' = [job EXCEPT ![s] = "none"]
  /\ AbortReturn(t, "OK")
  /\ UNCHANGED <<claimed, generation, configured, request, en, stopping, trailing,
                 allocs, issued>>

-----------------------------------------------------------------------------
(* Every operation refuses a token that does not match, touching nothing.  *)
TokenRefused(t, k) ==
  ~Matches(k) /\ Refuse(t, k, "INVALID_ARGUMENT")

Calls(t, k) ==
  \/ TokenRefused(t, k)
  \/ Release(t, k)
  \/ Configure(t, k) \/ ConfigureRefused(t, k) \/ ConfigureEnabled(t, k)
  \/ SetRequest(t, k)
  \/ Start(t, k) \/ StartRefused(t, k) \/ StartBusy(t, k)
  \/ GetState(t, k)
  \/ Wait(t, k) \/ WaitRefused(t, k)
  \/ Abort(t, k)

\* The next step of the operation task t is in.
Continue(t) ==
  \/ AcquireReset(t)
  \/ ReleaseStop(t) \/ ReleaseSpin(t) \/ ReleaseTimeout(t)
  \/ ReleaseClear(t) \/ ReleaseCommit(t) \/ ReleaseLost(t)
  \/ ConfigureWrite(t) \/ ConfigureRoute(t) \/ RouteWrite(t)
  \/ StartArm(t) \/ StartEnable(t)
  \/ StateSample(t)
  \/ WaitSettled(t) \/ WaitLost(t) \/ WaitExpired(t)
  \/ AbortRefused(t) \/ AbortStop(t) \/ AbortSpin(t) \/ AbortTimeout(t) \/ AbortClear(t)

TaskStep(t) ==
  \/ AcquireClaim(t) \/ AcquireFail(t)
  \/ \E k \in issued \cup Forged : Calls(t, k)
  \/ Continue(t)
  \/ Expire(t)

Next ==
  /\ (\E t \in Task : TaskStep(t)) \/ (\E s \in Streams : Hardware(s))
  /\ UNCHANGED serialised

Spec == Init /\ [][Next]_vars

\* Every task that is inside an operation keeps running (the scheduler is
\* fair and the priorities of the callers do not starve one another), the
\* millisecond clock advances, and the hardware shows a completion flag.  It
\* is asked only where callers keep the rule: nothing is promised of the others.
Fairness ==
  /\ \A t \in Task : /\ WF_vars(serialised /\ Continue(t) /\ UNCHANGED serialised)
                     /\ WF_vars(serialised /\ Expire(t) /\ UNCHANGED serialised)
  /\ \A s \in Streams :
       WF_vars(serialised /\ HwCompleteFlag(s) /\ UNCHANGED serialised)

FairSpec == Spec /\ Fairness

-----------------------------------------------------------------------------
(* Properties. *)

TypeOK ==
  /\ claimed    \in [Streams -> BOOLEAN]
  /\ generation \in [Streams -> 0 .. GenLimit - 1]
  /\ configured \in [Streams -> BOOLEAN]
  /\ active     \in [Streams -> BOOLEAN]
  /\ request    \in [Streams -> Requests]
  /\ en         \in [Streams -> BOOLEAN]
  /\ stopping   \in [Streams -> BOOLEAN]
  /\ trailing   \in [Streams -> BOOLEAN]
  /\ flags      \in [Streams -> SUBSET Flags]
  /\ pc         \in [Task -> Steps]
  /\ arg        \in [Task -> Token]
  /\ clock      \in [Task -> Clocks]
  /\ serialised \in BOOLEAN
  /\ allocs     \in [Streams -> Nat]
  /\ issued     \subseteq Token
  /\ job        \in [Streams -> Jobs]

\* Token k names an allocation that is over, and a full turn of the
\* generation counter (GenLimit - 1 allocations) has not passed since.
Stale(k) ==
  /\ k.alloc # allocs[k.index]
  /\ allocs[k.index] < k.alloc + (GenLimit - 1)

\* docs/dma.md: "After release, a stale handle is invalid even when the same
\* stream is immediately acquired again", up to the generation wrap the same
\* paragraph names; words the driver never issued are invalid for ever.
StaleTokenRefused ==
  /\ \A k \in issued : Matches(k) => ~Stale(k)
  /\ \A k \in Forged : ~Matches(k)

\* Stream s is freed by the commit of a release whose token is current.
FreedByRelease(s) ==
  \E t \in Task : /\ pc[t] = "release_commit" /\ pc'[t] = "idle"
                 /\ arg[t].index = s
                 /\ ~Stale(arg[t])

\* However callers race, a stream becomes free only at the commit of a
\* release that was called with a token of the allocation that ends: the
\* recheck under the mask, dma.c:212, keeps a release that lost its stream
\* while it was stopping it from freeing the next owner's.
FreedByOwnAllocation ==
  [][\A s \in Streams : claimed[s] /\ ~claimed'[s] => FreedByRelease(s)]_vars

\* What software changes in stream s.
Touched(s) ==
  \/ claimed'[s] # claimed[s] \/ configured'[s] # configured[s]
  \/ active'[s] # active[s] \/ request'[s] # request[s]
  \/ stopping'[s] /\ ~stopping[s]
  \/ en'[s] /\ ~en[s]
  \/ flags[s] \ flags'[s] # {}

\* A call in progress on stream s has a current token.
OwnerAtWork(s) == \E t \in Task : Busy(t) /\ arg[t].index = s /\ ~Stale(arg[t])

\* dma_firmware.c:136: "A released token must not configure, inspect, abort
\* or release the newly allocated stream".  When callers serialise the
\* operations on each token, all software does to a claimed stream it does in
\* a call made with a token of the current allocation.
OnlyOwnerTouches ==
  [][serialised =>
       \A s \in Streams : claimed[s] /\ Touched(s) => OwnerAtWork(s)]_vars

\* When callers serialise, a stream that can be claimed is off and idle in
\* every respect: nobody's DMA still writes memory when it changes hands.
FreeIsInert ==
  serialised => \A s \in Streams : ~claimed[s] =>
    /\ ~en[s] /\ ~stopping[s]
    /\ ~configured[s] /\ ~active[s]
    /\ request[s] = "mem2mem"

\* What get_state and a wait say, when callers serialise, is what happened: never
\* COMPLETE for one that was aborted or belongs to an earlier allocation,
\* never IDLE for one that was started and not aborted, although EN clears
\* before the completion flag shows (dma.c:339).  A transfer whose abort
\* itself timed out (job "doomed") may show as complete when it drains.
ReportedStateIsTrue ==
  LET end == job[ret.stream] IN
  serialised =>
    /\ <<ret.op, ret.result>> \in {<<"get_state", "COMPLETE">>, <<"wait", "OK">>} =>
         end \in {"done", "doomed"}
    /\ <<ret.op, ret.result>> \in {<<"get_state", "ERROR">>, <<"wait", "IO">>} =>
         end = "failed"
    /\ ret.op = "get_state" /\ ret.result = "IDLE" => end = "none"

\* When callers serialise, every call other than an unbounded wait returns.
CallsReturn ==
  \A t \in Task : serialised /\ Busy(t) /\ clock[t] # "forever" ~> ~Busy(t)

\* So does an unbounded wait once the stream has stopped, whatever stopped it.
WaitFollowsHardware ==
  \A t \in Task :
    serialised /\ pc[t] = "wait_sample" /\ ~en[arg[t].index] ~> ~Busy(t)

\* The operation that holds stream s is at this step.
At(s, step) == \E t \in Task : pc[t] = step /\ arg[t].index = s

\* Serialised, the streams implement DmaSession: they change hands only at
\* rest, and a start never replaces a transfer that is unfinished, or one that
\* ended and whose end no get_state and no wait has answered yet and no abort,
\* configure or release has given up (dma.c:293: EN clears when the transfer
\* ends, and only g_dma_active still stands for the outcome).
Promise == INSTANCE DmaSession WITH
  session <- [s \in Streams |-> IF claimed[s] THEN allocs[s] ELSE 0],
  last    <- allocs,
  engine  <- [s \in Streams |-> IF en[s] THEN "on"
                               ELSE IF At(s, "start_enable") THEN "armed" ELSE "off"],
  view    <- [s \in Streams |-> IF At(s, "release_commit") THEN "IDLE" ELSE State(s)],
  owed    <- [s \in Streams |-> active[s] /\ ~At(s, "release_commit")]

\* See Promise: the refinement of DmaSession.
\* The rule is kept for a whole behaviour or not at all, so this is
\* serialised => Promise!Spec.
KeepsSessions ==
  /\ serialised => Promise!Init
  /\ [][serialised => Promise!Next]_(Promise!vars)

=============================================================================
