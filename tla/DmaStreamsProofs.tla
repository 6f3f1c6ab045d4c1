-------------------------- MODULE DmaStreamsProofs --------------------------
(***************************************************************************)
(* Theorems about DmaStreams, for every number of tasks, streams,          *)
(* allocations and generations.                                            *)
(***************************************************************************)
EXTENDS DmaStreams, TLAPS

\* What the assumptions on the constants say of the sets built from them.
LEMMA ConstantFacts ==
  /\ StreamCount \in Nat /\ StreamCount > 0
  /\ GenLimit \in Nat /\ GenLimit > 2
  /\ Streams \subseteq Nat
  /\ 0 \in Streams /\ StreamCount - 1 \in Streams
  /\ NoToken \in Token
  /\ Forged \subseteq Token
  /\ \A k \in Token : k.index \in Streams /\ k.gen \in 0 .. GenLimit /\ k.alloc \in Nat
BY StreamCountAssumption, GenLimitAssumption DEF Streams, Token, NoToken, Forged

\* stm32h755_dma_next_generation stays between 1 and the last generation.
LEMMA NextGenerationRange ==
  ASSUME NEW g \in 0 .. GenLimit - 1
  PROVE  NextGeneration(g) \in 1 .. GenLimit - 1
BY GenLimitAssumption DEF NextGeneration

-----------------------------------------------------------------------------
(* Type correctness. *)

\* The tables start in their types.
LEMMA InitTypeOK == Init => TypeOK
<1> SUFFICES ASSUME Init PROVE TypeOK
  OBVIOUS
<1>1. 0 \in 0 .. GenLimit - 1
  BY GenLimitAssumption
<1> QED
  BY <1>1, ConstantFacts DEF Init, TypeOK, Steps, Clocks, Jobs, Requests

\* A call that begins, or is refused, keeps the types.
LEMMA CallsTypeOK ==
  ASSUME TypeOK, UNCHANGED serialised, NEW t \in Task, NEW k \in Token, Calls(t, k)
  PROVE  TypeOK'
<1> USE ConstantFacts DEF Calls, Enter, Refuse, Return, book, hw, hist, Steps, Clocks
<1> USE DEF TypeOK
<1>1. CASE TokenRefused(t, k)     BY <1>1 DEF TokenRefused
<1>2. CASE Release(t, k)          BY <1>2 DEF Release
<1>3. CASE Configure(t, k)        BY <1>3 DEF Configure
<1>4. CASE ConfigureRefused(t, k) BY <1>4 DEF ConfigureRefused
<1>5. CASE ConfigureEnabled(t, k) BY <1>5 DEF ConfigureEnabled
<1>6. CASE SetRequest(t, k)       BY <1>6 DEF SetRequest
<1>7. CASE Start(t, k)            BY <1>7 DEF Start
<1>8. CASE StartRefused(t, k)     BY <1>8 DEF StartRefused
<1>9. CASE StartBusy(t, k)        BY <1>9 DEF StartBusy
<1>10. CASE GetState(t, k)        BY <1>10 DEF GetState
<1>11. CASE Wait(t, k)            BY <1>11 DEF Wait
<1>12. CASE WaitRefused(t, k)     BY <1>12 DEF WaitRefused
<1>13. CASE Abort(t, k)           BY <1>13 DEF Abort
<1> QED BY <1>1, <1>2, <1>3, <1>4, <1>5, <1>6, <1>7, <1>8, <1>9, <1>10, <1>11,
           <1>12, <1>13 DEF Calls

\* However it ends, an abort leaves its task idle.
LEMMA AbortReturnEffect ==
  ASSUME NEW t \in Task, NEW r \in Results, AbortReturn(t, r)
  PROVE  /\ pc' = [pc EXCEPT ![t] = "idle"]
         /\ arg' = [arg EXCEPT ![t] = NoToken]
         /\ clock' = [clock EXCEPT ![t] = "none"]
BY DEF AbortReturn, Return

\* A route is written, or not, and its task is idle.
LEMMA RouteEffect ==
  ASSUME NEW t \in Task, NEW s, NEW op, NEW line, Route(t, s, op, line)
  PROVE  /\ request' = [request EXCEPT ![s] = line] \/ request' = request
         /\ pc' = [pc EXCEPT ![t] = "idle"]
         /\ arg' = [arg EXCEPT ![t] = NoToken]
         /\ clock' = [clock EXCEPT ![t] = "none"]
BY DEF Route, Return

\* So does every later step of an operation.
LEMMA ContinueTypeOK ==
  ASSUME TypeOK, UNCHANGED serialised, NEW t \in Task, Continue(t)
  PROVE  TypeOK'
<1> USE ConstantFacts DEF Return, Goto, book, hw, hist, Steps, Clocks, Jobs, Requests,
        Flags, ClearFlags, RequestStop, Sample
<1>0. arg[t] \in Token /\ arg[t].index \in Streams
  BY DEF TypeOK
<1> USE <1>0 DEF TypeOK
<1>1. CASE AcquireReset(t)   BY <1>1 DEF AcquireReset
<1>2. CASE ReleaseStop(t)    BY <1>2 DEF ReleaseStop
<1>3. CASE ReleaseSpin(t)    BY <1>3 DEF ReleaseSpin
<1>4. CASE ReleaseTimeout(t) BY <1>4 DEF ReleaseTimeout
<1>5. CASE ReleaseClear(t)   BY <1>5 DEF ReleaseClear
<1>6. CASE ReleaseCommit(t)  BY <1>6 DEF ReleaseCommit
<1>7. CASE ReleaseLost(t)    BY <1>7 DEF ReleaseLost
<1>8. CASE ConfigureWrite(t) BY <1>8 DEF ConfigureWrite
<1>9. CASE ConfigureRoute(t)
  <2>1. /\ request' = [request EXCEPT ![arg[t].index] = "mem2mem"] \/ request' = request
        /\ pc' = [pc EXCEPT ![t] = "idle"]
        /\ arg' = [arg EXCEPT ![t] = NoToken]
        /\ clock' = [clock EXCEPT ![t] = "none"]
    BY <1>9, RouteEffect DEF ConfigureRoute
  <2> QED
    BY <1>9, <2>1 DEF ConfigureRoute
<1>10. CASE RouteWrite(t)
  <2>1. /\ request' = [request EXCEPT ![arg[t].index] = "peripheral"] \/ request' = request
        /\ pc' = [pc EXCEPT ![t] = "idle"]
        /\ arg' = [arg EXCEPT ![t] = NoToken]
        /\ clock' = [clock EXCEPT ![t] = "none"]
    BY <1>10, RouteEffect DEF RouteWrite
  <2> QED
    BY <1>10, <2>1 DEF RouteWrite
<1>11. CASE StartArm(t)      BY <1>11 DEF StartArm
<1>12. CASE StartEnable(t)   BY <1>12 DEF StartEnable
<1>13. CASE StateSample(t)   BY <1>13 DEF StateSample
<1>14. CASE WaitSettled(t)   BY <1>14 DEF WaitSettled
<1>15. CASE WaitLost(t)      BY <1>15 DEF WaitLost
<1>16. CASE WaitExpired(t)   BY <1>16 DEF WaitExpired
<1>17. CASE AbortStop(t)     BY <1>17 DEF AbortStop
<1>18. CASE AbortSpin(t)     BY <1>18 DEF AbortSpin
<1>19. CASE AbortTimeout(t)
  <2>1. /\ pc' = [pc EXCEPT ![t] = "idle"]
        /\ arg' = [arg EXCEPT ![t] = NoToken]
        /\ clock' = [clock EXCEPT ![t] = "none"]
    BY <1>19, AbortReturnEffect DEF AbortTimeout, Results
  <2>2. job' \in [Streams -> Jobs]
    BY <1>19 DEF AbortTimeout
  <2> QED
    BY <1>19, <2>1, <2>2 DEF AbortTimeout
<1>20. CASE AbortClear(t)
  <2>1. /\ pc' = [pc EXCEPT ![t] = "idle"]
        /\ arg' = [arg EXCEPT ![t] = NoToken]
        /\ clock' = [clock EXCEPT ![t] = "none"]
    BY <1>20, AbortReturnEffect DEF AbortClear, Results
  <2> QED
    BY <1>20, <2>1 DEF AbortClear
<1>21. CASE AbortRefused(t)  BY <1>21, AbortReturnEffect DEF AbortRefused, Results
<1> QED BY <1>1, <1>2, <1>3, <1>4, <1>5, <1>6, <1>7, <1>8, <1>9, <1>10, <1>11, <1>12,
           <1>13, <1>14, <1>15, <1>16, <1>17, <1>18, <1>19, <1>20,
           <1>21 DEF Continue

\* So does the claim of a stream and of its next generation.
LEMMA AcquireTypeOK ==
  ASSUME TypeOK, UNCHANGED serialised, NEW t \in Task, AcquireClaim(t)
  PROVE  TypeOK'
<1> USE ConstantFacts DEF TypeOK
<1>1. PICK s \in FreeStreams :
        LET gen == NextGeneration(generation[s])
            k   == [index |-> s, gen |-> gen, alloc |-> allocs[s] + 1]
        IN  generation' = [generation EXCEPT ![s] = gen] /\ arg' = [arg EXCEPT ![t] = k]
  BY DEF AcquireClaim
<1>2. s \in Streams
  BY DEF FreeStreams
<1>3. NextGeneration(generation[s]) \in 1 .. GenLimit - 1
  BY <1>2, NextGenerationRange
<1>4. NextGeneration(generation[s]) \in 0 .. GenLimit - 1
      /\ NextGeneration(generation[s]) \in 0 .. GenLimit
  BY <1>3
<1>5. generation' \in [Streams -> 0 .. GenLimit - 1]
  BY <1>1, <1>4
<1>6. arg' \in [Task -> Token]
  BY <1>1, <1>2, <1>4 DEF Token
<1> QED
  BY <1>5, <1>6 DEF AcquireClaim, FreeStreams, hw, Steps, Jobs

\* So does everything a stream does on its own.
LEMMA HardwareTypeOK ==
  ASSUME TypeOK, UNCHANGED serialised, NEW s \in Streams, Hardware(s)
  PROVE  TypeOK'
<1> USE DEF TypeOK, book, hist, Jobs, Flags
<1>1. CASE HwFinish(s)       BY <1>1 DEF HwFinish
<1>2. CASE HwCompleteFlag(s) BY <1>2 DEF HwCompleteFlag
<1>3. CASE HwError(s)        BY <1>3 DEF HwError
<1>4. CASE HwHalt(s)
  <2>1. job' \in [Streams -> Jobs]
    BY <1>4 DEF HwHalt
  <2>2. flags' \in [Streams -> SUBSET Flags]
    BY <1>4 DEF HwHalt
  <2> QED
    BY <1>4, <2>1, <2>2 DEF HwHalt
<1> QED
  BY <1>1, <1>2, <1>3, <1>4 DEF Hardware

\* Type correctness is inductive.
LEMMA NextTypeOK == TypeOK /\ [Next]_vars => TypeOK'
<1> SUFFICES ASSUME TypeOK, [Next]_vars PROVE TypeOK'
  OBVIOUS
<1>1. ASSUME UNCHANGED serialised, NEW t \in Task, AcquireClaim(t) PROVE TypeOK'
  BY <1>1, AcquireTypeOK
<1>2. ASSUME UNCHANGED serialised, NEW t \in Task, AcquireFail(t) PROVE TypeOK'
  BY <1>2, ConstantFacts DEF TypeOK, AcquireFail, Return, book, hw, hist, Steps, Clocks
<1>3. ASSUME UNCHANGED serialised, NEW t \in Task, NEW k \in issued \cup Forged, Calls(t, k)
      PROVE  TypeOK'
  <2>1. k \in Token
    BY ConstantFacts DEF TypeOK
  <2> QED
    BY <2>1, <1>3, CallsTypeOK
<1>4. ASSUME UNCHANGED serialised, NEW t \in Task, Continue(t) PROVE TypeOK'
  BY <1>4, ContinueTypeOK
<1>5. ASSUME UNCHANGED serialised, NEW t \in Task, Expire(t) PROVE TypeOK'
  BY <1>5 DEF TypeOK, Expire, book, hw, hist, Clocks
<1>6. ASSUME UNCHANGED serialised, NEW s \in Streams, Hardware(s) PROVE TypeOK'
  BY <1>6, HardwareTypeOK
<1>7. CASE UNCHANGED vars
  BY <1>7 DEF TypeOK, vars, book, hw, call, hist
<1> QED
  BY <1>1, <1>2, <1>3, <1>4, <1>5, <1>6, <1>7 DEF Next, TaskStep

\* The tables, registers and calls keep their types in every behaviour.
THEOREM TypeCorrect == Spec => []TypeOK
BY InitTypeOK, NextTypeOK, PTL DEF Spec

-----------------------------------------------------------------------------
(***************************************************************************)
(* Tokens.  While fewer than a full turn of allocations separates a token  *)
(* from the present, its generation and the stream's differ by exactly     *)
(* that number of allocations, wrapped at most once.                       *)
(***************************************************************************)
Turn == GenLimit - 1
Age(k) == allocs[k.index] - k.alloc

TokenAge(k) ==
  /\ k.gen \in 1 .. Turn
  /\ k.alloc \in 1 .. allocs[k.index]
  /\ Age(k) < Turn =>
       \/ generation[k.index] = k.gen + Age(k)
       \/ generation[k.index] = k.gen + Age(k) - Turn

\* The inductive invariant: every token that was returned, and the token of
\* every operation in progress, is of its age.
TokensOfAge ==
  /\ \A k \in issued : TokenAge(k)
  /\ \A t \in Task : Busy(t) => TokenAge(arg[t])

\* A token that matches is of the current allocation, or a full turn old.
LEMMA MatchingIsCurrent ==
  ASSUME TypeOK, NEW k \in Token, TokenAge(k), Matches(k)
  PROVE  ~Stale(k)
<1>1. k.index \in Streams /\ k.alloc \in Nat /\ k.gen \in 1 .. Turn
  BY ConstantFacts DEF TokenAge
<1>2. allocs[k.index] \in Nat
  BY <1>1 DEF TypeOK
<1>3. generation[k.index] = k.gen
  BY DEF Matches
<1> QED
  BY <1>1, <1>2, <1>3, GenLimitAssumption DEF TokenAge, Age, Turn, Stale

\* Another allocation makes every token of the stream one allocation older.
LEMMA AgeGrows ==
  ASSUME TypeOK, NEW k \in Token, TokenAge(k), NEW s \in Streams,
         generation' = [generation EXCEPT ![s] = NextGeneration(generation[s])],
         allocs' = [allocs EXCEPT ![s] = @ + 1]
  PROVE  TokenAge(k)'
<1>1. CASE k.index = s
  <2>1. /\ generation[s] \in 0 .. GenLimit - 1 /\ allocs[s] \in Nat
        /\ k.alloc \in Nat /\ k.gen \in 1 .. Turn /\ k.alloc \in 1 .. allocs[s]
    BY <1>1, ConstantFacts DEF TypeOK, TokenAge
  <2>2. generation'[s] = NextGeneration(generation[s]) /\ allocs'[s] = allocs[s] + 1
    BY <2>1 DEF TypeOK
  <2>3. k.alloc \in 1 .. allocs'[s]
    BY <2>1, <2>2
  <2>4. ASSUME allocs'[s] - k.alloc < Turn
        PROVE  \/ generation'[s] = k.gen + (allocs'[s] - k.alloc)
               \/ generation'[s] = k.gen + (allocs'[s] - k.alloc) - Turn
    <3>1. allocs[s] - k.alloc < Turn
      BY <2>1, <2>2, <2>4, GenLimitAssumption DEF Turn
    <3>2. \/ generation[s] = k.gen + (allocs[s] - k.alloc)
          \/ generation[s] = k.gen + (allocs[s] - k.alloc) - Turn
      BY <1>1, <3>1 DEF TokenAge, Age
    <3> QED
      BY <2>1, <2>2, <2>4, <3>2, GenLimitAssumption DEF NextGeneration, Turn
  <2> QED
    BY <1>1, <2>1, <2>3, <2>4 DEF TokenAge, Age
<1>2. CASE k.index # s
  <2>1. generation'[k.index] = generation[k.index] /\ allocs'[k.index] = allocs[k.index]
    BY <1>2, ConstantFacts DEF TypeOK
  <2> QED
    BY <2>1 DEF TokenAge, Age
<1> QED
  BY <1>1, <1>2

\* At first there are no tokens.
LEMMA InitTokens == Init => TokensOfAge
BY DEF Init, TokensOfAge, Busy

\* A token that passes the entry check was issued.
LEMMA MatchingIsIssued ==
  ASSUME NEW k \in issued \cup Forged, Matches(k)
  PROVE  k \in issued
BY GenLimitAssumption DEF Forged, Matches

\* Each kind of step preserves the age of the tokens.
LEMMA AcquireKeepsTokens ==
  ASSUME TypeOK, TokensOfAge, NEW t \in Task, AcquireClaim(t)
  PROVE  TokensOfAge'
<1>1. PICK s \in FreeStreams :
        /\ generation' = [generation EXCEPT ![s] = NextGeneration(generation[s])]
        /\ arg' = [arg EXCEPT ![t] = [index |-> s, gen |-> NextGeneration(generation[s]),
                                     alloc |-> allocs[s] + 1]]
        /\ allocs' = [allocs EXCEPT ![s] = @ + 1]
  BY DEF AcquireClaim
<1>2. s \in Streams /\ allocs[s] \in Nat /\ generation[s] \in 0 .. GenLimit - 1
  BY DEF FreeStreams, TypeOK
<1>3. NextGeneration(generation[s]) \in 1 .. Turn
  BY <1>2, NextGenerationRange DEF Turn
<1>4. ASSUME NEW k \in Token, TokenAge(k)
      PROVE  TokenAge(k)'
  BY <1>1, <1>2, <1>4, AgeGrows
<1>5. \A k \in issued' : TokenAge(k)'
  <2>1. issued' = issued
    BY DEF AcquireClaim
  <2> QED
    BY <1>4, <2>1 DEF TypeOK, TokensOfAge
<1>6. ASSUME NEW u \in Task, Busy(u)'
      PROVE  TokenAge(arg[u])'
  <2>1. CASE u = t
    <3> DEFINE k == [index |-> s, gen |-> NextGeneration(generation[s]),
                     alloc |-> allocs[s] + 1]
    <3>1. arg'[t] = k
      BY <1>1 DEF TypeOK
    <3>2. generation'[s] = k.gen /\ allocs'[s] = k.alloc
      BY <1>1, <1>2 DEF TypeOK
    <3>3. k.alloc \in 1 .. allocs'[k.index] /\ allocs'[k.index] - k.alloc = 0
      BY <1>2, <3>2
    <3>4. generation'[k.index] = k.gen + (allocs'[k.index] - k.alloc)
      BY <1>3, <3>2, <3>3, GenLimitAssumption DEF Turn
    <3> HIDE DEF k
    <3>5. k.gen \in 1 .. Turn
      BY <1>3 DEF k
    <3> QED
      BY <2>1, <3>1, <3>3, <3>4, <3>5 DEF TokenAge, Age
  <2>2. CASE u # t
    <3>1. arg'[u] = arg[u] /\ Busy(u)
      BY <1>1, <1>6, <2>2 DEF AcquireClaim, Busy, TypeOK
    <3>2. TokenAge(arg[u]) /\ arg[u] \in Token
      BY <3>1 DEF TokensOfAge, TypeOK
    <3> QED
      BY <3>1, <3>2, <1>4 DEF TokenAge, Age
  <2> QED
    BY <2>1, <2>2
<1> QED
  BY <1>5, <1>6 DEF TokensOfAge

\* A call takes a token that was issued, or one that matches nothing.
LEMMA CallsKeepTokens ==
  ASSUME TypeOK, TokensOfAge, NEW t \in Task, NEW k \in issued \cup Forged, Calls(t, k)
  PROVE  TokensOfAge'
<1>1. generation' = generation /\ allocs' = allocs /\ issued' = issued
  BY DEF Calls, TokenRefused, Release, Configure, ConfigureRefused, ConfigureEnabled,
         SetRequest, Start, StartRefused, StartBusy, GetState, Wait, WaitRefused, Abort,
         Enter, Refuse, book, hist
<1>2. \/ pc' = [pc EXCEPT ![t] = "idle"] /\ arg' = [arg EXCEPT ![t] = NoToken]
      \/ /\ Matches(k) /\ arg' = [arg EXCEPT ![t] = k]
         /\ \E step \in Steps : pc' = [pc EXCEPT ![t] = step]
  BY DEF Calls, TokenRefused, Release, Configure, ConfigureRefused, ConfigureEnabled,
         SetRequest, Start, StartRefused, StartBusy, GetState, Wait, WaitRefused, Abort,
         Enter, Refuse, Return, Steps
<1>3. ASSUME NEW u \in Task, Busy(u)' PROVE TokenAge(arg'[u])
  <2>1. CASE u = t
    <3>1. Matches(k) /\ arg'[t] = k
      BY <1>2, <1>3, <2>1 DEF TypeOK, Busy
    <3> QED
      BY <2>1, <3>1, MatchingIsIssued DEF TokensOfAge
  <2>2. CASE u # t
    BY <1>2, <1>3, <2>2 DEF TypeOK, Busy, TokensOfAge
  <2> QED
    BY <2>1, <2>2
<1> QED
  BY <1>1, <1>3 DEF TokensOfAge, TokenAge, Age, Turn

\* The other steps of an operation leave the allocations alone and keep the
\* token they work on, or end the operation.
LEMMA ContinueFrame ==
  ASSUME TypeOK, NEW t \in Task, Continue(t)
  PROVE  /\ generation' = generation /\ allocs' = allocs
         /\ issued' \subseteq issued \cup {arg[t]}
         /\ Busy(t)
         /\ \A u \in Task \ {t} : pc'[u] = pc[u] /\ arg'[u] = arg[u]
         /\ Busy(t)' => arg'[t] = arg[t]
<1> USE DEF Busy, TypeOK, Goto, Return, Route, AbortReturn, book, hist
<1>1. CASE AcquireReset(t) \/ ReleaseStop(t) \/ ReleaseSpin(t) \/ ReleaseTimeout(t)
  BY <1>1 DEF AcquireReset, ReleaseStop, ReleaseSpin, ReleaseTimeout
<1>2. CASE ReleaseClear(t) \/ ReleaseCommit(t) \/ ReleaseLost(t)
  BY <1>2 DEF ReleaseClear, ReleaseCommit, ReleaseLost
<1>3. CASE ConfigureWrite(t) \/ ConfigureRoute(t) \/ RouteWrite(t)
  BY <1>3 DEF ConfigureWrite, ConfigureRoute, RouteWrite
<1>4. CASE StartArm(t) \/ StartEnable(t) \/ StateSample(t)
  BY <1>4 DEF StartArm, StartEnable, StateSample
<1>5. CASE WaitSettled(t) \/ WaitLost(t) \/ WaitExpired(t)
  BY <1>5 DEF WaitSettled, WaitLost, WaitExpired
<1>6. CASE AbortRefused(t) \/ AbortStop(t) \/ AbortSpin(t) \/ AbortTimeout(t)
           \/ AbortClear(t)
  BY <1>6 DEF AbortRefused, AbortStop, AbortSpin, AbortTimeout, AbortClear
<1> QED
  BY <1>1, <1>2, <1>3, <1>4, <1>5, <1>6 DEF Continue

\* The later steps keep the ages, as they keep the allocations.
LEMMA ContinueKeepsTokens ==
  ASSUME TypeOK, TokensOfAge, NEW t \in Task, Continue(t)
  PROVE  TokensOfAge'
<1>1. TokenAge(arg[t])
  BY ContinueFrame DEF TokensOfAge
<1> QED
  BY <1>1, ContinueFrame DEF TokensOfAge, TokenAge, Age, Turn, Busy

\* The ages of tokens are inductive.
LEMMA NextTokens == TypeOK /\ TokensOfAge /\ [Next]_vars => TokensOfAge'
<1> SUFFICES ASSUME TypeOK, TokensOfAge, [Next]_vars PROVE TokensOfAge'
  OBVIOUS
<1>1. ASSUME NEW t \in Task, AcquireClaim(t) PROVE TokensOfAge'
  BY <1>1, AcquireKeepsTokens
<1>2. ASSUME NEW t \in Task, AcquireFail(t) PROVE TokensOfAge'
  BY <1>2 DEF AcquireFail, Return, book, hist, TokensOfAge, TokenAge, Age, Turn, Busy, TypeOK
<1>3. ASSUME NEW t \in Task, NEW k \in issued \cup Forged, Calls(t, k) PROVE TokensOfAge'
  BY <1>3, CallsKeepTokens
<1>4. ASSUME NEW t \in Task, Continue(t) PROVE TokensOfAge'
  BY <1>4, ContinueKeepsTokens
<1>5. ASSUME NEW t \in Task, Expire(t) PROVE TokensOfAge'
  BY <1>5 DEF Expire, book, hist, TokensOfAge, TokenAge, Age, Turn, Busy
<1>6. ASSUME NEW s \in Streams, Hardware(s) PROVE TokensOfAge'
  BY <1>6 DEF Hardware, HwFinish, HwCompleteFlag, HwError, HwHalt, book, hist,
              TokensOfAge, TokenAge, Age, Turn, Busy
<1>7. CASE UNCHANGED vars
  BY <1>7 DEF vars, book, hw, call, hist, TokensOfAge, TokenAge, Age, Turn, Busy
<1> QED
  BY <1>1, <1>2, <1>3, <1>4, <1>5, <1>6, <1>7 DEF Next, TaskStep

\* Every token in the system has, at any time, the generation of its age.
LEMMA TokensInv == Spec => [](TypeOK /\ TokensOfAge)
BY InitTypeOK, NextTypeOK, InitTokens, NextTokens, PTL DEF Spec

\* Whatever the callers do, no operation accepts a released token until the
\* generation of its stream has turned over, and none ever accepts a word the
\* driver did not issue.
THEOREM StaleTokensAreRefused == Spec => []StaleTokenRefused
<1>1. TypeOK /\ TokensOfAge => StaleTokenRefused
  <2> SUFFICES ASSUME TypeOK, TokensOfAge PROVE StaleTokenRefused
    OBVIOUS
  <2>1. ASSUME NEW k \in issued, Matches(k) PROVE ~Stale(k)
    BY <2>1, MatchingIsCurrent DEF TypeOK, TokensOfAge
  <2>2. ASSUME NEW k \in Forged PROVE ~Matches(k)
    BY <2>2, GenLimitAssumption DEF Forged, Matches
  <2> QED
    BY <2>1, <2>2 DEF StaleTokenRefused
<1> QED
  BY <1>1, TokensInv, PTL

\* A stream is freed only by a release of its own allocation, however calls
\* on shared handles interleave.
THEOREM OnlyOwnAllocationIsFreed == Spec => FreedByOwnAllocation
<1>1. ASSUME TypeOK, TokensOfAge, Next, NEW s \in Streams, claimed[s], ~claimed'[s]
      PROVE  FreedByRelease(s)
  <2>1. ASSUME NEW t \in Task, AcquireClaim(t) PROVE FALSE
    BY <1>1, <2>1 DEF AcquireClaim, TypeOK, FreeStreams
  <2>2. ASSUME NEW t \in Task, AcquireFail(t) PROVE FALSE
    BY <1>1, <2>2 DEF AcquireFail, book
  <2>3. ASSUME NEW t \in Task, NEW k \in issued \cup Forged, Calls(t, k) PROVE FALSE
    BY <1>1, <2>3 DEF Calls, TokenRefused, Release, Configure, ConfigureRefused,
       ConfigureEnabled, SetRequest, Start, StartRefused, StartBusy, GetState, Wait,
       WaitRefused, Abort, Enter, Refuse, book
  <2>4. ASSUME NEW t \in Task, Continue(t) PROVE FreedByRelease(s)
    <3>1. ReleaseCommit(t)
      BY <1>1, <2>4 DEF Continue, AcquireReset, ReleaseStop, ReleaseSpin, ReleaseTimeout,
         ReleaseClear, ReleaseLost, ConfigureWrite, ConfigureRoute, RouteWrite, StartArm,
         StartEnable, StateSample, WaitSettled, WaitLost, WaitExpired, AbortStop,
         AbortSpin, AbortTimeout, AbortClear, AbortRefused, AbortReturn, book
    <3>2. /\ pc[t] = "release_commit" /\ pc'[t] = "idle" /\ Matches(arg[t])
          /\ arg[t].index = s
      BY <1>1, <3>1 DEF ReleaseCommit, Return, TypeOK
    <3>3. arg[t] \in Token /\ TokenAge(arg[t])
      BY <1>1, <3>2 DEF TypeOK, TokensOfAge, Busy
    <3> QED
      BY <1>1, <3>2, <3>3, MatchingIsCurrent DEF FreedByRelease
  <2>5. ASSUME NEW t \in Task, Expire(t) PROVE FALSE
    BY <1>1, <2>5 DEF Expire, book
  <2>6. ASSUME NEW r \in Streams, Hardware(r) PROVE FALSE
    BY <1>1, <2>6 DEF Hardware, HwFinish, HwCompleteFlag, HwError, HwHalt, book
  <2> QED
    BY <1>1, <2>1, <2>2, <2>3, <2>4, <2>5, <2>6 DEF Next, TaskStep
<1>2. TypeOK /\ TokensOfAge /\ [Next]_vars =>
        [\A s \in Streams : claimed[s] /\ ~claimed'[s] => FreedByRelease(s)]_vars
  <2> SUFFICES ASSUME TypeOK, TokensOfAge, [Next]_vars
               PROVE  [\A s \in Streams : claimed[s] /\ ~claimed'[s] => FreedByRelease(s)]_vars
    OBVIOUS
  <2>1. CASE UNCHANGED vars
    BY <2>1
  <2>2. CASE Next
    <3>1. \A s \in Streams : claimed[s] /\ ~claimed'[s] => FreedByRelease(s)
      BY <1>1, <2>2, Zenon
    <3> QED
      BY <3>1
  <2> QED
    BY <2>1, <2>2
<1> QED
  BY <1>2, TokensInv, PTL DEF Spec, FreedByOwnAllocation

-----------------------------------------------------------------------------
(***************************************************************************)
(* Serialised callers.  A call in progress owns its stream alone, so what  *)
(* release has already switched off stays off until it publishes the       *)
(* stream as free.                                                         *)
(***************************************************************************)
SoleOwner ==
  /\ \A t \in Task : Busy(t) => Matches(arg[t])
  /\ \A t, u \in Task :
       Busy(t) /\ Busy(u) /\ arg[t].index = arg[u].index => t = u

Rest(s) == ~en[s] /\ ~configured[s] /\ ~active[s] /\ request[s] = "mem2mem"

Quiet ==
  /\ \A s \in Streams : stopping[s] => en[s]
  /\ \A s \in Streams : ~claimed[s] => Rest(s)
  /\ \A t \in Task : pc[t] \in {"release_clear", "release_commit"} => ~en[arg[t].index]
  /\ \A t \in Task : pc[t] = "release_commit" => request[arg[t].index] = "mem2mem"

\* At first nothing is claimed and nothing runs.
LEMMA InitSoleOwner == Init => SoleOwner /\ Quiet
BY DEF Init, SoleOwner, Quiet, Rest, Busy

\* A claim takes a free stream, which no operation works on.
LEMMA AcquireKeepsOwner ==
  ASSUME TypeOK, SoleOwner, NEW t \in Task, AcquireClaim(t)
  PROVE  SoleOwner'
<1>1. PICK s \in FreeStreams :
        /\ generation' = [generation EXCEPT ![s] = NextGeneration(generation[s])]
        /\ arg' = [arg EXCEPT ![t] = [index |-> s, gen |-> NextGeneration(generation[s]),
                                     alloc |-> allocs[s] + 1]]
        /\ claimed' = [claimed EXCEPT ![s] = TRUE]
  BY DEF AcquireClaim
<1>2. s \in Streams /\ ~claimed[s] /\ generation[s] \in 0 .. GenLimit - 1
  BY DEF FreeStreams, TypeOK
<1>3. NextGeneration(generation[s]) \in 1 .. GenLimit - 1
  BY <1>2, NextGenerationRange
<1>4. arg'[t].index = s /\ Matches(arg[t])'
  <2>1. /\ arg'[t].index = s /\ arg'[t].gen = NextGeneration(generation[s])
        /\ claimed'[s] /\ generation'[s] = NextGeneration(generation[s])
    BY <1>1, <1>2 DEF TypeOK
  <2>2. arg'[t].gen # 0 /\ arg'[t].gen < GenLimit
    BY <2>1, <1>3, GenLimitAssumption
  <2> QED
    BY <2>1, <2>2 DEF Matches
<1>5. ASSUME NEW u \in Task \ {t}, Busy(u)'
      PROVE  Busy(u) /\ arg'[u] = arg[u] /\ arg[u].index # s /\ Matches(arg[u])'
  <2>1. Busy(u) /\ arg'[u] = arg[u] /\ Matches(arg[u]) /\ arg[u].index \in Streams
    BY <1>1, <1>5, ConstantFacts DEF AcquireClaim, Busy, TypeOK, SoleOwner
  <2>2. arg[u].index # s
    BY <1>2, <2>1 DEF Matches
  <2> QED
    BY <1>1, <2>1, <2>2 DEF Matches, TypeOK
<1> QED
  BY <1>4, <1>5 DEF SoleOwner

\* Serialised, a call that passes the entry check is the only one on its stream.
LEMMA CallsKeepOwner ==
  ASSUME TypeOK, SoleOwner, serialised,
         NEW t \in Task, NEW k \in issued \cup Forged, Calls(t, k)
  PROVE  SoleOwner'
<1>1. generation' = generation /\ claimed' = claimed
  BY DEF Calls, TokenRefused, Release, Configure, ConfigureRefused, ConfigureEnabled,
         SetRequest, Start, StartRefused, StartBusy, GetState, Wait, WaitRefused, Abort,
         Enter, Refuse, book, hist
<1>2. MayCall(t, k)
  BY DEF Calls, TokenRefused, Release, Configure, ConfigureRefused, ConfigureEnabled,
         SetRequest, Start, StartRefused, StartBusy, GetState, Wait, WaitRefused, Abort,
         Enter, Refuse
<1>3. \/ pc' = [pc EXCEPT ![t] = "idle"] /\ arg' = [arg EXCEPT ![t] = NoToken]
      \/ /\ Matches(k) /\ arg' = [arg EXCEPT ![t] = k]
         /\ \E step \in Steps : pc' = [pc EXCEPT ![t] = step]
  BY DEF Calls, TokenRefused, Release, Configure, ConfigureRefused, ConfigureEnabled,
         SetRequest, Start, StartRefused, StartBusy, GetState, Wait, WaitRefused, Abort,
         Enter, Refuse, Return, Steps
<1>4. ASSUME NEW u \in Task \ {t}, Busy(u)'
      PROVE  Busy(u) /\ arg'[u] = arg[u] /\ Matches(arg[u])
  BY <1>3, <1>4 DEF TypeOK, Busy, SoleOwner
<1>5. ASSUME Busy(t)'
      PROVE  arg'[t] = k /\ Matches(k)
  BY <1>3, <1>5 DEF TypeOK, Busy
<1>6. ASSUME NEW u \in Task \ {t}, Busy(u)', Busy(t)'
      PROVE  arg[u].index # k.index
  <2>1. ~SameWord(arg[u], k)
    BY <1>2, <1>4, <1>6 DEF MayCall
  <2>2. arg[u].gen = generation[arg[u].index] /\ k.gen = generation[k.index]
    BY <1>4, <1>5, <1>6 DEF Matches
  <2> QED
    BY <2>1, <2>2 DEF SameWord
<1>7. \A u \in Task : Busy(u)' => Matches(arg'[u])
  BY <1>4, <1>5
<1> QED
  BY <1>1, <1>4, <1>5, <1>6, <1>7 DEF SoleOwner, Matches

\* Only the commit of a release changes who holds a stream, and it ends there.
LEMMA ContinueClaims ==
  ASSUME TypeOK, NEW t \in Task, Continue(t)
  PROVE  \/ claimed' = claimed
         \/ /\ claimed' = [claimed EXCEPT ![arg[t].index] = FALSE]
            /\ ~Busy(t)'
<1> USE DEF Busy, TypeOK, book
<1>1. CASE ReleaseCommit(t)
  BY <1>1 DEF ReleaseCommit, Return
<1>2. CASE ~ReleaseCommit(t)
  BY <1>2 DEF Continue, AcquireReset, ReleaseStop, ReleaseSpin, ReleaseTimeout,
         ReleaseClear, ReleaseLost, ConfigureWrite, ConfigureRoute, RouteWrite, StartArm,
         StartEnable, StateSample, WaitSettled, WaitLost, WaitExpired, AbortStop,
         AbortSpin, AbortTimeout, AbortClear, AbortRefused, AbortReturn
<1> QED
  BY <1>1, <1>2

\* The later steps work on the same stream, or let go of it.
LEMMA ContinueKeepsOwner ==
  ASSUME TypeOK, SoleOwner, NEW t \in Task, Continue(t)
  PROVE  SoleOwner'
<1>1. /\ generation' = generation /\ Busy(t)
      /\ \A u \in Task \ {t} : pc'[u] = pc[u] /\ arg'[u] = arg[u]
      /\ Busy(t)' => arg'[t] = arg[t]
  BY ContinueFrame
<1>2. ASSUME NEW u \in Task, Busy(u)'
      PROVE  Busy(u) /\ arg'[u] = arg[u]
  BY <1>1, <1>2 DEF Busy
<1>3. ASSUME NEW u \in Task, Busy(u)'
      PROVE  Matches(arg[u])'
  <2>1. Busy(u) /\ arg'[u] = arg[u] /\ Matches(arg[u]) /\ arg[u].index \in Streams
    BY <1>2, <1>3, ConstantFacts DEF SoleOwner, TypeOK
  <2>2. CASE claimed' = claimed
    BY <1>1, <2>1, <2>2 DEF Matches
  <2>3. CASE claimed' = [claimed EXCEPT ![arg[t].index] = FALSE] /\ ~Busy(t)'
    <3>1. arg[u].index # arg[t].index
      BY <1>1, <1>3, <2>1, <2>3 DEF SoleOwner
    <3>2. claimed'[arg[u].index] = claimed[arg[u].index]
      BY <2>1, <2>3, <3>1 DEF TypeOK
    <3> QED
      BY <1>1, <2>1, <3>2 DEF Matches
  <2> QED
    BY <2>2, <2>3, ContinueClaims
<1> QED
  BY <1>2, <1>3 DEF SoleOwner

\* That a stream has one operation at a time, and only while claimed, is inductive.
LEMMA NextSoleOwner ==
  serialised /\ TypeOK /\ SoleOwner /\ [Next]_vars => SoleOwner'
<1> SUFFICES ASSUME serialised, TypeOK, SoleOwner, [Next]_vars PROVE SoleOwner'
  OBVIOUS
<1>1. ASSUME NEW t \in Task, AcquireClaim(t) PROVE SoleOwner'
  BY <1>1, AcquireKeepsOwner
<1>2. ASSUME NEW t \in Task, AcquireFail(t) PROVE SoleOwner'
  BY <1>2 DEF AcquireFail, Return, book, SoleOwner, Matches, Busy, TypeOK
<1>3. ASSUME NEW t \in Task, NEW k \in issued \cup Forged, Calls(t, k) PROVE SoleOwner'
  BY <1>3, CallsKeepOwner
<1>4. ASSUME NEW t \in Task, Continue(t) PROVE SoleOwner'
  BY <1>4, ContinueKeepsOwner
<1>5. ASSUME NEW t \in Task, Expire(t) PROVE SoleOwner'
  BY <1>5 DEF Expire, book, SoleOwner, Matches, Busy
<1>6. ASSUME NEW s \in Streams, Hardware(s) PROVE SoleOwner'
  BY <1>6 DEF Hardware, HwFinish, HwCompleteFlag, HwError, HwHalt, book,
              SoleOwner, Matches, Busy
<1>7. CASE UNCHANGED vars
  BY <1>7 DEF vars, book, hw, call, hist, SoleOwner, Matches, Busy
<1> QED
  BY <1>1, <1>2, <1>3, <1>4, <1>5, <1>6, <1>7 DEF Next, TaskStep

\* A step does nothing to stream r.
Untouched(r) ==
  /\ claimed'[r] = claimed[r] /\ configured'[r] = configured[r]
  /\ active'[r] = active[r] /\ request'[r] = request[r]
  /\ en'[r] = en[r] /\ stopping'[r] = stopping[r]

\* What a step of the sole owner of stream s has to leave behind there.
LeavesQuiet(t, s) ==
  /\ stopping'[s] => en'[s]
  /\ ~claimed'[s] =>
       ~en'[s] /\ ~configured'[s] /\ ~active'[s] /\ request'[s] = "mem2mem"
  /\ pc'[t] \in {"release_clear", "release_commit"} => ~en'[s]
  /\ pc'[t] = "release_commit" => request'[s] = "mem2mem"

\* A step of one operation, which touches the stream it works on and no other.
LEMMA OwnStepKeepsQuiet ==
  ASSUME TypeOK, SoleOwner, Quiet, NEW t \in Task, Continue(t),
         \A r \in Streams \ {arg[t].index} : Untouched(r),
         LeavesQuiet(t, arg[t].index)
  PROVE  Quiet'
<1> DEFINE s == arg[t].index
<1>1. s \in Streams /\ \A u \in Task : arg[u].index \in Streams
  BY ConstantFacts DEF TypeOK
<1>2. /\ \A u \in Task \ {t} : pc'[u] = pc[u] /\ arg'[u] = arg[u]
      /\ Busy(t) /\ (Busy(t)' => arg'[t] = arg[t])
  BY ContinueFrame
<1>3. ASSUME NEW u \in Task \ {t}, Busy(u)
      PROVE  arg[u].index # s
  BY <1>2, <1>3 DEF SoleOwner
<1> HIDE DEF s
<1>4. \A r \in Streams : stopping'[r] => en'[r]
  BY <1>1 DEF Quiet, Untouched, LeavesQuiet, s
<1>5. \A r \in Streams : ~claimed'[r] => Rest(r)'
  BY <1>1 DEF Quiet, Untouched, LeavesQuiet, Rest, s
<1>6. ASSUME NEW u \in Task, pc'[u] \in {"release_clear", "release_commit"}
      PROVE  /\ ~en'[arg'[u].index]
             /\ pc'[u] = "release_commit" => request'[arg'[u].index] = "mem2mem"
  <2>1. CASE u = t
    BY <1>2, <1>6, <2>1 DEF LeavesQuiet, Busy
  <2>2. CASE u # t
    <3>1. pc'[u] = pc[u] /\ arg'[u] = arg[u] /\ Busy(u)
      BY <1>2, <1>6, <2>2 DEF Busy
    <3>2. Untouched(arg[u].index)
      BY <1>1, <1>3, <2>2, <3>1 DEF s
    <3> QED
      BY <1>6, <3>1, <3>2 DEF Untouched, Quiet
  <2> QED
    BY <2>1, <2>2
<1> QED
  BY <1>4, <1>5, <1>6 DEF Quiet

\* The owner's view of its own stream between two steps.
LEMMA OwnStream ==
  ASSUME TypeOK, SoleOwner, Quiet, NEW t \in Task, Busy(t)
  PROVE  /\ arg[t].index \in Streams
         /\ claimed[arg[t].index]
         /\ stopping[arg[t].index] => en[arg[t].index]
BY ConstantFacts DEF TypeOK, SoleOwner, Quiet, Matches

\* A step of an operation stays on its own stream and leaves it quiet.
LEMMA ContinueLeavesQuiet ==
  ASSUME TypeOK, SoleOwner, Quiet, NEW t \in Task, Continue(t)
  PROVE  /\ LeavesQuiet(t, arg[t].index)
         /\ \A r \in Streams \ {arg[t].index} :
              Untouched(r) /\ flags'[r] = flags[r]
<1> DEFINE s == arg[t].index
<1>1. Busy(t) /\ s \in Streams /\ claimed[s] /\ (stopping[s] => en[s])
  BY ContinueFrame, OwnStream
<1>2. /\ pc[t] \in {"release_clear", "release_commit"} => ~en[s]
      /\ pc[t] = "release_commit" => request[s] = "mem2mem"
  BY DEF Quiet
<1> USE <1>1, <1>2 DEF LeavesQuiet, Untouched, Goto, Return, ClearFlags, TypeOK, book, hw
<1>3. CASE AcquireReset(t) BY <1>3 DEF AcquireReset
<1>4. CASE ReleaseStop(t)  BY <1>4 DEF ReleaseStop, RequestStop
<1>5. CASE ReleaseSpin(t)  BY <1>5 DEF ReleaseSpin
<1>6. CASE ReleaseTimeout(t) BY <1>6 DEF ReleaseTimeout
<1>7. CASE ReleaseClear(t) BY <1>7 DEF ReleaseClear
<1>8. CASE ReleaseCommit(t) BY <1>8 DEF ReleaseCommit
<1>9. CASE ReleaseLost(t)  BY <1>9 DEF ReleaseLost
<1>10. CASE ConfigureWrite(t) BY <1>10 DEF ConfigureWrite, RequestStop
<1>11. CASE ConfigureRoute(t) \/ RouteWrite(t)
  BY <1>11 DEF ConfigureRoute, RouteWrite, Route
<1>12. CASE StartArm(t) BY <1>12 DEF StartArm
<1>13. CASE StartEnable(t) BY <1>13 DEF StartEnable
<1>14. CASE StateSample(t) \/ WaitSettled(t)
  BY <1>14 DEF StateSample, WaitSettled, Sample
<1>15. CASE WaitLost(t) \/ WaitExpired(t)
  BY <1>15 DEF WaitLost, WaitExpired
<1>16. CASE AbortStop(t) BY <1>16 DEF AbortStop, RequestStop
<1>17. CASE AbortSpin(t) BY <1>17 DEF AbortSpin
<1>18. CASE AbortTimeout(t) BY <1>18, AbortReturnEffect DEF AbortTimeout, Results
<1>19. CASE AbortClear(t) BY <1>19, AbortReturnEffect DEF AbortClear, Results
<1>20. CASE AbortRefused(t) BY <1>20, AbortReturnEffect DEF AbortRefused, Results
<1> QED
  BY <1>3, <1>4, <1>5, <1>6, <1>7, <1>8, <1>9, <1>10, <1>11, <1>12, <1>13, <1>14, <1>15,
     <1>16, <1>17, <1>18, <1>19, <1>20 DEF Continue

\* A step of an operation leaves the streams that are not its own at rest.
LEMMA ContinueKeepsQuiet ==
  ASSUME TypeOK, SoleOwner, Quiet, NEW t \in Task, Continue(t)
  PROVE  Quiet'
BY ContinueLeavesQuiet, OwnStepKeepsQuiet

\* A call that begins changes no stream, or only its own.
LEMMA CallsKeepQuiet ==
  ASSUME TypeOK, Quiet, NEW t \in Task, NEW k \in issued \cup Forged, Calls(t, k)
  PROVE  Quiet'
<1>1. UNCHANGED <<claimed, configured, active, request, en, stopping>>
  BY DEF Calls, TokenRefused, Release, Configure, ConfigureRefused, ConfigureEnabled,
         SetRequest, Start, StartRefused, StartBusy, GetState, Wait, WaitRefused, Abort,
         Enter, Refuse, book, hw
<1>2. \E step \in Steps \ {"release_clear", "release_commit"} :
        pc' = [pc EXCEPT ![t] = step]
  BY DEF Calls, TokenRefused, Release, Configure, ConfigureRefused, ConfigureEnabled,
         SetRequest, Start, StartRefused, StartBusy, GetState, Wait, WaitRefused, Abort,
         Enter, Refuse, Return, Steps
<1>3. \A u \in Task \ {t} : arg'[u] = arg[u]
  BY DEF Calls, TokenRefused, Release, Configure, ConfigureRefused, ConfigureEnabled,
         SetRequest, Start, StartRefused, StartBusy, GetState, Wait, WaitRefused, Abort,
         Enter, Refuse, Return, TypeOK
<1>4. ASSUME NEW u \in Task, pc'[u] \in {"release_clear", "release_commit"}
      PROVE  pc'[u] = pc[u] /\ arg'[u] = arg[u]
  BY <1>2, <1>3, <1>4 DEF TypeOK
<1> QED
  BY <1>1, <1>4 DEF Quiet, Rest

\* That free streams rest is inductive, given their sole owners.
LEMMA NextQuiet ==
  TypeOK /\ SoleOwner /\ Quiet /\ [Next]_vars => Quiet'
<1> SUFFICES ASSUME TypeOK, SoleOwner, Quiet, [Next]_vars PROVE Quiet'
  OBVIOUS
<1>1. ASSUME NEW t \in Task, AcquireClaim(t) PROVE Quiet'
  <2>1. PICK s \in Streams :
          /\ claimed' = [claimed EXCEPT ![s] = TRUE]
          /\ configured' = [configured EXCEPT ![s] = FALSE]
          /\ active' = [active EXCEPT ![s] = FALSE]
          /\ \A u \in Task \ {t} : arg'[u] = arg[u]
    <3>1. PICK s \in FreeStreams :
            /\ claimed' = [claimed EXCEPT ![s] = TRUE]
            /\ configured' = [configured EXCEPT ![s] = FALSE]
            /\ active' = [active EXCEPT ![s] = FALSE]
            /\ arg' = [arg EXCEPT ![t] = [index |-> s, gen |-> NextGeneration(generation[s]),
                                         alloc |-> allocs[s] + 1]]
      BY <1>1 DEF AcquireClaim
    <3> QED
      BY <3>1 DEF FreeStreams, TypeOK
  <2>2. UNCHANGED <<request, en, stopping>> /\ pc' = [pc EXCEPT ![t] = "acquire_reset"]
    BY <1>1 DEF AcquireClaim, hw
  <2>3. \A r \in Streams : ~claimed'[r] =>
             ~claimed[r] /\ configured'[r] = configured[r] /\ active'[r] = active[r]
    BY <2>1 DEF TypeOK
  <2>4. ASSUME NEW u \in Task, pc'[u] \in {"release_clear", "release_commit"}
        PROVE  pc'[u] = pc[u] /\ arg'[u] = arg[u]
    BY <2>1, <2>2, <2>4 DEF TypeOK
  <2> QED
    BY <2>2, <2>3, <2>4 DEF Quiet, Rest
<1>2. ASSUME NEW t \in Task, AcquireFail(t) PROVE Quiet'
  BY <1>2 DEF AcquireFail, Return, book, hw, Quiet, Rest, TypeOK
<1>3. ASSUME NEW t \in Task, NEW k \in issued \cup Forged, Calls(t, k) PROVE Quiet'
  BY <1>3, CallsKeepQuiet
<1>4. ASSUME NEW t \in Task, Continue(t) PROVE Quiet'
  BY <1>4, ContinueKeepsQuiet
<1>5. ASSUME NEW t \in Task, Expire(t) PROVE Quiet'
  BY <1>5 DEF Expire, book, hw, Quiet, Rest
<1>6. ASSUME NEW s \in Streams, Hardware(s) PROVE Quiet'
  <2>1. /\ UNCHANGED <<claimed, configured, active, request, pc, arg>>
        /\ \/ en' = en /\ stopping' = stopping
           \/ /\ en' = [en EXCEPT ![s] = FALSE]
              /\ stopping' = [stopping EXCEPT ![s] = FALSE]
    BY <1>6 DEF Hardware, HwFinish, HwCompleteFlag, HwError, HwHalt, book
  <2>2. \A r \in Streams : (en'[r] => en[r]) /\ (stopping'[r] => en'[r])
    BY <2>1 DEF Quiet, TypeOK
  <2>3. \A u \in Task : arg[u].index \in Streams
    BY ConstantFacts DEF TypeOK
  <2> QED
    BY <2>1, <2>2, <2>3 DEF Quiet, Rest
<1>7. CASE UNCHANGED vars
  BY <1>7 DEF vars, book, hw, call, hist, Quiet, Rest
<1> QED
  BY <1>1, <1>2, <1>3, <1>4, <1>5, <1>6, <1>7 DEF Next, TaskStep

\* What every behaviour keeps, and what one with serialised callers keeps besides.
Owned == TypeOK /\ TokensOfAge /\ (serialised => SoleOwner /\ Quiet)

\* Callers keep the rule for a whole behaviour, or not at all.
LEMMA RuleIsForEver == [Next]_vars => serialised' = serialised
BY DEF Next, vars

\* That is an invariant.
LEMMA SerialisedInv == Spec => []Owned
<1>1. Init => Owned
  BY InitTypeOK, InitTokens, InitSoleOwner DEF Owned
<1>2. Owned /\ [Next]_vars => Owned'
  <2> SUFFICES ASSUME Owned, [Next]_vars PROVE Owned'
    OBVIOUS
  <2>1. TypeOK' /\ TokensOfAge'
    BY NextTypeOK, NextTokens DEF Owned
  <2>2. ASSUME serialised' PROVE SoleOwner' /\ Quiet'
    BY <2>2, RuleIsForEver, NextSoleOwner, NextQuiet DEF Owned
  <2> QED
    BY <2>1, <2>2 DEF Owned
<1> QED
  BY <1>1, <1>2, PTL DEF Spec

\* When callers serialise the operations on each token, a stream that can be
\* claimed is off, unconfigured and routed nowhere.
THEOREM FreeStreamsAreInert == Spec => []FreeIsInert
<1>1. Owned => FreeIsInert
  BY DEF Owned, Quiet, Rest, FreeIsInert
<1> QED
  BY <1>1, SerialisedInv, PTL

\* Nor does software touch a claimed stream except in a call made with a
\* token of its current allocation.
THEOREM OnlyOwnersTouch == Spec => OnlyOwnerTouches
<1>1. ASSUME TypeOK, TokensOfAge, SoleOwner, Quiet, Next,
             NEW s \in Streams, claimed[s], Touched(s)
      PROVE  OwnerAtWork(s)
  <2>1. ASSUME NEW t \in Task, AcquireClaim(t) PROVE FALSE
    <3>1. PICK r \in FreeStreams :
            /\ claimed' = [claimed EXCEPT ![r] = TRUE]
            /\ configured' = [configured EXCEPT ![r] = FALSE]
            /\ active' = [active EXCEPT ![r] = FALSE]
            /\ UNCHANGED hw
      BY <2>1 DEF AcquireClaim
    <3>2. r # s
      BY <1>1 DEF FreeStreams
    <3> QED
      BY <1>1, <3>1, <3>2 DEF TypeOK, Touched, hw
  <2>2. ASSUME NEW t \in Task, AcquireFail(t) PROVE FALSE
    BY <1>1, <2>2 DEF AcquireFail, Touched, book, hw
  <2>3. ASSUME NEW t \in Task, NEW k \in issued \cup Forged, Calls(t, k) PROVE FALSE
    BY <1>1, <2>3 DEF Calls, TokenRefused, Release, Configure, ConfigureRefused,
       ConfigureEnabled, SetRequest, Start, StartRefused, StartBusy, GetState, Wait,
       WaitRefused, Abort, Enter, Refuse, book, hw, Touched
  <2>4. ASSUME NEW t \in Task, Continue(t) PROVE OwnerAtWork(s)
    <3>1. Busy(t) /\ arg[t] \in Token /\ TokenAge(arg[t]) /\ Matches(arg[t])
      BY <2>4, ContinueFrame, <1>1 DEF TokensOfAge, SoleOwner, TypeOK
    <3>2. ~Stale(arg[t])
      BY <3>1, <1>1, MatchingIsCurrent
    <3>3. ASSUME arg[t].index # s PROVE FALSE
      <4>1. Untouched(s) /\ flags'[s] = flags[s]
        BY <1>1, <2>4, <3>3, ContinueLeavesQuiet
      <4>2. flags[s] \ flags'[s] = {}
        BY <4>1
      <4> QED
        BY <1>1, <4>1, <4>2 DEF Touched, Untouched
    <3> QED
      BY <3>1, <3>2, <3>3 DEF OwnerAtWork
  <2>5. ASSUME NEW t \in Task, Expire(t) PROVE FALSE
    BY <1>1, <2>5 DEF Expire, Touched, book, hw
  <2>6. ASSUME NEW r \in Streams, Hardware(r) PROVE FALSE
    <3>1. UNCHANGED <<claimed, configured, active, request>>
      BY <2>6 DEF Hardware, HwFinish, HwCompleteFlag, HwError, HwHalt, book
    <3>2. (stopping'[s] => stopping[s]) /\ (en'[s] => en[s])
      BY <1>1, <2>6 DEF Hardware, HwFinish, HwCompleteFlag, HwError, HwHalt, TypeOK
    <3>3. flags[s] \ flags'[s] = {}
      <4>1. \/ flags' = flags
            \/ \E f \in Flags : flags' = [flags EXCEPT ![r] = @ \cup {f}]
        BY <2>6 DEF Hardware, HwFinish, HwCompleteFlag, HwError, HwHalt, Flags
      <4> QED
        BY <4>1, <1>1 DEF TypeOK
    <3> QED
      BY <1>1, <3>1, <3>2, <3>3 DEF Touched
  <2> QED
    BY <1>1, <2>1, <2>2, <2>3, <2>4, <2>5, <2>6 DEF Next, TaskStep
<1>2. Owned /\ [Next]_vars =>
        [serialised =>
           \A s \in Streams : claimed[s] /\ Touched(s) => OwnerAtWork(s)]_vars
  BY <1>1 DEF Owned
<1> QED
  BY <1>2, SerialisedInv, PTL DEF Spec, OnlyOwnerTouches

-----------------------------------------------------------------------------
(***************************************************************************)
(* What the registers of a stream say of its transfer.  Serialised, only   *)
(* the operation a stream is in can make them lie, and it has put them     *)
(* right before anybody else may look.                                     *)
(***************************************************************************)

\* The operation that holds stream s is at one of these steps.
Within(s, steps) == \E t \in Task : pc[t] \in steps /\ arg[t].index = s

Stops == {"abort_spin", "abort_clear", "release_spin", "release_clear", "release_commit"}

StreamTruth(s) ==
  /\ en[s] => active[s] /\ flags[s] = {} /\ ~trailing[s] /\ job[s] \in {"run", "doomed"}
  /\ trailing[s] => active[s] /\ flags[s] = {} /\ job[s] = "done"
  /\ "TE" \in flags[s] => flags[s] = {"TE"} /\ job[s] = "failed"
  /\ "TC" \in flags[s] => job[s] \in {"done", "doomed", "cut"}
  /\ ~claimed[s] => flags[s] = {}
  /\ claimed[s] => allocs[s] > 0
  /\ stopping[s] /\ job[s] = "run" => Within(s, {"abort_spin", "release_spin"})
  /\ "TC" \in flags[s] /\ job[s] = "cut" => Within(s, Stops)
  /\ claimed[s] /\ flags[s] = {} /\ ~active[s] /\ job[s] # "none" =>
       Within(s, {"release_commit"})

TaskTruth(t) ==
  LET s == arg[t].index IN
  /\ pc[t] \in {"acquire_reset", "start_arm"} => ~en[s] /\ ~active[s]
  /\ pc[t] \in {"configure_write", "abort_clear"} => ~en[s]
  /\ pc[t] = "acquire_reset" => flags[s] = {}
  /\ pc[t] = "start_enable" => ~en[s] /\ active[s]
  /\ pc[t] \in {"start_enable", "release_commit"} => flags[s] = {} /\ ~trailing[s]

Truth == (\A s \in Streams : StreamTruth(s)) /\ (\A t \in Task : TaskTruth(t))

\* At first no stream has moved anything.
LEMMA InitTruth == Init => Truth
BY DEF Init, Truth, StreamTruth, TaskTruth

\* A step leaves what is known of stream r as it is.
Alike(r) ==
  /\ claimed'[r] = claimed[r] /\ active'[r] = active[r] /\ allocs'[r] = allocs[r]
  /\ en'[r] = en[r] /\ stopping'[r] = stopping[r] /\ trailing'[r] = trailing[r]
  /\ flags'[r] = flags[r] /\ job'[r] = job[r]

\* The steps of the operation on a stream are those of its owner.
LEMMA WithinIsOwner ==
  ASSUME TypeOK, SoleOwner, NEW t \in Task, Busy(t), NEW steps \in SUBSET Steps,
         "idle" \notin steps
  PROVE  Within(arg[t].index, steps) <=> pc[t] \in steps
BY DEF Within, SoleOwner, Busy

\* Stream r keeps its truth if nobody's step on it changes.
LEMMA StreamTruthKept ==
  ASSUME NEW r \in Streams, StreamTruth(r), Alike(r),
         \A u \in Task : Busy(u) /\ arg[u].index = r => pc'[u] = pc[u] /\ arg'[u] = arg[u]
  PROVE  StreamTruth(r)'
<1>1. ASSUME NEW steps, "idle" \notin steps, Within(r, steps)
      PROVE  Within(r, steps)'
  BY <1>1 DEF Within, Busy
<1>2. Within(r, {"abort_spin", "release_spin"}) => Within(r, {"abort_spin", "release_spin"})'
  BY <1>1
<1>3. Within(r, Stops) => Within(r, Stops)'
  BY <1>1 DEF Stops
<1>4. Within(r, {"release_commit"}) => Within(r, {"release_commit"})'
  BY <1>1
<1> QED
  BY <1>2, <1>3, <1>4 DEF StreamTruth, Alike

\* A step of one operation concerns the truth about its own stream and task.
LEMMA OwnStepKeepsTruth ==
  ASSUME TypeOK, SoleOwner, Truth, NEW t \in Task, Continue(t),
         NEW s, s = arg[t].index, StreamTruth(s)', TaskTruth(t)',
         \A r \in Streams \ {s} : Alike(r)
  PROVE  Truth'
<1>1. s \in Streams /\ \A u \in Task : arg[u].index \in Streams
  BY ConstantFacts DEF TypeOK
<1>2. Busy(t) /\ \A u \in Task \ {t} : pc'[u] = pc[u] /\ arg'[u] = arg[u]
  BY ContinueFrame
<1>3. ASSUME NEW r \in Streams \ {s} PROVE StreamTruth(r)'
  BY <1>1, <1>2, StreamTruthKept DEF Truth
<1>4. ASSUME NEW u \in Task \ {t} PROVE TaskTruth(u)'
  <2>1. pc'[u] = pc[u] /\ arg'[u] = arg[u] /\ TaskTruth(u) /\ arg[u].index \in Streams
    BY <1>1, <1>2 DEF Truth
  <2>2. CASE ~Busy(u)
    BY <2>1, <2>2 DEF TaskTruth, Busy
  <2>3. CASE Busy(u)
    <3>1. Alike(arg[u].index)
      BY <1>2, <2>1, <2>3 DEF SoleOwner
    <3> QED
      BY <2>1, <3>1 DEF TaskTruth, Alike
  <2> QED
    BY <2>2, <2>3
<1> QED
  BY <1>3, <1>4 DEF Truth

\* A step of an operation leaves its stream with flags and a job that agree.
LEMMA ContinueIsTrue ==
  ASSUME TypeOK, TokensOfAge, SoleOwner, Quiet, Truth, NEW t \in Task, Continue(t)
  PROVE  Truth'
<1>0. PICK s : s = arg[t].index
  OBVIOUS
<1>1. /\ Busy(t) /\ s \in Streams /\ claimed[s] /\ s = arg[t].index
      /\ (stopping[s] => en[s]) /\ StreamTruth(s) /\ TaskTruth(t)
  BY <1>0, ContinueFrame, OwnStream DEF Truth
<1>2. /\ pc[t] \in {"release_clear", "release_commit"} => ~en[s]
      /\ pc[t] = "release_commit" => request[s] = "mem2mem"
  BY <1>0 DEF Quiet
<1>3. /\ Within(s, {"abort_spin", "release_spin"}) => pc[t] \in {"abort_spin", "release_spin"}
      /\ Within(s, Stops) => pc[t] \in Stops
      /\ Within(s, {"release_commit"}) => pc[t] = "release_commit"
  BY <1>1, WithinIsOwner DEF Steps, Stops
<1> DEFINE Known ==
      /\ stopping[s] /\ job[s] = "run" => pc[t] \in {"abort_spin", "release_spin"}
      /\ "TC" \in flags[s] /\ job[s] = "cut" => pc[t] \in Stops
      /\ claimed[s] /\ flags[s] = {} /\ ~active[s] /\ job[s] # "none" =>
           pc[t] = "release_commit"
<1>4. Known
  BY <1>1, <1>3 DEF StreamTruth
<1>5. ASSUME Busy(t)', NEW steps, pc'[t] \in steps
      PROVE  Within(s, steps)'
  BY <1>0, <1>5, ContinueFrame DEF Within, Busy
<1>6. ASSUME StreamTruth(s)', TaskTruth(t)', \A r \in Streams \ {s} : Alike(r)
      PROVE  Truth'
  BY <1>0, <1>6, OwnStepKeepsTruth
<1>7. CASE AcquireReset(t)
  <2>1. /\ claimed' = claimed /\ active' = active /\ allocs' = allocs /\ en' = en
        /\ stopping' = stopping /\ trailing' = trailing /\ job' = job
        /\ flags' = [flags EXCEPT ![s] = {}] /\ pc'[t] = "idle"
    BY <1>0, <1>7 DEF AcquireReset, ClearFlags, Return, book, TypeOK
  <2> QED
    BY <1>1, <1>4, <1>6, <1>7, <2>1 DEF StreamTruth, TaskTruth, Alike, TypeOK, AcquireReset
<1>8. CASE ReleaseStop(t) \/ AbortStop(t)
  <2>1. /\ claimed' = claimed /\ active' = active /\ allocs' = allocs /\ en' = en
        /\ stopping' = [stopping EXCEPT ![s] = en[s]] /\ trailing' = trailing /\ job' = job
        /\ flags' = flags /\ pc'[t] \in {"release_spin", "abort_spin"}
    BY <1>0, <1>8 DEF ReleaseStop, AbortStop, RequestStop, Goto, book, hist, TypeOK
  <2>2. Within(s, {"abort_spin", "release_spin"})' /\ Within(s, Stops)'
    BY <1>5, <2>1 DEF Busy, Stops
  <2> QED
    BY <1>1, <1>4, <1>6, <1>8, <2>1, <2>2
    DEF StreamTruth, TaskTruth, Alike, TypeOK, ReleaseStop, AbortStop, Stops
<1>9. CASE ReleaseSpin(t) \/ AbortSpin(t)
  <2>1. /\ UNCHANGED <<claimed, active, allocs, en, stopping, trailing, job, flags>>
        /\ pc'[t] \in {"release_clear", "abort_clear"} /\ ~en[s] /\ arg' = arg
    BY <1>0, <1>9 DEF ReleaseSpin, AbortSpin, Goto, book, hw, hist, TypeOK
  <2>2. Within(s, Stops)'
    BY <1>5, <2>1 DEF Busy, Stops
  <2> QED
    BY <1>1, <1>4, <1>6, <1>9, <2>1, <2>2
    DEF StreamTruth, TaskTruth, Alike, ReleaseSpin, AbortSpin, Stops
<1>10. CASE ReleaseTimeout(t) \/ AbortTimeout(t)
  <2>1. /\ UNCHANGED <<claimed, active, allocs, en, stopping, trailing, flags>>
        /\ job' = [job EXCEPT ![s] = IF @ = "run" THEN "doomed" ELSE @]
        /\ pc'[t] = "idle" /\ en[s]
    BY <1>0, <1>10, AbortReturnEffect
    DEF ReleaseTimeout, AbortTimeout, Return, Results, book, hw, TypeOK
  <2> QED
    BY <1>1, <1>6, <2>1 DEF StreamTruth, TaskTruth, Alike, TypeOK
<1>11. CASE ReleaseClear(t)
  <2>1. /\ UNCHANGED <<claimed, active, allocs, en, stopping, trailing, job>>
        /\ flags' = [flags EXCEPT ![s] = {}] /\ ~trailing[s]
        /\ pc'[t] = "release_commit" /\ arg' = arg /\ pc[t] = "release_clear"
    BY <1>0, <1>11 DEF ReleaseClear, ClearFlags, Goto, book, hist, TypeOK
  <2>2. Within(s, {"release_commit"})'
    BY <1>5, <2>1 DEF Busy
  <2> QED
    BY <1>1, <1>2, <1>4, <1>6, <2>1, <2>2 DEF StreamTruth, TaskTruth, Alike, TypeOK
<1>12. CASE ReleaseCommit(t)
  <2>1. /\ UNCHANGED <<allocs, en, stopping, trailing, job, flags>>
        /\ claimed' = [claimed EXCEPT ![s] = FALSE] /\ active' = [active EXCEPT ![s] = FALSE]
        /\ pc'[t] = "idle" /\ pc[t] = "release_commit"
    BY <1>0, <1>12 DEF ReleaseCommit, Return, hw, hist, TypeOK
  <2> QED
    BY <1>1, <1>2, <1>4, <1>6, <2>1 DEF StreamTruth, TaskTruth, Alike, TypeOK
<1>13. CASE ConfigureWrite(t)
  <2>1. /\ UNCHANGED <<claimed, allocs, en, trailing>>
        /\ stopping' = [stopping EXCEPT ![s] = en[s]] /\ ~trailing[s]
        /\ flags' = [flags EXCEPT ![s] = {}] /\ active' = [active EXCEPT ![s] = FALSE]
        /\ job' = [job EXCEPT ![s] = "none"]
        /\ pc'[t] = "configure_route" /\ pc[t] = "configure_write"
    BY <1>0, <1>13 DEF ConfigureWrite, RequestStop, ClearFlags, Goto, TypeOK
  <2> QED
    BY <1>1, <1>6, <2>1 DEF StreamTruth, TaskTruth, Alike, TypeOK
<1>14. CASE StartArm(t)
  <2>1. /\ UNCHANGED <<claimed, allocs, en, stopping, trailing, job>>
        /\ flags' = [flags EXCEPT ![s] = {}] /\ active' = [active EXCEPT ![s] = TRUE]
        /\ ~trailing[s] /\ arg' = arg
        /\ pc'[t] = "start_enable" /\ pc[t] = "start_arm"
    BY <1>0, <1>14 DEF StartArm, ClearFlags, Goto, hist, TypeOK
  <2> QED
    BY <1>1, <1>6, <2>1 DEF StreamTruth, TaskTruth, Alike, TypeOK
<1>15. CASE StartEnable(t)
  <2>1. /\ UNCHANGED <<claimed, active, allocs, stopping, trailing, flags>>
        /\ en' = [en EXCEPT ![s] = TRUE] /\ job' = [job EXCEPT ![s] = "run"]
        /\ pc'[t] = "idle" /\ pc[t] = "start_enable"
    BY <1>0, <1>15 DEF StartEnable, Return, book, TypeOK
  <2> QED
    BY <1>1, <1>6, <2>1 DEF StreamTruth, TaskTruth, Alike, TypeOK
<1>16. CASE StateSample(t) \/ WaitSettled(t)
  <2>1. /\ UNCHANGED <<claimed, allocs, en, stopping, trailing, job, flags>>
        /\ active' = [active EXCEPT ![s] = @ /\ State(s) \notin {"ERROR", "COMPLETE"}]
        /\ pc'[t] = "idle" /\ pc[t] \in {"state_sample", "wait_sample"}
    BY <1>0, <1>16 DEF StateSample, WaitSettled, Sample, Return, hw, hist, TypeOK
  <2>2. flags[s] = {} => State(s) \notin {"ERROR", "COMPLETE"}
    BY DEF State
  <2> QED
    BY <1>1, <1>4, <1>6, <2>1, <2>2 DEF StreamTruth, TaskTruth, Alike, TypeOK, Stops
<1>17. CASE ConfigureRoute(t) \/ RouteWrite(t) \/ ReleaseLost(t) \/ WaitLost(t)
            \/ WaitExpired(t) \/ AbortRefused(t)
  <2>1. UNCHANGED <<claimed, active, allocs, en, stopping, trailing, job, flags>>
    BY <1>0, <1>17 DEF ConfigureRoute, RouteWrite, ReleaseLost, WaitLost, WaitExpired, AbortRefused,
       book, hw, hist
  <2>2. pc'[t] = "idle" \/ pc'[t] = "abort_stop"
    BY <1>0, <1>17, AbortReturnEffect DEF ConfigureRoute, RouteWrite, Route, ReleaseLost, WaitLost,
       WaitExpired, AbortRefused, Goto, Return, Results, TypeOK
  <2>3. pc[t] \in {"configure_route", "route_write", "wait_sample", "abort_stop"}
    BY <1>1, <1>17 DEF ConfigureRoute, RouteWrite, ReleaseLost, WaitLost, WaitExpired,
       AbortRefused, SoleOwner
  <2> QED
    BY <1>1, <1>4, <1>6, <2>1, <2>2, <2>3 DEF StreamTruth, TaskTruth, Alike, Stops
<1>18. CASE AbortClear(t)
  <2>1. /\ UNCHANGED <<claimed, allocs, en, stopping, trailing>>
        /\ flags' = [flags EXCEPT ![s] = {}] /\ active' = [active EXCEPT ![s] = FALSE]
        /\ job' = [job EXCEPT ![s] = "none"] /\ ~trailing[s]
        /\ pc'[t] = "idle" /\ pc[t] = "abort_clear"
    BY <1>0, <1>18, AbortReturnEffect DEF AbortClear, ClearFlags, Results, TypeOK
  <2> QED
    BY <1>1, <1>6, <2>1 DEF StreamTruth, TaskTruth, Alike, TypeOK
<1> QED
  BY <1>7, <1>8, <1>9, <1>10, <1>11, <1>12, <1>13, <1>14, <1>15, <1>16, <1>17, <1>18
  DEF Continue

\* A call that begins changes no stream, and an operation begins at rest.
LEMMA CallsTrue ==
  ASSUME TypeOK, Truth, NEW t \in Task, NEW k \in issued \cup Forged, Calls(t, k)
  PROVE  Truth'
<1>1. /\ UNCHANGED <<claimed, active, allocs, en, stopping, trailing, flags, job>>
      /\ \A u \in Task \ {t} : pc'[u] = pc[u] /\ arg'[u] = arg[u]
      /\ ~Busy(t)
  BY DEF Calls, TokenRefused, Release, Configure, ConfigureRefused, ConfigureEnabled,
         SetRequest, Start, StartRefused, StartBusy, GetState, Wait, WaitRefused, Abort,
         Enter, Refuse, Return, MayCall, book, hw, hist, TypeOK, Busy
<1>2. ASSUME NEW r \in Streams PROVE StreamTruth(r)'
  BY <1>1, StreamTruthKept DEF Truth, Alike
<1>3. \/ pc'[t] \in {"idle", "release_stop", "route_write", "state_sample", "wait_sample",
                     "abort_stop"}
      \/ /\ pc'[t] = "configure_write" /\ arg'[t] = k /\ ~en[k.index]
      \/ /\ pc'[t] = "start_arm" /\ arg'[t] = k /\ ~en[k.index] /\ ~active[k.index]
  BY DEF Calls, TokenRefused, Release, Configure, ConfigureRefused, ConfigureEnabled,
         SetRequest, Start, StartRefused, StartBusy, GetState, Wait, WaitRefused, Abort,
         Enter, Refuse, Return, TypeOK
<1>4. TaskTruth(t)'
  BY <1>1, <1>3 DEF TaskTruth
<1> QED
  BY <1>1, <1>2, <1>4 DEF Truth, TaskTruth

\* A stream that is claimed was at rest, and forgets its last transfer.
LEMMA AcquireTrue ==
  ASSUME TypeOK, SoleOwner, Quiet, Truth, NEW t \in Task, AcquireClaim(t)
  PROVE  Truth'
<1>1. PICK s \in FreeStreams :
        /\ claimed' = [claimed EXCEPT ![s] = TRUE] /\ active' = [active EXCEPT ![s] = FALSE]
        /\ allocs' = [allocs EXCEPT ![s] = @ + 1] /\ job' = [job EXCEPT ![s] = "none"]
        /\ arg' = [arg EXCEPT ![t] = [index |-> s, gen |-> NextGeneration(generation[s]),
                                     alloc |-> allocs[s] + 1]]
  BY DEF AcquireClaim
<1>2. /\ UNCHANGED <<en, stopping, trailing, flags>>
      /\ pc' = [pc EXCEPT ![t] = "acquire_reset"] /\ ~Busy(t)
      /\ \A u \in Task \ {t} : pc'[u] = pc[u] /\ arg'[u] = arg[u]
      /\ arg'[t].index = s /\ pc'[t] = "acquire_reset"
  BY <1>1 DEF AcquireClaim, hw, TypeOK, Busy
<1>3. /\ s \in Streams /\ ~claimed[s] /\ ~en[s] /\ ~active[s] /\ ~stopping[s]
      /\ StreamTruth(s) /\ allocs[s] \in Nat
  BY DEF FreeStreams, Quiet, Rest, Truth, TypeOK
<1>4. flags[s] = {} /\ ~trailing[s]
  BY <1>3 DEF StreamTruth
<1>5. ASSUME NEW u \in Task, Busy(u) PROVE arg[u].index # s
  BY <1>3, <1>5 DEF SoleOwner, Matches
<1>6. StreamTruth(s)'
  BY <1>1, <1>2, <1>3, <1>4 DEF StreamTruth, TypeOK
<1>7. ASSUME NEW r \in Streams \ {s} PROVE StreamTruth(r)'
  <2>1. Alike(r)
    BY <1>1, <1>2 DEF Alike, TypeOK
  <2> QED
    BY <1>2, <2>1, StreamTruthKept DEF Truth
<1>8. ASSUME NEW u \in Task \ {t} PROVE TaskTruth(u)'
  <2>1. TaskTruth(u) /\ pc'[u] = pc[u] /\ arg'[u] = arg[u] /\ arg[u].index \in Streams
    BY <1>2, ConstantFacts DEF Truth, TypeOK
  <2>2. Busy(u) => active'[arg[u].index] = active[arg[u].index]
    BY <1>1, <1>5, <2>1 DEF TypeOK
  <2> QED
    BY <1>2, <2>1, <2>2 DEF TaskTruth, Busy
<1>9. TaskTruth(t)'
  BY <1>1, <1>2, <1>3, <1>4 DEF TaskTruth, TypeOK
<1> QED
  BY <1>6, <1>7, <1>8, <1>9 DEF Truth

\* What a stream does on its own, its flags tell, now or a little later.
LEMMA HardwareIsTrue ==
  ASSUME TypeOK, SoleOwner, Quiet, Truth, NEW s \in Streams, Hardware(s)
  PROVE  Truth'
<1>1. /\ UNCHANGED <<claimed, active, allocs, pc, arg>>
      /\ \A r \in Streams \ {s} : Alike(r)
  <2>1. UNCHANGED <<claimed, active, allocs, pc, arg>>
    BY DEF Hardware, HwFinish, HwCompleteFlag, HwError, HwHalt, book, hist
  <2>2. ASSUME NEW r \in Streams \ {s}
        PROVE  /\ en'[r] = en[r] /\ stopping'[r] = stopping[r] /\ trailing'[r] = trailing[r]
               /\ flags'[r] = flags[r] /\ job'[r] = job[r]
    <3>1. CASE HwFinish(s) BY <3>1 DEF HwFinish, TypeOK
    <3>2. CASE HwCompleteFlag(s) BY <3>2 DEF HwCompleteFlag, hist, TypeOK
    <3>3. CASE HwError(s) BY <3>3 DEF HwError, TypeOK
    <3>4. CASE HwHalt(s) BY <3>4 DEF HwHalt, TypeOK
    <3> QED BY <3>1, <3>2, <3>3, <3>4 DEF Hardware
  <2> QED
    BY <2>1, <2>2 DEF Alike
<1>2. ASSUME NEW r \in Streams \ {s} PROVE StreamTruth(r)'
  BY <1>1, <1>2, StreamTruthKept DEF Truth
<1>3. StreamTruth(s) /\ (stopping[s] => en[s]) /\ (en[s] => claimed[s])
  BY DEF Truth, Quiet, Rest
<1>4. Within(s, {"abort_spin", "release_spin"}) => Within(s, Stops)
  BY DEF Within, Stops
<1>5. Within(s, Stops)' <=> Within(s, Stops)
  BY <1>1 DEF Within
<1>6. ASSUME NEW u \in Task PROVE TaskTruth(u) /\ arg[u].index \in Streams
  BY ConstantFacts DEF Truth, TypeOK
<1>7. CASE HwFinish(s)
  <2>1. /\ en[s] /\ ~en'[s] /\ ~stopping'[s] /\ trailing'[s] /\ job'[s] = "done"
        /\ flags' = flags
    BY <1>7 DEF HwFinish, TypeOK
  <2>2. StreamTruth(s)'
    BY <1>1, <1>3, <2>1 DEF StreamTruth
  <2>3. ASSUME NEW u \in Task PROVE TaskTruth(u)'
    BY <1>1, <1>6, <2>1 DEF TaskTruth, Alike, Quiet
  <2> QED
    BY <1>2, <2>2, <2>3 DEF Truth
<1>8. CASE HwCompleteFlag(s)
  <2>1. /\ trailing[s] /\ ~trailing'[s] /\ flags'[s] = flags[s] \cup {"TC"}
        /\ UNCHANGED <<en, stopping, job>>
    BY <1>8 DEF HwCompleteFlag, hist, TypeOK
  <2>2. StreamTruth(s)'
    <3>1. flags'[s] = {"TC"} /\ active[s] /\ ~en[s] /\ job[s] = "done" /\ ~stopping[s]
          /\ claimed'[s] = claimed[s]
      BY <1>1, <1>3, <2>1 DEF StreamTruth
    <3>2. claimed[s]
      BY <3>1 DEF Quiet, Rest
    <3> QED
      BY <1>1, <1>3, <2>1, <3>1, <3>2 DEF StreamTruth
  <2>3. ASSUME NEW u \in Task PROVE TaskTruth(u)'
    BY <1>1, <1>3, <1>6, <2>1 DEF TaskTruth, Alike, StreamTruth
  <2> QED
    BY <1>2, <2>2, <2>3 DEF Truth
<1>9. CASE HwError(s)
  <2>1. /\ en[s] /\ ~en'[s] /\ ~stopping'[s] /\ flags'[s] = flags[s] \cup {"TE"}
        /\ job'[s] = "failed" /\ trailing' = trailing
    BY <1>9 DEF HwError, TypeOK
  <2>2. StreamTruth(s)'
    BY <1>1, <1>3, <2>1 DEF StreamTruth
  <2>3. ASSUME NEW u \in Task PROVE TaskTruth(u)'
    BY <1>1, <1>3, <1>6, <2>1 DEF TaskTruth, Alike, StreamTruth, Quiet
  <2> QED
    BY <1>2, <2>2, <2>3 DEF Truth
<1>10. CASE HwHalt(s)
  <2>1. /\ en[s] /\ stopping[s] /\ ~en'[s] /\ ~stopping'[s]
        /\ flags'[s] = flags[s] \cup {"TC"}
        /\ job'[s] = (IF job[s] = "doomed" THEN "doomed" ELSE "cut")
        /\ trailing' = trailing
    BY <1>10 DEF HwHalt, TypeOK
  <2>2. StreamTruth(s)'
    BY <1>1, <1>3, <1>4, <1>5, <2>1 DEF StreamTruth
  <2>3. ASSUME NEW u \in Task PROVE TaskTruth(u)'
    BY <1>1, <1>3, <1>6, <2>1 DEF TaskTruth, Alike, StreamTruth, Quiet
  <2> QED
    BY <1>2, <2>2, <2>3 DEF Truth
<1> QED
  BY <1>7, <1>8, <1>9, <1>10 DEF Hardware

\* The truth of flags and jobs is inductive, given sole owners.
LEMMA NextTruth ==
  TypeOK /\ TokensOfAge /\ SoleOwner /\ Quiet /\ Truth /\ [Next]_vars => Truth'
<1> SUFFICES ASSUME TypeOK, TokensOfAge, SoleOwner, Quiet, Truth, [Next]_vars
             PROVE  Truth'
  OBVIOUS
<1>1. ASSUME NEW t \in Task, AcquireClaim(t) PROVE Truth'
  BY <1>1, AcquireTrue
<1>2. ASSUME NEW t \in Task, AcquireFail(t) PROVE Truth'
  <2>1. /\ UNCHANGED <<claimed, active, allocs, en, stopping, trailing, flags, job>>
        /\ pc' = pc /\ \A u \in Task : Busy(u) => arg'[u] = arg[u]
    BY <1>2 DEF AcquireFail, Return, book, hw, hist, TypeOK, Busy
  <2>2. \A r \in Streams : StreamTruth(r)'
    BY <2>1, StreamTruthKept DEF Truth, Alike
  <2> QED
    BY <2>1, <2>2 DEF Truth, TaskTruth, Busy
<1>3. ASSUME NEW t \in Task, NEW k \in issued \cup Forged, Calls(t, k) PROVE Truth'
  BY <1>3, CallsTrue
<1>4. ASSUME NEW t \in Task, Continue(t) PROVE Truth'
  BY <1>4, ContinueIsTrue
<1>5. ASSUME NEW t \in Task, Expire(t) PROVE Truth'
  BY <1>5 DEF Expire, book, hw, hist, Truth, StreamTruth, TaskTruth, Within
<1>6. ASSUME NEW s \in Streams, Hardware(s) PROVE Truth'
  BY <1>6, HardwareIsTrue
<1>7. CASE UNCHANGED vars
  BY <1>7 DEF vars, book, hw, call, hist, Truth, StreamTruth, TaskTruth, Within
<1> QED
  BY <1>1, <1>2, <1>3, <1>4, <1>5, <1>6, <1>7 DEF Next, TaskStep

\* So is the truth of the flags, where callers serialise.
LEMMA TruthInv == Spec => [](Owned /\ (serialised => Truth))
<1>1. Init => Truth
  BY InitTruth
<1>2. Owned /\ (serialised => Truth) /\ [Next]_vars => (serialised => Truth)'
  BY NextTruth, RuleIsForEver DEF Owned
<1> QED
  BY <1>1, <1>2, SerialisedInv, PTL DEF Spec

\* A state or the end of a wait is reported by a sample of the flags alone.
LEMMA OnlySamplesReport ==
  ASSUME TypeOK, NEW t \in Task, Continue(t),
         ret'.op = "get_state" \/ (ret'.op = "wait" /\ ret'.result \in {"OK", "IO"})
  PROVE  /\ StateSample(t) \/ WaitSettled(t)
         /\ job' = job /\ ret'.stream = arg[t].index
         /\ pc[t] \in {"state_sample", "wait_sample"}
         /\ ret'.op = "get_state" => ret'.result = State(arg[t].index)
         /\ ret'.op = "wait" =>
              /\ State(arg[t].index) # "BUSY"
              /\ ret'.result = WaitResult(State(arg[t].index))
<1>1. StateSample(t) \/ WaitSettled(t)
  BY DEF Continue, AcquireReset, ReleaseStop, ReleaseSpin, ReleaseTimeout, ReleaseClear,
         ReleaseCommit, ReleaseLost, ConfigureWrite, ConfigureRoute, RouteWrite, Route,
         StartArm, StartEnable, WaitLost, WaitExpired, AbortRefused, AbortStop, AbortSpin,
         AbortTimeout, AbortClear, AbortReturn, Return, Goto, NoReturn
<1> QED
  BY <1>1 DEF StateSample, WaitSettled, Return, hist

\* What a caller is told of its transfer is what became of it.
THEOREM ReportsAreTrue == Spec => []ReportedStateIsTrue
<1>1. Init => ReportedStateIsTrue
  BY DEF Init, ReportedStateIsTrue, NoReturn
<1>2. Owned /\ (serialised => Truth) /\ ReportedStateIsTrue /\ [Next]_vars =>
        ReportedStateIsTrue'
  <2> SUFFICES ASSUME TypeOK, SoleOwner, Quiet, Truth, ReportedStateIsTrue, [Next]_vars,
                      serialised, serialised'
               PROVE  ReportedStateIsTrue'
    BY RuleIsForEver DEF Owned, ReportedStateIsTrue
  <2>1. ASSUME ret'.op # "get_state", ~(ret'.op = "wait" /\ ret'.result \in {"OK", "IO"})
        PROVE  ReportedStateIsTrue'
    BY <2>1 DEF ReportedStateIsTrue
  <2>2. ASSUME NEW t \in Task, Continue(t) PROVE ReportedStateIsTrue'
    <3> SUFFICES ASSUME ret'.op = "get_state" \/ (ret'.op = "wait" /\ ret'.result \in {"OK", "IO"})
                 PROVE  ReportedStateIsTrue'
      BY <2>1
    <3>1. PICK s : s = arg[t].index
      OBVIOUS
    <3>2. /\ job' = job /\ ret'.stream = s /\ Busy(t)
          /\ pc[t] \in {"state_sample", "wait_sample"}
          /\ ret'.op = "get_state" => ret'.result = State(s)
          /\ ret'.op = "wait" => State(s) # "BUSY" /\ ret'.result = WaitResult(State(s))
      BY <2>2, <3>1, OnlySamplesReport, ContinueFrame
    <3>3. s \in Streams /\ claimed[s] /\ StreamTruth(s)
      BY <3>1, <3>2, OwnStream DEF Truth
    <3>4. ~Within(s, Stops) /\ ~Within(s, {"release_commit"})
      BY <3>1, <3>2, WithinIsOwner DEF Steps, Stops
    <3>5. /\ State(s) = "COMPLETE" => job[s] \in {"done", "doomed"}
          /\ State(s) = "ERROR" => job[s] = "failed"
          /\ State(s) = "IDLE" => job[s] = "none"
      BY <3>3, <3>4 DEF State, StreamTruth, TypeOK, Flags
    <3>6. State(s) \in {"COMPLETE", "ERROR", "IDLE", "BUSY"}
      BY DEF State
    <3> QED
      BY <3>2, <3>5, <3>6 DEF ReportedStateIsTrue, WaitResult
  <2>3. CASE UNCHANGED vars
    BY <2>3 DEF vars, call, hist, ReportedStateIsTrue
  <2>4. ASSUME Next, \A t \in Task : ~Continue(t)
        PROVE  ret'.op # "get_state" /\ ret'.op # "wait"
    <3>1. ASSUME NEW t \in Task, NEW k \in issued \cup Forged, Calls(t, k)
          PROVE  ret'.op # "get_state" /\ ret'.op # "wait"
      BY <3>1 DEF Calls, TokenRefused, Release, Configure, ConfigureRefused,
         ConfigureEnabled, SetRequest, Start, StartRefused, StartBusy, GetState, Wait,
         WaitRefused, Abort, Enter, Refuse, Return, NoReturn
    <3> QED
      BY <2>4, <3>1 DEF Next, TaskStep, AcquireClaim, AcquireFail, Expire, Return, NoReturn,
         Hardware, HwFinish, HwCompleteFlag, HwError, HwHalt
  <2> QED
    BY <2>1, <2>2, <2>3, <2>4
<1> QED
  BY <1>1, <1>2, TruthInv, PTL DEF Spec

-----------------------------------------------------------------------------
(***************************************************************************)
(* The refinement of DmaSession.  Every step of an operation maps to one   *)
(* step of the session of its stream, or to none.                          *)
(***************************************************************************)
Serves(s) == IF claimed[s] THEN allocs[s] ELSE 0
Engine(s) == IF en[s] THEN "on" ELSE IF At(s, "start_enable") THEN "armed" ELSE "off"
View(s)   == IF At(s, "release_commit") THEN "IDLE" ELSE State(s)
Owed(s)   == active[s] /\ ~At(s, "release_commit")

\* What the abstract specification sees of stream r is unchanged.
Unseen(r) ==
  /\ Serves(r)' = Serves(r) /\ allocs'[r] = allocs[r]
  /\ Engine(r)' = Engine(r) /\ View(r)' = View(r) /\ Owed(r)' = Owed(r)

\* A step of the session of stream s, by what it shows there.
SessionStep(s) ==
  \/ /\ Serves(s) = 0 /\ allocs'[s] = allocs[s] + 1 /\ Serves(s)' = allocs[s] + 1
     /\ Engine(s)' = Engine(s) /\ View(s)' = View(s) /\ Owed(s)' = Owed(s)
  \/ /\ allocs'[s] = allocs[s]
     /\ \/ /\ Serves(s) # 0 /\ Engine(s) = "off" /\ View(s) = "IDLE" /\ ~Owed(s)
           /\ Serves(s)' = 0
           /\ Engine(s)' = Engine(s) /\ View(s)' = View(s) /\ Owed(s)' = Owed(s)
        \/ /\ Serves(s) # 0 /\ Engine(s) = "off" /\ ~Owed(s)
           /\ Engine(s)' = "armed" /\ View(s)' = "BUSY" /\ Owed(s)' = TRUE
           /\ Serves(s)' = Serves(s)
        \/ /\ Engine(s) = "armed" /\ Engine(s)' = "on"
           /\ View(s)' = View(s) /\ Owed(s)' = Owed(s) /\ Serves(s)' = Serves(s)
        \/ /\ Engine(s) = "on" /\ Engine(s)' = "off" /\ Serves(s)' = Serves(s)
           /\ View(s)' \in {"BUSY", "COMPLETE", "ERROR"} /\ Owed(s)' = Owed(s)
        \/ /\ Engine(s) = "off" /\ View(s) = "BUSY" /\ View(s)' = "COMPLETE"
           /\ Engine(s)' = Engine(s) /\ Owed(s)' = Owed(s) /\ Serves(s)' = Serves(s)
        \/ /\ Owed(s) /\ View(s) \in {"COMPLETE", "ERROR"} /\ Owed(s)' = FALSE
           /\ Engine(s)' = Engine(s) /\ View(s)' = View(s) /\ Serves(s)' = Serves(s)
        \/ /\ Serves(s) # 0 /\ Engine(s) = "off" /\ View(s)' = "IDLE" /\ Owed(s)' = FALSE
           /\ Engine(s)' = Engine(s) /\ Serves(s)' = Serves(s)

\* A change of a state function at one stream.
LEMMA OneChange ==
  ASSUME NEW s \in Streams, TypeOK, TypeOK', \A r \in Streams \ {s} : Unseen(r)
  PROVE  /\ [r \in Streams |-> Serves(r)]' =
              [[r \in Streams |-> Serves(r)] EXCEPT ![s] = Serves(s)']
         /\ [r \in Streams |-> Engine(r)]' =
              [[r \in Streams |-> Engine(r)] EXCEPT ![s] = Engine(s)']
         /\ [r \in Streams |-> View(r)]' =
              [[r \in Streams |-> View(r)] EXCEPT ![s] = View(s)']
         /\ [r \in Streams |-> Owed(r)]' =
              [[r \in Streams |-> Owed(r)] EXCEPT ![s] = Owed(s)']
         /\ allocs' = [allocs EXCEPT ![s] = allocs'[s]]
<1>1. allocs \in [Streams -> Nat] /\ allocs' \in [Streams -> Nat]
  BY DEF TypeOK
<1> QED
  BY <1>1 DEF Unseen

\* It is a step of DmaSession.
LEMMA StepIsMapped ==
  ASSUME NEW s \in Streams, TypeOK, TypeOK', \A r \in Streams \ {s} : Unseen(r),
         SessionStep(s) \/ Unseen(s)
  PROVE  [Promise!Next]_(Promise!vars)
<1> DEFINE session == [r \in Streams |-> Serves(r)]
           engine == [r \in Streams |-> Engine(r)]
           view == [r \in Streams |-> View(r)]
           owed == [r \in Streams |-> Owed(r)]
<1>1. /\ session' = [session EXCEPT ![s] = Serves(s)']
      /\ engine' = [engine EXCEPT ![s] = Engine(s)']
      /\ view' = [view EXCEPT ![s] = View(s)']
      /\ owed' = [owed EXCEPT ![s] = Owed(s)']
      /\ allocs' = [allocs EXCEPT ![s] = allocs'[s]]
  BY OneChange
<1>2. session[s] = Serves(s) /\ engine[s] = Engine(s) /\ view[s] = View(s)
      /\ owed[s] = Owed(s)
  OBVIOUS
<1>3. /\ Serves(s)' = Serves(s) => session' = session
      /\ Engine(s)' = Engine(s) => engine' = engine
      /\ View(s)' = View(s) => view' = view
      /\ Owed(s)' = Owed(s) => owed' = owed
      /\ allocs'[s] = allocs[s] => allocs' = allocs
  <2>1. Serves(s)' = Serves(s) => session' = session
    BY DEF Unseen
  <2>2. Engine(s)' = Engine(s) => engine' = engine
    BY DEF Unseen
  <2>3. View(s)' = View(s) => view' = view
    BY DEF Unseen
  <2>4. Owed(s)' = Owed(s) => owed' = owed
    BY DEF Unseen
  <2>5. allocs'[s] = allocs[s] => allocs' = allocs
    BY DEF Unseen, TypeOK
  <2> QED
    BY <2>1, <2>2, <2>3, <2>4, <2>5
<1> DEFINE Mapped ==
      \/ /\ session[s] = 0
         /\ allocs' = [allocs EXCEPT ![s] = @ + 1]
         /\ session' = [session EXCEPT ![s] = allocs[s] + 1]
         /\ engine' = engine /\ view' = view /\ owed' = owed
      \/ /\ session[s] # 0 /\ engine[s] = "off" /\ view[s] = "IDLE" /\ ~owed[s]
         /\ session' = [session EXCEPT ![s] = 0]
         /\ allocs' = allocs /\ engine' = engine /\ view' = view /\ owed' = owed
      \/ /\ session[s] # 0 /\ engine[s] = "off" /\ ~owed[s]
         /\ engine' = [engine EXCEPT ![s] = "armed"]
         /\ view' = [view EXCEPT ![s] = "BUSY"]
         /\ owed' = [owed EXCEPT ![s] = TRUE]
         /\ session' = session /\ allocs' = allocs
      \/ /\ engine[s] = "armed"
         /\ engine' = [engine EXCEPT ![s] = "on"]
         /\ session' = session /\ allocs' = allocs /\ view' = view /\ owed' = owed
      \/ /\ engine[s] = "on"
         /\ engine' = [engine EXCEPT ![s] = "off"]
         /\ \E v \in {"BUSY", "COMPLETE", "ERROR"} : view' = [view EXCEPT ![s] = v]
         /\ session' = session /\ allocs' = allocs /\ owed' = owed
      \/ /\ engine[s] = "off" /\ view[s] = "BUSY"
         /\ view' = [view EXCEPT ![s] = "COMPLETE"]
         /\ session' = session /\ allocs' = allocs /\ engine' = engine /\ owed' = owed
      \/ /\ owed[s] /\ view[s] \in {"COMPLETE", "ERROR"}
         /\ owed' = [owed EXCEPT ![s] = FALSE]
         /\ session' = session /\ allocs' = allocs /\ engine' = engine /\ view' = view
      \/ /\ session[s] # 0 /\ engine[s] = "off"
         /\ view' = [view EXCEPT ![s] = "IDLE"]
         /\ owed' = [owed EXCEPT ![s] = FALSE]
         /\ session' = session /\ allocs' = allocs /\ engine' = engine
      \/ /\ session' = session /\ allocs' = allocs /\ engine' = engine /\ view' = view
         /\ owed' = owed
<1>4. Mapped
  <2> HIDE DEF session, engine, view, owed
  <2>1. allocs' = [allocs EXCEPT ![s] = allocs'[s]]
    BY <1>1
  <2> QED
    BY <1>1, <1>2, <1>3, <2>1 DEF SessionStep, Unseen, TypeOK
<1> QED
  BY <1>4 DEF Serves, Engine, View, Owed, Promise!Next, Promise!vars, Promise!Open, Promise!Close,
     Promise!Announce, Promise!Enable, Promise!Stop, Promise!Show,
     Promise!See, Promise!Clear

\* The steps of the operation on a stream are the steps of its owner.
LEMMA OwnerIsAt ==
  ASSUME TypeOK, SoleOwner, NEW t \in Task, Continue(t), NEW s, s = arg[t].index,
         NEW step \in Steps \ {"idle"}
  PROVE  /\ At(s, step) <=> pc[t] = step
         /\ At(s, step)' <=> pc'[t] = step
         /\ \A r \in Streams \ {s} : At(r, step)' <=> At(r, step)
<1>1. /\ Busy(t) /\ \A u \in Task \ {t} : pc'[u] = pc[u] /\ arg'[u] = arg[u]
      /\ Busy(t)' => arg'[t] = arg[t]
  BY ContinueFrame
<1>2. ASSUME NEW u \in Task \ {t}, pc[u] = step PROVE arg[u].index # s
  BY <1>1, <1>2 DEF SoleOwner, Busy
<1>3. At(s, step) <=> pc[t] = step
  BY <1>2 DEF At
<1>4. At(s, step)' <=> pc'[t] = step
  BY <1>1, <1>2 DEF At, Busy
<1>5. ASSUME NEW r \in Streams \ {s} PROVE At(r, step)' <=> At(r, step)
  BY <1>1 DEF At, Busy
<1> QED
  BY <1>3, <1>4, <1>5

\* A step of an operation shows on no other stream.
LEMMA ContinueUnseen ==
  ASSUME TypeOK, SoleOwner, Quiet, NEW t \in Task, Continue(t), NEW s, s = arg[t].index
  PROVE  \A r \in Streams \ {s} : Unseen(r)
<1> SUFFICES ASSUME NEW r \in Streams \ {s} PROVE Unseen(r)
  OBVIOUS
<1>1. Untouched(r) /\ flags'[r] = flags[r] /\ allocs' = allocs
  BY ContinueLeavesQuiet, ContinueFrame
<1>2. /\ At(r, "start_enable")' <=> At(r, "start_enable")
      /\ At(r, "release_commit")' <=> At(r, "release_commit")
  BY OwnerIsAt DEF Steps
<1> QED
  BY <1>1, <1>2 DEF Unseen, Untouched, Serves, Engine, View, Owed, State

\* What a step of an operation shows on its own stream.
LEMMA OwnView ==
  ASSUME TypeOK, SoleOwner, Quiet, Truth, NEW t \in Task, Continue(t),
         NEW s, s = arg[t].index
  PROVE  /\ Serves(s) = allocs[s] /\ Serves(s) # 0 /\ allocs'[s] = allocs[s]
         /\ Serves(s)' = (IF claimed'[s] THEN Serves(s) ELSE 0)
         /\ Engine(s) = (IF en[s] THEN "on" ELSE IF pc[t] = "start_enable" THEN "armed" ELSE "off")
         /\ Engine(s)' =
              (IF en'[s] THEN "on" ELSE IF pc'[t] = "start_enable" THEN "armed" ELSE "off")
         /\ View(s) = (IF pc[t] = "release_commit" THEN "IDLE" ELSE State(s))
         /\ View(s)' = (IF pc'[t] = "release_commit" THEN "IDLE" ELSE State(s)')
         /\ Owed(s) = (active[s] /\ pc[t] # "release_commit")
         /\ Owed(s)' = (active'[s] /\ pc'[t] # "release_commit")
<1>1. s \in Streams /\ claimed[s] /\ allocs[s] \in Nat /\ allocs[s] > 0 /\ allocs' = allocs
  BY ContinueFrame, OwnStream DEF Truth, StreamTruth, TypeOK
<1>2. /\ At(s, "start_enable") <=> pc[t] = "start_enable"
      /\ At(s, "start_enable")' <=> pc'[t] = "start_enable"
      /\ At(s, "release_commit") <=> pc[t] = "release_commit"
      /\ At(s, "release_commit")' <=> pc'[t] = "release_commit"
  BY OwnerIsAt DEF Steps
<1> QED
  BY <1>1, <1>2 DEF Serves, Engine, View, Owed

\* A step of an operation is a step of the session of its stream, or none.
LEMMA ContinueIsMapped ==
  ASSUME TypeOK, SoleOwner, Quiet, Truth, NEW t \in Task, Continue(t),
         NEW s, s = arg[t].index
  PROVE  SessionStep(s) \/ Unseen(s)
<1>1. /\ Busy(t) /\ s \in Streams /\ claimed[s]
      /\ (stopping[s] => en[s]) /\ StreamTruth(s) /\ TaskTruth(t)
      /\ pc[t] \in {"release_clear", "release_commit"} => ~en[s]
  BY ContinueFrame, OwnStream DEF Truth, Quiet
<1>2. /\ Serves(s) = allocs[s] /\ Serves(s) # 0 /\ allocs'[s] = allocs[s]
      /\ Serves(s)' = (IF claimed'[s] THEN Serves(s) ELSE 0)
      /\ Engine(s) = (IF en[s] THEN "on" ELSE IF pc[t] = "start_enable" THEN "armed" ELSE "off")
      /\ Engine(s)' =
           (IF en'[s] THEN "on" ELSE IF pc'[t] = "start_enable" THEN "armed" ELSE "off")
      /\ View(s) = (IF pc[t] = "release_commit" THEN "IDLE" ELSE State(s))
      /\ View(s)' = (IF pc'[t] = "release_commit" THEN "IDLE" ELSE State(s)')
      /\ Owed(s) = (active[s] /\ pc[t] # "release_commit")
      /\ Owed(s)' = (active'[s] /\ pc'[t] # "release_commit")
  BY OwnView
<1>3. ASSUME claimed'[s], en'[s] = en[s], State(s)' = State(s), active'[s] = active[s],
             pc[t] \notin {"start_enable", "release_commit"},
             pc'[t] \notin {"start_enable", "release_commit"}
      PROVE  Unseen(s)
  BY <1>2, <1>3 DEF Unseen
<1>4. ASSUME claimed'[s], en'[s] = en[s], ~en[s], View(s)' = "IDLE", Owed(s)' = FALSE,
             pc[t] # "start_enable", pc'[t] # "start_enable"
      PROVE  SessionStep(s)
  BY <1>2, <1>4 DEF SessionStep
<1>5. CASE AcquireReset(t)
  <2>1. /\ UNCHANGED <<claimed, active, en>> /\ flags'[s] = {} /\ flags[s] = {}
        /\ pc[t] = "acquire_reset" /\ pc'[t] = "idle"
    BY <1>1, <1>5 DEF AcquireReset, ClearFlags, Return, book, TypeOK, TaskTruth
  <2> QED
    BY <1>1, <1>3, <2>1 DEF State
<1>6. CASE \/ ReleaseStop(t) \/ ReleaseSpin(t) \/ ReleaseTimeout(t)
           \/ AbortStop(t) \/ AbortSpin(t) \/ AbortTimeout(t)
           \/ WaitLost(t) \/ WaitExpired(t) \/ AbortRefused(t)
           \/ ConfigureRoute(t) \/ RouteWrite(t)
  <2>1. UNCHANGED <<claimed, active, en, flags>>
    BY <1>6 DEF ReleaseStop, ReleaseSpin, ReleaseTimeout, AbortStop, AbortSpin, AbortTimeout,
       WaitLost, WaitExpired, AbortRefused, ConfigureRoute, RouteWrite, book, hw
  <2>2. /\ pc[t] \notin {"start_enable", "release_commit"}
        /\ pc'[t] \notin {"start_enable", "release_commit"}
    BY <1>6, AbortReturnEffect DEF ReleaseStop, ReleaseSpin, ReleaseTimeout, AbortStop,
       AbortSpin, AbortTimeout, WaitLost, WaitExpired, AbortRefused, ConfigureRoute, RouteWrite,
       Route, Goto, Return, Results, TypeOK
  <2> QED
    BY <1>1, <1>3, <2>1, <2>2 DEF State
<1>7. CASE ReleaseClear(t)
  <2>1. /\ UNCHANGED <<claimed, active, en>>
        /\ pc[t] = "release_clear" /\ pc'[t] = "release_commit"
    BY <1>7 DEF ReleaseClear, Goto, book, TypeOK
  <2> QED
    BY <1>1, <1>2, <1>4, <2>1
<1>8. CASE ReleaseCommit(t)
  <2>1. /\ claimed'[s] = FALSE /\ active'[s] = FALSE /\ UNCHANGED <<en, flags>>
        /\ pc[t] = "release_commit" /\ pc'[t] = "idle"
    BY <1>1, <1>8 DEF ReleaseCommit, Return, hw, TypeOK
  <2>2. State(s)' = "IDLE"
    BY <1>1, <2>1 DEF State, TaskTruth
  <2> QED
    BY <1>1, <1>2, <2>1, <2>2 DEF SessionStep
<1>9. CASE ReleaseLost(t)
  BY <1>1, <1>9 DEF ReleaseLost, SoleOwner
<1>10. CASE ConfigureWrite(t)
  <2>1. /\ UNCHANGED <<claimed, en>> /\ flags'[s] = {} /\ active'[s] = FALSE
        /\ pc[t] = "configure_write" /\ pc'[t] = "configure_route"
    BY <1>1, <1>10 DEF ConfigureWrite, ClearFlags, Goto, TypeOK
  <2>2. ~en[s] /\ State(s)' = "IDLE"
    BY <1>1, <2>1 DEF State, TaskTruth
  <2> QED
    BY <1>1, <1>2, <1>4, <2>1, <2>2
<1>11. CASE StartArm(t)
  <2>1. /\ UNCHANGED <<claimed, en>> /\ flags'[s] = {} /\ active'[s] = TRUE
        /\ pc[t] = "start_arm" /\ pc'[t] = "start_enable"
    BY <1>1, <1>11 DEF StartArm, ClearFlags, Goto, TypeOK
  <2>2. ~en[s] /\ ~active[s] /\ State(s)' = "BUSY"
    BY <1>1, <2>1 DEF State, TaskTruth
  <2>3. Owed(s) = FALSE /\ Owed(s)' = TRUE
    BY <1>2, <2>1, <2>2
  <2> QED
    BY <1>1, <1>2, <2>1, <2>2, <2>3 DEF SessionStep
<1>12. CASE StartEnable(t)
  <2>1. /\ UNCHANGED <<claimed, active, flags>> /\ en'[s] = TRUE
        /\ pc[t] = "start_enable" /\ pc'[t] = "idle"
    BY <1>1, <1>12 DEF StartEnable, Return, book, TypeOK
  <2>2. ~en[s] /\ State(s)' = State(s)
    BY <1>1, <2>1 DEF State, TaskTruth
  <2> QED
    BY <1>1, <1>2, <2>1, <2>2 DEF SessionStep
<1>13. CASE StateSample(t) \/ WaitSettled(t)
  <2>1. /\ UNCHANGED <<claimed, en, flags>>
        /\ active'[s] = (active[s] /\ State(s) \notin {"ERROR", "COMPLETE"})
        /\ pc[t] \in {"state_sample", "wait_sample"} /\ pc'[t] = "idle"
    BY <1>1, <1>13 DEF StateSample, WaitSettled, Sample, Return, hw, TypeOK
  <2>2. State(s)' = State(s)
    BY <2>1 DEF State
  <2>3. CASE active'[s] = active[s]
    BY <1>1, <1>3, <2>1, <2>2, <2>3
  <2>4. CASE active'[s] # active[s]
    <3>1. active[s] = TRUE /\ active'[s] = FALSE /\ State(s) \in {"ERROR", "COMPLETE"}
      BY <1>1, <2>1, <2>4 DEF TypeOK
    <3> QED
      BY <1>1, <1>2, <2>1, <2>2, <3>1 DEF SessionStep
  <2> QED
    BY <2>3, <2>4
<1>14. CASE AbortClear(t)
  <2>1. /\ UNCHANGED <<claimed, en>> /\ flags'[s] = {} /\ active'[s] = FALSE
        /\ pc[t] = "abort_clear" /\ pc'[t] = "idle"
    BY <1>1, <1>14, AbortReturnEffect DEF AbortClear, ClearFlags, Results, TypeOK
  <2>2. ~en[s] /\ State(s)' = "IDLE"
    BY <1>1, <2>1 DEF State, TaskTruth
  <2> QED
    BY <1>1, <1>2, <1>4, <2>1, <2>2
<1> QED
  BY <1>5, <1>6, <1>7, <1>8, <1>9, <1>10, <1>11, <1>12, <1>13, <1>14 DEF Continue

\* What the hardware does is the end of an engine's run, or its flag.
LEMMA HardwareIsMapped ==
  ASSUME TypeOK, Quiet, Truth, NEW s \in Streams, Hardware(s)
  PROVE  /\ \A r \in Streams \ {s} : Unseen(r)
         /\ SessionStep(s) \/ Unseen(s)
<1>1. /\ UNCHANGED <<claimed, active, allocs>>
      /\ \A r, step : At(r, step)' <=> At(r, step)
  BY DEF Hardware, HwFinish, HwCompleteFlag, HwError, HwHalt, book, hist, At
<1>2. ASSUME NEW r \in Streams \ {s} PROVE en'[r] = en[r] /\ flags'[r] = flags[r]
  BY DEF Hardware, HwFinish, HwCompleteFlag, HwError, HwHalt, TypeOK
<1>3. \A r \in Streams \ {s} : Unseen(r)
  BY <1>1, <1>2 DEF Unseen, Serves, Engine, View, Owed, State
<1>4. StreamTruth(s) /\ (en[s] => ~At(s, "release_commit"))
      /\ (trailing[s] => ~At(s, "release_commit") /\ ~At(s, "start_enable"))
  <2>1. ASSUME NEW u \in Task, arg[u].index = s, pc[u] \in {"release_commit", "start_enable"}
        PROVE  ~trailing[s] /\ (pc[u] = "release_commit" => ~en[s])
    BY <2>1 DEF Truth, TaskTruth, Quiet
  <2> QED
    BY <2>1 DEF Truth, At
<1>5. ASSUME NEW u \in Task, arg[u].index = s, pc[u] = "start_enable"
      PROVE  ~en[s]
  BY <1>5 DEF Truth, TaskTruth
<1>6. Serves(s)' = Serves(s) /\ allocs'[s] = allocs[s] /\ Owed(s)' = Owed(s)
  BY <1>1 DEF Serves, Owed
<1>7. CASE HwFinish(s) \/ HwError(s) \/ HwHalt(s)
  <2>1. en[s] /\ en'[s] = FALSE
    BY <1>7 DEF HwFinish, HwError, HwHalt, TypeOK
  <2>2. Engine(s) = "on" /\ Engine(s)' = "off"
    BY <1>1, <1>5, <2>1 DEF Engine, At
  <2>3. View(s)' = State(s)' /\ active[s] /\ active' = active
    BY <1>1, <1>4, <2>1 DEF View, StreamTruth
  <2>4. View(s)' \in {"BUSY", "COMPLETE", "ERROR"}
    BY <2>3 DEF State
  <2> QED
    BY <1>3, <1>6, <2>2, <2>4 DEF SessionStep
<1>8. CASE HwCompleteFlag(s)
  <2>1. /\ trailing[s] /\ en' = en /\ flags'[s] = {"TC"} /\ flags[s] = {} /\ active[s]
        /\ ~en[s]
    BY <1>4, <1>8 DEF HwCompleteFlag, StreamTruth, TypeOK
  <2>2. View(s) = "BUSY" /\ View(s)' = "COMPLETE"
    BY <1>1, <1>4, <2>1 DEF View, State
  <2>3. Engine(s) = "off" /\ Engine(s)' = Engine(s)
    BY <1>1, <1>4, <2>1 DEF Engine
  <2> QED
    BY <1>3, <1>6, <2>2, <2>3 DEF SessionStep
<1> QED
  BY <1>3, <1>7, <1>8 DEF Hardware

\* A task outside the two steps shows on no stream where it is.
LEMMA ElsewhereAt ==
  ASSUME NEW t \in Task, \A u \in Task \ {t} : pc'[u] = pc[u] /\ arg'[u] = arg[u],
         pc[t] \notin {"start_enable", "release_commit"},
         pc'[t] \notin {"start_enable", "release_commit"}
  PROVE  /\ \A r : At(r, "start_enable")' <=> At(r, "start_enable")
         /\ \A r : At(r, "release_commit")' <=> At(r, "release_commit")
BY DEF At

\* An acquire opens the next session of the stream it claims.
LEMMA AcquireIsMapped ==
  ASSUME TypeOK, SoleOwner, Quiet, NEW t \in Task, AcquireClaim(t)
  PROVE  \E s \in Streams : SessionStep(s) /\ \A r \in Streams \ {s} : Unseen(r)
<1>1. PICK s \in FreeStreams :
        /\ claimed' = [claimed EXCEPT ![s] = TRUE] /\ active' = [active EXCEPT ![s] = FALSE]
        /\ allocs' = [allocs EXCEPT ![s] = @ + 1]
        /\ arg' = [arg EXCEPT ![t] = [index |-> s, gen |-> NextGeneration(generation[s]),
                                     alloc |-> allocs[s] + 1]]
  BY DEF AcquireClaim
<1>2. /\ UNCHANGED <<en, flags>> /\ pc[t] = "idle" /\ pc'[t] = "acquire_reset"
      /\ \A u \in Task \ {t} : pc'[u] = pc[u] /\ arg'[u] = arg[u]
  BY <1>1 DEF AcquireClaim, hw, TypeOK
<1>3. /\ \A r : At(r, "start_enable")' <=> At(r, "start_enable")
      /\ \A r : At(r, "release_commit")' <=> At(r, "release_commit")
  BY <1>2, ElsewhereAt
<1>4. s \in Streams /\ ~claimed[s] /\ ~active[s]
  BY DEF FreeStreams, Quiet, Rest
<1>5. claimed'[s] = TRUE /\ active'[s] = active[s] /\ allocs'[s] = allocs[s] + 1
  BY <1>1, <1>4 DEF TypeOK
<1>6. SessionStep(s)
  BY <1>2, <1>3, <1>4, <1>5 DEF SessionStep, Serves, Engine, View, Owed, State
<1>7. ASSUME NEW r \in Streams \ {s} PROVE Unseen(r)
  <2>1. claimed'[r] = claimed[r] /\ active'[r] = active[r] /\ allocs'[r] = allocs[r]
    BY <1>1 DEF TypeOK
  <2> QED
    BY <1>2, <1>3, <2>1 DEF Unseen, Serves, Engine, View, Owed, State
<1> QED
  BY <1>4, <1>6, <1>7

\* The other steps of a task show on no stream.
LEMMA RestUnseen ==
  ASSUME TypeOK, NEW t \in Task,
         \/ AcquireFail(t) \/ Expire(t)
         \/ \E k \in issued \cup Forged : Calls(t, k)
  PROVE  \A r \in Streams : Unseen(r)
<1>1. UNCHANGED <<claimed, active, en, flags, allocs>>
  BY DEF AcquireFail, Expire, Calls, TokenRefused, Release, Configure, ConfigureRefused,
         ConfigureEnabled, SetRequest, Start, StartRefused, StartBusy, GetState, Wait,
         WaitRefused, Abort, Enter, Refuse, book, hw, hist
<1>2. /\ \A r : At(r, "start_enable")' <=> At(r, "start_enable")
      /\ \A r : At(r, "release_commit")' <=> At(r, "release_commit")
  <2>1. CASE Expire(t)
    BY <2>1 DEF Expire, At
  <2>2. CASE ~Expire(t)
    <3>1. /\ \A u \in Task \ {t} : pc'[u] = pc[u] /\ arg'[u] = arg[u]
          /\ pc[t] = "idle"
          /\ pc'[t] \notin {"start_enable", "release_commit"}
      BY <2>2 DEF AcquireFail, Calls, TokenRefused, Release, Configure, ConfigureRefused,
         ConfigureEnabled, SetRequest, Start, StartRefused, StartBusy, GetState, Wait,
         WaitRefused, Abort, Enter, Refuse, Return, MayCall, TypeOK
    <3> QED
      BY <3>1, ElsewhereAt
  <2> QED
    BY <2>1, <2>2
<1> QED
  BY <1>1, <1>2 DEF Unseen, Serves, Engine, View, Owed, State

\* Every step maps to a step of DmaSession or to none.
LEMMA NextIsMapped ==
  ASSUME TypeOK, TypeOK', SoleOwner, Quiet, Truth, [Next]_vars
  PROVE  [Promise!Next]_(Promise!vars)
<1>0. PICK z : z \in Streams
  BY ConstantFacts
<1>1. ASSUME NEW t \in Task, AcquireClaim(t) PROVE [Promise!Next]_(Promise!vars)
  BY <1>1, AcquireIsMapped, StepIsMapped
<1>2. ASSUME NEW t \in Task,
             \/ AcquireFail(t) \/ Expire(t)
             \/ \E k \in issued \cup Forged : Calls(t, k)
      PROVE  [Promise!Next]_(Promise!vars)
  BY <1>0, <1>2, RestUnseen, StepIsMapped
<1>3. ASSUME NEW t \in Task, Continue(t) PROVE [Promise!Next]_(Promise!vars)
  <2>1. PICK s : s = arg[t].index
    OBVIOUS
  <2>2. s \in Streams
    BY <2>1, ConstantFacts DEF TypeOK
  <2> QED
    BY <1>3, <2>1, <2>2, ContinueUnseen, ContinueIsMapped, StepIsMapped
<1>4. ASSUME NEW s \in Streams, Hardware(s) PROVE [Promise!Next]_(Promise!vars)
  BY <1>4, HardwareIsMapped, StepIsMapped
<1>5. CASE UNCHANGED vars
  <2>1. \A r \in Streams : Unseen(r)
    BY <1>5 DEF vars, book, hw, call, hist, Unseen, Serves, Engine, View, Owed, State, At
  <2> QED
    BY <1>0, <2>1, StepIsMapped
<1> QED
  BY <1>1, <1>2, <1>3, <1>4, <1>5 DEF Next, TaskStep

\* An initial state maps to the initial state of DmaSession.
LEMMA InitIsMapped == Init => Promise!Init
BY DEF Init, Promise!Init, At, State

\* Serialised callers see what das/dma.h promises: a stream is handed over only
\* at rest, and a start never replaces a transfer that is unfinished or whose
\* end they have neither been told nor given up.
THEOREM SessionsAreKept == Spec => KeepsSessions
<1>1. Init => Promise!Init
  BY InitIsMapped
<1>2. Owned /\ Owned' /\ (serialised => Truth) /\ [Next]_vars =>
        [serialised => Promise!Next]_(Promise!vars)
  BY NextIsMapped DEF Owned
<1> QED
  BY <1>1, <1>2, TruthInv, PTL DEF Spec, KeepsSessions

=============================================================================
