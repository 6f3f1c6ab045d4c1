--------------------------- MODULE EthRingProofs ---------------------------
(***************************************************************************)
(* Theorems about EthRing, for every number of descriptors and every bound *)
(* on frames, calls and changes of the link.                               *)
(***************************************************************************)
EXTENDS EthRing, FiniteSetTheorems, SequenceTheorems, TLAPS

-----------------------------------------------------------------------------
(* Round the ring. *)

Before(i) == (i + Count - 1) % Count

\* How many descriptors there are from a up to b, b excluded.
Gap(a, b) == (b + Count - a) % Count

LEMMA CountIs == Count \in Nat /\ Count > 1
BY CountAssumption

LEMMA Turn ==
  ASSUME NEW n \in Nat, n < 2 * Count
  PROVE  n % Count = IF n < Count THEN n ELSE n - Count
BY CountIs

LEMMA AfterIs ==
  ASSUME NEW i \in Ring
  PROVE  After(i) \in Ring /\ After(i) = IF i = Count - 1 THEN 0 ELSE i + 1
<1>1. i + 1 \in Nat /\ i + 1 < 2 * Count
  BY CountIs DEF Ring
<1> QED BY <1>1, Turn, CountIs DEF Ring, After

LEMMA BeforeIs ==
  ASSUME NEW i \in Ring
  PROVE  Before(i) \in Ring /\ Before(i) = IF i = 0 THEN Count - 1 ELSE i - 1
<1>1. i + Count - 1 \in Nat /\ i + Count - 1 < 2 * Count
  BY CountIs DEF Ring
<1> QED BY <1>1, Turn, CountIs DEF Ring, Before

LEMMA GapIs ==
  ASSUME NEW a \in Ring, NEW b \in Ring
  PROVE  Gap(a, b) \in Ring /\ Gap(a, b) = IF b < a THEN b + Count - a ELSE b - a
<1>1. b + Count - a \in Nat /\ b + Count - a < 2 * Count
  BY CountIs DEF Ring
<1> QED BY <1>1, Turn, CountIs DEF Ring, Gap

LEMMA Offset ==
  ASSUME NEW a \in Ring, NEW k \in Ring
  PROVE  (a + k) % Count \in Ring /\ Gap(a, (a + k) % Count) = k
<1> DEFINE s == (a + k) % Count
<1>1. a + k \in Nat /\ a + k < 2 * Count
  BY CountIs DEF Ring
<1>2. s = IF a + k < Count THEN a + k ELSE (a + k) - Count
  BY <1>1, Turn
<1> HIDE DEF s
<1>3. s \in Ring
  BY <1>1, <1>2, CountIs DEF Ring
<1>4. Gap(a, s) = IF s < a THEN s + Count - a ELSE s - a
  BY <1>3, GapIs
<1>5. Gap(a, s) = k
  BY <1>2, <1>3, <1>4, CountIs DEF Ring
<1> QED BY <1>3, <1>5 DEF s

LEMMA Reached ==
  ASSUME NEW a \in Ring, NEW i \in Ring
  PROVE  i = (a + Gap(a, i)) % Count
<1> DEFINE d == Gap(a, i)
<1>1. d \in Ring /\ d = IF i < a THEN i + Count - a ELSE i - a
  BY GapIs
<1> HIDE DEF d
<1>2. a + d \in Nat /\ a + d < 2 * Count
  BY <1>1, CountIs DEF Ring
<1>3. (a + d) % Count = IF a + d < Count THEN a + d ELSE (a + d) - Count
  BY <1>2, Turn
<1>4. (a + d) % Count = i
  BY <1>1, <1>2, <1>3, CountIs DEF Ring
<1> QED BY <1>4 DEF d

\* A descriptor is in the span from a to b when fewer lie before it than in all.
LEMMA SpanIs ==
  ASSUME NEW a \in Ring, NEW b \in Ring
  PROVE  Span(a, b) = {i \in Ring : Gap(a, i) < Gap(a, b)}
<1> DEFINE g == Gap(a, b)
<1>1. g \in Ring
  BY GapIs
<1>2. Span(a, b) = {(a + k) % Count : k \in 0 .. g - 1}
  BY DEF Span, Gap
<1> HIDE DEF g
<1>3. ASSUME NEW k \in 0 .. g - 1
      PROVE  (a + k) % Count \in {i \in Ring : Gap(a, i) < g}
  <2>1. k \in Ring /\ k < g
    BY <1>1, CountIs DEF Ring
  <2> QED BY <2>1, Offset
<1>4. ASSUME NEW i \in Ring, Gap(a, i) < g
      PROVE  i \in {(a + k) % Count : k \in 0 .. g - 1}
  <2>1. Gap(a, i) \in 0 .. g - 1
    BY <1>1, <1>4, GapIs, CountIs DEF Ring
  <2>2. i = (a + Gap(a, i)) % Count
    BY Reached
  <2> QED BY <2>1, <2>2
<1>5. Span(a, b) = {i \in Ring : Gap(a, i) < g}
  BY <1>2, <1>3, <1>4
<1> QED BY <1>5 DEF g

LEMMA SpanSize ==
  ASSUME NEW a \in Ring, NEW b \in Ring
  PROVE  Cardinality(Span(a, b)) = Gap(a, b)
<1> DEFINE g == Gap(a, b)
           S == Span(a, b)
           f == [k \in 1 .. g |-> (a + (k - 1)) % Count]
<1>1. g \in Ring /\ g \in Nat
  BY GapIs DEF Ring
<1>2. S = {(a + k) % Count : k \in 0 .. g - 1}
  BY DEF Span, Gap
<1> HIDE DEF g, S
<1>3. ASSUME NEW k \in 1 .. g
      PROVE  (a + (k - 1)) % Count \in S /\ Gap(a, (a + (k - 1)) % Count) = k - 1
  <2>1. k - 1 \in 0 .. g - 1 /\ k - 1 \in Ring
    BY <1>1, CountIs DEF Ring
  <2> QED BY <2>1, <1>2, Offset
<1>4. f \in [1 .. g -> S]
  BY <1>3
<1>5. ASSUME NEW k \in 1 .. g, NEW m \in 1 .. g, f[k] = f[m] PROVE k = m
  <2>1. Gap(a, f[k]) = k - 1 /\ Gap(a, f[m]) = m - 1
    BY <1>3
  <2> QED BY <2>1, <1>5, <1>1
<1>6. ASSUME NEW s \in S PROVE \E k \in 1 .. g : f[k] = s
  <2>1. PICK k \in 0 .. g - 1 : s = (a + k) % Count
    BY <1>2
  <2>2. k + 1 \in 1 .. g /\ (k + 1) - 1 = k
    BY <1>1
  <2> QED BY <2>1, <2>2
<1>7. f \in Bijection(1 .. g, S)
  BY <1>4, <1>5, <1>6 DEF Bijection, Injection, Surjection, IsInjective
<1>8. ExistsBijection(1 .. g, S)
  BY <1>7 DEF ExistsBijection
<1> QED BY <1>8, <1>1, FS_CountingElements DEF g, S

-----------------------------------------------------------------------------
(* Lines, and what they may hold. *)

TxWords == {"cpu", "dma"}
RxWords == {"cpu", "dma", "good", "bad"}

Word(l) ==
  CASE l[1] = "tx_desc" -> TxWords
    [] l[1] = "rx_desc" -> RxWords
    [] OTHER            -> Nat
Fits(f) == \A l \in DOMAIN f : f[l] \in Word(l)

LEMMA LinesHold ==
  ASSUME NEW i \in Ring
  PROVE  /\ TxDesc(i) \in Line /\ RxDesc(i) \in Line /\ TxBuf(i) \in Line /\ RxBuf(i) \in Line
         /\ Word(TxDesc(i)) = TxWords /\ Word(RxDesc(i)) = RxWords
         /\ Word(TxBuf(i)) = Nat /\ Word(RxBuf(i)) = Nat
BY DEF Line, Kinds, Word, TxDesc, RxDesc, TxBuf, RxBuf

LEMMA LinesDiffer ==
  ASSUME NEW i \in Ring, NEW j \in Ring
  PROVE  /\ TxDesc(i) \notin {RxDesc(j), TxBuf(j), RxBuf(j)}
         /\ RxDesc(i) \notin {TxBuf(j), RxBuf(j)}
         /\ TxBuf(i) # RxBuf(j)
         /\ TxDesc(i) = TxDesc(j) => i = j
         /\ RxDesc(i) = RxDesc(j) => i = j
         /\ TxBuf(i) = TxBuf(j) => i = j
         /\ RxBuf(i) = RxBuf(j) => i = j
BY DEF TxDesc, RxDesc, TxBuf, RxBuf

LEMMA WithoutFits ==
  ASSUME NEW f, NEW l, Fits(f)
  PROVE  /\ DOMAIN Without(f, {l}) = DOMAIN f \ {l}
         /\ \A k \in DOMAIN f : k # l => Without(f, {l})[k] = f[k]
         /\ Fits(Without(f, {l}))
BY DEF Without, Fits

LEMMA ExceptFits ==
  ASSUME NEW f, NEW l \in DOMAIN f, NEW v \in Word(l), Fits(f)
  PROVE  /\ DOMAIN [f EXCEPT ![l] = v] = DOMAIN f
         /\ [f EXCEPT ![l] = v][l] = v
         /\ \A k \in DOMAIN f : k # l => [f EXCEPT ![l] = v][k] = f[k]
         /\ Fits([f EXCEPT ![l] = v])
BY DEF Fits

-----------------------------------------------------------------------------
(* Types. *)

HandSteps == {"send_own", "send_copy", "send_clean", "send_desc", "send_publish", "send_kick"}
WaitSteps == {"send_poll", "send_check", "send_look"}
TakeSteps == {"receive_sync", "receive_copy", "recycle_sync", "recycle_desc",
              "recycle_publish", "recycle_kick"}
Steps == {"idle", "init_reset", "init_rings", "init_phy", "init_ready", "receive_own"}
           \cup StopSteps
           \cup HandSteps \cup WaitSteps \cup TakeSteps

MemoryOK ==
  /\ DOMAIN mem = Line /\ Fits(mem)
  /\ DOMAIN cache \subseteq Line /\ Fits(cache)
  /\ dirty \subseteq DOMAIN cache

TypeOK ==
  /\ MemoryOK
  /\ txIndex \in Ring /\ rxIndex \in Ring
  /\ txCur \in Ring /\ txTail \in Ring /\ rxCur \in Ring /\ rxTail \in Ring
  /\ pc \in Steps
  /\ got \in Nat /\ txFetch \in Nat /\ rxFill \in Nat
  /\ wire \in Nat /\ arrived \in Nat /\ delivered \in Nat
  /\ sends \in Nat /\ inits \in Nat /\ links \in Nat
  /\ initialized \in BOOLEAN /\ txRun \in BOOLEAN /\ rxRun \in BOOLEAN
  /\ fbe \in BOOLEAN /\ link \in BOOLEAN

LEMMA LoadFits ==
  ASSUME MemoryOK, NEW l \in Line
  PROVE  Load(l) \in Word(l)
BY DEF MemoryOK, Fits, Load

LEMMA MemoryKept ==
  ASSUME MemoryOK, UNCHANGED <<mem, cache, dirty>>
  PROVE  MemoryOK'
BY DEF MemoryOK, Fits

LEMMA Stores ==
  ASSUME MemoryOK, NEW l \in Line, NEW v \in Word(l), Store(l, v)
  PROVE  /\ MemoryOK'
         /\ mem' = mem /\ dirty' = dirty \cup {l} /\ DOMAIN cache' = DOMAIN cache \cup {l}
         /\ cache'[l] = v
         /\ \A k \in DOMAIN cache : k # l => cache'[k] = cache[k]
<1>1. cache' = With(cache, l, v) /\ dirty' = dirty \cup {l} /\ mem' = mem
  BY DEF Store
<1>2. /\ DOMAIN cache' = DOMAIN cache \cup {l} /\ Fits(cache') /\ cache'[l] = v
      /\ \A k \in DOMAIN cache : k # l => cache'[k] = cache[k]
  <2>1. Fits(cache) /\ DOMAIN cache \subseteq Line
    BY DEF MemoryOK
  <2>2. /\ DOMAIN With(cache, l, v) = DOMAIN cache \cup {l}
        /\ With(cache, l, v)[l] = v /\ Fits(With(cache, l, v))
        /\ \A k \in DOMAIN cache : k # l => With(cache, l, v)[k] = cache[k]
    BY <2>1 DEF With, Fits
  <2> QED BY <1>1, <2>2
<1> QED BY <1>1, <1>2 DEF MemoryOK, Fits

LEMMA WriteBackFits ==
  ASSUME MemoryOK, NEW l \in Line,
         NEW m, m = IF l \in dirty THEN [mem EXCEPT ![l] = cache[l]] ELSE mem
  PROVE  /\ DOMAIN m = Line /\ Fits(m)
         /\ m[l] = IF l \in dirty THEN cache[l] ELSE mem[l]
         /\ \A k \in Line : k # l => m[k] = mem[k]
<1>1. l \in dirty => cache[l] \in Word(l)
  BY DEF MemoryOK, Fits
<1>2. CASE l \in dirty
  BY <1>1, <1>2, ExceptFits DEF MemoryOK
<1>3. CASE l \notin dirty
  BY <1>3 DEF MemoryOK
<1> QED BY <1>2, <1>3

LEMMA Cleans ==
  ASSUME MemoryOK, NEW l \in Line, Clean(l)
  PROVE  /\ MemoryOK'
         /\ dirty' = dirty \ {l} /\ cache' = cache
         /\ mem'[l] = IF l \in dirty THEN cache[l] ELSE mem[l]
         /\ \A k \in Line : k # l => mem'[k] = mem[k]
<1>1. /\ mem' = IF l \in dirty THEN [mem EXCEPT ![l] = cache[l]] ELSE mem
      /\ dirty' = dirty \ {l} /\ cache' = cache
  BY DEF Clean
<1>2. /\ DOMAIN mem' = Line /\ Fits(mem')
      /\ mem'[l] = IF l \in dirty THEN cache[l] ELSE mem[l]
      /\ \A k \in Line : k # l => mem'[k] = mem[k]
  BY <1>1, WriteBackFits
<1> QED BY <1>1, <1>2 DEF MemoryOK, Fits

LEMMA Invalidates ==
  ASSUME MemoryOK, NEW l \in Line, Invalidate(l)
  PROVE  /\ MemoryOK'
         /\ mem' = mem /\ dirty' = dirty \ {l} /\ DOMAIN cache' = DOMAIN cache \ {l}
         /\ \A k \in DOMAIN cache' : cache'[k] = cache[k]
<1>1. cache' = Without(cache, {l}) /\ dirty' = dirty \ {l} /\ mem' = mem
  BY DEF Invalidate
<1>2. /\ DOMAIN cache' = DOMAIN cache \ {l} /\ Fits(cache')
      /\ \A k \in DOMAIN cache' : cache'[k] = cache[k]
  <2>1. Fits(cache)
    BY DEF MemoryOK
  <2>2. /\ DOMAIN Without(cache, {l}) = DOMAIN cache \ {l} /\ Fits(Without(cache, {l}))
        /\ \A k \in DOMAIN cache : k # l => Without(cache, {l})[k] = cache[k]
    BY <2>1, WithoutFits, Zenon
  <2> QED BY <1>1, <2>2
<1> QED BY <1>1, <1>2 DEF MemoryOK, Fits

LEMMA Prefetches ==
  ASSUME MemoryOK, NEW l \in Line, Prefetch(l)
  PROVE  /\ MemoryOK'
         /\ mem' = mem /\ dirty' = dirty /\ DOMAIN cache' = DOMAIN cache \cup {l}
         /\ cache'[l] = mem[l]
         /\ \A k \in DOMAIN cache : cache'[k] = cache[k]
<1>1. l \notin DOMAIN cache /\ cache' = With(cache, l, mem[l]) /\ dirty' = dirty /\ mem' = mem
  BY DEF Prefetch
<1>2. mem[l] \in Word(l)
  BY DEF MemoryOK, Fits
<1>3. /\ DOMAIN cache' = DOMAIN cache \cup {l} /\ Fits(cache') /\ cache'[l] = mem[l]
      /\ \A k \in DOMAIN cache : k # l => cache'[k] = cache[k]
  <2>1. Fits(cache) /\ DOMAIN cache \subseteq Line
    BY DEF MemoryOK
  <2>2. /\ DOMAIN With(cache, l, mem[l]) = DOMAIN cache \cup {l}
        /\ With(cache, l, mem[l])[l] = mem[l] /\ Fits(With(cache, l, mem[l]))
        /\ \A k \in DOMAIN cache : k # l => With(cache, l, mem[l])[k] = cache[k]
    BY <1>2, <2>1 DEF With, Fits
  <2> QED BY <1>1, <2>2
<1> QED BY <1>1, <1>3 DEF MemoryOK, Fits

LEMMA Evicts ==
  ASSUME MemoryOK, NEW l \in Line, Evict(l)
  PROVE  /\ MemoryOK'
         /\ dirty' = dirty \ {l} /\ DOMAIN cache' = DOMAIN cache \ {l}
         /\ \A k \in DOMAIN cache' : cache'[k] = cache[k]
         /\ mem'[l] = IF l \in dirty THEN cache[l] ELSE mem[l]
         /\ \A k \in Line : k # l => mem'[k] = mem[k]
<1>1. /\ mem' = IF l \in dirty THEN [mem EXCEPT ![l] = cache[l]] ELSE mem
      /\ cache' = Without(cache, {l}) /\ dirty' = dirty \ {l}
  BY DEF Evict
<1>2. /\ DOMAIN cache' = DOMAIN cache \ {l} /\ Fits(cache')
      /\ \A k \in DOMAIN cache' : cache'[k] = cache[k]
  <2>1. Fits(cache)
    BY DEF MemoryOK
  <2>2. /\ DOMAIN Without(cache, {l}) = DOMAIN cache \ {l} /\ Fits(Without(cache, {l}))
        /\ \A k \in DOMAIN cache : k # l => Without(cache, {l})[k] = cache[k]
    BY <2>1, WithoutFits, Zenon
  <2> QED BY <1>1, <2>2
<1>3. /\ DOMAIN mem' = Line /\ Fits(mem')
      /\ mem'[l] = IF l \in dirty THEN cache[l] ELSE mem[l]
      /\ \A k \in Line : k # l => mem'[k] = mem[k]
  BY <1>1, WriteBackFits
<1> QED BY <1>1, <1>2, <1>3 DEF MemoryOK, Fits

\* What the DMA writes to memory, it writes past the cache.
LEMMA DmaWrites ==
  ASSUME MemoryOK, NEW l \in Line, NEW v \in Word(l),
         mem' = [mem EXCEPT ![l] = v], cache' = cache, dirty' = dirty
  PROVE  /\ MemoryOK'
         /\ mem'[l] = v
         /\ \A k \in Line : k # l => mem'[k] = mem[k]
<1>1. /\ DOMAIN mem' = Line /\ Fits(mem') /\ mem'[l] = v
      /\ \A k \in Line : k # l => mem'[k] = mem[k]
  BY ExceptFits DEF MemoryOK
<1> QED BY <1>1 DEF MemoryOK, Fits

LEMMA RingsLaid ==
  ASSUME MemoryOK, InitRings
  PROVE  /\ MemoryOK'
         /\ dirty' = {}
         /\ \A i \in Ring : /\ TxDesc(i) \in DOMAIN cache' /\ RxDesc(i) \in DOMAIN cache'
                            /\ TxBuf(i) \notin DOMAIN cache' /\ RxBuf(i) \notin DOMAIN cache'
                            /\ cache'[TxDesc(i)] = "cpu" /\ mem'[TxDesc(i)] = "cpu"
                            /\ cache'[RxDesc(i)] = "dma" /\ mem'[RxDesc(i)] = "dma"
                            /\ mem'[TxBuf(i)] = mem[TxBuf(i)] /\ mem'[RxBuf(i)] = mem[RxBuf(i)]
<1> DEFINE D == {k \in Line : k[1] \in {"tx_desc", "rx_desc"}}
<1>1. /\ dirty' = {}
      /\ mem' = [l \in Line |-> CASE l[1] = "tx_desc" -> "cpu"
                                  [] l[1] = "rx_desc" -> "dma"
                                  [] OTHER            -> mem[l]]
      /\ cache' = [l \in D |-> mem'[l]]
  BY DEF InitRings, Line
<1>2. /\ DOMAIN mem' = Line
      /\ \A l \in Line : /\ l[1] = "tx_desc" => mem'[l] = "cpu"
                         /\ l[1] = "rx_desc" => mem'[l] = "dma"
                         /\ l[1] \notin {"tx_desc", "rx_desc"} => mem'[l] = mem[l]
  BY <1>1
<1>3. ASSUME NEW l \in Line PROVE mem'[l] \in Word(l)
  <2>1. CASE l[1] = "tx_desc"
    BY <1>2, <2>1 DEF Word, TxWords
  <2>2. CASE l[1] = "rx_desc"
    BY <1>2, <2>2 DEF Word, RxWords
  <2>3. CASE l[1] \notin {"tx_desc", "rx_desc"}
    BY <1>2, <2>3 DEF MemoryOK, Fits
  <2> QED BY <2>1, <2>2, <2>3
<1>4. Fits(mem')
  BY <1>2, <1>3 DEF Fits
<1>5. DOMAIN cache' = D /\ D \subseteq Line /\ \A l \in D : cache'[l] = mem'[l]
  BY <1>1
<1>6. Fits(cache')
  BY <1>3, <1>5 DEF Fits
<1>7. MemoryOK'
  BY <1>1, <1>2, <1>4, <1>5, <1>6 DEF MemoryOK, Fits
<1>8. ASSUME NEW i \in Ring
      PROVE  /\ TxDesc(i) \in Line /\ RxDesc(i) \in Line /\ TxBuf(i) \in Line /\ RxBuf(i) \in Line
             /\ TxDesc(i)[1] = "tx_desc" /\ RxDesc(i)[1] = "rx_desc"
             /\ TxBuf(i)[1] = "tx_buffer" /\ RxBuf(i)[1] = "rx_buffer"
  BY LinesHold DEF TxDesc, RxDesc, TxBuf, RxBuf
<1>9. ASSUME NEW i \in Ring
      PROVE  /\ TxDesc(i) \in D /\ RxDesc(i) \in D /\ TxBuf(i) \notin D /\ RxBuf(i) \notin D
             /\ mem'[TxDesc(i)] = "cpu" /\ mem'[RxDesc(i)] = "dma"
             /\ mem'[TxBuf(i)] = mem[TxBuf(i)] /\ mem'[RxBuf(i)] = mem[RxBuf(i)]
  BY <1>2, <1>8
<1> QED BY <1>1, <1>5, <1>7, <1>9

LEMMA CurrentIs ==
  ASSUME txIndex \in Ring
  PROVE  Current = Before(txIndex) /\ Current \in Ring
BY BeforeIs DEF Current, Before

\* The lines a step of the call in progress works on.
LEMMA OwnLines ==
  ASSUME TypeOK
  PROVE  /\ {TxDesc(txIndex), TxDesc(Current), TxDesc(txCur), RxDesc(rxIndex)} \subseteq Line
         /\ {RxDesc(rxCur), TxBuf(txIndex), TxBuf(txCur)} \subseteq Line
         /\ {RxBuf(rxIndex), RxBuf(rxCur)} \subseteq Line
         /\ "dma" \in Word(TxDesc(txIndex)) /\ "dma" \in Word(RxDesc(rxIndex))
         /\ "cpu" \in Word(TxDesc(txCur))
         /\ "good" \in Word(RxDesc(rxCur)) /\ "bad" \in Word(RxDesc(rxCur))
         /\ got \in Word(TxBuf(txIndex)) /\ arrived + 1 \in Word(RxBuf(rxCur))
<1>1. Current \in Ring
  BY CurrentIs DEF TypeOK
<1>2. "dma" \in TxWords /\ "cpu" \in TxWords /\ {"dma", "good", "bad"} \subseteq RxWords
  BY DEF TxWords, RxWords
<1>3. got \in Nat /\ arrived + 1 \in Nat
  BY DEF TypeOK
<1> QED BY <1>1, <1>2, <1>3, LinesHold DEF TypeOK

LEMMA MemoryStep ==
  ASSUME TypeOK, Next
  PROVE  MemoryOK'
<1> USE DEF TypeOK
<1>1. CASE InitReset
  <2>1. UNCHANGED <<mem, cache, dirty>>
    BY <1>1 DEF InitReset, memory
  <2> QED BY <2>1, MemoryKept
<1>2. CASE InitNoPhy
  <2>1. UNCHANGED <<mem, cache, dirty>>
    BY <1>2 DEF InitNoPhy, memory
  <2> QED BY <2>1, MemoryKept
<1>w. CASE InitWithdraw
  <2>1. UNCHANGED <<mem, cache, dirty>>
    BY <1>w DEF InitWithdraw, memory
  <2> QED BY <2>1, MemoryKept
<1>r. CASE InitReady
  <2>1. UNCHANGED <<mem, cache, dirty>>
    BY <1>r DEF InitReady, memory
  <2> QED BY <2>1, MemoryKept
<1>f. CASE FaultStop
  <2>1. UNCHANGED <<mem, cache, dirty>>
    BY <1>f DEF FaultStop, memory
  <2> QED BY <2>1, MemoryKept
<1>3. CASE InitStart
  <2>1. UNCHANGED <<mem, cache, dirty>>
    BY <1>3 DEF InitStart, memory
  <2> QED BY <2>1, MemoryKept
<1>4. CASE SendRefused
  <2>1. UNCHANGED <<mem, cache, dirty>>
    BY <1>4 DEF SendRefused, memory
  <2> QED BY <2>1, MemoryKept
<1>5. CASE SendFaulted
  <2>1. UNCHANGED <<mem, cache, dirty>>
    BY <1>5 DEF SendFaulted, EnterFault, memory
  <2> QED BY <2>1, MemoryKept
<1>6. CASE SendOwn
  <2>1. UNCHANGED <<mem, cache, dirty>>
    BY <1>6 DEF SendOwn, memory
  <2> QED BY <2>1, MemoryKept
<1>7. CASE SendKick
  <2>1. UNCHANGED <<mem, cache, dirty>>
    BY <1>7 DEF SendKick, memory
  <2> QED BY <2>1, MemoryKept
<1>8. CASE SendCheck
  <2>1. UNCHANGED <<mem, cache, dirty>>
    BY <1>8 DEF SendCheck, EnterFault, memory
  <2> QED BY <2>1, MemoryKept
<1>9. CASE SendLook
  <2>1. UNCHANGED <<mem, cache, dirty>>
    BY <1>9 DEF SendLook, memory
  <2> QED BY <2>1, MemoryKept
<1>10. CASE SendGiveUp
  <2>1. UNCHANGED <<mem, cache, dirty>>
    BY <1>10 DEF SendGiveUp, EnterFault, memory
  <2> QED BY <2>1, MemoryKept
<1>11. CASE ReceiveRefused
  <2>1. UNCHANGED <<mem, cache, dirty>>
    BY <1>11 DEF ReceiveRefused, memory
  <2> QED BY <2>1, MemoryKept
<1>12. CASE ReceiveFaulted
  <2>1. UNCHANGED <<mem, cache, dirty>>
    BY <1>12 DEF ReceiveFaulted, EnterFault, memory
  <2> QED BY <2>1, MemoryKept
<1>13. CASE ReceiveOwn
  <2>1. UNCHANGED <<mem, cache, dirty>>
    BY <1>13 DEF ReceiveOwn, memory
  <2> QED BY <2>1, MemoryKept
<1>14. CASE ReceiveCopy
  <2>1. UNCHANGED <<mem, cache, dirty>>
    BY <1>14 DEF ReceiveCopy, memory
  <2> QED BY <2>1, MemoryKept
<1>15. CASE RecycleKick
  <2>1. UNCHANGED <<mem, cache, dirty>>
    BY <1>15 DEF RecycleKick, memory
  <2> QED BY <2>1, MemoryKept
<1>16. CASE LinkState
  <2>1. UNCHANGED <<mem, cache, dirty>>
    BY <1>16 DEF LinkState, memory
  <2> QED BY <2>1, MemoryKept
<1>17. CASE HwFetch
  <2>1. UNCHANGED <<mem, cache, dirty>>
    BY <1>17 DEF HwFetch, memory
  <2> QED BY <2>1, MemoryKept
<1>18. CASE HwDrop
  <2>1. UNCHANGED <<mem, cache, dirty>>
    BY <1>18 DEF HwDrop, memory
  <2> QED BY <2>1, MemoryKept
<1>19. CASE HwLink
  <2>1. UNCHANGED <<mem, cache, dirty>>
    BY <1>19 DEF HwLink, memory
  <2> QED BY <2>1, MemoryKept
<1>20. CASE Send
  <2>1. Invalidate(TxDesc(txIndex))
    BY <1>20 DEF Send
  <2> QED BY <2>1, OwnLines, Invalidates
<1>21. CASE SendPoll
  <2>1. Invalidate(TxDesc(Current))
    BY <1>21 DEF SendPoll
  <2> QED BY <2>1, OwnLines, Invalidates
<1>22. CASE Receive
  <2>1. Invalidate(RxDesc(rxIndex))
    BY <1>22 DEF Receive
  <2> QED BY <2>1, OwnLines, Invalidates
<1>23. CASE ReceiveSync
  <2>1. Invalidate(RxBuf(rxIndex))
    BY <1>23 DEF ReceiveSync
  <2> QED BY <2>1, OwnLines, Invalidates
<1>24. CASE RecycleSync
  <2>1. Invalidate(RxBuf(rxIndex))
    BY <1>24 DEF RecycleSync
  <2> QED BY <2>1, OwnLines, Invalidates
<1>25. CASE SendCopy
  <2>1. Store(TxBuf(txIndex), got)
    BY <1>25 DEF SendCopy
  <2> QED BY <2>1, OwnLines, Stores
<1>26. CASE SendDesc
  <2>1. Store(TxDesc(txIndex), "dma")
    BY <1>26 DEF SendDesc
  <2> QED BY <2>1, OwnLines, Stores
<1>27. CASE RecycleDesc
  <2>1. Store(RxDesc(rxIndex), "dma")
    BY <1>27 DEF RecycleDesc
  <2> QED BY <2>1, OwnLines, Stores
<1>28. CASE SendClean
  <2>1. Clean(TxBuf(txIndex))
    BY <1>28 DEF SendClean
  <2> QED BY <2>1, OwnLines, Cleans
<1>29. CASE SendPublish
  <2>1. Clean(TxDesc(txIndex))
    BY <1>29 DEF SendPublish
  <2> QED BY <2>1, OwnLines, Cleans
<1>30. CASE RecyclePublish
  <2>1. Clean(RxDesc(rxIndex))
    BY <1>30 DEF RecyclePublish
  <2> QED BY <2>1, OwnLines, Cleans
<1>31. CASE HwSent
  <2>1. mem' = [mem EXCEPT ![TxDesc(txCur)] = "cpu"] /\ UNCHANGED <<cache, dirty>>
    BY <1>31 DEF HwSent
  <2> QED BY <2>1, OwnLines, DmaWrites
<1>32. CASE HwFill
  <2>1. mem' = [mem EXCEPT ![RxBuf(rxCur)] = arrived + 1] /\ UNCHANGED <<cache, dirty>>
    BY <1>32 DEF HwFill
  <2> QED BY <2>1, OwnLines, DmaWrites
<1>33. CASE HwClose
  <2>1. PICK status \in {"good", "bad"} : mem' = [mem EXCEPT ![RxDesc(rxCur)] = status]
    BY <1>33 DEF HwClose
  <2>2. UNCHANGED <<cache, dirty>>
    BY <1>33 DEF HwClose
  <2> QED BY <2>1, <2>2, OwnLines, DmaWrites
<1>34. CASE HwBusError
  <2>1. UNCHANGED <<cache, dirty>> /\ (mem' = mem \/ mem' = [mem EXCEPT ![TxDesc(txCur)] = "cpu"])
    BY <1>34 DEF HwBusError
  <2>2. CASE mem' = mem
    BY <2>1, <2>2, MemoryKept
  <2> QED BY <2>1, <2>2, OwnLines, DmaWrites
<1>35. CASE InitRings
  BY <1>35, RingsLaid
<1>36. ASSUME NEW l \in Line, Prefetch(l) PROVE MemoryOK'
  BY <1>36, Prefetches
<1>37. ASSUME NEW l \in Line, Evict(l) PROVE MemoryOK'
  BY <1>37, Evicts
<1> QED BY <1>w, <1>r, <1>f, <1>1, <1>2, <1>3, <1>4, <1>5, <1>6, <1>7, <1>8, <1>9, <1>10, <1>11,
         <1>12, <1>13,
         <1>14, <1>15, <1>16, <1>17, <1>18, <1>19, <1>20, <1>21, <1>22, <1>23, <1>24, <1>25,
         <1>26, <1>27, <1>28, <1>29, <1>30, <1>31, <1>32, <1>33, <1>34, <1>35, <1>36, <1>37
             DEF Next, Driver, Hardware

LEMMA StaticsStep ==
  ASSUME TypeOK, Next
  PROVE  /\ pc' \in Steps /\ initialized' \in BOOLEAN
         /\ txRun' \in BOOLEAN /\ rxRun' \in BOOLEAN /\ fbe' \in BOOLEAN /\ link' \in BOOLEAN
<1> USE DEF TypeOK, Steps, StopSteps, HandSteps, WaitSteps, TakeSteps
<1>1. CASE InitReset
  BY <1>1 DEF InitReset, Return, Advance, Goto, EnterFault, NoReturn, driver, dma, hist
<1>2. CASE InitNoPhy
  BY <1>2 DEF InitNoPhy, Return, Advance, Goto, EnterFault, NoReturn, driver, dma, hist
<1>w. CASE InitWithdraw
  BY <1>w DEF InitWithdraw, Return, Advance, Goto, EnterFault, NoReturn, driver, dma, hist
<1>r. CASE InitReady
  BY <1>r DEF InitReady, Return, Advance, Goto, EnterFault, NoReturn, driver, dma, hist
<1>f. CASE FaultStop
  BY <1>f DEF FaultStop, Return, Advance, Goto, EnterFault, NoReturn, driver, dma, hist
<1>3. CASE InitStart
  BY <1>3 DEF InitStart, Return, Advance, Goto, EnterFault, NoReturn, driver, dma, hist
<1>4. CASE SendRefused
  BY <1>4 DEF SendRefused, Return, Advance, Goto, EnterFault, NoReturn, driver, dma, hist
<1>5. CASE SendFaulted
  BY <1>5 DEF SendFaulted, Return, Advance, Goto, EnterFault, NoReturn, driver, dma, hist
<1>6. CASE SendOwn
  BY <1>6 DEF SendOwn, Return, Advance, Goto, EnterFault, NoReturn, driver, dma, hist
<1>7. CASE SendKick
  BY <1>7 DEF SendKick, Return, Advance, Goto, EnterFault, NoReturn, driver, dma, hist
<1>8. CASE SendCheck
  BY <1>8 DEF SendCheck, Return, Advance, Goto, EnterFault, NoReturn, driver, dma, hist
<1>9. CASE SendLook
  BY <1>9 DEF SendLook, Return, Advance, Goto, EnterFault, NoReturn, driver, dma, hist
<1>10. CASE SendGiveUp
  BY <1>10 DEF SendGiveUp, Return, Advance, Goto, EnterFault, NoReturn, driver, dma, hist
<1>11. CASE ReceiveRefused
  BY <1>11 DEF ReceiveRefused, Return, Advance, Goto, EnterFault, NoReturn, driver, dma, hist
<1>12. CASE ReceiveFaulted
  BY <1>12 DEF ReceiveFaulted, Return, Advance, Goto, EnterFault, NoReturn, driver, dma, hist
<1>13. CASE ReceiveOwn
  BY <1>13 DEF ReceiveOwn, Return, Advance, Goto, EnterFault, NoReturn, driver, dma, hist
<1>14. CASE ReceiveCopy
  BY <1>14 DEF ReceiveCopy, Return, Advance, Goto, EnterFault, NoReturn, driver, dma, hist
<1>15. CASE RecycleKick
  BY <1>15 DEF RecycleKick, Return, Advance, Goto, EnterFault, NoReturn, driver, dma, hist
<1>16. CASE LinkState
  BY <1>16 DEF LinkState, Return, Advance, Goto, EnterFault, NoReturn, driver, dma, hist
<1>17. CASE HwFetch
  BY <1>17 DEF HwFetch, Return, Advance, Goto, EnterFault, NoReturn, driver, dma, hist
<1>18. CASE HwDrop
  BY <1>18 DEF HwDrop, Return, Advance, Goto, EnterFault, NoReturn, driver, dma, hist
<1>19. CASE HwLink
  BY <1>19 DEF HwLink, Return, Advance, Goto, EnterFault, NoReturn, driver, dma, hist
<1>20. CASE Send
  BY <1>20 DEF Send, Return, Advance, Goto, EnterFault, NoReturn, driver, dma, hist
<1>21. CASE SendPoll
  BY <1>21 DEF SendPoll, Return, Advance, Goto, EnterFault, NoReturn, driver, dma, hist
<1>22. CASE Receive
  BY <1>22 DEF Receive, Return, Advance, Goto, EnterFault, NoReturn, driver, dma, hist
<1>23. CASE ReceiveSync
  BY <1>23 DEF ReceiveSync, Return, Advance, Goto, EnterFault, NoReturn, driver, dma, hist
<1>24. CASE RecycleSync
  BY <1>24 DEF RecycleSync, Return, Advance, Goto, EnterFault, NoReturn, driver, dma, hist
<1>25. CASE SendCopy
  BY <1>25 DEF SendCopy, Return, Advance, Goto, EnterFault, NoReturn, driver, dma, hist
<1>26. CASE SendDesc
  BY <1>26 DEF SendDesc, Return, Advance, Goto, EnterFault, NoReturn, driver, dma, hist
<1>27. CASE RecycleDesc
  BY <1>27 DEF RecycleDesc, Return, Advance, Goto, EnterFault, NoReturn, driver, dma, hist
<1>28. CASE SendClean
  BY <1>28 DEF SendClean, Return, Advance, Goto, EnterFault, NoReturn, driver, dma, hist
<1>29. CASE SendPublish
  BY <1>29 DEF SendPublish, Return, Advance, Goto, EnterFault, NoReturn, driver, dma, hist
<1>30. CASE RecyclePublish
  BY <1>30 DEF RecyclePublish, Return, Advance, Goto, EnterFault, NoReturn, driver, dma, hist
<1>31. CASE HwSent
  BY <1>31 DEF HwSent, Return, Advance, Goto, EnterFault, NoReturn, driver, dma, hist
<1>32. CASE HwFill
  BY <1>32 DEF HwFill, Return, Advance, Goto, EnterFault, NoReturn, driver, dma, hist
<1>33. CASE HwClose
  BY <1>33 DEF HwClose, Return, Advance, Goto, EnterFault, NoReturn, driver, dma, hist
<1>34. CASE HwBusError
  BY <1>34 DEF HwBusError, Return, Advance, Goto, EnterFault, NoReturn, driver, dma, hist
<1>35. CASE InitRings
  BY <1>35 DEF InitRings, Return, Advance, Goto, EnterFault, NoReturn, driver, dma, hist
<1>36. ASSUME NEW l \in Line, Prefetch(l) \/ Evict(l) PROVE UNCHANGED <<driver, dma, link>>
  BY <1>36 DEF Prefetch, Evict
<1> QED BY <1>w, <1>r, <1>f, <1>1, <1>2, <1>3, <1>4, <1>5, <1>6, <1>7, <1>8, <1>9, <1>10, <1>11,
         <1>12, <1>13,
         <1>14, <1>15, <1>16, <1>17, <1>18, <1>19, <1>20, <1>21, <1>22, <1>23, <1>24, <1>25,
         <1>26, <1>27, <1>28, <1>29, <1>30, <1>31, <1>32, <1>33, <1>34, <1>35, <1>36 DEF
             Next, Driver, Hardware, driver, dma

LEMMA CountersStep ==
  ASSUME TypeOK, Next
  PROVE  /\ txIndex' \in Ring /\ rxIndex' \in Ring
         /\ txCur' \in Ring /\ txTail' \in Ring /\ rxCur' \in Ring /\ rxTail' \in Ring
         /\ got' \in Nat /\ txFetch' \in Nat /\ rxFill' \in Nat
         /\ wire' \in Nat /\ arrived' \in Nat /\ delivered' \in Nat
         /\ sends' \in Nat /\ inits' \in Nat /\ links' \in Nat
<1> USE DEF TypeOK
<1> 0 \in Ring /\ Count - 1 \in Ring
  BY CountIs DEF Ring
<1> After(txIndex) \in Ring /\ After(rxIndex) \in Ring
    /\ After(txCur) \in Ring /\ After(rxCur) \in Ring
  BY AfterIs
<1> mem[TxBuf(txCur)] \in Nat /\ Load(RxBuf(rxIndex)) \in Nat
  BY LinesHold, LoadFits DEF MemoryOK, Fits
<1>1. CASE InitReset
  BY <1>1 DEF InitReset, Return, Advance, Goto, EnterFault, NoReturn, driver, dma, hist
<1>2. CASE InitNoPhy
  BY <1>2 DEF InitNoPhy, Return, Advance, Goto, EnterFault, NoReturn, driver, dma, hist
<1>w. CASE InitWithdraw
  BY <1>w DEF InitWithdraw, Return, Advance, Goto, EnterFault, NoReturn, driver, dma, hist
<1>r. CASE InitReady
  BY <1>r DEF InitReady, Return, Advance, Goto, EnterFault, NoReturn, driver, dma, hist
<1>f. CASE FaultStop
  BY <1>f DEF FaultStop, Return, Advance, Goto, EnterFault, NoReturn, driver, dma, hist
<1>3. CASE InitStart
  BY <1>3 DEF InitStart, Return, Advance, Goto, EnterFault, NoReturn, driver, dma, hist
<1>4. CASE SendRefused
  BY <1>4 DEF SendRefused, Return, Advance, Goto, EnterFault, NoReturn, driver, dma, hist
<1>5. CASE SendFaulted
  BY <1>5 DEF SendFaulted, Return, Advance, Goto, EnterFault, NoReturn, driver, dma, hist
<1>6. CASE SendOwn
  BY <1>6 DEF SendOwn, Return, Advance, Goto, EnterFault, NoReturn, driver, dma, hist
<1>7. CASE SendKick
  BY <1>7 DEF SendKick, Return, Advance, Goto, EnterFault, NoReturn, driver, dma, hist
<1>8. CASE SendCheck
  BY <1>8 DEF SendCheck, Return, Advance, Goto, EnterFault, NoReturn, driver, dma, hist
<1>9. CASE SendLook
  BY <1>9 DEF SendLook, Return, Advance, Goto, EnterFault, NoReturn, driver, dma, hist
<1>10. CASE SendGiveUp
  BY <1>10 DEF SendGiveUp, Return, Advance, Goto, EnterFault, NoReturn, driver, dma, hist
<1>11. CASE ReceiveRefused
  BY <1>11 DEF ReceiveRefused, Return, Advance, Goto, EnterFault, NoReturn, driver, dma, hist
<1>12. CASE ReceiveFaulted
  BY <1>12 DEF ReceiveFaulted, Return, Advance, Goto, EnterFault, NoReturn, driver, dma, hist
<1>13. CASE ReceiveOwn
  BY <1>13 DEF ReceiveOwn, Return, Advance, Goto, EnterFault, NoReturn, driver, dma, hist
<1>14. CASE ReceiveCopy
  BY <1>14 DEF ReceiveCopy, Return, Advance, Goto, EnterFault, NoReturn, driver, dma, hist
<1>15. CASE RecycleKick
  BY <1>15 DEF RecycleKick, Return, Advance, Goto, EnterFault, NoReturn, driver, dma, hist
<1>16. CASE LinkState
  BY <1>16 DEF LinkState, Return, Advance, Goto, EnterFault, NoReturn, driver, dma, hist
<1>17. CASE HwFetch
  BY <1>17 DEF HwFetch, Return, Advance, Goto, EnterFault, NoReturn, driver, dma, hist
<1>18. CASE HwDrop
  BY <1>18 DEF HwDrop, Return, Advance, Goto, EnterFault, NoReturn, driver, dma, hist
<1>19. CASE HwLink
  BY <1>19 DEF HwLink, Return, Advance, Goto, EnterFault, NoReturn, driver, dma, hist
<1>20. CASE Send
  BY <1>20 DEF Send, Return, Advance, Goto, EnterFault, NoReturn, driver, dma, hist
<1>21. CASE SendPoll
  BY <1>21 DEF SendPoll, Return, Advance, Goto, EnterFault, NoReturn, driver, dma, hist
<1>22. CASE Receive
  BY <1>22 DEF Receive, Return, Advance, Goto, EnterFault, NoReturn, driver, dma, hist
<1>23. CASE ReceiveSync
  BY <1>23 DEF ReceiveSync, Return, Advance, Goto, EnterFault, NoReturn, driver, dma, hist
<1>24. CASE RecycleSync
  BY <1>24 DEF RecycleSync, Return, Advance, Goto, EnterFault, NoReturn, driver, dma, hist
<1>25. CASE SendCopy
  BY <1>25 DEF SendCopy, Return, Advance, Goto, EnterFault, NoReturn, driver, dma, hist
<1>26. CASE SendDesc
  BY <1>26 DEF SendDesc, Return, Advance, Goto, EnterFault, NoReturn, driver, dma, hist
<1>27. CASE RecycleDesc
  BY <1>27 DEF RecycleDesc, Return, Advance, Goto, EnterFault, NoReturn, driver, dma, hist
<1>28. CASE SendClean
  BY <1>28 DEF SendClean, Return, Advance, Goto, EnterFault, NoReturn, driver, dma, hist
<1>29. CASE SendPublish
  BY <1>29 DEF SendPublish, Return, Advance, Goto, EnterFault, NoReturn, driver, dma, hist
<1>30. CASE RecyclePublish
  BY <1>30 DEF RecyclePublish, Return, Advance, Goto, EnterFault, NoReturn, driver, dma, hist
<1>31. CASE HwSent
  BY <1>31 DEF HwSent, Return, Advance, Goto, EnterFault, NoReturn, driver, dma, hist
<1>32. CASE HwFill
  BY <1>32 DEF HwFill, Return, Advance, Goto, EnterFault, NoReturn, driver, dma, hist
<1>33. CASE HwClose
  BY <1>33 DEF HwClose, Return, Advance, Goto, EnterFault, NoReturn, driver, dma, hist
<1>34. CASE HwBusError
  BY <1>34 DEF HwBusError, Return, Advance, Goto, EnterFault, NoReturn, driver, dma, hist
<1>35. CASE InitRings
  BY <1>35 DEF InitRings, Return, Advance, Goto, EnterFault, NoReturn, driver, dma, hist
<1>36. ASSUME NEW l \in Line, Prefetch(l) \/ Evict(l) PROVE UNCHANGED <<driver, dma, hist>>
  BY <1>36 DEF Prefetch, Evict
<1> QED BY <1>w, <1>r, <1>f, <1>1, <1>2, <1>3, <1>4, <1>5, <1>6, <1>7, <1>8, <1>9, <1>10, <1>11,
         <1>12, <1>13,
         <1>14, <1>15, <1>16, <1>17, <1>18, <1>19, <1>20, <1>21, <1>22, <1>23, <1>24, <1>25,
         <1>26, <1>27, <1>28, <1>29, <1>30, <1>31, <1>32, <1>33, <1>34, <1>35, <1>36 DEF
             Next, Driver, Hardware, driver, dma, hist

LEMMA TypeStep ==
  ASSUME TypeOK, [Next]_vars
  PROVE  TypeOK'
<1>1. CASE Next
  BY <1>1, MemoryStep, StaticsStep, CountersStep DEF TypeOK
<1>2. CASE UNCHANGED vars
  <2>1. MemoryOK'
    BY <1>2, MemoryKept DEF vars, memory, TypeOK
  <2> QED BY <1>2, <2>1 DEF vars, driver, dma, hist, TypeOK
<1> QED BY <1>1, <1>2

LEMMA TypeInit ==
  ASSUME Init
  PROVE  TypeOK
<1>1. 0 \in Ring
  BY CountIs DEF Ring
<1>2. /\ DOMAIN mem = Line
      /\ \A l \in Line : IF l[1] \in {"tx_desc", "rx_desc"} THEN mem[l] = "cpu" ELSE mem[l] = 0
  BY DEF Init
<1>3. Fits(mem)
  BY <1>2 DEF Fits, Word, TxWords, RxWords
<1>4. DOMAIN cache = {} /\ dirty = {}
  BY DEF Init
<1> QED BY <1>1, <1>2, <1>3, <1>4 DEF Init, TypeOK, MemoryOK, Fits, Steps

\* Every variable stays in its range: the memory, the cache and the driver's and
\* the DMA's registers, whatever the cache and the link do.
THEOREM TypeCorrect == Spec => []TypeOK
BY TypeInit, TypeStep, PTL DEF Spec

-----------------------------------------------------------------------------
(* The instance. *)

\* Both channels run or neither; a call is past its first step only when the
\* instance is there; a withdrawn instance has a DMA that runs only in a step
\* that is about to stop or to reset it, or to make the instance ready; while
\* das_eth_init rebuilds the rings the DMA has nothing under way, and until the
\* instance is ready it has nothing to send; a call that stops the DMA fails.
Control ==
  /\ (txRun => rxRun) /\ (rxRun => txRun)
  /\ initialized => rxRun
  /\ rxRun => initialized \/ pc \in Stopping \cup {"init_ready"}
  /\ initialized => pc \notin {"init_reset", "init_rings", "init_phy", "init_ready"} \cup StopSteps
  /\ pc \notin {"idle", "init_reset", "init_rings", "init_phy", "init_ready"} \cup StopSteps
       => initialized
  /\ pc \in {"init_rings", "init_phy"} => ~rxRun /\ ~fbe /\ txFetch = 0 /\ rxFill = 0
  /\ pc \in {"init_phy", "init_ready"} => txCur = txTail /\ txFetch = 0
  /\ pc = "init_ready" \/ pc \in StopSteps => rxRun
  /\ pc \in StopSteps => outcome \in {"IO", "TIMEOUT"}

LEMMA ControlInit ==
  ASSUME Init
  PROVE  Control
BY DEF Init, Control, Stopping, StopSteps

LEMMA ControlStep ==
  ASSUME TypeOK, Control, [Next]_vars
  PROVE  Control'
<1> USE DEF TypeOK, Control, Stopping, Steps, StopSteps, HandSteps, WaitSteps, TakeSteps
<1>1. CASE InitReset
  BY <1>1 DEF InitReset, Return, Advance, Goto, EnterFault, NoReturn, driver, dma, hist
<1>2. CASE InitNoPhy
  BY <1>2 DEF InitNoPhy, Return, Advance, Goto, EnterFault, NoReturn, driver, dma, hist
<1>w. CASE InitWithdraw
  BY <1>w DEF InitWithdraw, Return, Advance, Goto, EnterFault, NoReturn, driver, dma, hist
<1>r. CASE InitReady
  BY <1>r DEF InitReady, Return, Advance, Goto, EnterFault, NoReturn, driver, dma, hist
<1>f. CASE FaultStop
  BY <1>f DEF FaultStop, Return, Advance, Goto, EnterFault, NoReturn, driver, dma, hist
<1>3. CASE InitStart
  BY <1>3 DEF InitStart, Return, Advance, Goto, EnterFault, NoReturn, driver, dma, hist
<1>4. CASE SendRefused
  BY <1>4 DEF SendRefused, Return, Advance, Goto, EnterFault, NoReturn, driver, dma, hist
<1>5. CASE SendFaulted
  BY <1>5 DEF SendFaulted, Return, Advance, Goto, EnterFault, NoReturn, driver, dma, hist
<1>6. CASE SendOwn
  BY <1>6 DEF SendOwn, Return, Advance, Goto, EnterFault, NoReturn, driver, dma, hist
<1>7. CASE SendKick
  BY <1>7 DEF SendKick, Return, Advance, Goto, EnterFault, NoReturn, driver, dma, hist
<1>8. CASE SendCheck
  BY <1>8 DEF SendCheck, Return, Advance, Goto, EnterFault, NoReturn, driver, dma, hist
<1>9. CASE SendLook
  BY <1>9 DEF SendLook, Return, Advance, Goto, EnterFault, NoReturn, driver, dma, hist
<1>10. CASE SendGiveUp
  BY <1>10 DEF SendGiveUp, Return, Advance, Goto, EnterFault, NoReturn, driver, dma, hist
<1>11. CASE ReceiveRefused
  BY <1>11 DEF ReceiveRefused, Return, Advance, Goto, EnterFault, NoReturn, driver, dma, hist
<1>12. CASE ReceiveFaulted
  BY <1>12 DEF ReceiveFaulted, Return, Advance, Goto, EnterFault, NoReturn, driver, dma, hist
<1>13. CASE ReceiveOwn
  BY <1>13 DEF ReceiveOwn, Return, Advance, Goto, EnterFault, NoReturn, driver, dma, hist
<1>14. CASE ReceiveCopy
  BY <1>14 DEF ReceiveCopy, Return, Advance, Goto, EnterFault, NoReturn, driver, dma, hist
<1>15. CASE RecycleKick
  BY <1>15 DEF RecycleKick, Return, Advance, Goto, EnterFault, NoReturn, driver, dma, hist
<1>16. CASE LinkState
  BY <1>16 DEF LinkState, Return, Advance, Goto, EnterFault, NoReturn, driver, dma, hist
<1>17. CASE HwFetch
  BY <1>17 DEF HwFetch, TxReady
<1>18. CASE HwDrop
  BY <1>18 DEF HwDrop, Return, Advance, Goto, EnterFault, NoReturn, driver, dma, hist
<1>19. CASE HwLink
  BY <1>19 DEF HwLink, Return, Advance, Goto, EnterFault, NoReturn, driver, dma, hist
<1>20. CASE Send
  BY <1>20 DEF Send, Return, Advance, Goto, EnterFault, NoReturn, driver, dma, hist
<1>21. CASE SendPoll
  BY <1>21 DEF SendPoll, Return, Advance, Goto, EnterFault, NoReturn, driver, dma, hist
<1>22. CASE Receive
  BY <1>22 DEF Receive, Return, Advance, Goto, EnterFault, NoReturn, driver, dma, hist
<1>23. CASE ReceiveSync
  BY <1>23 DEF ReceiveSync, Return, Advance, Goto, EnterFault, NoReturn, driver, dma, hist
<1>24. CASE RecycleSync
  BY <1>24 DEF RecycleSync, Return, Advance, Goto, EnterFault, NoReturn, driver, dma, hist
<1>25. CASE SendCopy
  BY <1>25 DEF SendCopy, Return, Advance, Goto, EnterFault, NoReturn, driver, dma, hist
<1>26. CASE SendDesc
  BY <1>26 DEF SendDesc, Return, Advance, Goto, EnterFault, NoReturn, driver, dma, hist
<1>27. CASE RecycleDesc
  BY <1>27 DEF RecycleDesc, Return, Advance, Goto, EnterFault, NoReturn, driver, dma, hist
<1>28. CASE SendClean
  BY <1>28 DEF SendClean, Return, Advance, Goto, EnterFault, NoReturn, driver, dma, hist
<1>29. CASE SendPublish
  BY <1>29 DEF SendPublish, Return, Advance, Goto, EnterFault, NoReturn, driver, dma, hist
<1>30. CASE RecyclePublish
  BY <1>30 DEF RecyclePublish, Return, Advance, Goto, EnterFault, NoReturn, driver, dma, hist
<1>31. CASE HwSent
  BY <1>31 DEF HwSent, Return, Advance, Goto, EnterFault, NoReturn, driver, dma, hist
<1>32. CASE HwFill
  BY <1>32 DEF HwFill, RxReady
<1>33. CASE HwClose
  BY <1>33 DEF HwClose, Return, Advance, Goto, EnterFault, NoReturn, driver, dma, hist
<1>34. CASE HwBusError
  BY <1>34 DEF HwBusError, Return, Advance, Goto, EnterFault, NoReturn, driver, dma, hist
<1>35. CASE InitRings
  BY <1>35 DEF InitRings, Return, Advance, Goto, EnterFault, NoReturn, driver, dma, hist
<1>36. ASSUME NEW l \in Line, Prefetch(l) \/ Evict(l) PROVE UNCHANGED <<driver, dma>>
  BY <1>36 DEF Prefetch, Evict
<1>37. CASE UNCHANGED <<driver, dma>>
  BY <1>37 DEF driver, dma
<1> QED BY <1>w, <1>r, <1>f, <1>1, <1>2, <1>3, <1>4, <1>5, <1>6, <1>7, <1>8, <1>9, <1>10, <1>11,
         <1>12, <1>13,
         <1>14, <1>15, <1>16, <1>17, <1>18, <1>19, <1>20, <1>21, <1>22, <1>23, <1>24, <1>25,
         <1>26, <1>27, <1>28, <1>29, <1>30, <1>31, <1>32, <1>33, <1>34, <1>35, <1>36, <1>37
         DEF Next, Driver, Hardware, vars

LEMMA SilentStep ==
  ASSUME Control, [Next]_vars
  PROVE  /\ txFetch = 0 /\ txFetch' # 0 => initialized \/ pc \in Stopping
         /\ rxFill = 0 /\ rxFill' # 0 => initialized \/ pc \in Stopping \cup {"init_ready"}
<1>1. CASE HwFetch
  BY <1>1 DEF HwFetch, TxReady, Control, Stopping
<1>2. CASE HwFill
  BY <1>2 DEF HwFill, RxReady, Control, Stopping
<1>3. CASE InitReset
  BY <1>3 DEF InitReset
<1>4. CASE HwSent
  BY <1>4 DEF HwSent
<1>5. CASE HwClose
  BY <1>5 DEF HwClose
<1>6. ASSUME Next, ~HwFetch, ~HwFill, ~InitReset, ~HwSent, ~HwClose
      PROVE  UNCHANGED <<txFetch, rxFill>>
  <2>1. CASE InitNoPhy
    BY <2>1 DEF InitNoPhy, dma
  <2>w. CASE InitWithdraw
    BY <2>w DEF InitWithdraw, dma
  <2>r. CASE InitReady
    BY <2>r DEF InitReady, dma
  <2>f. CASE FaultStop
    BY <2>f DEF FaultStop, dma
  <2>2. CASE InitStart
    BY <2>2 DEF InitStart, dma
  <2>3. CASE SendRefused
    BY <2>3 DEF SendRefused, dma
  <2>4. CASE SendFaulted
    BY <2>4 DEF SendFaulted, EnterFault, dma
  <2>5. CASE SendOwn
    BY <2>5 DEF SendOwn, dma
  <2>6. CASE SendKick
    BY <2>6 DEF SendKick, dma
  <2>7. CASE SendCheck
    BY <2>7 DEF SendCheck, EnterFault, dma
  <2>8. CASE SendLook
    BY <2>8 DEF SendLook, dma
  <2>9. CASE SendGiveUp
    BY <2>9 DEF SendGiveUp, EnterFault, dma
  <2>10. CASE ReceiveRefused
    BY <2>10 DEF ReceiveRefused, dma
  <2>11. CASE ReceiveFaulted
    BY <2>11 DEF ReceiveFaulted, EnterFault, dma
  <2>12. CASE ReceiveOwn
    BY <2>12 DEF ReceiveOwn, dma
  <2>13. CASE ReceiveCopy
    BY <2>13 DEF ReceiveCopy, dma
  <2>14. CASE RecycleKick
    BY <2>14 DEF RecycleKick, dma
  <2>15. CASE LinkState
    BY <2>15 DEF LinkState, dma
  <2>16. CASE HwDrop
    BY <2>16 DEF HwDrop, dma
  <2>17. CASE HwLink
    BY <2>17 DEF HwLink, dma
  <2>18. CASE Send
    BY <2>18 DEF Send, dma
  <2>19. CASE SendPoll
    BY <2>19 DEF SendPoll, dma
  <2>20. CASE Receive
    BY <2>20 DEF Receive, dma
  <2>21. CASE ReceiveSync
    BY <2>21 DEF ReceiveSync, dma
  <2>22. CASE RecycleSync
    BY <2>22 DEF RecycleSync, dma
  <2>23. CASE SendCopy
    BY <2>23 DEF SendCopy, dma
  <2>24. CASE SendDesc
    BY <2>24 DEF SendDesc, dma
  <2>25. CASE RecycleDesc
    BY <2>25 DEF RecycleDesc, dma
  <2>26. CASE SendClean
    BY <2>26 DEF SendClean, dma
  <2>27. CASE SendPublish
    BY <2>27 DEF SendPublish, dma
  <2>28. CASE RecyclePublish
    BY <2>28 DEF RecyclePublish, dma
  <2>29. CASE HwBusError
    BY <2>29 DEF HwBusError, dma
  <2>30. CASE InitRings
    BY <2>30 DEF InitRings, dma
  <2>31. ASSUME NEW l \in Line, Prefetch(l) \/ Evict(l) PROVE UNCHANGED <<txFetch, rxFill>>
    BY <2>31 DEF Prefetch, Evict, dma
  <2> QED BY <2>w, <2>r, <2>f, <1>6, <2>1, <2>2, <2>3, <2>4, <2>5, <2>6, <2>7, <2>8, <2>9, <2>10,
         <2>11,
      <2>12, <2>13, <2>14, <2>15, <2>16, <2>17, <2>18, <2>19, <2>20, <2>21, <2>22, <2>23,
      <2>24, <2>25, <2>26, <2>27, <2>28, <2>29, <2>30, <2>31 DEF Next, Driver, Hardware

<1>7. CASE UNCHANGED vars
  BY <1>7 DEF vars, dma
<1> QED BY <1>1, <1>2, <1>3, <1>4, <1>5, <1>6, <1>7

\* docs/ethernet.md: a fatal fault "stops the MAC/DMA path, marks the instance
\* uninitialized".  A withdrawn instance, after a fault or a failed das_eth_init,
\* begins no frame in either direction, but between its withdrawal and the stop or
\* the reset of the DMA that follows in the same call; before it is ready it sends
\* none.
THEOREM WithdrawnBeginsNothing == Spec => WithdrawnIsSilent
<1>1. Init => TypeOK /\ Control
  BY TypeInit, ControlInit
<1>2. TypeOK /\ Control /\ [Next]_vars => (TypeOK /\ Control)'
  BY TypeStep, ControlStep
<1>3. Control /\ [Next]_vars
        => [/\ txFetch = 0 /\ txFetch' # 0 => initialized \/ pc \in Stopping
            /\ rxFill = 0 /\ rxFill' # 0 => initialized \/ pc \in Stopping \cup {"init_ready"}
           ]_vars
  BY SilentStep
<1> QED BY <1>1, <1>2, <1>3, PTL DEF Spec, WithdrawnIsSilent

-----------------------------------------------------------------------------
(* The cache. *)

\* What the call in progress has written and not yet cleaned.
Written ==
  CASE pc = "send_clean"      -> {TxBuf(txIndex)}
    [] pc = "send_publish"    -> {TxDesc(txIndex)}
    [] pc = "recycle_publish" -> {RxDesc(rxIndex)}
    [] OTHER                  -> {}
OnlyWritten == dirty \subseteq Written

Descriptors == {l \in Line : l[1] \in {"tx_desc", "rx_desc"}}

\* A clean copy of a descriptor that gives it to the CPU is no older than the
\* last time the CPU got it: the cache can hide that the DMA is done, and never
\* pretend it.
NotStale ==
  \A l \in Descriptors :
    l \in DOMAIN cache /\ l \notin dirty /\ cache[l] # "dma" => mem[l] # "dma"

LEMMA DescriptorsAre ==
  ASSUME NEW i \in Ring
  PROVE  /\ TxDesc(i) \in Descriptors /\ RxDesc(i) \in Descriptors
         /\ TxBuf(i) \notin Descriptors /\ RxBuf(i) \notin Descriptors
BY LinesHold DEF Descriptors, TxDesc, RxDesc, TxBuf, RxBuf

LEMMA WrittenStep ==
  ASSUME TypeOK, OnlyWritten, [Next]_vars
  PROVE  OnlyWritten'
<1> USE DEF OnlyWritten, Written, Steps, StopSteps, HandSteps, WaitSteps, TakeSteps
<1>1. CASE InitReset
  BY <1>1 DEF InitReset, Return, Advance, Goto, EnterFault, NoReturn, memory
<1>2. CASE InitNoPhy
  BY <1>2 DEF InitNoPhy, Return, Advance, Goto, EnterFault, NoReturn, memory
<1>w. CASE InitWithdraw
  BY <1>w DEF InitWithdraw, Return, Advance, Goto, EnterFault, NoReturn, memory
<1>r. CASE InitReady
  BY <1>r DEF InitReady, Return, Advance, Goto, EnterFault, NoReturn, memory
<1>f. CASE FaultStop
  BY <1>f DEF FaultStop, Return, Advance, Goto, EnterFault, NoReturn, memory
<1>3. CASE InitStart
  BY <1>3 DEF InitStart, Return, Advance, Goto, EnterFault, NoReturn, memory
<1>4. CASE SendRefused
  BY <1>4 DEF SendRefused, Return, Advance, Goto, EnterFault, NoReturn, memory
<1>5. CASE SendFaulted
  BY <1>5 DEF SendFaulted, Return, Advance, Goto, EnterFault, NoReturn, memory
<1>6. CASE SendOwn
  BY <1>6 DEF SendOwn, Return, Advance, Goto, EnterFault, NoReturn, memory
<1>7. CASE SendKick
  BY <1>7 DEF SendKick, Return, Advance, Goto, EnterFault, NoReturn, memory
<1>8. CASE SendCheck
  BY <1>8 DEF SendCheck, Return, Advance, Goto, EnterFault, NoReturn, memory
<1>9. CASE SendLook
  BY <1>9 DEF SendLook, Return, Advance, Goto, EnterFault, NoReturn, memory
<1>10. CASE SendGiveUp
  BY <1>10 DEF SendGiveUp, Return, Advance, Goto, EnterFault, NoReturn, memory
<1>11. CASE ReceiveRefused
  BY <1>11 DEF ReceiveRefused, Return, Advance, Goto, EnterFault, NoReturn, memory
<1>12. CASE ReceiveFaulted
  BY <1>12 DEF ReceiveFaulted, Return, Advance, Goto, EnterFault, NoReturn, memory
<1>13. CASE ReceiveOwn
  BY <1>13 DEF ReceiveOwn, Return, Advance, Goto, EnterFault, NoReturn, memory
<1>14. CASE ReceiveCopy
  BY <1>14 DEF ReceiveCopy, Return, Advance, Goto, EnterFault, NoReturn, memory
<1>15. CASE RecycleKick
  BY <1>15 DEF RecycleKick, Return, Advance, Goto, EnterFault, NoReturn, memory
<1>16. CASE LinkState
  BY <1>16 DEF LinkState, Return, Advance, Goto, EnterFault, NoReturn, memory
<1>17. CASE HwFetch
  BY <1>17 DEF HwFetch, memory
<1>18. CASE HwDrop
  BY <1>18 DEF HwDrop, memory
<1>19. CASE HwLink
  BY <1>19 DEF HwLink, memory
<1>20. CASE HwSent
  BY <1>20 DEF HwSent, memory
<1>21. CASE HwFill
  BY <1>21 DEF HwFill, memory
<1>22. CASE HwClose
  BY <1>22 DEF HwClose, memory
<1>23. CASE HwBusError
  BY <1>23 DEF HwBusError, memory
<1>24. CASE Send
  <2>1. dirty' = dirty \ {TxDesc(txIndex)}
    BY <1>24 DEF Send, Invalidate
  <2> QED BY <1>24, <2>1 DEF Send, Advance, Goto
<1>25. CASE SendPoll
  <2>1. dirty' = dirty \ {TxDesc(Current)}
    BY <1>25 DEF SendPoll, Invalidate
  <2> QED BY <1>25, <2>1 DEF SendPoll, Advance, Goto
<1>26. CASE Receive
  <2>1. dirty' = dirty \ {RxDesc(rxIndex)}
    BY <1>26 DEF Receive, Invalidate
  <2> QED BY <1>26, <2>1 DEF Receive, Advance, Goto
<1>27. CASE ReceiveSync
  <2>1. dirty' = dirty \ {RxBuf(rxIndex)}
    BY <1>27 DEF ReceiveSync, Invalidate
  <2> QED BY <1>27, <2>1 DEF ReceiveSync, Advance, Goto
<1>28. CASE RecycleSync
  <2>1. dirty' = dirty \ {RxBuf(rxIndex)}
    BY <1>28 DEF RecycleSync, Invalidate
  <2> QED BY <1>28, <2>1 DEF RecycleSync, Advance, Goto
<1>29. CASE SendCopy
  <2>1. dirty' = dirty \cup {TxBuf(txIndex)}
    BY <1>29 DEF SendCopy, Store
  <2> QED BY <1>29, <2>1 DEF SendCopy, Advance, Goto
<1>30. CASE SendDesc
  <2>1. dirty' = dirty \cup {TxDesc(txIndex)}
    BY <1>30 DEF SendDesc, Store
  <2> QED BY <1>30, <2>1 DEF SendDesc, Advance, Goto
<1>31. CASE RecycleDesc
  <2>1. dirty' = dirty \cup {RxDesc(rxIndex)}
    BY <1>31 DEF RecycleDesc, Store
  <2> QED BY <1>31, <2>1 DEF RecycleDesc, Advance, Goto
<1>32. CASE SendClean
  <2>1. dirty' = dirty \ {TxBuf(txIndex)}
    BY <1>32 DEF SendClean, Clean
  <2> QED BY <1>32, <2>1 DEF SendClean, Advance, Goto
<1>33. CASE SendPublish
  <2>1. dirty' = dirty \ {TxDesc(txIndex)}
    BY <1>33 DEF SendPublish, Clean
  <2> QED BY <1>33, <2>1 DEF SendPublish, Advance, Goto
<1>34. CASE RecyclePublish
  <2>1. dirty' = dirty \ {RxDesc(rxIndex)}
    BY <1>34 DEF RecyclePublish, Clean
  <2> QED BY <1>34, <2>1 DEF RecyclePublish, Advance, Goto
<1>35. CASE InitRings
  BY <1>35 DEF InitRings
<1>36. ASSUME NEW l \in Line, Prefetch(l) \/ Evict(l) PROVE OnlyWritten'
  <2>1. dirty' \subseteq dirty /\ UNCHANGED <<pc, txIndex, rxIndex>>
    BY <1>36 DEF Prefetch, Evict, driver
  <2> QED BY <2>1
<1>37. CASE UNCHANGED vars
  BY <1>37 DEF vars, driver, memory
<1> QED BY <1>w, <1>r, <1>f, <1>1, <1>2, <1>3, <1>4, <1>5, <1>6, <1>7, <1>8, <1>9, <1>10, <1>11,
         <1>12, <1>13,
         <1>14, <1>15, <1>16, <1>17, <1>18, <1>19, <1>20, <1>21, <1>22, <1>23, <1>24, <1>25,
         <1>26, <1>27, <1>28, <1>29, <1>30, <1>31, <1>32, <1>33, <1>34, <1>35, <1>36, <1>37
         DEF Next, Driver, Hardware

LEMMA NotStaleStep ==
  ASSUME TypeOK, NotStale, [Next]_vars
  PROVE  NotStale'
<1> MemoryOK
  BY DEF TypeOK
<1> Descriptors \subseteq Line
  BY DEF Descriptors
<1>1. ASSUME UNCHANGED memory PROVE NotStale'
  BY <1>1 DEF memory, NotStale
<1>2. ASSUME NEW l \in Line, Invalidate(l) PROVE NotStale'
  BY <1>2, Invalidates DEF NotStale
<1>3. ASSUME NEW l \in Line, NEW v \in Word(l), Store(l, v) PROVE NotStale'
  <2>1. /\ mem' = mem /\ dirty' = dirty \cup {l} /\ DOMAIN cache' = DOMAIN cache \cup {l}
        /\ \A k \in DOMAIN cache : k # l => cache'[k] = cache[k]
    BY <1>3, Stores
  <2> QED BY <2>1 DEF NotStale
<1>4. ASSUME NEW l \in Line, Clean(l) PROVE NotStale'
  <2>1. /\ dirty' = dirty \ {l} /\ cache' = cache
        /\ mem'[l] = IF l \in dirty THEN cache[l] ELSE mem[l]
        /\ \A k \in Line : k # l => mem'[k] = mem[k]
    BY <1>4, Cleans
  <2> QED BY <2>1 DEF NotStale
<1>5. ASSUME NEW l \in Line, NEW v \in Word(l), l \in Descriptors => v # "dma",
             mem' = [mem EXCEPT ![l] = v], UNCHANGED <<cache, dirty>>
      PROVE  NotStale'
  <2>1. mem'[l] = v /\ \A k \in Line : k # l => mem'[k] = mem[k]
    BY <1>5, DmaWrites
  <2> QED BY <1>5, <2>1 DEF NotStale
<1>6. ASSUME NEW l \in Line, Prefetch(l) PROVE NotStale'
  <2>1. /\ mem' = mem /\ dirty' = dirty /\ DOMAIN cache' = DOMAIN cache \cup {l}
        /\ cache'[l] = mem[l]
        /\ \A k \in DOMAIN cache : cache'[k] = cache[k]
    BY <1>6, Prefetches
  <2> QED BY <2>1 DEF NotStale
<1>7. ASSUME NEW l \in Line, Evict(l) PROVE NotStale'
  <2>1. /\ dirty' = dirty \ {l} /\ DOMAIN cache' = DOMAIN cache \ {l}
        /\ \A k \in DOMAIN cache' : cache'[k] = cache[k]
        /\ \A k \in Line : k # l => mem'[k] = mem[k]
    BY <1>7, Evicts
  <2> QED BY <2>1 DEF NotStale
<1>8. ASSUME InitRings PROVE NotStale'
  <2>1. cache' = [l \in Descriptors |-> mem'[l]]
    BY <1>8 DEF InitRings, Descriptors, Line
  <2> QED BY <2>1 DEF NotStale
<1>9. CASE InitReset
  <2>1. UNCHANGED memory
    BY <1>9 DEF InitReset
  <2> QED BY <1>1, <2>1
<1>10. CASE InitNoPhy
  <2>1. UNCHANGED memory
    BY <1>10 DEF InitNoPhy
  <2> QED BY <1>1, <2>1
<1>w. CASE InitWithdraw
  <2>1. UNCHANGED memory
    BY <1>w DEF InitWithdraw
  <2> QED BY <1>1, <2>1
<1>r. CASE InitReady
  <2>1. UNCHANGED memory
    BY <1>r DEF InitReady
  <2> QED BY <1>1, <2>1
<1>f. CASE FaultStop
  <2>1. UNCHANGED memory
    BY <1>f DEF FaultStop
  <2> QED BY <1>1, <2>1
<1>11. CASE InitStart
  <2>1. UNCHANGED memory
    BY <1>11 DEF InitStart
  <2> QED BY <1>1, <2>1
<1>12. CASE SendRefused
  <2>1. UNCHANGED memory
    BY <1>12 DEF SendRefused
  <2> QED BY <1>1, <2>1
<1>13. CASE SendFaulted
  <2>1. UNCHANGED memory
    BY <1>13 DEF SendFaulted, EnterFault
  <2> QED BY <1>1, <2>1
<1>14. CASE SendOwn
  <2>1. UNCHANGED memory
    BY <1>14 DEF SendOwn
  <2> QED BY <1>1, <2>1
<1>15. CASE SendKick
  <2>1. UNCHANGED memory
    BY <1>15 DEF SendKick
  <2> QED BY <1>1, <2>1
<1>16. CASE SendCheck
  <2>1. UNCHANGED memory
    BY <1>16 DEF SendCheck, EnterFault
  <2> QED BY <1>1, <2>1
<1>17. CASE SendLook
  <2>1. UNCHANGED memory
    BY <1>17 DEF SendLook
  <2> QED BY <1>1, <2>1
<1>18. CASE SendGiveUp
  <2>1. UNCHANGED memory
    BY <1>18 DEF SendGiveUp, EnterFault
  <2> QED BY <1>1, <2>1
<1>19. CASE ReceiveRefused
  <2>1. UNCHANGED memory
    BY <1>19 DEF ReceiveRefused
  <2> QED BY <1>1, <2>1
<1>20. CASE ReceiveFaulted
  <2>1. UNCHANGED memory
    BY <1>20 DEF ReceiveFaulted, EnterFault
  <2> QED BY <1>1, <2>1
<1>21. CASE ReceiveOwn
  <2>1. UNCHANGED memory
    BY <1>21 DEF ReceiveOwn
  <2> QED BY <1>1, <2>1
<1>22. CASE ReceiveCopy
  <2>1. UNCHANGED memory
    BY <1>22 DEF ReceiveCopy
  <2> QED BY <1>1, <2>1
<1>23. CASE RecycleKick
  <2>1. UNCHANGED memory
    BY <1>23 DEF RecycleKick
  <2> QED BY <1>1, <2>1
<1>24. CASE LinkState
  <2>1. UNCHANGED memory
    BY <1>24 DEF LinkState
  <2> QED BY <1>1, <2>1
<1>25. CASE HwFetch
  <2>1. UNCHANGED memory
    BY <1>25 DEF HwFetch
  <2> QED BY <1>1, <2>1
<1>26. CASE HwDrop
  <2>1. UNCHANGED memory
    BY <1>26 DEF HwDrop
  <2> QED BY <1>1, <2>1
<1>27. CASE HwLink
  <2>1. UNCHANGED memory
    BY <1>27 DEF HwLink
  <2> QED BY <1>1, <2>1
<1>28. CASE Send
  <2>1. Invalidate(TxDesc(txIndex))
    BY <1>28 DEF Send
  <2> QED BY <1>2, <2>1, OwnLines
<1>29. CASE SendPoll
  <2>1. Invalidate(TxDesc(Current))
    BY <1>29 DEF SendPoll
  <2> QED BY <1>2, <2>1, OwnLines
<1>30. CASE Receive
  <2>1. Invalidate(RxDesc(rxIndex))
    BY <1>30 DEF Receive
  <2> QED BY <1>2, <2>1, OwnLines
<1>31. CASE ReceiveSync
  <2>1. Invalidate(RxBuf(rxIndex))
    BY <1>31 DEF ReceiveSync
  <2> QED BY <1>2, <2>1, OwnLines
<1>32. CASE RecycleSync
  <2>1. Invalidate(RxBuf(rxIndex))
    BY <1>32 DEF RecycleSync
  <2> QED BY <1>2, <2>1, OwnLines
<1>33. CASE SendCopy
  <2>1. Store(TxBuf(txIndex), got)
    BY <1>33 DEF SendCopy
  <2> QED BY <1>3, <2>1, OwnLines
<1>34. CASE SendDesc
  <2>1. Store(TxDesc(txIndex), "dma")
    BY <1>34 DEF SendDesc
  <2> QED BY <1>3, <2>1, OwnLines
<1>35. CASE RecycleDesc
  <2>1. Store(RxDesc(rxIndex), "dma")
    BY <1>35 DEF RecycleDesc
  <2> QED BY <1>3, <2>1, OwnLines
<1>36. CASE SendClean
  <2>1. Clean(TxBuf(txIndex))
    BY <1>36 DEF SendClean
  <2> QED BY <1>4, <2>1, OwnLines
<1>37. CASE SendPublish
  <2>1. Clean(TxDesc(txIndex))
    BY <1>37 DEF SendPublish
  <2> QED BY <1>4, <2>1, OwnLines
<1>38. CASE RecyclePublish
  <2>1. Clean(RxDesc(rxIndex))
    BY <1>38 DEF RecyclePublish
  <2> QED BY <1>4, <2>1, OwnLines
<1>39. CASE HwSent
  <2>1. mem' = [mem EXCEPT ![TxDesc(txCur)] = "cpu"] /\ UNCHANGED <<cache, dirty>>
    BY <1>39 DEF HwSent
  <2> QED BY <1>5, <2>1, OwnLines
<1>40. CASE HwFill
  <2>1. mem' = [mem EXCEPT ![RxBuf(rxCur)] = arrived + 1] /\ UNCHANGED <<cache, dirty>>
    BY <1>40 DEF HwFill
  <2>2. RxBuf(rxCur) \notin Descriptors
    BY DescriptorsAre DEF TypeOK
  <2> QED BY <1>5, <2>1, <2>2, OwnLines
<1>41. CASE HwClose
  <2>1. PICK status \in {"good", "bad"} : mem' = [mem EXCEPT ![RxDesc(rxCur)] = status]
    BY <1>41 DEF HwClose
  <2>2. UNCHANGED <<cache, dirty>>
    BY <1>41 DEF HwClose
  <2> QED BY <1>5, <2>1, <2>2, OwnLines
<1>42. CASE HwBusError
  <2>1. UNCHANGED <<cache, dirty>> /\ (mem' = mem \/ mem' = [mem EXCEPT ![TxDesc(txCur)] = "cpu"])
    BY <1>42 DEF HwBusError
  <2>2. CASE mem' = mem
    BY <1>1, <2>1, <2>2 DEF memory
  <2> QED BY <1>5, <2>1, <2>2, OwnLines
<1>43. CASE UNCHANGED vars
  BY <1>1, <1>43 DEF vars
<1> QED BY <1>w, <1>r, <1>f, <1>6, <1>7, <1>8, <1>9, <1>10, <1>11, <1>12, <1>13, <1>14, <1>15,
         <1>16, <1>17,
         <1>18, <1>19, <1>20, <1>21, <1>22, <1>23, <1>24, <1>25, <1>26, <1>27, <1>28, <1>29,
         <1>30, <1>31, <1>32, <1>33, <1>34, <1>35, <1>36, <1>37, <1>38, <1>39, <1>40, <1>41,
         <1>42, <1>43 DEF Next, Driver, Hardware

LEMMA CacheInit ==
  ASSUME Init
  PROVE  OnlyWritten /\ NotStale
BY DEF Init, OnlyWritten, NotStale

-----------------------------------------------------------------------------
(* Sending. *)

\* The frame of the send in progress is the DMA's to send.
Pending ==
  /\ txCur = Current /\ mem[TxDesc(Current)] = "dma" /\ mem[TxBuf(Current)] = sends
  /\ wire < sends

\* The rings are laid, and the DMA runs or is about to.
Live == rxRun \/ pc = "init_phy"

\* A send whose frame the DMA has; it may have given up waiting for it.
LateSteps == WaitSteps \cup {"send_stop"}

\* Only the last frame handed over is ever under way; before a send has kicked
\* the DMA, and after one has returned, there is none.
Sending ==
  /\ Live => txTail = txIndex
  /\ wire <= sends
  /\ txFetch # 0 => txFetch = sends /\ wire < sends
  /\ pc \in HandSteps => got = sends /\ wire < sends
  /\ Live /\ ~fbe /\ pc \in LateSteps
       => Pending \/ (txCur = txIndex /\ wire = sends /\ txFetch = 0)
  /\ Live /\ ~fbe /\ pc \notin LateSteps => txCur = txIndex /\ txFetch = 0

\* The buffer is in memory before the descriptor, and both before the DMA runs.
Staged ==
  /\ pc = "send_clean" => IF TxBuf(txIndex) \in dirty
                          THEN cache[TxBuf(txIndex)] = got ELSE mem[TxBuf(txIndex)] = got
  /\ pc \in {"send_desc", "send_publish", "send_kick"} => mem[TxBuf(txIndex)] = got
  /\ pc = "send_publish" => IF TxDesc(txIndex) \in dirty
                            THEN cache[TxDesc(txIndex)] = "dma"
                            ELSE mem[TxDesc(txIndex)] = "dma"
  /\ pc = "send_kick" => mem[TxDesc(txIndex)] = "dma"

LEMMA AfterBefore ==
  ASSUME NEW i \in Ring
  PROVE  After(Before(i)) = i /\ Before(After(i)) = i /\ Before(i) # i
<1>1. Before(i) \in Ring /\ After(i) \in Ring
  BY AfterIs, BeforeIs
<1>2. /\ Before(i) = IF i = 0 THEN Count - 1 ELSE i - 1
      /\ After(i) = IF i = Count - 1 THEN 0 ELSE i + 1
      /\ After(Before(i)) = IF Before(i) = Count - 1 THEN 0 ELSE Before(i) + 1
      /\ Before(After(i)) = IF After(i) = 0 THEN Count - 1 ELSE After(i) - 1
  BY <1>1, AfterIs, BeforeIs
<1> QED BY <1>1, <1>2, CountIs DEF Ring

LEMMA CurrentStays ==
  ASSUME UNCHANGED txIndex
  PROVE  Current' = Current
BY DEF Current

\* While a send prepares its frame the DMA has nothing to do.
LEMMA QuietWhileStaging ==
  ASSUME TypeOK, Control, Sending, pc \in HandSteps
  PROVE  ~TxReady /\ (txFetch = 0 \/ fbe)
BY DEF TypeOK, Control, Sending, TxReady, Live, LateSteps, HandSteps, WaitSteps, StopSteps

LEMMA NothingWritten ==
  ASSUME OnlyWritten, pc \notin {"send_clean", "send_publish", "recycle_publish"}
  PROVE  dirty = {}
BY DEF OnlyWritten, Written

\* Outside a store, what is loaded from a descriptor that is not the DMA's is so
\* in memory too.
LEMMA LookIsTrue ==
  ASSUME TypeOK, OnlyWritten, NotStale, NEW l \in {TxDesc(Current), RxDesc(rxIndex)},
         pc \notin {"send_clean", "send_publish", "recycle_publish"}, Load(l) # "dma"
  PROVE  mem[l] # "dma"
<1>1. l \in Descriptors
  BY CurrentIs, DescriptorsAre DEF TypeOK
<1>2. dirty = {}
  BY NothingWritten
<1> QED BY <1>1, <1>2 DEF Load, NotStale

LEMMA SendingStep ==
  ASSUME TypeOK, Control, OnlyWritten, NotStale, Sending, Staged, [Next]_vars
  PROVE  Sending'
<1> USE DEF TypeOK, Control, Sending, Live, LateSteps, Stopping, Steps, StopSteps, HandSteps,
         WaitSteps, TakeSteps
<1>1. CASE InitReset
  <2>1. UNCHANGED mem
    BY <1>1 DEF InitReset, memory
  <2> QED BY <1>1, <2>1, CurrentStays DEF InitReset, Return, Advance, Goto, EnterFault, NoReturn,
           driver, dma, hist, Pending
<1>2. CASE InitNoPhy
  <2>1. UNCHANGED mem
    BY <1>2 DEF InitNoPhy, memory
  <2> QED BY <1>2, <2>1, CurrentStays DEF InitNoPhy, Return, Advance, Goto, EnterFault, NoReturn,
           driver, dma, hist, Pending
<1>w. CASE InitWithdraw
  <2>1. UNCHANGED mem
    BY <1>w DEF InitWithdraw, memory
  <2> QED BY <1>w, <2>1, CurrentStays DEF InitWithdraw, Return, Advance, Goto, EnterFault, NoReturn,
           driver, dma, hist, Pending
<1>r. CASE InitReady
  <2>1. UNCHANGED mem
    BY <1>r DEF InitReady, memory
  <2> QED BY <1>r, <2>1, CurrentStays DEF InitReady, Return, Advance, Goto, EnterFault, NoReturn,
           driver, dma, hist, Pending
<1>f. CASE FaultStop
  <2>1. UNCHANGED mem
    BY <1>f DEF FaultStop, memory
  <2> QED BY <1>f, <2>1, CurrentStays DEF FaultStop, Return, Advance, Goto, EnterFault, NoReturn,
           driver, dma, hist, Pending
<1>3. CASE InitStart
  <2>1. UNCHANGED mem
    BY <1>3 DEF InitStart, memory
  <2> QED BY <1>3, <2>1, CurrentStays DEF InitStart, Return, Advance, Goto, EnterFault, NoReturn,
           driver, dma, hist, Pending
<1>4. CASE SendRefused
  <2>1. UNCHANGED mem
    BY <1>4 DEF SendRefused, memory
  <2> QED BY <1>4, <2>1, CurrentStays DEF SendRefused, Return, Advance, Goto, EnterFault,
      NoReturn,
           driver, dma, hist, Pending
<1>5. CASE SendFaulted
  <2>1. UNCHANGED mem
    BY <1>5 DEF SendFaulted, EnterFault, memory
  <2> QED BY <1>5, <2>1, CurrentStays DEF SendFaulted, Return, Advance, Goto, EnterFault,
      NoReturn,
           driver, dma, hist, Pending
<1>6. CASE SendOwn
  <2>1. UNCHANGED mem
    BY <1>6 DEF SendOwn, memory
  <2> QED BY <1>6, <2>1, CurrentStays DEF SendOwn, Return, Advance, Goto, EnterFault, NoReturn,
           driver, dma, hist, Pending
<1>7. CASE SendGiveUp
  <2>1. UNCHANGED mem
    BY <1>7 DEF SendGiveUp, EnterFault, memory
  <2> QED BY <1>7, <2>1, CurrentStays DEF SendGiveUp, Return, Advance, Goto, EnterFault, NoReturn,
           driver, dma, hist, Pending
<1>8. CASE ReceiveRefused
  <2>1. UNCHANGED mem
    BY <1>8 DEF ReceiveRefused, memory
  <2> QED BY <1>8, <2>1, CurrentStays DEF ReceiveRefused, Return, Advance, Goto, EnterFault,
      NoReturn,
           driver, dma, hist, Pending
<1>9. CASE ReceiveFaulted
  <2>1. UNCHANGED mem
    BY <1>9 DEF ReceiveFaulted, EnterFault, memory
  <2> QED BY <1>9, <2>1, CurrentStays DEF ReceiveFaulted, Return, Advance, Goto, EnterFault,
      NoReturn,
           driver, dma, hist, Pending
<1>10. CASE ReceiveOwn
  <2>1. UNCHANGED mem
    BY <1>10 DEF ReceiveOwn, memory
  <2> QED BY <1>10, <2>1, CurrentStays DEF ReceiveOwn, Return, Advance, Goto, EnterFault,
      NoReturn,
           driver, dma, hist, Pending
<1>11. CASE ReceiveCopy
  <2>1. UNCHANGED mem
    BY <1>11 DEF ReceiveCopy, memory
  <2> QED BY <1>11, <2>1, CurrentStays DEF ReceiveCopy, Return, Advance, Goto, EnterFault,
      NoReturn,
           driver, dma, hist, Pending
<1>12. CASE RecycleKick
  <2>1. UNCHANGED mem
    BY <1>12 DEF RecycleKick, memory
  <2> QED BY <1>12, <2>1, CurrentStays DEF RecycleKick, Return, Advance, Goto, EnterFault,
      NoReturn,
           driver, dma, hist, Pending
<1>13. CASE LinkState
  <2>1. UNCHANGED mem
    BY <1>13 DEF LinkState, memory
  <2> QED BY <1>13, <2>1, CurrentStays DEF LinkState, Return, Advance, Goto, EnterFault, NoReturn,
           driver, dma, hist, Pending
<1>14. CASE HwDrop
  <2>1. UNCHANGED mem
    BY <1>14 DEF HwDrop, memory
  <2> QED BY <1>14, <2>1, CurrentStays DEF HwDrop, Return, Advance, Goto, EnterFault, NoReturn,
           driver, dma, hist, Pending
<1>15. CASE HwLink
  <2>1. UNCHANGED mem
    BY <1>15 DEF HwLink, memory
  <2> QED BY <1>15, <2>1, CurrentStays DEF HwLink, Return, Advance, Goto, EnterFault, NoReturn,
           driver, dma, hist, Pending
<1>16. CASE SendCheck
  <2>1. UNCHANGED <<mem, txIndex>> /\ Current' = Current
    BY <1>16, CurrentStays DEF SendCheck, EnterFault, memory
  <2> QED BY <1>16, <2>1 DEF SendCheck, Return, Advance, Goto, EnterFault, dma, hist, Pending
<1>17. CASE SendKick
  <2>1. Current' = txIndex
    <3>1. txIndex' = After(txIndex) /\ txIndex' \in Ring
      BY <1>17, AfterIs DEF SendKick
    <3>2. Current' = Before(txIndex')
      BY DEF Current, Before
    <3> QED BY <3>1, <3>2, AfterBefore
  <2>2. mem[TxBuf(txIndex)] = sends /\ mem[TxDesc(txIndex)] = "dma" /\ wire < sends
    BY <1>17 DEF SendKick, Staged
  <2>3. UNCHANGED <<mem, sends, wire, txFetch, fbe, rxRun, txCur>> /\ pc' = "send_poll"
    BY <1>17 DEF SendKick, memory, hist, Advance, Goto
  <2>4. txTail' = txIndex'
    BY <1>17 DEF SendKick
  <2>5. rxRun /\ ~fbe => txCur = txIndex
    BY <1>17 DEF SendKick
  <2>6. rxRun' /\ ~fbe' => Pending'
    BY <2>1, <2>2, <2>3, <2>5 DEF Pending
  <2>7. pc' \in WaitSteps /\ pc' \notin HandSteps /\ pc' # "init_phy"
    BY <2>3
  <2> QED BY <2>3, <2>4, <2>6, <2>7
<1>18. CASE SendLook
  <2>1. UNCHANGED <<mem, txIndex, sends, wire, txFetch, txCur, txTail, fbe, rxRun>>
    BY <1>18 DEF SendLook, memory, dma, hist
  <2>2. Current' = Current
    BY <2>1, CurrentStays
  <2>3. CASE Load(TxDesc(Current)) = "dma"
    BY <1>18, <2>1, <2>2, <2>3 DEF SendLook, Advance, Goto, Pending
  <2>4. CASE Load(TxDesc(Current)) # "dma"
    <3>1. mem[TxDesc(Current)] # "dma"
      BY <1>18, <2>4, LookIsTrue DEF SendLook
    <3>2. ~fbe => txCur = txIndex /\ wire = sends /\ txFetch = 0
      BY <1>18, <3>1 DEF SendLook, Pending
    <3> QED BY <1>18, <2>1, <2>4, <3>2 DEF SendLook, Return
  <2> QED BY <2>3, <2>4
<1>19. CASE HwFetch
  <2>1. TxReady /\ txFetch' = mem[TxBuf(txCur)] /\ UNCHANGED mem
    BY <1>19 DEF HwFetch, memory
  <2>2. UNCHANGED <<txIndex, sends, wire, txCur, txTail, fbe, rxRun, pc, got>>
    BY <1>19 DEF HwFetch, hist
  <2>3. Live /\ ~fbe /\ txCur # txIndex /\ pc \in LateSteps
    BY <2>1 DEF TxReady
  <2>4. Pending
    BY <2>3
  <2>5. txFetch' = sends /\ wire < sends
    BY <2>1, <2>4 DEF Pending
  <2>6. Current' = Current
    BY <2>2, CurrentStays
  <2>7. Pending'
    BY <2>1, <2>2, <2>4, <2>6 DEF Pending
  <2> QED BY <2>2, <2>3, <2>5, <2>7
<1>20. CASE HwSent
  <2>1. txFetch # 0 /\ ~fbe /\ wire' = txFetch /\ txFetch' = 0 /\ txCur' = After(txCur)
    BY <1>20 DEF HwSent
  <2>2. UNCHANGED <<txIndex, sends, txTail, fbe, rxRun, pc, got>>
    BY <1>20 DEF HwSent
  <2>3. wire' = sends
    BY <2>1
  <2>4. pc \notin HandSteps /\ pc # "init_phy"
    BY <2>1
  <2>5. CASE rxRun
    <3>1. pc \in LateSteps /\ Pending
      BY <2>1, <2>5
    <3>2. txCur' = txIndex
      <4>1. txCur = Before(txIndex)
        BY <3>1, CurrentIs DEF Pending
      <4> QED BY <2>1, <4>1, AfterBefore
    <3> QED BY <2>1, <2>2, <2>3, <2>4, <3>1, <3>2
  <2>6. CASE ~rxRun
    BY <2>1, <2>2, <2>3, <2>4, <2>6
  <2> QED BY <2>5, <2>6
<1>21. CASE HwFill
  <2>1. mem'[TxDesc(Current)] = mem[TxDesc(Current)] /\ mem'[TxBuf(Current)] = mem[TxBuf(Current)]
    <3>1. Current \in Ring /\ rxCur \in Ring
      BY CurrentIs
    <3>2. \A k \in Line : k # RxBuf(rxCur) => mem'[k] = mem[k]
      BY <1>21, DmaWrites, OwnLines DEF HwFill
    <3> QED BY <3>1, <3>2, LinesHold, LinesDiffer
  <2>2. UNCHANGED <<txIndex, sends, wire, txFetch, txCur, txTail, fbe, rxRun, pc, got>>
    BY <1>21 DEF HwFill, hist
  <2>3. Current' = Current
    BY <2>2, CurrentStays
  <2>4. Pending => Pending'
    BY <2>1, <2>2, <2>3 DEF Pending
  <2> QED BY <2>2, <2>4
<1>22. CASE HwClose
  <2>1. mem'[TxDesc(Current)] = mem[TxDesc(Current)] /\ mem'[TxBuf(Current)] = mem[TxBuf(Current)]
    <3>1. Current \in Ring /\ rxCur \in Ring
      BY CurrentIs
    <3>2. \A k \in Line : k # RxDesc(rxCur) => mem'[k] = mem[k]
      BY <1>22, DmaWrites, OwnLines DEF HwClose
    <3> QED BY <3>1, <3>2, LinesHold, LinesDiffer
  <2>2. UNCHANGED <<txIndex, sends, wire, txFetch, txCur, txTail, fbe, rxRun, pc, got>>
    BY <1>22 DEF HwClose, hist
  <2>3. Current' = Current
    BY <2>2, CurrentStays
  <2>4. Pending => Pending'
    BY <2>1, <2>2, <2>3 DEF Pending
  <2> QED BY <2>2, <2>4
<1>23. CASE HwBusError
  BY <1>23 DEF HwBusError, hist
<1>24. CASE Send
  BY <1>24 DEF Send, Goto, dma
<1>25. CASE SendPoll
  <2>1. UNCHANGED <<mem, txIndex, sends, wire, txFetch, txCur, txTail, fbe, rxRun>>
    BY <1>25 DEF SendPoll, Invalidate, dma, hist
  <2>2. Current' = Current
    BY <2>1, CurrentStays
  <2> QED BY <1>25, <2>1, <2>2 DEF SendPoll, Advance, Goto, Pending
<1>26. CASE Receive
  BY <1>26 DEF Receive, Advance, Goto, dma, hist
<1>27. CASE ReceiveSync
  BY <1>27 DEF ReceiveSync, Advance, Goto, dma, hist
<1>28. CASE RecycleSync
  BY <1>28 DEF RecycleSync, Advance, Goto, dma, hist
<1>29. CASE SendCopy
  BY <1>29 DEF SendCopy, Advance, Goto, dma, hist
<1>30. CASE SendDesc
  BY <1>30 DEF SendDesc, Advance, Goto, dma, hist
<1>31. CASE RecycleDesc
  BY <1>31 DEF RecycleDesc, Advance, Goto, dma, hist
<1>32. CASE SendClean
  BY <1>32 DEF SendClean, Advance, Goto, dma, hist
<1>33. CASE SendPublish
  BY <1>33 DEF SendPublish, Advance, Goto, dma, hist
<1>34. CASE RecyclePublish
  BY <1>34 DEF RecyclePublish, Advance, Goto, dma, hist
<1>35. CASE InitRings
  BY <1>35 DEF InitRings, Advance, Goto, hist
<1>36. ASSUME NEW l \in Line, Prefetch(l) \/ Evict(l) PROVE Sending'
  <2>1. UNCHANGED <<txIndex, sends, wire, txFetch, txCur, txTail, fbe, rxRun, pc, got>>
    BY <1>36 DEF Prefetch, Evict, driver, dma, hist
  <2>2. Current' = Current
    BY <2>1, CurrentStays
  <2>3. pc \in LateSteps => mem' = mem
    BY <1>36, NothingWritten DEF Prefetch, Evict
  <2>4. pc \in LateSteps /\ Pending => Pending'
    BY <2>1, <2>2, <2>3 DEF Pending
  <2> QED BY <2>1, <2>4
<1>37. CASE UNCHANGED vars
  <2>1. UNCHANGED <<mem, txIndex>> /\ Current' = Current
    BY <1>37, CurrentStays DEF vars, driver, memory
  <2> QED BY <1>37, <2>1 DEF vars, driver, dma, hist, Pending
<1> QED BY <1>w, <1>r, <1>f, <1>1, <1>2, <1>3, <1>4, <1>5, <1>6, <1>7, <1>8, <1>9, <1>10, <1>11,
         <1>12, <1>13,
         <1>14, <1>15, <1>16, <1>17, <1>18, <1>19, <1>20, <1>21, <1>22, <1>23, <1>24, <1>25,
         <1>26, <1>27, <1>28, <1>29, <1>30, <1>31, <1>32, <1>33, <1>34, <1>35, <1>36, <1>37
         DEF Next, Driver, Hardware

LEMMA StagedStep ==
  ASSUME TypeOK, Control, OnlyWritten, Sending, Staged, [Next]_vars
  PROVE  Staged'
<1> DEFINE Buf == TxBuf(txIndex)
           Desc == TxDesc(txIndex)
<1> Buf \in Line /\ Desc \in Line /\ Buf # Desc /\ MemoryOK
  BY LinesHold, LinesDiffer DEF TypeOK
<1> HIDE DEF Buf, Desc
<1>1. CASE SendCopy
  <2>1. Store(Buf, got)
    BY <1>1 DEF SendCopy, Buf
  <2>2. dirty' = dirty \cup {Buf} /\ cache'[Buf] = got
    BY <2>1, OwnLines, Stores DEF Buf
  <2>3. pc' = "send_clean" /\ UNCHANGED <<txIndex, got>>
    BY <1>1 DEF SendCopy, Advance, Goto
  <2> QED BY <2>2, <2>3 DEF Staged, Buf
<1>2. CASE SendClean
  <2>1. Clean(Buf)
    BY <1>2 DEF SendClean, Buf
  <2>2. mem'[Buf] = IF Buf \in dirty THEN cache[Buf] ELSE mem[Buf]
    BY <2>1, Cleans
  <2>3. pc = "send_clean" /\ pc' = "send_desc" /\ UNCHANGED <<txIndex, got>>
    BY <1>2 DEF SendClean, Advance, Goto
  <2> QED BY <2>2, <2>3 DEF Staged, Buf
<1>3. CASE SendDesc
  <2>1. Store(Desc, "dma")
    BY <1>3 DEF SendDesc, Desc
  <2>2. mem' = mem /\ dirty' = dirty \cup {Desc} /\ cache'[Desc] = "dma"
    BY <2>1, OwnLines, Stores DEF Desc
  <2>3. pc = "send_desc" /\ pc' = "send_publish" /\ UNCHANGED <<txIndex, got>>
    BY <1>3 DEF SendDesc, Advance, Goto
  <2> QED BY <2>2, <2>3 DEF Staged, Desc
<1>4. CASE SendPublish
  <2>1. Clean(Desc)
    BY <1>4 DEF SendPublish, Desc
  <2>2. /\ mem'[Desc] = IF Desc \in dirty THEN cache[Desc] ELSE mem[Desc]
        /\ mem'[Buf] = mem[Buf]
    BY <2>1, Cleans
  <2>3. pc = "send_publish" /\ pc' = "send_kick" /\ UNCHANGED <<txIndex, got>>
    BY <1>4 DEF SendPublish, Advance, Goto
  <2> QED BY <2>2, <2>3 DEF Staged, Buf, Desc
<1>5. ASSUME Driver, ~SendCopy, ~SendClean, ~SendDesc, ~SendPublish
      PROVE  pc' \notin {"send_clean", "send_desc", "send_publish", "send_kick"}
  <2>1. CASE InitReset
    BY <2>1 DEF InitReset, Return, Advance, Goto, EnterFault
  <2>2. CASE InitNoPhy
    BY <2>2 DEF InitNoPhy, Return, Advance, Goto, EnterFault
  <2>w. CASE InitWithdraw
    BY <2>w DEF InitWithdraw, Return, Advance, Goto, EnterFault
  <2>r. CASE InitReady
    BY <2>r DEF InitReady, Return, Advance, Goto, EnterFault
  <2>f. CASE FaultStop
    BY <2>f DEF FaultStop, Return, Advance, Goto, EnterFault
  <2>3. CASE InitStart
    BY <2>3 DEF InitStart, Return, Advance, Goto, EnterFault
  <2>4. CASE SendRefused
    BY <2>4 DEF SendRefused, Return, Advance, Goto, EnterFault
  <2>5. CASE SendFaulted
    BY <2>5 DEF SendFaulted, Return, Advance, Goto, EnterFault
  <2>6. CASE SendOwn
    BY <2>6 DEF SendOwn, Return, Advance, Goto, EnterFault
  <2>7. CASE SendKick
    BY <2>7 DEF SendKick, Return, Advance, Goto, EnterFault
  <2>8. CASE SendCheck
    BY <2>8 DEF SendCheck, Return, Advance, Goto, EnterFault
  <2>9. CASE SendLook
    BY <2>9 DEF SendLook, Return, Advance, Goto, EnterFault
  <2>10. CASE SendGiveUp
    BY <2>10 DEF SendGiveUp, Return, Advance, Goto, EnterFault
  <2>11. CASE ReceiveRefused
    BY <2>11 DEF ReceiveRefused, Return, Advance, Goto, EnterFault
  <2>12. CASE ReceiveFaulted
    BY <2>12 DEF ReceiveFaulted, Return, Advance, Goto, EnterFault
  <2>13. CASE ReceiveOwn
    BY <2>13 DEF ReceiveOwn, Return, Advance, Goto, EnterFault
  <2>14. CASE ReceiveCopy
    BY <2>14 DEF ReceiveCopy, Return, Advance, Goto, EnterFault
  <2>15. CASE RecycleKick
    BY <2>15 DEF RecycleKick, Return, Advance, Goto, EnterFault
  <2>16. CASE LinkState
    BY <2>16 DEF LinkState, Return, Advance, Goto, EnterFault
  <2>17. CASE Send
    BY <2>17 DEF Send, Return, Advance, Goto, EnterFault
  <2>18. CASE SendPoll
    BY <2>18 DEF SendPoll, Return, Advance, Goto, EnterFault
  <2>19. CASE Receive
    BY <2>19 DEF Receive, Return, Advance, Goto, EnterFault
  <2>20. CASE ReceiveSync
    BY <2>20 DEF ReceiveSync, Return, Advance, Goto, EnterFault
  <2>21. CASE RecycleSync
    BY <2>21 DEF RecycleSync, Return, Advance, Goto, EnterFault
  <2>22. CASE RecycleDesc
    BY <2>22 DEF RecycleDesc, Return, Advance, Goto, EnterFault
  <2>23. CASE RecyclePublish
    BY <2>23 DEF RecyclePublish, Return, Advance, Goto, EnterFault
  <2>24. CASE InitRings
    BY <2>24 DEF InitRings, Return, Advance, Goto, EnterFault
  <2> QED BY <2>w, <2>r, <2>f, <1>5, <2>1, <2>2, <2>3, <2>4, <2>5, <2>6, <2>7, <2>8, <2>9, <2>10,
         <2>11,
           <2>12, <2>13, <2>14, <2>15, <2>16, <2>17, <2>18, <2>19, <2>20, <2>21, <2>22,
           <2>23, <2>24 DEF Driver
<1>6. CASE pc' \notin {"send_clean", "send_desc", "send_publish", "send_kick"}
  BY <1>6 DEF Staged
<1>7. ASSUME UNCHANGED <<pc, txIndex, got, cache, dirty>>,
             pc \in HandSteps => mem'[Buf] = mem[Buf] /\ mem'[Desc] = mem[Desc]
      PROVE  Staged'
  BY <1>7 DEF Staged, HandSteps, Buf, Desc
<1>8. CASE HwFetch
  BY <1>8, <1>7 DEF HwFetch, memory
<1>9. CASE HwDrop
  BY <1>9, <1>7 DEF HwDrop, memory
<1>10. CASE HwLink
  BY <1>10, <1>7 DEF HwLink, memory
<1>11. CASE HwSent
  <2>1. UNCHANGED <<pc, txIndex, got, cache, dirty>> /\ pc \notin HandSteps
    BY <1>11, QuietWhileStaging DEF HwSent
  <2> QED BY <2>1, <1>7
<1>12. CASE HwFill
  <2>1. UNCHANGED <<pc, txIndex, got, cache, dirty>>
    BY <1>12 DEF HwFill
  <2>2. \A k \in Line : k # RxBuf(rxCur) => mem'[k] = mem[k]
    BY <1>12, DmaWrites, OwnLines DEF HwFill
  <2>3. Buf # RxBuf(rxCur) /\ Desc # RxBuf(rxCur)
    BY LinesDiffer DEF TypeOK, Buf, Desc
  <2> QED BY <2>1, <2>2, <2>3, <1>7
<1>13. CASE HwClose
  <2>1. UNCHANGED <<pc, txIndex, got, cache, dirty>>
    BY <1>13 DEF HwClose
  <2>2. \A k \in Line : k # RxDesc(rxCur) => mem'[k] = mem[k]
    BY <1>13, DmaWrites, OwnLines DEF HwClose
  <2>3. Buf # RxDesc(rxCur) /\ Desc # RxDesc(rxCur)
    BY LinesDiffer DEF TypeOK, Buf, Desc
  <2> QED BY <2>1, <2>2, <2>3, <1>7
<1>14. CASE HwBusError
  <2>1. UNCHANGED <<pc, txIndex, got, cache, dirty>> /\ (pc \in HandSteps => mem' = mem)
    BY <1>14, QuietWhileStaging DEF HwBusError
  <2> QED BY <2>1, <1>7
<1>15. ASSUME NEW l \in Line, Prefetch(l) PROVE Staged'
  <2>1. /\ mem' = mem /\ dirty' = dirty
        /\ \A k \in DOMAIN cache : cache'[k] = cache[k]
    BY <1>15, Prefetches
  <2>2. UNCHANGED <<pc, txIndex, got>>
    BY <1>15 DEF Prefetch, driver
  <2>3. dirty \subseteq DOMAIN cache
    BY DEF MemoryOK
  <2> QED BY <2>1, <2>2, <2>3 DEF Staged
<1>16. ASSUME NEW l \in Line, Evict(l) PROVE Staged'
  <2>1. /\ dirty' = dirty \ {l} /\ DOMAIN cache' = DOMAIN cache \ {l}
        /\ \A k \in DOMAIN cache' : cache'[k] = cache[k]
        /\ mem'[l] = IF l \in dirty THEN cache[l] ELSE mem[l]
        /\ \A k \in Line : k # l => mem'[k] = mem[k]
    BY <1>16, Evicts
  <2>2. UNCHANGED <<pc, txIndex, got>>
    BY <1>16 DEF Evict, driver
  <2>3. dirty \subseteq DOMAIN cache
    BY DEF MemoryOK
  <2>4. CASE l = Buf
    <3>1. /\ mem'[Buf] = IF Buf \in dirty THEN cache[Buf] ELSE mem[Buf]
          /\ mem'[Desc] = mem[Desc] /\ Buf \notin dirty' /\ (Desc \in dirty' <=> Desc \in dirty)
          /\ (Desc \in dirty => cache'[Desc] = cache[Desc])
      BY <2>1, <2>3, <2>4
    <3>2. pc \in {"send_desc", "send_publish", "send_kick"} => Buf \notin dirty
      BY DEF OnlyWritten, Written, Buf, Desc
    <3> QED BY <3>1, <3>2, <2>2 DEF Staged, Buf, Desc
  <2>5. CASE l = Desc
    <3>1. /\ mem'[Desc] = IF Desc \in dirty THEN cache[Desc] ELSE mem[Desc]
          /\ mem'[Buf] = mem[Buf] /\ Desc \notin dirty' /\ (Buf \in dirty' <=> Buf \in dirty)
          /\ (Buf \in dirty => cache'[Buf] = cache[Buf])
      BY <2>1, <2>3, <2>5
    <3>2. pc = "send_kick" => Desc \notin dirty
      BY DEF OnlyWritten, Written, Buf, Desc
    <3> QED BY <3>1, <3>2, <2>2 DEF Staged, Buf, Desc
  <2>6. CASE l # Buf /\ l # Desc
    <3>1. /\ mem'[Desc] = mem[Desc] /\ mem'[Buf] = mem[Buf]
          /\ (Desc \in dirty' <=> Desc \in dirty) /\ (Buf \in dirty' <=> Buf \in dirty)
          /\ (Buf \in dirty => cache'[Buf] = cache[Buf])
          /\ (Desc \in dirty => cache'[Desc] = cache[Desc])
      BY <2>1, <2>3, <2>6
    <3> QED BY <3>1, <2>2 DEF Staged, Buf, Desc
  <2> QED BY <2>4, <2>5, <2>6
<1>17. CASE UNCHANGED vars
  BY <1>17, <1>7 DEF vars, driver, memory
<1> QED BY <1>1, <1>2, <1>3, <1>4, <1>5, <1>6, <1>7, <1>8, <1>9, <1>10, <1>11, <1>12, <1>13,
         <1>14, <1>15, <1>16, <1>17 DEF Next, Hardware

\* What holds of the sending side.
TxInv == TypeOK /\ Control /\ OnlyWritten /\ NotStale /\ Sending /\ Staged

LEMMA TxInit ==
  ASSUME Init
  PROVE  TxInv
<1>1. Sending /\ Staged
  BY DEF Init, Sending, Staged, HandSteps, WaitSteps
<1> QED BY <1>1, TypeInit, ControlInit, CacheInit DEF TxInv

LEMMA TxStep ==
  ASSUME TxInv, [Next]_vars
  PROVE  TxInv'
BY TypeStep, ControlStep, WrittenStep, NotStaleStep, SendingStep, StagedStep DEF TxInv

LEMMA SendOkStep ==
  ASSUME TxInv, SendOkIsSent, [Next]_vars
  PROVE  SendOkIsSent'
<1> USE DEF SendOkIsSent
<1>1. CASE SendLook
  <2>1. UNCHANGED <<wire, sends, fbe>> /\ pc = "send_look"
    BY <1>1 DEF SendLook, dma, hist
  <2>2. CASE Load(TxDesc(Current)) = "dma"
    BY <1>1, <2>2 DEF SendLook, Advance, Goto, NoReturn
  <2>3. CASE Load(TxDesc(Current)) # "dma"
    <3>1. mem[TxDesc(Current)] # "dma"
      BY <2>1, <2>3, LookIsTrue DEF TxInv
    <3>2. Live
      BY <2>1 DEF TxInv, Control, Live, StopSteps
    <3>3. wire = sends \/ fbe
      BY <2>1, <3>1, <3>2 DEF TxInv, Sending, Pending, LateSteps, WaitSteps
    <3> QED BY <2>1, <3>3
  <2> QED BY <2>2, <2>3
<1>2. CASE InitReset
  BY <1>2 DEF InitReset, Return, Advance, Goto, EnterFault, NoReturn
<1>3. CASE InitNoPhy
  BY <1>3 DEF InitNoPhy, Return, Advance, Goto, EnterFault, NoReturn
<1>w. CASE InitWithdraw
  BY <1>w DEF InitWithdraw, Return, Advance, Goto, EnterFault, NoReturn
<1>r. CASE InitReady
  BY <1>r DEF InitReady, Return, Advance, Goto, EnterFault, NoReturn
<1>f. CASE FaultStop
  <2>1. outcome # "OK" /\ ret'.result = outcome
    BY <1>f DEF FaultStop, Return, TxInv, Control
  <2> QED BY <2>1
<1>4. CASE InitStart
  BY <1>4 DEF InitStart, Return, Advance, Goto, EnterFault, NoReturn
<1>5. CASE SendRefused
  <2>1. "DOWN" # "UP" /\ LinkAnswers \ {"UP"} \subseteq {"DOWN", "TIMEOUT", "IO"}
    BY DEF LinkAnswers
  <2>2. \E result \in {"NOT_READY", "TIMEOUT", "IO"} : ret' = [op |-> "send", result |-> result]
    BY <1>5, <2>1 DEF SendRefused, Return
  <2> QED BY <2>2
<1>6. CASE SendFaulted
  BY <1>6 DEF SendFaulted, Return, Advance, Goto, EnterFault, NoReturn
<1>7. CASE SendOwn
  BY <1>7 DEF SendOwn, Return, Advance, Goto, EnterFault, NoReturn
<1>8. CASE SendKick
  BY <1>8 DEF SendKick, Return, Advance, Goto, EnterFault, NoReturn
<1>9. CASE SendCheck
  BY <1>9 DEF SendCheck, Return, Advance, Goto, EnterFault, NoReturn
<1>10. CASE SendGiveUp
  BY <1>10 DEF SendGiveUp, Return, Advance, Goto, EnterFault, NoReturn
<1>11. CASE ReceiveRefused
  BY <1>11 DEF ReceiveRefused, Return, Advance, Goto, EnterFault, NoReturn
<1>12. CASE ReceiveFaulted
  BY <1>12 DEF ReceiveFaulted, Return, Advance, Goto, EnterFault, NoReturn
<1>13. CASE ReceiveOwn
  BY <1>13 DEF ReceiveOwn, Return, Advance, Goto, EnterFault, NoReturn
<1>14. CASE ReceiveCopy
  BY <1>14 DEF ReceiveCopy, Return, Advance, Goto, EnterFault, NoReturn
<1>15. CASE RecycleKick
  BY <1>15 DEF RecycleKick, Return, Advance, Goto, EnterFault, NoReturn
<1>16. CASE LinkState
  BY <1>16 DEF LinkState, LinkAnswers, Return, Advance, Goto, EnterFault, NoReturn
<1>17. CASE HwFetch
  BY <1>17 DEF HwFetch, NoReturn
<1>18. CASE HwDrop
  BY <1>18 DEF HwDrop, NoReturn
<1>19. CASE HwLink
  BY <1>19 DEF HwLink, NoReturn
<1>20. CASE Send
  BY <1>20 DEF Send, Return, Advance, Goto, EnterFault, NoReturn
<1>21. CASE SendPoll
  BY <1>21 DEF SendPoll, Return, Advance, Goto, EnterFault, NoReturn
<1>22. CASE Receive
  BY <1>22 DEF Receive, Return, Advance, Goto, EnterFault, NoReturn
<1>23. CASE ReceiveSync
  BY <1>23 DEF ReceiveSync, Return, Advance, Goto, EnterFault, NoReturn
<1>24. CASE RecycleSync
  BY <1>24 DEF RecycleSync, Return, Advance, Goto, EnterFault, NoReturn
<1>25. CASE SendCopy
  BY <1>25 DEF SendCopy, Return, Advance, Goto, EnterFault, NoReturn
<1>26. CASE SendDesc
  BY <1>26 DEF SendDesc, Return, Advance, Goto, EnterFault, NoReturn
<1>27. CASE RecycleDesc
  BY <1>27 DEF RecycleDesc, Return, Advance, Goto, EnterFault, NoReturn
<1>28. CASE SendClean
  BY <1>28 DEF SendClean, Return, Advance, Goto, EnterFault, NoReturn
<1>29. CASE SendPublish
  BY <1>29 DEF SendPublish, Return, Advance, Goto, EnterFault, NoReturn
<1>30. CASE RecyclePublish
  BY <1>30 DEF RecyclePublish, Return, Advance, Goto, EnterFault, NoReturn
<1>31. CASE HwSent
  BY <1>31 DEF HwSent, NoReturn
<1>32. CASE HwFill
  BY <1>32 DEF HwFill, NoReturn
<1>33. CASE HwClose
  BY <1>33 DEF HwClose, NoReturn
<1>34. CASE HwBusError
  BY <1>34 DEF HwBusError, NoReturn
<1>35. CASE InitRings
  BY <1>35 DEF InitRings, Return, Advance, Goto, EnterFault, NoReturn
<1>36. ASSUME NEW l \in Line, Prefetch(l) \/ Evict(l) PROVE UNCHANGED <<driver, dma, hist>>
  BY <1>36 DEF Prefetch, Evict
<1>37. CASE UNCHANGED <<driver, dma, hist>>
  BY <1>37 DEF driver, dma, hist
<1> QED BY <1>w, <1>r, <1>f, <1>1, <1>2, <1>3, <1>4, <1>5, <1>6, <1>7, <1>8, <1>9, <1>10, <1>11,
         <1>12, <1>13,
         <1>14, <1>15, <1>16, <1>17, <1>18, <1>19, <1>20, <1>21, <1>22, <1>23, <1>24, <1>25,
         <1>26, <1>27, <1>28, <1>29, <1>30, <1>31, <1>32, <1>33, <1>34, <1>35, <1>36, <1>37
         DEF Next, Driver, Hardware, vars

\* A send that returns OK has put its frame on the wire, or a bus error has
\* occurred that the next call reports: das_eth_send's poll of OWN, through a
\* cache that may hold any old copy of the descriptor.
THEOREM OkIsSent == Spec => []SendOkIsSent
<1>1. Init => TxInv /\ SendOkIsSent
  <2>1. Init => SendOkIsSent
    BY DEF Init, SendOkIsSent, NoReturn
  <2> QED BY <2>1, TxInit
<1>2. TxInv /\ SendOkIsSent /\ [Next]_vars => (TxInv /\ SendOkIsSent)'
  BY TxStep, SendOkStep
<1> QED BY <1>1, <1>2, PTL DEF Spec

\* Frames reach the wire in the order they were handed to das_eth_send, each at
\* most once and as it was handed over: whenever the DMA puts a frame on the
\* wire, it is a later one than any before.  Timeouts, faults and a new
\* das_eth_init lose frames and never repeat or mix them.
THEOREM FramesLeaveInOrder == Spec => WireInOrder
<1>1. TxInv /\ HwSent => wire' > wire
  BY DEF HwSent, TxInv, TypeOK, Sending
<1>2. TxInv /\ [Next]_vars => [HwSent => wire' > wire]_vars
  BY <1>1
<1> QED BY <1>2, TxInit, TxStep, PTL DEF Spec, WireInOrder

-----------------------------------------------------------------------------
(* The receive ring. *)

LEMMA GapZero ==
  ASSUME NEW a \in Ring, NEW b \in Ring
  PROVE  Gap(a, b) = 0 <=> a = b
<1>1. Gap(a, b) = IF b < a THEN b + Count - a ELSE b - a
  BY GapIs
<1> QED BY <1>1, CountIs DEF Ring

LEMMA GapSame ==
  ASSUME NEW a \in Ring, NEW b \in Ring, NEW c \in Ring
  PROVE  Gap(a, b) = Gap(a, c) <=> b = c
<1>1. /\ Gap(a, b) = IF b < a THEN b + Count - a ELSE b - a
      /\ Gap(a, c) = IF c < a THEN c + Count - a ELSE c - a
  BY GapIs
<1> QED BY <1>1, CountIs DEF Ring

LEMMA GapToAfter ==
  ASSUME NEW a \in Ring, NEW b \in Ring, b # Before(a)
  PROVE  Gap(a, After(b)) = Gap(a, b) + 1 /\ After(b) # a
<1>1. /\ After(b) \in Ring /\ After(b) = IF b = Count - 1 THEN 0 ELSE b + 1
      /\ Before(a) = IF a = 0 THEN Count - 1 ELSE a - 1
  BY AfterIs, BeforeIs
<1>2. /\ Gap(a, b) = IF b < a THEN b + Count - a ELSE b - a
      /\ Gap(a, After(b)) = IF After(b) < a THEN After(b) + Count - a ELSE After(b) - a
  BY <1>1, GapIs
<1> QED BY <1>1, <1>2, CountIs DEF Ring

LEMMA GapFromAfter ==
  ASSUME NEW a \in Ring, NEW b \in Ring
  PROVE  Gap(After(a), b) = IF b = a THEN Count - 1 ELSE Gap(a, b) - 1
<1>1. After(a) \in Ring /\ After(a) = IF a = Count - 1 THEN 0 ELSE a + 1
  BY AfterIs
<1>2. /\ Gap(a, b) = IF b < a THEN b + Count - a ELSE b - a
      /\ Gap(After(a), b) = IF b < After(a) THEN b + Count - After(a) ELSE b - After(a)
  BY <1>1, GapIs
<1> QED BY <1>1, <1>2, CountIs DEF Ring

\* Of what lies from b up to the descriptor before a, nothing lies from a to b.
LEMMA GapSplits ==
  ASSUME NEW a \in Ring, NEW b \in Ring
  PROVE  /\ Gap(b, Before(a)) + Gap(a, b) = Count - 1
         /\ \A i \in Ring : Gap(b, i) < Gap(b, Before(a)) => ~(Gap(a, i) < Gap(a, b))
<1>1. Before(a) \in Ring /\ Before(a) = IF a = 0 THEN Count - 1 ELSE a - 1
  BY BeforeIs
<1>2. /\ Gap(a, b) = IF b < a THEN b + Count - a ELSE b - a
      /\ Gap(b, Before(a)) = IF Before(a) < b THEN Before(a) + Count - b ELSE Before(a) - b
  BY <1>1, GapIs
<1>3. Gap(b, Before(a)) + Gap(a, b) = Count - 1
  BY <1>1, <1>2, CountIs DEF Ring
<1>4. ASSUME NEW i \in Ring, Gap(b, i) < Gap(b, Before(a))
      PROVE  ~(Gap(a, i) < Gap(a, b))
  <2>1. /\ Gap(b, i) = IF i < b THEN i + Count - b ELSE i - b
        /\ Gap(a, i) = IF i < a THEN i + Count - a ELSE i - a
    BY GapIs
  <2> QED BY <1>1, <1>2, <1>4, <2>1, CountIs DEF Ring
<1> QED BY <1>3, <1>4

\* The DMA has filled and closed this one, and the caller has not taken it.
Taken(i) == Gap(rxIndex, i) < Gap(rxIndex, rxCur)

\* Once das_eth_init has laid out the rings the tail pointer is the descriptor
\* before the driver's index; until then nothing receives.
Laid   == rxTail = Before(rxIndex)
Unlaid == /\ rxTail = rxIndex /\ rxCur = rxIndex /\ rxFill = 0 /\ ~rxRun
          /\ pc \in {"idle", "init_reset", "init_rings"}
Rings ==
  /\ Laid \/ Unlaid
  /\ rxFill # 0 => rxCur # rxTail

\* A receive past its check works on a descriptor the DMA has closed, and hands
\* it back in memory before it moves on.
AtHead ==
  /\ pc \in TakeSteps => rxCur # rxIndex
  /\ pc = "recycle_publish" => IF RxDesc(rxIndex) \in dirty
                               THEN cache[RxDesc(rxIndex)] = "dma"
                               ELSE mem[RxDesc(rxIndex)] = "dma"
  /\ pc = "recycle_kick" => mem[RxDesc(rxIndex)] = "dma"

\* In memory the DMA owns all but those taken; the head is its own again while
\* it is recycled.
Owned ==
  Laid => \A i \in Ring :
    /\ Taken(i) => mem[RxDesc(i)] # "dma"
                     \/ (i = rxIndex /\ pc \in {"recycle_publish", "recycle_kick"})
    /\ ~Taken(i) => mem[RxDesc(i)] = "dma"

LEMMA LaidWhenRunning ==
  ASSUME TypeOK, Rings, rxRun \/ rxFill # 0 \/ pc \notin {"idle", "init_reset", "init_rings"}
  PROVE  Laid /\ ~Unlaid
<1>1. ~Unlaid
  BY DEF Unlaid, TypeOK
<1> QED BY <1>1 DEF Rings

LEMMA HeadIsTaken ==
  ASSUME TypeOK
  PROVE  /\ ~Taken(rxCur)
         /\ Taken(rxIndex) <=> rxIndex # rxCur
<1>1. /\ Gap(rxIndex, rxIndex) = 0 /\ Gap(rxIndex, rxCur) \in Nat
      /\ (Gap(rxIndex, rxCur) = 0 <=> rxIndex = rxCur)
  BY GapZero, GapIs DEF TypeOK, Ring
<1> QED BY <1>1 DEF Taken

LEMMA ClosedIsTaken ==
  ASSUME TypeOK, rxCur # Before(rxIndex), rxIndex' = rxIndex, rxCur' = After(rxCur),
         NEW i \in Ring
  PROVE  Taken(i)' <=> Taken(i) \/ i = rxCur
<1>1. Gap(rxIndex, After(rxCur)) = Gap(rxIndex, rxCur) + 1
  BY GapToAfter DEF TypeOK
<1>2. Gap(rxIndex, i) \in Nat /\ Gap(rxIndex, rxCur) \in Nat
  BY GapIs DEF TypeOK, Ring
<1>3. Gap(rxIndex, i) = Gap(rxIndex, rxCur) <=> i = rxCur
  BY GapSame DEF TypeOK
<1>4. Taken(i)' <=> Gap(rxIndex, i) < Gap(rxIndex, After(rxCur))
  BY DEF Taken
<1> QED BY <1>1, <1>2, <1>3, <1>4 DEF Taken

LEMMA RecycledIsNotTaken ==
  ASSUME TypeOK, rxCur # rxIndex, rxIndex' = After(rxIndex), rxCur' = rxCur, NEW i \in Ring
  PROVE  Taken(i)' <=> Taken(i) /\ i # rxIndex
<1>1. /\ Gap(After(rxIndex), i) = IF i = rxIndex THEN Count - 1 ELSE Gap(rxIndex, i) - 1
      /\ Gap(After(rxIndex), rxCur) = Gap(rxIndex, rxCur) - 1
  BY GapFromAfter DEF TypeOK
<1>2. /\ Gap(rxIndex, i) \in Nat /\ Gap(rxIndex, rxCur) \in Nat /\ Gap(rxIndex, rxCur) < Count
      /\ Gap(rxIndex, i) # 0 \/ i = rxIndex
  <2>1. Gap(rxIndex, i) \in Ring /\ Gap(rxIndex, rxCur) \in Ring
    BY GapIs DEF TypeOK
  <2>2. Gap(rxIndex, i) # 0 \/ i = rxIndex
    BY GapZero DEF TypeOK
  <2> QED BY <2>1, <2>2, CountIs DEF Ring
<1>3. Taken(i)' <=> Gap(After(rxIndex), i) < Gap(After(rxIndex), rxCur)
  BY DEF Taken
<1> QED BY <1>1, <1>2, <1>3, CountIs DEF Taken

LEMMA TakenStays ==
  ASSUME UNCHANGED <<rxIndex, rxCur>>, NEW i
  PROVE  Taken(i)' <=> Taken(i)
BY DEF Taken, Gap

\* How memory changes: by a line that was written going out, by das_eth_init, or
\* by the DMA.
LEMMA MemoryMoves ==
  ASSUME TypeOK, Next
  PROVE  \/ \A k \in Line : k \notin dirty => mem'[k] = mem[k]
         \/ \E i \in Ring : \A k \in Line : k # TxDesc(i) => mem'[k] = mem[k]
         \/ InitRings \/ HwFill \/ HwClose
<1> MemoryOK
  BY DEF TypeOK
<1>1. CASE InitReset
  BY <1>1 DEF InitReset, memory
<1>2. CASE InitNoPhy
  BY <1>2 DEF InitNoPhy, memory
<1>w. CASE InitWithdraw
  BY <1>w DEF InitWithdraw, memory
<1>r. CASE InitReady
  BY <1>r DEF InitReady, memory
<1>f. CASE FaultStop
  BY <1>f DEF FaultStop, memory
<1>3. CASE InitStart
  BY <1>3 DEF InitStart, memory
<1>4. CASE SendRefused
  BY <1>4 DEF SendRefused, memory
<1>5. CASE SendFaulted
  BY <1>5 DEF SendFaulted, EnterFault, memory
<1>6. CASE SendOwn
  BY <1>6 DEF SendOwn, memory
<1>7. CASE SendKick
  BY <1>7 DEF SendKick, memory
<1>8. CASE SendCheck
  BY <1>8 DEF SendCheck, EnterFault, memory
<1>9. CASE SendLook
  BY <1>9 DEF SendLook, memory
<1>10. CASE SendGiveUp
  BY <1>10 DEF SendGiveUp, EnterFault, memory
<1>11. CASE ReceiveRefused
  BY <1>11 DEF ReceiveRefused, memory
<1>12. CASE ReceiveFaulted
  BY <1>12 DEF ReceiveFaulted, EnterFault, memory
<1>13. CASE ReceiveOwn
  BY <1>13 DEF ReceiveOwn, memory
<1>14. CASE ReceiveCopy
  BY <1>14 DEF ReceiveCopy, memory
<1>15. CASE RecycleKick
  BY <1>15 DEF RecycleKick, memory
<1>16. CASE LinkState
  BY <1>16 DEF LinkState, memory
<1>17. CASE HwFetch
  BY <1>17 DEF HwFetch, memory
<1>18. CASE HwDrop
  BY <1>18 DEF HwDrop, memory
<1>19. CASE HwLink
  BY <1>19 DEF HwLink, memory
<1>20. CASE Send
  BY <1>20 DEF Send, Invalidate
<1>21. CASE SendPoll
  BY <1>21 DEF SendPoll, Invalidate
<1>22. CASE Receive
  BY <1>22 DEF Receive, Invalidate
<1>23. CASE ReceiveSync
  BY <1>23 DEF ReceiveSync, Invalidate
<1>24. CASE RecycleSync
  BY <1>24 DEF RecycleSync, Invalidate
<1>25. CASE SendCopy
  BY <1>25 DEF SendCopy, Store
<1>26. CASE SendDesc
  BY <1>26 DEF SendDesc, Store
<1>27. CASE RecycleDesc
  BY <1>27 DEF RecycleDesc, Store
<1>28. CASE SendClean
  <2>1. Clean(TxBuf(txIndex)) /\ TxBuf(txIndex) \in Line
    BY <1>28, OwnLines DEF SendClean
  <2> QED BY <2>1, Cleans
<1>29. CASE SendPublish
  <2>1. Clean(TxDesc(txIndex)) /\ TxDesc(txIndex) \in Line
    BY <1>29, OwnLines DEF SendPublish
  <2> QED BY <2>1, Cleans
<1>30. CASE RecyclePublish
  <2>1. Clean(RxDesc(rxIndex)) /\ RxDesc(rxIndex) \in Line
    BY <1>30, OwnLines DEF RecyclePublish
  <2> QED BY <2>1, Cleans
<1>31. CASE HwSent
  <2>1. txCur \in Ring /\ \A k \in Line : k # TxDesc(txCur) => mem'[k] = mem[k]
    BY <1>31, OwnLines, DmaWrites DEF HwSent, TypeOK
  <2> QED BY <2>1
<1>32. CASE HwBusError
  <2>1. UNCHANGED <<cache, dirty>> /\ (mem' = mem \/ mem' = [mem EXCEPT ![TxDesc(txCur)] = "cpu"])
    BY <1>32 DEF HwBusError
  <2>2. txCur \in Ring /\ \A k \in Line : k # TxDesc(txCur) => mem'[k] = mem[k]
    BY <2>1, OwnLines, DmaWrites DEF TypeOK
  <2> QED BY <2>2
<1>33. ASSUME NEW l \in Line, Prefetch(l) PROVE mem' = mem
  BY <1>33 DEF Prefetch
<1>34. ASSUME NEW l \in Line, Evict(l)
      PROVE  \A k \in Line : k \notin dirty => mem'[k] = mem[k]
  BY <1>34, Evicts
<1> QED BY <1>w, <1>r, <1>f, <1>1, <1>2, <1>3, <1>4, <1>5, <1>6, <1>7, <1>8, <1>9, <1>10, <1>11,
         <1>12, <1>13,
         <1>14, <1>15, <1>16, <1>17, <1>18, <1>19, <1>20, <1>21, <1>22, <1>23, <1>24, <1>25,
         <1>26, <1>27, <1>28, <1>29, <1>30, <1>31, <1>32, <1>33, <1>34 DEF Next, Driver,
         Hardware

LEMMA RxDescsStay ==
  ASSUME TypeOK, OnlyWritten, Next, ~InitRings, ~HwClose, pc # "recycle_publish", NEW i \in Ring
  PROVE  mem'[RxDesc(i)] = mem[RxDesc(i)]
<1> RxDesc(i) \in Line /\ txIndex \in Ring /\ rxIndex \in Ring /\ rxCur \in Ring
  BY LinesHold DEF TypeOK
<1>1. RxDesc(i) \notin dirty
  BY LinesDiffer DEF OnlyWritten, Written
<1>2. CASE HwFill
  <2>1. \A k \in Line : k # RxBuf(rxCur) => mem'[k] = mem[k]
    BY <1>2, OwnLines, DmaWrites DEF HwFill, TypeOK
  <2> QED BY <2>1, LinesDiffer
<1> QED BY <1>1, <1>2, MemoryMoves, LinesDiffer

LEMMA RxBufsStay ==
  ASSUME TypeOK, OnlyWritten, Next, ~HwFill, NEW i \in Ring
  PROVE  mem'[RxBuf(i)] = mem[RxBuf(i)]
<1> RxBuf(i) \in Line /\ txIndex \in Ring /\ rxIndex \in Ring /\ rxCur \in Ring
  BY LinesHold DEF TypeOK
<1>1. RxBuf(i) \notin dirty
  BY LinesDiffer DEF OnlyWritten, Written
<1>2. CASE HwClose
  <2>1. \A k \in Line : k # RxDesc(rxCur) => mem'[k] = mem[k]
    BY <1>2, OwnLines, DmaWrites DEF HwClose, TypeOK
  <2> QED BY <2>1, LinesDiffer
<1>3. CASE InitRings
  BY <1>3, RingsLaid DEF TypeOK
<1> QED BY <1>1, <1>2, <1>3, MemoryMoves, LinesDiffer

\* What the other steps leave of the receive ring and of the call in progress.
LEMMA RxPointersStay ==
  ASSUME Next, ~InitRings, ~HwClose, ~RecycleKick
  PROVE  UNCHANGED <<rxIndex, rxCur, rxTail>>
<1>1. CASE InitReset
  BY <1>1 DEF InitReset, dma
<1>2. CASE InitNoPhy
  BY <1>2 DEF InitNoPhy, dma
<1>w. CASE InitWithdraw
  BY <1>w DEF InitWithdraw, dma
<1>r. CASE InitReady
  BY <1>r DEF InitReady, dma
<1>f. CASE FaultStop
  BY <1>f DEF FaultStop, dma
<1>3. CASE InitStart
  BY <1>3 DEF InitStart, dma
<1>4. CASE SendRefused
  BY <1>4 DEF SendRefused, dma
<1>5. CASE SendFaulted
  BY <1>5 DEF SendFaulted, EnterFault, dma
<1>6. CASE SendOwn
  BY <1>6 DEF SendOwn, dma
<1>7. CASE SendKick
  BY <1>7 DEF SendKick, dma
<1>8. CASE SendCheck
  BY <1>8 DEF SendCheck, EnterFault, dma
<1>9. CASE SendLook
  BY <1>9 DEF SendLook, dma
<1>10. CASE SendGiveUp
  BY <1>10 DEF SendGiveUp, EnterFault, dma
<1>11. CASE ReceiveRefused
  BY <1>11 DEF ReceiveRefused, dma
<1>12. CASE ReceiveFaulted
  BY <1>12 DEF ReceiveFaulted, EnterFault, dma
<1>13. CASE ReceiveOwn
  BY <1>13 DEF ReceiveOwn, dma
<1>14. CASE ReceiveCopy
  BY <1>14 DEF ReceiveCopy, dma
<1>15. CASE LinkState
  BY <1>15 DEF LinkState, dma
<1>16. CASE HwFetch
  BY <1>16 DEF HwFetch, dma
<1>17. CASE HwDrop
  BY <1>17 DEF HwDrop, dma
<1>18. CASE HwLink
  BY <1>18 DEF HwLink, dma
<1>19. CASE Send
  BY <1>19 DEF Send, dma
<1>20. CASE SendPoll
  BY <1>20 DEF SendPoll, dma
<1>21. CASE Receive
  BY <1>21 DEF Receive, dma
<1>22. CASE ReceiveSync
  BY <1>22 DEF ReceiveSync, dma
<1>23. CASE RecycleSync
  BY <1>23 DEF RecycleSync, dma
<1>24. CASE SendCopy
  BY <1>24 DEF SendCopy, dma
<1>25. CASE SendDesc
  BY <1>25 DEF SendDesc, dma
<1>26. CASE RecycleDesc
  BY <1>26 DEF RecycleDesc, dma
<1>27. CASE SendClean
  BY <1>27 DEF SendClean, dma
<1>28. CASE SendPublish
  BY <1>28 DEF SendPublish, dma
<1>29. CASE RecyclePublish
  BY <1>29 DEF RecyclePublish, dma
<1>30. CASE HwSent
  BY <1>30 DEF HwSent, dma
<1>31. CASE HwFill
  BY <1>31 DEF HwFill, dma
<1>32. CASE HwBusError
  BY <1>32 DEF HwBusError, dma
<1>33. ASSUME NEW l \in Line, Prefetch(l) \/ Evict(l) PROVE UNCHANGED <<driver, dma>>
  BY <1>33 DEF Prefetch, Evict
<1> QED BY <1>w, <1>r, <1>f, <1>1, <1>2, <1>3, <1>4, <1>5, <1>6, <1>7, <1>8, <1>9, <1>10, <1>11,
         <1>12, <1>13,
         <1>14, <1>15, <1>16, <1>17, <1>18, <1>19, <1>20, <1>21, <1>22, <1>23, <1>24, <1>25,
         <1>26, <1>27, <1>28, <1>29, <1>30, <1>31, <1>32, <1>33 DEF Next, Driver, Hardware,
         driver, dma

LEMMA StepsOfRecycle ==
  ASSUME Next
  PROVE  /\ pc = "recycle_publish" => UNCHANGED pc \/ RecyclePublish
         /\ pc = "recycle_kick" => UNCHANGED pc \/ RecycleKick
         /\ pc' = "recycle_publish" => UNCHANGED pc \/ RecycleDesc
         /\ pc' = "recycle_kick" => UNCHANGED pc \/ RecyclePublish
         /\ pc' \in TakeSteps /\ pc \notin TakeSteps
               => ReceiveOwn /\ Load(RxDesc(rxIndex)) # "dma"
         /\ pc' # pc /\ pc = "idle" /\ ~initialized => pc' = "init_reset"
<1> USE DEF TakeSteps
<1>1. CASE InitReset
  BY <1>1 DEF InitReset, Return, Advance, Goto, EnterFault
<1>2. CASE InitNoPhy
  BY <1>2 DEF InitNoPhy, Return, Advance, Goto, EnterFault
<1>w. CASE InitWithdraw
  BY <1>w DEF InitWithdraw, Return, Advance, Goto, EnterFault
<1>r. CASE InitReady
  BY <1>r DEF InitReady, Return, Advance, Goto, EnterFault
<1>f. CASE FaultStop
  BY <1>f DEF FaultStop, Return, Advance, Goto, EnterFault, StopSteps
<1>3. CASE InitStart
  BY <1>3 DEF InitStart, Return, Advance, Goto, EnterFault
<1>4. CASE SendRefused
  BY <1>4 DEF SendRefused, Return, Advance, Goto, EnterFault
<1>5. CASE SendFaulted
  BY <1>5 DEF SendFaulted, Return, Advance, Goto, EnterFault
<1>6. CASE SendOwn
  BY <1>6 DEF SendOwn, Return, Advance, Goto, EnterFault
<1>7. CASE SendKick
  BY <1>7 DEF SendKick, Return, Advance, Goto, EnterFault
<1>8. CASE SendCheck
  BY <1>8 DEF SendCheck, Return, Advance, Goto, EnterFault
<1>9. CASE SendLook
  BY <1>9 DEF SendLook, Return, Advance, Goto, EnterFault
<1>10. CASE SendGiveUp
  BY <1>10 DEF SendGiveUp, Return, Advance, Goto, EnterFault
<1>11. CASE ReceiveRefused
  BY <1>11 DEF ReceiveRefused, Return, Advance, Goto, EnterFault
<1>12. CASE ReceiveFaulted
  BY <1>12 DEF ReceiveFaulted, Return, Advance, Goto, EnterFault
<1>13. CASE ReceiveOwn
  BY <1>13 DEF ReceiveOwn, Return, Advance, Goto, EnterFault
<1>14. CASE ReceiveCopy
  BY <1>14 DEF ReceiveCopy, Return, Advance, Goto, EnterFault
<1>15. CASE RecycleKick
  BY <1>15 DEF RecycleKick, Return, Advance, Goto, EnterFault
<1>16. CASE LinkState
  BY <1>16 DEF LinkState, Return, Advance, Goto, EnterFault
<1>17. CASE HwFetch
  BY <1>17 DEF HwFetch
<1>18. CASE HwDrop
  BY <1>18 DEF HwDrop
<1>19. CASE HwLink
  BY <1>19 DEF HwLink
<1>20. CASE Send
  BY <1>20 DEF Send, Return, Advance, Goto, EnterFault
<1>21. CASE SendPoll
  BY <1>21 DEF SendPoll, Return, Advance, Goto, EnterFault
<1>22. CASE Receive
  BY <1>22 DEF Receive, Return, Advance, Goto, EnterFault
<1>23. CASE ReceiveSync
  BY <1>23 DEF ReceiveSync, Return, Advance, Goto, EnterFault
<1>24. CASE RecycleSync
  BY <1>24 DEF RecycleSync, Return, Advance, Goto, EnterFault
<1>25. CASE SendCopy
  BY <1>25 DEF SendCopy, Return, Advance, Goto, EnterFault
<1>26. CASE SendDesc
  BY <1>26 DEF SendDesc, Return, Advance, Goto, EnterFault
<1>27. CASE RecycleDesc
  BY <1>27 DEF RecycleDesc, Return, Advance, Goto, EnterFault
<1>28. CASE SendClean
  BY <1>28 DEF SendClean, Return, Advance, Goto, EnterFault
<1>29. CASE SendPublish
  BY <1>29 DEF SendPublish, Return, Advance, Goto, EnterFault
<1>30. CASE RecyclePublish
  BY <1>30 DEF RecyclePublish, Return, Advance, Goto, EnterFault
<1>31. CASE HwSent
  BY <1>31 DEF HwSent
<1>32. CASE HwFill
  BY <1>32 DEF HwFill
<1>33. CASE HwClose
  BY <1>33 DEF HwClose
<1>34. CASE HwBusError
  BY <1>34 DEF HwBusError
<1>35. CASE InitRings
  BY <1>35 DEF InitRings, Return, Advance, Goto, EnterFault
<1>36. ASSUME NEW l \in Line, Prefetch(l) \/ Evict(l) PROVE UNCHANGED driver
  BY <1>36 DEF Prefetch, Evict
<1> QED BY <1>w, <1>r, <1>f, <1>1, <1>2, <1>3, <1>4, <1>5, <1>6, <1>7, <1>8, <1>9, <1>10, <1>11,
         <1>12, <1>13,
         <1>14, <1>15, <1>16, <1>17, <1>18, <1>19, <1>20, <1>21, <1>22, <1>23, <1>24, <1>25,
         <1>26, <1>27, <1>28, <1>29, <1>30, <1>31, <1>32, <1>33, <1>34, <1>35, <1>36 DEF
         Next, Driver, Hardware, driver

LEMMA OtherDescsStay ==
  ASSUME TypeOK, OnlyWritten, Next, ~InitRings, ~HwClose, pc = "recycle_publish",
         NEW i \in Ring, i # rxIndex
  PROVE  mem'[RxDesc(i)] = mem[RxDesc(i)]
<1> RxDesc(i) \in Line /\ txIndex \in Ring /\ rxIndex \in Ring /\ rxCur \in Ring
  BY LinesHold DEF TypeOK
<1>1. RxDesc(i) \notin dirty
  BY LinesDiffer DEF OnlyWritten, Written
<1>2. CASE HwFill
  <2>1. \A k \in Line : k # RxBuf(rxCur) => mem'[k] = mem[k]
    BY <1>2, OwnLines, DmaWrites DEF HwFill, TypeOK
  <2> QED BY <2>1, LinesDiffer
<1> QED BY <1>1, <1>2, MemoryMoves, LinesDiffer

LEMMA FillsStay ==
  ASSUME Next, ~HwFill
  PROVE  rxFill' # 0 => rxFill' = rxFill
<1>1. CASE InitReset
  BY <1>1 DEF InitReset, dma
<1>2. CASE InitNoPhy
  BY <1>2 DEF InitNoPhy, dma
<1>w. CASE InitWithdraw
  BY <1>w DEF InitWithdraw, dma
<1>r. CASE InitReady
  BY <1>r DEF InitReady, dma
<1>f. CASE FaultStop
  BY <1>f DEF FaultStop, dma
<1>3. CASE InitStart
  BY <1>3 DEF InitStart, dma
<1>4. CASE SendRefused
  BY <1>4 DEF SendRefused, dma
<1>5. CASE SendFaulted
  BY <1>5 DEF SendFaulted, EnterFault, dma
<1>6. CASE SendOwn
  BY <1>6 DEF SendOwn, dma
<1>7. CASE SendKick
  BY <1>7 DEF SendKick, dma
<1>8. CASE SendCheck
  BY <1>8 DEF SendCheck, EnterFault, dma
<1>9. CASE SendLook
  BY <1>9 DEF SendLook, dma
<1>10. CASE SendGiveUp
  BY <1>10 DEF SendGiveUp, EnterFault, dma
<1>11. CASE ReceiveRefused
  BY <1>11 DEF ReceiveRefused, dma
<1>12. CASE ReceiveFaulted
  BY <1>12 DEF ReceiveFaulted, EnterFault, dma
<1>13. CASE ReceiveOwn
  BY <1>13 DEF ReceiveOwn, dma
<1>14. CASE ReceiveCopy
  BY <1>14 DEF ReceiveCopy, dma
<1>15. CASE RecycleKick
  BY <1>15 DEF RecycleKick, dma
<1>16. CASE LinkState
  BY <1>16 DEF LinkState, dma
<1>17. CASE HwFetch
  BY <1>17 DEF HwFetch, dma
<1>18. CASE HwDrop
  BY <1>18 DEF HwDrop, dma
<1>19. CASE HwLink
  BY <1>19 DEF HwLink, dma
<1>20. CASE Send
  BY <1>20 DEF Send, dma
<1>21. CASE SendPoll
  BY <1>21 DEF SendPoll, dma
<1>22. CASE Receive
  BY <1>22 DEF Receive, dma
<1>23. CASE ReceiveSync
  BY <1>23 DEF ReceiveSync, dma
<1>24. CASE RecycleSync
  BY <1>24 DEF RecycleSync, dma
<1>25. CASE SendCopy
  BY <1>25 DEF SendCopy, dma
<1>26. CASE SendDesc
  BY <1>26 DEF SendDesc, dma
<1>27. CASE RecycleDesc
  BY <1>27 DEF RecycleDesc, dma
<1>28. CASE SendClean
  BY <1>28 DEF SendClean, dma
<1>29. CASE SendPublish
  BY <1>29 DEF SendPublish, dma
<1>30. CASE RecyclePublish
  BY <1>30 DEF RecyclePublish, dma
<1>31. CASE HwSent
  BY <1>31 DEF HwSent, dma
<1>32. CASE HwClose
  BY <1>32 DEF HwClose, dma
<1>33. CASE HwBusError
  BY <1>33 DEF HwBusError, dma
<1>34. CASE InitRings
  BY <1>34 DEF InitRings, dma
<1>35. ASSUME NEW l \in Line, Prefetch(l) \/ Evict(l) PROVE UNCHANGED dma
  BY <1>35 DEF Prefetch, Evict
<1> QED BY <1>w, <1>r, <1>f, <1>1, <1>2, <1>3, <1>4, <1>5, <1>6, <1>7, <1>8, <1>9, <1>10, <1>11,
         <1>12, <1>13,
         <1>14, <1>15, <1>16, <1>17, <1>18, <1>19, <1>20, <1>21, <1>22, <1>23, <1>24, <1>25,
         <1>26, <1>27, <1>28, <1>29, <1>30, <1>31, <1>32, <1>33, <1>34, <1>35 DEF Next,
         Driver, Hardware, dma

\* Without an instance only das_eth_init gets anywhere.
LEMMA RunsFromStart ==
  ASSUME Next, ~initialized, ~rxRun, pc \in {"idle", "init_reset", "init_rings"}, ~InitRings
  PROVE  ~rxRun' /\ pc' \in {"idle", "init_reset", "init_rings"}
<1>1. CASE InitReset
  BY <1>1 DEF InitReset, Return, Advance, Goto, EnterFault, dma
<1>2. CASE InitNoPhy
  BY <1>2 DEF InitNoPhy, Return, Advance, Goto, EnterFault, dma
<1>w. CASE InitWithdraw
  BY <1>w DEF InitWithdraw, Return, Advance, Goto, EnterFault, dma
<1>r. CASE InitReady
  BY <1>r DEF InitReady, Return, Advance, Goto, EnterFault, dma
<1>f. CASE FaultStop
  BY <1>f DEF FaultStop, Return, Advance, Goto, EnterFault, dma, StopSteps
<1>3. CASE InitStart
  BY <1>3 DEF InitStart, Return, Advance, Goto, EnterFault, dma
<1>4. CASE SendRefused
  BY <1>4 DEF SendRefused, Return, Advance, Goto, EnterFault, dma
<1>5. CASE SendFaulted
  BY <1>5 DEF SendFaulted, Return, Advance, Goto, EnterFault, dma
<1>6. CASE SendOwn
  BY <1>6 DEF SendOwn, Return, Advance, Goto, EnterFault, dma
<1>7. CASE SendKick
  BY <1>7 DEF SendKick, Return, Advance, Goto, EnterFault, dma
<1>8. CASE SendCheck
  BY <1>8 DEF SendCheck, Return, Advance, Goto, EnterFault, dma
<1>9. CASE SendLook
  BY <1>9 DEF SendLook, Return, Advance, Goto, EnterFault, dma
<1>10. CASE SendGiveUp
  BY <1>10 DEF SendGiveUp, Return, Advance, Goto, EnterFault, dma
<1>11. CASE ReceiveRefused
  BY <1>11 DEF ReceiveRefused, Return, Advance, Goto, EnterFault, dma
<1>12. CASE ReceiveFaulted
  BY <1>12 DEF ReceiveFaulted, Return, Advance, Goto, EnterFault, dma
<1>13. CASE ReceiveOwn
  BY <1>13 DEF ReceiveOwn, Return, Advance, Goto, EnterFault, dma
<1>14. CASE ReceiveCopy
  BY <1>14 DEF ReceiveCopy, Return, Advance, Goto, EnterFault, dma
<1>15. CASE RecycleKick
  BY <1>15 DEF RecycleKick, Return, Advance, Goto, EnterFault, dma
<1>16. CASE LinkState
  BY <1>16 DEF LinkState, Return, Advance, Goto, EnterFault, dma
<1>17. CASE HwFetch
  BY <1>17 DEF HwFetch, Return, Advance, Goto, EnterFault, dma
<1>18. CASE HwDrop
  BY <1>18 DEF HwDrop, Return, Advance, Goto, EnterFault, dma
<1>19. CASE HwLink
  BY <1>19 DEF HwLink, Return, Advance, Goto, EnterFault, dma
<1>20. CASE Send
  BY <1>20 DEF Send, Return, Advance, Goto, EnterFault, dma
<1>21. CASE SendPoll
  BY <1>21 DEF SendPoll, Return, Advance, Goto, EnterFault, dma
<1>22. CASE Receive
  BY <1>22 DEF Receive, Return, Advance, Goto, EnterFault, dma
<1>23. CASE ReceiveSync
  BY <1>23 DEF ReceiveSync, Return, Advance, Goto, EnterFault, dma
<1>24. CASE RecycleSync
  BY <1>24 DEF RecycleSync, Return, Advance, Goto, EnterFault, dma
<1>25. CASE SendCopy
  BY <1>25 DEF SendCopy, Return, Advance, Goto, EnterFault, dma
<1>26. CASE SendDesc
  BY <1>26 DEF SendDesc, Return, Advance, Goto, EnterFault, dma
<1>27. CASE RecycleDesc
  BY <1>27 DEF RecycleDesc, Return, Advance, Goto, EnterFault, dma
<1>28. CASE SendClean
  BY <1>28 DEF SendClean, Return, Advance, Goto, EnterFault, dma
<1>29. CASE SendPublish
  BY <1>29 DEF SendPublish, Return, Advance, Goto, EnterFault, dma
<1>30. CASE RecyclePublish
  BY <1>30 DEF RecyclePublish, Return, Advance, Goto, EnterFault, dma
<1>31. CASE HwSent
  BY <1>31 DEF HwSent, Return, Advance, Goto, EnterFault, dma
<1>32. CASE HwFill
  BY <1>32 DEF HwFill, Return, Advance, Goto, EnterFault, dma
<1>33. CASE HwClose
  BY <1>33 DEF HwClose, Return, Advance, Goto, EnterFault, dma
<1>34. CASE HwBusError
  BY <1>34 DEF HwBusError, Return, Advance, Goto, EnterFault, dma
<1>35. ASSUME NEW l \in Line, Prefetch(l) \/ Evict(l) PROVE UNCHANGED <<driver, dma>>
  BY <1>35 DEF Prefetch, Evict
<1> QED BY <1>w, <1>r, <1>f, <1>1, <1>2, <1>3, <1>4, <1>5, <1>6, <1>7, <1>8, <1>9, <1>10, <1>11,
         <1>12, <1>13,
         <1>14, <1>15, <1>16, <1>17, <1>18, <1>19, <1>20, <1>21, <1>22, <1>23, <1>24, <1>25,
         <1>26, <1>27, <1>28, <1>29, <1>30, <1>31, <1>32, <1>33, <1>34, <1>35 DEF Next,
         Driver, Hardware, driver, dma

LEMMA CallsThatRecycle ==
  ASSUME Driver, pc \in {"recycle_publish", "recycle_kick"}
  PROVE  RecyclePublish \/ RecycleKick
<1>1. CASE InitReset
  BY <1>1 DEF InitReset
<1>2. CASE InitNoPhy
  BY <1>2 DEF InitNoPhy
<1>w. CASE InitWithdraw
  BY <1>w DEF InitWithdraw
<1>r. CASE InitReady
  BY <1>r DEF InitReady
<1>f. CASE FaultStop
  BY <1>f DEF FaultStop, StopSteps
<1>3. CASE InitStart
  BY <1>3 DEF InitStart
<1>4. CASE SendRefused
  BY <1>4 DEF SendRefused
<1>5. CASE SendFaulted
  BY <1>5 DEF SendFaulted, EnterFault
<1>6. CASE SendOwn
  BY <1>6 DEF SendOwn
<1>7. CASE SendKick
  BY <1>7 DEF SendKick
<1>8. CASE SendCheck
  BY <1>8 DEF SendCheck, EnterFault
<1>9. CASE SendLook
  BY <1>9 DEF SendLook
<1>10. CASE SendGiveUp
  BY <1>10 DEF SendGiveUp, EnterFault
<1>11. CASE ReceiveRefused
  BY <1>11 DEF ReceiveRefused
<1>12. CASE ReceiveFaulted
  BY <1>12 DEF ReceiveFaulted, EnterFault
<1>13. CASE ReceiveOwn
  BY <1>13 DEF ReceiveOwn
<1>14. CASE ReceiveCopy
  BY <1>14 DEF ReceiveCopy
<1>15. CASE RecycleKick
  BY <1>15 DEF RecycleKick
<1>16. CASE LinkState
  BY <1>16 DEF LinkState
<1>17. CASE Send
  BY <1>17 DEF Send
<1>18. CASE SendPoll
  BY <1>18 DEF SendPoll
<1>19. CASE Receive
  BY <1>19 DEF Receive
<1>20. CASE ReceiveSync
  BY <1>20 DEF ReceiveSync
<1>21. CASE RecycleSync
  BY <1>21 DEF RecycleSync
<1>22. CASE SendCopy
  BY <1>22 DEF SendCopy
<1>23. CASE SendDesc
  BY <1>23 DEF SendDesc
<1>24. CASE RecycleDesc
  BY <1>24 DEF RecycleDesc
<1>25. CASE SendClean
  BY <1>25 DEF SendClean
<1>26. CASE SendPublish
  BY <1>26 DEF SendPublish
<1>27. CASE RecyclePublish
  BY <1>27 DEF RecyclePublish
<1>28. CASE InitRings
  BY <1>28 DEF InitRings
<1> QED BY <1>w, <1>r, <1>f, <1>1, <1>2, <1>3, <1>4, <1>5, <1>6, <1>7, <1>8, <1>9, <1>10, <1>11,
         <1>12, <1>13,
         <1>14, <1>15, <1>16, <1>17, <1>18, <1>19, <1>20, <1>21, <1>22, <1>23, <1>24, <1>25,
         <1>26, <1>27, <1>28 DEF Driver

\* A frame closed is the DMA's next one, not the head of the ring.
LEMMA CloseStep ==
  ASSUME TypeOK, Rings, HwClose
  PROVE  /\ Laid /\ rxCur # Before(rxIndex)
         /\ rxCur' = After(rxCur) /\ rxCur' # rxIndex
         /\ UNCHANGED <<rxIndex, rxTail, cache, dirty, pc>> /\ rxFill' = 0
         /\ mem'[RxDesc(rxCur)] \in {"good", "bad"}
         /\ \A k \in Line : k # RxDesc(rxCur) => mem'[k] = mem[k]
<1>1. /\ rxFill # 0 /\ rxCur' = After(rxCur) /\ rxFill' = 0
      /\ UNCHANGED <<rxIndex, rxTail, cache, dirty, pc>>
  BY DEF HwClose
<1>2. Laid /\ rxCur # rxTail
  BY <1>1, LaidWhenRunning DEF Rings
<1>3. rxCur # Before(rxIndex)
  BY <1>2 DEF Laid
<1>4. After(rxCur) # rxIndex
  BY <1>3, GapToAfter DEF TypeOK
<1>5. PICK status \in {"good", "bad"} : mem' = [mem EXCEPT ![RxDesc(rxCur)] = status]
  BY DEF HwClose
<1>6. /\ mem'[RxDesc(rxCur)] = status
      /\ \A k \in Line : k # RxDesc(rxCur) => mem'[k] = mem[k]
  BY <1>1, <1>5, OwnLines, DmaWrites DEF TypeOK
<1> QED BY <1>1, <1>2, <1>3, <1>4, <1>6

LEMMA RingsStep ==
  ASSUME TypeOK, Control, Rings, AtHead, Next
  PROVE  Rings'
<1>1. CASE InitRings
  <2>1. rxIndex' = 0 /\ rxTail' = Count - 1 /\ rxFill' = 0
    BY <1>1 DEF InitRings, Control
  <2>2. Before(0) = Count - 1
    BY BeforeIs, CountIs DEF Ring
  <2> QED BY <2>1, <2>2 DEF Rings, Laid, Before
<1>2. CASE HwClose
  <2>1. Laid /\ UNCHANGED <<rxIndex, rxTail>> /\ rxFill' = 0
    BY <1>2, CloseStep
  <2> QED BY <2>1 DEF Rings, Laid, Before
<1>3. CASE RecycleKick
  <2>1. pc = "recycle_kick" /\ rxTail' = rxIndex /\ rxIndex' = After(rxIndex) /\ rxCur' = rxCur
    BY <1>3 DEF RecycleKick
  <2>2. Laid'
    BY <2>1, AfterBefore DEF Laid, Before, TypeOK
  <2>3. rxCur' # rxTail'
    BY <2>1 DEF AtHead, TakeSteps
  <2> QED BY <2>2, <2>3 DEF Rings
<1>4. CASE HwFill
  <2>1. rxCur # rxTail /\ rxRun /\ UNCHANGED <<rxIndex, rxCur, rxTail>>
    BY <1>4 DEF HwFill, RxReady
  <2>2. Laid
    BY <2>1, LaidWhenRunning
  <2> QED BY <2>1, <2>2 DEF Rings, Laid, Before
<1>5. ASSUME ~InitRings, ~HwClose, ~RecycleKick, ~HwFill
      PROVE  Rings'
  <2>1. UNCHANGED <<rxIndex, rxCur, rxTail>>
    BY <1>5, RxPointersStay
  <2>2. rxFill' # 0 => rxFill' = rxFill
    BY <1>5, FillsStay
  <2>3. Laid => Laid'
    BY <2>1 DEF Laid, Before
  <2>4. Unlaid => Unlaid'
    <3>1. SUFFICES ASSUME Unlaid PROVE Unlaid'
      OBVIOUS
    <3>2. ~initialized /\ ~rxRun /\ rxFill = 0 /\ pc \in {"idle", "init_reset", "init_rings"}
      BY <3>1 DEF Unlaid, Control
    <3>3. rxFill' = 0
      BY <2>2, <3>2
    <3>4. ~rxRun'
      BY <3>2, <1>5, RunsFromStart
    <3>5. pc' \in {"idle", "init_reset", "init_rings"}
      BY <3>2, <1>5, RunsFromStart, StepsOfRecycle
    <3> QED BY <2>1, <3>1, <3>3, <3>4, <3>5 DEF Unlaid
  <2> QED BY <2>1, <2>2, <2>3, <2>4 DEF Rings
<1> QED BY <1>1, <1>2, <1>3, <1>4, <1>5

LEMMA HeadStep ==
  ASSUME TypeOK, Control, OnlyWritten, NotStale, Rings, Owned, AtHead, Next
  PROVE  AtHead'
<1> DEFINE Desc == RxDesc(rxIndex)
<1> Desc \in Line /\ MemoryOK /\ rxIndex \in Ring /\ rxCur \in Ring
  BY LinesHold DEF TypeOK
<1> HIDE DEF Desc
<1>1. pc' \in TakeSteps => rxCur' # rxIndex'
  <2>1. CASE pc \in TakeSteps /\ ~HwClose /\ pc' \in TakeSteps
    <3>1. ~InitRings /\ ~RecycleKick
      BY <2>1 DEF InitRings, RecycleKick, Return, TakeSteps
    <3> QED BY <2>1, <3>1, RxPointersStay DEF AtHead
  <2>2. CASE HwClose
    BY <2>2, CloseStep
  <2>3. CASE pc \notin TakeSteps /\ pc' \in TakeSteps
    <3>1. ReceiveOwn /\ Load(RxDesc(rxIndex)) # "dma"
      BY <2>3, StepsOfRecycle
    <3>2. pc = "receive_own" /\ UNCHANGED <<rxIndex, rxCur>>
      BY <3>1 DEF ReceiveOwn, dma
    <3>3. mem[RxDesc(rxIndex)] # "dma"
      BY <3>1, <3>2, LookIsTrue
    <3>4. Laid
      BY <3>2, LaidWhenRunning
    <3>5. Taken(rxIndex)
      BY <3>3, <3>4 DEF Owned
    <3> QED BY <3>2, <3>5, HeadIsTaken
  <2> QED BY <2>1, <2>2, <2>3
<1>2. CASE pc' \notin {"recycle_publish", "recycle_kick"}
  BY <1>1, <1>2 DEF AtHead
<1>3. CASE RecycleDesc
  <2>1. Store(Desc, "dma") /\ pc' = "recycle_publish" /\ UNCHANGED rxIndex
    BY <1>3 DEF RecycleDesc, Advance, Goto, Desc
  <2>2. Desc \in dirty' /\ cache'[Desc] = "dma"
    BY <2>1, OwnLines, Stores DEF Desc
  <2> QED BY <1>1, <2>1, <2>2 DEF AtHead, Desc
<1>4. CASE RecyclePublish
  <2>1. Clean(Desc) /\ pc = "recycle_publish" /\ pc' = "recycle_kick" /\ UNCHANGED rxIndex
    BY <1>4 DEF RecyclePublish, Advance, Goto, Desc
  <2>2. mem'[Desc] = IF Desc \in dirty THEN cache[Desc] ELSE mem[Desc]
    BY <2>1, Cleans
  <2> QED BY <1>1, <2>1, <2>2 DEF AtHead, Desc
<1>5. ASSUME pc \in {"recycle_publish", "recycle_kick"}, UNCHANGED <<pc, rxIndex>>,
             mem'[Desc] = mem[Desc], UNCHANGED <<cache, dirty>>
      PROVE  AtHead'
  BY <1>1, <1>5 DEF AtHead, Desc
<1>6. ASSUME pc \in {"recycle_publish", "recycle_kick"}, UNCHANGED pc, Hardware
      PROVE  AtHead'
  <2>1. CASE HwClose
    <3>1. /\ UNCHANGED <<pc, rxIndex, cache, dirty>> /\ rxCur # rxIndex
          /\ \A k \in Line : k # RxDesc(rxCur) => mem'[k] = mem[k]
      BY <2>1, <1>6, CloseStep DEF AtHead, TakeSteps
    <3>2. mem'[Desc] = mem[Desc]
      BY <3>1, LinesDiffer DEF Desc
    <3> QED BY <1>5, <1>6, <3>1, <3>2
  <2>2. CASE ~HwClose
    <3>1. UNCHANGED <<rxIndex, cache, dirty>>
      BY <1>6 DEF Hardware, HwFetch, HwSent, HwFill, HwClose, HwDrop, HwBusError, HwLink, memory
    <3>2. mem'[Desc] = mem[Desc]
      <4>1. CASE HwFill
        <5>1. \A k \in Line : k # RxBuf(rxCur) => mem'[k] = mem[k]
          BY <4>1, OwnLines, DmaWrites DEF HwFill
        <5> QED BY <5>1, LinesDiffer DEF Desc
      <4>2. CASE HwSent
        <5>1. \A k \in Line : k # TxDesc(txCur) => mem'[k] = mem[k]
          BY <4>2, OwnLines, DmaWrites DEF HwSent
        <5> QED BY <5>1, LinesDiffer DEF Desc, TypeOK
      <4>3. CASE HwBusError
        <5>1. mem' = mem \/ mem' = [mem EXCEPT ![TxDesc(txCur)] = "cpu"]
          BY <4>3 DEF HwBusError
        <5>2. Desc # TxDesc(txCur)
          BY LinesDiffer DEF Desc, TypeOK
        <5> QED BY <5>1, <5>2 DEF MemoryOK
      <4>4. CASE HwFetch \/ HwDrop \/ HwLink
        BY <4>4 DEF HwFetch, HwDrop, HwLink, memory
      <4> QED BY <1>6, <2>2, <4>1, <4>2, <4>3, <4>4 DEF Hardware
    <3> QED BY <1>5, <1>6, <3>1, <3>2
  <2> QED BY <2>1, <2>2
<1>7. ASSUME pc \in {"recycle_publish", "recycle_kick"}, NEW l \in Line, Prefetch(l)
      PROVE  AtHead'
  <2>1. /\ mem' = mem /\ dirty' = dirty
        /\ \A k \in DOMAIN cache : cache'[k] = cache[k]
    BY <1>7, Prefetches
  <2>2. UNCHANGED <<pc, rxIndex>>
    BY <1>7 DEF Prefetch, driver
  <2>3. dirty \subseteq DOMAIN cache
    BY DEF MemoryOK
  <2> QED BY <1>1, <2>1, <2>2, <2>3 DEF AtHead
<1>8. ASSUME pc \in {"recycle_publish", "recycle_kick"}, NEW l \in Line, Evict(l)
      PROVE  AtHead'
  <2>1. /\ dirty' = dirty \ {l} /\ DOMAIN cache' = DOMAIN cache \ {l}
        /\ \A k \in DOMAIN cache' : cache'[k] = cache[k]
        /\ mem'[l] = IF l \in dirty THEN cache[l] ELSE mem[l]
        /\ \A k \in Line : k # l => mem'[k] = mem[k]
    BY <1>8, Evicts
  <2>2. UNCHANGED <<pc, rxIndex>>
    BY <1>8 DEF Evict, driver
  <2>3. dirty \subseteq DOMAIN cache
    BY DEF MemoryOK
  <2>4. pc = "recycle_kick" => dirty = {}
    BY NothingWritten
  <2>5. CASE l = Desc
    <3>1. mem'[Desc] = (IF Desc \in dirty THEN cache[Desc] ELSE mem[Desc]) /\ Desc \notin dirty'
      BY <2>1, <2>5
    <3> QED BY <1>1, <2>2, <2>4, <3>1 DEF AtHead, Desc
  <2>6. CASE l # Desc
    <3>1. /\ mem'[Desc] = mem[Desc] /\ (Desc \in dirty' <=> Desc \in dirty)
          /\ (Desc \in dirty => cache'[Desc] = cache[Desc])
      BY <2>1, <2>3, <2>6
    <3> QED BY <1>1, <2>2, <3>1 DEF AtHead, Desc
  <2> QED BY <2>5, <2>6
<1>9. CASE pc' \in {"recycle_publish", "recycle_kick"}
  <2>1. UNCHANGED pc \/ RecycleDesc \/ RecyclePublish
    BY <1>9, StepsOfRecycle
  <2>2. CASE UNCHANGED pc /\ ~RecyclePublish
    <3>1. ~Driver
      BY <1>9, <2>2, CallsThatRecycle DEF RecycleKick, Return
    <3> QED BY <1>9, <2>2, <3>1, <1>6, <1>7, <1>8 DEF Next
  <2> QED BY <2>1, <2>2, <1>3, <1>4
<1> QED BY <1>2, <1>9

LEMMA OwnedStep ==
  ASSUME TypeOK, Control, OnlyWritten, Rings, Owned, AtHead, Next
  PROVE  Owned'
<1> rxIndex \in Ring /\ rxCur \in Ring
  BY DEF TypeOK
<1>1. CASE InitRings
  <2>1. rxIndex' = 0 /\ rxCur' = 0 /\ 0 \in Ring
    BY <1>1, CountIs DEF InitRings, Ring
  <2>2. \A i \in Ring : ~Taken(i)'
    <3>1. SUFFICES ASSUME NEW i \in Ring PROVE ~(Gap(0, i) < Gap(0, 0))
      BY <2>1 DEF Taken
    <3>2. Gap(0, 0) = 0 /\ Gap(0, i) \in Nat
      BY <2>1, GapZero, GapIs DEF Ring
    <3> QED BY <3>2
  <2>3. \A i \in Ring : mem'[RxDesc(i)] = "dma"
    BY <1>1, RingsLaid DEF TypeOK
  <2> QED BY <2>2, <2>3 DEF Owned
<1>2. CASE HwClose
  <2>1. /\ Laid /\ rxCur # Before(rxIndex) /\ rxCur' = After(rxCur)
        /\ UNCHANGED <<rxIndex, pc>>
        /\ mem'[RxDesc(rxCur)] \in {"good", "bad"}
        /\ \A k \in Line : k # RxDesc(rxCur) => mem'[k] = mem[k]
    BY <1>2, CloseStep
  <2>2. \A i \in Ring : Taken(i)' <=> Taken(i) \/ i = rxCur
    BY <2>1, ClosedIsTaken
  <2>3. \A i \in Ring : i # rxCur => mem'[RxDesc(i)] = mem[RxDesc(i)]
    BY <2>1, LinesHold, LinesDiffer
  <2>4. mem'[RxDesc(rxCur)] # "dma"
    BY <2>1
  <2> QED BY <2>1, <2>2, <2>3, <2>4 DEF Owned
<1>3. CASE RecycleKick
  <2>1. pc = "recycle_kick" /\ rxIndex' = After(rxIndex) /\ UNCHANGED <<rxCur, mem>>
    BY <1>3 DEF RecycleKick, memory
  <2>2. Laid /\ rxCur # rxIndex /\ mem[RxDesc(rxIndex)] = "dma"
    BY <2>1, LaidWhenRunning DEF AtHead, TakeSteps
  <2>3. \A i \in Ring : Taken(i)' <=> Taken(i) /\ i # rxIndex
    BY <2>1, <2>2, RecycledIsNotTaken
  <2> QED BY <2>1, <2>2, <2>3 DEF Owned
<1>4. ASSUME ~InitRings, ~HwClose, ~RecycleKick
      PROVE  Owned'
  <2>1. UNCHANGED <<rxIndex, rxCur, rxTail>>
    BY <1>4, RxPointersStay
  <2>2. (Laid' <=> Laid) /\ \A i \in Ring : Taken(i)' <=> Taken(i)
    BY <2>1, TakenStays DEF Laid, Before
  <2>3. pc \in {"recycle_publish", "recycle_kick"} => pc' \in {"recycle_publish", "recycle_kick"}
    BY <1>4, StepsOfRecycle DEF RecyclePublish, Advance, Goto
  <2>4. CASE pc # "recycle_publish"
    <3>1. \A i \in Ring : mem'[RxDesc(i)] = mem[RxDesc(i)]
      BY <1>4, <2>4, RxDescsStay
    <3> QED BY <2>1, <2>2, <2>3, <3>1 DEF Owned
  <2>5. CASE pc = "recycle_publish"
    <3>1. \A i \in Ring : i # rxIndex => mem'[RxDesc(i)] = mem[RxDesc(i)]
      BY <1>4, <2>5, OtherDescsStay
    <3>2. Taken(rxIndex)
      BY <2>5, HeadIsTaken DEF AtHead, TakeSteps
    <3> QED BY <2>1, <2>2, <2>3, <2>5, <3>1, <3>2 DEF Owned
  <2> QED BY <2>4, <2>5
<1> QED BY <1>1, <1>2, <1>3, <1>4

\* What holds of the receiving side.
RxInv == TypeOK /\ Control /\ OnlyWritten /\ NotStale /\ Rings /\ AtHead /\ Owned

LEMMA RxInit ==
  ASSUME Init
  PROVE  RxInv
<1>1. rxTail = 0 /\ rxIndex = 0 /\ rxCur = 0 /\ rxFill = 0 /\ ~rxRun /\ pc = "idle"
  BY DEF Init
<1>2. Rings
  BY <1>1 DEF Rings, Unlaid
<1>3. AtHead
  BY <1>1 DEF AtHead, TakeSteps
<1>4. ~Laid
  <2>1. Before(0) = Count - 1
    BY BeforeIs, CountIs DEF Ring
  <2> QED BY <1>1, <2>1, CountIs DEF Laid
<1>5. Owned
  BY <1>4 DEF Owned
<1> QED BY <1>2, <1>3, <1>5, TypeInit, ControlInit, CacheInit DEF RxInv

LEMMA RxStep ==
  ASSUME RxInv, [Next]_vars
  PROVE  RxInv'
<1>1. TypeOK' /\ Control' /\ OnlyWritten' /\ NotStale'
  BY TypeStep, ControlStep, WrittenStep, NotStaleStep DEF RxInv
<1>2. CASE Next
  BY <1>1, <1>2, RingsStep, HeadStep, OwnedStep DEF RxInv
<1>3. CASE UNCHANGED vars
  <2>1. UNCHANGED <<mem, cache, dirty, pc, rxIndex, rxCur, rxTail, rxFill, rxRun>>
    BY <1>3 DEF vars, driver, dma, memory
  <2>2. Rings' /\ AtHead'
    BY <2>1 DEF RxInv, Rings, Laid, Unlaid, AtHead, Before
  <2>3. Owned'
    <3>1. \A i \in Ring : Taken(i)' <=> Taken(i)
      BY <2>1, TakenStays
    <3> QED BY <2>1, <3>1 DEF RxInv, Owned, Laid, Before
  <2> QED BY <1>1, <2>2, <2>3 DEF RxInv
<1> QED BY <1>2, <1>3

LEMMA HandoverHolds ==
  ASSUME RxInv
  PROVE  RingHandover
<1> SUFFICES ASSUME rxRun
             PROVE  /\ \A i \in Usable : mem[RxDesc(i)] = "dma"
                    /\ \A i \in Waiting \ {rxIndex} : mem[RxDesc(i)] # "dma"
                    /\ Cardinality(Usable) + Cardinality(Waiting) = Count - 1
  BY DEF RingHandover
<1> TypeOK /\ Owned /\ rxIndex \in Ring /\ rxCur \in Ring /\ rxTail \in Ring
  BY DEF RxInv, TypeOK
<1>1. Laid /\ rxTail = Before(rxIndex)
  BY LaidWhenRunning DEF RxInv, Laid
<1>2. /\ Usable = {i \in Ring : Gap(rxCur, i) < Gap(rxCur, Before(rxIndex))}
      /\ Waiting = {i \in Ring : Taken(i)}
  BY <1>1, SpanIs DEF Usable, Waiting, Taken
<1>3. \A i \in Usable : i \in Ring /\ ~Taken(i)
  BY <1>2, GapSplits DEF Taken
<1>4. \A i \in Usable : mem[RxDesc(i)] = "dma"
  BY <1>1, <1>3 DEF Owned
<1>5. \A i \in Waiting \ {rxIndex} : mem[RxDesc(i)] # "dma"
  BY <1>1, <1>2 DEF Owned
<1>6. /\ Cardinality(Usable) = Gap(rxCur, Before(rxIndex))
      /\ Cardinality(Waiting) = Gap(rxIndex, rxCur)
  BY <1>1, SpanSize DEF Usable, Waiting
<1>7. Gap(rxCur, Before(rxIndex)) + Gap(rxIndex, rxCur) = Count - 1
  BY GapSplits
<1> QED BY <1>4, <1>5, <1>6, <1>7

\* The receive ring is handed over whole, in memory, however receives, closes,
\* evictions and speculative fetches interleave: what lies before the tail is the
\* DMA's, and all descriptors but the one kept apart are that or hold a frame.
THEOREM RingIsHandedOver == Spec => []RingHandover
<1>1. Init => RxInv
  BY RxInit
<1>2. RxInv /\ [Next]_vars => RxInv'
  BY RxStep
<1>3. RxInv => RingHandover
  BY HandoverHolds
<1> QED BY <1>1, <1>2, <1>3, PTL DEF Spec

-----------------------------------------------------------------------------
(* What the caller receives: the refinement of EthQueue. *)

\* Frames wait in the order they came, after the last one delivered; one that is
\* being filled comes after all of them.
Order ==
  /\ delivered <= arrived
  /\ rxFill # 0 => /\ rxFill = arrived /\ mem[RxBuf(rxCur)] = rxFill /\ delivered < rxFill
                   /\ \A i \in Ring : Taken(i) => mem[RxBuf(i)] < rxFill
  /\ \A i \in Ring : Taken(i) => delivered < mem[RxBuf(i)] /\ mem[RxBuf(i)] <= arrived
  /\ \A i, j \in Ring : Taken(i) /\ Taken(j) /\ Gap(rxIndex, i) < Gap(rxIndex, j)
                          => mem[RxBuf(i)] < mem[RxBuf(j)]

\* The copy is of what is in memory, although the cache held the buffer before.
Copied ==
  /\ pc = "receive_copy" /\ RxBuf(rxIndex) \in DOMAIN cache
       => cache[RxBuf(rxIndex)] = mem[RxBuf(rxIndex)]
  /\ pc \in {"recycle_sync", "recycle_desc", "recycle_publish", "recycle_kick"} /\ outcome = "OK"
       => got = mem[RxBuf(rxIndex)]

LEMMA BufsHold ==
  ASSUME TypeOK, NEW i \in Ring
  PROVE  mem[RxBuf(i)] \in Nat
BY LinesHold DEF TypeOK, MemoryOK, Fits

LEMMA FillStep ==
  ASSUME TypeOK, HwFill
  PROVE  /\ rxFill = 0 /\ rxFill' = arrived + 1 /\ arrived' = arrived + 1
         /\ UNCHANGED <<rxIndex, rxCur, rxTail, pc, got, outcome, delivered, cache, dirty>>
         /\ mem'[RxBuf(rxCur)] = arrived + 1
         /\ \A i \in Ring : i # rxCur => mem'[RxBuf(i)] = mem[RxBuf(i)]
<1>1. /\ mem'[RxBuf(rxCur)] = arrived + 1
      /\ \A k \in Line : k # RxBuf(rxCur) => mem'[k] = mem[k]
  BY OwnLines, DmaWrites DEF HwFill, TypeOK
<1> QED BY <1>1, LinesHold, LinesDiffer DEF HwFill, TypeOK

LEMMA CountsStay ==
  ASSUME Next, ~HwFill
  PROVE  /\ arrived' = arrived \/ (rxFill = 0 /\ rxFill' = 0 /\ arrived' = arrived + 1)
         /\ delivered' = delivered \/ RecycleKick
<1>1. CASE InitReset
  BY <1>1 DEF InitReset, dma, hist
<1>2. CASE InitNoPhy
  BY <1>2 DEF InitNoPhy, dma, hist
<1>w. CASE InitWithdraw
  BY <1>w DEF InitWithdraw, dma, hist
<1>r. CASE InitReady
  BY <1>r DEF InitReady, dma, hist
<1>f. CASE FaultStop
  BY <1>f DEF FaultStop, dma, hist
<1>3. CASE InitStart
  BY <1>3 DEF InitStart, dma, hist
<1>4. CASE SendRefused
  BY <1>4 DEF SendRefused, dma, hist
<1>5. CASE SendFaulted
  BY <1>5 DEF SendFaulted, EnterFault, dma, hist
<1>6. CASE SendOwn
  BY <1>6 DEF SendOwn, dma, hist
<1>7. CASE SendKick
  BY <1>7 DEF SendKick, dma, hist
<1>8. CASE SendCheck
  BY <1>8 DEF SendCheck, EnterFault, dma, hist
<1>9. CASE SendLook
  BY <1>9 DEF SendLook, dma, hist
<1>10. CASE SendGiveUp
  BY <1>10 DEF SendGiveUp, EnterFault, dma, hist
<1>11. CASE ReceiveRefused
  BY <1>11 DEF ReceiveRefused, dma, hist
<1>12. CASE ReceiveFaulted
  BY <1>12 DEF ReceiveFaulted, EnterFault, dma, hist
<1>13. CASE ReceiveOwn
  BY <1>13 DEF ReceiveOwn, dma, hist
<1>14. CASE ReceiveCopy
  BY <1>14 DEF ReceiveCopy, dma, hist
<1>15. CASE RecycleKick
  BY <1>15 DEF RecycleKick
<1>16. CASE LinkState
  BY <1>16 DEF LinkState, dma, hist
<1>17. CASE HwFetch
  BY <1>17 DEF HwFetch, dma, hist
<1>18. CASE HwDrop
  BY <1>18 DEF HwDrop, dma, hist
<1>19. CASE HwLink
  BY <1>19 DEF HwLink, dma, hist
<1>20. CASE Send
  BY <1>20 DEF Send, dma, hist
<1>21. CASE SendPoll
  BY <1>21 DEF SendPoll, dma, hist
<1>22. CASE Receive
  BY <1>22 DEF Receive, dma, hist
<1>23. CASE ReceiveSync
  BY <1>23 DEF ReceiveSync, dma, hist
<1>24. CASE RecycleSync
  BY <1>24 DEF RecycleSync, dma, hist
<1>25. CASE SendCopy
  BY <1>25 DEF SendCopy, dma, hist
<1>26. CASE SendDesc
  BY <1>26 DEF SendDesc, dma, hist
<1>27. CASE RecycleDesc
  BY <1>27 DEF RecycleDesc, dma, hist
<1>28. CASE SendClean
  BY <1>28 DEF SendClean, dma, hist
<1>29. CASE SendPublish
  BY <1>29 DEF SendPublish, dma, hist
<1>30. CASE RecyclePublish
  BY <1>30 DEF RecyclePublish, dma, hist
<1>31. CASE HwSent
  BY <1>31 DEF HwSent, dma, hist
<1>32. CASE HwClose
  BY <1>32 DEF HwClose, dma, hist
<1>33. CASE HwBusError
  BY <1>33 DEF HwBusError, dma, hist
<1>34. CASE InitRings
  BY <1>34 DEF InitRings, dma, hist
<1>35. ASSUME NEW l \in Line, Prefetch(l) \/ Evict(l) PROVE UNCHANGED hist
  BY <1>35 DEF Prefetch, Evict
<1> QED BY <1>w, <1>r, <1>f, <1>1, <1>2, <1>3, <1>4, <1>5, <1>6, <1>7, <1>8, <1>9, <1>10, <1>11,
         <1>12, <1>13,
         <1>14, <1>15, <1>16, <1>17, <1>18, <1>19, <1>20, <1>21, <1>22, <1>23, <1>24, <1>25,
         <1>26, <1>27, <1>28, <1>29, <1>30, <1>31, <1>32, <1>33, <1>34, <1>35 DEF Next,
         Driver, Hardware, hist

LEMMA OrderStep ==
  ASSUME RxInv, Order, Copied, Next
  PROVE  Order'
<1> TypeOK /\ OnlyWritten /\ rxIndex \in Ring /\ rxCur \in Ring
  BY DEF RxInv, TypeOK
<1> arrived \in Nat /\ delivered \in Nat /\ rxFill \in Nat /\ got \in Nat
  BY DEF TypeOK
<1>1. CASE HwFill
  <2>1. \A i \in Ring : Taken(i)' <=> Taken(i)
    BY <1>1, FillStep, TakenStays
  <2>2. \A i \in Ring : Taken(i) => i # rxCur
    BY HeadIsTaken
  <2>3. UNCHANGED <<rxIndex, rxCur, delivered>>
    BY <1>1, FillStep
  <2>4. \A i \in Ring : Gap(rxIndex, i)' = Gap(rxIndex, i)
    BY <2>3 DEF Gap
  <2>5. \A i \in Ring : Taken(i)' => /\ Taken(i) /\ mem'[RxBuf(i)] = mem[RxBuf(i)]
                                     /\ mem[RxBuf(i)] \in Nat
    BY <1>1, <2>1, <2>2, FillStep, BufsHold
  <2>6. rxFill' = arrived + 1 /\ arrived' = arrived + 1 /\ mem'[RxBuf(rxCur)] = arrived + 1
    BY <1>1, FillStep
  <2>7. \A i \in Ring : Taken(i)' => delivered' < mem'[RxBuf(i)] /\ mem'[RxBuf(i)] <= arrived
    BY <2>3, <2>5 DEF Order
  <2>8. \A i \in Ring : Taken(i)' => mem'[RxBuf(i)] < rxFill' /\ mem'[RxBuf(i)] <= arrived'
    BY <2>5, <2>6, <2>7
  <2>9. \A i, j \in Ring : Taken(i)' /\ Taken(j)' /\ Gap(rxIndex, i)' < Gap(rxIndex, j)'
                             => mem'[RxBuf(i)] < mem'[RxBuf(j)]
    BY <2>4, <2>5 DEF Order
  <2>10. delivered' <= arrived' /\ delivered' < rxFill'
    BY <2>3, <2>6 DEF Order
  <2> QED BY <2>3, <2>6, <2>7, <2>8, <2>9, <2>10 DEF Order
<1>2. CASE HwClose
  <2>1. /\ rxFill # 0 /\ rxFill' = 0 /\ UNCHANGED <<rxIndex, arrived, delivered>>
        /\ rxCur # Before(rxIndex) /\ rxCur' = After(rxCur)
    BY <1>2, CloseStep DEF HwClose, hist, RxInv
  <2>2. \A i \in Ring : Taken(i)' <=> Taken(i) \/ i = rxCur
    BY <2>1, ClosedIsTaken
  <2>3. \A i \in Ring : mem'[RxBuf(i)] = mem[RxBuf(i)] /\ mem[RxBuf(i)] \in Nat
    BY <1>2, RxBufsStay, BufsHold DEF HwClose, HwFill
  <2>4. \A i \in Ring : Gap(rxIndex, i)' = Gap(rxIndex, i) /\ Gap(rxIndex, i) \in Nat
    BY <2>1, GapIs DEF Gap, Ring
  <2>5. mem[RxBuf(rxCur)] = arrived /\ delivered < arrived
    BY <2>1 DEF Order
  <2>6. \A i \in Ring : Taken(i) => mem[RxBuf(i)] < mem[RxBuf(rxCur)]
    BY <2>1, <2>5 DEF Order
  <2>7. \A i \in Ring : Taken(i) => ~(Gap(rxIndex, rxCur) < Gap(rxIndex, i))
    BY <2>4 DEF Taken
  <2>8. \A i \in Ring : Taken(i)' => delivered' < mem'[RxBuf(i)] /\ mem'[RxBuf(i)] <= arrived'
    BY <2>1, <2>2, <2>3, <2>5 DEF Order
  <2>9. ASSUME NEW i \in Ring, NEW j \in Ring,
               Taken(i)', Taken(j)', Gap(rxIndex, i)' < Gap(rxIndex, j)'
        PROVE  mem'[RxBuf(i)] < mem'[RxBuf(j)]
    <3>1. Gap(rxIndex, i) < Gap(rxIndex, j) /\ (Taken(i) \/ i = rxCur) /\ (Taken(j) \/ j = rxCur)
      BY <2>2, <2>4, <2>9
    <3>2. CASE j = rxCur
      <4>1. i # rxCur
        BY <2>4, <3>1, <3>2
      <4> QED BY <2>3, <2>6, <3>1, <3>2, <4>1
    <3>3. CASE j # rxCur
      <4>1. Taken(j) /\ i # rxCur
        BY <2>7, <3>1, <3>3
      <4> QED BY <2>3, <3>1, <4>1 DEF Order
    <3> QED BY <3>2, <3>3
  <2> QED BY <2>1, <2>8, <2>9 DEF Order
<1>3. CASE RecycleKick
  <2>1. /\ pc = "recycle_kick" /\ rxIndex' = After(rxIndex)
        /\ UNCHANGED <<rxCur, mem, rxFill, arrived>>
        /\ delivered' = IF outcome = "OK" THEN got ELSE delivered
    BY <1>3 DEF RecycleKick, memory
  <2>2. rxCur # rxIndex /\ Taken(rxIndex)
    BY <2>1, HeadIsTaken DEF RxInv, AtHead, TakeSteps
  <2>3. \A i \in Ring : Taken(i)' <=> Taken(i) /\ i # rxIndex
    BY <2>1, <2>2, RecycledIsNotTaken
  <2>4. \A i \in Ring : mem[RxBuf(i)] \in Nat /\ Gap(rxIndex, i) \in Nat
    BY BufsHold, GapIs DEF Ring
  <2>5. \A i \in Ring : i # rxIndex => Gap(rxIndex, rxIndex) < Gap(rxIndex, i)
    BY <2>4, GapZero
  <2>6. \A i \in Ring : Taken(i) /\ i # rxIndex => mem[RxBuf(rxIndex)] < mem[RxBuf(i)]
    BY <2>2, <2>5 DEF Order
  <2>7. delivered' = delivered \/ delivered' = mem[RxBuf(rxIndex)]
    BY <2>1 DEF Copied
  <2>8. \A i \in Ring : Taken(i)' => delivered' < mem'[RxBuf(i)] /\ mem'[RxBuf(i)] <= arrived'
    BY <2>1, <2>3, <2>6, <2>7 DEF Order
  <2>9. delivered' <= arrived' /\ (rxFill' # 0 => delivered' < rxFill')
    BY <2>1, <2>2, <2>7 DEF Order
  <2>10. rxFill' # 0 => /\ rxFill' = arrived' /\ mem'[RxBuf(rxCur')] = rxFill'
                        /\ \A i \in Ring : Taken(i)' => mem'[RxBuf(i)] < rxFill'
    BY <2>1, <2>3 DEF Order
  <2>11. \A i \in Ring : i # rxIndex => Gap(rxIndex, i)' = Gap(rxIndex, i) - 1
    <3>1. SUFFICES ASSUME NEW i \in Ring, i # rxIndex PROVE Gap(rxIndex, i)' = Gap(rxIndex, i) - 1
      OBVIOUS
    <3>2. Gap(rxIndex, i)' = Gap(After(rxIndex), i)
      BY <2>1 DEF Gap
    <3> QED BY <3>1, <3>2, GapFromAfter
  <2>12. \A i, j \in Ring : Taken(i)' /\ Taken(j)' /\ Gap(rxIndex, i)' < Gap(rxIndex, j)'
                             => mem'[RxBuf(i)] < mem'[RxBuf(j)]
    BY <2>1, <2>3, <2>4, <2>11 DEF Order
  <2> QED BY <2>8, <2>9, <2>10, <2>12 DEF Order
<1>4. CASE InitRings
  <2>1. /\ rxIndex' = 0 /\ rxCur' = 0 /\ rxFill' = 0 /\ 0 \in Ring
        /\ UNCHANGED <<arrived, delivered>>
    BY <1>4, CountIs DEF InitRings, RxInv, Control, hist, Ring
  <2>2. \A i \in Ring : ~Taken(i)'
    <3>1. SUFFICES ASSUME NEW i \in Ring PROVE ~(Gap(0, i) < Gap(0, 0))
      BY <2>1 DEF Taken
    <3>2. Gap(0, 0) = 0 /\ Gap(0, i) \in Nat
      BY <2>1, GapZero, GapIs DEF Ring
    <3> QED BY <3>2
  <2> QED BY <2>1, <2>2 DEF Order
<1>5. ASSUME ~HwFill, ~HwClose, ~RecycleKick, ~InitRings
      PROVE  Order'
  <2>1. UNCHANGED <<rxIndex, rxCur, rxTail>>
    BY <1>5, RxPointersStay
  <2>2. \A i \in Ring : Taken(i)' <=> Taken(i)
    BY <2>1, TakenStays
  <2>3. \A i \in Ring : mem'[RxBuf(i)] = mem[RxBuf(i)] /\ mem[RxBuf(i)] \in Nat
    BY <1>5, RxBufsStay, BufsHold
  <2>4. \A i \in Ring : Gap(rxIndex, i)' = Gap(rxIndex, i)
    BY <2>1 DEF Gap
  <2>5. /\ delivered' = delivered
        /\ arrived' = arrived \/ (rxFill' = 0 /\ arrived' = arrived + 1)
        /\ rxFill' # 0 => rxFill' = rxFill
    BY <1>5, CountsStay, FillsStay
  <2>6. \A i \in Ring : Taken(i)' => delivered' < mem'[RxBuf(i)] /\ mem'[RxBuf(i)] <= arrived'
    BY <2>2, <2>3, <2>5 DEF Order
  <2>7. \A i, j \in Ring : Taken(i)' /\ Taken(j)' /\ Gap(rxIndex, i)' < Gap(rxIndex, j)'
                             => mem'[RxBuf(i)] < mem'[RxBuf(j)]
    BY <2>2, <2>3, <2>4 DEF Order
  <2>8. rxFill' # 0 => /\ rxFill' = arrived' /\ mem'[RxBuf(rxCur')] = rxFill'
                       /\ delivered' < rxFill'
                       /\ \A i \in Ring : Taken(i)' => mem'[RxBuf(i)] < rxFill'
    BY <2>1, <2>2, <2>3, <2>5 DEF Order
  <2>9. delivered' <= arrived'
    BY <2>5 DEF Order
  <2> QED BY <2>6, <2>7, <2>8, <2>9 DEF Order
<1> QED BY <1>1, <1>2, <1>3, <1>4, <1>5

LEMMA CopiedStep ==
  ASSUME RxInv, Copied, Next
  PROVE  Copied'
<1> DEFINE Buf == RxBuf(rxIndex)
           After4 == {"recycle_sync", "recycle_desc", "recycle_publish", "recycle_kick"}
<1> TypeOK /\ OnlyWritten /\ MemoryOK /\ rxIndex \in Ring /\ rxCur \in Ring /\ Buf \in Line
  BY LinesHold DEF RxInv, TypeOK
<1> HIDE DEF Buf
<1>1. pc \in TakeSteps => mem'[Buf] = mem[Buf]
  <2>1. CASE HwFill
    <3>1. pc \in TakeSteps => rxCur # rxIndex
      BY DEF RxInv, AtHead
    <3> QED BY <2>1, <3>1, FillStep DEF Buf
  <2>2. CASE ~HwFill
    BY <2>2, RxBufsStay DEF Buf
  <2> QED BY <2>1, <2>2
<1>2. CASE pc' # "receive_copy" /\ pc' \notin After4
  BY <1>2 DEF Copied
<1>3. CASE ReceiveOwn
  <2>1. pc' # "receive_copy" /\ (pc' \in After4 => outcome' # "OK")
    BY <1>3 DEF ReceiveOwn, Return, Goto
  <2> QED BY <2>1 DEF Copied
<1>4. CASE ReceiveSync
  <2>1. Invalidate(Buf) /\ pc' = "receive_copy" /\ rxIndex' = rxIndex
    BY <1>4 DEF ReceiveSync, Advance, Goto, Buf
  <2>2. Buf \notin DOMAIN cache'
    BY <2>1, Invalidates
  <2> QED BY <2>1, <2>2 DEF Copied, Buf
<1>5. CASE ReceiveCopy
  <2>1. /\ pc = "receive_copy" /\ pc' = "recycle_sync" /\ rxIndex' = rxIndex /\ mem' = mem
        /\ got' = Load(Buf)
    BY <1>5 DEF ReceiveCopy, Goto, memory, Buf
  <2>2. Load(Buf) = mem[Buf]
    BY <2>1 DEF Copied, Load, Buf
  <2> QED BY <2>1, <2>2 DEF Copied, Buf
<1>6. CASE RecycleSync \/ RecycleDesc \/ RecyclePublish
  <2>1. /\ pc \in After4 /\ pc' \in After4 /\ UNCHANGED <<rxIndex, got, outcome>>
    BY <1>6 DEF RecycleSync, RecycleDesc, RecyclePublish, Advance, Goto
  <2>2. mem'[Buf] = mem[Buf]
    BY <2>1, <1>1 DEF TakeSteps
  <2> QED BY <2>1, <2>2 DEF Copied, Buf
<1>7. ASSUME pc \in TakeSteps, UNCHANGED <<pc, rxIndex, got, outcome>>,
             Buf \in DOMAIN cache' /\ pc = "receive_copy" => cache'[Buf] = mem[Buf]
      PROVE  Copied'
  BY <1>1, <1>7 DEF Copied, Buf
<1>8. ASSUME pc \in TakeSteps, Hardware
      PROVE  Copied'
  <2>1. UNCHANGED <<pc, rxIndex, got, outcome, cache>>
    BY <1>8 DEF Hardware, HwFetch, HwSent, HwFill, HwClose, HwDrop, HwBusError, HwLink, memory
  <2>2. Buf \in DOMAIN cache' /\ pc = "receive_copy" => cache'[Buf] = mem[Buf]
    BY <2>1 DEF Copied, Buf
  <2> QED BY <1>7, <1>8, <2>1, <2>2
<1>9. ASSUME pc \in TakeSteps, NEW l \in Line, Prefetch(l)
      PROVE  Copied'
  <2>1. UNCHANGED <<pc, rxIndex, got, outcome>>
    BY <1>9 DEF Prefetch, driver
  <2>2. /\ DOMAIN cache' = DOMAIN cache \cup {l} /\ cache'[l] = mem[l]
        /\ \A k \in DOMAIN cache : cache'[k] = cache[k]
    BY <1>9, Prefetches
  <2>3. Buf \in DOMAIN cache' /\ pc = "receive_copy" => cache'[Buf] = mem[Buf]
    <3>1. CASE Buf \in DOMAIN cache
      BY <2>2, <3>1 DEF Copied, Buf
    <3>2. CASE Buf \notin DOMAIN cache
      BY <2>2, <3>2
    <3> QED BY <3>1, <3>2
  <2> QED BY <1>7, <1>9, <2>1, <2>3
<1>10. ASSUME pc \in TakeSteps, NEW l \in Line, Evict(l)
       PROVE  Copied'
  <2>1. UNCHANGED <<pc, rxIndex, got, outcome>>
    BY <1>10 DEF Evict, driver
  <2>2. DOMAIN cache' = DOMAIN cache \ {l} /\ \A k \in DOMAIN cache' : cache'[k] = cache[k]
    BY <1>10, Evicts
  <2>3. Buf \in DOMAIN cache' /\ pc = "receive_copy" => cache'[Buf] = mem[Buf]
    BY <2>2 DEF Copied, Buf
  <2> QED BY <1>7, <1>10, <2>1, <2>3
<1>11. ASSUME Driver, ~ReceiveOwn, ~ReceiveSync, ~ReceiveCopy,
              ~RecycleSync, ~RecycleDesc, ~RecyclePublish
       PROVE  pc' # "receive_copy" /\ pc' \notin After4
  <2>1. CASE InitReset
    BY <2>1 DEF InitReset, Return, Advance, Goto, EnterFault
  <2>2. CASE InitNoPhy
    BY <2>2 DEF InitNoPhy, Return, Advance, Goto, EnterFault
  <2>w. CASE InitWithdraw
    BY <2>w DEF InitWithdraw, Return, Advance, Goto, EnterFault
  <2>r. CASE InitReady
    BY <2>r DEF InitReady, Return, Advance, Goto, EnterFault
  <2>f. CASE FaultStop
    BY <2>f DEF FaultStop, Return, Advance, Goto, EnterFault
  <2>3. CASE InitStart
    BY <2>3 DEF InitStart, Return, Advance, Goto, EnterFault
  <2>4. CASE SendRefused
    BY <2>4 DEF SendRefused, Return, Advance, Goto, EnterFault
  <2>5. CASE SendFaulted
    BY <2>5 DEF SendFaulted, Return, Advance, Goto, EnterFault
  <2>6. CASE SendOwn
    BY <2>6 DEF SendOwn, Return, Advance, Goto, EnterFault
  <2>7. CASE SendKick
    BY <2>7 DEF SendKick, Return, Advance, Goto, EnterFault
  <2>8. CASE SendCheck
    BY <2>8 DEF SendCheck, Return, Advance, Goto, EnterFault
  <2>9. CASE SendLook
    BY <2>9 DEF SendLook, Return, Advance, Goto, EnterFault
  <2>10. CASE SendGiveUp
    BY <2>10 DEF SendGiveUp, Return, Advance, Goto, EnterFault
  <2>11. CASE ReceiveRefused
    BY <2>11 DEF ReceiveRefused, Return, Advance, Goto, EnterFault
  <2>12. CASE ReceiveFaulted
    BY <2>12 DEF ReceiveFaulted, Return, Advance, Goto, EnterFault
  <2>13. CASE RecycleKick
    BY <2>13 DEF RecycleKick, Return, Advance, Goto, EnterFault
  <2>14. CASE LinkState
    BY <2>14 DEF LinkState, Return, Advance, Goto, EnterFault
  <2>15. CASE Send
    BY <2>15 DEF Send, Return, Advance, Goto, EnterFault
  <2>16. CASE SendPoll
    BY <2>16 DEF SendPoll, Return, Advance, Goto, EnterFault
  <2>17. CASE Receive
    BY <2>17 DEF Receive, Return, Advance, Goto, EnterFault
  <2>18. CASE SendCopy
    BY <2>18 DEF SendCopy, Return, Advance, Goto, EnterFault
  <2>19. CASE SendDesc
    BY <2>19 DEF SendDesc, Return, Advance, Goto, EnterFault
  <2>20. CASE SendClean
    BY <2>20 DEF SendClean, Return, Advance, Goto, EnterFault
  <2>21. CASE SendPublish
    BY <2>21 DEF SendPublish, Return, Advance, Goto, EnterFault
  <2>22. CASE InitRings
    BY <2>22 DEF InitRings, Return, Advance, Goto, EnterFault
  <2> QED BY <2>w, <2>r, <2>f, <1>11, <2>1, <2>2, <2>3, <2>4, <2>5, <2>6, <2>7, <2>8, <2>9,
         <2>10, <2>11,
           <2>12, <2>13, <2>14, <2>15, <2>16, <2>17, <2>18, <2>19, <2>20, <2>21, <2>22 DEF Driver
<1>12. ASSUME Hardware \/ \E l \in Line : Prefetch(l) \/ Evict(l),
              pc' = "receive_copy" \/ pc' \in After4
       PROVE  pc \in TakeSteps
  <2>1. pc' = pc
    BY <1>12 DEF Hardware, HwFetch, HwSent, HwFill, HwClose, HwDrop, HwBusError, HwLink,
                 Prefetch, Evict, driver
  <2> QED BY <1>12, <2>1 DEF TakeSteps
<1> QED BY <1>2, <1>3, <1>4, <1>5, <1>6, <1>8, <1>9, <1>10, <1>11, <1>12 DEF Next

\* The frames that wait, as the queue sees them.
Frames == [k \in 1 .. Gap(rxIndex, rxCur) |-> mem[RxBuf((rxIndex + k - 1) % Count)]]

FramesRight ==
  /\ Frames \in Seq(Nat) /\ Len(Frames) = Gap(rxIndex, rxCur)
  /\ \A i \in Ring : Taken(i) => Frames[Gap(rxIndex, i) + 1] = mem[RxBuf(i)]
  /\ \A k \in 1 .. Len(Frames) :
       \E i \in Ring : Taken(i) /\ k = Gap(rxIndex, i) + 1 /\ Frames[k] = mem[RxBuf(i)]

LEMMA FramesAre ==
  ASSUME TypeOK
  PROVE  /\ Frames \in Seq(Nat) /\ Len(Frames) = Gap(rxIndex, rxCur) /\ Len(Frames) \in Nat
         /\ \A i \in Ring : Taken(i) => /\ Gap(rxIndex, i) + 1 \in 1 .. Len(Frames)
                                        /\ Frames[Gap(rxIndex, i) + 1] = mem[RxBuf(i)]
         /\ \A k \in 1 .. Len(Frames) :
              \E i \in Ring : Taken(i) /\ k = Gap(rxIndex, i) + 1 /\ Frames[k] = mem[RxBuf(i)]
<1> DEFINE g == Gap(rxIndex, rxCur)
           slot(k) == (rxIndex + k - 1) % Count
<1>1. g \in Ring /\ g \in Nat /\ rxIndex \in Ring
  BY GapIs DEF TypeOK, Ring
<1>2. Frames = [k \in 1 .. g |-> mem[RxBuf(slot(k))]]
  BY DEF Frames
<1>3. ASSUME NEW k \in 1 .. g
      PROVE  slot(k) \in Ring /\ Gap(rxIndex, slot(k)) = k - 1 /\ Taken(slot(k))
             /\ mem[RxBuf(slot(k))] \in Nat
  <2>1. k - 1 \in Ring /\ k - 1 < g
    BY <1>1, CountIs DEF Ring
  <2>2. slot(k) \in Ring /\ Gap(rxIndex, slot(k)) = k - 1
    BY <1>1, <2>1, Offset
  <2>3. Gap(rxIndex, slot(k)) < Gap(rxIndex, rxCur)
    BY <2>1, <2>2
  <2> QED BY <2>2, <2>3, BufsHold DEF Taken
<1> HIDE DEF slot
<1>4. Frames \in [1 .. g -> Nat]
  BY <1>2, <1>3
<1>5. Frames \in Seq(Nat) /\ Len(Frames) = g
  BY <1>1, <1>4
<1>6. \A k \in 1 .. g : Frames[k] = mem[RxBuf(slot(k))]
  BY <1>2
<1>7. ASSUME NEW i \in Ring, Taken(i)
      PROVE  Gap(rxIndex, i) + 1 \in 1 .. g /\ Frames[Gap(rxIndex, i) + 1] = mem[RxBuf(i)]
  <2>1. Gap(rxIndex, i) \in Nat /\ Gap(rxIndex, i) < g
    BY <1>1, <1>7, GapIs DEF Taken, Ring
  <2>2. Gap(rxIndex, i) + 1 \in 1 .. g
    BY <1>1, <2>1
  <2>3. Gap(rxIndex, slot(Gap(rxIndex, i) + 1)) = Gap(rxIndex, i)
        /\ slot(Gap(rxIndex, i) + 1) \in Ring
    BY <1>3, <2>1, <2>2
  <2>4. slot(Gap(rxIndex, i) + 1) = i
    BY <1>1, <2>3, GapSame
  <2> QED BY <1>6, <2>2, <2>4
<1>8. ASSUME NEW k \in 1 .. g
      PROVE  \E i \in Ring : Taken(i) /\ k = Gap(rxIndex, i) + 1 /\ Frames[k] = mem[RxBuf(i)]
  BY <1>1, <1>3, <1>6
<1> QED BY <1>1, <1>5, <1>7, <1>8

\* The queue is a function of what is taken.
LEMMA FramesStay ==
  ASSUME TypeOK, UNCHANGED <<rxIndex, rxCur>>,
         \A i \in Ring : Taken(i) => mem'[RxBuf(i)] = mem[RxBuf(i)]
  PROVE  Frames' = Frames
<1> DEFINE g == Gap(rxIndex, rxCur)
           slot(k) == (rxIndex + k - 1) % Count
<1>1. g \in Ring /\ g \in Nat /\ rxIndex \in Ring
  BY GapIs DEF TypeOK, Ring
<1>2. ASSUME NEW k \in 1 .. g
      PROVE  mem'[RxBuf(slot(k))] = mem[RxBuf(slot(k))]
  <2>1. k - 1 \in Ring /\ k - 1 < g
    BY <1>1, CountIs DEF Ring
  <2>2. slot(k) \in Ring /\ Gap(rxIndex, slot(k)) = k - 1
    BY <1>1, <2>1, Offset
  <2>3. Gap(rxIndex, slot(k)) < Gap(rxIndex, rxCur)
    BY <2>1, <2>2
  <2> QED BY <2>2, <2>3 DEF Taken
<1>3. /\ Frames = [k \in 1 .. g |-> mem[RxBuf(slot(k))]]
      /\ Frames' = [k \in 1 .. g |-> mem'[RxBuf(slot(k))]]
  BY DEF Frames, Gap
<1> QED BY <1>2, <1>3

\* A fact of every state, of the one a step leads to as well.
LEMMA FramesRightAlways == TypeOK => FramesRight
BY FramesAre DEF FramesRight

LEMMA FramesRightNext == TypeOK' => FramesRight'
BY FramesRightAlways, PTL

LEMMA FramesAreNext ==
  ASSUME TypeOK'
  PROVE  /\ Frames' \in Seq(Nat) /\ Len(Frames') = Gap(rxIndex, rxCur)'
         /\ \A i \in Ring : Taken(i)' => Frames'[Gap(rxIndex, i)' + 1] = mem'[RxBuf(i)]
         /\ \A k \in 1 .. Len(Frames') :
              \E i \in Ring : Taken(i)' /\ k = Gap(rxIndex, i)' + 1 /\ Frames'[k] = mem'[RxBuf(i)]
<1>1. FramesRight'
  BY FramesRightNext
<1> QED BY <1>1 DEF FramesRight

LEMMA QueueAccepts ==
  ASSUME Len(Frames) < Count - 1, Len(Frames') = Len(Frames) + 1,
         \A k \in 1 .. Len(Frames) : Frames'[k] = Frames[k] /\ Frames[k] < Frames'[Len(Frames')],
         delivered < Frames'[Len(Frames')], UNCHANGED delivered
  PROVE  Queue!Accept
BY DEF Queue!Accept, Frames, Gap

LEMMA QueueTakes ==
  ASSUME Frames # <<>>, delivered' = Head(Frames), Frames' = Tail(Frames)
  PROVE  Queue!Take
BY DEF Queue!Take, Frames, Gap

LEMMA QueueDiscards ==
  ASSUME Frames # <<>>, UNCHANGED delivered, Frames' = Tail(Frames)
  PROVE  Queue!Discard
BY DEF Queue!Discard, Frames, Gap

LEMMA QueueForgets ==
  ASSUME Frames' = <<>>, UNCHANGED delivered
  PROVE  Queue!Forget
BY DEF Queue!Forget, Frames, Gap

LEMMA QueueStutters ==
  ASSUME Frames' = Frames, UNCHANGED delivered
  PROVE  UNCHANGED Queue!vars
BY DEF Queue!vars, Frames, Gap

\* HwClose is Accept.
LEMMA CloseAccepts ==
  ASSUME RxInv, RxInv', Order, HwClose, Next
  PROVE  Queue!Accept
<1> TypeOK /\ TypeOK' /\ OnlyWritten /\ Rings /\ rxIndex \in Ring /\ rxCur \in Ring
  BY DEF RxInv, TypeOK
<1> DEFINE g == Gap(rxIndex, rxCur)
<1>1. /\ rxFill # 0 /\ UNCHANGED <<rxIndex, delivered>>
      /\ rxCur # Before(rxIndex) /\ rxCur' = After(rxCur)
  BY CloseStep DEF HwClose, hist
<1>2. /\ Gap(rxIndex, rxCur)' = g + 1 /\ g \in Nat /\ g < Count - 1
  <2>1. Gap(rxIndex, rxCur)' = Gap(rxIndex, After(rxCur))
    BY <1>1 DEF Gap
  <2>2. Gap(rxIndex, After(rxCur)) = g + 1 /\ Gap(rxIndex, After(rxCur)) \in Ring
    BY <1>1, GapToAfter, GapIs, AfterIs
  <2>3. g \in Ring
    BY GapIs
  <2> QED BY <2>1, <2>2, <2>3, CountIs DEF Ring
<1>3. \A i \in Ring : Taken(i)' <=> Taken(i) \/ i = rxCur
  BY <1>1, ClosedIsTaken
<1>4. \A i \in Ring : mem'[RxBuf(i)] = mem[RxBuf(i)] /\ mem[RxBuf(i)] \in Nat
  BY RxBufsStay, BufsHold DEF HwClose, HwFill
<1>5. \A i \in Ring : Gap(rxIndex, i)' = Gap(rxIndex, i)
  BY <1>1 DEF Gap
<1>6. Len(Frames) = g /\ Len(Frames') = g + 1
  <2>1. Len(Frames) = g
    BY FramesAre
  <2>2. Len(Frames') = Gap(rxIndex, rxCur)'
    BY FramesAreNext
  <2> QED BY <1>2, <2>1, <2>2
<1>7. Frames'[g + 1] = mem[RxBuf(rxCur)]
  <2>1. Frames'[Gap(rxIndex, rxCur) + 1] = mem'[RxBuf(rxCur)]
    BY <1>3, <1>5, FramesAreNext
  <2> QED BY <1>4, <2>1
<1>8. mem[RxBuf(rxCur)] = rxFill /\ delivered < rxFill
  BY <1>1 DEF Order
<1>9. ASSUME NEW k \in 1 .. Len(Frames)
      PROVE  Frames'[k] = Frames[k] /\ Frames[k] < rxFill
  <2>1. PICK i \in Ring : Taken(i) /\ k = Gap(rxIndex, i) + 1 /\ Frames[k] = mem[RxBuf(i)]
    BY FramesAre
  <2>2. Frames'[Gap(rxIndex, i) + 1] = mem'[RxBuf(i)]
    BY <1>3, <1>5, <2>1, FramesAreNext
  <2> QED BY <1>1, <1>4, <2>1, <2>2 DEF Order
<1> HIDE DEF g
<1>10. Len(Frames) < Count - 1 /\ Len(Frames') = Len(Frames) + 1
  BY <1>2, <1>6
<1>11. Frames'[Len(Frames')] = rxFill
  BY <1>6, <1>7, <1>8
<1> QED BY <1>1, <1>8, <1>9, <1>10, <1>11, QueueAccepts

\* RecycleKick is Take when a frame was copied, Discard otherwise.
LEMMA KickTakes ==
  ASSUME RxInv, RxInv', Copied, RecycleKick
  PROVE  Queue!Take \/ Queue!Discard
<1> TypeOK /\ TypeOK' /\ rxIndex \in Ring /\ rxCur \in Ring
  BY DEF RxInv, TypeOK
<1> DEFINE g == Gap(rxIndex, rxCur)
<1>1. /\ pc = "recycle_kick" /\ rxIndex' = After(rxIndex) /\ UNCHANGED <<rxCur, mem>>
      /\ delivered' = IF outcome = "OK" THEN got ELSE delivered
  BY DEF RecycleKick, memory
<1>2. rxCur # rxIndex /\ Taken(rxIndex) /\ Gap(rxIndex, rxIndex) = 0
  BY <1>1, HeadIsTaken, GapZero DEF RxInv, AtHead, TakeSteps
<1>3. \A i \in Ring : Taken(i)' <=> Taken(i) /\ i # rxIndex
  BY <1>1, <1>2, RecycledIsNotTaken
<1>4. ASSUME NEW i \in Ring, i # rxIndex
      PROVE  Gap(rxIndex, i)' = Gap(rxIndex, i) - 1
  <2>1. Gap(rxIndex, i)' = Gap(After(rxIndex), i)
    BY <1>1 DEF Gap
  <2> QED BY <1>4, <2>1, GapFromAfter
<1>5. Frames \in Seq(Nat) /\ Len(Frames) = g /\ g \in Nat
  BY FramesAre
<1>6. Frames' \in Seq(Nat) /\ Len(Frames') = g - 1
  <2>1. Frames' \in Seq(Nat) /\ Len(Frames') = Gap(rxIndex, rxCur)'
    BY FramesAreNext
  <2>2. Gap(rxIndex, rxCur)' = Gap(After(rxIndex), rxCur)
    BY <1>1 DEF Gap
  <2>3. Gap(After(rxIndex), rxCur) = g - 1
    BY <1>2, GapFromAfter
  <2> QED BY <2>1, <2>2, <2>3
<1>7. g # 0
  BY <1>2, GapZero
<1>8. Frames # <<>>
  BY <1>5, <1>7, EmptySeq
<1>9. Head(Frames) = mem[RxBuf(rxIndex)]
  <2>1. Frames[Gap(rxIndex, rxIndex) + 1] = mem[RxBuf(rxIndex)]
    BY <1>2, FramesAre
  <2>2. Head(Frames) = Frames[1]
    BY <1>5, <1>8
  <2> QED BY <1>2, <2>1, <2>2
<1>10. Tail(Frames) \in Seq(Nat) /\ Len(Tail(Frames)) = Len(Frames) - 1
       /\ \A k \in 1 .. Len(Tail(Frames)) : Tail(Frames)[k] = Frames[k + 1]
  BY <1>5, <1>8, HeadTailProperties
<1>11. ASSUME NEW k \in 1 .. Len(Frames')
       PROVE  Frames'[k] = Frames[k + 1]
  <2>1. PICK i \in Ring : Taken(i)' /\ k = Gap(rxIndex, i)' + 1 /\ Frames'[k] = mem'[RxBuf(i)]
    BY FramesAreNext
  <2>2. Taken(i) /\ i # rxIndex
    BY <1>3, <2>1
  <2>3. Gap(rxIndex, i) \in Nat /\ Gap(rxIndex, i)' = Gap(rxIndex, i) - 1
    BY <1>4, <2>2, GapIs DEF Ring
  <2>4. k + 1 = Gap(rxIndex, i) + 1
    BY <2>1, <2>3
  <2>5. Frames[Gap(rxIndex, i) + 1] = mem[RxBuf(i)]
    BY <2>2, FramesAre
  <2> QED BY <1>1, <2>1, <2>4, <2>5
<1> HIDE DEF g
<1>12. Frames' = Tail(Frames)
  <2>1. Len(Frames') = Len(Tail(Frames))
    BY <1>5, <1>6, <1>10
  <2>2. \A k \in 1 .. Len(Frames') : Frames'[k] = Tail(Frames)[k]
    BY <1>10, <1>11, <2>1
  <2> QED BY <1>6, <1>10, <2>1, <2>2, SeqEqual
<1>13. CASE outcome = "OK"
  <2>1. delivered' = Head(Frames)
    BY <1>1, <1>9, <1>13 DEF Copied
  <2> QED BY <1>8, <1>12, <2>1, QueueTakes
<1>14. CASE outcome # "OK"
  BY <1>1, <1>8, <1>12, <1>14, QueueDiscards
<1> QED BY <1>13, <1>14

LEMMA QueueStep ==
  ASSUME RxInv, RxInv', Order, Copied, Next
  PROVE  [Queue!Next]_(Queue!vars)
<1> TypeOK /\ OnlyWritten /\ rxIndex \in Ring /\ rxCur \in Ring
  BY DEF RxInv, TypeOK
<1>1. CASE HwClose
  BY <1>1, CloseAccepts DEF Queue!Next
<1>2. CASE RecycleKick
  BY <1>2, KickTakes DEF Queue!Next
<1>3. CASE InitRings
  <2>1. rxIndex' = 0 /\ rxCur' = 0 /\ delivered' = delivered /\ 0 \in Ring
    BY <1>3, CountIs DEF InitRings, hist, Ring
  <2>2. Gap(rxIndex, rxCur)' = Gap(0, 0) /\ Gap(0, 0) = 0
    BY <2>1, GapZero DEF Gap
  <2>3. Frames' \in Seq(Nat) /\ Len(Frames') = 0
    BY <2>2, FramesAreNext DEF RxInv
  <2>4. Frames' = <<>>
    BY <2>3, EmptySeq
  <2> QED BY <2>1, <2>4, QueueForgets DEF Queue!Next
<1>4. ASSUME ~HwClose, ~RecycleKick, ~InitRings
      PROVE  UNCHANGED Queue!vars
  <2>1. UNCHANGED <<rxIndex, rxCur>>
    BY <1>4, RxPointersStay
  <2>2. \A i \in Ring : Taken(i) => mem'[RxBuf(i)] = mem[RxBuf(i)]
    <3>1. CASE HwFill
      BY <3>1, FillStep, HeadIsTaken
    <3>2. CASE ~HwFill
      BY <3>2, RxBufsStay
    <3> QED BY <3>1, <3>2
  <2>3. Frames' = Frames
    BY <2>1, <2>2, FramesStay
  <2>4. delivered' = delivered
    <3>1. CASE HwFill
      BY <3>1 DEF HwFill
    <3>2. CASE ~HwFill
      BY <1>4, <3>2, CountsStay
    <3> QED BY <3>1, <3>2
  <2> QED BY <2>3, <2>4, QueueStutters
<1> QED BY <1>1, <1>2, <1>3, <1>4

QueueInv == RxInv /\ Order /\ Copied

LEMMA QueueInvStep ==
  ASSUME QueueInv, [Next]_vars
  PROVE  QueueInv' /\ [Queue!Next]_(Queue!vars)
<1>1. RxInv'
  BY RxStep DEF QueueInv
<1>2. CASE Next
  BY <1>1, <1>2, OrderStep, CopiedStep, QueueStep DEF QueueInv
<1>3. CASE UNCHANGED vars
  <2>1. UNCHANGED <<mem, cache, pc, rxIndex, rxCur, rxFill, got, outcome, delivered, arrived>>
    BY <1>3 DEF vars, driver, dma, memory, hist
  <2>2. \A i \in Ring : (Taken(i)' <=> Taken(i)) /\ Gap(rxIndex, i)' = Gap(rxIndex, i)
    BY <2>1, TakenStays DEF Gap
  <2>3. Order' /\ Copied'
    BY <2>1, <2>2 DEF QueueInv, Order, Copied
  <2>4. Frames' = Frames
    BY <2>1 DEF Frames, Gap
  <2> QED BY <1>1, <2>1, <2>3, <2>4, QueueStutters DEF QueueInv
<1> QED BY <1>2, <1>3

LEMMA QueueInit ==
  ASSUME Init
  PROVE  QueueInv /\ Queue!Init
<1>1. RxInv
  BY RxInit
<1>2. rxIndex = 0 /\ rxCur = 0 /\ rxFill = 0 /\ delivered = 0 /\ arrived = 0 /\ pc = "idle"
  BY DEF Init
<1>3. 0 \in Ring /\ Gap(0, 0) = 0
  BY CountIs, GapZero DEF Ring
<1>4. \A i \in Ring : ~Taken(i)
  <2>1. \A i \in Ring : Gap(0, i) \in Nat
    BY <1>3, GapIs DEF Ring
  <2> QED BY <1>2, <1>3, <2>1 DEF Taken
<1>5. Order /\ Copied
  BY <1>2, <1>4 DEF Order, Copied
<1>6. Frames = <<>>
  <2>1. Frames \in Seq(Nat) /\ Len(Frames) = 0
    BY <1>1, <1>2, <1>3, FramesAre DEF RxInv
  <2> QED BY <2>1, EmptySeq
<1>7. Queue!Init
  BY <1>2, <1>6 DEF Queue!Init, Frames, Gap
<1> QED BY <1>1, <1>5, <1>7 DEF QueueInv

\* das_eth_receive implements a first-in first-out queue of Count - 1 frames:
\* each frame the DMA accepted is returned once, whole and in order, or discarded
\* at its turn, through a cache that may hold old copies of buffers and
\* descriptors; only das_eth_init forgets frames.
THEOREM ReceivesAreAQueue == Spec => KeepsQueue
<1>1. Init => QueueInv /\ Queue!Init
  BY QueueInit
<1>2. QueueInv /\ [Next]_vars => QueueInv' /\ [Queue!Next]_(Queue!vars)
  BY QueueInvStep
<1> QED BY <1>1, <1>2, PTL DEF Spec, KeepsQueue, Queue!Spec

=============================================================================
