---------------------------- MODULE UartIoProofs ----------------------------
(***************************************************************************)
(* Theorems about UartIo, for every length of a write or read and any      *)
(* number of writes and frames.                                            *)
(***************************************************************************)
EXTENDS UartIo, SequenceTheorems, TLAPS

-----------------------------------------------------------------------------
(* The invariant. *)

Byte == Nat \X Nat

TypeInv ==
  /\ pc \in {"idle", "ack", "status", "clear", "data", "clock"} /\ op \in Ops
  /\ index \in 0 .. Count /\ writes \in Nat /\ arrived \in Nat
  /\ tdr \in Byte /\ shift \in Byte /\ wire \in Seq(Byte)
  /\ rdr \in 0 .. arrived /\ harmed \subseteq 1 .. arrived

\* A call runs on a UART that is on, and finds what it has seen to be there.
CallInv ==
  /\ pc # "idle" => enabled
  /\ pc \in {"idle", "ack"} => index = 0
  /\ pc = "data" => op = "read" \/ (op = "write" /\ index < Count /\ tdr = Empty)
  /\ pc = "data" /\ op = "read" => rdr # 0

SenderInv == tc <=> (tdr = Empty /\ shift = Empty)

\* A frame that was lost or damaged has its error flag up, until an IO clears it; what
\* goes wrong after a read has looked concerns later frames than the one it takes.
ReceiverInv ==
  /\ enabled /\ errors = {} => harmed = {}
  /\ pc = "data" /\ op = "read" => \A n \in harmed : rdr < n

\* What has left, is leaving and waits to leave, and the order of its bytes.
Leaving == IF shift = Empty THEN wire ELSE Append(wire, shift)
Stream == IF tdr = Empty THEN Leaving ELSE Append(Leaving, tdr)
Follows(a, b) == (b[2] = a[2] + 1 /\ b[1] = a[1]) \/ (b[2] = 1 /\ a[1] < b[1])

Ordered(s) ==
  /\ \A j \in 1 .. Len(s) : s[j][1] <= writes /\ s[j][2] # 0
  /\ Len(s) > 0 => s[1][2] = 1
  /\ \A j \in 1 .. Len(s) - 1 : Follows(s[j], s[j + 1])

\* The bytes of the write in progress end the stream.
EndsWith(s, n) ==
  /\ n <= Len(s)
  /\ \A k \in 1 .. n : s[Len(s) - n + k] = <<writes, k>>
  /\ n = 0 => \A j \in 1 .. Len(s) : s[j][1] < writes

Writing == pc \notin {"idle", "ack"} /\ op = "write"
StreamInv == Ordered(Stream) /\ (Writing => EndsWith(Stream, index))

IInv == TypeInv /\ CallInv /\ SenderInv /\ ReceiverInv /\ StreamInv

LEMMA InitIInv == Init => IInv
<1> SUFFICES ASSUME Init PROVE IInv
  OBVIOUS
<1> USE UartAssumption DEF Init
<1>1. TypeInv
  BY DEF TypeInv, Byte, Empty, Ops
<1>2. CallInv /\ SenderInv /\ ReceiverInv
  BY DEF CallInv, SenderInv, ReceiverInv
<1>3. Stream = <<>>
  BY DEF Stream, Leaving
<1>4. StreamInv
  BY <1>3 DEF StreamInv, Ordered, Writing
<1> QED
  BY <1>1, <1>2, <1>4 DEF IInv

-----------------------------------------------------------------------------
(* The stream of bytes. *)

\* It begins with what has left, and what is leaving comes next.
LEMMA StreamShape ==
  ASSUME TypeInv
  PROVE  /\ Stream \in Seq(Byte) /\ Len(wire) \in Nat /\ Len(Stream) \in Nat
         /\ Len(wire) <= Len(Stream)
         /\ \A j \in 1 .. Len(wire) : Stream[j] = wire[j]
         /\ shift # Empty => Len(wire) < Len(Stream) /\ Stream[Len(wire) + 1] = shift
<1> USE DEF TypeInv
<1>1. /\ Leaving \in Seq(Byte) /\ Len(wire) <= Len(Leaving)
      /\ \A j \in 1 .. Len(wire) : Leaving[j] = wire[j]
      /\ shift # Empty => Len(Leaving) = Len(wire) + 1 /\ Leaving[Len(wire) + 1] = shift
  BY DEF Leaving
<1>2. /\ Stream \in Seq(Byte) /\ Len(Leaving) <= Len(Stream)
      /\ \A j \in 1 .. Len(Leaving) : Stream[j] = Leaving[j]
  BY <1>1 DEF Stream
<1> QED
  BY <1>1, <1>2

\* A step that leaves the stream and the write in progress alone.
LEMMA StreamKept ==
  ASSUME StreamInv, Stream' = Stream, writes' = writes,
         Writing' => Writing /\ index' = index
  PROVE  StreamInv'
BY DEF StreamInv, Ordered, EndsWith

\* A byte of the write in progress joins it at its end.
LEMMA StreamGrows ==
  ASSUME TypeInv, StreamInv, Writing, index < Count,
         Stream' = Append(Stream, <<writes, index + 1>>), writes' = writes, index' = index + 1
  PROVE  StreamInv'
<1> DEFINE b == <<writes, index + 1>>
<1>1. /\ Stream \in Seq(Byte) /\ b \in Byte /\ index \in Nat /\ writes \in Nat
      /\ b[1] = writes /\ b[2] = index + 1
  BY StreamShape, UartAssumption DEF TypeInv, Byte
<1> DEFINE n == Len(Stream)
<1>2. /\ n \in Nat /\ Len(Stream') = n + 1 /\ Stream'[n + 1] = b
      /\ \A j \in 1 .. n : Stream'[j] = Stream[j]
  BY <1>1
<1>3. Ordered(Stream) /\ EndsWith(Stream, index)
  BY DEF StreamInv
<1>4. n > 0 => Follows(Stream[n], b)
  <2>1. CASE index = 0
    BY <1>1, <1>2, <1>3, <2>1 DEF EndsWith, Follows
  <2>2. CASE index > 0
    <3>1. Stream[n - index + index] = <<writes, index>>
      BY <1>1, <1>3, <2>2 DEF EndsWith
    <3>2. Stream[n] = <<writes, index>>
      BY <1>1, <1>2, <3>1
    <3> QED
      BY <1>1, <3>2 DEF Follows
  <2> QED
    BY <1>1, <2>1, <2>2
<1>5. n = 0 => index = 0
  BY <1>1, <1>2, <1>3 DEF EndsWith
<1>6. Ordered(Stream)'
  <2>1. \A j \in 1 .. n + 1 : Stream'[j][1] <= writes /\ Stream'[j][2] # 0
    BY <1>1, <1>2, <1>3 DEF Ordered
  <2>2. Stream'[1][2] = 1
    BY <1>1, <1>2, <1>3, <1>5 DEF Ordered
  <2>3. \A j \in 1 .. n : Follows(Stream'[j], Stream'[j + 1])
    <3> TAKE j \in 1 .. n
    <3>1. CASE j = n
      BY <1>2, <1>4, <3>1
    <3>2. CASE j < n
      <4>1. j \in 1 .. n - 1 /\ j \in 1 .. n /\ j + 1 \in 1 .. n
        BY <1>2, <3>2
      <4>2. Follows(Stream[j], Stream[j + 1])
        BY <1>3, <4>1 DEF Ordered
      <4> QED
        BY <1>2, <4>1, <4>2
    <3> QED
      BY <1>2, <3>1, <3>2
  <2>4. Len(Stream') = n + 1 /\ (n + 1) - 1 = n /\ writes' = writes
    BY <1>2
  <2> QED
    BY <2>1, <2>2, <2>3, <2>4 DEF Ordered
<1>7. EndsWith(Stream, index)'
  <2>1. \A k \in 1 .. index + 1 : Stream'[(n + 1) - (index + 1) + k] = <<writes, k>>
    <3> TAKE k \in 1 .. index + 1
    <3>1. CASE k = index + 1
      BY <1>1, <1>2, <3>1
    <3>2. CASE k <= index
      <4>1. (n + 1) - (index + 1) + k = n - index + k /\ n - index + k \in 1 .. n
        BY <1>1, <1>2, <1>3, <3>2 DEF EndsWith
      <4> QED
        BY <1>1, <1>2, <1>3, <3>2, <4>1 DEF EndsWith
    <3>3. k = index + 1 \/ k <= index
      BY <1>1
    <3> QED
      BY <3>1, <3>2, <3>3
  <2>2. index' <= Len(Stream') /\ index' # 0
    BY <1>1, <1>2, <1>3 DEF EndsWith
  <2>3. \A k \in 1 .. index' : Stream'[Len(Stream') - index' + k] = <<writes', k>>
    BY <1>2, <2>1
  <2> QED
    BY <2>2, <2>3 DEF EndsWith
<1> QED
  BY <1>6, <1>7 DEF StreamInv

-----------------------------------------------------------------------------
(* The steps. *)

\* Steps of a call that move no byte.
LEMMA LooksKeep ==
  ASSUME IInv,
         \/ Refused \/ Expire \/ LookFault \/ LookReady \/ LookWait \/ LookAgain
         \/ Timeout \/ InitDone
  PROVE  IInv'
<1> USE UartAssumption DEF Goto, Return, software, sender, receiver, hist
<1>1. /\ UNCHANGED <<enabled, tdr, shift, tc, rdr, errors>>
      /\ UNCHANGED <<writes, arrived, wire, harmed, taken, op>>
      /\ index' \in {0, index} /\ (pc' \notin {"idle", "ack"} => index' = index)
  BY DEF Refused, Expire, LookFault, LookReady, LookWait, LookAgain, Timeout, InitDone,
         IInv, CallInv
<1>2. /\ pc' \in {"idle", "status", "clear", "data", "clock"} \/ pc' = pc
      /\ pc' \notin {"idle", "ack"} => pc \notin {"idle", "ack"}
      /\ pc' \in {"idle", "ack"} => index' = 0
      /\ pc' # "idle" => enabled
  BY DEF Refused, Expire, LookFault, LookReady, LookWait, LookAgain, Timeout, InitDone,
         IInv, CallInv
<1>3. pc' = "data" => pc = "data" \/ LookReady
  BY DEF Refused, Expire, LookFault, LookReady, LookWait, LookAgain, Timeout, InitDone
<1>4. ASSUME LookReady, pc' = "data"
      PROVE  /\ op = "read" => rdr # 0 /\ errors = {} /\ enabled
             /\ op # "read" => op = "write" /\ index < Count /\ tdr = Empty
  <2>1. pc = "status" /\ ~Faulty /\ Awaited \in Status /\ Awaited # "TC" /\ enabled
    BY <1>4 DEF LookReady, IInv, CallInv
  <2>2. CASE op = "read"
    BY <2>1, <2>2 DEF Faulty, Awaited, Status
  <2>3. CASE op # "read"
    <3>1. op = "write" /\ index < Count /\ Awaited = "TXE"
      BY <2>1, <2>3 DEF Awaited
    <3> QED
      BY <2>1, <2>3, <3>1 DEF Status
  <2> QED
    BY <2>2, <2>3
<1>5. TypeInv'
  BY <1>1, <1>2 DEF IInv, TypeInv
<1>6. CallInv'
  BY <1>1, <1>2, <1>3, <1>4 DEF IInv, CallInv
<1>7. SenderInv'
  BY <1>1 DEF IInv, SenderInv
<1>8. ReceiverInv'
  BY <1>1, <1>3, <1>4 DEF IInv, ReceiverInv
<1>9. StreamInv'
  <2>1. Stream' = Stream
    BY <1>1 DEF Stream, Leaving
  <2>2. Writing' => Writing /\ index' = index
    BY <1>1, <1>2 DEF Writing
  <2> QED
    BY <1>1, <2>1, <2>2, StreamKept DEF IInv
<1> QED
  BY <1>5, <1>6, <1>7, <1>8, <1>9 DEF IInv

\* A call begins; a write begins with none of its bytes in the stream.
LEMMA CallKeeps ==
  ASSUME IInv, Call
  PROVE  IInv'
<1> USE DEF Call, sender, receiver, hist
<1>1. TypeInv' /\ SenderInv' /\ ReceiverInv'
  BY DEF IInv, TypeInv, SenderInv, ReceiverInv, CallInv
<1>2. CallInv'
  BY DEF IInv, CallInv
<1>3. StreamInv'
  <2>1. Stream' = Stream /\ index' = 0 /\ writes \in Nat
    BY DEF Stream, Leaving, IInv, CallInv, TypeInv
  <2>2. /\ Stream \in Seq(Byte) /\ Len(Stream) \in Nat
        /\ \A j \in 1 .. Len(Stream) : Stream[j][1] \in Nat /\ Stream[j][1] <= writes
    BY StreamShape DEF IInv, StreamInv, Ordered, Byte
  <2>3. writes' \in {writes, writes + 1} /\ (op' = "write" => writes' = writes + 1)
    OBVIOUS
  <2>4. Ordered(Stream)'
    BY <2>1, <2>2, <2>3 DEF IInv, StreamInv, Ordered
  <2>5. op' = "write" => EndsWith(Stream, index)'
    BY <2>1, <2>2, <2>3 DEF EndsWith
  <2> QED
    BY <2>4, <2>5 DEF StreamInv, Writing
<1> QED
  BY <1>1, <1>2, <1>3 DEF IInv

\* The bytes of a call.
LEMMA BytesKeep ==
  ASSUME IInv, WriteByte \/ ReadByte \/ Clear
  PROVE  IInv'
<1> USE UartAssumption DEF Goto, Return, sender, receiver, hist
<1>1. CASE WriteByte
  <2> USE <1>1 DEF WriteByte
  <2>1. index < Count /\ tdr = Empty /\ index \in Nat /\ writes \in Nat /\ Writing
    BY DEF IInv, CallInv, TypeInv, Writing
  <2>2. <<writes, index + 1>> \in Byte /\ <<writes, index + 1>> # Empty
    BY <2>1 DEF Byte, Empty
  <2>3. TypeInv'
    BY <2>1, <2>2 DEF IInv, TypeInv
  <2>4. CallInv' /\ SenderInv' /\ ReceiverInv'
    BY <2>2 DEF IInv, CallInv, SenderInv, ReceiverInv
  <2>5. Stream' = Append(Stream, <<writes, index + 1>>)
    BY <2>1, <2>2 DEF Stream, Leaving
  <2>6. StreamInv'
    BY <2>1, <2>5, StreamGrows DEF IInv
  <2> QED
    BY <2>3, <2>4, <2>6 DEF IInv
<1>2. CASE ReadByte
  <2> USE <1>2 DEF ReadByte
  <2>1. TypeInv'
    BY DEF IInv, TypeInv
  <2>2. CallInv' /\ SenderInv' /\ ReceiverInv'
    BY DEF IInv, CallInv, SenderInv, ReceiverInv
  <2>3. Stream' = Stream /\ ~Writing'
    BY DEF Stream, Leaving, Writing
  <2> QED
    BY <2>1, <2>2, <2>3, StreamKept DEF IInv
<1>3. CASE Clear
  <2> USE <1>3 DEF Clear
  <2>1. TypeInv' /\ CallInv' /\ SenderInv' /\ ReceiverInv'
    BY DEF IInv, TypeInv, CallInv, SenderInv, ReceiverInv
  <2>2. Stream' = Stream /\ ~Writing'
    BY DEF Stream, Leaving, Writing
  <2> QED
    BY <2>1, <2>2, StreamKept DEF IInv
<1> QED
  BY <1>1, <1>2, <1>3

\* das_uart_init takes everything away that has not left.
LEMMA InitsKeep ==
  ASSUME IInv, InitEnable \/ InitTimeout
  PROVE  IInv'
<1> USE UartAssumption DEF Goto, Return, Discard, hist
<1>1. TypeInv' /\ CallInv' /\ SenderInv' /\ ReceiverInv'
  <2>1. /\ tdr' = Empty /\ shift' = Empty /\ tc' = TRUE /\ rdr' = 0 /\ errors' = {}
        /\ pc' \in {"idle", "ack"} /\ (pc' # "idle" => enabled') /\ (enabled' => harmed' = {})
        /\ index' = 0 /\ harmed' \in {harmed, {}} /\ wire' \in {wire, <<>>}
        /\ UNCHANGED <<op, writes, arrived>>
    BY DEF InitEnable, InitTimeout, IInv, CallInv
  <2>2. Empty \in Byte
    BY DEF Empty, Byte
  <2>3. wire' \in Seq(Byte)
    <3>1. wire \in Seq(Byte) /\ <<>> \in Seq(Byte)
      BY DEF IInv, TypeInv
    <3>2. wire' = wire \/ wire' = <<>>
      BY <2>1
    <3> QED
      BY <3>1, <3>2
  <2>4. harmed' \subseteq 1 .. arrived' /\ rdr' \in 0 .. arrived' /\ index' \in 0 .. Count
    BY <2>1 DEF IInv, TypeInv
  <2>5. TypeInv'
    BY <2>1, <2>2, <2>3, <2>4 DEF IInv, TypeInv
  <2> QED
    BY <2>1, <2>5 DEF CallInv, SenderInv, ReceiverInv
<1>2. Stream' = wire' /\ ~Writing' /\ writes' = writes
  BY DEF InitEnable, InitTimeout, Stream, Leaving, Writing
<1>3. CASE InitEnable
  <2>1. wire' = <<>>
    BY <1>3 DEF InitEnable
  <2> QED
    BY <1>1, <1>2, <2>1 DEF IInv, StreamInv, Ordered
<1>4. CASE InitTimeout
  <2>1. wire' = wire
    BY <1>4 DEF InitTimeout
  <2>2. Ordered(wire)
    <3>1. /\ Len(wire) \in Nat /\ Len(Stream) \in Nat /\ Len(wire) <= Len(Stream)
          /\ \A j \in 1 .. Len(wire) : Stream[j] = wire[j] /\ j \in 1 .. Len(Stream)
      BY StreamShape DEF IInv
    <3>2. \A j \in 1 .. Len(wire) - 1 : Follows(wire[j], wire[j + 1])
      <4> TAKE j \in 1 .. Len(wire) - 1
      <4>1. /\ j \in 1 .. Len(wire) /\ j + 1 \in 1 .. Len(wire)
            /\ j \in 1 .. Len(Stream) - 1
        BY <3>1
      <4> QED
        BY <3>1, <4>1 DEF IInv, StreamInv, Ordered
    <3>3. \A j \in 1 .. Len(wire) : wire[j][1] <= writes /\ wire[j][2] # 0
      BY <3>1 DEF IInv, StreamInv, Ordered
    <3>4. Len(wire) > 0 => wire[1][2] = 1
      BY <3>1 DEF IInv, StreamInv, Ordered
    <3> QED
      BY <3>2, <3>3, <3>4 DEF Ordered
  <2> QED
    BY <1>1, <1>2, <2>1, <2>2 DEF IInv, StreamInv, Ordered
<1> QED
  BY <1>3, <1>4

\* The UART and its peer.
LEMMA HardwareKeeps ==
  ASSUME IInv, HwLoad \/ HwSent \/ HwArrive
  PROVE  IInv'
<1> USE DEF Quiet, software, sender, receiver, hist
<1>1. CASE HwLoad
  <2> USE <1>1 DEF HwLoad
  <2>1. TypeInv' /\ CallInv' /\ SenderInv' /\ ReceiverInv'
    BY DEF IInv, TypeInv, CallInv, SenderInv, ReceiverInv, Byte, Empty
  <2>2. Stream' = Stream /\ Writing' = Writing
    BY DEF Stream, Leaving, Writing
  <2> QED
    BY <2>1, <2>2, StreamKept DEF IInv
<1>2. CASE HwSent
  <2> USE <1>2 DEF HwSent
  <2>1. TypeInv'
    BY DEF IInv, TypeInv, Byte, Empty
  <2>2. CallInv' /\ SenderInv' /\ ReceiverInv'
    BY DEF IInv, CallInv, SenderInv, ReceiverInv
  <2>3. Stream' = Stream /\ Writing' = Writing
    BY DEF Stream, Leaving, Writing
  <2> QED
    BY <2>1, <2>2, <2>3, StreamKept DEF IInv
<1>3. CASE HwArrive
  <2>1. /\ UNCHANGED <<pc, op, index, enabled, tdr, shift, tc, writes, wire>>
        /\ arrived' = arrived + 1
        /\ rdr' = rdr \/ (rdr = 0 /\ rdr' = arrived + 1)
        /\ harmed' = harmed \/ (harmed' = harmed \cup {arrived + 1} /\ errors' # {})
        /\ errors' = {} => errors = {}
    BY <1>3 DEF HwArrive
  <2>2. TypeInv'
    <3>1. arrived \in Nat /\ rdr \in 0 .. arrived /\ harmed \subseteq 1 .. arrived
      BY DEF IInv, TypeInv
    <3>2. arrived' \in Nat /\ rdr' \in 0 .. arrived'
      BY <2>1, <3>1
    <3>3. harmed' \subseteq 1 .. arrived'
      <4>1. 1 .. arrived \subseteq 1 .. arrived' /\ arrived + 1 \in 1 .. arrived'
        BY <2>1, <3>1
      <4> QED
        BY <2>1, <3>1, <4>1
    <3> QED
      BY <2>1, <3>2, <3>3 DEF IInv, TypeInv
  <2>3. CallInv'
    BY <2>1 DEF IInv, TypeInv, CallInv
  <2>4. SenderInv'
    BY <2>1 DEF IInv, SenderInv
  <2>5. ReceiverInv'
    <3>1. enabled' /\ errors' = {} => harmed' = {}
      BY <2>1 DEF IInv, ReceiverInv
    <3>2. ASSUME pc' = "data", op' = "read" PROVE \A n \in harmed' : rdr' < n
      <4>1. rdr # 0 /\ (\A n \in harmed : rdr < n) /\ rdr \in 0 .. arrived /\ arrived \in Nat
        BY <2>1, <3>2 DEF IInv, TypeInv, CallInv, ReceiverInv
      <4>2. rdr' = rdr /\ rdr < arrived + 1
        BY <2>1, <4>1
      <4> QED
        BY <2>1, <4>1, <4>2
    <3> QED
      BY <3>1, <3>2 DEF ReceiverInv
  <2>6. Stream' = Stream /\ Writing' = Writing
    BY <2>1 DEF Stream, Leaving, Writing
  <2> QED
    BY <2>1, <2>2, <2>3, <2>4, <2>5, <2>6, StreamKept DEF IInv
<1> QED
  BY <1>1, <1>2, <1>3

\* IInv is inductive, and holds in every state.
LEMMA StepKeeps ==
  ASSUME IInv, [Next]_vars
  PROVE  IInv'
<1>1. CASE UNCHANGED vars
  <2> USE <1>1 DEF vars, software, sender, receiver, hist
  <2>1. TypeInv' /\ CallInv' /\ SenderInv' /\ ReceiverInv'
    BY DEF IInv, TypeInv, CallInv, SenderInv, ReceiverInv
  <2>2. Stream' = Stream /\ Writing' = Writing
    BY DEF Stream, Leaving, Writing
  <2> QED
    BY <2>1, <2>2, StreamKept DEF IInv
<1>2. CASE Next
  BY <1>2, LooksKeep, CallKeeps, BytesKeep, InitsKeep, HardwareKeeps DEF Next, Running
<1> QED
  BY <1>1, <1>2

LEMMA Invariance == Spec => []IInv
BY InitIInv, StepKeeps, PTL DEF Spec

-----------------------------------------------------------------------------
(* Results. *)

\* A read that returns OK never passes over a frame that was lost or damaged: an IO has
\* been returned for it before (uart.c, wait_for_flag).
THEOREM NoGapIsSilent == Spec => []LossIsReported
<1> DEFINE Inv == LossIsReported
<1>1. Init => Inv
  BY DEF Init, LossIsReported
<1>2. IInv /\ Inv /\ [Next]_vars => Inv'
  <2> SUFFICES ASSUME IInv, Inv, [Next]_vars, ret' = "OK", op' = "read"
      PROVE  \A n \in harmed' : taken' < n
    BY DEF LossIsReported
  <2>1. CASE UNCHANGED vars
    BY <2>1 DEF LossIsReported, vars, software, hist
  <2>2. CASE ReadByte
    BY <2>2 DEF ReadByte, IInv, ReceiverInv
  <2>3. ~LookReady
    BY DEF LookReady, Return, Goto, Awaited, IInv, CallInv, software
  <2> QED
    BY <2>1, <2>2, <2>3
    DEF Next, Running, InitEnable, Refused, Call, Expire, LookFault, Clear, LookWait, LookAgain,
        Timeout, WriteByte, InitDone, InitTimeout, HwLoad, HwSent, HwArrive, Goto, Return, Quiet
<1> QED
  BY <1>1, <1>2, Invariance, PTL DEF Spec

\* A write or flush that returns OK leaves nothing behind, and the bytes of a write are
\* the last on the wire: the wait for TC covers what an earlier write left too.
THEOREM OkIsOut == Spec => []OkMeansOut
<1>1. Init => OkMeansOut
  BY DEF Init, OkMeansOut
<1>2. IInv /\ OkMeansOut /\ [Next]_vars => OkMeansOut'
  <2> SUFFICES ASSUME IInv, OkMeansOut, [Next]_vars, ret' = "OK", op' # "read"
      PROVE  /\ tdr' = Empty /\ shift' = Empty
             /\ op' = "write" =>
                  \E before \in 0 .. Len(wire') :
                    SubSeq(wire', before + 1, Len(wire')) = [k \in 1 .. Count |-> <<writes', k>>]
    BY DEF OkMeansOut
  <2>1. CASE UNCHANGED vars
    BY <2>1 DEF OkMeansOut, vars, software, sender, hist
  <2>2. CASE LookReady
    <3>1. /\ pc = "status" /\ Awaited = "TC" /\ Awaited \in Status
          /\ UNCHANGED <<op, tdr, shift, wire, writes>>
      BY <2>2 DEF LookReady, Goto, Return, sender, hist
    <3>2. tc /\ tdr = Empty /\ shift = Empty
      BY <3>1 DEF Status, IInv, SenderInv
    <3>3. Stream = wire
      BY <3>2 DEF Stream, Leaving
    <3>4. ASSUME op = "write"
          PROVE  \E before \in 0 .. Len(wire) :
                   SubSeq(wire, before + 1, Len(wire)) = [k \in 1 .. Count |-> <<writes, k>>]
      <4>1. index = Count /\ Count \in Nat
        BY <3>1, <3>4, UartAssumption DEF Awaited, IInv, TypeInv
      <4>2. /\ wire \in Seq(Byte) /\ Len(wire) \in Nat /\ Count <= Len(wire)
            /\ \A k \in 1 .. Count : wire[Len(wire) - Count + k] = <<writes, k>>
        BY <3>1, <3>3, <3>4, <4>1 DEF IInv, TypeInv, StreamInv, Writing, EndsWith
      <4> DEFINE before == Len(wire) - Count
                 own == [k \in 1 .. Count |-> <<writes, k>>]
      <4>3. before \in 0 .. Len(wire) /\ 1 + Len(wire) - (before + 1) = Count
        BY <4>1, <4>2
      <4> HIDE DEF before, own
      <4>4. own \in Seq(Byte) /\ Len(own) = Count /\ \A k \in 1 .. Count : own[k] = <<writes, k>>
        BY <4>1 DEF own, Byte, IInv, TypeInv
      <4> DEFINE tail == SubSeq(wire, before + 1, Len(wire))
      <4>5. /\ tail \in Seq(Byte) /\ Len(tail) = Count
            /\ \A k \in 1 .. Count : tail[k] = wire[before + k]
        <5>1. \A i \in (before + 1) .. Len(wire) : wire[i] \in Byte
          BY <4>2, <4>3
        <5>2. /\ tail \in Seq(Byte)
              /\ Len(tail) = IF before + 1 <= Len(wire) THEN Len(wire) - (before + 1) + 1 ELSE 0
              /\ \A k \in 1 .. Len(wire) - (before + 1) + 1 : tail[k] = wire[before + 1 + k - 1]
          BY <4>2, <4>3, <5>1, SubSeqProperties
        <5> HIDE DEF tail
        <5> QED
          BY <4>1, <4>2, <4>3, <5>2
      <4> HIDE DEF tail
      <4>6. \A k \in 1 .. Count : wire[before + k] = <<writes, k>>
        BY <4>2 DEF before
      <4>7. tail = own
        BY <4>1, <4>4, <4>5, <4>6, SeqEqual
      <4> QED
        BY <4>3, <4>7 DEF tail, own
    <3> QED
      BY <3>1, <3>2, <3>4
  <2>3. ~ReadByte
    BY DEF ReadByte, Goto, Return
  <2> QED
    BY <2>1, <2>2, <2>3
    DEF Next, Running, InitEnable, Refused, Call, Expire, LookFault, Clear, LookWait, LookAgain,
        Timeout, WriteByte, InitDone, InitTimeout, HwLoad, HwSent, HwArrive, Goto, Return, Quiet
<1> QED
  BY <1>1, <1>2, Invariance, PTL DEF Spec

\* Of each write a prefix leaves, in order and in one piece, whatever writes timed out
\* before it.
THEOREM BytesLeaveInOrder == Spec => WireInOrder
<1>1. IInv /\ [Next]_vars =>
        [ Len(wire') > Len(wire) =>
            LET w == wire'[Len(wire')][1]
                k == wire'[Len(wire')][2]
            IN  \/ k > 1 /\ wire # <<>> /\ wire[Len(wire)] = <<w, k - 1>>
                \/ k = 1 /\ (wire # <<>> => wire[Len(wire)][1] < w) ]_vars
  <2> DEFINE n == Len(wire)
  <2> SUFFICES ASSUME IInv, Next, Len(wire') > n
      PROVE  LET w == wire'[Len(wire')][1]
                 k == wire'[Len(wire')][2]
             IN  \/ k > 1 /\ wire # <<>> /\ wire[Len(wire)] = <<w, k - 1>>
                 \/ k = 1 /\ (wire # <<>> => wire[Len(wire)][1] < w)
    OBVIOUS
  <2>1. HwSent
    <3>1. n \in Nat /\ (wire' = wire => Len(wire') = n) /\ (wire' = <<>> => Len(wire') = 0)
      BY DEF IInv, TypeInv
    <3> QED
      BY <3>1
      DEF Next, Running, InitEnable, Refused, Call, Expire, LookFault, Clear, LookReady, LookWait,
          LookAgain, Timeout, WriteByte, ReadByte, InitDone, InitTimeout, HwLoad, HwArrive, hist
  <2>2. shift # Empty /\ wire' = Append(wire, shift) /\ wire \in Seq(Byte) /\ shift \in Byte
    BY <2>1 DEF HwSent, IInv, TypeInv
  <2>3. n \in Nat /\ Len(wire') = n + 1 /\ wire'[n + 1] = shift
    BY <2>2
  <2>4. /\ n < Len(Stream) /\ Stream[n + 1] = shift /\ Len(Stream) \in Nat
        /\ n > 0 => Stream[n] = wire[n]
    BY <2>2, <2>3, StreamShape DEF IInv
  <2>5. n = 0 => shift[2] = 1
    BY <2>3, <2>4 DEF IInv, StreamInv, Ordered
  <2>6. n > 0 => Follows(wire[n], shift)
    <3>1. n > 0 => n \in 1 .. Len(Stream) - 1
      BY <2>3, <2>4
    <3> QED
      BY <2>4, <3>1 DEF IInv, StreamInv, Ordered
  <2>7. n > 0 => wire[n] \in Byte
    BY <2>2, <2>3
  <2>8. wire = <<>> <=> n = 0
    BY <2>2
  <2>9. n > 0 => wire[n][2] # 0
    BY <2>3, <2>4 DEF IInv, StreamInv, Ordered
  <2>10. CASE n = 0
    BY <2>2, <2>3, <2>5, <2>8, <2>10
  <2>11. CASE n > 0
    <3> DEFINE a == wire[n]
    <3>1. a \in Byte /\ a[2] # 0 /\ Follows(a, shift)
      BY <2>6, <2>7, <2>9, <2>11
    <3>2. a[1] \in Nat /\ a[2] \in Nat /\ a = <<a[1], a[2]>>
      BY <3>1 DEF Byte
    <3>3. \/ shift[2] > 1 /\ a = <<shift[1], shift[2] - 1>>
          \/ shift[2] = 1 /\ a[1] < shift[1]
      BY <3>1, <3>2 DEF Follows
    <3> QED
      BY <2>3, <2>8, <2>11, <3>3
  <2> QED
    BY <2>3, <2>10, <2>11
<1> QED
  BY <1>1, Invariance, PTL DEF Spec, WireInOrder

=============================================================================
