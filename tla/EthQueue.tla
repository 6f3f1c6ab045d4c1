------------------------------ MODULE EthQueue ------------------------------
(***************************************************************************)
(* What the receiving side of das/eth.h promises its caller: frames that   *)
(* were accepted wait in order, as many as there is room for, and each is  *)
(* returned once, whole, or discarded at its turn.                         *)
(***************************************************************************)
EXTENDS Naturals, Sequences

CONSTANT Room     \* frames that can wait

VARIABLES
  queue,   \* the frames that wait, oldest first
  taken    \* the last frame returned to the caller

vars == <<queue, taken>>

Init == queue = <<>> /\ taken = 0

\* A frame newer than all before it is accepted.
Accept ==
  /\ Len(queue) < Room
  /\ Len(queue') = Len(queue) + 1
  /\ \A k \in 1 .. Len(queue) : queue'[k] = queue[k] /\ queue[k] < queue'[Len(queue')]
  /\ taken < queue'[Len(queue')]
  /\ UNCHANGED taken

Take ==
  /\ queue # <<>>
  /\ taken' = Head(queue)
  /\ queue' = Tail(queue)

\* A frame that is damaged or does not fit the caller's buffer.
Discard ==
  /\ queue # <<>>
  /\ queue' = Tail(queue)
  /\ UNCHANGED taken

\* das_eth_init starts over.
Forget == queue' = <<>> /\ UNCHANGED taken

Next == Accept \/ Take \/ Discard \/ Forget

Spec == Init /\ [][Next]_vars

=============================================================================
