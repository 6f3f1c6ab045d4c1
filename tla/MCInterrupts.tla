---------------------------- MODULE MCInterrupts ----------------------------
(* Interrupts on a small instance: lines 5 and 6 share EXTI9_5. *)
EXTENDS Interrupts

Both == {"rising", "falling"}
MCSetups == {<<5, "A", Both>>, <<5, "B", Both>>, <<5, "A", {"falling"}>>, <<6, "A", Both>>}
=============================================================================
