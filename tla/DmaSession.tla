----------------------------- MODULE DmaSession -----------------------------
(***************************************************************************)
(* What das/dma.h promises the holder of a DMA handle, without tokens,     *)
(* tasks or registers: a stream serves one allocation at a time, changes   *)
(* hands only while its engine is off, and shows a state that goes         *)
(* IDLE -> BUSY -> COMPLETE or ERROR and back to IDLE.  From its start on, *)
(* a transfer owes its holder the news of its end; the next one may start  *)
(* only when the holder has seen the end or has given the transfer up.     *)
(* DmaStreams implements this specification when its callers are           *)
(* serialised.                                                             *)
(***************************************************************************)
EXTENDS Naturals

CONSTANT Streams

VARIABLES
  session,   \* the allocation a stream serves, 0 while it is free
  last,      \* the allocations it has served so far
  engine,    \* "off", "armed" by a start, or "on"
  view,      \* the state das_dma_get_state answers
  owed       \* a transfer was started whose end the holder has not seen

vars == <<session, last, engine, view, owed>>

Views   == {"IDLE", "BUSY", "COMPLETE", "ERROR"}
Engines == {"off", "armed", "on"}

Init ==
  /\ session = [s \in Streams |-> 0]
  /\ last    = [s \in Streams |-> 0]
  /\ engine  = [s \in Streams |-> "off"]
  /\ view    = [s \in Streams |-> "IDLE"]
  /\ owed    = [s \in Streams |-> FALSE]

Open(s) ==
  /\ session[s] = 0
  /\ last' = [last EXCEPT ![s] = @ + 1]
  /\ session' = [session EXCEPT ![s] = last[s] + 1]
  /\ UNCHANGED <<engine, view, owed>>

Close(s) ==
  /\ session[s] # 0 /\ engine[s] = "off" /\ view[s] = "IDLE" /\ ~owed[s]
  /\ session' = [session EXCEPT ![s] = 0]
  /\ UNCHANGED <<last, engine, view, owed>>

\* A start announces the transfer before it turns the engine on, and only
\* when no end of an earlier one is still to be seen.
Announce(s) ==
  /\ session[s] # 0 /\ engine[s] = "off" /\ ~owed[s]
  /\ engine' = [engine EXCEPT ![s] = "armed"]
  /\ view' = [view EXCEPT ![s] = "BUSY"]
  /\ owed' = [owed EXCEPT ![s] = TRUE]
  /\ UNCHANGED <<session, last>>

Enable(s) ==
  /\ engine[s] = "armed"
  /\ engine' = [engine EXCEPT ![s] = "on"]
  /\ UNCHANGED <<session, last, view, owed>>

\* The engine turns itself off; the state follows at once or a little later.
Stop(s) ==
  /\ engine[s] = "on"
  /\ engine' = [engine EXCEPT ![s] = "off"]
  /\ \E v \in {"BUSY", "COMPLETE", "ERROR"} : view' = [view EXCEPT ![s] = v]
  /\ UNCHANGED <<session, last, owed>>

Show(s) ==
  /\ engine[s] = "off" /\ view[s] = "BUSY"
  /\ view' = [view EXCEPT ![s] = "COMPLETE"]
  /\ UNCHANGED <<session, last, engine, owed>>

\* The holder looks, and the state it is shown is an end.
See(s) ==
  /\ owed[s] /\ view[s] \in {"COMPLETE", "ERROR"}
  /\ owed' = [owed EXCEPT ![s] = FALSE]
  /\ UNCHANGED <<session, last, engine, view>>

\* An abort, a configure or a release gives the transfer up.
Clear(s) ==
  /\ session[s] # 0 /\ engine[s] = "off"
  /\ view' = [view EXCEPT ![s] = "IDLE"]
  /\ owed' = [owed EXCEPT ![s] = FALSE]
  /\ UNCHANGED <<session, last, engine>>

Next ==
  \E s \in Streams :
    \/ Open(s) \/ Close(s) \/ Announce(s) \/ Enable(s)
    \/ Stop(s) \/ Show(s) \/ See(s) \/ Clear(s)

Spec == Init /\ [][Next]_vars

=============================================================================
