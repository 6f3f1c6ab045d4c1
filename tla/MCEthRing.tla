----------------------------- MODULE MCEthRing -----------------------------
(* EthRing with four frames out or four frames in after one initialisation, *)
(* one of each, or half of it over two initialisations; the link comes up   *)
(* where frames are sent.  The cache speculates on one slot of each ring.   *)
EXTENDS EthRing

Workload ==
  UNION {(0 .. 4) \X {0}    \X (0 .. 1) \X (0 .. 1),
         {0}      \X (0 .. 4) \X (0 .. 1) \X {0},
         (0 .. 1) \X {1}    \X (0 .. 1) \X (0 .. 1),
         (0 .. 2) \X {0}    \X (0 .. 2) \X (0 .. 1),
         {0}      \X (0 .. 2) \X (0 .. 2) \X {0}}
OneSend   == (0 .. 1) \X {0} \X (0 .. 1) \X (0 .. 1)
FirstSlot == {TxDesc(0), RxDesc(0), RxBuf(0)}
=============================================================================
