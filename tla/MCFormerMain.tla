---------------------------- MODULE MCFormerMain ----------------------------
(***************************************************************************)
(* Voltages on both sides of the thresholds: discharged, charged together, *)
(* full, and full with one battery behind.                                 *)
(***************************************************************************)
EXTENDS FormerMain

MCSamples == {<<1050, 1050>>, <<1200, 1200>>, <<1400, 1400>>, <<1400, 1100>>,
              <<1100, 1400>>}
=============================================================================
