------------------------------- MODULE MCEvents -------------------------------
(***************************************************************************)
(* Events with a channel of two events, so that a stream falls behind, and *)
(* two timers, so that one is armed while another broadcasts.              *)
(***************************************************************************)
EXTENDS Events

CONSTANTS w1, t1, t2, e1
=============================================================================
