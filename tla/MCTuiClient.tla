------------------------------ MODULE MCTuiClient ------------------------------
(* Model checking of TuiClient.  The bounds of a run are the constants' values. *)
EXTENDS TuiClient
===============================================================================
