------------------------------- MODULE MCTracer -------------------------------
(***************************************************************************)
(* Model checking of Tracer: denominators that are negative, zero, small   *)
(* and larger than MAX_DENOMINATOR.                                        *)
(***************************************************************************)
EXTENDS Tracer

MCOperand == -1 .. 2
================================================================================
