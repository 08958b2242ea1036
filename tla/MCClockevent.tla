---------------------------- MODULE MCClockevent ----------------------------
(***************************************************************************)
(* Clockevent with a period of eight counter ticks, of which one pass of   *)
(* set_next may take up to three: longer than the smallest delta, so that  *)
(* arming late happens, and shorter than the period, so that the retry     *)
(* with the next deadline has a chance.                                    *)
(***************************************************************************)
EXTENDS Clockevent
=============================================================================
