---------------------------- MODULE MCLedScripts ----------------------------
(***************************************************************************)
(* Bursts that light red a little, with a rest below one unit, and bursts  *)
(* of more than the scale shows.                                           *)
(***************************************************************************)
EXTENDS LedScripts

MCBursts == {130, 400}

=============================================================================
