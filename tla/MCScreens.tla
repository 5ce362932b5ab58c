------------------------------ MODULE MCScreens -----------------------------
(***************************************************************************)
(* Screens with two virtual desktops: one without any output, which keeps  *)
(* a fake screen, and the primary one, which has more outputs than crtcs.  *)
(* Nothing in the code tells two crtcs apart but their number.             *)
(***************************************************************************)
EXTENDS Screens, TLC

CONSTANTS c1, c2

MCOutputsOf == <<<<>>, <<"o1", "o2", "o3">>>>
MCCrtcsOf == <<{}, {c1, c2}>>
Symmetry == Permutations({c1, c2})
=============================================================================
