----------------------------- MODULE MCDisplay -----------------------------
(***************************************************************************)
(* The display on a panel of two column pairs with two different pictures. *)
(***************************************************************************)
EXTENDS Display, TLC

(* Of the panel, what is lit decides the properties, not with what; of the *)
(* buffers, which is which does not matter, nor what is left in one that   *)
(* is written from its first column before it is read again.               *)
Lit == {c \in LedColumns : panel.shows[c] # DARK}

Shown == IF overlay.owned \/ call.at = "own" THEN overlay.fb[overlay.index] ELSE {}

Written == IF call.at = "column" THEN [c \in 0 .. (call.x - 1) |-> overlay.fb[Inactive][c]]
           ELSE IF call.at = "commit" THEN overlay.fb[Inactive] ELSE {}

DisplayView ==
    <<board, rt, display_active, overlay.owned, Shown, Written, tasks, Lit, panel.pair,
      call, todo>>

Pictures == Permutations(Frame)
=============================================================================
