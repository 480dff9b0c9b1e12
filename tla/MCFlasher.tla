------------------------------ MODULE MCFlasher ------------------------------
(***************************************************************************)
(* Two badges and two images of different length.  The image of `bottom'   *)
(* takes two sectors of two units in two chunks of three, so that a chunk  *)
(* straddles a sector and the last one is short; `top' takes one chunk.    *)
(***************************************************************************)
EXTENDS FlasherPage, TLC

CONSTANTS top, bottom
MCLength == top :> 1 @@ bottom :> 2
=============================================================================
