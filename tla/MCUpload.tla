------------------------------ MODULE MCUpload ------------------------------
(***************************************************************************)
(* A header of three packets and announced lengths that end with a packet, *)
(* inside one and beyond the flash: 6, 9 and 12 bytes fit in 13, 15 do not.*)
(***************************************************************************)
EXTENDS Upload
=============================================================================
