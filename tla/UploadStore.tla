---------------------------- MODULE UploadStore ----------------------------
(***************************************************************************)
(* What the badge promises to a BadgeMagic app: an upload becomes the      *)
(* content of the badge as a whole or not at all.  What is stored is one   *)
(* run of consecutive packets that began with a start packet and is as     *)
(* long as its own header says; a run that is interrupted leaves nothing.  *)
(***************************************************************************)
EXTENDS Sequences

CONSTANTS Packet, StartPacket, WholeUpload(_), NothingStored

VARIABLES pending, stored

vars == <<pending, stored>>

Init == pending = <<>> /\ stored = NothingStored

Begin == pending' = <<StartPacket>> /\ UNCHANGED stored

Continue ==
    /\ pending # <<>>
    /\ \E p \in Packet : pending' = Append(pending, p)
    /\ UNCHANGED stored

Store ==
    /\ pending # <<>>
    /\ \E p \in Packet :
        /\ WholeUpload(Append(pending, p))
        /\ stored' = Append(pending, p)
    /\ pending' = <<>>

Abandon == pending' = <<>> /\ UNCHANGED stored

Next == Begin \/ Continue \/ Store \/ Abandon

Spec == Init /\ [][Next]_vars
=============================================================================
