------------------------------- MODULE MCRelease -------------------------------
(***************************************************************************)
(* One legacy release, and two versions after it: the ninth and the tenth  *)
(* beta, whose order is not that of their text.                            *)
(***************************************************************************)
EXTENDS ReleasePipeline, TLC

CONSTANTS v010b1, v100b9, v100b10, top, bottom, m1, m2, boots, shows

Pre(word, n) == <<word, Number(n)>>
MCSemver ==
    v010b1 :> [core |-> <<0, 1, 0>>, pre |-> Pre(Beta, 1)] @@
    v100b9 :> [core |-> <<1, 0, 0>>, pre |-> Pre(Beta, 9)] @@
    v100b10 :> [core |-> <<1, 0, 0>>, pre |-> Pre(Beta, 10)]

MCMarkingOf == top :> m1 @@ bottom :> m2
MCSuspect == {[version |-> v, profile |-> top, artifact |-> 1] : v \in Version}
LegacyImage(p) == [version |-> v010b1, profile |-> p, artifact |-> 0]
MCEvidence ==
    [i \in {LegacyImage(p) : p \in Profile} |->
        [image |-> i, source |-> 1, profile |-> i.profile, marking |-> MCMarkingOf[i.profile],
         confirmed |-> Check, transcript |-> Check]]
=============================================================================
