---------------------------- MODULE MCArtifactSlot ----------------------------
(* A small instance of ArtifactSlot for TLC: one pair of releases, three files. *)
EXTENDS ArtifactSlot, TLC

MCProfile == {"top", "bottom"}
MCMarkingOf == [p \in MCProfile |-> IF p = "top" THEN "T" ELSE "B"]
MCMarkingText == {"T", "B", "T and B"}
MCContains == [t \in MCMarkingText |-> IF t = "T and B" THEN {"T", "B"} ELSE {t}]

MCText == {"name", "blank", "dashed", "colons", "long"}
MCSize == [t \in MCText |-> CASE t = "blank" -> 1 [] t = "name" -> 4
                              [] t = "long" -> 30 [] OTHER -> 8]
MCCanonical == [m \in {"contains", "oui"} |-> [t \in MCText |->
    CASE m = "contains" -> (IF t = "blank" THEN Invalid ELSE t)
      [] m = "oui" /\ t \in {"dashed", "colons"} -> "colons"
      [] OTHER -> Invalid]]

Rule(type, value) == [type |-> type, value |-> value, message |-> "name"]
Entered(profile, targets, rules) ==
    [profile |-> profile, targets |-> targets, rules |-> rules]
MCForm == {Entered("top", {"police"}, <<Rule("oui", "dashed")>>),
           Entered("top", {}, <<Rule("contains", "blank")>>)}

Built(code, blocks) == [code |-> code, blocks |-> blocks, cut |-> FALSE, valid |-> TRUE]
Plain(profile) == Encode(Entered(profile, {"police"}, <<>>))
TopRelease == Built("top release", <<Plain("top")>>)
BottomRelease == Built("bottom release", <<Plain("bottom")>>)
Developer == Built("developer", <<Plain("top")>>)
Failed == Built("failed", <<Plain("top")>>)
Recovery == Built("recovery", <<>>)
MCImage == {TopRelease, BottomRelease, Developer, Failed, Recovery}
MCQuarantined == {Failed}
MCLocalFile == {Developer, Failed}

Descriptor(profile, image) ==
    [id |-> image.code, version |-> [core |-> <<0, 1, 0>>, pre |-> <<Beta, Number(1)>>],
     channel |-> "beta", profiles |-> {profile}, markings |-> {MCMarkingOf[profile]},
     basis |-> "ci-audited", wellFormed |-> TRUE, image |-> image]
Top == Descriptor("top", TopRelease)
Lab == [profiles |-> {"top"}, markings |-> {"T"}, image |-> Developer]
MCManifest ==
    {[releases |-> r, labs |-> {Lab}, recovery |-> Recovery] :
        r \in {{Top, Descriptor("bottom", BottomRelease)}, {Top}}}

(* A preparation that was overtaken, that applies no options and that no   *)
(* button waits for only ends: with or without it, all that can be seen of *)
(* the page goes on in the same way, and TLC keeps one of the two states.  *)
Spent(l) ==
    /\ Overtaken(l) /\ l.base = NoBase
    /\ ~(choice.at = "loading" /\ choice.generation = l.generation)

PageView ==
    <<catalogVars, record, generation, {l \in loads : ~Spent(l)}, slotVars, badge, choice,
      flashing>>
=============================================================================
