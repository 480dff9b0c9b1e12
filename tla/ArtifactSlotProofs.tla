-------------------------- MODULE ArtifactSlotProofs --------------------------
(***************************************************************************)
(* The firmware slot of the flashing page, for any images, manifests,      *)
(* boards and any number of preparations in flight.  The argument is about *)
(* generations: of all preparations only the one of the current generation *)
(* can still change the slot, that one is for the board as it is recorded, *)
(* and there is none while a flash runs.                                   *)
(***************************************************************************)
EXTENDS ArtifactSlot, FiniteSetTheorems, TLAPS

-----------------------------------------------------------------------------
(* The configuration block: what the site writes into an image it reads    *)
(* back, for any profiles, rules and texts.                                *)

(* A configuration as it comes back: its values in their canonical form.   *)
Normalized(config) ==
    [profile |-> config.profile, targets |-> config.targets,
     rules |-> [i \in DOMAIN config.rules |->
                   [type |-> config.rules[i].type,
                    value |-> Canonical[config.rules[i].type][config.rules[i].value],
                    message |-> config.rules[i].message]]]

ReadRule == [type : MatchType, value : Text, message : Text]

LEMMA FunctionIsSeq ==
  ASSUME NEW S, NEW n \in Nat, NEW f \in [1 .. n -> S]
  PROVE  f \in Seq(S)
  OBVIOUS

(* What a block says is a configuration, or it is refused. *)
LEMMA DecodeType ==
  ASSUME NEW block
  PROVE  Decode(block) \in Config \cup {Invalid}
  <1> SUFFICES ASSUME Decode(block) # Invalid PROVE Decode(block) \in Config
    OBVIOUS
  <1> DEFINE rules == [i \in DOMAIN block.rules |->
                         [type |-> block.rules[i].type, value |-> block.rules[i].value,
                          message |-> block.rules[i].message]]
  <1>1. /\ block.profile \in Profile /\ block.targets \subseteq Target
        /\ block.count \in 0 .. MAX_RULES /\ DOMAIN block.rules = 1 .. block.count
        /\ \A i \in DOMAIN block.rules : SlotAllowed(block.rules[i])
        /\ Decode(block) = [profile |-> block.profile, targets |-> block.targets,
                            rules |-> rules]
    BY DEF Decode
  <1>2. block.count \in Nat BY <1>1, FirmwareConfigAssumption
  <1>3. \A i \in DOMAIN block.rules :
          /\ block.rules[i].type \in MatchType
          /\ block.rules[i].value \in Text /\ block.rules[i].message \in Text
    BY <1>1, FirmwareConfigAssumption DEF SlotAllowed, Fits
  <1>4. rules \in [1 .. block.count -> ReadRule] BY <1>1, <1>3 DEF ReadRule
  <1>5. rules \in Seq(ReadRule) BY <1>2, <1>4, FunctionIsSeq
  <1> HIDE DEF rules
  <1> QED BY <1>1, <1>5 DEF Config, ReadRule

(* The checksum does not cover itself. *)
LEMMA ChecksumStays ==
  ASSUME NEW block, NEW crc
  PROVE  Checksum([block EXCEPT !.crc = crc]) = Checksum(block)
  BY DEF Checksum

(* encodeFirmwareConfig() and decodeFirmwareConfig(): every configuration  *)
(* that is accepted comes back, normalised and nothing else.               *)
THEOREM WhatIsWrittenIsRead ==
  ASSUME NEW config \in Config, ConfigAllowed(config)
  PROVE  /\ Decode(Encode(config)) = Normalized(config)
         /\ Normalized(config) \in Config
  <1> DEFINE rules == [i \in DOMAIN config.rules |-> Slot(config.rules[i])]
             plain == [schema |-> 1, size |-> 384, reserved |-> 0, crc |-> 0,
                       profile |-> config.profile, targets |-> config.targets,
                       count |-> Len(config.rules), rules |-> rules]
             block == [plain EXCEPT !.crc = Checksum(plain)]
  <1>0. /\ plain.schema = 1 /\ plain.size = 384 /\ plain.reserved = 0
        /\ plain.profile = config.profile /\ plain.targets = config.targets
        /\ plain.count = Len(config.rules) /\ plain.rules = rules
        /\ DOMAIN plain = {"schema", "size", "reserved", "crc", "profile", "targets",
                          "count", "rules"}
    OBVIOUS
  <1>1. Encode(config) = block BY DEF Encode
  <1> HIDE DEF plain
  <1>2. block.crc = Checksum(block)
    <2>1. Checksum(block) = Checksum(plain) BY ChecksumStays
    <2>2. block.crc = Checksum(plain) BY ONLY <1>0
    <2> QED BY <2>1, <2>2
  <1>3. /\ config.profile \in Profile /\ config.targets \subseteq Target
        /\ config.rules \in Seq(ReadRule) /\ Len(config.rules) <= MAX_RULES
        /\ \A i \in DOMAIN config.rules : RuleAllowed(config.rules[i])
    BY DEF Config, ConfigAllowed, ReadRule
  <1>4. /\ Len(config.rules) \in 0 .. MAX_RULES
        /\ DOMAIN config.rules = 1 .. Len(config.rules)
    BY <1>3, FirmwareConfigAssumption
  <1>5. ASSUME NEW i \in DOMAIN config.rules
        PROVE  SlotAllowed(Slot(config.rules[i]))
    <2> DEFINE r == config.rules[i]
               v == Canonical[r.type][r.value]
    <2>1. r \in ReadRule BY <1>3, <1>4
    <2>2. RuleAllowed(r) BY <1>3
    <2>3. r.type \in MatchType /\ r.value \in Text /\ r.message \in Text
      BY <2>1 DEF ReadRule
    <2> HIDE DEF r
    <2>4. v \in Text /\ v # Invalid /\ Canonical[r.type][v] = v
      BY <2>2, <2>3, FirmwareConfigAssumption DEF RuleAllowed
    <2>5. Fits(v, VALUE_SIZE) /\ Fits(r.message, MESSAGE_SIZE) BY <2>2 DEF RuleAllowed
    <2>6. Slot(r) = [type |-> r.type, reserved |-> 0, message |-> r.message, value |-> v]
      BY DEF Slot
    <2> HIDE DEF v
    <2> SUFFICES SlotAllowed(Slot(r)) BY DEF r
    <2> QED BY <2>3, <2>4, <2>5, <2>6 DEF SlotAllowed
  <1>6. /\ block.schema = 1 /\ block.size = 384 /\ block.reserved = 0
        /\ block.profile = config.profile /\ block.targets = config.targets
        /\ block.count = Len(config.rules) /\ block.rules = rules
    BY <1>0
  <1>7. /\ DOMAIN rules = DOMAIN config.rules
        /\ \A i \in DOMAIN config.rules : rules[i] = Slot(config.rules[i])
    OBVIOUS
  <1> HIDE DEF rules, block
  <1>8. Decode(block) = [profile |-> block.profile, targets |-> block.targets,
                         rules |-> [i \in DOMAIN block.rules |->
                           [type |-> block.rules[i].type, value |-> block.rules[i].value,
                            message |-> block.rules[i].message]]]
    BY <1>2, <1>3, <1>4, <1>5, <1>6, <1>7 DEF Decode
  <1>9. [i \in DOMAIN block.rules |->
           [type |-> block.rules[i].type, value |-> block.rules[i].value,
            message |-> block.rules[i].message]]
        = [i \in DOMAIN config.rules |->
             [type |-> config.rules[i].type,
              value |-> Canonical[config.rules[i].type][config.rules[i].value],
              message |-> config.rules[i].message]]
    <2>1. ASSUME NEW i \in DOMAIN config.rules
          PROVE  /\ block.rules[i].type = config.rules[i].type
                 /\ block.rules[i].message = config.rules[i].message
                 /\ block.rules[i].value
                    = Canonical[config.rules[i].type][config.rules[i].value]
      <3>1. block.rules[i] = Slot(config.rules[i]) BY <1>6, <1>7
      <3> QED BY <3>1 DEF Slot
    <2> DEFINE read(i) == [type |-> block.rules[i].type, value |-> block.rules[i].value,
                           message |-> block.rules[i].message]
               meant(i) == [type |-> config.rules[i].type,
                            value |-> Canonical[config.rules[i].type][config.rules[i].value],
                            message |-> config.rules[i].message]
    <2>2. \A i \in DOMAIN config.rules : read(i) = meant(i) BY ONLY <2>1
    <2>3. DOMAIN block.rules = DOMAIN config.rules BY <1>6, <1>7
    <2> SUFFICES [i \in DOMAIN block.rules |-> read(i)]
                 = [i \in DOMAIN config.rules |-> meant(i)]
      OBVIOUS
    <2> HIDE DEF read, meant
    <2> QED BY ONLY <2>2, <2>3
  <1>10. Decode(block) = Normalized(config) BY <1>6, <1>8, <1>9 DEF Normalized
  <1>11. Normalized(config) \in Config
    <2> DEFINE back == [i \in DOMAIN config.rules |->
                          [type |-> config.rules[i].type,
                           value |-> Canonical[config.rules[i].type][config.rules[i].value],
                           message |-> config.rules[i].message]]
    <2>1. ASSUME NEW i \in DOMAIN config.rules PROVE back[i] \in ReadRule
      <3>1. config.rules[i] \in ReadRule /\ RuleAllowed(config.rules[i]) BY <1>3, <1>4
      <3>2. /\ config.rules[i].type \in MatchType
            /\ config.rules[i].value \in Text /\ config.rules[i].message \in Text
        BY <3>1 DEF ReadRule, RuleAllowed
      <3>3. Canonical[config.rules[i].type][config.rules[i].value] \in Text
        BY <3>1, <3>2, FirmwareConfigAssumption DEF RuleAllowed
      <3>4. back[i] = [type |-> config.rules[i].type,
                       value |-> Canonical[config.rules[i].type][config.rules[i].value],
                       message |-> config.rules[i].message]
        OBVIOUS
      <3> HIDE DEF back
      <3> QED BY ONLY <3>2, <3>3, <3>4 DEF ReadRule
    <2>2. back \in [1 .. Len(config.rules) -> ReadRule] BY <1>4, <2>1
    <2> HIDE DEF back
    <2>3. back \in Seq(ReadRule) BY <1>3, <2>2, FunctionIsSeq
    <2>4. Normalized(config) = [profile |-> config.profile, targets |-> config.targets,
                                rules |-> back]
      BY DEF Normalized, back
    <2> QED BY <1>3, <2>3, <2>4 DEF Config, ReadRule
  <1> QED BY <1>1, <1>10, <1>11

-----------------------------------------------------------------------------
(* Looking into an image finds a configuration, none, or an unreadable one. *)
LEMMA InspectType ==
  ASSUME NEW image
  PROVE  Inspect(image) \in Config \cup {NoBlock, Invalid}
  BY DecodeType DEF Inspect

LEMMA InspectFound ==
  ASSUME NEW image, Inspect(image) # NoBlock, Inspect(image) # Invalid
  PROVE  /\ Inspect(image) \in Config /\ HasUniqueBlock(image)
         /\ Inspect(image) = Decode(image.blocks[1])
  BY DecodeType DEF Inspect

(* patchFirmwareConfig(): an image that was patched says what was asked    *)
(* for, about the profile it was built for, around the same code.          *)
THEOREM PatchedSaysIt ==
  ASSUME NEW image, NEW config \in Config, Patch(image, config) # Invalid,
         image = [code |-> image.code, blocks |-> image.blocks,
                  cut |-> image.cut, valid |-> image.valid]
  PROVE  LET patched == Patch(image, config)
         IN  /\ Inspect(patched) = Normalized(config)
             /\ Inspect(patched) \in Config
             /\ Inspect(patched).profile = Inspect(image).profile
             /\ patched.code = image.code
             /\ patched.valid = image.valid
  <1> DEFINE patched == [image EXCEPT !.blocks = <<Encode(config)>>]
  <1>1. /\ Patch(image, config) = patched
        /\ HasUniqueBlock(image) /\ ConfigAllowed(config)
        /\ config.profile = Decode(image.blocks[1]).profile
        /\ Decode(image.blocks[1]) # Invalid
    BY DEF Patch
  <1>2. /\ patched.blocks = <<Encode(config)>>
        /\ patched.code = image.code /\ patched.cut = image.cut
        /\ patched.valid = image.valid
    OBVIOUS
  <1> HIDE DEF patched
  <1>3. /\ DOMAIN patched.blocks = {1} /\ patched.blocks # <<>>
        /\ patched.blocks[1] = Encode(config)
    BY <1>2
  <1>4. HasUniqueBlock(patched) BY <1>1, <1>2, <1>3 DEF HasUniqueBlock
  <1>5. Inspect(patched) = Normalized(config) /\ Normalized(config) \in Config
    BY <1>1, <1>3, <1>4, WhatIsWrittenIsRead DEF Inspect
  <1>6. image.blocks # <<>> BY <1>1 DEF HasUniqueBlock
  <1>7. Inspect(image) = Decode(image.blocks[1]) BY <1>1, <1>6 DEF Inspect
  <1>8. Normalized(config).profile = config.profile BY DEF Normalized
  <1> QED BY <1>1, <1>2, <1>5, <1>7, <1>8

-----------------------------------------------------------------------------
(* The slot.                                                               *)

Kind == {"local-developer", "frogalert-release", "frogalert-lab",
         "open-badgemagic-recovery"}

Record == [revision : Profile \cup {RecoveryBoard, None},
           marking : MarkingText \cup {None}, confirmed : BOOLEAN]

IsLoad(l) ==
    /\ l = [generation |-> l.generation, kind |-> l.kind, id |-> l.id,
            revisions |-> l.revisions, markings |-> l.markings,
            approved |-> l.approved, expected |-> l.expected,
            served |-> l.served, base |-> l.base, board |-> l.board]
    /\ l.kind \in Kind

Shapes ==
    /\ record \in Record
    /\ choice = [at |-> choice.at, release |-> choice.release,
                 generation |-> choice.generation, captured |-> choice.captured,
                 sameBadge |-> choice.sameBadge]
    /\ \A l \in loads : IsLoad(l)

(* An image whose options can be changed, as it was before they were.      *)
IsBase(b) ==
    /\ b = [image |-> b.image, profile |-> b.profile]
    /\ b.image \in Image /\ b.image \notin Quarantined /\ b.image.valid
    /\ HasUniqueBlock(b.image) /\ Inspect(b.image) \in Config
    /\ Inspect(b.image).profile = b.profile

(* image is b under other options. *)
Configured(image, b) ==
    /\ image # Invalid /\ image.valid /\ image.code = b.image.code
    /\ Inspect(image) \in Config /\ Inspect(image).profile = b.profile

(* A preparation serves what a file or a server holds, or a base with the  *)
(* options applied.                                                        *)
Serves(l) ==
    IF l.base = NoBase THEN l.served \subseteq Image \cup {Invalid}
    ELSE /\ IsBase(l.base) /\ l.id = None /\ l.expected = {}
         /\ l.revisions = {l.base.profile}
         /\ \E image \in l.served : l.served = {image} /\ Configured(image, l.base)

(* The preparation that has not been overtaken. *)
Current(l) ==
    /\ l.board.revision = record.revision /\ l.board.marking = record.marking
    /\ ~flashing
    /\ IF l.base = NoBase THEN firmware = NoFirmware ELSE dirty /\ base = l.base

LoadsAreSound ==
    \A l \in loads :
       /\ Serves(l)
       /\ l.generation = generation => Current(l)
       /\ \A m \in loads : l.generation = m.generation => l = m

SlotIsSound ==
    /\ firmware = NoFirmware \/ firmware.kind \in Kind
    /\ base # NoBase => /\ IsBase(base) /\ options \in Config
                        /\ dirty \/ Inspect(firmware.image) = options
    /\ flashing => ~controls

(* A release image is the one that the manifest in force names. *)
Known(id, images) ==
    id # None /\ manifest # None =>
        \E d \in manifest.releases : d.id = id /\ images = {d.image}

Catalogued ==
    /\ manifest # None => CatalogAccepted(manifest.releases, MarkingOf)
    /\ catalog = "loading" => /\ firmware = NoFirmware /\ choice.release = None
                              /\ \A l \in loads : l.id = None
    /\ choice.release # None /\ manifest # None => choice.release \in manifest.releases
    /\ \A l \in loads : Known(l.id, l.expected)
    /\ firmware # NoFirmware => Known(firmware.id, {firmware.image})

Inv == /\ TypeOK /\ PreparedForThisBoard /\ NeverQuarantined
       /\ Shapes /\ LoadsAreSound /\ SlotIsSound /\ Catalogued

-----------------------------------------------------------------------------
(* Releases come in pairs, so each of them is for one known board: by the  *)
(* pigeonhole principle the images found for the profiles are all there.   *)
LEMMA ReleaseHasItsBoard ==
  ASSUME NEW releases, IsFiniteSet(releases), CatalogAccepted(releases, MarkingOf),
         NEW d \in releases
  PROVE  \E p \in Profile : d.profiles = {p} /\ d.markings = {MarkingOf[p]}
  <1> DEFINE group == {e \in releases : e.version = d.version}
             For(e, p) == e.profiles = {p} /\ e.markings = {MarkingOf[p]}
             half == [p \in Profile |-> CHOOSE e \in group : For(e, p)]
  <1>1. DOMAIN MarkingOf = Profile /\ IsFiniteSet(Profile) BY ArtifactSlotAssumption
  <1>2. /\ Cardinality(group) = Cardinality(Profile)
        /\ \A p \in Profile : \E e \in group : For(e, p)
    BY <1>1 DEF CatalogAccepted, Paired
  <1>3. IsFiniteSet(group) BY FS_Subset
  <1>4. \A p \in Profile : half[p] \in group /\ For(half[p], p) BY <1>2
  <1>5. half \in [Profile -> group] BY <1>4
  <1>6. \A p, q \in Profile : half[p] = half[q] => p = q
    <2>1. ASSUME NEW p \in Profile, NEW q \in Profile, half[p] = half[q] PROVE p = q
      <3>1. {p} = {q} BY <1>4, <2>1
      <3> QED BY <3>1
    <2> QED BY <2>1
  <1> HIDE DEF half
  <1>7. half \in Injection(Profile, group) BY <1>5, <1>6 DEF Injection, IsInjective
  <1>8. half \in Surjection(Profile, group) BY <1>2, <1>3, <1>7, FS_Injection
  <1>9. d \in group OBVIOUS
  <1>10. PICK p \in Profile : half[p] = d BY <1>8, <1>9 DEF Surjection
  <1> QED BY <1>4, <1>10

LEMMA Distinct ==
  /\ \A p \in Profile : p # None
  /\ \A b : b.profile \in Profile => b # NoBase
  /\ NoBase.profile = None /\ NoFirmware.kind = "none" /\ NoFirmware.kind \notin Kind
  /\ \A b : IsBase(b) => b # NoBase /\ b.profile \in Profile
  <1>1. \A p \in Profile : p # None BY ArtifactSlotAssumption
  <1>2. \A b : IsBase(b) => b.profile \in Profile BY DEF IsBase, Config
  <1>3. NoBase.profile = None BY DEF NoBase
  <1>4. \A b : b.profile \in Profile => b # NoBase BY ONLY <1>1, <1>3
  <1>5. NoFirmware.kind = "none" /\ NoFirmware.kind \notin Kind BY DEF NoFirmware, Kind
  <1> QED BY ONLY <1>1, <1>2, <1>3, <1>4, <1>5

LEMMA InitInv == Init => Inv
  <1> SUFFICES ASSUME Init PROVE Inv OBVIOUS
  <1> USE DEF Init
  <1>1. TypeOK
    <2>1. /\ record.revision = None /\ record.marking = None /\ record.confirmed = FALSE
          /\ choice.at = "none" /\ generation \in 0 .. MaxGeneration /\ loads = {}
      BY ArtifactSlotAssumption DEF NoChoice
    <2> QED BY ONLY Init, <2>1 DEF Init, TypeOK, RegistryLoaded
  <1>2. record \in Record BY DEF Record
  <1>3. Shapes BY <1>2 DEF Shapes, NoChoice
  <1>4. LoadsAreSound /\ SlotIsSound BY DEF LoadsAreSound, SlotIsSound
  <1>5. Catalogued BY DEF Catalogued, NoChoice
  <1> QED BY <1>1, <1>3, <1>4, <1>5 DEF Inv, PreparedForThisBoard, NeverQuarantined

-----------------------------------------------------------------------------
(* A preparation begins: beginArtifactPreparation() and clearFirmware().   *)

(* What a new preparation brings, before record' is in force. *)
Fresh(l) ==
    /\ IsLoad(l) /\ l.generation = generation + 1
    /\ l.base = NoBase /\ l.served \subseteq Image \cup {Invalid}
    /\ catalog = "loading" => l.id = None
    /\ Known(l.id, l.expected)

(* A choice of the person that the page may make. *)
ChoiceIsSound ==
    /\ choice = [at |-> choice.at, release |-> choice.release,
                 generation |-> choice.generation, captured |-> choice.captured,
                 sameBadge |-> choice.sameBadge]
    /\ choice.at \in {"none", "loading", "loaded", "failed", "lock", "flash"}
    /\ catalog = "loading" => choice.release = None
    /\ choice.release # None /\ manifest # None => choice.release \in manifest.releases

LEMMA BeginsInv ==
  ASSUME Inv, ~flashing, UNCHANGED <<manifest, catalog, flashing, badge>>,
         NextGeneration, record' \in Record, ChoiceIsSound',
         firmware' = NoFirmware, base' = NoBase, dirty' = FALSE, controls' = FALSE,
         NEW l, loads' = loads \/ (loads' = loads \cup {l} /\ Fresh(l)),
         l.board.revision = record'.revision, l.board.marking = record'.marking
  PROVE  Inv'
  <1>1. /\ generation \in 0 .. MaxGeneration /\ generation' = generation + 1
        /\ generation' \in 0 .. MaxGeneration /\ MaxGeneration \in Nat
        /\ \A m \in loads : m.generation \in 1 .. generation
        /\ \A m \in loads : m.generation # generation' /\ m.generation \in 1 .. generation'
    BY ArtifactSlotAssumption DEF Inv, TypeOK, NextGeneration
  <1>2. /\ \A m \in loads' : m \in loads \/ m = l
        /\ l \in loads' /\ l \notin loads => /\ Fresh(l) /\ l.generation = generation'
                                        /\ l.generation \in 1 .. generation'
    BY <1>1 DEF Fresh
  <1>4. TypeOK'
    <2>1. \A m \in loads' : m.generation \in 1 .. generation' BY <1>1, <1>2
    <2>2. /\ record'.revision \in Profile \cup {RecoveryBoard, None}
          /\ record'.marking \in MarkingText \cup {None}
          /\ record'.confirmed \in BOOLEAN
      BY DEF Record
    <2>3. /\ catalog' \in {"loading", "prefetch", "ready", "failed"}
          /\ manifest' \in Manifest \cup {None} /\ (RegistryLoaded' => manifest' # None)
          /\ badge' \in BOOLEAN /\ flashing' \in BOOLEAN
      BY DEF Inv, TypeOK, RegistryLoaded
    <2> QED BY <1>1, <2>1, <2>2, <2>3 DEF TypeOK, ChoiceIsSound
  <1>5. PreparedForThisBoard' /\ NeverQuarantined' /\ SlotIsSound'
    BY DEF PreparedForThisBoard, NeverQuarantined, SlotIsSound
  <1>6. Shapes' BY <1>2 DEF Inv, Shapes, Fresh, ChoiceIsSound
  <1>7. LoadsAreSound'
    <2>1. \A m \in loads : Serves(m) BY DEF Inv, LoadsAreSound
    <2>2. l \in loads' /\ l \notin loads => Serves(l) BY <1>2 DEF Fresh, Serves
    <2>3. ASSUME NEW m \in loads', m.generation = generation' PROVE Current(m)'
      <3>1. m = l /\ l.base = NoBase BY <1>1, <1>2, <2>3 DEF Fresh
      <3> QED BY <3>1 DEF Current
    <2>4. \A m, n \in loads' : m.generation = n.generation => m = n
      BY <1>1, <1>2 DEF Inv, LoadsAreSound
    <2> QED BY <1>2, <2>1, <2>2, <2>3, <2>4 DEF LoadsAreSound
  <1>8. Catalogued'
    <2>1. \A m \in loads' : Known(m.id, m.expected) /\ (catalog = "loading" => m.id = None)
      BY <1>2 DEF Inv, Catalogued, Fresh
    <2> QED BY <2>1 DEF Inv, Catalogued, ChoiceIsSound, Known
  <1> QED BY <1>4, <1>5, <1>6, <1>7, <1>8 DEF Inv

LEMMA ChoiceSound == Inv => ChoiceIsSound
  BY DEF Inv, TypeOK, Shapes, Catalogued, ChoiceIsSound

LEMMA ChooseLocalFirmwareInv ==
  ASSUME Inv, NEW file \in LocalFile, ChooseLocalFirmware(file)
  PROVE  Inv'
  <1> DEFINE l == Load("local-developer", None, {record.revision}, {}, TRUE, {}, {file})
  <1>1. /\ ~flashing /\ NextGeneration /\ ClearFirmware
        /\ loads' = loads \/ loads' = loads \cup {l}
        /\ UNCHANGED <<manifest, catalog, record, badge, choice, flashing>>
    BY DEF ChooseLocalFirmware, catalogVars
  <1>2. /\ IsLoad(l) /\ l.generation = generation + 1 /\ l.id = None
        /\ l.base = NoBase /\ l.served = {file} /\ l.board = record
    BY DEF Load, IsLoad, Kind
  <1> HIDE DEF l
  <1>3. Fresh(l) BY <1>2, ArtifactSlotAssumption DEF Fresh, Known
  <1>4. ChoiceIsSound' BY <1>1, ChoiceSound DEF ChoiceIsSound
  <1>5. record' \in Record BY <1>1 DEF Inv, Shapes
  <1> QED BY <1>1, <1>2, <1>3, <1>4, <1>5, BeginsInv DEF ClearFirmware

LEMMA ChooseLabImageInv ==
  ASSUME Inv, NEW lab, ChooseLabImage(lab)
  PROVE  Inv'
  <1> DEFINE l == Load("frogalert-lab", None, lab.profiles, lab.markings, TRUE,
                       {lab.image}, {})
  <1>1. /\ ~flashing /\ NextGeneration /\ ClearFirmware
        /\ loads' = loads \/ loads' = loads \cup {l}
        /\ UNCHANGED <<manifest, catalog, record, badge, choice, flashing>>
    BY DEF ChooseLabImage, catalogVars
  <1>2. /\ IsLoad(l) /\ l.generation = generation + 1 /\ l.id = None
        /\ l.base = NoBase /\ l.served = {} /\ l.board = record
    BY DEF Load, IsLoad, Kind
  <1> HIDE DEF l
  <1>3. Fresh(l) BY <1>2 DEF Fresh, Known
  <1>4. ChoiceIsSound' BY <1>1, ChoiceSound DEF ChoiceIsSound
  <1>5. record' \in Record BY <1>1 DEF Inv, Shapes
  <1> QED BY <1>1, <1>2, <1>3, <1>4, <1>5, BeginsInv DEF ClearFirmware

LEMMA PrepareOpenBadgeMagicFirmwareInv ==
  ASSUME Inv, PrepareOpenBadgeMagicFirmware
  PROVE  Inv'
  <1> DEFINE l == Load("open-badgemagic-recovery", None, {RecoveryBoard}, {}, FALSE,
                       {manifest.recovery}, {})
  <1>1. /\ ~flashing /\ NextGeneration /\ ClearFirmware /\ loads' = loads \cup {l}
        /\ UNCHANGED <<manifest, catalog, record, badge, choice, flashing>>
    BY DEF PrepareOpenBadgeMagicFirmware, catalogVars
  <1>2. /\ IsLoad(l) /\ l.generation = generation + 1 /\ l.id = None
        /\ l.base = NoBase /\ l.served = {} /\ l.board = record
    BY DEF Load, IsLoad, Kind
  <1> HIDE DEF l
  <1>3. Fresh(l) BY <1>2 DEF Fresh, Known
  <1>4. ChoiceIsSound' BY <1>1, ChoiceSound DEF ChoiceIsSound
  <1>5. record' \in Record BY <1>1 DEF Inv, Shapes
  <1> QED BY <1>1, <1>2, <1>3, <1>4, <1>5, BeginsInv DEF ClearFirmware

(* The board is entered: with nothing in the slot it stays empty. *)
LEMMA EnterBoardInv ==
  ASSUME Inv, NEW b \in Record, EnterBoard(b)
  PROVE  Inv'
  <1>1. /\ ~flashing /\ NextGeneration /\ record' = b /\ loads' = loads
        /\ UNCHANGED <<manifest, catalog, badge, choice, flashing>>
    BY DEF EnterBoard, catalogVars
  <1>2. /\ firmware' = NoFirmware /\ base' = NoBase
        /\ dirty' = FALSE /\ controls' = FALSE
    <2>1. CASE firmware # NoFirmware BY <2>1 DEF EnterBoard, ClearFirmware
    <2>2. CASE firmware = NoFirmware BY <2>2 DEF EnterBoard, slotVars, Inv, TypeOK
    <2> QED BY <2>1, <2>2
  <1>3. ChoiceIsSound' BY <1>1, ChoiceSound DEF ChoiceIsSound
  <1>4. PICK l : l.board = b
    <2>1. [board |-> b].board = b OBVIOUS
    <2> QED BY <2>1
  <1> QED BY <1>1, <1>2, <1>3, <1>4, BeginsInv

(* The two choices that load a release, for the board as recorded by then. *)
LEMMA LoadReleaseArtifactInv ==
  ASSUME Inv, ~flashing, UNCHANGED <<manifest, catalog, flashing, badge>>,
         record' \in Record, ChoiceIsSound', catalog = "ready",
         NEW d \in manifest.releases, LoadReleaseArtifact(d, record')
  PROVE  Inv'
  <1> DEFINE served == IF d.id \in DOMAIN bytes /\ bytes[d.id] = "good" THEN {d.image}
                       ELSE {}
             k == Load("frogalert-release", d.id, d.profiles, d.markings, TRUE,
                       {d.image}, served)
             l == [k EXCEPT !.board = record']
  <1>1. /\ NextGeneration /\ ClearFirmware
        /\ loads' = loads \/ loads' = loads \cup {l}
    BY DEF LoadReleaseArtifact
  <1>2. manifest \in Manifest BY DEF Inv, TypeOK, RegistryLoaded
  <1>3. served \subseteq Image BY <1>2, ArtifactSlotAssumption
  <1> HIDE DEF served
  <1>4. /\ IsLoad(k) /\ k.generation = generation + 1 /\ k.id = d.id
        /\ k.expected = {d.image} /\ k.base = NoBase /\ k.served = served
        /\ DOMAIN k = {"generation", "kind", "id", "revisions", "markings",
                       "approved", "expected", "served", "base", "board"}
    BY DEF Load, IsLoad, Kind
  <1> HIDE DEF k
  <1>5. /\ l.generation = k.generation /\ l.kind = k.kind /\ l.id = k.id
        /\ l.revisions = k.revisions /\ l.markings = k.markings
        /\ l.approved = k.approved /\ l.expected = k.expected
        /\ l.served = k.served /\ l.base = k.base /\ l.board = record'
        /\ l = [generation |-> l.generation, kind |-> l.kind, id |-> l.id,
                revisions |-> l.revisions, markings |-> l.markings,
                approved |-> l.approved, expected |-> l.expected,
                served |-> l.served, base |-> l.base, board |-> l.board]
    BY ONLY <1>4
  <1> HIDE DEF l
  <1>6. Fresh(l) BY <1>3, <1>4, <1>5 DEF Fresh, Known, IsLoad
  <1> QED BY <1>1, <1>5, <1>6, BeginsInv DEF ClearFirmware

LEMMA ChooseReleaseInv ==
  ASSUME Inv, NEW d, ChooseRelease(d)
  PROVE  Inv'
  <1>1. /\ ~flashing /\ d \in manifest.releases /\ catalog = "ready"
        /\ LoadReleaseArtifact(d, record)
        /\ UNCHANGED <<manifest, catalog, record, badge, choice, flashing>>
    BY DEF ChooseRelease, Releases
  <1>2. ChoiceIsSound' BY <1>1, ChoiceSound DEF ChoiceIsSound
  <1>3. record' \in Record BY <1>1 DEF Inv, Shapes
  <1> QED BY <1>1, <1>2, <1>3, LoadReleaseArtifactInv

LEMMA ChooseIspButtonInv ==
  ASSUME Inv, NEW d, ChooseIspButton(d)
  PROVE  Inv'
  <1>1. /\ ~flashing /\ catalog = "ready" /\ d \in manifest.releases
        /\ record' = [record EXCEPT !.revision = CHOOSE p \in d.profiles : TRUE,
                                    !.marking = CHOOSE m \in d.markings : TRUE]
        /\ LoadReleaseArtifact(d, record')
        /\ UNCHANGED <<manifest, catalog, badge, flashing>>
        /\ choice' = [at |-> "loading", release |-> d, generation |-> generation + 1,
                      captured |-> None, sameBadge |-> TRUE]
    BY DEF ChooseIspButton, Releases, Latest
  <1>2. /\ manifest \in Manifest /\ manifest # None
        /\ CatalogAccepted(manifest.releases, MarkingOf)
    BY <1>1 DEF Inv, TypeOK, Catalogued, RegistryLoaded
  <1>3. IsFiniteSet(manifest.releases) BY <1>2, ArtifactSlotAssumption
  <1>4. PICK p \in Profile : d.profiles = {p} /\ d.markings = {MarkingOf[p]}
    BY <1>1, <1>2, <1>3, ReleaseHasItsBoard
  <1>5. record' = [record EXCEPT !.revision = p, !.marking = MarkingOf[p]]
    <2>1. (CHOOSE q \in d.profiles : TRUE) = p BY <1>4
    <2>2. (CHOOSE m \in d.markings : TRUE) = MarkingOf[p] BY <1>4
    <2> QED BY <1>1, <2>1, <2>2
  <1>6. record' \in Record
    BY <1>5, ArtifactSlotAssumption DEF Inv, Shapes, Record
  <1>7. ChoiceIsSound' BY <1>1 DEF ChoiceIsSound
  <1> QED BY <1>1, <1>6, <1>7, LoadReleaseArtifactInv

LEMMA EnterInv ==
  ASSUME Inv,
         \/ \E m \in MarkingText : EnterMarking(m)
         \/ \E r \in Profile \cup {RecoveryBoard} : EnterRevision(r)
  PROVE  Inv'
  <1>1. ASSUME NEW m \in MarkingText, EnterMarking(m) PROVE Inv'
    <2>1. [record EXCEPT !.marking = m] \in Record BY DEF Inv, Shapes, Record
    <2> QED BY <1>1, <2>1, EnterBoardInv DEF EnterMarking
  <1>2. ASSUME NEW r \in Profile \cup {RecoveryBoard}, EnterRevision(r) PROVE Inv'
    <2>1. [record EXCEPT !.revision = r, !.confirmed = FALSE] \in Record
      BY DEF Inv, Shapes, Record
    <2> QED BY <1>2, <2>1, EnterBoardInv DEF EnterRevision
  <1> QED BY <1>1, <1>2

-----------------------------------------------------------------------------
(* What neither moves the slot nor begins or ends a preparation.           *)
LEMMA QuietInv ==
  ASSUME Inv,
         UNCHANGED <<record, generation, loads, firmware, base, dirty, options,
                     controls, flashing>>,
         badge' \in BOOLEAN, ChoiceIsSound',
         catalog' \in {"loading", "prefetch", "ready", "failed"},
         manifest' \in Manifest \cup {None}, RegistryLoaded' => manifest' # None,
         catalog' = "loading" => catalog = "loading",
         \/ manifest' = None \/ manifest' = manifest
         \/ catalog = "loading" /\ CatalogAccepted(manifest'.releases, MarkingOf)
  PROVE  Inv'
  <1>1. TypeOK' BY DEF Inv, TypeOK, ChoiceIsSound
  <1>2. PreparedForThisBoard' /\ NeverQuarantined' /\ SlotIsSound'
    BY DEF Inv, PreparedForThisBoard, NeverQuarantined, SlotIsSound
  <1>3. Shapes' BY DEF Inv, Shapes, ChoiceIsSound
  <1>4. LoadsAreSound' BY DEF Inv, LoadsAreSound, Current
  <1>5. Catalogued'
    <2>1. manifest' # None => CatalogAccepted(manifest'.releases, MarkingOf)
      BY DEF Inv, Catalogued
    <2>2. \A m \in loads : Known(m.id, m.expected)'
      BY DEF Inv, Catalogued, Known
    <2>3. firmware # NoFirmware => Known(firmware.id, {firmware.image})'
      BY DEF Inv, Catalogued, Known
    <2> QED BY <2>1, <2>2, <2>3 DEF Inv, Catalogued, ChoiceIsSound
  <1> QED BY <1>1, <1>2, <1>3, <1>4, <1>5 DEF Inv

LEMMA CatalogInv ==
  ASSUME Inv, \/ \E m \in Manifest : ManifestArrives(m)
              \/ ManifestFails \/ PrefetchEnds \/ PrefetchFails
  PROVE  Inv'
  <1>a. /\ catalog \in {"loading", "prefetch", "ready", "failed"}
        /\ manifest \in Manifest \cup {None} /\ (RegistryLoaded => manifest # None)
        /\ badge \in BOOLEAN /\ ChoiceIsSound
    BY ChoiceSound DEF Inv, TypeOK
  <1>1. ASSUME NEW m \in Manifest, ManifestArrives(m) PROVE Inv'
    <2>1. /\ catalog = "loading" /\ m # None
          /\ \/ /\ CatalogAccepted(m.releases, MarkingOf)
                /\ manifest' = m /\ catalog' = "prefetch"
             \/ catalog' = "failed" /\ manifest' = manifest
          /\ UNCHANGED <<record, generation, loads, firmware, base, dirty, options,
                         controls, badge, choice, flashing>>
      BY <1>1 DEF ManifestArrives, slotVars
    <2>2. choice'.release = None BY <2>1 DEF Inv, Catalogued
    <2>3. ChoiceIsSound' BY <1>a, <2>1, <2>2 DEF ChoiceIsSound
    <2> QED BY <1>a, <2>1, <2>3, QuietInv DEF RegistryLoaded
  <1>2. ASSUME CatalogFails PROVE Inv'
    <2>1. /\ catalog' = "failed" /\ manifest' = None
          /\ UNCHANGED <<record, generation, loads, firmware, base, dirty, options,
                         controls, badge, choice, flashing>>
      BY <1>2 DEF CatalogFails, slotVars
    <2>2. ChoiceIsSound' BY <1>a, <2>1 DEF ChoiceIsSound
    <2> QED BY <1>a, <2>1, <2>2, QuietInv DEF RegistryLoaded
  <1>3. ASSUME PrefetchEnds PROVE Inv'
    <2>1. /\ catalog = "prefetch" /\ catalog' = "ready" /\ manifest' = manifest
          /\ UNCHANGED <<record, generation, loads, firmware, base, dirty, options,
                         controls, badge, choice, flashing>>
      BY <1>3 DEF PrefetchEnds, slotVars
    <2>2. ChoiceIsSound' BY <1>a, <2>1 DEF ChoiceIsSound
    <2> QED BY <1>a, <2>1, <2>2, QuietInv DEF RegistryLoaded
  <1> QED BY <1>1, <1>2, <1>3 DEF ManifestFails, PrefetchFails

(* Steps of the choice, and the badge coming and going. *)
LEMMA ChoiceInv ==
  ASSUME Inv, ButtonLoaded \/ FlashButton \/ Refused \/ Connect \/ Disconnect
  PROVE  Inv'
  <1>a. /\ catalog \in {"loading", "prefetch", "ready", "failed"}
        /\ manifest \in Manifest \cup {None} /\ (RegistryLoaded => manifest # None)
        /\ badge \in BOOLEAN /\ ChoiceIsSound
    BY ChoiceSound DEF Inv, TypeOK
  <1>1. /\ UNCHANGED <<manifest, catalog, record, generation, loads, firmware, base,
                       dirty, options, controls, flashing>>
        /\ badge' \in BOOLEAN
    BY <1>a DEF ButtonLoaded, FlashButton, Refused, Connect, Disconnect, slotVars,
                catalogVars
  <1>2. \/ choice' = [choice EXCEPT !.at = "lock", !.captured = firmware,
                                    !.generation = generation]
        \/ choice' = NoChoice
        \/ choice' = [NoChoice EXCEPT !.at = "lock"]
        \/ choice' = choice
        \/ choice' = [choice EXCEPT !.sameBadge = FALSE]
    BY Zenon DEF ButtonLoaded, FlashButton, Refused, Connect, Disconnect
  <1> DEFINE ats == {"none", "loading", "loaded", "failed", "lock", "flash"}
             Shape(c) == c = [at |-> c.at, release |-> c.release,
                              generation |-> c.generation, captured |-> c.captured,
                              sameBadge |-> c.sameBadge]
  <1>3. Shape(choice) /\ choice.at \in ats BY <1>a DEF ChoiceIsSound
  <1>4. /\ Shape(choice') /\ choice'.at \in ats
        /\ choice'.release \in {choice.release, None}
    <2>1. CASE choice' = [choice EXCEPT !.at = "lock", !.captured = firmware,
                                        !.generation = generation]
      BY ONLY <1>3, <2>1
    <2>2. CASE choice' = NoChoice BY <2>2 DEF NoChoice
    <2>3. CASE choice' = [NoChoice EXCEPT !.at = "lock"] BY <2>3 DEF NoChoice
    <2>4. CASE choice' = [choice EXCEPT !.sameBadge = FALSE] BY ONLY <1>3, <2>4
    <2> QED BY <1>2, <1>3, <2>1, <2>2, <2>3, <2>4
  <1>5. ChoiceIsSound' BY <1>a, <1>1, <1>4 DEF ChoiceIsSound
  <1> QED BY <1>a, <1>1, <1>5, QuietInv DEF RegistryLoaded

-----------------------------------------------------------------------------
(* The options: what a form, or the base itself, says is a configuration.  *)
LEMMA OptionsInv ==
  ASSUME Inv, (\E f \in Form : EditOptions(f)) \/ RestoreBaseMonitorOptions
  PROVE  Inv'
  <1>1. /\ base # NoBase /\ dirty' = TRUE /\ controls
        /\ UNCHANGED <<manifest, catalog, record, generation, loads, firmware, base,
                       controls, badge, choice, flashing>>
    BY DEF EditOptions, RestoreBaseMonitorOptions, catalogVars
  <1>2. IsBase(base) BY <1>1 DEF Inv, SlotIsSound
  <1>3. base.profile \in Profile BY <1>2, Distinct
  <1>4. options' \in Config
    <2>1. ASSUME NEW f \in Form, EditOptions(f) PROVE options' \in Config
      <3>1. f \in Config BY ArtifactSlotAssumption
      <3>2. options' = [f EXCEPT !.profile = base.profile] BY <2>1 DEF EditOptions
      <3> QED BY <1>3, <3>1, <3>2 DEF Config
    <2>2. ASSUME RestoreBaseMonitorOptions PROVE options' \in Config
      BY <1>2, <2>2 DEF RestoreBaseMonitorOptions, IsBase
    <2> QED BY <2>1, <2>2
  <1>5. TypeOK' BY <1>1 DEF Inv, TypeOK, RegistryLoaded
  <1>6. PreparedForThisBoard' /\ NeverQuarantined'
    BY <1>1 DEF Inv, PreparedForThisBoard, NeverQuarantined
  <1>7. Shapes' /\ Catalogued' BY <1>1 DEF Inv, Shapes, Catalogued, Known
  <1>8. LoadsAreSound' BY <1>1 DEF Inv, LoadsAreSound, Current
  <1>9. SlotIsSound' BY <1>1, <1>4 DEF Inv, SlotIsSound
  <1> QED BY <1>5, <1>6, <1>7, <1>8, <1>9 DEF Inv

(* applyMonitorOptions(): the image that it makes is the base under the    *)
(* options, and the preparation is for the options in force.               *)
LEMMA ApplyMonitorOptionsInv ==
  ASSUME Inv, ApplyMonitorOptions
  PROVE  Inv'
  <1> DEFINE configured == Patch(base.image, options)
             k == Load("local-developer", None, {base.profile}, {}, TRUE, {}, {configured})
             l == [k EXCEPT !.base = base]
  <1>1. /\ ~flashing /\ base # NoBase /\ controls /\ dirty /\ configured # Invalid
        /\ NextGeneration /\ controls' = FALSE /\ loads' = loads \cup {l}
        /\ UNCHANGED <<manifest, catalog, record, firmware, base, dirty, options, badge,
                       choice, flashing>>
    BY DEF ApplyMonitorOptions, catalogVars
  <1>2. IsBase(base) /\ options \in Config BY <1>1 DEF Inv, SlotIsSound
  <1>3. Configured(configured, base)
    <2>1. base.image = [code |-> base.image.code, blocks |-> base.image.blocks,
                        cut |-> base.image.cut, valid |-> base.image.valid]
      BY <1>2, ArtifactSlotAssumption DEF IsBase
    <2>2. /\ Inspect(configured) \in Config
          /\ Inspect(configured).profile = Inspect(base.image).profile
          /\ configured.code = base.image.code
          /\ configured.valid = base.image.valid
      BY <1>1, <1>2, <2>1, PatchedSaysIt
    <2> HIDE DEF configured
    <2> QED BY <1>1, <1>2, <2>2 DEF Configured, IsBase
  <1>4. /\ IsLoad(k) /\ k.generation = generation + 1 /\ k.id = None
        /\ k.revisions = {base.profile} /\ k.expected = {} /\ k.served = {configured}
        /\ k.board = record
        /\ DOMAIN k = {"generation", "kind", "id", "revisions", "markings",
                       "approved", "expected", "served", "base", "board"}
    <2> HIDE DEF configured
    <2> QED BY DEF Load, IsLoad, Kind
  <1> HIDE DEF k, configured
  <1>5. /\ l.generation = k.generation /\ l.kind = k.kind /\ l.id = k.id
        /\ l.revisions = k.revisions /\ l.markings = k.markings
        /\ l.approved = k.approved /\ l.expected = k.expected
        /\ l.served = k.served /\ l.board = k.board /\ l.base = base
        /\ l = [generation |-> l.generation, kind |-> l.kind, id |-> l.id,
                revisions |-> l.revisions, markings |-> l.markings,
                approved |-> l.approved, expected |-> l.expected,
                served |-> l.served, base |-> l.base, board |-> l.board]
    BY ONLY <1>4
  <1> HIDE DEF l
  <1>6. IsLoad(l) BY <1>4, <1>5 DEF IsLoad
  <1>7. /\ generation \in 0 .. MaxGeneration /\ generation' = generation + 1
        /\ generation' \in 0 .. MaxGeneration /\ l.generation = generation'
        /\ l.generation \in 1 .. generation'
        /\ \A m \in loads : m.generation # generation' /\ m.generation \in 1 .. generation'
    BY <1>1, <1>4, <1>5, ArtifactSlotAssumption DEF Inv, TypeOK, NextGeneration
  <1>8. TypeOK'
    <2>1. \A m \in loads' : m.generation \in 1 .. generation' BY <1>1, <1>7
    <2>2. RegistryLoaded' <=> RegistryLoaded BY <1>1 DEF RegistryLoaded
    <2> QED BY <1>1, <1>7, <2>1, <2>2, ZenonT(60) DEF Inv, TypeOK
  <1>9. PreparedForThisBoard' /\ NeverQuarantined' /\ SlotIsSound'
    BY <1>1 DEF Inv, PreparedForThisBoard, NeverQuarantined, SlotIsSound
  <1>10. Shapes' BY <1>1, <1>6 DEF Inv, Shapes
  <1>11. LoadsAreSound'
    <2>1. \A m \in loads : Serves(m) BY DEF Inv, LoadsAreSound
    <2>2. Serves(l) BY <1>1, <1>2, <1>3, <1>4, <1>5 DEF Serves
    <2>3. ASSUME NEW m \in loads', m.generation = generation' PROVE Current(m)'
      <3>1. m = l BY <1>1, <1>7, <2>3
      <3> QED BY <1>1, <1>4, <1>5, <3>1 DEF Current
    <2>4. \A m, n \in loads' : m.generation = n.generation => m = n
      BY <1>1, <1>7 DEF Inv, LoadsAreSound
    <2> QED BY <1>1, <2>1, <2>2, <2>3, <2>4 DEF LoadsAreSound
  <1>12. Catalogued'
    <2>a. l.id = None BY ONLY <1>4, <1>5
    <2>1. ASSUME NEW m \in loads'
          PROVE  Known(m.id, m.expected)' /\ (catalog = "loading" => m.id = None)
      <3>1. CASE m \in loads BY <1>1, <3>1 DEF Inv, Catalogued, Known
      <3>2. CASE m = l BY <2>a, <3>2 DEF Known
      <3> QED BY <1>1, <3>1, <3>2
    <2>2. firmware # NoFirmware => Known(firmware.id, {firmware.image})'
      BY <1>1 DEF Inv, Catalogued, Known
    <2> QED BY <1>1, <2>1, <2>2 DEF Inv, Catalogued
  <1> QED BY <1>8, <1>9, <1>10, <1>11, <1>12 DEF Inv

LEMMA ConfirmRecoveryBoardInv ==
  ASSUME Inv, ConfirmRecoveryBoard
  PROVE  Inv'
  <1>1. /\ record' = [record EXCEPT !.confirmed = ~@]
        /\ UNCHANGED <<manifest, catalog, generation, loads, firmware, base, dirty,
                       options, controls, badge, choice, flashing>>
    BY DEF ConfirmRecoveryBoard, catalogVars, slotVars
  <1>2. /\ record' \in Record
        /\ record'.revision = record.revision /\ record'.marking = record.marking
        /\ record'.confirmed \in BOOLEAN
    <2>1. record \in Record BY DEF Inv, Shapes
    <2> DEFINE b == ~record.confirmed
    <2>2. record' = [record EXCEPT !.confirmed = b] BY <1>1
    <2>3. b \in BOOLEAN BY <2>1 DEF Record
    <2> HIDE DEF b
    <2> QED BY <2>1, <2>2, <2>3 DEF Record
  <1>3. TypeOK' BY <1>1, <1>2 DEF Inv, TypeOK, RegistryLoaded
  <1>4. PreparedForThisBoard' /\ NeverQuarantined' /\ SlotIsSound'
    BY <1>1, <1>2 DEF Inv, PreparedForThisBoard, NeverQuarantined, SlotIsSound
  <1>5. Shapes' /\ Catalogued' BY <1>1, <1>2 DEF Inv, Shapes, Catalogued, Known
  <1>6. LoadsAreSound' BY <1>1, <1>2 DEF Inv, LoadsAreSound, Current
  <1> QED BY <1>3, <1>4, <1>5, <1>6 DEF Inv

-----------------------------------------------------------------------------
(* The bytes of a release reach the loads that wait for them.              *)
LEMMA BytesArriveInv ==
  ASSUME Inv, manifest # None, NEW d \in manifest.releases,
         NEW image \in Image \cup {Invalid}, BytesArrive(d, image)
  PROVE  Inv'
  <1>a. d.id # None BY ArtifactSlotAssumption DEF Inv, TypeOK
  <1> DEFINE x == IF image # Invalid /\ Verified(d, image) THEN image ELSE Invalid
             Given(m) == IF m.id = d.id /\ m.served = {} THEN [m EXCEPT !.served = {x}]
                         ELSE m
  <1>1. /\ loads' = {Given(m) : m \in loads}
        /\ UNCHANGED <<manifest, catalog, record, generation, firmware, base, dirty,
                       options, controls, badge, choice, flashing>>
    BY DEF BytesArrive, slotVars
  <1>b. x \in Image \cup {Invalid} OBVIOUS
  <1> HIDE DEF x
  <1>2. ASSUME NEW m \in loads
        PROVE  /\ IsLoad(Given(m)) /\ Serves(Given(m))
               /\ Given(m).generation = m.generation /\ Given(m).id = m.id
               /\ Given(m).expected = m.expected /\ Given(m).base = m.base
               /\ Given(m).board = m.board
    <2>1. IsLoad(m) /\ Serves(m) BY DEF Inv, Shapes, LoadsAreSound
    <2>2. CASE m.id = d.id /\ m.served = {}
      <3> DEFINE n == [m EXCEPT !.served = {x}]
      <3>1. Given(m) = n BY <2>2
      <3>2. m = [generation |-> m.generation, kind |-> m.kind, id |-> m.id,
                 revisions |-> m.revisions, markings |-> m.markings,
                 approved |-> m.approved, expected |-> m.expected,
                 served |-> m.served, base |-> m.base, board |-> m.board]
            /\ m.kind \in Kind
        BY <2>1 DEF IsLoad
      <3>3. DOMAIN m = {"generation", "kind", "id", "revisions", "markings",
                        "approved", "expected", "served", "base", "board"}
        BY ONLY <3>2
      <3>4. /\ n.generation = m.generation /\ n.kind = m.kind /\ n.id = m.id
            /\ n.revisions = m.revisions /\ n.markings = m.markings
            /\ n.approved = m.approved /\ n.expected = m.expected
            /\ n.board = m.board /\ n.base = m.base /\ n.served = {x}
            /\ n = [generation |-> n.generation, kind |-> n.kind, id |-> n.id,
                    revisions |-> n.revisions, markings |-> n.markings,
                    approved |-> n.approved, expected |-> n.expected,
                    served |-> n.served, base |-> n.base, board |-> n.board]
        BY ONLY <3>3
      <3> HIDE DEF n
      <3>5. IsLoad(n) BY <3>2, <3>4 DEF IsLoad
      <3>6. m.base = NoBase BY <1>a, <2>1, <2>2 DEF Serves
      <3>7. Serves(n) BY <1>b, <3>4, <3>6 DEF Serves
      <3> QED BY <3>1, <3>4, <3>5, <3>7
    <2>3. CASE ~(m.id = d.id /\ m.served = {}) BY <2>1, <2>3
    <2> QED BY <2>2, <2>3
  <1>3. \A n \in loads' : \E m \in loads : n = Given(m) BY <1>1
  <1> HIDE DEF Given
  <1>4. TypeOK' BY <1>1, <1>2, <1>3 DEF Inv, TypeOK, RegistryLoaded
  <1>5. PreparedForThisBoard' /\ NeverQuarantined' /\ SlotIsSound'
    BY <1>1 DEF Inv, PreparedForThisBoard, NeverQuarantined, SlotIsSound
  <1>6. Shapes' BY <1>1, <1>2, <1>3 DEF Inv, Shapes
  <1>7. LoadsAreSound'
    <2>1. \A n \in loads' : Serves(n) BY <1>2, <1>3
    <2>2. ASSUME NEW n \in loads', n.generation = generation' PROVE Current(n)'
      <3>1. PICK m \in loads : n = Given(m) BY <1>3
      <3>2. Current(m) BY <1>1, <1>2, <2>2, <3>1 DEF Inv, LoadsAreSound
      <3> QED BY <1>1, <1>2, <3>1, <3>2 DEF Current
    <2>3. ASSUME NEW n \in loads', NEW o \in loads', n.generation = o.generation
          PROVE  n = o
      <3>1. PICK m \in loads : n = Given(m) BY <1>3
      <3>2. PICK p \in loads : o = Given(p) BY <1>3
      <3>3. m = p BY <1>2, <2>3, <3>1, <3>2 DEF Inv, LoadsAreSound
      <3> QED BY <3>1, <3>2, <3>3
    <2> QED BY <2>1, <2>2, <2>3 DEF LoadsAreSound
  <1>8. Catalogued'
    <2>1. \A n \in loads' : Known(n.id, n.expected) /\ (catalog = "loading" => n.id = None)
      BY <1>2, <1>3 DEF Inv, Catalogued
    <2>2. \A n \in loads' : Known(n.id, n.expected)' BY <1>1, <2>1 DEF Known
    <2>3. firmware # NoFirmware => Known(firmware.id, {firmware.image})'
      BY <1>1 DEF Inv, Catalogued, Known
    <2> QED BY <1>1, <2>1, <2>2, <2>3 DEF Inv, Catalogued
  <1> QED BY <1>4, <1>5, <1>6, <1>7, <1>8 DEF Inv

-----------------------------------------------------------------------------
(* A preparation ends.                                                     *)

LEMMA TellShape ==
  ASSUME Inv, NEW l, NEW outcome \in {"loaded", "failed"}, Tell(l, outcome),
         UNCHANGED <<manifest, catalog>>
  PROVE  ChoiceIsSound'
  <1>1. ChoiceIsSound BY ChoiceSound
  <1>2. choice' = choice \/ choice' = [choice EXCEPT !.at = outcome] BY DEF Tell
  <1>3. /\ choice' = [at |-> choice'.at, release |-> choice'.release,
                      generation |-> choice'.generation, captured |-> choice'.captured,
                      sameBadge |-> choice'.sameBadge]
        /\ choice'.at \in {choice.at, outcome} /\ choice'.release = choice.release
    <2>1. choice = [at |-> choice.at, release |-> choice.release,
                    generation |-> choice.generation, captured |-> choice.captured,
                    sameBadge |-> choice.sameBadge]
      BY <1>1 DEF ChoiceIsSound
    <2>2. CASE choice' = choice BY ONLY <2>1, <2>2
    <2>3. CASE choice' = [choice EXCEPT !.at = outcome] BY ONLY <2>1, <2>3
    <2> QED BY <1>2, <2>2, <2>3
  <1> QED BY <1>1, <1>3 DEF ChoiceIsSound

(* What no step that ends a preparation touches, and the loads that remain. *)
LEMMA EndsInv ==
  ASSUME Inv, NEW l \in loads, loads' = loads \ {l}, ChoiceIsSound',
         UNCHANGED <<manifest, catalog, record, generation, badge, flashing>>,
         base' # NoBase => firmware' # NoFirmware,
         dirty' \in BOOLEAN, controls' \in BOOLEAN,
         (dirty' \/ controls') => base' # NoBase,
         PreparedForThisBoard', NeverQuarantined', SlotIsSound',
         firmware' # NoFirmware => Known(firmware'.id, {firmware'.image}),
         catalog = "loading" => firmware' = NoFirmware,
         l.generation = generation \/ UNCHANGED <<firmware, base, dirty>>
  PROVE  Inv'
  <1>1. TypeOK' BY DEF Inv, TypeOK, RegistryLoaded, ChoiceIsSound
  <1>2. Shapes' BY DEF Inv, Shapes, ChoiceIsSound
  <1>3. LoadsAreSound'
    <2>1. ASSUME NEW m \in loads', m.generation = generation' PROVE Current(m)'
      <3>1. Current(m) /\ l.generation # generation BY <2>1 DEF Inv, LoadsAreSound
      <3> QED BY <3>1 DEF Current
    <2> QED BY <2>1 DEF Inv, LoadsAreSound
  <1>4. Catalogued'
    <2>1. firmware' # NoFirmware => Known(firmware.id, {firmware.image})' BY DEF Known
    <2>2. \A m \in loads' : Known(m.id, m.expected)' BY DEF Inv, Catalogued, Known
    <2> QED BY <2>1, <2>2 DEF Inv, Catalogued, ChoiceIsSound
  <1> QED BY <1>1, <1>2, <1>3, <1>4 DEF Inv

LEMMA EnableIs ==
  ASSUME Enable
  PROVE  controls' \in BOOLEAN /\ (controls' => base # NoBase /\ ~flashing)
  <1> DEFINE b == base # NoBase /\ ~flashing
  <1>1. controls' = b BY DEF Enable
  <1>2. b \in BOOLEAN /\ (b => base # NoBase /\ ~flashing) OBVIOUS
  <1> HIDE DEF b
  <1> QED BY <1>1, <1>2

LEMMA DroppedInv ==
  ASSUME Inv, NEW l, NEW image, Dropped(l, image)
  PROVE  Inv'
  <1>1. /\ l \in loads /\ loads' = loads \ {l} /\ Tell(l, "failed")
        /\ UNCHANGED <<manifest, catalog, record, generation, firmware, base, dirty,
                       options, badge, flashing>>
        /\ Enable \/ controls' = controls
    BY DEF Dropped, catalogVars
  <1>2. ChoiceIsSound' BY <1>1, TellShape
  <1>3. /\ dirty \in BOOLEAN /\ flashing \in BOOLEAN /\ controls' \in BOOLEAN
        /\ dirty \/ controls' => base # NoBase
        /\ base # NoBase => firmware # NoFirmware
        /\ flashing => ~controls'
    <2>1. /\ dirty \in BOOLEAN /\ flashing \in BOOLEAN /\ controls \in BOOLEAN
          /\ dirty \/ controls => base # NoBase
          /\ base # NoBase => firmware # NoFirmware
          /\ flashing => ~controls
      BY DEF Inv, TypeOK, SlotIsSound
    <2>2. CASE Enable BY <2>1, <2>2, EnableIs
    <2>3. CASE controls' = controls BY <2>1, <2>3
    <2> QED BY <1>1, <2>2, <2>3
  <1>4. PreparedForThisBoard' /\ NeverQuarantined'
    BY <1>1 DEF Inv, PreparedForThisBoard, NeverQuarantined
  <1>5. SlotIsSound' BY <1>1, <1>3 DEF Inv, SlotIsSound
  <1>6. /\ firmware' # NoFirmware => Known(firmware'.id, {firmware'.image})
        /\ catalog = "loading" => firmware' = NoFirmware
    BY <1>1 DEF Inv, Catalogued
  <1> QED BY <1>1, <1>2, <1>3, <1>4, <1>5, <1>6, EndsInv

LEMMA LandsInv ==
  ASSUME Inv, NEW l, NEW image \in Served(l), Lands(l, image)
  PROVE  Inv'
  <1>1. /\ l \in loads /\ Plausible(l, image) /\ l.generation = generation
        /\ RegistryLoaded /\ image \notin Quarantined
        /\ l.expected # {} => image \in l.expected
        /\ dirty' = FALSE /\ loads' = loads \ {l} /\ Tell(l, "loaded")
        /\ UNCHANGED <<manifest, catalog, record, generation, badge, flashing>>
    BY DEF Lands, Overtaken, ThrowsLate, catalogVars
  <1>2. /\ firmware'.image = image /\ firmware'.kind = l.kind /\ firmware'.id = l.id
        /\ firmware'.board = l.board /\ firmware'.revisions = l.revisions
    BY DEF Lands
  <1>3. IsLoad(l) /\ Serves(l) /\ Current(l)
    BY <1>1 DEF Inv, Shapes, LoadsAreSound
  <1>4. l.kind \in Kind /\ firmware' # NoFirmware BY <1>2, <1>3, Distinct DEF IsLoad
  <1>5. ChoiceIsSound' BY <1>1, TellShape
  <1>8. /\ controls' \in BOOLEAN /\ (controls' => base' # NoBase)
        /\ base' # NoBase => /\ IsBase(base') /\ base'.image.code = image.code
                             /\ base'.profile \in l.revisions
                             /\ options' = Inspect(image) /\ options' \in Config
    <2>1. CASE Inspect(image) = NoBlock
      <3>1. base' = NoBase /\ controls' = FALSE BY <2>1 DEF Lands
      <3> QED BY <3>1
    <2>2. CASE Inspect(image) # NoBlock
      <3>1. /\ base' = IF l.base # NoBase THEN l.base
                       ELSE [image |-> image, profile |-> Inspect(image).profile]
            /\ options' = Inspect(image) /\ controls' = TRUE
        BY <2>2 DEF Lands
      <3>2. /\ image # Invalid /\ image.valid /\ Inspect(image) # Invalid
            /\ Inspect(image).profile \in l.revisions
        BY <1>1, <2>2 DEF Plausible
      <3>3. Inspect(image) \in Config /\ HasUniqueBlock(image)
        BY <2>2, <3>2, InspectFound
      <3>4. CASE l.base # NoBase
        <4>1. /\ IsBase(l.base) /\ l.revisions = {l.base.profile}
              /\ Configured(image, l.base)
          BY <1>3, <3>4 DEF Serves, Served
        <4> QED BY <3>1, <3>3, <3>4, <4>1 DEF Configured
      <3>5. CASE l.base = NoBase
        <4> DEFINE b == [image |-> image, profile |-> Inspect(image).profile]
        <4>1. image \in Image BY <1>3, <3>2, <3>5 DEF Serves, Served
        <4>2. b.image = image /\ b.profile = Inspect(image).profile
              /\ b = [image |-> b.image, profile |-> b.profile]
          OBVIOUS
        <4>3. base' = b BY <3>1, <3>5
        <4> HIDE DEF b
        <4>4. IsBase(b) BY <1>1, <3>2, <3>3, <4>1, <4>2 DEF IsBase
        <4>5. b # NoBase BY <4>4, Distinct
        <4> QED BY <3>1, <3>2, <3>3, <4>2, <4>3, <4>4, <4>5
      <3> QED BY <3>4, <3>5
    <2> QED BY <2>1, <2>2
  <1>9. PreparedForThisBoard'
    BY <1>1, <1>2, <1>3 DEF PreparedForThisBoard, Current
  <1>10. NeverQuarantined' BY <1>1, <1>2, <1>8 DEF NeverQuarantined, IsBase
  <1>11. SlotIsSound' BY <1>1, <1>2, <1>3, <1>4, <1>8 DEF SlotIsSound, Current
  <1>12. Known(firmware'.id, {firmware'.image})
    <2>1. Known(l.id, l.expected) BY <1>1 DEF Inv, Catalogued
    <2> QED BY <1>1, <1>2, <2>1 DEF Known
  <1>13. catalog # "loading" BY <1>1 DEF RegistryLoaded
  <1>14. dirty' \in BOOLEAN BY <1>1
  <1> QED BY <1>1, <1>4, <1>5, <1>8, <1>9, <1>10, <1>11, <1>12, <1>13, <1>14, EndsInv

LEMMA RejectedInv ==
  ASSUME Inv, NEW l, NEW image \in Served(l), Rejected(l, image)
  PROVE  Inv'
  <1>1. /\ l \in loads /\ (~Plausible(l, image) \/ ~Overtaken(l))
        /\ loads' = loads \ {l} /\ Tell(l, "failed")
        /\ UNCHANGED <<manifest, catalog, record, generation, badge, flashing>>
    BY DEF Rejected, catalogVars
  <1>2. Serves(l) /\ (l.generation = generation => Current(l))
    BY <1>1 DEF Inv, LoadsAreSound
  <1>3. ChoiceIsSound' BY <1>1, TellShape
  <1>4. /\ dirty \in BOOLEAN /\ controls \in BOOLEAN /\ flashing \in BOOLEAN
        /\ dirty \/ controls => base # NoBase
        /\ base # NoBase => firmware # NoFirmware
        /\ PreparedForThisBoard /\ NeverQuarantined /\ SlotIsSound
        /\ firmware # NoFirmware => Known(firmware.id, {firmware.image})
        /\ catalog = "loading" => firmware = NoFirmware
    BY DEF Inv, TypeOK, Catalogued
  <1>5. CASE l.base # NoBase
    <2>1. /\ dirty' = TRUE /\ UNCHANGED <<firmware, base, options>> /\ Enable
      BY <1>5 DEF Rejected
    <2>2. Plausible(l, image)
      BY <1>2, <1>5, FirmwareConfigAssumption DEF Serves, Served, Configured, Plausible
    <2>3. l.generation = generation /\ base = l.base
      BY <1>1, <1>2, <1>5, <2>2 DEF Overtaken, Current
    <2>4. controls' \in BOOLEAN /\ (controls' => base # NoBase /\ ~flashing)
      BY <2>1, EnableIs
    <2>5. PreparedForThisBoard' /\ NeverQuarantined'
      BY <1>1, <1>4, <2>1 DEF PreparedForThisBoard, NeverQuarantined
    <2>6. SlotIsSound' BY <1>1, <1>4, <2>1, <2>4 DEF SlotIsSound
    <2> QED BY <1>1, <1>3, <1>4, <1>5, <2>1, <2>3, <2>4, <2>5, <2>6, EndsInv
  <1>6. CASE l.base = NoBase /\ Overtaken(l)
    <2>1. UNCHANGED <<firmware, base, dirty, options, controls>>
      BY <1>6 DEF Rejected, slotVars
    <2>2. PreparedForThisBoard' /\ NeverQuarantined' /\ SlotIsSound'
      BY <1>1, <1>4, <2>1 DEF PreparedForThisBoard, NeverQuarantined, SlotIsSound
    <2> QED BY <1>1, <1>3, <1>4, <2>1, <2>2, EndsInv
  <1>7. CASE l.base = NoBase /\ ~Overtaken(l)
    <2>1. /\ firmware' = NoFirmware /\ base' = NoBase /\ dirty' = FALSE
          /\ controls' = FALSE
      BY <1>7 DEF Rejected, ClearFirmware
    <2>2. PreparedForThisBoard' /\ NeverQuarantined' /\ SlotIsSound'
      BY <2>1 DEF PreparedForThisBoard, NeverQuarantined, SlotIsSound
    <2>3. l.generation = generation BY <1>7 DEF Overtaken
    <2>4. dirty' \in BOOLEAN /\ controls' \in BOOLEAN
          /\ (dirty' \/ controls' => base' # NoBase)
      BY <2>1
    <2> QED BY <1>1, <1>3, <2>1, <2>2, <2>3, <2>4, EndsInv
  <1> QED BY <1>5, <1>6, <1>7

-----------------------------------------------------------------------------
(* A flash starts and ends.  While it runs no preparation is current: one  *)
(* would have emptied the slot, or made its options dirty.                 *)
LEMMA StartsInv ==
  ASSUME Inv, Starts
  PROVE  Inv'
  <1>1. /\ CanEnableFlash /\ flashing' = TRUE /\ controls' = FALSE
        /\ choice' = [choice EXCEPT !.at = "flash"]
        /\ UNCHANGED <<manifest, catalog, record, generation, loads, firmware, base,
                       dirty, options, badge>>
    BY DEF Starts, catalogVars
  <1>2. firmware # NoFirmware /\ ~dirty BY <1>1 DEF CanEnableFlash
  <1>3. \A l \in loads : l.generation # generation
    <2>1. ASSUME NEW l \in loads, l.generation = generation PROVE FALSE
      <3>1. Current(l) BY <2>1 DEF Inv, LoadsAreSound
      <3> QED BY <1>2, <3>1 DEF Current
    <2> QED BY <2>1
  <1>4. ChoiceIsSound BY ChoiceSound
  <1>5. /\ choice' = [at |-> choice'.at, release |-> choice'.release,
                      generation |-> choice'.generation, captured |-> choice'.captured,
                      sameBadge |-> choice'.sameBadge]
        /\ choice'.at = "flash" /\ choice'.release = choice.release
    <2>1. choice = [at |-> choice.at, release |-> choice.release,
                    generation |-> choice.generation, captured |-> choice.captured,
                    sameBadge |-> choice.sameBadge]
      BY <1>4 DEF ChoiceIsSound
    <2>2. choice' = [choice EXCEPT !.at = "flash"] BY <1>1
    <2> QED BY ONLY <2>1, <2>2
  <1>6. TypeOK'
    <2>1. flashing' \in BOOLEAN /\ controls' \in BOOLEAN /\ ~controls' BY <1>1
    <2> QED BY <1>1, <1>5, <2>1 DEF Inv, TypeOK, RegistryLoaded
  <1>7. PreparedForThisBoard' /\ NeverQuarantined' /\ SlotIsSound'
    BY <1>1 DEF Inv, PreparedForThisBoard, NeverQuarantined, SlotIsSound
  <1>8. Shapes' BY <1>1, <1>5 DEF Inv, Shapes
  <1>9. LoadsAreSound' BY <1>1, <1>3 DEF Inv, LoadsAreSound
  <1>10. Catalogued' BY <1>1, <1>5 DEF Inv, Catalogued, Known
  <1> QED BY <1>6, <1>7, <1>8, <1>9, <1>10 DEF Inv

LEMMA FlashEndsInv ==
  ASSUME Inv, FlashEnds
  PROVE  Inv'
  <1> DEFINE b == base # NoBase
  <1>1. /\ flashing' = FALSE /\ choice' = NoChoice /\ controls' = b
        /\ UNCHANGED <<manifest, catalog, record, generation, loads, firmware, base,
                       dirty, options, badge>>
    BY DEF FlashEnds, catalogVars
  <1>2. b \in BOOLEAN /\ (b => base # NoBase) OBVIOUS
  <1> HIDE DEF b
  <1>3. controls' \in BOOLEAN /\ flashing' \in BOOLEAN /\ (controls' => base # NoBase)
    BY <1>1, <1>2
  <1>4. /\ choice'.at = "none" /\ choice'.release = None
        /\ choice' = [at |-> choice'.at, release |-> choice'.release,
                      generation |-> choice'.generation, captured |-> choice'.captured,
                      sameBadge |-> choice'.sameBadge]
    BY <1>1 DEF NoChoice
  <1>5. TypeOK' BY <1>1, <1>3, <1>4 DEF Inv, TypeOK, RegistryLoaded
  <1>6. PreparedForThisBoard' /\ NeverQuarantined' /\ SlotIsSound'
    BY <1>1 DEF Inv, PreparedForThisBoard, NeverQuarantined, SlotIsSound
  <1>7. Shapes' BY <1>1, <1>4 DEF Inv, Shapes
  <1>8. LoadsAreSound' BY <1>1 DEF Inv, LoadsAreSound, Current
  <1>9. Catalogued' BY <1>1, <1>4 DEF Inv, Catalogued, Known
  <1> QED BY <1>5, <1>6, <1>7, <1>8, <1>9 DEF Inv

LEMMA StepInv == Inv /\ [Next]_vars => Inv'
  <1> SUFFICES ASSUME Inv, [Next]_vars PROVE Inv' OBVIOUS
  <1>1. CASE Choose
    BY <1>1, ChooseLocalFirmwareInv, ChooseReleaseInv, ChooseIspButtonInv,
       ChooseLabImageInv, PrepareOpenBadgeMagicFirmwareInv, ApplyMonitorOptionsInv,
       OptionsInv, EnterInv, ConfirmRecoveryBoardInv
    DEF Choose
  <1>2. CASE Fetch BY <1>2, CatalogInv, BytesArriveInv DEF Fetch
  <1>3. CASE FlashingStep BY <1>3, ChoiceInv, StartsInv, FlashEndsInv DEF FlashingStep
  <1>4. CASE \E l \in loads : Settle(l)
    BY <1>4, LandsInv, RejectedInv, DroppedInv DEF Settle
  <1>5. CASE UNCHANGED vars
    BY <1>5 DEF vars, catalogVars, slotVars, Inv, TypeOK, RegistryLoaded,
       PreparedForThisBoard, NeverQuarantined, Shapes, LoadsAreSound, Current,
       SlotIsSound, Catalogued, Known
  <1> QED BY <1>1, <1>2, <1>3, <1>4, <1>5 DEF Next

LEMMA AlwaysInv == Spec => []Inv
  BY InitInv, StepInv, PTL DEF Spec

-----------------------------------------------------------------------------
(* What the page promises about its slot.                                  *)

(* The variables keep their types, and the base of the options is only     *)
(* remembered beside an image (clearFirmware, setFirmware).                *)
THEOREM SlotTypeCorrect == Spec => []TypeOK
  <1>1. Inv => TypeOK BY DEF Inv
  <1> QED BY AlwaysInv, <1>1, PTL

(* Whatever was loading when the board was entered again: what is in the   *)
(* slot was prepared for the board as it is recorded (setFirmware).        *)
THEOREM SlotFitsTheBoard == Spec => []PreparedForThisBoard
  <1>1. Inv => PreparedForThisBoard BY DEF Inv
  <1> QED BY AlwaysInv, <1>1, PTL

(* No quarantined image enters the slot by any way, and options are only   *)
(* put into the image they were read from (assertFirmwareHashNotQuarantined).*)
THEOREM SlotHoldsNothingQuarantined == Spec => []NeverQuarantined
  <1>1. Inv => NeverQuarantined BY DEF Inv
  <1> QED BY AlwaysInv, <1>1, PTL

(* What an armed page shows is what it would program (canEnableFlash and   *)
(* markMonitorOptionsDirty).                                               *)
THEOREM WhatIsArmedIsShown == Spec => []ArmedIsShown
  <1>1. Inv => ArmedIsShown
    BY DEF Inv, SlotIsSound, ArmedIsShown, CanEnableFlash
  <1> QED BY AlwaysInv, <1>1, PTL

(* A flash keeps the image, the options and the board that it started      *)
(* with, and one that a button started has the image of that button:       *)
(* expectedButtonFlashMatches() compares the identity of the release, and  *)
(* the manifest in force is the only one there ever was.                   *)
THEOREM FlashHoldsItsImage == Spec => NothingMovesWhileFlashing
  <1> DEFINE Holds ==
        /\ flashing => UNCHANGED <<firmware, base, dirty, options, record>>
        /\ flashing' /\ ~flashing /\ choice.release # None =>
              /\ firmware.image = choice.release.image
              /\ firmware.generation = choice.captured.generation
              /\ badge /\ choice.sameBadge
  <1>1. Inv /\ Next => Holds
    <2> SUFFICES ASSUME Inv, Next PROVE Holds OBVIOUS
    <2>1. ASSUME flashing PROVE UNCHANGED <<firmware, base, dirty, options, record>>
      <3>1. ~controls /\ \A l \in loads : Serves(l) /\ Overtaken(l)
        BY <2>1 DEF Inv, SlotIsSound, LoadsAreSound, Current, Overtaken
      <3>2. CASE Choose
        BY <2>1, <3>1, <3>2 DEF Choose, ChooseLocalFirmware, ChooseRelease,
           ChooseIspButton, ChooseLabImage, PrepareOpenBadgeMagicFirmware,
           ApplyMonitorOptions, EditOptions, RestoreBaseMonitorOptions, EnterMarking,
           EnterRevision, EnterBoard, ConfirmRecoveryBoard
      <3>3. CASE Fetch
        BY <3>3 DEF Fetch, ManifestArrives, ManifestFails, CatalogFails, PrefetchEnds,
           PrefetchFails, BytesArrive, slotVars
      <3>4. CASE FlashingStep
        BY <3>4 DEF FlashingStep, ButtonLoaded, FlashButton, Starts, Refused, FlashEnds,
           Connect, Disconnect, slotVars
      <3>5. ASSUME NEW l \in loads, Settle(l)
            PROVE  UNCHANGED <<firmware, base, dirty, options, record>>
        <4>1. PICK image \in Served(l) : Rejected(l, image) \/ Dropped(l, image)
          BY <3>1, <3>5 DEF Settle, Lands
        <4>2. CASE l.base = NoBase
          BY <3>1, <4>1, <4>2 DEF Rejected, Dropped, slotVars
        <4>3. CASE l.base # NoBase
          <5>1. Plausible(l, image)
            BY <3>1, <4>3, FirmwareConfigAssumption
            DEF Serves, Served, Configured, Plausible
          <5> QED BY <3>1, <4>1, <5>1 DEF Rejected, Dropped
        <4> QED BY <4>2, <4>3
      <3> QED BY <3>2, <3>3, <3>4, <3>5 DEF Next
    <2>2. ASSUME flashing', ~flashing, choice.release # None
          PROVE  /\ firmware.image = choice.release.image
                 /\ firmware.generation = choice.captured.generation
                 /\ badge /\ choice.sameBadge
      <3>1. Starts
        BY <2>2 DEF Next, Choose, ChooseLocalFirmware, ChooseRelease, ChooseIspButton,
           ChooseLabImage, PrepareOpenBadgeMagicFirmware, ApplyMonitorOptions,
           EditOptions, RestoreBaseMonitorOptions, EnterMarking, EnterRevision,
           EnterBoard, ConfirmRecoveryBoard, Fetch, ManifestArrives, ManifestFails,
           CatalogFails, PrefetchEnds, PrefetchFails, BytesArrive, FlashingStep,
           ButtonLoaded, FlashButton, Refused, FlashEnds, Connect, Disconnect, Settle,
           Lands, Rejected, Dropped
      <3>2. /\ badge /\ firmware # NoFirmware
            /\ choice.sameBadge /\ firmware = choice.captured /\ catalog = "ready"
            /\ firmware.id = choice.release.id
        BY <2>2, <3>1 DEF Starts, CanEnableFlash, ExpectedButtonFlashMatches
      <3>3. /\ manifest \in Manifest /\ manifest # None
            /\ choice.release \in manifest.releases
            /\ CatalogAccepted(manifest.releases, MarkingOf)
            /\ Known(firmware.id, {firmware.image})
        BY <2>2, <3>2 DEF Inv, TypeOK, RegistryLoaded, Catalogued
      <3>4. firmware.id # None BY <3>2, <3>3, ArtifactSlotAssumption
      <3>5. PICK d \in manifest.releases : d.id = firmware.id
                                           /\ {firmware.image} = {d.image}
        BY <3>3, <3>4 DEF Known
      <3>6. d = choice.release BY <3>2, <3>3, <3>5 DEF CatalogAccepted
      <3>7. firmware.image = d.image BY <3>5
      <3> QED BY <3>2, <3>6, <3>7
    <2> QED BY <2>1, <2>2
  <1>2. Inv /\ [Next]_vars => [Holds]_vars BY <1>1
  <1> HIDE DEF Holds
  <1>3. Spec => [][Holds]_vars BY AlwaysInv, <1>2, PTL DEF Spec
  <1> QED BY <1>3 DEF NothingMovesWhileFlashing, Holds
=============================================================================
