----------------------------- MODULE ArtifactSlot -----------------------------
(***************************************************************************)
(* The one firmware image the flashing page holds ready, and everything    *)
(* that fills, changes or empties it: a local file, a release, a lab or    *)
(* recovery image, the monitoring options, and the record of the opened    *)
(* board.  Loading is asynchronous: a preparation takes a new generation,  *)
(* and when its bytes are there it may find that it was overtaken.  The    *)
(* hash of an image is the image.  What FlasherPage does with the image is *)
(* here the flag flashing.                                                 *)
(***************************************************************************)
EXTENDS FirmwareConfig, ReleaseCatalog

CONSTANTS
    Image,         \* every byte string a file or a server may hold
    Quarantined,   \* the images named by the quarantine registry
    LocalFile,     \* the images a person may pick from the disk
    Manifest,      \* the manifests the site may serve
    MarkingOf,     \* PCB_MARKING_BY_PROFILE
    RecoveryBoard, \* HARDWARE_REV1
    MarkingText,   \* what a person may type as the marking of the board
    Contains,      \* the known markings that a text contains
    Form,          \* what a person may enter as monitoring options
    None,
    MaxGeneration  \* bound on the number of preparations

ASSUME ArtifactSlotAssumption ==
    /\ Quarantined \subseteq Image /\ LocalFile \subseteq Image
    /\ MarkingOf \in [Profile -> MarkingText]
    /\ Contains \in [MarkingText -> SUBSET MarkingText]
    /\ RecoveryBoard \notin Profile /\ None \notin MarkingText \cup Profile
    /\ \A i \in Image : i = [code |-> i.code, blocks |-> i.blocks,
                           cut |-> i.cut, valid |-> i.valid]
    /\ Form \subseteq Config
    /\ IsFiniteSet(Profile)
    /\ \A m \in Manifest :
          /\ IsFiniteSet(m.releases)
          /\ \A d \in m.releases : d.image \in Image /\ d.id # None
    /\ MaxGeneration \in Nat

VARIABLES
    manifest,    \* the manifest being read or in force, or None
    catalog,     \* "loading", "prefetch", "ready" or "failed"
    bytes,       \* releaseArtifactPromises: the settled and pending ones
    record,      \* the board: revision, marking, the recovery confirmation
    generation,  \* state.artifactGeneration
    loads,       \* the preparations that have not ended
    firmware,    \* state.firmware, or NoFirmware
    base,        \* state.monitorBase, or NoBase
    dirty,       \* state.monitorDirty
    options,     \* the monitoring options as the page shows them
    controls,    \* the monitoring controls are enabled
    badge,       \* a badge is connected and identified
    choice,      \* chooseIspButtonAndFlash(), or the flash button
    flashing     \* state.flashing

slotVars == <<firmware, base, dirty, options, controls>>
catalogVars == <<manifest, catalog, bytes>>
vars == <<catalogVars, record, generation, loads, slotVars, badge, choice, flashing>>

(* null, for an image and for the image under its options. *)
NoFirmware == [kind |-> "none"]
NoBase == [profile |-> None]

NoChoice == [at |-> "none", release |-> None, generation |-> 0, captured |-> None,
             sameBadge |-> FALSE]

Init ==
    /\ manifest = None /\ catalog = "loading" /\ bytes = <<>>
    /\ record = [revision |-> None, marking |-> None, confirmed |-> FALSE]
    /\ generation = 0 /\ loads = {}
    /\ firmware = NoFirmware /\ base = NoBase /\ dirty = FALSE /\ options = None
    /\ controls = FALSE
    /\ badge = FALSE /\ choice = NoChoice /\ flashing = FALSE

-----------------------------------------------------------------------------
(* The catalog and the verified bytes of its releases. *)

Releases == IF catalog = "ready" THEN manifest.releases ELSE {}

(* state.quarantinedFirmwareHashes is a set, not null. *)
RegistryLoaded == catalog \in {"prefetch", "ready"}

WithPending(ids) ==
    [i \in DOMAIN bytes \cup ids |-> IF i \in DOMAIN bytes THEN bytes[i] ELSE "pending"]

(* fetchReleaseManifest() up to the prefetch of the latest pair. *)
ManifestArrives(m) ==
    /\ catalog = "loading" /\ m # None
    /\ IF m.releases # {} /\ CatalogAccepted(m.releases, MarkingOf)
       THEN /\ manifest' = m /\ catalog' = "prefetch"
            /\ bytes' = WithPending({d.id : d \in Latest(m.releases)})
       ELSE catalog' = "failed" /\ UNCHANGED <<manifest, bytes>>
    /\ UNCHANGED <<record, generation, loads, slotVars, badge, choice, flashing>>

(* Its error path: no release, no registry, no verified bytes are left. *)
CatalogFails ==
    /\ catalog' = "failed" /\ manifest' = None /\ bytes' = <<>>
    /\ UNCHANGED <<record, generation, loads, slotVars, badge, choice, flashing>>

ManifestFails == catalog = "loading" /\ CatalogFails

(* verifiedReleaseArtifactBytes() accepts what was served for d. *)
Verified(d, image) ==
    /\ image = d.image /\ image \notin Quarantined /\ image.valid
    /\ Inspect(image) # NoBlock /\ Inspect(image) # Invalid
    /\ Inspect(image).profile \in d.profiles

(* The bytes of a release arrive: every load that waits for them gets them; *)
(* a failure is forgotten, so that the next load asks again.                *)
BytesArrive(d, image) ==
    /\ d.id \in DOMAIN bytes /\ bytes[d.id] = "pending"
    /\ LET good == image # Invalid /\ Verified(d, image)
       IN  /\ bytes' = IF good THEN [bytes EXCEPT ![d.id] = "good"]
                       ELSE [i \in DOMAIN bytes \ {d.id} |-> bytes[i]]
           /\ loads' = {IF l.id = d.id /\ l.served = {}
                        THEN [l EXCEPT !.served = {IF good THEN image ELSE Invalid}] ELSE l
                        : l \in loads}
    /\ UNCHANGED <<manifest, catalog, record, generation, slotVars, badge, choice,
                   flashing>>

LatestIds == {d.id : d \in Latest(manifest.releases)}

(* prefetchLatestButtonReleaseArtifacts() and the rest of the catalog end. *)
PrefetchEnds ==
    /\ catalog = "prefetch"
    /\ LatestIds \subseteq DOMAIN bytes /\ \A i \in LatestIds : bytes[i] = "good"
    /\ catalog' = "ready"
    /\ UNCHANGED <<manifest, bytes, record, generation, loads, slotVars, badge, choice,
                   flashing>>

PrefetchFails ==
    catalog = "prefetch" /\ ~(LatestIds \subseteq DOMAIN bytes) /\ CatalogFails

-----------------------------------------------------------------------------
(* The slot. *)

(* Mutant: the monitoring options of the old image survive. *)
ClearFirmwareKeepsOptions ==
    firmware' = NoFirmware /\ dirty' = FALSE /\ UNCHANGED <<base, options, controls>>

(* clearFirmware() *)
ClearFirmware ==
    /\ firmware' = NoFirmware /\ base' = NoBase /\ dirty' = FALSE /\ options' = None
    /\ controls' = FALSE

(* beginArtifactPreparation() *)
NextGeneration ==
    /\ generation < MaxGeneration
    /\ generation' = generation + 1

Load(kind, id, revisions, markings, approved, expected, served) ==
    [generation |-> generation + 1, kind |-> kind, id |-> id, revisions |-> revisions,
     markings |-> markings, approved |-> approved, expected |-> expected,
     served |-> served, base |-> NoBase, board |-> record]

(* chooseLocalFirmware(): the bytes are served by the disk. *)
ChooseLocalFirmware(file) ==
    /\ ~flashing /\ NextGeneration /\ ClearFirmware
    /\ loads' = IF record.revision = None THEN loads
                ELSE loads \cup {Load("local-developer", None, {record.revision}, {},
                                      TRUE, {}, {file})}
    /\ UNCHANGED <<catalogVars, record, badge, choice, flashing>>

(* loadReleaseArtifact(), for a board recorded as b. *)
LoadReleaseArtifact(d, b) ==
    LET accepted == ForBoard(d, b.revision, b.marking)
        served == IF d.id \in DOMAIN bytes /\ bytes[d.id] = "good" THEN {d.image} ELSE {}
    IN  /\ NextGeneration /\ ClearFirmware
        /\ loads' = IF accepted
                    THEN loads \cup {[Load("frogalert-release", d.id, d.profiles,
                                           d.markings, TRUE, {d.image}, served)
                                      EXCEPT !.board = b]}
                    ELSE loads
        /\ bytes' = IF accepted THEN WithPending({d.id}) ELSE bytes

ChooseRelease(d) ==
    /\ ~flashing /\ d \in Releases
    /\ LoadReleaseArtifact(d, record)
    /\ UNCHANGED <<manifest, catalog, record, badge, choice, flashing>>

(* chooseLabImage(): None is the empty choice. *)
ChooseLabImage(lab) ==
    /\ ~flashing /\ NextGeneration /\ ClearFirmware
    /\ loads' = IF lab # None /\ record.revision \in lab.profiles
                   /\ record.marking \in lab.markings
                THEN loads \cup {Load("frogalert-lab", None, lab.profiles, lab.markings,
                                      TRUE, {lab.image}, {})}
                ELSE loads
    /\ UNCHANGED <<catalogVars, record, badge, choice, flashing>>

(* prepareOpenBadgeMagicFirmware() *)
PrepareOpenBadgeMagicFirmware ==
    /\ ~flashing /\ record.confirmed /\ record.revision = RecoveryBoard
    /\ catalog = "ready"
    /\ NextGeneration /\ ClearFirmware
    /\ loads' = loads \cup {Load("open-badgemagic-recovery", None, {RecoveryBoard}, {},
                                 FALSE, {manifest.recovery}, {})}
    /\ UNCHANGED <<catalogVars, record, badge, choice, flashing>>

(* applyMonitorOptions(): the image in force stays until the new one is in. *)
ApplyMonitorOptions ==
    LET configured == Patch(base.image, options)
    IN  /\ ~flashing /\ base # NoBase /\ controls /\ dirty
        /\ configured # Invalid
        /\ NextGeneration /\ controls' = FALSE
        /\ loads' = loads \cup {[Load("local-developer", None, {base.profile}, {}, TRUE,
                                      {}, {configured}) EXCEPT !.base = base]}
        /\ UNCHANGED <<catalogVars, record, firmware, base, dirty, options, badge, choice,
                       flashing>>

(* Any option is changed: markMonitorOptionsDirty(). *)
EditOptions(form) ==
    /\ base # NoBase /\ controls
    /\ options' = [form EXCEPT !.profile = base.profile] /\ dirty' = TRUE
    /\ UNCHANGED <<catalogVars, record, generation, loads, firmware, base, controls, badge,
                   choice, flashing>>

(* Mutant: the options of the base are shown as if they were applied. *)
RestoreBaseMonitorOptionsClean ==
    /\ base # NoBase /\ controls
    /\ options' = Inspect(base.image) /\ dirty' = FALSE
    /\ UNCHANGED <<catalogVars, record, generation, loads, firmware, base, controls, badge,
                   choice, flashing>>

RestoreBaseMonitorOptions ==
    /\ base # NoBase /\ controls
    /\ options' = Inspect(base.image) /\ dirty' = TRUE
    /\ UNCHANGED <<catalogVars, record, generation, loads, firmware, base, controls, badge,
                   choice, flashing>>

(* The marking or the revision of the board is entered again. *)
EnterBoard(b) ==
    /\ ~flashing /\ NextGeneration /\ b # record
    /\ record' = b
    /\ IF firmware # NoFirmware THEN ClearFirmware ELSE UNCHANGED slotVars
    /\ UNCHANGED <<catalogVars, loads, badge, choice, flashing>>

EnterMarking(marking) == EnterBoard([record EXCEPT !.marking = marking])

EnterRevision(revision) ==
    EnterBoard([record EXCEPT !.revision = revision, !.confirmed = FALSE])

ConfirmRecoveryBoard ==
    /\ ~flashing
    /\ record' = [record EXCEPT !.confirmed = ~@]
    /\ UNCHANGED <<catalogVars, generation, loads, slotVars, badge, choice, flashing>>

-----------------------------------------------------------------------------
(* setFirmware(): a preparation ends.                                      *)

(* Mutant: a preparation that was overtaken is not noticed. *)
OvertakenNever(l) == FALSE

Overtaken(l) == l.generation # generation

(* Nothing is thrown before the generation is looked at: the bytes came, they *)
(* look like an image, and a block in them is for the profile of l.           *)
Plausible(l, image) ==
    /\ image # Invalid /\ image.valid /\ Inspect(image) # Invalid
    /\ Inspect(image) # NoBlock => Inspect(image).profile \in l.revisions

(* Mutant: the quarantine registry is only asked about hosted images. *)
ThrowsLateUnlessLocal(l, image) ==
    \/ l.kind # "local-developer" /\ (~RegistryLoaded \/ image \in Quarantined)
    \/ l.expected # {} /\ image \notin l.expected

(* Thrown afterwards. *)
ThrowsLate(l, image) ==
    \/ ~RegistryLoaded \/ image \in Quarantined
    \/ l.expected # {} /\ image \notin l.expected

(* What is served for l: known, or anything, or an error. *)
Served(l) == IF l.served = {} THEN Image \cup {Invalid} ELSE l.served

(* The button's load is the one this is about. *)
Tell(l, outcome) ==
    choice' = IF choice.at = "loading" /\ choice.generation = l.generation
              THEN [choice EXCEPT !.at = outcome] ELSE choice

Lands(l, image) ==
    /\ l \in loads /\ Plausible(l, image) /\ ~Overtaken(l) /\ ~ThrowsLate(l, image)
    /\ firmware' = [image |-> image, kind |-> l.kind, id |-> l.id, board |-> l.board,
                    revisions |-> l.revisions, markings |-> l.markings,
                    approved |-> l.approved, generation |-> l.generation]
    /\ dirty' = FALSE
    /\ IF Inspect(image) = NoBlock
       THEN base' = NoBase /\ options' = None /\ controls' = FALSE
       ELSE /\ base' = IF l.base # NoBase THEN l.base
                       ELSE [image |-> image, profile |-> Inspect(image).profile]
            /\ options' = Inspect(image) /\ controls' = TRUE
    /\ loads' = loads \ {l} /\ Tell(l, "loaded")
    /\ UNCHANGED <<catalogVars, record, generation, badge, flashing>>

(* The finally of applyMonitorOptions() enables the controls again. *)
Enable == controls' = (base # NoBase /\ ~flashing)

(* The catch of each handler: the slot is cleared if nothing came after it; *)
(* the options instead stay as they are, not applied.                       *)
Rejected(l, image) ==
    /\ l \in loads
    /\ ~Plausible(l, image) \/ (~Overtaken(l) /\ ThrowsLate(l, image))
    /\ IF l.base # NoBase
       THEN dirty' = TRUE /\ Enable /\ UNCHANGED <<firmware, base, options>>
       ELSE IF Overtaken(l) THEN UNCHANGED slotVars ELSE ClearFirmware
    /\ loads' = loads \ {l} /\ Tell(l, "failed")
    /\ UNCHANGED <<catalogVars, record, generation, badge, flashing>>

(* setFirmware() returns false. *)
Dropped(l, image) ==
    /\ l \in loads /\ Plausible(l, image) /\ Overtaken(l)
    /\ IF l.base # NoBase THEN Enable ELSE UNCHANGED controls
    /\ loads' = loads \ {l} /\ Tell(l, "failed")
    /\ UNCHANGED <<catalogVars, record, generation, firmware, base, dirty, options, badge,
                   flashing>>

Settle(l) ==
    /\ l.id # None => l.served # {}
    /\ \E image \in Served(l) :
          Lands(l, image) \/ Rejected(l, image) \/ Dropped(l, image)

-----------------------------------------------------------------------------
(* From the image in the slot to a flash.                                  *)

(* physicalMarkingMatchesProfiles() *)
MarkingFitsProfiles(revisions) ==
    LET expected == {MarkingOf[p] : p \in revisions \cap Profile}
    IN  expected = {} \/ \E m \in expected : Contains[record.marking] = {m}

PhysicalMarkingMatches ==
    IF firmware.markings # {} THEN record.marking \in firmware.markings
    ELSE MarkingFitsProfiles(firmware.revisions)

(* canProgramArtifact() *)
CanProgramArtifact ==
    /\ firmware.kind \in {"local-developer", "frogalert-release", "frogalert-lab"}
    /\ firmware.approved

(* canEnableFlash() as updateFlashButton() calls it. *)
CanEnableFlash ==
    /\ ~flashing /\ badge /\ firmware # NoFirmware /\ ~dirty
    /\ record.marking # None /\ record.revision \in firmware.revisions
    /\ PhysicalMarkingMatches /\ CanProgramArtifact

(* chooseIspButtonAndFlash(): the board is recorded as the button says. *)
ChooseIspButton(d) ==
    LET b == [record EXCEPT !.revision = CHOOSE p \in d.profiles : TRUE,
                            !.marking = CHOOSE m \in d.markings : TRUE]
    IN  /\ choice = NoChoice /\ ~flashing /\ badge /\ catalog = "ready"
        /\ d \in Latest(Releases)
        /\ record' = b /\ LoadReleaseArtifact(d, b)
        /\ choice' = [at |-> "loading", release |-> d, generation |-> generation + 1,
                      captured |-> None, sameBadge |-> TRUE]
        /\ UNCHANGED <<manifest, catalog, badge, flashing>>

(* Its load has ended; startFlash() asks for the lock. *)
ButtonLoaded ==
    /\ choice.at \in {"loaded", "failed"}
    /\ choice' = IF /\ choice.at = "loaded" /\ choice.sameBadge
                    /\ CanEnableFlash /\ catalog = "ready"
                 THEN [choice EXCEPT !.at = "lock", !.captured = firmware,
                                     !.generation = generation]
                 ELSE NoChoice
    /\ UNCHANGED <<catalogVars, record, generation, loads, slotVars, badge, flashing>>

(* The flash button, which no page shows, asks for the lock at once. *)
FlashButton ==
    /\ CanEnableFlash /\ choice = NoChoice
    /\ choice' = [NoChoice EXCEPT !.at = "lock"]
    /\ UNCHANGED <<catalogVars, record, generation, loads, slotVars, badge, flashing>>

(* Mutant: only the device is looked at again under the lock. *)
ExpectedButtonFlashMatchesDevice == choice.sameBadge

(* expectedButtonFlashMatches() *)
ExpectedButtonFlashMatches ==
    /\ choice.sameBadge /\ firmware = choice.captured /\ generation = choice.generation
    /\ catalog = "ready" /\ firmware.id = choice.release.id
    /\ record.revision \in choice.release.profiles
    /\ record.marking \in choice.release.markings

(* flashFirmware() starts under the lock, or refuses to; a person may also  *)
(* decline, and another tab may hold the lock.                              *)
Starts ==
    /\ choice.at = "lock" /\ CanEnableFlash
    /\ choice.release # None => ExpectedButtonFlashMatches
    /\ flashing' = TRUE /\ controls' = FALSE
    /\ choice' = [choice EXCEPT !.at = "flash"]
    /\ UNCHANGED <<catalogVars, record, generation, loads, firmware, base, dirty, options,
                   badge>>

Refused ==
    /\ choice.at = "lock" /\ choice' = NoChoice
    /\ UNCHANGED <<catalogVars, record, generation, loads, slotVars, badge, flashing>>

FlashEnds ==
    /\ choice.at = "flash"
    /\ flashing' = FALSE /\ choice' = NoChoice /\ controls' = (base # NoBase)
    /\ UNCHANGED <<catalogVars, record, generation, loads, firmware, base, dirty, options,
                   badge>>

Connect ==
    /\ ~badge /\ ~flashing /\ badge' = TRUE
    /\ UNCHANGED <<catalogVars, record, generation, loads, slotVars, choice, flashing>>

Disconnect ==
    /\ badge /\ badge' = FALSE
    /\ choice' = [choice EXCEPT !.sameBadge = FALSE]
    /\ UNCHANGED <<catalogVars, record, generation, loads, slotVars, flashing>>

-----------------------------------------------------------------------------
Choose ==
    \/ \E f \in LocalFile : ChooseLocalFirmware(f)
    \/ \E d \in Releases : ChooseRelease(d) \/ ChooseIspButton(d)
    \/ \E lab \in (IF catalog = "ready" THEN manifest.labs ELSE {}) \cup {None} :
          ChooseLabImage(lab)
    \/ PrepareOpenBadgeMagicFirmware \/ ApplyMonitorOptions
    \/ \E f \in Form : EditOptions(f)
    \/ RestoreBaseMonitorOptions
    \/ \E m \in MarkingText : EnterMarking(m)
    \/ \E r \in Profile \cup {RecoveryBoard} : EnterRevision(r)
    \/ ConfirmRecoveryBoard

Fetch ==
    \/ \E m \in Manifest : ManifestArrives(m)
    \/ ManifestFails \/ PrefetchEnds \/ PrefetchFails
    \/ /\ manifest # None
       /\ \E d \in manifest.releases, image \in Image \cup {Invalid} : BytesArrive(d, image)

FlashingStep ==
    \/ ButtonLoaded \/ FlashButton \/ Starts \/ Refused \/ FlashEnds
    \/ Connect \/ Disconnect

Next == Choose \/ Fetch \/ FlashingStep \/ \E l \in loads : Settle(l)

Spec == Init /\ [][Next]_vars

-----------------------------------------------------------------------------
(* The variables keep their types; an image whose options can be changed is *)
(* in the slot whenever its base is remembered (clearFirmware, setFirmware). *)
TypeOK ==
    /\ catalog \in {"loading", "prefetch", "ready", "failed"}
    /\ manifest \in Manifest \cup {None} /\ (RegistryLoaded => manifest # None)
    /\ record.revision \in Profile \cup {RecoveryBoard, None}
    /\ record.marking \in MarkingText \cup {None} /\ record.confirmed \in BOOLEAN
    /\ generation \in 0 .. MaxGeneration
    /\ \A l \in loads : l.generation \in 1 .. generation
    /\ base # NoBase => firmware # NoFirmware
    /\ dirty \in BOOLEAN /\ controls \in BOOLEAN /\ ((dirty \/ controls) => base # NoBase)
    /\ badge \in BOOLEAN /\ flashing \in BOOLEAN
    /\ choice.at \in {"none", "loading", "loaded", "failed", "lock", "flash"}

(* The image in the slot was prepared for the board as it is recorded now,  *)
(* whatever was prepared, entered again or overtaken since (the generation  *)
(* check of setFirmware, and the clearing when the record changes).         *)
PreparedForThisBoard ==
    firmware # NoFirmware => /\ firmware.board.revision = record.revision
                             /\ firmware.board.marking = record.marking

(* No image that is quarantined gets into the slot, and none that is made   *)
(* by applying options to one (assertFirmwareHashNotQuarantined).           *)
NeverQuarantined ==
    /\ firmware # NoFirmware => firmware.image \notin Quarantined
    /\ base # NoBase => /\ base.image \notin Quarantined
                        /\ base.image.code = firmware.image.code
                        /\ base.profile \in firmware.revisions

(* When the page is armed, the options that it shows are the options inside *)
(* the image that would be programmed.                                      *)
ArmedIsShown ==
    CanEnableFlash /\ base # NoBase => Inspect(firmware.image) = options

(* From the start of a flash to its end the image, the options and the      *)
(* board stay as they were, and a flash started by a button starts with the *)
(* image of that button (expectedButtonFlashMatches).                       *)
NothingMovesWhileFlashing ==
    [][ /\ flashing => UNCHANGED <<firmware, base, dirty, options, record>>
        /\ flashing' /\ ~flashing /\ choice.release # None =>
              /\ firmware.image = choice.release.image
              /\ firmware.generation = choice.captured.generation
              /\ badge /\ choice.sameBadge ]_vars
=============================================================================
