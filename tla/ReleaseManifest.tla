---------------------------- MODULE ReleaseManifest ----------------------------
(***************************************************************************)
(* The release manifest as the publication scripts check and extend it.    *)
(* An entry is [version, profile, source, artifact]: one image of a        *)
(* release, the number of the commit it was built from, and the number of  *)
(* the CI artifact that holds it, or 0 for the repository-backed files of  *)
(* the releases that were tested by hand before CI built any.  Formats of  *)
(* names, addresses, lengths and hashes are left out.                      *)
(***************************************************************************)
EXTENDS ReleaseCatalog

CONSTANTS
    Version,     \* the versions, by name
    Semver,      \* and what each of them says: [Version -> [core, pre]]
    Profile,     \* the hardware profiles: the two buttons
    MarkingOf,   \* the board marking of each profile
    Legacy,      \* versions released from the repository's own files
    Check,       \* what a hardware test has to confirm
    Evidence     \* [image -> the record of its hardware test]

(* parsedFirmwareVersion(): X.Y.Z, alone or with alpha, beta or rc and a   *)
(* number.                                                                 *)
Parsed(v) ==
    /\ \A i \in 1 .. 3 : v.core[i] \in Nat
    /\ v.pre # <<>> =>
          /\ DOMAIN v.pre = 1 .. 2 /\ v.pre[1] \in {Alpha, Beta, Rc}
          /\ v.pre[2] = Number(v.pre[2][2]) /\ v.pre[2][2] \in Nat

ASSUME ReleaseManifestAssumption ==
    /\ IsFiniteSet(Profile) /\ Profile # {} /\ Profile \subseteq DOMAIN MarkingOf
    /\ \A v \in Version : Parsed(Semver[v])

(* The bytes: those of a CI artifact, or of a file of the repository. *)
Image(e) == [version |-> e.version, profile |-> e.profile, artifact |-> e.artifact]

Pair(version, source, artifact) ==
    {[version |-> version, profile |-> p, source |-> source, artifact |-> artifact] :
        p \in Profile}

VersionsOf(entries) == {e.version : e \in entries}

-----------------------------------------------------------------------------
(* compareFirmwareVersions(): channels are ranked, then their iterations.  *)
ChannelRank(v) == IF v.pre = <<>> THEN 4 ELSE v.pre[1][2]
Iteration(v) == IF v.pre = <<>> THEN 0 ELSE v.pre[2][2]

Exceeds(version, other) ==
    LET v == Semver[version]  w == Semver[other]
    IN  \/ CoreBefore(w.core, v.core)
        \/ /\ v.core = w.core
           /\ \/ ChannelRank(v) > ChannelRank(w)
              \/ ChannelRank(v) = ChannelRank(w) /\ Iteration(v) > Iteration(w)

(* releaseChannel(): alpha, beta or stable. *)
HasChannel(version) == ChannelOf(Semver[version]) # "none"

(* recordFirmwareRelease() takes v as a new version of the manifest. *)
Recordable(entries, v) ==
    /\ HasChannel(v)
    /\ \A e \in entries : Exceeds(v, e.version)

-----------------------------------------------------------------------------
(* validateHardwareEvidence(): r is the test of this image, and complete.  *)
HardwareVerified(e, r) ==
    /\ r.image = Image(e) /\ r.source = e.source
    /\ r.profile = e.profile /\ r.marking = MarkingOf[e.profile]
    /\ Check \subseteq r.confirmed

(* validateHardwareEvidenceRecord(); the manifest repeats the record.      *)
RecordVerified(e) ==
    Image(e) \in DOMAIN Evidence /\ HardwareVerified(e, Evidence[Image(e)])

(* validateHardwareEvidenceTranscript() *)
TranscriptVerified(e) ==
    /\ RecordVerified(e)
    /\ Evidence[Image(e)].confirmed \subseteq Evidence[Image(e)].transcript

(* Mutant: the quarantine list is not consulted. *)
PublishableRegardless(e, quarantine) ==
    /\ e.artifact = 0 <=> e.version \in Legacy
    /\ e.artifact # 0 \/ RecordVerified(e)

(* validatePublishableFrogAlertArtifact(): an image that was not tested by *)
(* hand has to come from CI, and only the legacy ones do not.              *)
Publishable(e, quarantine) ==
    /\ Image(e) \notin quarantine
    /\ e.artifact = 0 <=> e.version \in Legacy
    /\ e.artifact # 0 \/ RecordVerified(e)

(* validateFirmwarePublicationManifest(): also, no image is listed twice,  *)
(* and the images of one version have one origin.                          *)
PublicationValid(entries, quarantine) ==
    /\ \A e \in entries : Publishable(e, quarantine) /\ HasChannel(e.version)
    /\ \A e, f \in entries :
          e.version = f.version =>
              /\ e.profile = f.profile => e = f
              /\ e.source = f.source /\ e.artifact = f.artifact

(* descriptorFor(): the entry as the site's catalog shows it. *)
Descriptor(e) ==
    [id |-> <<e.version, e.profile>>, version |-> Semver[e.version],
     channel |-> ChannelOf(Semver[e.version]), profiles |-> {e.profile},
     markings |-> {MarkingOf[e.profile]},
     basis |-> IF e.artifact = 0 THEN "hardware" ELSE "ci-audited",
     wellFormed |-> TRUE, image |-> Image(e)]

Catalog(entries) == {Descriptor(e) : e \in entries}

(* assemble-site.mjs, given the bytes of every entry. *)
SiteAssembles(entries, quarantine) ==
    /\ PublicationValid(entries, quarantine)
    /\ \A e \in entries : e.artifact # 0 \/ TranscriptVerified(e)
    /\ \E releases \in {Catalog(entries)} : CatalogAccepted(releases, MarkingOf)
=============================================================================
