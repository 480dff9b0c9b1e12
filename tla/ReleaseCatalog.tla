---------------------------- MODULE ReleaseCatalog ----------------------------
(***************************************************************************)
(* The release catalog as the site reads it: which descriptors it accepts, *)
(* that releases come in pairs of one image for each button, and which     *)
(* release is the latest.  A version is a record of its three core numbers *)
(* and the sequence of its prerelease parts; a part is <<0, n>> for the    *)
(* number n and <<1, r>> for the r-th word in ASCII order.  The formats of *)
(* names, addresses and hashes are one flag, wellFormed.                   *)
(***************************************************************************)
EXTENDS Integers, Sequences, FiniteSets

Alpha == <<1, 1>>
Beta == <<1, 2>>
Rc == <<1, 3>>
Number(n) == <<0, n>>

(* Mutant: numbers are compared as text (below one hundred). *)
PartBeforeAsText(p, q) ==
    LET first(n) == IF n > 9 THEN n \div 10 ELSE n
    IN  \/ p[1] < q[1]
        \/ p[1] = q[1] /\ first(p[2]) < first(q[2])
        \/ p[1] = q[1] /\ first(p[2]) = first(q[2]) /\ p[2] < q[2]

(* One prerelease part before another: numbers before words. *)
PartBefore(p, q) == p[1] < q[1] \/ (p[1] = q[1] /\ p[2] < q[2])

(* Prerelease p before prerelease q; no prerelease comes after any.        *)
PrereleaseBefore(p, q) ==
    \/ p # <<>> /\ q = <<>>
    \/ /\ p # <<>> /\ q # <<>>
       /\ \E i \in DOMAIN q :
             /\ \A j \in 1 .. i - 1 : j \in DOMAIN p /\ p[j] = q[j]
             /\ i \in DOMAIN p => PartBefore(p[i], q[i])

CoreBefore(c, d) ==
    \E i \in 1 .. 3 : c[i] < d[i] /\ \A j \in 1 .. i - 1 : c[j] = d[j]

(* compareReleaseVersions(v, w) < 0 *)
Earlier(v, w) ==
    CoreBefore(v.core, w.core) \/ (v.core = w.core /\ PrereleaseBefore(v.pre, w.pre))

(* The channel that a version names. *)
ChannelOf(version) ==
    CASE version.pre = <<>> -> "stable"
      [] version.pre # <<>> /\ version.pre[1] = Alpha -> "alpha"
      [] version.pre # <<>> /\ version.pre[1] = Beta -> "beta"
      [] OTHER -> "none"

-----------------------------------------------------------------------------
(* validateReleaseCatalogDescriptor() accepts d. *)
DescriptorValid(d) ==
    /\ d.wellFormed
    /\ d.basis \in {"hardware", "ci-audited"}
    /\ d.channel \in {"alpha", "beta", "stable"} /\ d.channel = ChannelOf(d.version)
    /\ Cardinality(d.profiles) = 1 /\ Cardinality(d.markings) = 1

(* validatePairedUsbCReleaseCatalog(): of every version, one image for each *)
(* of the profiles, bound to its marking.                                   *)
Paired(releases, markingOf) ==
    \A d \in releases :
        LET group == {e \in releases : e.version = d.version}
        IN  /\ Cardinality(group) = Cardinality(DOMAIN markingOf)
            /\ \A p \in DOMAIN markingOf :
                  \E e \in group : e.profiles = {p} /\ e.markings = {markingOf[p]}

(* The checks of fetchReleaseManifest() on the releases. *)
CatalogAccepted(releases, markingOf) ==
    /\ \A d \in releases : DescriptorValid(d)
    /\ \A d, e \in releases : d.id = e.id => d = e
    /\ Paired(releases, markingOf)

(* The first of sortReleaseCatalogNewestFirst(), with its other half. *)
Latest(releases) ==
    {d \in releases : \A e \in releases : ~Earlier(d.version, e.version)}

(* validateReleaseDescriptor(): for the board as the person recorded it. *)
ForBoard(d, revision, marking) ==
    /\ DescriptorValid(d) /\ revision \in d.profiles /\ marking \in d.markings
=============================================================================
