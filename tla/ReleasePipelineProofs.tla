------------------------ MODULE ReleasePipelineProofs ------------------------
(***************************************************************************)
(* The release pipeline, for any versions, profiles and numbers of pushes, *)
(* candidates and stops: what a tag leads to, what the sites serve, and    *)
(* that a release never changes.  The invariant says where the entries of  *)
(* every commit come from, what the job has already found out about the    *)
(* commit it publishes, and which releases it has already reconciled.      *)
(***************************************************************************)
EXTENDS ReleasePipeline, FiniteSetTheorems, SequenceTheorems, TLAPS

(* The entry of commit i is that of the first release, or was recorded from *)
(* a candidate that CI built of an earlier commit.                         *)
EntryOK(e, i) ==
    \/ e.artifact = 0 /\ e.version = First /\ e.source = 1
    \/ /\ e.artifact \in DOMAIN candidates /\ e.source < i
       /\ candidates[e.artifact].commit = e.source
       /\ candidates[e.artifact].version = e.version

(* The versions of a manifest have one origin each, and were recorded in    *)
(* their order.                                                            *)
InOrder(entries) ==
    \A e, f \in entries :
        /\ e.source < f.source => Exceeds(f.version, e.version)
        /\ e.version = f.version => e.source = f.source /\ e.artifact = f.artifact

CommitInv(i) ==
    /\ \A e \in main[i].entries : EntryOK(e, i)
    /\ InOrder(main[i].entries)
    /\ main[i].bot => /\ i > 2 /\ main[i].quarantine = main[i - 1].quarantine
                      /\ \E k \in DOMAIN candidates : candidates[k].commit = i - 1

CandidateInv(k) ==
    /\ candidates[k].commit \in 2 .. Tip
    /\ candidates[k].version = main[candidates[k].commit].declared

Bots == {i \in 1 .. Tip : main[i].bot}

RepoInv ==
    /\ main \in Seq(Commit) /\ Tip >= 2
    /\ \A i \in 1 .. Tip : CommitInv(i)
    /\ candidates \in Seq([commit : Nat, version : Version])
    /\ Len(candidates) <= MaxCandidates
    /\ \A k \in 1 .. Len(candidates) : CandidateInv(k)
    /\ ci \subseteq 2 .. Tip /\ expired \subseteq 1 .. Len(candidates)
    /\ spent \in [pushes : 0 .. MaxPushes, stops : Nat, reruns : Nat]
    /\ Tip = 2 + spent.pushes + Cardinality(Bots)

(* The manifest of commit c may be deployed. *)
Accepted(c) == SiteAssembles(main[c].entries, main[c].quarantine)

ReleaseType ==
    [state : {"none", "draft", "published"}, notes : 0 .. MaxCandidates \cup {None},
     target : Nat, assets : [Profile -> 0 .. MaxCandidates \cup {Absent, Partial}]]

Lists(c, v, b) ==
    \A p \in Profile : \E e \in main[c].entries :
        e.version = v /\ e.profile = p /\ e.artifact = b

GithubInv ==
    /\ github \in [Version -> ReleaseType]
    /\ \A v \in Version : github[v].target <= Tip
    /\ \A v \in Version : github[v].state = "published" =>
          /\ github[v].target \in 1 .. Tip /\ github[v].notes \in 0 .. MaxCandidates
          /\ github[v].assets = [p \in Profile |-> github[v].notes]
          /\ Lists(github[v].target, v, github[v].notes)

RunType == [commit : Nat, candidate : Nat]

(* A run publishes a candidate built of its own commit, or none. *)
RunInv(r) ==
    /\ r \in RunType /\ r.commit \in 2 .. Tip /\ r.candidate \in 0 .. Len(candidates)
    /\ r.candidate # 0 => candidates[r.candidate].commit = r.commit

JobType ==
    [phase : {"idle", "prepare", "push", "deploy"} \cup Publishing, run : RunType,
     seen : Nat, made : Commit \cup {None}, publish : Nat, tag : Version \cup {None},
     left : SUBSET Version, todo : SUBSET {"pages", "mirror"}]

ReleasedAs(e) ==
    github[e.version].state = "published" /\ github[e.version].assets[e.profile] = e.artifact

(* What is not left of the commit being published is released. *)
Reconciled(j) ==
    \A e \in main[j.publish].entries : e.version \notin j.left => ReleasedAs(e)

Preparing(j) ==
    j.phase = "prepare" =>
        /\ RunInv(j.run)
        /\ \/ j.seen = j.run.commit
           \/ j.seen = j.run.commit + 1 /\ j.seen <= Tip /\ main[j.seen].bot

Pushing(j) ==
    j.phase = "push" =>
        /\ j.made = None => j.publish \in 1 .. Tip /\ Accepted(j.publish)
        /\ j.made # None =>
              /\ RunInv(j.run) /\ j.run.candidate # 0 /\ j.made = Recorded(j.run.candidate)
              /\ SiteAssembles(j.made.entries, j.made.quarantine)
              /\ Recordable(main[j.run.commit].entries, candidates[j.run.candidate].version)

PublishingInv(j) ==
    j.phase \in Publishing \cup {"deploy"} =>
        /\ j.publish \in 1 .. Tip /\ Accepted(j.publish) /\ Reconciled(j)
        /\ j.left \subseteq VersionsOf(main[j.publish].entries)

JobInv(j) ==
    /\ j \in JobType
    /\ j.phase = "idle" => j = Idle
    /\ j.made # None => j.phase = "push"
    /\ j.publish <= Tip /\ j.seen <= Tip
    /\ j.left # {} => j.phase \in Publishing
    /\ j.todo # {} <=> j.phase = "deploy"
    /\ Preparing(j) /\ Pushing(j) /\ PublishingInv(j)

(* The release that the job fills is a draft of its own. *)
Uploading ==
    job.phase = "upload" =>
        \A v \in Version : IsNext(v) =>
            github[v].state = "draft" /\ github[v].notes = ArtifactOf(Planned, v)

SiteInv(c) ==
    c \in 0 .. Tip /\ (c # 0 => Accepted(c) /\ \A e \in main[c].entries : ReleasedAs(e))

Inv ==
    /\ RepoInv /\ GithubInv
    /\ waiting = None \/ RunInv(waiting)
    /\ JobInv(job) /\ Uploading
    /\ JobInv(halted) /\ halted.phase \in {"idle", "tag", "deploy"}
    /\ SiteInv(site) /\ SiteInv(mirror)

-----------------------------------------------------------------------------
(* Versions: the order of the publication scripts agrees with the site's.  *)

LEMMA CoreOrder ==
  ASSUME NEW v \in Version
  PROVE  ~CoreBefore(Semver[v].core, Semver[v].core)
  <1>1. \A i \in 1 .. 3 : Semver[v].core[i] \in Nat
    BY ReleaseManifestAssumption DEF Parsed
  <1> QED BY <1>1 DEF CoreBefore

(* What the rank of a channel says of the prerelease. *)
LEMMA RankIs ==
  ASSUME NEW v \in Version
  PROVE  LET s == Semver[v]
         IN  \/ s.pre = <<>> /\ ChannelRank(s) = 4 /\ Iteration(s) = 0
             \/ /\ s.pre # <<>> /\ DOMAIN s.pre = 1 .. 2
                /\ ChannelRank(s) \in 1 .. 3 /\ s.pre[1] = <<1, ChannelRank(s)>>
                /\ Iteration(s) \in Nat /\ s.pre[2] = <<0, Iteration(s)>>
  <1> DEFINE s == Semver[v]
  <1>1. Parsed(s) BY ReleaseManifestAssumption
  <1> SUFFICES \/ s.pre = <<>> /\ ChannelRank(s) = 4 /\ Iteration(s) = 0
               \/ /\ s.pre # <<>> /\ DOMAIN s.pre = 1 .. 2
                  /\ ChannelRank(s) \in 1 .. 3 /\ s.pre[1] = <<1, ChannelRank(s)>>
                  /\ Iteration(s) \in Nat /\ s.pre[2] = <<0, Iteration(s)>>
    OBVIOUS
  <1> HIDE DEF s
  <1>2. CASE s.pre = <<>> BY <1>2 DEF ChannelRank, Iteration
  <1>3. CASE s.pre # <<>>
    <2>1. /\ DOMAIN s.pre = 1 .. 2 /\ s.pre[1] \in {Alpha, Beta, Rc}
          /\ s.pre[2] = Number(s.pre[2][2]) /\ s.pre[2][2] \in Nat
      BY <1>1, <1>3 DEF Parsed
    <2>2. ChannelRank(s) = s.pre[1][2] /\ Iteration(s) = s.pre[2][2]
      BY <1>3 DEF ChannelRank, Iteration
    <2>3. s.pre[1][2] \in 1 .. 3 /\ s.pre[1] = <<1, s.pre[1][2]>>
      BY <2>1 DEF Alpha, Beta, Rc
    <2> QED BY <1>3, <2>1, <2>2, <2>3 DEF Number
  <1> QED BY <1>2, <1>3

LEMMA ExceedsIsLater ==
  ASSUME NEW v \in Version, NEW w \in Version, Exceeds(v, w)
  PROVE  Earlier(Semver[w], Semver[v]) /\ Semver[v] # Semver[w]
  <1> DEFINE s == Semver[v]
             t == Semver[w]
  <1>1. \/ CoreBefore(t.core, s.core)
        \/ /\ s.core = t.core
           /\ \/ ChannelRank(s) > ChannelRank(t)
              \/ ChannelRank(s) = ChannelRank(t) /\ Iteration(s) > Iteration(t)
    BY DEF Exceeds
  <1>2. ~CoreBefore(s.core, s.core) BY CoreOrder
  <1>3. /\ \/ s.pre = <<>> /\ ChannelRank(s) = 4 /\ Iteration(s) = 0
           \/ /\ s.pre # <<>> /\ DOMAIN s.pre = 1 .. 2
              /\ ChannelRank(s) \in 1 .. 3 /\ s.pre[1] = <<1, ChannelRank(s)>>
              /\ Iteration(s) \in Nat /\ s.pre[2] = <<0, Iteration(s)>>
        /\ \/ t.pre = <<>> /\ ChannelRank(t) = 4 /\ Iteration(t) = 0
           \/ /\ t.pre # <<>> /\ DOMAIN t.pre = 1 .. 2
              /\ ChannelRank(t) \in 1 .. 3 /\ t.pre[1] = <<1, ChannelRank(t)>>
              /\ Iteration(t) \in Nat /\ t.pre[2] = <<0, Iteration(t)>>
    BY RankIs
  <1> HIDE DEF s, t
  <1>4. CASE CoreBefore(t.core, s.core)
    BY <1>2, <1>4 DEF Earlier, s, t
  <1>5. CASE s.core = t.core /\ ChannelRank(s) > ChannelRank(t)
    <2>1. t.pre # <<>> BY <1>3, <1>5
    <2>2. CASE s.pre = <<>> BY <1>5, <2>1, <2>2 DEF Earlier, PrereleaseBefore, s, t
    <2>3. CASE s.pre # <<>>
      <3>1. PartBefore(t.pre[1], s.pre[1]) /\ 1 \in DOMAIN s.pre /\ 1 \in DOMAIN t.pre
        BY <1>3, <1>5, <2>1, <2>3 DEF PartBefore
      <3>2. PrereleaseBefore(t.pre, s.pre)
        BY <2>1, <2>3, <3>1 DEF PrereleaseBefore
      <3>3. ChannelRank(s) # ChannelRank(t) BY <1>3, <1>5
      <3> QED BY <1>5, <3>2, <3>3 DEF Earlier, s, t
    <2> QED BY <2>2, <2>3
  <1>6. CASE s.core = t.core /\ ChannelRank(s) = ChannelRank(t) /\ Iteration(s) > Iteration(t)
    <2>1. s.pre # <<>> /\ t.pre # <<>> BY <1>3, <1>6
    <2>2. /\ t.pre[1] = s.pre[1] /\ PartBefore(t.pre[2], s.pre[2])
          /\ 2 \in DOMAIN s.pre /\ 1 \in DOMAIN t.pre
      BY <1>3, <1>6, <2>1 DEF PartBefore
    <2>3. PrereleaseBefore(t.pre, s.pre)
      BY <2>1, <2>2 DEF PrereleaseBefore
    <2>4. Iteration(s) # Iteration(t) BY <1>3, <1>6
    <2> QED BY <1>6, <2>3, <2>4 DEF Earlier, s, t
  <1> QED BY <1>1, <1>4, <1>5, <1>6 DEF s, t

-----------------------------------------------------------------------------
(* A manifest that is accepted: its pairs are whole, nothing in it is       *)
(* withdrawn.                                                              *)

EntryType == [version : Version, profile : Profile, source : Nat, artifact : Nat]

LEMMA CommitFields ==
  ASSUME NEW c \in Commit
  PROVE  /\ c.declared \in Version /\ c.touched \in BOOLEAN /\ c.bot \in BOOLEAN
         /\ c.entries \subseteq EntryType
         /\ \A e \in c.entries :
              /\ e.version \in Version /\ e.profile \in Profile
              /\ e.source \in Nat /\ e.artifact \in Nat
         /\ c.quarantine \subseteq [version : Version, profile : Profile, artifact : Nat]
  BY DEF Commit, EntryType

LEMMA MainFields ==
  ASSUME RepoInv, NEW i \in 1 .. Tip
  PROVE  /\ main[i] \in Commit /\ main[i].entries \subseteq EntryType
         /\ \A e \in main[i].entries :
              /\ e.version \in Version /\ e.profile \in Profile
              /\ e.source \in Nat /\ e.artifact \in Nat
  <1>1. main[i] \in Commit BY DEF RepoInv, Tip
  <1> QED BY <1>1, CommitFields

(* The number of the artifact of a version that is listed. *)
LEMMA ArtifactIs ==
  ASSUME NEW entries, InOrder(entries), NEW e \in entries
  PROVE  ArtifactOf(entries, e.version) = e.artifact
  <1>1. \A f \in entries : f.version = e.version => f.artifact = e.artifact
    BY DEF InOrder
  <1> QED BY <1>1 DEF ArtifactOf

(* Every version of an accepted manifest has an image for each profile.    *)
LEMMA PairIsWhole ==
  ASSUME NEW entries, entries \subseteq EntryType, InOrder(entries), NEW quarantine,
         SiteAssembles(entries, quarantine),
         \A e, f \in entries : e.source = f.source => e.version = f.version,
         NEW e \in entries, NEW p \in Profile
  PROVE  \E f \in entries : f.version = e.version /\ f.profile = p
  <1>1. Paired(Catalog(entries), MarkingOf)
    BY DEF SiteAssembles, CatalogAccepted
  <1>2. Descriptor(e) \in Catalog(entries) BY DEF Catalog
  <1>3. p \in DOMAIN MarkingOf BY ReleaseManifestAssumption
  <1>4. PICK d \in Catalog(entries) :
            d.version = Descriptor(e).version /\ d.profiles = {p}
    <2> DEFINE group == {x \in Catalog(entries) : x.version = Descriptor(e).version}
    <2>1. \E d \in group : d.profiles = {p} /\ d.markings = {MarkingOf[p]}
      BY <1>1, <1>2, <1>3, ZenonT(60) DEF Paired
    <2> QED BY <2>1
  <1>5. PICK f \in entries : d = Descriptor(f) BY <1>4 DEF Catalog
  <1>6. Semver[f.version] = Semver[e.version] /\ f.profile = p
    BY <1>4, <1>5 DEF Descriptor
  <1>7. /\ e.version \in Version /\ f.version \in Version
        /\ e.source \in Nat /\ f.source \in Nat
    BY DEF EntryType
  <1>8. ~Exceeds(e.version, f.version) /\ ~Exceeds(f.version, e.version)
    BY <1>6, <1>7, ExceedsIsLater
  <1>9. e.source = f.source BY <1>7, <1>8 DEF InOrder
  <1> QED BY <1>6, <1>9

-----------------------------------------------------------------------------
(* Main and the candidates only grow, and a published release stays.       *)

MainGrows ==
    /\ Tip' \in Nat /\ Tip' >= Tip
    /\ \A i \in 1 .. Tip : main'[i] = main[i]

CandidatesGrow ==
    /\ Len(candidates)' \in Nat /\ Len(candidates)' >= Len(candidates)
    /\ \A k \in 1 .. Len(candidates) : candidates'[k] = candidates[k]

ReleasesStay ==
    \A v \in Version : github[v].state = "published" => github'[v] = github[v]

Grows == MainGrows /\ CandidatesGrow /\ ReleasesStay

LEMMA Lengths ==
  ASSUME RepoInv
  PROVE  Tip \in Nat /\ Tip >= 2 /\ Len(candidates) \in Nat /\ MaxCandidates \in Nat
  BY ReleasePipelineAssumption DEF RepoInv, Tip

LEMMA NothingGrows ==
  ASSUME RepoInv, UNCHANGED <<main, candidates, github>>
  PROVE  Grows
  BY Lengths DEF Grows, MainGrows, CandidatesGrow, ReleasesStay, Tip

LEMMA ReleaseKept ==
  ASSUME Grows, NEW e, e.version \in Version, ReleasedAs(e)
  PROVE  ReleasedAs(e)'
  BY DEF Grows, ReleasesStay, ReleasedAs

LEMMA RunKept ==
  ASSUME RepoInv, Grows, NEW r, RunInv(r)
  PROVE  RunInv(r)'
  <1>1. /\ r \in RunType /\ r.commit \in 2 .. Tip' /\ r.candidate \in 0 .. Len(candidates)'
    BY Lengths DEF RunInv, RunType, Grows, MainGrows, CandidatesGrow
  <1>2. r.candidate # 0 => candidates'[r.candidate] = candidates[r.candidate]
    BY Lengths DEF RunInv, Grows, CandidatesGrow
  <1> QED BY <1>1, <1>2 DEF RunInv

LEMMA SiteKept ==
  ASSUME RepoInv, Grows, NEW c, SiteInv(c)
  PROVE  SiteInv(c)'
  <1>1. c \in 0 .. Tip' BY Lengths DEF SiteInv, Grows, MainGrows
  <1>2. ASSUME c # 0 PROVE Accepted(c)' /\ \A e \in main'[c].entries : ReleasedAs(e)'
    <2>1. c \in 1 .. Tip BY <1>2, Lengths DEF SiteInv
    <2>2. main'[c] = main[c] BY <2>1 DEF Grows, MainGrows
    <2>3. Accepted(c)' BY <1>2, <2>2 DEF SiteInv, Accepted
    <2>4. ASSUME NEW e \in main[c].entries PROVE ReleasedAs(e)'
      <3>1. e.version \in Version BY <2>1, MainFields
      <3>2. ReleasedAs(e) BY <1>2 DEF SiteInv
      <3> QED BY <3>1, <3>2, ReleaseKept
    <2> QED BY <2>2, <2>3, <2>4
  <1> QED BY <1>1, <1>2 DEF SiteInv

LEMMA RecordedKept ==
  ASSUME RepoInv, Grows, NEW k \in 1 .. Len(candidates)
  PROVE  /\ candidates'[k] = candidates[k] /\ candidates[k].commit \in 2 .. Tip
         /\ main'[candidates[k].commit] = main[candidates[k].commit]
         /\ Recorded(k)' = Recorded(k)
  <1>1. candidates'[k] = candidates[k] BY DEF Grows, CandidatesGrow
  <1>2. candidates[k].commit \in 2 .. Tip BY DEF RepoInv, CandidateInv
  <1>3. main'[candidates[k].commit] = main[candidates[k].commit]
    BY <1>2, Lengths DEF Grows, MainGrows
  <1> QED BY <1>1, <1>2, <1>3 DEF Recorded

LEMMA PreparingKept ==
  ASSUME RepoInv, Grows, NEW j, Preparing(j)
  PROVE  Preparing(j)'
  <1> SUFFICES ASSUME j.phase = "prepare"
               PROVE  /\ RunInv(j.run)'
                      /\ \/ j.seen = j.run.commit
                         \/ j.seen = j.run.commit + 1 /\ j.seen <= Tip' /\ main'[j.seen].bot
    BY DEF Preparing
  <1>1. RunInv(j.run)' BY RunKept DEF Preparing
  <1>2. CASE j.seen = j.run.commit BY <1>1, <1>2
  <1>3. CASE j.seen = j.run.commit + 1 /\ j.seen <= Tip /\ main[j.seen].bot
    <2>1. j.seen \in 1 .. Tip BY <1>3, Lengths DEF Preparing, RunInv
    <2> QED BY <1>1, <1>3, <2>1, Lengths DEF Grows, MainGrows
  <1> QED BY <1>2, <1>3 DEF Preparing

LEMMA PushingKept ==
  ASSUME RepoInv, Grows, NEW j, Pushing(j)
  PROVE  Pushing(j)'
  <1>1. ASSUME j.phase = "push", j.made = None
        PROVE  j.publish \in 1 .. Tip' /\ Accepted(j.publish)'
    <2>1. j.publish \in 1 .. Tip /\ Accepted(j.publish) BY <1>1 DEF Pushing
    <2>2. main'[j.publish] = main[j.publish] BY <2>1 DEF Grows, MainGrows
    <2> QED BY <2>1, <2>2, Lengths DEF Accepted, Grows, MainGrows
  <1>2. ASSUME j.phase = "push", j.made # None
        PROVE  /\ RunInv(j.run)' /\ j.made = Recorded(j.run.candidate)'
               /\ Recordable(main'[j.run.commit].entries,
                             candidates'[j.run.candidate].version)
    <2>1. RunInv(j.run) /\ j.run.candidate # 0 BY <1>2 DEF Pushing
    <2>2. j.run.candidate \in 1 .. Len(candidates) BY <2>1, Lengths DEF RunInv
    <2>3. j.run.commit = candidates[j.run.candidate].commit BY <2>1 DEF RunInv
    <2> QED BY <1>2, <2>1, <2>2, <2>3, RunKept, RecordedKept DEF Pushing
  <1> QED BY <1>1, <1>2 DEF Pushing

LEMMA PublishingKept ==
  ASSUME RepoInv, Grows, NEW j, PublishingInv(j)
  PROVE  PublishingInv(j)'
  <1> SUFFICES ASSUME j.phase \in Publishing \cup {"deploy"}
               PROVE  /\ j.publish \in 1 .. Tip' /\ Accepted(j.publish)' /\ Reconciled(j)'
                      /\ j.left \subseteq VersionsOf(main'[j.publish].entries)
    BY DEF PublishingInv, Publishing
  <1>1. /\ j.publish \in 1 .. Tip /\ Accepted(j.publish) /\ Reconciled(j)
        /\ j.left \subseteq VersionsOf(main[j.publish].entries)
    BY DEF PublishingInv
  <1>2. main'[j.publish] = main[j.publish] BY <1>1 DEF Grows, MainGrows
  <1>3. j.publish \in 1 .. Tip' BY <1>1, Lengths DEF Grows, MainGrows
  <1>4. Accepted(j.publish)' BY <1>1, <1>2 DEF Accepted
  <1>5. ASSUME NEW e \in main[j.publish].entries, e.version \notin j.left
        PROVE  ReleasedAs(e)'
    <2>1. e.version \in Version BY <1>1, MainFields
    <2>2. ReleasedAs(e) BY <1>1, <1>5 DEF Reconciled
    <2> QED BY <2>1, <2>2, ReleaseKept
  <1>6. Reconciled(j)' BY <1>2, <1>5 DEF Reconciled
  <1> QED BY <1>1, <1>2, <1>3, <1>4, <1>6

LEMMA JobKept ==
  ASSUME RepoInv, Grows, NEW j, JobInv(j)
  PROVE  JobInv(j)'
  <1>1. Preparing(j)' BY PreparingKept DEF JobInv
  <1>2. Pushing(j)' BY PushingKept DEF JobInv
  <1>3. PublishingInv(j)' BY PublishingKept DEF JobInv
  <1>4. j.publish <= Tip' /\ j.seen <= Tip'
    BY Lengths DEF JobInv, JobType, Grows, MainGrows
  <1> QED BY <1>1, <1>2, <1>3, <1>4 DEF JobInv

(* What the upload goes on with is the same. *)
LEMMA UploadingKept ==
  ASSUME RepoInv, JobInv(job), Uploading, Grows, UNCHANGED <<job, github>>
  PROVE  Uploading'
  <1> SUFFICES ASSUME job.phase = "upload" PROVE Uploading' BY DEF Uploading
  <1>1. job.publish \in 1 .. Tip BY DEF JobInv, PublishingInv, Publishing
  <1>2. Planned' = Planned BY <1>1 DEF Planned, Grows, MainGrows
  <1> QED BY <1>2 DEF Uploading, IsNext

LEMMA GithubKept ==
  ASSUME RepoInv, GithubInv, MainGrows, UNCHANGED github
  PROVE  GithubInv'
  <1>1. \A v \in Version : github[v].target <= Tip'
    BY Lengths DEF GithubInv, ReleaseType, MainGrows
  <1>2. ASSUME NEW v \in Version, github[v].state = "published"
        PROVE  /\ github[v].target \in 1 .. Tip'
               /\ Lists(github[v].target, v, github[v].notes)'
    <2>1. github[v].target \in 1 .. Tip /\ Lists(github[v].target, v, github[v].notes)
      BY <1>2 DEF GithubInv
    <2>2. main'[github[v].target] = main[github[v].target]
      BY <2>1 DEF MainGrows
    <2>3. github[v].target \in 1 .. Tip' BY <2>1, Lengths DEF MainGrows
    <2> QED BY <2>1, <2>2, <2>3 DEF Lists
  <1> QED BY <1>1, <1>2 DEF GithubInv

LEMMA RepoKept ==
  ASSUME RepoInv, UNCHANGED <<main, candidates>>,
         ci' \subseteq 2 .. Tip, expired' \subseteq 1 .. Len(candidates),
         spent' \in [pushes : 0 .. MaxPushes, stops : Nat, reruns : Nat],
         spent'.pushes = spent.pushes
  PROVE  RepoInv'
  <1>1. Tip' = Tip /\ Bots' = Bots BY DEF Tip, Bots
  <1>2. \A i \in 1 .. Tip : CommitInv(i)'
    BY DEF RepoInv, CommitInv, EntryOK
  <1>3. \A k \in 1 .. Len(candidates) : CandidateInv(k)'
    BY <1>1 DEF RepoInv, CandidateInv
  <1> QED BY <1>1, <1>2, <1>3 DEF RepoInv

LEMMA NamesOfJob ==
  /\ Idle \in JobType /\ Idle.phase = "idle" /\ Idle.made = None
  /\ Idle.publish = 0 /\ Idle.seen = 0 /\ Idle.left = {} /\ Idle.todo = {}
  BY DEF Idle, JobType, RunType, Publishing

LEMMA IdleInv ==
  ASSUME RepoInv
  PROVE  JobInv(Idle)
  BY NamesOfJob, Lengths
  DEF JobInv, Preparing, Pushing, PublishingInv, Publishing

LEMMA IdleNext ==
  ASSUME RepoInv', job' = Idle
  PROVE  JobInv(job)' /\ Uploading'
  <1>1. Tip' \in Nat BY DEF RepoInv, Tip
  <1> QED
    BY <1>1, NamesOfJob
    DEF JobInv, Preparing, Pushing, PublishingInv, Publishing, Uploading

(* Nothing but the job changes. *)
LEMMA JobAlone ==
  ASSUME Inv, UNCHANGED <<repoVars, waiting, halted, outVars, spent>>,
         JobInv(job'), Uploading'
  PROVE  Inv'
  <1> USE DEF Inv, repoVars, outVars
  <1>1. Grows BY NothingGrows
  <1>2. RepoInv' BY RepoKept DEF RepoInv
  <1>3. GithubInv' BY <1>1, GithubKept DEF Grows
  <1>4. waiting' = None \/ RunInv(waiting)' BY <1>1, RunKept
  <1>5. JobInv(halted)' BY <1>1, JobKept
  <1>6. SiteInv(site)' /\ SiteInv(mirror)' BY <1>1, SiteKept
  <1>7. JobInv(job)' BY <1>1, JobKept
  <1> QED BY <1>2, <1>3, <1>4, <1>5, <1>6, <1>7

LEMMA FailsInv ==
  ASSUME Inv, Fails
  PROVE  Inv'
  <1>1. JobInv(job') BY IdleInv DEF Fails, Inv
  <1>2. Uploading' BY NamesOfJob DEF Fails, Uploading
  <1> QED BY <1>1, <1>2, JobAlone DEF Fails

LEMMA RestartInv ==
  ASSUME RepoInv, NEW j, JobInv(j)
  PROVE  JobInv(Restart(j)) /\ Restart(j).phase \in {"idle", "tag", "deploy"}
  <1>1. CASE j.phase \in Publishing
    <2> DEFINE all == VersionsOf(main[j.publish].entries)
               r == Restart(j)
    <2>1. r = [j EXCEPT !.phase = "tag", !.left = all]
      BY <1>1 DEF Restart, Publishing
    <2>2. j \in JobType /\ j.publish \in 1 .. Tip /\ Accepted(j.publish)
      BY <1>1 DEF JobInv, PublishingInv
    <2>3. all \subseteq Version BY <2>2, MainFields DEF VersionsOf
    <2>4. j.made = None /\ j.todo = {} /\ j.seen <= Tip
      BY <1>1 DEF JobInv, Publishing
    <2> HIDE DEF all, r
    <2>5. /\ r \in JobType /\ r.phase = "tag" /\ r.left = all
          /\ r.publish = j.publish /\ r.made = None /\ r.todo = {} /\ r.seen <= Tip
      BY <2>1, <2>2, <2>3, <2>4 DEF JobType, Publishing
    <2>6. Reconciled(r)
      BY <2>5 DEF Reconciled, all, VersionsOf
    <2>7. PublishingInv(r) BY <2>2, <2>5, <2>6 DEF PublishingInv, all
    <2>8. r.publish <= Tip BY <2>2, <2>5, Lengths
    <2>9. JobInv(r)
      BY <2>5, <2>7, <2>8 DEF JobInv, Preparing, Pushing, Publishing
    <2> QED BY <2>5, <2>9 DEF r
  <1>2. CASE j.phase = "deploy" BY <1>2 DEF Restart, Publishing
  <1>3. CASE j.phase \notin Publishing \cup {"deploy"}
    <2>1. Restart(j) = Idle BY <1>3 DEF Restart
    <2> QED BY <2>1, IdleInv, NamesOfJob
  <1> QED BY <1>1, <1>2, <1>3

-----------------------------------------------------------------------------
(* A commit is added to main.                                              *)

LEMMA BotsFinite ==
  ASSUME RepoInv
  PROVE  IsFiniteSet(Bots) /\ Cardinality(Bots) \in Nat /\ Bots \subseteq 1 .. Tip
  <1>1. IsFiniteSet(1 .. Tip) BY Lengths, FS_Interval
  <1>2. Bots \subseteq 1 .. Tip BY DEF Bots
  <1>3. IsFiniteSet(Bots) BY <1>1, <1>2, FS_Subset
  <1> QED BY <1>2, <1>3, FS_CardinalityType

LEMMA AppendIs ==
  ASSUME RepoInv, NEW c \in Commit, main' = Append(main, c)
  PROVE  /\ main' \in Seq(Commit) /\ Tip' = Tip + 1 /\ main'[Tip + 1] = c
         /\ \A i \in 1 .. Tip : main'[i] = main[i]
         /\ MainGrows
  <1>1. main \in Seq(Commit) BY DEF RepoInv
  <1>2. /\ main' \in Seq(Commit) /\ Len(main') = Len(main) + 1
        /\ main'[Len(main) + 1] = c
        /\ \A i \in 1 .. Len(main) : main'[i] = main[i]
    BY <1>1
  <1> QED BY <1>2, Lengths DEF Tip, MainGrows

LEMMA AppendInv ==
  ASSUME RepoInv, NEW c \in Commit, main' = Append(main, c),
         UNCHANGED <<candidates, expired>>, ci' \subseteq 2 .. Tip + 1,
         \A e \in c.entries : EntryOK(e, Tip + 1), InOrder(c.entries),
         spent' \in [pushes : 0 .. MaxPushes, stops : Nat, reruns : Nat],
         \/ ~c.bot /\ spent'.pushes = spent.pushes + 1
         \/ /\ c.bot /\ spent'.pushes = spent.pushes
            /\ c.quarantine = main[Tip].quarantine
            /\ \E k \in DOMAIN candidates : candidates[k].commit = Tip
  PROVE  RepoInv'
  <1>0. PICK n : n = Tip OBVIOUS
  <1>1. /\ main' \in Seq(Commit) /\ Tip' = n + 1 /\ main'[n + 1] = c
        /\ \A i \in 1 .. n : main'[i] = main[i]
    BY <1>0, AppendIs
  <1>2. n \in Nat /\ n >= 2 BY <1>0, Lengths
  <1> DEFINE new == main'
  <1>3. /\ new[n + 1] = c /\ \A i \in 1 .. n : new[i] = main[i] BY <1>1
  <1> HIDE DEF new
  <1>4. ASSUME NEW i \in 1 .. n PROVE CommitInv(i)'
    <2>1. CommitInv(i) BY <1>0 DEF RepoInv
    <2>2. new[i] = main[i] BY <1>3
    <2>3. i > 2 => new[i - 1] = main[i - 1] BY <1>2, <1>3
    <2> QED BY <2>1, <2>2, <2>3 DEF CommitInv, EntryOK, new
  <1>5. CommitInv(n + 1)'
    <2>1. \A e \in new[n + 1].entries : EntryOK(e, n + 1)'
      BY <1>0, <1>3 DEF EntryOK
    <2>2. new[n] = main[n] /\ n + 1 > 2 BY <1>2, <1>3
    <2>3. new[n + 1].bot =>
             /\ n + 1 > 2 /\ new[n + 1].quarantine = new[n].quarantine
             /\ \E k \in DOMAIN candidates' : candidates'[k].commit = n
      BY <1>0, <1>3, <2>2
    <2>4. (n + 1) - 1 = n BY <1>2
    <2>5. InOrder(new[n + 1].entries) BY <1>3
    <2> QED BY <2>1, <2>3, <2>4, <2>5 DEF CommitInv, new
  <1>6. ASSUME NEW i \in 1 .. Tip' PROVE CommitInv(i)'
    <2>1. i \in 1 .. n \/ i = n + 1 BY <1>1, <1>2
    <2> QED BY <1>4, <1>5, <2>1
  <1>7. ASSUME NEW k \in 1 .. Len(candidates) PROVE CandidateInv(k)'
    <2>1. candidates[k].commit \in 2 .. n
          /\ candidates[k].version = main[candidates[k].commit].declared
      BY <1>0 DEF RepoInv, CandidateInv
    <2>2. new[candidates[k].commit] = main[candidates[k].commit]
      BY <1>2, <1>3, <2>1
    <2>3. candidates[k].commit \in 2 .. Tip' BY <1>1, <1>2, <2>1
    <2> QED BY <2>1, <2>2, <2>3 DEF CandidateInv, new
  <1>8. Tip' = 2 + spent'.pushes + Cardinality(Bots')
    <2>1. /\ spent.pushes \in Nat /\ n = 2 + spent.pushes + Cardinality(Bots)
          /\ Cardinality(Bots) \in Nat
      BY <1>0, ReleasePipelineAssumption, BotsFinite DEF RepoInv
    <2>2. CASE ~c.bot
      <3>1. Bots' = {i \in 1 .. n + 1 : new[i].bot} BY <1>1 DEF Bots, new
      <3>2. \A i \in 1 .. n + 1 : new[i].bot <=> i \in 1 .. n /\ main[i].bot
        <4> SUFFICES ASSUME NEW i \in 1 .. n + 1
                     PROVE  new[i].bot <=> i \in 1 .. n /\ main[i].bot
          OBVIOUS
        <4>1. CASE i \in 1 .. n BY <1>3, <4>1
        <4>2. CASE i = n + 1 BY <1>2, <1>3, <2>2, <4>2
        <4> QED BY <1>2, <4>1, <4>2
      <3>3. 1 .. n \subseteq 1 .. n + 1 BY <1>2
      <3>4. Bots' = Bots
        <4>1. Bots = {i \in 1 .. n : main[i].bot} BY <1>0 DEF Bots
        <4> QED BY <3>1, <3>2, <3>3, <4>1, Zenon
      <3>5. Cardinality(Bots') = Cardinality(Bots) BY <3>4, Zenon
      <3>6. spent'.pushes = spent.pushes + 1 BY <2>2, Zenon
      <3>7. Tip' = n + 1 BY <1>1
      <3> QED BY ONLY <1>2, <2>1, <3>5, <3>6, <3>7
    <2>3. CASE c.bot
      <3>1. Bots' = {i \in 1 .. n + 1 : new[i].bot} BY <1>1 DEF Bots, new
      <3>5. \A i \in 1 .. n + 1 :
               new[i].bot <=> i = n + 1 \/ (i \in 1 .. n /\ main[i].bot)
        <4> SUFFICES ASSUME NEW i \in 1 .. n + 1
                     PROVE  new[i].bot <=> i = n + 1 \/ (i \in 1 .. n /\ main[i].bot)
          OBVIOUS
        <4>1. CASE i \in 1 .. n BY <1>2, <1>3, <4>1
        <4>2. CASE i = n + 1 BY <1>2, <1>3, <2>3, <4>2
        <4> QED BY <1>2, <4>1, <4>2
      <3>6. 1 .. n \subseteq 1 .. n + 1 /\ n + 1 \in 1 .. n + 1 BY <1>2
      <3>2. Bots' = Bots \cup {n + 1}
        <4>1. Bots = {i \in 1 .. n : main[i].bot} BY <1>0 DEF Bots
        <4> QED BY <3>1, <3>5, <3>6, <4>1, Zenon
      <3>3. n + 1 \notin Bots BY <1>0, <1>2, BotsFinite
      <3>4. Cardinality(Bots') = Cardinality(Bots) + 1
        BY <3>2, <3>3, BotsFinite, FS_AddElement
      <3>7. spent'.pushes = spent.pushes BY <2>3
      <3>8. Tip' = n + 1 BY <1>1
      <3> QED BY ONLY <1>2, <2>1, <3>4, <3>7, <3>8
    <2> QED BY <2>2, <2>3
  <1>9. ci' \subseteq 2 .. Tip' BY <1>0, <1>1
  <1>10. /\ candidates' = candidates /\ expired' = expired
         /\ Tip' >= 2 /\ main' \in Seq(Commit)
    BY <1>1, <1>2
  <1> QED BY <1>6, <1>7, <1>8, <1>9, <1>10 DEF RepoInv

LEMMA PushCommitInv ==
  ASSUME Inv, PushCommit
  PROVE  Inv' /\ Grows
  <1> USE DEF Inv, outVars, jobVars
  <1>1. PICK v \in (Version \ Legacy) \cup {main[Tip].declared}, touched \in BOOLEAN,
             bad \in SUBSET main[Tip].entries, gone \in SUBSET main[Tip].entries :
               main' = Append(main,
                  [declared |-> v, touched |-> touched, bot |-> FALSE,
                   entries |-> main[Tip].entries \ gone,
                   quarantine |-> main[Tip].quarantine \cup {Image(e) : e \in bad}])
    BY ZenonT(60) DEF PushCommit
  <1> DEFINE c == [declared |-> v, touched |-> touched, bot |-> FALSE,
                   entries |-> main[Tip].entries \ gone,
                   quarantine |-> main[Tip].quarantine \cup {Image(e) : e \in bad}]
  <1>2. Tip \in 1 .. Tip /\ Tip + 1 \in Nat BY Lengths
  <1>3. main[Tip] \in Commit BY <1>2, MainFields
  <1>4. c \in Commit
    <2>1. v \in Version BY <1>3, CommitFields
    <2>2. {Image(e) : e \in bad}
             \subseteq [version : Version, profile : Profile, artifact : Nat]
      BY <1>3, CommitFields DEF Image
    <2> QED BY <1>3, <2>1, <2>2, CommitFields DEF Commit, EntryType
  <1>5. CommitInv(Tip) BY <1>2 DEF RepoInv
  <1>6. \A e \in c.entries : EntryOK(e, Tip + 1)
    BY <1>2, <1>3, <1>5, CommitFields DEF CommitInv, EntryOK
  <1>7. InOrder(c.entries) BY <1>5 DEF CommitInv, InOrder
  <1>8. /\ ci' \subseteq 2 .. Tip + 1 /\ UNCHANGED <<candidates, expired>>
        /\ spent' \in [pushes : 0 .. MaxPushes, stops : Nat, reruns : Nat]
        /\ spent'.pushes = spent.pushes + 1
    <2>1. /\ spent \in [pushes : 0 .. MaxPushes, stops : Nat, reruns : Nat]
          /\ spent.pushes < MaxPushes /\ spent' = [spent EXCEPT !.pushes = spent.pushes + 1]
      BY DEF PushCommit, RepoInv
    <2>2. spent' \in [pushes : 0 .. MaxPushes, stops : Nat, reruns : Nat]
          /\ spent'.pushes = spent.pushes + 1
      BY <2>1, ReleasePipelineAssumption
    <2>3. ci \subseteq 2 .. Tip /\ ci' = ci \cup {Tip + 1} BY DEF PushCommit, RepoInv
    <2>4. ci' \subseteq 2 .. Tip + 1
      <3>1. Tip \in Nat /\ Tip >= 2 BY Lengths
      <3>2. 2 .. Tip \subseteq 2 .. Tip + 1 /\ Tip + 1 \in 2 .. Tip + 1 BY ONLY <3>1
      <3> QED BY <2>3, <3>2
    <2> QED BY <2>2, <2>4 DEF PushCommit
  <1>9. c.bot = FALSE /\ main' = Append(main, c) BY <1>1
  <1> HIDE DEF c
  <1>10. RepoInv' BY <1>4, <1>6, <1>7, <1>8, <1>9, AppendInv
  <1>11. UNCHANGED <<jobVars, outVars>> BY DEF PushCommit
  <1>12. Grows
    BY <1>4, <1>8, <1>9, <1>11, AppendIs, Lengths
    DEF Grows, CandidatesGrow, ReleasesStay
  <1>13. GithubInv' BY <1>11, <1>12, GithubKept DEF Grows
  <1>14. waiting' = None \/ RunInv(waiting)' BY <1>11, <1>12, RunKept
  <1>15. JobInv(job)' /\ JobInv(halted)' BY <1>11, <1>12, JobKept
  <1>16. Uploading' BY <1>11, <1>12, UploadingKept
  <1>17. SiteInv(site)' /\ SiteInv(mirror)' BY <1>11, <1>12, SiteKept
  <1> QED BY <1>10, <1>11, <1>12, <1>13, <1>14, <1>15, <1>16, <1>17

-----------------------------------------------------------------------------
(* People, CI, and the jobs that stop.                                     *)

(* Neither the repository nor the releases change, nor what is served. *)
LEMMA JobsOnly ==
  ASSUME Inv, UNCHANGED <<repoVars, outVars>>,
         spent' \in [pushes : 0 .. MaxPushes, stops : Nat, reruns : Nat],
         spent'.pushes = spent.pushes,
         waiting' = None \/ RunInv(waiting'),
         JobInv(job'), Uploading',
         JobInv(halted'), halted'.phase \in {"idle", "tag", "deploy"}
  PROVE  Inv'
  <1> USE DEF Inv, repoVars, outVars
  <1>1. Grows BY NothingGrows
  <1>2. RepoInv' BY RepoKept DEF RepoInv
  <1>3. GithubInv' BY <1>1, GithubKept DEF Grows
  <1>4. waiting' = None \/ RunInv(waiting)' BY <1>1, RunKept
  <1>5. JobInv(halted)' /\ JobInv(job)' BY <1>1, JobKept
  <1>6. SiteInv(site)' /\ SiteInv(mirror)' BY <1>1, SiteKept
  <1> QED BY <1>2, <1>3, <1>4, <1>5, <1>6

LEMMA SpentTyped ==
  ASSUME RepoInv, \/ spent' = [spent EXCEPT !.stops = @ + 1]
                  \/ spent' = [spent EXCEPT !.reruns = @ + 1]
  PROVE  /\ spent' \in [pushes : 0 .. MaxPushes, stops : Nat, reruns : Nat]
         /\ spent'.pushes = spent.pushes
  BY DEF RepoInv

LEMMA CandidateFields ==
  ASSUME RepoInv, NEW k \in 1 .. Len(candidates)
  PROVE  /\ candidates[k] \in [commit : Nat, version : Version]
         /\ candidates[k].commit \in Nat /\ candidates[k].version \in Version
         /\ candidates[k].commit \in 2 .. Tip
         /\ candidates[k].version = main[candidates[k].commit].declared
         /\ DOMAIN candidates = 1 .. Len(candidates)
  <1>0. candidates \in Seq([commit : Nat, version : Version]) BY DEF RepoInv
  <1>1. candidates[k] \in [commit : Nat, version : Version]
    <2> DEFINE S == [commit : Nat, version : Version]
    <2>1. candidates \in Seq(S) BY <1>0
    <2> HIDE DEF S
    <2>2. candidates[k] \in S BY <2>1
    <2> QED BY <2>2 DEF S
  <1>2. DOMAIN candidates = 1 .. Len(candidates) BY <1>0
  <1> QED BY <1>1, <1>2 DEF RepoInv, CandidateInv

LEMMA RunAgainInv ==
  ASSUME Inv, RunAgain
  PROVE  Inv'
  <1> USE DEF RunAgain
  <1>1. RepoInv BY DEF Inv
  <1>2. PICK k \in DOMAIN candidates :
               waiting' = [commit |-> candidates[k].commit, candidate |-> k]
    OBVIOUS
  <1>3. k \in 1 .. Len(candidates) BY <1>1, <1>2 DEF RepoInv
  <1>4. RunInv(waiting')
    BY <1>1, <1>2, <1>3, CandidateFields, Lengths DEF RunInv, RunType
  <1>5. Uploading' BY DEF Inv, Uploading, IsNext, Planned, repoVars, outVars
  <1> QED BY <1>1, <1>4, <1>5, SpentTyped, JobsOnly DEF Inv

LEMMA RunFailedJobInv ==
  ASSUME Inv, RunFailedJobAgain
  PROVE  Inv'
  <1> USE DEF RunFailedJobAgain
  <1>1. RepoInv BY DEF Inv
  <1>2. Uploading' BY DEF Inv, Uploading
  <1>3. JobInv(Idle) /\ Idle.phase = "idle" BY <1>1, IdleInv, NamesOfJob
  <1> QED BY <1>1, <1>2, <1>3, SpentTyped, JobsOnly DEF Inv

LEMMA ExpireInv ==
  ASSUME Inv, Expire
  PROVE  Inv'
  <1> USE DEF Expire, Inv, jobVars, outVars
  <1>1. Grows BY NothingGrows
  <1>2. DOMAIN candidates = 1 .. Len(candidates) BY DEF RepoInv
  <1>3. ci' \subseteq 2 .. Tip /\ expired' \subseteq 1 .. Len(candidates)
    BY <1>2 DEF RepoInv
  <1>4. RepoInv' BY <1>3, RepoKept DEF RepoInv
  <1>5. GithubInv' BY <1>1, GithubKept DEF Grows
  <1>6. waiting' = None \/ RunInv(waiting)' BY <1>1, RunKept
  <1>7. JobInv(halted)' /\ JobInv(job)' BY <1>1, JobKept
  <1>8. SiteInv(site)' /\ SiteInv(mirror)' BY <1>1, SiteKept
  <1>9. Uploading' BY <1>1, UploadingKept
  <1> QED BY <1>4, <1>5, <1>6, <1>7, <1>8, <1>9

LEMMA JobStopsInv ==
  ASSUME Inv, JobStops
  PROVE  Inv'
  <1> USE DEF JobStops
  <1>1. RepoInv BY DEF Inv
  <1>2. JobInv(job') BY <1>1, IdleInv
  <1>3. Uploading' BY NamesOfJob DEF Uploading
  <1>4. JobInv(halted') /\ halted'.phase \in {"idle", "tag", "deploy"}
    BY <1>1, RestartInv DEF Inv
  <1> QED BY <1>1, <1>2, <1>3, <1>4, SpentTyped, JobsOnly DEF Inv

(* A candidate is added, of a commit that was pushed. *)
LEMMA CandidateAdded ==
  ASSUME RepoInv, NEW c \in 2 .. Tip, NEW k, k = Len(candidates) + 1,
         Len(candidates) < MaxCandidates,
         candidates' = Append(candidates, [commit |-> c, version |-> main[c].declared]),
         UNCHANGED <<main, expired, spent, github>>, ci' \subseteq 2 .. Tip
  PROVE  /\ RepoInv' /\ Grows
         /\ k \in 1 .. Len(candidates)' /\ candidates'[k].commit = c
  <1> DEFINE x == [commit |-> c, version |-> main[c].declared]
             new == candidates'
  <1>1. c \in Nat /\ c \in 1 .. Tip BY Lengths
  <1>2. x \in [commit : Nat, version : Version] BY <1>1, MainFields, CommitFields
  <1>3. candidates \in Seq([commit : Nat, version : Version]) BY DEF RepoInv
  <1>4. x.commit = c /\ x.version = main[c].declared OBVIOUS
  <1>5. new = Append(candidates, x) OBVIOUS
  <1> HIDE DEF x, new
  <1>6. /\ new \in Seq([commit : Nat, version : Version])
        /\ Len(new) = k /\ new[k] = x
        /\ \A m \in 1 .. Len(candidates) : new[m] = candidates[m]
    BY <1>2, <1>3, <1>5
  <1>7. Len(candidates) \in Nat /\ k \in Nat /\ MaxCandidates \in Nat /\ Tip' = Tip
    BY Lengths DEF Tip
  <1>8. Grows
    BY <1>6, <1>7, Lengths DEF Grows, MainGrows, CandidatesGrow, ReleasesStay, new
  <1>9. ASSUME NEW i \in 1 .. Tip PROVE CommitInv(i)'
    <2>1. CommitInv(i) BY DEF RepoInv
    <2>2. /\ DOMAIN candidates = 1 .. Len(candidates) /\ DOMAIN new = 1 .. Len(new)
      BY <1>3, <1>6
    <2>3. \A m \in DOMAIN candidates : m \in DOMAIN new /\ new[m] = candidates[m]
      BY <1>6, <1>7, <2>2
    <2>4. \A e \in main[i].entries : EntryOK(e, i)'
      BY <2>1, <2>3 DEF CommitInv, EntryOK, new
    <2>5. main[i].bot => \E m \in DOMAIN new : new[m].commit = i - 1
      BY <2>1, <2>3 DEF CommitInv
    <2> QED BY <2>1, <2>4, <2>5 DEF CommitInv, new
  <1>10. ASSUME NEW m \in 1 .. Len(new) PROVE CandidateInv(m)'
    <2>1. CASE m \in 1 .. Len(candidates)
      <3>1. new[m] = candidates[m] BY <1>6, <2>1
      <3>2. CandidateInv(m) BY <2>1 DEF RepoInv
      <3> QED BY <1>7, <3>1, <3>2 DEF CandidateInv, new
    <2>2. CASE m = k BY <1>4, <1>6, <1>7, <2>2 DEF CandidateInv, new
    <2> QED BY <1>6, <1>7, <2>1, <2>2
  <1>11. Bots' = Bots BY <1>7 DEF Bots
  <1>12. Len(new) <= MaxCandidates /\ 1 .. Len(candidates) \subseteq 1 .. Len(new)
    BY <1>6, <1>7
  <1>13. RepoInv'
    BY <1>6, <1>7, <1>9, <1>10, <1>11, <1>12 DEF RepoInv, new
  <1> QED BY <1>4, <1>6, <1>7, <1>8, <1>13 DEF new

LEMMA CiEndsInv ==
  ASSUME Inv, NEW r, r.commit \in 2 .. Tip, CiEnds(r), ci' \subseteq 2 .. Tip
  PROVE  Inv'
  <1> USE DEF CiEnds, Inv, outVars
  <1>1. RepoInv' /\ Grows /\ (waiting' = None \/ RunInv(waiting)')
    <2>1. CASE candidates' = candidates /\ waiting' = None
      <3>1. Grows BY <2>1, NothingGrows
      <3>2. RepoInv' BY <2>1, RepoKept DEF RepoInv
      <3> QED BY <2>1, <3>1, <3>2
    <2>2. CASE CandidateRequired(r)
               /\ Len(candidates) < MaxCandidates
               /\ candidates' = Append(candidates, [commit |-> r.commit,
                                             version |-> main[r.commit].declared])
               /\ waiting' = [commit |-> r.commit, candidate |-> Len(candidates) + 1]
      <3> DEFINE k == Len(candidates) + 1
                 c == r.commit
      <3>1. c \in 2 .. Tip /\ k = Len(candidates) + 1 OBVIOUS
      <3>2. waiting' = [commit |-> c, candidate |-> k] BY <2>2
      <3> HIDE DEF k, c
      <3>3. /\ RepoInv' /\ Grows
            /\ k \in 1 .. Len(candidates)' /\ candidates'[k].commit = c
        BY <2>2, <3>1, CandidateAdded DEF c
      <3>4. Tip' = Tip BY DEF Tip
      <3>5. RunInv(waiting)'
        BY <3>1, <3>2, <3>3, <3>4, Lengths DEF RunInv, RunType
      <3> QED BY <3>3, <3>5
    <2>3. CASE candidates' = candidates
               /\ waiting' = [commit |-> r.commit, candidate |-> 0]
      <3>1. Grows BY <2>3, NothingGrows
      <3>2. RepoInv' BY <2>3, RepoKept DEF RepoInv
      <3>3. RunInv(waiting')
        BY <2>3, Lengths DEF RunInv, RunType
      <3> QED BY <3>1, <3>2, <3>3, RunKept
    <2> QED BY <2>1, <2>2, <2>3 DEF InBounds
  <1>2. GithubInv' BY <1>1, GithubKept DEF Grows
  <1>3. JobInv(halted)' /\ JobInv(job)' BY <1>1, JobKept
  <1>4. SiteInv(site)' /\ SiteInv(mirror)' BY <1>1, SiteKept
  <1>5. Uploading' BY <1>1, UploadingKept
  <1> QED BY <1>1, <1>2, <1>3, <1>4, <1>5

LEMMA CiInv ==
  ASSUME Inv, CiOfPush \/ Dispatch
  PROVE  Inv'
  <1>1. RepoInv BY DEF Inv
  <1>2. ci \subseteq 2 .. Tip /\ Tip \in 2 .. Tip BY <1>1, Lengths DEF RepoInv
  <1>3. CASE CiOfPush
    <2>1. PICK c \in ci : ci' = ci \ {c} /\ CiEnds([commit |-> c, event |-> "push"])
      BY <1>3 DEF CiOfPush
    <2> DEFINE r == [commit |-> c, event |-> "push"]
    <2>2. r.commit \in 2 .. Tip /\ CiEnds(r) BY <1>2, <2>1
    <2> HIDE DEF r
    <2> QED BY <1>2, <2>1, <2>2, CiEndsInv
  <1>4. CASE Dispatch
    <2> DEFINE r == [commit |-> Tip, event |-> "dispatch"]
    <2>1. r.commit \in 2 .. Tip /\ CiEnds(r) /\ ci' = ci BY <1>2, <1>4 DEF Dispatch
    <2> HIDE DEF r
    <2> QED BY <1>2, <2>1, CiEndsInv
  <1> QED BY <1>3, <1>4

-----------------------------------------------------------------------------
(* The entries of one commit of main.                                      *)

(* Images of one source are of one version: what that commit declared.     *)
LEMMA SameSource ==
  ASSUME RepoInv, NEW i \in 1 .. Tip, NEW e \in main[i].entries, NEW f \in main[i].entries,
         e.source = f.source
  PROVE  e.version = f.version
  <1>1. EntryOK(e, i) /\ EntryOK(f, i) BY DEF RepoInv, CommitInv
  <1>2. \A k \in DOMAIN candidates :
          /\ candidates[k].commit # 1
          /\ candidates[k].version = main[candidates[k].commit].declared
    <2>1. DOMAIN candidates = 1 .. Len(candidates) BY DEF RepoInv
    <2> QED BY <2>1, Lengths, CandidateFields
  <1> QED BY <1>1, <1>2 DEF EntryOK

(* What the scripts take from the manifest for a version is in each entry. *)
LEMMA ListedIs ==
  ASSUME RepoInv, NEW i \in 1 .. Tip, NEW e \in main[i].entries
  PROVE  /\ ArtifactOf(main[i].entries, e.version) = e.artifact
         /\ e.artifact \in 0 .. MaxCandidates /\ e.artifact \in 0 .. Len(candidates)
         /\ e.source \in 1 .. i
  <1>1. InOrder(main[i].entries) /\ EntryOK(e, i) BY DEF RepoInv, CommitInv
  <1>2. e.source \in Nat /\ i \in Nat /\ i >= 1 BY MainFields, Lengths
  <1>3. Len(candidates) \in Nat /\ Len(candidates) <= MaxCandidates /\ MaxCandidates \in Nat
    BY Lengths DEF RepoInv
  <1>4. DOMAIN candidates = 1 .. Len(candidates) BY DEF RepoInv
  <1>5. ArtifactOf(main[i].entries, e.version) = e.artifact BY <1>1, ArtifactIs
  <1>6. CASE e.artifact = 0 /\ e.version = First /\ e.source = 1
    BY <1>2, <1>3, <1>5, <1>6
  <1>7. CASE e.artifact \in DOMAIN candidates /\ e.source < i
             /\ candidates[e.artifact].commit = e.source
    <2>1. e.artifact \in 1 .. Len(candidates) BY <1>4, <1>7
    <2>2. e.source >= 1 BY <1>7, <2>1, CandidateFields, Lengths
    <2> QED BY <1>2, <1>3, <1>5, <1>7, <2>1, <2>2
  <1> QED BY <1>1, <1>6, <1>7 DEF EntryOK

(* An accepted commit of main lists whole releases. *)
LEMMA ListsWhole ==
  ASSUME RepoInv, NEW i \in 1 .. Tip, Accepted(i), NEW e \in main[i].entries
  PROVE  Lists(i, e.version, e.artifact)
  <1>1. main[i].entries \subseteq EntryType BY MainFields
  <1>2. InOrder(main[i].entries) BY DEF RepoInv, CommitInv
  <1>3. \A f, g \in main[i].entries : f.source = g.source => f.version = g.version
    BY SameSource
  <1>4. \A p \in Profile : \E f \in main[i].entries : f.version = e.version /\ f.profile = p
    BY <1>1, <1>2, <1>3, PairIsWhole DEF Accepted
  <1> QED BY <1>2, <1>4 DEF Lists, InOrder

(* The commit that is made of a candidate of a new version is well formed. *)
LEMMA RecordedGood ==
  ASSUME RepoInv, NEW k \in 1 .. Len(candidates), NEW c, c = candidates[k].commit,
         Recordable(main[c].entries, candidates[k].version)
  PROVE  /\ Recorded(k) \in Commit /\ Recorded(k).bot = TRUE
         /\ Recorded(k).quarantine = main[c].quarantine
         /\ \A e \in Recorded(k).entries : EntryOK(e, c + 1)
         /\ InOrder(Recorded(k).entries)
  <1> DEFINE v == candidates[k].version
             old == main[c].entries
             new == Pair(v, c, k)
             r == Recorded(k)
  <1>1. /\ c \in 2 .. Tip /\ c \in Nat /\ v \in Version /\ k \in DOMAIN candidates
        /\ k \in Nat
    BY CandidateFields, Lengths
  <1>2. c \in 1 .. Tip BY <1>1, Lengths
  <1>3. main[c] \in Commit BY <1>2, MainFields
  <1>4. r = [main[c] EXCEPT !.entries = old \cup new, !.touched = FALSE, !.bot = TRUE]
    BY DEF Recorded
  <1>5. \A e \in new : e \in EntryType /\ e.version = v /\ e.source = c /\ e.artifact = k
    BY <1>1 DEF Pair, EntryType
  <1>6. CommitInv(c) BY <1>2 DEF RepoInv
  <1>7. \A e \in old : e.source \in Nat /\ e.source < c /\ e.version \in Version
    BY <1>1, <1>2, <1>6, MainFields DEF CommitInv, EntryOK
  <1>8. \A e \in old : Exceeds(v, e.version) /\ e.version # v
    <2>1. \A e \in old : Exceeds(v, e.version) BY DEF Recordable
    <2> QED BY <1>1, <1>7, <2>1, ExceedsIsLater
  <1> HIDE DEF v, new, r
  <1>9. r \in Commit /\ r.bot = TRUE /\ r.quarantine = main[c].quarantine
        /\ r.entries = old \cup new
    <2>1. old \subseteq EntryType BY <1>3, CommitFields
    <2>2. old \cup new \subseteq EntryType BY <1>5, <2>1
    <2> DEFINE all == old \cup new
    <2> HIDE DEF all
    <2>3. all \subseteq EntryType BY <2>2 DEF all
    <2>4. r = [main[c] EXCEPT !.entries = all, !.touched = FALSE, !.bot = TRUE]
      BY <1>4 DEF all
    <2>5. r \in Commit /\ r.bot = TRUE /\ r.quarantine = main[c].quarantine
          /\ r.entries = all
      BY <1>3, <2>3, <2>4 DEF Commit, EntryType
    <2> QED BY <2>5 DEF all
  <1>10. \A e \in old \cup new : EntryOK(e, c + 1)
    <2>1. ASSUME NEW e \in old PROVE EntryOK(e, c + 1)
      <3>1. EntryOK(e, c) BY <1>6 DEF CommitInv
      <3> QED BY <1>1, <1>7, <3>1 DEF EntryOK
    <2>2. ASSUME NEW e \in new PROVE EntryOK(e, c + 1)
      BY <1>1, <1>5 DEF EntryOK, v
    <2> QED BY <2>1, <2>2
  <1>11. InOrder(old \cup new)
    <2>1. InOrder(old) BY <1>6 DEF CommitInv
    <2>2. ASSUME NEW e \in old \cup new, NEW f \in old \cup new
          PROVE  /\ e.source < f.source => Exceeds(f.version, e.version)
                 /\ e.version = f.version => e.source = f.source /\ e.artifact = f.artifact
      <3>1. CASE e \in old /\ f \in old BY <2>1, <3>1 DEF InOrder
      <3>2. CASE e \in new /\ f \in new BY <1>1, <1>5, <3>2
      <3>3. CASE e \in old /\ f \in new BY <1>5, <1>8, <3>3
      <3>4. CASE e \in new /\ f \in old
        <4>1. ~(e.source < f.source) BY <1>1, <1>5, <1>7, <3>4
        <4> QED BY <1>5, <1>8, <3>4, <4>1
      <3> QED BY <3>1, <3>2, <3>3, <3>4
    <2> QED BY <2>2 DEF InOrder
  <1> QED BY <1>9, <1>10, <1>11 DEF r

-----------------------------------------------------------------------------
(* The job prepares and pushes its commit.                                 *)

LEMMA StartsInv ==
  ASSUME Inv, Starts
  PROVE  Inv'
  <1> USE DEF Starts
  <1>1. RepoInv BY DEF Inv
  <1>2. JobInv(job') /\ job'.phase # "upload"
    <2>1. CASE job' = Idle BY <1>1, <2>1, IdleInv, NamesOfJob
    <2>2. CASE /\ Tip = waiting.commit \/ (main[Tip].bot /\ Tip - 1 = waiting.commit)
               /\ job' = [Idle EXCEPT !.phase = "prepare", !.run = waiting, !.seen = Tip]
      <3>1. RunInv(waiting) /\ waiting \in RunType BY DEF Inv, RunInv
      <3>2. Tip \in Nat /\ Tip >= 2 BY <1>1, Lengths
      <3> DEFINE n == Tip
      <3> HIDE DEF n
      <3>3. job' = [Idle EXCEPT !.phase = "prepare", !.run = waiting, !.seen = n]
        BY <2>2 DEF n
      <3>4. /\ job' \in JobType /\ job'.phase = "prepare" /\ job'.run = waiting
            /\ job'.seen = n /\ job'.made = None /\ job'.publish = 0
            /\ job'.left = {} /\ job'.todo = {}
        BY <3>1, <3>2, <3>3, NamesOfJob DEF JobType, n
      <3>5. \/ n = waiting.commit
            \/ n = waiting.commit + 1 /\ n <= Tip /\ main[n].bot
        BY <2>2, <3>1, <3>2 DEF n, RunType
      <3>6. Preparing(job') BY <3>1, <3>4, <3>5 DEF Preparing
      <3>7. job'.seen <= Tip /\ job'.publish <= Tip BY <3>2, <3>4 DEF n
      <3> QED BY <3>4, <3>6, <3>7 DEF JobInv, Pushing, PublishingInv, Publishing
    <2> QED BY <2>1, <2>2
  <1>3. Uploading' BY <1>2 DEF Uploading
  <1>4. UNCHANGED <<repoVars, outVars, spent, halted>> /\ waiting' = None OBVIOUS
  <1>5. spent \in [pushes : 0 .. MaxPushes, stops : Nat, reruns : Nat]
    BY <1>1 DEF RepoInv
  <1> QED BY <1>1, <1>2, <1>3, <1>4, <1>5, JobsOnly DEF Inv

(* The commit that main already has of the candidate may be deployed too.  *)
LEMMA SeenIsAccepted ==
  ASSUME RepoInv, NEW k \in 1 .. Len(candidates), NEW n \in 1 .. Tip,
         n = candidates[k].commit + 1, main[n].bot,
         main[n].entries = Recorded(k).entries,
         SiteAssembles(Recorded(k).entries, Recorded(k).quarantine)
  PROVE  Accepted(n)
  <1>1. CommitInv(n) /\ n - 1 = candidates[k].commit
    BY CandidateFields, SMTT(60) DEF RepoInv
  <1>2. main[n].quarantine = main[candidates[k].commit].quarantine
    BY <1>1 DEF CommitInv
  <1>3. candidates[k].commit \in 1 .. Tip BY CandidateFields, Lengths
  <1>4. Recorded(k).quarantine = main[candidates[k].commit].quarantine
    BY <1>3, MainFields DEF Recorded, Commit
  <1> QED BY <1>2, <1>4 DEF Accepted

LEMMA PreparedInv ==
  ASSUME RepoInv, JobInv(job), job.phase = "prepare", CanPrepare(job.run, job.seen)
  PROVE  JobInv(Prepared) /\ Prepared.phase = "push"
  <1> DEFINE fresh == job.run.candidate # 0 /\ job.seen = job.run.commit
             made == IF fresh THEN Recorded(job.run.candidate) ELSE None
             publish == IF fresh THEN 0 ELSE job.seen
             tag == IF job.run.candidate = 0 THEN None
                    ELSE candidates[job.run.candidate].version
             j == Prepared
  <1>1. job \in JobType /\ RunInv(job.run) /\ job.made = None /\ job.left = {} /\ job.todo = {}
    BY DEF JobInv, Preparing, Publishing
  <1>2. /\ job.run.commit \in 2 .. Tip /\ job.run.candidate \in 0 .. Len(candidates)
        /\ job.run.candidate # 0 =>
              /\ job.run.candidate \in 1 .. Len(candidates)
              /\ candidates[job.run.candidate].commit = job.run.commit
    BY <1>1, Lengths DEF RunInv
  <1>3. \/ job.seen = job.run.commit
        \/ job.seen = job.run.commit + 1 /\ job.seen <= Tip /\ main[job.seen].bot
    BY DEF JobInv, Preparing
  <1>4. job.seen \in 1 .. Tip /\ job.seen \in Nat BY <1>2, <1>3, Lengths
  <1>5. ASSUME fresh
        PROVE  /\ made = Recorded(job.run.candidate) /\ made \in Commit /\ made # None
               /\ SiteAssembles(made.entries, made.quarantine)
               /\ Recordable(main[job.run.commit].entries,
                             candidates[job.run.candidate].version)
    <2>1. Recordable(main[job.run.commit].entries, candidates[job.run.candidate].version)
      BY <1>5 DEF CanPrepare, CanRecord
    <2>2. made = Recorded(job.run.candidate) BY <1>5
    <2>3. made \in Commit BY <1>2, <1>5, <2>1, <2>2, RecordedGood
    <2>4. SiteAssembles(Recorded(job.run.candidate).entries,
                        Recorded(job.run.candidate).quarantine)
      BY <1>5 DEF CanPrepare
    <2> QED BY <2>1, <2>2, <2>3, <2>4, ReleasePipelineAssumption
  <1>6. ASSUME ~fresh
        PROVE  Accepted(job.seen)
    <2>1. CASE job.run.candidate = 0
      <3>1. job.seen = job.run.commit BY <2>1 DEF CanPrepare
      <3> QED BY <2>1, <3>1 DEF CanPrepare, Accepted
    <2>2. CASE job.run.candidate # 0
      <3>1. job.seen = job.run.commit + 1 /\ main[job.seen].bot BY <1>3, <1>6, <2>2
      <3>2. main[job.seen].entries = Recorded(job.run.candidate).entries
        BY <1>2, <2>2, <3>1 DEF CanPrepare, CanRecord
      <3>3. SiteAssembles(Recorded(job.run.candidate).entries,
                          Recorded(job.run.candidate).quarantine)
        BY <2>2 DEF CanPrepare
      <3> QED BY <1>2, <1>4, <2>2, <3>1, <3>2, <3>3, SeenIsAccepted
    <2> QED BY <2>1, <2>2
  <1>7. made \in Commit \cup {None} BY <1>5
  <1>8. tag \in Version \cup {None} BY <1>2, CandidateFields
  <1>9. publish \in Nat /\ publish <= Tip BY <1>4, Lengths
  <1>10. (made = None) <=> ~fresh BY <1>5
  <1>11. j = [job EXCEPT !.phase = "push", !.made = made, !.publish = publish, !.tag = tag]
    BY DEF Prepared
  <1>12. ~fresh => publish = job.seen OBVIOUS
  <1> HIDE DEF made, publish, tag, j
  <1>13. /\ j \in JobType /\ j.phase = "push" /\ j.made = made /\ j.publish = publish
         /\ j.run = job.run /\ j.seen = job.seen /\ j.left = {} /\ j.todo = {}
    BY <1>1, <1>7, <1>8, <1>9, <1>11 DEF JobType
  <1>14. Pushing(j)
    <2>1. CASE fresh
      BY <1>1, <1>5, <1>10, <1>13, <2>1 DEF Pushing
    <2>2. CASE ~fresh
      BY <1>4, <1>6, <1>10, <1>12, <1>13, <2>2 DEF Pushing
    <2> QED BY <2>1, <2>2
  <1>15. Preparing(j) /\ PublishingInv(j)
    BY <1>13 DEF Preparing, PublishingInv, Publishing
  <1>16. j.publish <= Tip /\ j.seen <= Tip BY <1>4, <1>9, <1>13, Lengths
  <1>17. JobInv(j)
    BY <1>13, <1>14, <1>15, <1>16 DEF JobInv
  <1> QED BY <1>13, <1>17 DEF j

LEMMA PrepareInv ==
  ASSUME Inv, Prepare
  PROVE  Inv'
  <1> USE DEF Prepare
  <1>1. JobInv(job') /\ job'.phase # "upload"
    <2>1. CASE CanPrepare(job.run, job.seen)
      <3>1. job' = Prepared BY <2>1
      <3>2. JobInv(Prepared) /\ Prepared.phase = "push" BY <2>1, PreparedInv DEF Inv
      <3> QED BY <3>1, <3>2
    <2>2. CASE ~CanPrepare(job.run, job.seen)
      BY <2>2, IdleInv, NamesOfJob DEF Inv
    <2> QED BY <2>1, <2>2
  <1>2. Uploading' BY <1>1 DEF Uploading
  <1> QED BY <1>1, <1>2, JobAlone

(* The manifest of the head of main is about to be reconciled. *)
LEMMA PushPublicationInv ==
  ASSUME Inv, PushPublication
  PROVE  Inv' /\ Grows
  <1> USE DEF PushPublication, Inv
  <1>1. job.phase = "push" /\ JobInv(job) /\ job \in JobType /\ Pushing(job)
    BY DEF JobInv
  <1>2. Tip \in Nat /\ Tip >= 2 BY Lengths
  <1>3. /\ RepoInv' /\ Grows
        /\ Accepted(Tip)'
    <2>1. CASE job.made = None
      <3>1. main' = main /\ job.publish = Tip /\ Accepted(job.publish)
        BY <1>1, <2>1 DEF MainHasNotMoved, Pushing
      <3>2. UNCHANGED <<main, candidates, ci, expired, spent, github>>
        BY <3>1 DEF outVars
      <3>3. Tip' = Tip BY <3>2 DEF Tip
      <3>4. Accepted(Tip)' BY <3>1, <3>2, <3>3 DEF Accepted
      <3>5. RepoInv' BY <3>2, RepoKept DEF RepoInv
      <3> QED BY <3>2, <3>4, <3>5, NothingGrows
    <2>2. CASE job.made # None
      <3> DEFINE k == job.run.candidate
                 c == job.made
      <3>1. /\ main' = Append(main, c) /\ Tip = job.run.commit
            /\ RunInv(job.run) /\ k # 0 /\ c = Recorded(k)
            /\ SiteAssembles(c.entries, c.quarantine)
            /\ Recordable(main[Tip].entries, candidates[k].version)
        BY <1>1, <2>2 DEF MainHasNotMoved, Pushing
      <3>2. k \in 1 .. Len(candidates) /\ candidates[k].commit = Tip
        BY <3>1, Lengths DEF RunInv
      <3> HIDE DEF k, c
      <3>3. /\ c \in Commit /\ c.bot = TRUE /\ c.quarantine = main[Tip].quarantine
            /\ \A e \in c.entries : EntryOK(e, Tip + 1) /\ InOrder(c.entries)
        <4>1. PICK n : n = Tip OBVIOUS
        <4> QED BY <3>1, <3>2, <4>1, RecordedGood
      <3>4. \E m \in DOMAIN candidates : candidates[m].commit = Tip
        BY <3>2, CandidateFields
      <3>5. /\ UNCHANGED <<candidates, expired, ci, spent, github>>
            /\ ci' \subseteq 2 .. Tip + 1
            /\ spent' \in [pushes : 0 .. MaxPushes, stops : Nat, reruns : Nat]
        <4>1. ci \subseteq 2 .. Tip /\ UNCHANGED <<candidates, expired, ci, spent, github>>
          BY DEF RepoInv, outVars
        <4>2. spent' \in [pushes : 0 .. MaxPushes, stops : Nat, reruns : Nat]
          BY <4>1 DEF RepoInv
        <4>3. 2 .. Tip \subseteq 2 .. Tip + 1 BY <1>2
        <4> QED BY <4>1, <4>2, <4>3
      <3>9. InOrder(c.entries)
        <4>1. PICK n : n = Tip OBVIOUS
        <4> QED BY <3>1, <3>2, <4>1, RecordedGood
      <3>6. RepoInv' BY <3>1, <3>3, <3>4, <3>5, <3>9, AppendInv
      <3>7. Grows
        BY <3>1, <3>3, <3>5, AppendIs, Lengths DEF Grows, CandidatesGrow, ReleasesStay
      <3>8. Accepted(Tip)'
        <4>1. PICK n : n = Tip + 1 OBVIOUS
        <4>2. Tip' = n /\ main'[n] = c BY <3>1, <3>3, <4>1, AppendIs
        <4> QED BY <3>1, <4>2 DEF Accepted
      <3> QED BY <3>6, <3>7, <3>8
    <2> QED BY <2>1, <2>2
  <1>4. PICK n : n = Tip' OBVIOUS
  <1>5. n \in Nat /\ n >= 2 /\ n = Len(main') /\ main'[n] \in Commit
    <2>1. main' \in Seq(Commit) /\ Len(main') >= 2 BY <1>3 DEF RepoInv, Tip
    <2> QED BY <1>4, <2>1 DEF Tip
  <1>6. PICK all : all = VersionsOf(main'[n].entries) OBVIOUS
  <1>7. all \subseteq Version BY <1>5, <1>6, CommitFields DEF VersionsOf
  <1>8. job' = [job EXCEPT !.phase = "tag", !.made = None, !.seen = 0, !.publish = n,
                           !.left = all]
    BY <1>5, <1>6
  <1>9. job.todo = {} BY <1>1 DEF JobInv
  <1>10. /\ job' \in JobType /\ job'.phase = "tag" /\ job'.made = None /\ job'.seen = 0
         /\ job'.publish = n /\ job'.left = all /\ job'.todo = {}
    <2>1. n \in Nat /\ all \in SUBSET Version BY <1>5, <1>7
    <2> QED BY ONLY <1>1, <1>8, <1>9, <2>1 DEF JobType, Publishing
  <1>11. PublishingInv(job)'
    <2>1. Reconciled(job)' BY <1>6, <1>10 DEF Reconciled, VersionsOf
    <2> QED BY <1>3, <1>4, <1>5, <1>6, <1>10, <2>1 DEF PublishingInv
  <1>12. JobInv(job)'
    BY <1>4, <1>5, <1>10, <1>11 DEF JobInv, Preparing, Pushing, Publishing
  <1>13. Uploading' BY <1>10 DEF Uploading
  <1>14. GithubInv' BY <1>3, GithubKept DEF Grows, outVars
  <1>15. waiting' = None \/ RunInv(waiting)' BY <1>3, RunKept
  <1>16. JobInv(halted)' BY <1>3, JobKept
  <1>17. SiteInv(site)' /\ SiteInv(mirror)' BY <1>3, SiteKept DEF outVars
  <1> QED BY <1>3, <1>12, <1>13, <1>14, <1>15, <1>16, <1>17

-----------------------------------------------------------------------------
(* The releases are reconciled.                                            *)

(* The job goes on publishing the same commit. *)
LEMMA JobGoesOn ==
  ASSUME NEW j, JobInv(j)', j.phase \in Publishing,
         NEW k \in JobType, k.phase \in Publishing, k.publish = j.publish, k.made = j.made,
         k.seen = j.seen, k.todo = j.todo, k.left \subseteq j.left, Reconciled(k)'
  PROVE  JobInv(k)'
  <1>1. j.made = None /\ j.todo = {} BY DEF JobInv, Publishing
  <1>2. /\ j.publish \in 1 .. Tip' /\ Accepted(j.publish)'
        /\ j.left \subseteq VersionsOf(main'[j.publish].entries)
    BY DEF JobInv, PublishingInv
  <1>3. Accepted(k.publish)' BY <1>2 DEF Accepted
  <1>4. PublishingInv(k)' BY <1>2, <1>3 DEF PublishingInv
  <1>5. k.publish <= Tip' /\ k.seen <= Tip' BY DEF JobInv
  <1>6. Preparing(k)' /\ Pushing(k)' BY DEF Preparing, Pushing, Publishing
  <1> QED BY <1>1, <1>4, <1>5, <1>6 DEF JobInv, Publishing

(* The state of the job while it publishes. *)
LEMMA PlannedFacts ==
  ASSUME RepoInv, JobInv(job), job.phase \in Publishing
  PROVE  /\ job \in JobType /\ job.publish \in 1 .. Tip /\ job.publish \in Nat
         /\ Accepted(job.publish) /\ Reconciled(job)
         /\ Planned = main[job.publish].entries
         /\ \A e \in Planned :
              /\ e.version \in Version /\ e.profile \in Profile
              /\ e.source \in Nat /\ ArtifactOf(Planned, e.version) = e.artifact
              /\ e.artifact \in 0 .. MaxCandidates
  <1>1. job \in JobType /\ job.publish \in 1 .. Tip BY DEF JobInv, PublishingInv
  <1> QED BY <1>1, MainFields, ListedIs DEF JobInv, JobType, PublishingInv, Planned

(* There is one release to take next. *)
LEMMA OneIsNext ==
  ASSUME RepoInv, JobInv(job), job.phase \in Publishing,
         NEW v, NEW w, IsNext(v), IsNext(w)
  PROVE  v = w
  <1>1. PICK e \in Planned : e.version = v /\ v \in job.left
                 /\ \A f \in Planned : f.version \in job.left => e.source <= f.source
    BY DEF IsNext
  <1>2. PICK g \in Planned : g.version = w /\ w \in job.left
                 /\ \A f \in Planned : f.version \in job.left => g.source <= f.source
    BY DEF IsNext
  <1>3. e.source = g.source BY <1>1, <1>2, PlannedFacts
  <1> QED BY <1>1, <1>2, <1>3, PlannedFacts, SameSource

(* One release changes, and was not published before. *)
LEMMA ReleaseChanges ==
  ASSUME Inv, NEW v \in Version, NEW r \in ReleaseType, github' = [github EXCEPT ![v] = r],
         github[v].state # "published", r.target <= Tip,
         r.state = "published" =>
            /\ r.target \in 1 .. Tip /\ r.notes \in 0 .. MaxCandidates
            /\ r.assets = [p \in Profile |-> r.notes]
            /\ Lists(r.target, v, r.notes),
         UNCHANGED <<repoVars, waiting, site, mirror>>,
         spent' \in [pushes : 0 .. MaxPushes, stops : Nat, reruns : Nat],
         spent'.pushes = spent.pushes,
         JobInv(job)', Uploading',
         JobInv(halted'), halted'.phase \in {"idle", "tag", "deploy"}
  PROVE  Inv'
  <1> USE DEF Inv, repoVars
  <1>1. /\ github' \in [Version -> ReleaseType] /\ github'[v] = r
        /\ \A w \in Version \ {v} : github'[w] = github[w]
    BY DEF GithubInv
  <1>2. RepoInv' /\ Tip' = Tip BY RepoKept DEF RepoInv, Tip
  <1>3. Grows
    <2>1. ReleasesStay BY <1>1 DEF ReleasesStay
    <2>2. MainGrows /\ CandidatesGrow BY <1>2, Lengths DEF MainGrows, CandidatesGrow
    <2> QED BY <2>1, <2>2 DEF Grows
  <1>4. GithubInv'
    <2>1. \A w \in Version : github'[w].target <= Tip'
      BY <1>1, <1>2 DEF GithubInv
    <2>2. ASSUME NEW w \in Version, github'[w].state = "published"
          PROVE  /\ github'[w].target \in 1 .. Tip' /\ github'[w].notes \in 0 .. MaxCandidates
                 /\ github'[w].assets = [p \in Profile |-> github'[w].notes]
                 /\ Lists(github[w].target, w, github[w].notes)'
      <3>1. CASE w = v BY <1>1, <1>2, <2>2, <3>1 DEF Lists
      <3>2. CASE w # v
        <4>1. github'[w] = github[w] /\ main' = main BY <1>1, <3>2
        <4>2. /\ github[w].target \in 1 .. Tip /\ github[w].notes \in 0 .. MaxCandidates
              /\ github[w].assets = [p \in Profile |-> github[w].notes]
              /\ Lists(github[w].target, w, github[w].notes)
          BY <2>2, <4>1 DEF GithubInv
        <4>3. Lists(github[w].target, w, github[w].notes)' BY <4>1, <4>2 DEF Lists
        <4> QED BY <1>2, <4>1, <4>2, <4>3
      <3> QED BY <3>1, <3>2
    <2> QED BY <1>1, <2>1, <2>2 DEF GithubInv
  <1>5. waiting' = None \/ RunInv(waiting)' BY <1>3, RunKept
  <1>6. JobInv(halted)' BY <1>3, JobKept
  <1>7. SiteInv(site)' /\ SiteInv(mirror)' BY <1>3, SiteKept
  <1> QED BY <1>2, <1>4, <1>5, <1>6, <1>7

LEMMA TagCheckedInv ==
  ASSUME Inv, TagChecked
  PROVE  Inv'
  <1> USE DEF TagChecked
  <1>1. Grows BY NothingGrows DEF Inv, repoVars, outVars
  <1>2. JobInv(job) /\ job.phase \in Publishing /\ job \in JobType
    BY DEF Inv, JobInv, Publishing
  <1>3. /\ job' \in JobType /\ job'.phase = "find" /\ job'.publish = job.publish
        /\ job'.made = job.made /\ job'.seen = job.seen /\ job'.todo = job.todo
        /\ job'.left = job.left
    BY <1>2 DEF JobType, Publishing
  <1>4. Reconciled(job') BY <1>2, <1>3 DEF JobInv, PublishingInv, Reconciled
  <1>5. JobInv(job')
    BY <1>2, <1>3, <1>4
    DEF JobInv, PublishingInv, Preparing, Pushing, Publishing
  <1>6. Uploading' BY <1>3 DEF Uploading
  <1> QED BY <1>5, <1>6, JobAlone

(* What is left, and the releases, do not change; the next is a draft. *)
LEMMA ResumeDraftInv ==
  ASSUME Inv, NEW v \in Version, job.phase = "find", IsNext(v), github[v].state = "draft",
         ResumeDraft(v)
  PROVE  Inv'
  <1>1. CASE github[v].notes = ArtifactOf(Planned, v)
    <2>1. /\ job' = [job EXCEPT !.phase = "upload"]
          /\ UNCHANGED <<repoVars, waiting, halted, outVars, spent>>
      BY <1>1 DEF ResumeDraft
    <2>2. RepoInv /\ JobInv(job) /\ job.phase \in Publishing /\ job \in JobType
      BY DEF Inv, JobInv, Publishing
    <2>3. /\ job' \in JobType /\ job'.phase = "upload" /\ job'.publish = job.publish
          /\ job'.made = job.made /\ job'.seen = job.seen /\ job'.todo = job.todo
          /\ job'.left = job.left
      BY <2>1, <2>2 DEF JobType, Publishing
    <2>4. Reconciled(job') BY <2>2, <2>3 DEF JobInv, PublishingInv, Reconciled
    <2>5. JobInv(job')
      BY <2>2, <2>3, <2>4
      DEF JobInv, PublishingInv, Preparing, Pushing, Publishing
    <2>6. Planned' = Planned /\ github' = github
      BY <2>1, <2>3 DEF Planned, repoVars, outVars
    <2>7. ASSUME NEW w \in Version, IsNext(w)'
          PROVE  github'[w].state = "draft" /\ github'[w].notes = ArtifactOf(Planned, w)'
      <3>1. IsNext(w) BY <2>3, <2>6, <2>7 DEF IsNext
      <3>2. w = v BY <2>2, <3>1, OneIsNext
      <3> QED BY <1>1, <2>6, <3>2 DEF ArtifactOf
    <2>8. Uploading' BY <2>7 DEF Uploading
    <2> QED BY <2>1, <2>5, <2>8, JobAlone
  <1>2. CASE github[v].notes # ArtifactOf(Planned, v)
    BY <1>2, FailsInv DEF ResumeDraft
  <1> QED BY <1>1, <1>2

LEMMA VerifyPublishedInv ==
  ASSUME Inv, NEW v \in Version, job.phase = "find", github[v].state = "published",
         VerifyPublished(v)
  PROVE  Inv'
  <1>1. CASE Exact(Planned, v)
    <2>1. /\ job' = [job EXCEPT !.left = @ \ {v}]
          /\ UNCHANGED <<repoVars, waiting, halted, outVars, spent>>
      BY <1>1 DEF VerifyPublished
    <2>2. RepoInv /\ JobInv(job) /\ job.phase \in Publishing /\ job \in JobType
      BY DEF Inv, JobInv, Publishing
    <2>3. /\ job' \in JobType /\ job'.phase = "find" /\ job'.publish = job.publish
          /\ job'.made = job.made /\ job'.seen = job.seen /\ job'.todo = job.todo
          /\ job'.left = job.left \ {v}
      BY <2>1, <2>2 DEF JobType, Publishing
    <2>4. ASSUME NEW e \in Planned, e.version \notin job'.left
          PROVE  ReleasedAs(e)
      <3>1. CASE e.version = v
        BY <1>1, <2>2, <3>1, PlannedFacts DEF Exact, ReleasedAs
      <3>2. CASE e.version # v
        BY <2>2, <2>3, <2>4, <3>2, PlannedFacts DEF Reconciled
      <3> QED BY <3>1, <3>2
    <2>5. Reconciled(job') BY <2>3, <2>4 DEF Reconciled, Planned
    <2>6. JobInv(job')
      BY <2>2, <2>3, <2>5
      DEF JobInv, PublishingInv, Preparing, Pushing, Publishing
    <2>7. Uploading' BY <2>3 DEF Uploading
    <2> QED BY <2>1, <2>6, <2>7, JobAlone
  <1>2. CASE ~Exact(Planned, v) BY <1>2, FailsInv DEF VerifyPublished
  <1> QED BY <1>1, <1>2

LEMMA SpentSame ==
  ASSUME RepoInv, spent' = spent
  PROVE  /\ spent' \in [pushes : 0 .. MaxPushes, stops : Nat, reruns : Nat]
         /\ spent'.pushes = spent.pushes
  BY DEF RepoInv

(* A release that is made or filled stays a draft with its metadata; the   *)
(* job goes on with it.                                                    *)
LEMMA DraftIsOurs ==
  ASSUME Inv, NEW v \in Version, job.phase \in Publishing, IsNext(v),
         NEW r, github' = [github EXCEPT ![v] = r],
         r.state = "draft", r.notes = ArtifactOf(Planned, v),
         main' = main, job'.publish = job.publish, job'.left = job.left
  PROVE  Uploading'
  <1>1. RepoInv /\ JobInv(job) /\ github \in [Version -> ReleaseType]
    BY DEF Inv, GithubInv
  <1>2. github'[v] = r BY <1>1
  <1>3. Planned' = Planned BY DEF Planned
  <1>4. ASSUME NEW w \in Version, IsNext(w)'
        PROVE  github'[w].state = "draft" /\ github'[w].notes = ArtifactOf(Planned, w)'
    <2>1. IsNext(w) BY <1>3, <1>4 DEF IsNext
    <2>2. w = v BY <1>1, <2>1, OneIsNext
    <2> QED BY <1>2, <1>3, <2>2 DEF ArtifactOf
  <1> QED BY <1>4 DEF Uploading

LEMMA CreateDraftInv ==
  ASSUME Inv, NEW v \in Version, job.phase = "find", IsNext(v), github[v].state = "none",
         CreateDraft(v)
  PROVE  Inv'
  <1> USE DEF CreateDraft
  <1>1. RepoInv /\ JobInv(job) /\ job.phase \in Publishing /\ job \in JobType
    BY DEF Inv, JobInv, Publishing
  <1>2. PICK n : n = ArtifactOf(Planned, v) OBVIOUS
  <1>3. n \in 0 .. MaxCandidates BY <1>1, <1>2, PlannedFacts DEF IsNext
  <1>4. PICK r : r = [NoRelease EXCEPT !.state = "draft", !.target = job.publish, !.notes = n]
    OBVIOUS
  <1>5. NoRelease = [state |-> "none", notes |-> None, target |-> 0,
                     assets |-> [p \in Profile |-> Absent]]
    BY DEF NoRelease
  <1>6. NoRelease \in ReleaseType BY <1>5 DEF ReleaseType
  <1>7. /\ r \in ReleaseType /\ r.state = "draft" /\ r.target = job.publish /\ r.notes = n
    <2>1. job.publish \in Nat BY <1>1, PlannedFacts
    <2> QED BY ONLY <1>3, <1>4, <1>6, <2>1 DEF ReleaseType
  <1>8. github' = [github EXCEPT ![v] = r] BY <1>2, <1>4
  <1>9. /\ job' \in JobType /\ job'.phase = "upload" /\ job'.publish = job.publish
        /\ job'.made = job.made /\ job'.seen = job.seen /\ job'.todo = job.todo
        /\ job'.left = job.left
    BY <1>1 DEF JobType, Publishing
  <1>10. UNCHANGED <<repoVars, waiting, halted, site, mirror, spent>> OBVIOUS
  <1>11. Grows
    <2>1. github \in [Version -> ReleaseType] BY DEF Inv, GithubInv
    <2>2. ReleasesStay BY <1>8, <2>1 DEF ReleasesStay
    <2>3. MainGrows /\ CandidatesGrow
      BY <1>1, Lengths DEF MainGrows, CandidatesGrow, repoVars, Tip
    <2> QED BY <2>2, <2>3 DEF Grows
  <1>12. JobInv(job)'
    <2>1. PICK j : j = job OBVIOUS
    <2>2. JobInv(j)' BY <1>1, <1>11, <2>1, JobKept
    <2>3. Reconciled(j)' BY <1>1, <2>1, <2>2 DEF JobInv, PublishingInv
    <2>4. PICK k : k = job' OBVIOUS
    <2>5. /\ k \in JobType /\ k.phase \in Publishing /\ k.publish = j.publish
          /\ k.made = j.made /\ k.seen = j.seen /\ k.todo = j.todo /\ k.left = j.left
      BY <1>9, <2>1, <2>4 DEF Publishing
    <2>6. Reconciled(k)' BY <2>3, <2>5 DEF Reconciled
    <2>7. JobInv(k)' BY <1>1, <2>1, <2>2, <2>5, <2>6, JobGoesOn
    <2> QED BY <2>4, <2>7
  <1>13. Uploading'
    <2>1. r.state = "draft" /\ r.notes = ArtifactOf(Planned, v) BY <1>2, <1>7
    <2>2. main' = main BY <1>10 DEF repoVars
    <2> HIDE DEF CreateDraft
    <2> QED BY <1>1, <1>8, <1>9, <2>1, <2>2, DraftIsOurs
  <1>14. job.publish <= Tip BY <1>1 DEF JobInv
  <1>15. r.state # "published" /\ github[v].state # "published" BY <1>7
  <1>16. JobInv(halted') /\ halted'.phase \in {"idle", "tag", "deploy"}
    BY <1>10 DEF Inv
  <1> QED
    BY <1>1, <1>7, <1>8, <1>10, <1>12, <1>13, <1>14, <1>15, <1>16, SpentSame,
       ReleaseChanges

LEMMA FindReleaseInv ==
  ASSUME Inv, NEW v \in Version, FindRelease(v)
  PROVE  Inv'
  <1>1. github[v].state \in {"none", "draft", "published"}
    BY DEF Inv, GithubInv, ReleaseType
  <1>2. job.phase = "find" /\ IsNext(v) BY DEF FindRelease
  <1>3. CASE github[v].state = "published"
    BY <1>2, <1>3, VerifyPublishedInv DEF FindRelease
  <1>4. CASE github[v].state = "draft" BY <1>2, <1>4, ResumeDraftInv DEF FindRelease
  <1>5. CASE github[v].state = "none" BY <1>2, <1>5, CreateDraftInv DEF FindRelease
  <1> QED BY <1>1, <1>3, <1>4, <1>5

(* An asset is uploaded, or its upload breaks off. *)
LEMMA AssetChanges ==
  ASSUME Inv, NEW v \in Version, job.phase = "upload", IsNext(v), MustUpload(v),
         NEW a \in 0 .. MaxCandidates \cup {Absent, Partial},
         github' = [github EXCEPT ![v].assets[NextAsset(v)] = a]
  PROVE  \E r \in ReleaseType :
            /\ github' = [github EXCEPT ![v] = r]
            /\ github[v].state = "draft" /\ r.state = "draft"
            /\ r.notes = ArtifactOf(Planned, v) /\ r.target = github[v].target
  <1>1. PICK p : p = NextAsset(v) OBVIOUS
  <1>2. PICK g : g = github[v] OBVIOUS
  <1>3. g \in ReleaseType BY <1>2 DEF Inv, GithubInv
  <1>4. PICK r : r = [g EXCEPT !.assets[p] = a] OBVIOUS
  <1>5. r \in ReleaseType /\ r.state = g.state /\ r.notes = g.notes /\ r.target = g.target
    BY <1>3, <1>4 DEF ReleaseType
  <1>6. github' = [github EXCEPT ![v] = r]
    BY <1>1, <1>2, <1>4
  <1>7. g.state = "draft" /\ g.notes = ArtifactOf(Planned, v)
    BY <1>2 DEF Inv, Uploading
  <1> QED BY <1>2, <1>5, <1>6, <1>7

LEMMA UploadAssetInv ==
  ASSUME Inv, NEW v \in Version, UploadAsset(v)
  PROVE  Inv'
  <1> USE DEF UploadAsset
  <1>1. RepoInv /\ JobInv(job) /\ job.phase \in Publishing /\ job.phase = "upload"
    BY DEF Inv, Publishing
  <1>2. ArtifactOf(Planned, v) \in 0 .. MaxCandidates
    BY <1>1, PlannedFacts DEF IsNext
  <1>3. PICK r \in ReleaseType :
            /\ github' = [github EXCEPT ![v] = r]
            /\ github[v].state = "draft" /\ r.state = "draft"
            /\ r.notes = ArtifactOf(Planned, v) /\ r.target = github[v].target
    BY <1>2, AssetChanges
  <1>4. UNCHANGED <<repoVars, waiting, job, halted, site, mirror, spent>>
    BY DEF jobVars
  <1>5. Grows
    <2>1. github \in [Version -> ReleaseType] BY DEF Inv, GithubInv
    <2>2. ReleasesStay BY <1>3, <2>1 DEF ReleasesStay
    <2>3. MainGrows /\ CandidatesGrow
      BY <1>1, <1>4, Lengths DEF MainGrows, CandidatesGrow, repoVars, Tip
    <2> QED BY <2>2, <2>3 DEF Grows
  <1>6. JobInv(job)' BY <1>1, <1>4, <1>5, JobKept
  <1>7. Uploading' BY <1>1, <1>3, <1>4, DraftIsOurs DEF repoVars
  <1>8. r.target <= Tip BY <1>3 DEF Inv, GithubInv
  <1>9. r.state # "published" /\ github[v].state # "published" BY <1>3
  <1>10. JobInv(halted') /\ halted'.phase \in {"idle", "tag", "deploy"}
    BY <1>4 DEF Inv
  <1> QED
    BY <1>1, <1>3, <1>4, <1>6, <1>7, <1>8, <1>9, <1>10, SpentSame, ReleaseChanges

LEMMA UploadBreaksInv ==
  ASSUME Inv, NEW v \in Version, UploadBreaks(v)
  PROVE  Inv'
  <1> USE DEF UploadBreaks
  <1>1. RepoInv /\ JobInv(job) /\ job.phase = "upload" BY DEF Inv
  <1>2. PICK r \in ReleaseType :
            /\ github' = [github EXCEPT ![v] = r]
            /\ github[v].state = "draft" /\ r.state = "draft"
            /\ r.notes = ArtifactOf(Planned, v) /\ r.target = github[v].target
    BY AssetChanges
  <1>3. UNCHANGED <<repoVars, waiting, site, mirror>> OBVIOUS
  <1>4. RepoInv' BY <1>1, <1>3, SpentTyped, RepoKept DEF RepoInv, repoVars
  <1>5. JobInv(job)' /\ Uploading' BY <1>4, IdleNext
  <1>6. JobInv(halted') /\ halted'.phase \in {"idle", "tag", "deploy"}
    BY <1>1, RestartInv
  <1>7. r.target <= Tip BY <1>2 DEF Inv, GithubInv
  <1>8. r.state # "published" /\ github[v].state # "published" BY <1>2
  <1> QED
    BY <1>1, <1>2, <1>3, <1>5, <1>6, <1>7, <1>8, SpentTyped, ReleaseChanges

(* A complete draft is revealed, at the commit that is being published. *)
LEMMA PublishDraftInv ==
  ASSUME Inv, NEW v \in Version, PublishDraft(v)
  PROVE  Inv'
  <1>1. RepoInv /\ JobInv(job) /\ job.phase \in Publishing /\ job.phase = "upload"
        /\ IsNext(v) /\ job \in JobType
    BY DEF Inv, PublishDraft, Publishing, JobInv
  <1>2. /\ github' = [github EXCEPT ![v].state = "published", ![v].target = job.publish]
        /\ job' = [job EXCEPT !.phase = "find", !.left = @ \ {v}]
        /\ UNCHANGED <<repoVars, waiting, halted, site, mirror, spent>>
    BY DEF PublishDraft, Reveal
  <1>3. PICK n : n = ArtifactOf(Planned, v) OBVIOUS
  <1>4. PICK g : g = github[v] OBVIOUS
  <1>5. g \in ReleaseType /\ g.state = "draft" /\ g.notes = n /\ n \in 0 .. MaxCandidates
    BY <1>1, <1>3, <1>4, PlannedFacts DEF Inv, Uploading, GithubInv, IsNext
  <1>6. \A p \in Profile : g.assets[p] = n
    BY <1>3, <1>4 DEF PublishDraft, Unmatched
  <1>7. g.assets = [p \in Profile |-> n]
    <2>1. g.assets \in [Profile -> 0 .. MaxCandidates \cup {Absent, Partial}]
      BY <1>5 DEF ReleaseType
    <2> QED BY <1>6, <2>1
  <1>8. PICK r : r = [g EXCEPT !.state = "published", !.target = job.publish] OBVIOUS
  <1>9. /\ r \in ReleaseType /\ r.state = "published" /\ r.target = job.publish
        /\ r.notes = n /\ r.assets = [p \in Profile |-> n]
    <2>1. job.publish \in Nat BY <1>1, PlannedFacts
    <2> QED BY ONLY <1>5, <1>7, <1>8, <2>1 DEF ReleaseType
  <1>10. github' = [github EXCEPT ![v] = r] /\ github[v].state # "published"
    <2>1. github \in [Version -> ReleaseType] BY DEF Inv, GithubInv
    <2> QED BY ONLY <1>2, <1>4, <1>5, <1>8, <2>1
  <1>11. job.publish \in 1 .. Tip /\ Lists(job.publish, v, n)
    <2>1. PICK e \in Planned : e.version = v BY <1>1 DEF IsNext
    <2>2. e.artifact = n BY <1>1, <1>3, <2>1, PlannedFacts
    <2> QED BY <1>1, <2>1, <2>2, PlannedFacts, ListsWhole
  <1>12. /\ job' \in JobType /\ job'.phase = "find" /\ job'.publish = job.publish
         /\ job'.made = job.made /\ job'.seen = job.seen /\ job'.todo = job.todo
         /\ job'.left = job.left \ {v}
    BY <1>1, <1>2 DEF JobType, Publishing
  <1>13. github'[v] = r /\ \A w \in Version \ {v} : github'[w] = github[w]
    <2>1. github \in [Version -> ReleaseType] BY DEF Inv, GithubInv
    <2> QED BY ONLY <1>10, <2>1
  <1>14. Grows
    <2>1. ReleasesStay BY <1>10, <1>13 DEF ReleasesStay
    <2>2. MainGrows /\ CandidatesGrow
      BY <1>1, <1>2, Lengths DEF MainGrows, CandidatesGrow, repoVars, Tip
    <2> QED BY <2>1, <2>2 DEF Grows
  <1>15. JobInv(job)'
    <2>1. PICK j : j = job OBVIOUS
    <2>2. JobInv(j)' BY <1>1, <1>14, <2>1, JobKept
    <2>3. Reconciled(j)' BY <1>1, <2>1, <2>2 DEF JobInv, PublishingInv
    <2>4. PICK k : k = job' OBVIOUS
    <2>5. /\ k \in JobType /\ k.phase \in Publishing /\ k.publish = j.publish
          /\ k.made = j.made /\ k.seen = j.seen /\ k.todo = j.todo /\ k.left = j.left \ {v}
      BY <1>12, <2>1, <2>4 DEF Publishing
    <2>6. Reconciled(k)'
      <3>1. main' = main BY <1>2 DEF repoVars
      <3>2. ASSUME NEW e \in Planned, e.version \notin k.left PROVE ReleasedAs(e)'
        <4>1. CASE e.version = v
          <5>1. e.artifact = n /\ e.profile \in Profile
            BY <1>1, <1>3, <4>1, PlannedFacts
          <5> QED BY <1>9, <1>13, <4>1, <5>1 DEF ReleasedAs
        <4>2. CASE e.version # v
          <5>1. e.version \notin j.left BY <2>5, <3>2, <4>2
          <5> QED BY <2>1, <2>3, <3>1, <5>1 DEF Reconciled, Planned
        <4> QED BY <4>1, <4>2
      <3> QED BY <2>1, <2>5, <3>1, <3>2 DEF Reconciled, Planned
    <2>7. JobInv(k)' BY <1>1, <2>1, <2>2, <2>5, <2>6, JobGoesOn
    <2> QED BY <2>4, <2>7
  <1>16. Uploading' BY <1>12 DEF Uploading
  <1>17. job.publish <= Tip BY <1>1 DEF JobInv
  <1>18. JobInv(halted') /\ halted'.phase \in {"idle", "tag", "deploy"}
    BY <1>2 DEF Inv
  <1>19. UNCHANGED <<repoVars, waiting, site, mirror, spent>> BY <1>2
  <1>20. /\ r.target \in 1 .. Tip /\ r.notes \in 0 .. MaxCandidates /\ r.target <= Tip
         /\ r.assets = [p \in Profile |-> r.notes] /\ Lists(r.target, v, r.notes)
    BY <1>5, <1>9, <1>11, <1>17
  <1>21. /\ spent' \in [pushes : 0 .. MaxPushes, stops : Nat, reruns : Nat]
         /\ spent'.pushes = spent.pushes
    BY <1>1, <1>19, SpentSame
  <1>22. r \in ReleaseType BY <1>9
  <1> QED
    BY <1>10, <1>15, <1>16, <1>18, <1>19, <1>20, <1>21, <1>22, ReleaseChanges

LEMMA FinishInv ==
  ASSUME Inv, Finish
  PROVE  Inv'
  <1> USE DEF Finish
  <1>1. CASE TagIsOurs
    <2>1. RepoInv /\ JobInv(job) /\ job.phase \in Publishing /\ job \in JobType
      BY DEF Inv, JobInv, Publishing
    <2>2. /\ job' \in JobType /\ job'.phase = "deploy" /\ job'.publish = job.publish
          /\ job'.made = job.made /\ job'.seen = job.seen
          /\ job'.todo = {"pages", "mirror"} /\ job'.left = {} /\ job.left = {}
      BY <1>1, <2>1 DEF JobType, Publishing
    <2>3. Reconciled(job') BY <2>1, <2>2 DEF JobInv, PublishingInv, Reconciled
    <2>4. job.made = None /\ job.todo = {} BY <2>1 DEF JobInv, Publishing
    <2>5. PublishingInv(job') BY <2>1, <2>2, <2>3 DEF JobInv, PublishingInv
    <2>6. JobInv(job')
      BY <2>1, <2>2, <2>4, <2>5 DEF JobInv, Preparing, Pushing, Publishing
    <2>7. Uploading' BY <2>2 DEF Uploading
    <2> QED BY <1>1, <2>6, <2>7, JobAlone
  <1>2. CASE ~TagIsOurs BY <1>2, FailsInv
  <1> QED BY <1>1, <1>2

-----------------------------------------------------------------------------
(* The sites are deployed.                                                 *)

LEMMA FinishedInv ==
  ASSUME RepoInv, JobInv(job), job.phase = "deploy", NEW what, Finished(what)
  PROVE  JobInv(job') /\ job'.phase # "upload"
  <1>1. CASE job.todo = {what}
    BY <1>1, IdleInv, NamesOfJob DEF Finished
  <1>2. CASE job.todo # {what}
    <2>1. job \in JobType /\ job.todo # {} BY DEF JobInv
    <2>2. job' = [job EXCEPT !.todo = @ \ {what}] BY <1>2 DEF Finished
    <2>3. /\ job' \in JobType /\ job'.phase = "deploy" /\ job'.publish = job.publish
          /\ job'.made = job.made /\ job'.seen = job.seen /\ job'.left = job.left
          /\ job'.todo = job.todo \ {what}
      BY <2>1, <2>2 DEF JobType
    <2>4. job'.todo # {} BY <1>2, <2>1, <2>3
    <2>5. Reconciled(job') BY <2>3 DEF JobInv, PublishingInv, Reconciled
    <2>6. PublishingInv(job') BY <2>3, <2>5 DEF JobInv, PublishingInv
    <2> QED BY <2>3, <2>4, <2>6 DEF JobInv, Preparing, Pushing, Publishing
  <1> QED BY <1>1, <1>2

(* What a job deploys is released. *)
LEMMA DeployedIsReleased ==
  ASSUME RepoInv, JobInv(job), job.phase = "deploy"
  PROVE  SiteInv(job.publish)
  <1>1. /\ job.publish \in 1 .. Tip /\ Accepted(job.publish) /\ Reconciled(job)
        /\ job.left = {}
    BY DEF JobInv, PublishingInv, Publishing
  <1> QED BY <1>1, Lengths DEF SiteInv, Reconciled

LEMMA DeployInv ==
  ASSUME Inv, DeployPages \/ DeployMirror
  PROVE  Inv'
  <1>1. RepoInv /\ JobInv(job) /\ job.phase = "deploy" /\ SiteInv(site) /\ SiteInv(mirror)
    BY DEF Inv, DeployPages, DeployMirror
  <1>2. PICK what : Finished(what) BY DEF DeployPages, DeployMirror
  <1>3. UNCHANGED <<repoVars, waiting, halted, github, spent>>
    BY DEF DeployPages, DeployMirror
  <1>4. site' \in {site, job.publish} /\ mirror' \in {mirror, job.publish}
    BY DEF DeployPages, DeployMirror
  <1>5. JobInv(job') /\ job'.phase # "upload" BY <1>1, <1>2, FinishedInv
  <1>6. SiteInv(site') /\ SiteInv(mirror') BY <1>1, <1>4, DeployedIsReleased
  <1>7. Grows BY <1>1, <1>3, NothingGrows DEF repoVars
  <1>8. RepoInv' BY <1>1, <1>3, RepoKept DEF RepoInv, repoVars
  <1>9. GithubInv' BY <1>1, <1>3, <1>7, GithubKept DEF Grows, Inv
  <1>10. waiting' = None \/ RunInv(waiting)' BY <1>1, <1>3, <1>7, RunKept DEF Inv
  <1>11. JobInv(halted)' /\ JobInv(job)' BY <1>1, <1>3, <1>5, <1>7, JobKept DEF Inv
  <1>12. SiteInv(site)' /\ SiteInv(mirror)' BY <1>1, <1>6, <1>7, SiteKept
  <1>13. Uploading' BY <1>5 DEF Uploading
  <1>14. halted'.phase \in {"idle", "tag", "deploy"} BY <1>3 DEF Inv
  <1> QED BY <1>8, <1>9, <1>10, <1>11, <1>12, <1>13, <1>14 DEF Inv

-----------------------------------------------------------------------------
(* The invariant holds.                                                    *)

LEMMA InitInv ==
  ASSUME Init
  PROVE  Inv
  <1> USE ReleasePipelineAssumption DEF Init
  <1> DEFINE c(i) == [declared |-> IF i = 1 THEN First ELSE Second, touched |-> i = 2,
                      entries |-> Pair(First, 1, 0), quarantine |-> {}, bot |-> FALSE]
  <1>1. First \in Version /\ Second \in Version OBVIOUS
  <1>2. \A e \in Pair(First, 1, 0) :
           /\ e \in EntryType /\ e.version = First /\ e.source = 1 /\ e.artifact = 0
    BY <1>1 DEF Pair, EntryType
  <1>3. \A i \in 1 .. 2 : c(i) \in Commit BY <1>1, <1>2 DEF Commit, EntryType
  <1>4. \A i \in 1 .. 2 : c(i).bot = FALSE /\ c(i).entries = Pair(First, 1, 0) OBVIOUS
  <1>5. main = [i \in 1 .. 2 |-> c(i)] OBVIOUS
  <1> HIDE DEF c, Init
  <1>6. main \in Seq(Commit) /\ Tip = 2
    <2>1. main \in [1 .. 2 -> Commit] BY <1>3, <1>5
    <2>2. main \in Seq(Commit)
      <3>1. \E n \in Nat : main \in [1 .. n -> Commit] BY <2>1
      <3> QED BY <3>1, SeqDef
    <2>3. Len(main) \in Nat /\ DOMAIN main = 1 .. Len(main) BY <2>2
    <2>4. DOMAIN main = 1 .. 2 BY <2>1
    <2>5. Len(main) = 2
      <3>1. PICK n \in Nat : n = Len(main) BY <2>3
      <3>2. 1 .. n = 1 .. 2 BY <2>3, <2>4, <3>1
      <3>3. 2 \in 1 .. n /\ \A i \in 1 .. n : i <= 2 BY <3>2
      <3>4. n \in 1 .. n BY <3>3
      <3> QED BY <3>1, <3>3, <3>4
    <2> QED BY <2>2, <2>5 DEF Tip
  <1>7. \A i \in 1 .. 2 : main[i].bot = FALSE /\ main[i].entries = Pair(First, 1, 0)
    BY <1>4, <1>5
  <1>8. \A i \in 1 .. Tip : CommitInv(i)
    BY <1>2, <1>6, <1>7 DEF CommitInv, EntryOK, InOrder
  <1>9. candidates = <<>> /\ Len(candidates) = 0
        /\ candidates \in Seq([commit : Nat, version : Version])
    BY DEF Init
  <1>10. Bots = {} BY <1>6, <1>7 DEF Bots
  <1>11. Cardinality(Bots) = 0 BY <1>10, FS_EmptySet
  <1>12. spent = [pushes |-> 0, stops |-> 0, reruns |-> 0] /\ ci = {2} /\ expired = {}
    BY DEF Init
  <1>13. RepoInv
    <2>1. Tip = 2 + spent.pushes + Cardinality(Bots) BY <1>6, <1>11, <1>12
    <2>2. spent \in [pushes : 0 .. MaxPushes, stops : Nat, reruns : Nat] BY <1>12
    <2> QED BY <1>6, <1>8, <1>9, <1>12, <2>1, <2>2 DEF RepoInv
  <1>14. NoRelease \in ReleaseType /\ NoRelease.state = "none" /\ NoRelease.target = 0
    BY DEF NoRelease, ReleaseType
  <1> DEFINE first == [state |-> "published", notes |-> 0, target |-> 1,
                       assets |-> [p \in Profile |-> 0]]
  <1>15. github = [v \in Version |-> IF v = First THEN first ELSE NoRelease]
    BY DEF Init
  <1>16. first \in ReleaseType BY DEF ReleaseType
  <1>17. /\ first.target = 1 /\ first.notes = 0 /\ first.state = "published"
         /\ first.assets = [p \in Profile |-> 0]
    OBVIOUS
  <1> HIDE DEF first
  <1>18. Lists(1, First, 0)
    <2>1. \A p \in Profile : [version |-> First, profile |-> p, source |-> 1, artifact |-> 0]
                               \in main[1].entries
      BY <1>7 DEF Pair
    <2> QED BY <2>1 DEF Lists
  <1>19. GithubInv
    <2>1. github \in [Version -> ReleaseType] BY <1>14, <1>15, <1>16
    <2>2. github[First] = first /\ \A v \in Version \ {First} : github[v] = NoRelease
      BY <1>1, <1>15
    <2>3. \A v \in Version : github[v].target <= Tip
      BY <1>6, <1>14, <1>17, <2>2
    <2>4. ASSUME NEW v \in Version, github[v].state = "published" PROVE v = First
      BY <1>14, <2>2, <2>4
    <2>5. /\ github[First].target \in 1 .. Tip /\ github[First].notes \in 0 .. MaxCandidates
          /\ github[First].assets = [p \in Profile |-> github[First].notes]
          /\ Lists(github[First].target, First, github[First].notes)
      BY <1>6, <1>17, <1>18, <2>2
    <2> QED BY <2>1, <2>3, <2>4, <2>5 DEF GithubInv
  <1>20. JobInv(Idle) BY <1>13, IdleInv
  <1>21. Uploading BY NamesOfJob DEF Init, Uploading
  <1>22. SiteInv(0) BY <1>6 DEF SiteInv
  <1> QED BY <1>13, <1>19, <1>20, <1>21, <1>22, NamesOfJob DEF Inv, Init

LEMMA StutterInv ==
  ASSUME Inv, UNCHANGED vars
  PROVE  Inv'
  <1>1. UNCHANGED <<repoVars, waiting, job, halted, outVars, spent>>
    BY DEF vars, jobVars
  <1>2. Uploading' BY <1>1 DEF Inv, Uploading, IsNext, Planned, repoVars, outVars
  <1> QED BY <1>1, <1>2, JobAlone DEF Inv

LEMMA StepInv == Inv /\ [Next]_vars => Inv'
  <1> SUFFICES ASSUME Inv, [Next]_vars PROVE Inv' OBVIOUS
  <1>1. CASE PushCommit BY <1>1, PushCommitInv
  <1>2. CASE Dispatch \/ CiOfPush BY <1>2, CiInv
  <1>3. CASE RunAgain BY <1>3, RunAgainInv
  <1>4. CASE RunFailedJobAgain BY <1>4, RunFailedJobInv
  <1>5. CASE Expire BY <1>5, ExpireInv
  <1>6. CASE JobStops BY <1>6, JobStopsInv
  <1>7. CASE \E v \in Version : UploadBreaks(v) BY <1>7, UploadBreaksInv
  <1>8. CASE PublicationStep
    <2>1. CASE Starts BY <2>1, StartsInv
    <2>2. CASE Prepare BY <2>2, PrepareInv
    <2>3. CASE PushPublication BY <2>3, PushPublicationInv
    <2>4. CASE PushRefused \/ TagTaken BY <2>4, FailsInv DEF PushRefused, TagTaken
    <2>5. CASE TagChecked BY <2>5, TagCheckedInv
    <2>6. CASE Finish BY <2>6, FinishInv
    <2>7. CASE DeployPages \/ DeployMirror BY <2>7, DeployInv
    <2>8. ASSUME NEW v \in Version, FindRelease(v) PROVE Inv' BY <2>8, FindReleaseInv
    <2>9. ASSUME NEW v \in Version, UploadAsset(v) PROVE Inv' BY <2>9, UploadAssetInv
    <2>10. ASSUME NEW v \in Version, AssetsRefused(v) PROVE Inv'
      BY <2>10, FailsInv DEF AssetsRefused
    <2>11. ASSUME NEW v \in Version, PublishDraft(v) PROVE Inv' BY <2>11, PublishDraftInv
    <2> QED
      BY <1>8, <2>1, <2>2, <2>3, <2>4, <2>5, <2>6, <2>7, <2>8, <2>9, <2>10, <2>11
      DEF PublicationStep
  <1>9. CASE UNCHANGED vars BY <1>9, StutterInv
  <1> QED
    BY <1>1, <1>2, <1>3, <1>4, <1>5, <1>6, <1>7, <1>8, <1>9 DEF Next

LEMMA Invariant == Spec => []Inv
  <1>1. Init => Inv BY InitInv
  <1> QED BY <1>1, StepInv, PTL DEF Spec

-----------------------------------------------------------------------------
(* Main has room for what the bounds allow: each commit of the workflow    *)
(* has a candidate of its own.                                             *)
LEMMA MainIsBounded ==
  ASSUME RepoInv
  PROVE  Tip \in Commits
  <1> DEFINE K == 1 .. Len(candidates)
             f == [i \in Bots |-> CHOOSE k \in K : candidates[k].commit = i - 1]
  <1>1. /\ Tip \in Nat /\ Tip >= 2 /\ Len(candidates) \in Nat /\ Bots \subseteq 1 .. Tip
        /\ Cardinality(Bots) \in Nat
    BY Lengths, BotsFinite
  <1>2. \A i \in Bots : \E k \in K : candidates[k].commit = i - 1
    <2>1. DOMAIN candidates = K BY DEF RepoInv
    <2> QED BY <1>1, <2>1 DEF RepoInv, CommitInv, Bots
  <1>3. \A i \in Bots : f[i] \in K /\ candidates[f[i]].commit = i - 1 BY <1>2
  <1>4. f \in Injection(Bots, K)
    <2>1. f \in [Bots -> K] BY <1>3
    <2>2. \A i, j \in Bots : f[i] = f[j] => i = j BY <1>1, <1>3
    <2> HIDE DEF f
    <2> QED BY <2>1, <2>2 DEF Injection, IsInjective
  <1>5. IsFiniteSet(K) /\ Cardinality(K) = Len(candidates)
    <2>1. PICK n \in Nat : n = Len(candidates) BY <1>1
    <2>2. IsFiniteSet(1 .. n) /\ Cardinality(1 .. n) = IF 1 > n THEN 0 ELSE n - 1 + 1
      BY FS_Interval
    <2>3. Cardinality(1 .. n) = n BY <2>2
    <2> QED BY <2>1, <2>2, <2>3
  <1>6. Cardinality(Bots) <= Cardinality(K) BY <1>4, <1>5, FS_Injection
  <1>7. /\ Len(candidates) <= MaxCandidates
        /\ spent.pushes \in 0 .. MaxPushes
        /\ Tip = 2 + spent.pushes + Cardinality(Bots)
    BY DEF RepoInv
  <1> QED BY ONLY <1>1, <1>5, <1>6, <1>7, ReleasePipelineAssumption DEF Commits

LEMMA JobIsTyped ==
  ASSUME RepoInv, NEW j, JobInv(j)
  PROVE  /\ j.phase \in {"idle", "prepare", "push", "deploy"} \cup Publishing
         /\ j.phase = "idle" => j = Idle
         /\ j.made # None => j.phase = "push"
         /\ j.publish \in 0 .. Tip /\ j.seen \in 0 .. Tip
         /\ j.tag \in Version \cup {None}
         /\ j.left # {} => /\ j.phase \in Publishing
                           /\ j.left \subseteq VersionsOf(main[j.publish].entries)
         /\ j.todo # {} <=> j.phase = "deploy"
  <1>1. j \in JobType BY DEF JobInv
  <1>2. /\ j.phase \in {"idle", "prepare", "push", "deploy"} \cup Publishing
        /\ j.publish \in Nat /\ j.seen \in Nat /\ j.tag \in Version \cup {None}
    BY <1>1 DEF JobType
  <1> QED BY <1>2, Lengths DEF JobInv, PublishingInv

LEMMA InvTyped ==
  ASSUME Inv
  PROVE  TypeOK
  <1> USE DEF Inv
  <1>1. Tip \in Commits BY MainIsBounded
  <1>2. Tip \in Nat /\ Tip >= 2 /\ Len(candidates) \in Nat /\ Len(candidates) <= MaxCandidates
    BY Lengths DEF RepoInv
  <1>3. DOMAIN main = 1 .. Tip /\ DOMAIN candidates = 1 .. Len(candidates)
    <2>1. main \in Seq(Commit) /\ candidates \in Seq([commit : Nat, version : Version])
      BY DEF RepoInv
    <2> QED BY <2>1 DEF Tip
  <1>4. ASSUME NEW i \in 1 .. Tip
        PROVE  /\ main[i].declared \in Version /\ main[i].entries \subseteq Entry
               /\ main[i].touched \in BOOLEAN /\ main[i].bot \in BOOLEAN
               /\ \A e \in main[i].entries : e.source <= i /\ e.artifact <= Len(candidates)
    <2>1. main[i] \in Commit /\ main[i].entries \subseteq EntryType BY MainFields
    <2>2. \A e \in main[i].entries :
             /\ e.artifact \in 0 .. MaxCandidates /\ e.artifact \in 0 .. Len(candidates)
             /\ e.source \in 1 .. i
      BY ListedIs
    <2>3. 1 .. i \subseteq Commits
      <3>1. MaxPushes \in Nat /\ MaxCandidates \in Nat BY ReleasePipelineAssumption
      <3>2. Tip \in 1 .. MaxPushes + MaxCandidates + 2 BY <1>1 DEF Commits
      <3>3. i \in 1 .. Tip OBVIOUS
      <3> QED BY ONLY <1>2, <3>1, <3>2, <3>3 DEF Commits
    <2>4. \A e \in main[i].entries : e \in Entry
      <3> SUFFICES ASSUME NEW e \in main[i].entries PROVE e \in Entry OBVIOUS
      <3>1. e \in EntryType /\ e.source \in Commits /\ e.artifact \in Builds
        BY <2>1, <2>2, <2>3 DEF Builds
      <3> QED BY <3>1 DEF EntryType, Entry
    <2>5. \A e \in main[i].entries : e.source <= i /\ e.artifact <= Len(candidates)
      BY <1>2, <2>2
    <2> QED BY <2>1, <2>4, <2>5, CommitFields
  <1>5. ci \subseteq 1 .. Tip /\ expired \subseteq DOMAIN candidates
    <2>1. 2 .. Tip \subseteq 1 .. Tip BY <1>2
    <2> QED BY <1>3, <2>1 DEF RepoInv
  <1>6. \A k \in DOMAIN candidates : candidates[k] \in [commit : 1 .. Tip, version : Version]
    <2> SUFFICES ASSUME NEW k \in 1 .. Len(candidates)
                 PROVE  candidates[k] \in [commit : 1 .. Tip, version : Version]
      BY <1>3
    <2>1. /\ candidates[k] \in [commit : Nat, version : Version]
          /\ candidates[k].commit \in 1 .. Tip /\ candidates[k].version \in Version
      BY <1>2, CandidateFields
    <2> QED BY <2>1
  <1>7. waiting = None \/ waiting \in [commit : 1 .. Tip, candidate : 0 .. Len(candidates)]
    <2>1. ASSUME RunInv(waiting)
          PROVE  waiting \in [commit : 1 .. Tip, candidate : 0 .. Len(candidates)]
      <3>1. /\ waiting \in RunType /\ waiting.commit \in 1 .. Tip
            /\ waiting.candidate \in 0 .. Len(candidates)
        BY <1>2, <2>1 DEF RunInv
      <3> QED BY <3>1 DEF RunType
    <2> QED BY <2>1
  <1>8. ASSUME NEW v \in Version
        PROVE  github[v] \in [state : {"none", "draft", "published"}, notes : Builds \cup {None},
                              target : 0 .. Tip,
                              assets : [Profile -> Builds \cup {Absent, Partial}]]
    <2>1. github[v] \in ReleaseType /\ github[v].target <= Tip BY DEF GithubInv
    <2>2. github[v].target \in 0 .. Tip BY <1>2, <2>1 DEF ReleaseType
    <2> QED BY <2>1, <2>2 DEF ReleaseType, Builds
  <1>9. site \in 0 .. Tip /\ mirror \in 0 .. Tip BY DEF SiteInv
  <1> QED
    BY <1>1, <1>3, <1>4, <1>5, <1>6, <1>7, <1>8, <1>9, JobIsTyped DEF TypeOK

(* The state of the pipeline is typed, whatever jobs stop: a job that does *)
(* not run holds nothing, it has a commit to push only until it pushes and *)
(* releases to publish only while it publishes them; and the workflow adds *)
(* at most one commit to main for each candidate.                          *)
THEOREM PipelineTypeCorrect == Spec => []TypeOK
  <1>1. Inv => TypeOK BY InvTyped
  <1> QED BY <1>1, Invariant, PTL

(* The tag of a published release leads to a commit of main whose manifest *)
(* lists exactly its images, for each profile: publish-releases sets the   *)
(* target to the commit it reconciles, after every asset was compared.     *)
THEOREM TagsHoldReleases == Spec => []TagHoldsRelease
  <1>1. Inv => TagHoldsRelease
    <2> SUFFICES ASSUME Inv, NEW v \in Version, github[v].state = "published",
                        NEW p \in Profile
                 PROVE  \E e \in main[github[v].target].entries :
                          e.version = v /\ e.profile = p /\ e.artifact = github[v].assets[p]
      BY DEF TagHoldsRelease
    <2>1. github[v].assets[p] = github[v].notes BY DEF Inv, GithubInv
    <2>2. Lists(github[v].target, v, github[v].notes) BY DEF Inv, GithubInv
    <2> QED BY <2>1, <2>2 DEF Lists
  <1> QED BY <1>1, Invariant, PTL

LEMMA PlacesAreAccepted ==
  ASSUME Inv, NEW place \in {site, mirror} \ {0}
  PROVE  /\ place \in 1 .. Tip /\ Accepted(place)
         /\ \A e \in main[place].entries : ReleasedAs(e)
  BY Lengths DEF Inv, SiteInv

(* Neither the site nor its mirror serves an image that the quarantine     *)
(* list of the deployed commit names, although the list grows while jobs   *)
(* wait, stop and are run again: a job only deploys the commit it checked. *)
THEOREM SitesHoldNothingQuarantined == Spec => []NothingQuarantined
  <1>1. Inv => NothingQuarantined
    <2> SUFFICES ASSUME Inv, NEW place \in {site, mirror} \ {0},
                        NEW e \in main[place].entries
                 PROVE  Image(e) \notin main[place].quarantine
      BY DEF NothingQuarantined
    <2>1. SiteAssembles(main[place].entries, main[place].quarantine)
      BY PlacesAreAccepted DEF Accepted
    <2> QED BY <2>1 DEF SiteAssembles, PublicationValid, Publishable
  <1> QED BY <1>1, Invariant, PTL

(* The release that the flasher shows as the latest, by the site's version *)
(* order, is the one that the scripts recorded last, by their own order.   *)
THEOREM LatestWasRecordedLast == Spec => []LatestIsNewest
  <1>1. Inv => LatestIsNewest
    <2> SUFFICES ASSUME Inv, NEW place \in {site, mirror} \ {0},
                        NEW latest \in Latest(Catalog(main[place].entries)),
                        NEW e \in main[place].entries, NEW f \in main[place].entries,
                        Descriptor(e) = latest
                 PROVE  f.source <= e.source
      BY DEF LatestIsNewest
    <2>1. place \in 1 .. Tip /\ RepoInv BY PlacesAreAccepted DEF Inv
    <2>2. /\ e.source \in Nat /\ f.source \in Nat
          /\ e.version \in Version /\ f.version \in Version
      BY <2>1, MainFields
    <2>3. ~Earlier(Descriptor(e).version, Descriptor(f).version)
      BY DEF Latest, Catalog
    <2>4. ~Earlier(Semver[e.version], Semver[f.version]) BY <2>3 DEF Descriptor
    <2>5. ~Exceeds(f.version, e.version) BY <2>2, <2>4, ExceedsIsLater
    <2>6. ~(e.source < f.source) BY <2>1, <2>5 DEF RepoInv, CommitInv, InOrder
    <2> QED BY <2>2, <2>6
  <1> QED BY <1>1, Invariant, PTL

-----------------------------------------------------------------------------
(* The pipeline implements what is promised of releases.                   *)

Releases == [v \in Version |-> Released(v)]
Offers == [s \in {"pages", "mirror"} |-> Served(IF s = "pages" THEN site ELSE mirror)]

(* What the releases hold is whole, and what is served is among it. *)
LEMMA ReleasedIs ==
  ASSUME Inv, NEW v \in Version
  PROVE  /\ github[v].state # "published" => Released(v) = None
         /\ github[v].state = "published" =>
              /\ Released(v) = github[v].assets /\ Released(v) # None
              /\ github[v].notes \in 0 .. MaxCandidates
              /\ Released(v) = [p \in Profile |-> github[v].notes]
  <1>1. ASSUME github[v].state = "published"
        PROVE  /\ Released(v) = github[v].assets /\ Released(v) # None
               /\ github[v].notes \in 0 .. MaxCandidates
               /\ Released(v) = [p \in Profile |-> github[v].notes]
    <2>1. /\ github[v].notes \in 0 .. MaxCandidates
          /\ github[v].assets = [p \in Profile |-> github[v].notes]
      BY <1>1 DEF Inv, GithubInv
    <2>2. github[v].assets \in [Profile -> 0 .. MaxCandidates] BY <2>1
    <2>3. github[v].assets # None BY <2>2, ReleasePipelineAssumption
    <2> QED BY <1>1, <2>1, <2>3 DEF Released
  <1> QED BY <1>1 DEF Released

LEMMA ServedIsGenuine ==
  ASSUME Inv, NEW c, SiteInv(c), NEW o \in Served(c)
  PROVE  /\ o \in Version \X Profile \X Builds
         /\ Releases[o[1]] # None /\ Releases[o[1]][o[2]] = o[3]
  <1>1. c \in 1 .. Tip /\ \A e \in main[c].entries : ReleasedAs(e)
    BY DEF Served, SiteInv, Inv
  <1>2. PICK e \in main[c].entries : o = <<e.version, e.profile, e.artifact>>
    BY <1>1 DEF Served
  <1>3. e.version \in Version /\ e.profile \in Profile /\ e.artifact \in Builds
    BY <1>1, MainFields, ListedIs DEF Inv, Builds
  <1>4. o[1] = e.version /\ o[2] = e.profile /\ o[3] = e.artifact BY <1>2
  <1>5. /\ github[e.version].state = "published"
        /\ github[e.version].assets[e.profile] = e.artifact
    BY <1>1 DEF ReleasedAs
  <1>6. Releases[e.version] = Released(e.version) BY <1>3 DEF Releases
  <1>7. Releases[e.version] # None /\ Releases[e.version][e.profile] = e.artifact
    BY <1>3, <1>5, <1>6, ReleasedIs
  <1>8. o \in Version \X Profile \X Builds BY <1>2, <1>3
  <1> QED BY <1>4, <1>7, <1>8

LEMMA ServedKept ==
  ASSUME RepoInv, MainGrows, NEW c, SiteInv(c)
  PROVE  Served(c)' = Served(c)
  <1>1. CASE c = 0 BY <1>1 DEF Served
  <1>2. CASE c # 0
    <2>1. c \in 1 .. Tip BY <1>2, Lengths DEF SiteInv
    <2>2. main'[c] = main[c] BY <2>1 DEF MainGrows
    <2> QED BY <2>2 DEF Served
  <1> QED BY <1>1, <1>2

(* Main grows in every step. *)
LEMMA MainOnlyGrows ==
  ASSUME Inv, [Next]_vars
  PROVE  MainGrows
  <1>1. CASE PushCommit BY <1>1, PushCommitInv DEF Grows
  <1>2. CASE PushPublication BY <1>2, PushPublicationInv DEF Grows
  <1>3. ASSUME main' = main PROVE MainGrows
    BY <1>3, Lengths DEF Inv, MainGrows, Tip
  <1>4. CASE ~PushCommit /\ ~PushPublication
    <2>1. ASSUME Dispatch \/ CiOfPush PROVE main' = main
      BY <2>1 DEF Dispatch, CiOfPush, CiEnds
    <2>2. ASSUME RunAgain \/ RunFailedJobAgain \/ Expire \/ JobStops PROVE main' = main
      BY <2>2 DEF RunAgain, RunFailedJobAgain, Expire, JobStops, repoVars
    <2>3. ASSUME NEW v \in Version, UploadBreaks(v) PROVE main' = main
      BY <2>3 DEF UploadBreaks, repoVars
    <2>4. ASSUME PublicationStep PROVE main' = main
      <3>1. ASSUME Starts \/ Prepare \/ PushRefused \/ TagChecked \/ TagTaken \/ Finish
            PROVE  main' = main
        BY <3>1
        DEF Starts, Prepare, PushRefused, TagChecked, TagTaken, Finish, Fails, repoVars
      <3>2. ASSUME DeployPages \/ DeployMirror PROVE main' = main
        BY <3>2 DEF DeployPages, DeployMirror, repoVars
      <3>3. ASSUME NEW v \in Version, FindRelease(v) PROVE main' = main
        <4>1. VerifyPublished(v) \/ ResumeDraft(v) \/ CreateDraft(v)
          <5>1. github[v].state \in {"none", "draft", "published"}
            BY DEF Inv, GithubInv, ReleaseType
          <5> QED BY <3>3, <5>1 DEF FindRelease
        <4> QED BY <4>1 DEF VerifyPublished, ResumeDraft, CreateDraft, Fails, repoVars
      <3>4. ASSUME NEW v \in Version, UploadAsset(v) \/ AssetsRefused(v) \/ PublishDraft(v)
            PROVE  main' = main
        BY <3>4 DEF UploadAsset, AssetsRefused, PublishDraft, Reveal, Fails, repoVars
      <3> QED BY <1>4, <2>4, <3>1, <3>2, <3>3, <3>4 DEF PublicationStep
    <2> QED BY <1>3, <1>4, <2>1, <2>2, <2>3, <2>4 DEF Next, vars, repoVars
  <1> QED BY <1>1, <1>2, <1>4

(* What the releases and the sites are in the step before a stutter. *)
Quiet ==
    /\ \A v \in Version : Released(v)' = Released(v)
    /\ site' = site /\ mirror' = mirror

LEMMA DraftIsQuiet ==
  ASSUME Inv, NEW v \in Version, NEW r, github' = [github EXCEPT ![v] = r],
         github[v].state # "published", r.state # "published",
         site' = site, mirror' = mirror
  PROVE  Quiet
  <1>1. github \in [Version -> ReleaseType] BY DEF Inv, GithubInv
  <1>2. ASSUME NEW w \in Version PROVE Released(w)' = Released(w)
    <2>1. CASE w = v BY <1>1, <2>1 DEF Released
    <2>2. CASE w # v BY <1>1, <2>2 DEF Released
    <2> QED BY <2>1, <2>2
  <1> QED BY <1>2 DEF Quiet

(* Every other step leaves both as they are. *)
LEMMA OthersAreQuiet ==
  ASSUME Inv, [Next]_vars, ~DeployPages, ~DeployMirror,
         \A v \in Version : ~PublishDraft(v)
  PROVE  Quiet
  <1>1. ASSUME UNCHANGED outVars PROVE Quiet BY <1>1 DEF Quiet, Released, outVars
  <1>2. ASSUME NEW v \in Version, job.phase = "upload", IsNext(v), MustUpload(v),
               NEW a \in 0 .. MaxCandidates \cup {Absent, Partial},
               github' = [github EXCEPT ![v].assets[NextAsset(v)] = a],
               site' = site, mirror' = mirror
        PROVE  Quiet
    <2>1. PICK r \in ReleaseType :
             /\ github' = [github EXCEPT ![v] = r]
             /\ github[v].state = "draft" /\ r.state = "draft"
      BY <1>2, AssetChanges
    <2>2. github[v].state # "published" /\ r.state # "published" BY <2>1
    <2> QED BY <1>2, <2>1, <2>2, DraftIsQuiet
  <1>3. ASSUME NEW v \in Version, UploadAsset(v) PROVE Quiet
    <2>1. RepoInv /\ JobInv(job) /\ job.phase \in Publishing /\ IsNext(v)
      BY <1>3 DEF Inv, UploadAsset, Publishing
    <2>2. ArtifactOf(Planned, v) \in 0 .. MaxCandidates
      BY <2>1, PlannedFacts DEF IsNext
    <2> QED BY <1>2, <1>3, <2>2 DEF UploadAsset
  <1>4. ASSUME NEW v \in Version, UploadBreaks(v) PROVE Quiet
    BY <1>2, <1>4 DEF UploadBreaks
  <1>5. ASSUME NEW v \in Version, FindRelease(v) PROVE Quiet
    <2>1. CASE github[v].state = "none"
      <3>1. CreateDraft(v) BY <1>5, <2>1 DEF FindRelease
      <3>2. PICK r : r = [NoRelease EXCEPT !.state = "draft", !.target = job.publish,
                                           !.notes = ArtifactOf(Planned, v)]
        OBVIOUS
      <3>3. github' = [github EXCEPT ![v] = r] /\ site' = site /\ mirror' = mirror
        BY <3>1, <3>2 DEF CreateDraft
      <3>4. r.state # "published"
        BY <3>2 DEF NoRelease
      <3>5. github[v].state # "published" BY <2>1
      <3> QED BY <3>3, <3>4, <3>5, DraftIsQuiet
    <2>2. CASE github[v].state # "none"
      <3>1. github[v].state \in {"draft", "published"}
        BY <2>2 DEF Inv, GithubInv, ReleaseType
      <3>2. VerifyPublished(v) \/ ResumeDraft(v) BY <1>5, <3>1 DEF FindRelease
      <3> QED BY <1>1, <3>2 DEF VerifyPublished, ResumeDraft, Fails
    <2> QED BY <2>1, <2>2
  <1>6. ASSUME PublicationStep PROVE Quiet
    <2>1. ASSUME \/ Starts \/ Prepare \/ PushPublication \/ PushRefused
                 \/ TagChecked \/ TagTaken \/ Finish
          PROVE  UNCHANGED outVars
      BY <2>1
      DEF Starts, Prepare, PushPublication, PushRefused, TagChecked, TagTaken, Finish, Fails
    <2>2. ASSUME NEW v \in Version, AssetsRefused(v) PROVE UNCHANGED outVars
      BY <2>2 DEF AssetsRefused, Fails
    <2> QED BY <1>1, <1>3, <1>5, <1>6, <2>1, <2>2 DEF PublicationStep
  <1>7. ASSUME \/ PushCommit \/ Dispatch \/ RunAgain \/ RunFailedJobAgain \/ Expire
               \/ CiOfPush \/ JobStops \/ UNCHANGED vars
        PROVE  UNCHANGED outVars
    BY <1>7
    DEF PushCommit, Dispatch, RunAgain, RunFailedJobAgain, Expire, CiOfPush, CiEnds,
        JobStops, vars
  <1> QED BY <1>1, <1>4, <1>6, <1>7 DEF Next

LEMMA PromiseVars == Promise!vars = <<Releases, Offers>>
  BY DEF Promise!vars, Releases, Offers

LEMMA InitPromises ==
  ASSUME Init
  PROVE  Promise!Init
  <1>1. Inv BY InitInv
  <1>2. site = 0 /\ mirror = 0 BY DEF Init
  <1>3. \A v \in Version :
          Released(v) \in {Promise!Whole(b) : b \in Builds} \cup {None}
    BY <1>1, ReleasedIs DEF Promise!Whole, Builds
  <1>4. Releases \in [Version -> {Promise!Whole(b) : b \in Builds} \cup {None}]
    BY <1>3 DEF Releases
  <1>5. Offers = [s \in {"pages", "mirror"} |-> {}]
    BY <1>2 DEF Offers, Served
  <1> QED BY <1>4, <1>5 DEF Promise!Init, Releases, Offers

(* A draft that is revealed is a release that appears whole. *)
LEMMA RevealReleases ==
  ASSUME Inv, Inv', NEW v \in Version, PublishDraft(v)
  PROVE  Promise!Next
  <1>1. /\ job.phase = "upload" /\ IsNext(v) /\ site' = site /\ mirror' = mirror
        /\ github' = [github EXCEPT ![v].state = "published", ![v].target = job.publish]
        /\ main' = main
    BY DEF PublishDraft, Reveal, repoVars
  <1>2. github \in [Version -> ReleaseType] BY DEF Inv, GithubInv
  <1>3. /\ github[v].state = "draft" /\ github'[v].state = "published"
        /\ github'[v].notes = github[v].notes /\ github'[v].assets = github[v].assets
        /\ \A w \in Version \ {v} : github'[w] = github[w]
    BY <1>1, <1>2 DEF Inv, Uploading, ReleaseType
  <1> DEFINE n == github'[v].notes
  <1>4. n \in Builds /\ Released(v)' = Promise!Whole(n)
    <2>1. /\ n \in 0 .. MaxCandidates
          /\ github'[v].assets = [p \in Profile |-> n]
      BY <1>3 DEF Inv, GithubInv
    <2>2. Released(v)' = github'[v].assets BY <1>3 DEF Released
    <2> QED BY <2>1, <2>2 DEF Builds, Promise!Whole
  <1>5. Released(v) = None /\ \A w \in Version \ {v} : Released(w)' = Released(w)
    BY <1>3 DEF Released
  <1> HIDE DEF n
  <1>6. Releases[v] = None BY <1>5 DEF Releases
  <1>7. Releases' = [Releases EXCEPT ![v] = Promise!Whole(n)]
    BY <1>4, <1>5 DEF Releases
  <1>8. Offers' = Offers
    <2>1. Served(site)' = Served(site) /\ Served(mirror)' = Served(mirror)
      BY <1>1 DEF Served
    <2> QED BY <2>1 DEF Offers
  <1>9. Promise!Release(v, n)
    BY <1>6, <1>7, <1>8 DEF Promise!Release, Releases, Offers
  <1> QED BY <1>4, <1>9 DEF Promise!Next

(* A deployment offers what is released. *)
LEMMA DeployOffers ==
  ASSUME Inv, DeployPages \/ DeployMirror
  PROVE  Promise!Next
  <1>1. main' = main /\ github' = github BY DEF DeployPages, DeployMirror, repoVars
  <1>2. Releases' = Releases BY <1>1 DEF Releases, Released
  <1>3. /\ SiteInv(site) /\ SiteInv(mirror) /\ SiteInv(job.publish)
    BY DeployedIsReleased DEF Inv, DeployPages, DeployMirror
  <1>4. PICK s \in {"pages", "mirror"} :
          /\ s = "pages" => mirror' = mirror /\ site' = job.publish
          /\ s = "mirror" => site' = site /\ mirror' \in {mirror, job.publish}
    BY DEF DeployPages, DeployMirror
  <1>5. /\ Offers["pages"] = Served(site) /\ Offers["mirror"] = Served(mirror)
        /\ Offers'["pages"] = Served(site') /\ Offers'["mirror"] = Served(mirror')
    BY <1>1 DEF Offers, Served
  <1>6. \A t \in {"pages", "mirror"} \ {s} : Offers'[t] = Offers[t]
    BY <1>4, <1>5
  <1>7. PICK c : SiteInv(c) /\ Offers'[s] = Served(c) BY <1>3, <1>4, <1>5
  <1>8. \A o \in Served(c) :
          /\ o \in Version \X Profile \X Builds
          /\ Releases[o[1]] # None /\ Releases[o[1]][o[2]] = o[3]
    BY <1>7, ServedIsGenuine
  <1>9. Offers'[s] \in SUBSET (Version \X Profile \X Builds) BY <1>7, <1>8
  <1>10. Promise!Genuine(Offers'[s])
    BY <1>7, <1>8 DEF Promise!Genuine, Releases
  <1>11. Promise!Offer(s)
    BY <1>2, <1>6, <1>9, <1>10 DEF Promise!Offer, Releases, Offers
  <1> QED BY <1>11 DEF Promise!Next

LEMMA StepPromises == Inv /\ Inv' /\ [Next]_vars => [Promise!Next]_(Promise!vars)
  <1> SUFFICES ASSUME Inv, Inv', [Next]_vars PROVE [Promise!Next]_(Promise!vars)
    OBVIOUS
  <1>1. CASE DeployPages \/ DeployMirror BY <1>1, DeployOffers
  <1>2. CASE \E v \in Version : PublishDraft(v) BY <1>2, RevealReleases
  <1>3. CASE ~DeployPages /\ ~DeployMirror /\ \A v \in Version : ~PublishDraft(v)
    <2>1. Quiet BY <1>3, OthersAreQuiet
    <2>2. Releases' = Releases BY <2>1 DEF Quiet, Releases
    <2>3. MainGrows BY MainOnlyGrows
    <2>4. Served(site)' = Served(site) /\ Served(mirror)' = Served(mirror)
      <3>1. \A c : SiteInv(c) => Served(c)' = Served(c) BY <2>3, ServedKept DEF Inv
      <3> QED BY <2>1, <3>1 DEF Quiet, Inv, Served
    <2>5. Offers' = Offers BY <2>4 DEF Offers
    <2> QED BY <2>2, <2>5, PromiseVars DEF Promise!vars, Releases, Offers
  <1> QED BY <1>1, <1>2, <1>3

(* Whatever stops, runs again or meets a newer run, a release on GitHub     *)
(* appears whole, with one build's image for each profile, it never changes *)
(* again, and both sites only serve images that are released with exactly   *)
(* those bytes: the pipeline implements what AbstractReleases promises.     *)
THEOREM ReleasesAreAsPromised == Spec => ReleasesAsPromised
  <1>1. Init => Promise!Init BY InitPromises
  <1> QED
    BY <1>1, Invariant, StepPromises, PTL DEF Spec, ReleasesAsPromised, Promise!Spec
=============================================================================
