---------------------------- MODULE ReleasePipeline ----------------------------
(***************************************************************************)
(* From a push on main to a published release.  CI tests every push and    *)
(* every dispatch, and builds a firmware candidate when one is needed.     *)
(* The workflow `Publish firmware and site' then records the candidate in  *)
(* the manifest, pushes that commit, completes the GitHub releases of the  *)
(* manifest and deploys the site, one run at a time.  People push, and     *)
(* withdraw images, meanwhile; a job may stop between any two of its       *)
(* steps, and people run it again; CI artifacts expire.                    *)
(*                                                                         *)
(* A commit is [declared, touched, entries, quarantine, bot]: the version  *)
(* its sources declare, whether it changes the firmware, its manifest and  *)
(* quarantine list, and whether the workflow made it.  Commits are         *)
(* numbered by their place on main.                                        *)
(***************************************************************************)
EXTENDS ReleaseManifest

CONSTANTS
    First, Second,  \* the legacy version that main starts with, and the next
    None,
    Suspect,        \* bound: the images of CI that people may withdraw
    MaxPushes,      \* bound: the commits that people push
    MaxCandidates,  \* bound: the candidates that CI builds
    MaxStops        \* bound: the jobs that stop halfway

(* What there is to a commit. *)
Commit ==
    [declared : Version, touched : BOOLEAN, bot : BOOLEAN,
     entries : SUBSET [version : Version, profile : Profile, source : Nat, artifact : Nat],
     quarantine : SUBSET [version : Version, profile : Profile, artifact : Nat]]

ASSUME ReleasePipelineAssumption ==
    /\ First \in Legacy /\ Legacy \subseteq Version /\ Second \in Version \ Legacy
    /\ MaxPushes \in Nat /\ MaxCandidates \in Nat
    /\ MaxStops \in Nat
    /\ None \notin Commit /\ None \notin [Profile -> 0 .. MaxCandidates]

VARIABLES
    main,        \* the commits of the branch, oldest first
    ci,          \* the pushed commits whose CI run goes on
    candidates,  \* the CI artifacts: [commit, version] each
    expired,     \* those that GitHub no longer has
    waiting,     \* the publication run that waits for its turn, or None
    job,         \* the one that runs: its phase and what it has worked out
    halted,      \* the job that failed last, where a re-run of it starts
    github,      \* [Version -> its GitHub release]
    site,        \* the commit whose manifest the site serves, 0 for none
    mirror,      \* and the Cloudflare mirror
    spent        \* how much of the bounds is used

repoVars == <<main, ci, candidates, expired>>
jobVars == <<waiting, job, halted>>
outVars == <<github, site, mirror>>
vars == <<repoVars, jobVars, outVars, spent>>

-----------------------------------------------------------------------------
Absent == -1     \* an asset that was not uploaded
Partial == -2   \* an upload that broke off

NoRelease == [state |-> "none", notes |-> None, target |-> 0,
              assets |-> [p \in Profile |-> Absent]]

Idle == [phase |-> "idle", run |-> [commit |-> 0, candidate |-> 0], seen |-> 0,
         made |-> None, publish |-> 0, tag |-> None, left |-> {}, todo |-> {}]

(* Main has one legacy release, and the next was just pushed. *)
Init ==
    /\ main = [i \in 1 .. 2 |->
                  [declared |-> IF i = 1 THEN First ELSE Second, touched |-> i = 2,
                   entries |-> Pair(First, 1, 0), quarantine |-> {}, bot |-> FALSE]]
    /\ ci = {2} /\ candidates = <<>> /\ expired = {}
    /\ waiting = None /\ job = Idle /\ halted = Idle
    /\ github = [v \in Version |->
                    IF v = First
                    THEN [state |-> "published", notes |-> 0, target |-> 1,
                          assets |-> [p \in Profile |-> 0]]
                    ELSE NoRelease]
    /\ site = 0 /\ mirror = 0
    /\ spent = [pushes |-> 0, stops |-> 0, reruns |-> 0]

Tip == Len(main)

(* What the release of v has to hold, by the entries of a commit. *)
ArtifactOf(entries, v) == (CHOOSE e \in entries : e.version = v).artifact

(* The release of v has the planned metadata and every planned asset. *)
Exact(entries, v) ==
    /\ github[v].notes = ArtifactOf(entries, v)
    /\ \A p \in Profile : github[v].assets[p] = ArtifactOf(entries, v)

-----------------------------------------------------------------------------
(* People. *)

(* A push: new sources or not, an image withdrawn or not, alone or with    *)
(* its pair, or only put on the quarantine list.                           *)
PushCommit ==
    /\ spent.pushes < MaxPushes
    /\ \E v \in (Version \ Legacy) \cup {main[Tip].declared}, touched \in BOOLEAN,
          bad \in {{}} \cup {{e} : e \in {f \in main[Tip].entries : Image(f) \in Suspect}} :
          /\ v # main[Tip].declared => touched
          /\ bad # {} => (touched => v # main[Tip].declared)
          /\ \E gone \in {{}, bad, {e \in main[Tip].entries : e.version \in VersionsOf(bad)}} :
                main' = Append(main,
                          [declared |-> v, touched |-> touched, bot |-> FALSE,
                           entries |-> main[Tip].entries \ gone,
                           quarantine |-> main[Tip].quarantine \cup {Image(e) : e \in bad}])
    /\ ci' = ci \cup {Tip + 1}
    /\ spent' = [spent EXCEPT !.pushes = @ + 1]
    /\ UNCHANGED <<candidates, expired, jobVars, outVars>>

(* The whole publication workflow again, for a candidate built before. *)
RunAgain ==
    /\ spent.reruns < spent.stops /\ waiting = None
    /\ \E k \in DOMAIN candidates :
          waiting' = [commit |-> candidates[k].commit, candidate |-> k]
    /\ spent' = [spent EXCEPT !.reruns = @ + 1]
    /\ UNCHANGED <<repoVars, job, halted, outVars>>

(* Only the job that failed, with what the jobs before it had found out. *)
RunFailedJobAgain ==
    /\ spent.reruns < spent.stops /\ job = Idle /\ halted # Idle
    /\ job' = halted /\ halted' = Idle
    /\ spent' = [spent EXCEPT !.reruns = @ + 1]
    /\ UNCHANGED <<repoVars, waiting, outVars>>

(* They are kept for days, and runs take minutes. *)
Expire ==
    /\ job = Idle /\ waiting = None /\ ci = {}
    /\ \E k \in DOMAIN candidates \ expired :
          /\ \A i \in 1 .. k - 1 : i \in expired
          /\ expired' = expired \cup {k}
    /\ UNCHANGED <<main, ci, candidates, jobVars, outVars, spent>>

-----------------------------------------------------------------------------
(* CI. *)

(* The CI artifact is the candidate that the entry was recorded from. *)
CandidateHolds(e) ==
    candidates[e.artifact] = [commit |-> e.source, version |-> e.version]

(* The published release is exactly right, on a commit that has the source. *)
ReleaseHolds(e, entries) ==
    /\ github[e.version].state = "published" /\ Exact(entries, e.version)
    /\ github[e.version].target >= e.source

(* The bytes of every entry can be had: from the repository, from its CI    *)
(* artifact, or, only if GitHub no longer has that, from its release.       *)
Materializes(entries) ==
    \A e \in {f \in entries : f.artifact # 0} :
        IF e.artifact \in expired THEN ReleaseHolds(e, entries) ELSE CandidateHolds(e)

(* A complete pair of the declared version is in the manifest. *)
PairListed(c) ==
    {e.profile : e \in {f \in c.entries : f.version = c.declared}} = Profile

CandidateRequired(r) ==
    \/ ~PairListed(main[r.commit])
    \/ r.event = "push" /\ main[r.commit].touched

CiAccepts(r) ==
    LET c == main[r.commit]
    IN  /\ SiteAssembles(c.entries, c.quarantine)
        /\ Materializes(c.entries)
        /\ r.event = "push" /\ c.touched => Exceeds(c.declared, main[r.commit - 1].declared)

(* No more candidates than the bound: past it CI runs fail, as others do. *)
InBounds(r) == CandidateRequired(r) => Len(candidates) < MaxCandidates

(* The CI run r ends, and whatever came of it a publication run is queued, *)
(* of which GitHub lets only the last one wait.  That of a CI run that     *)
(* failed has nothing to do, but it takes the place all the same.          *)
CiEnds(r) ==
    /\ UNCHANGED <<main, expired, job, halted, outVars, spent>>
    /\ IF CiAccepts(r) /\ InBounds(r)
       THEN /\ candidates' = IF CandidateRequired(r)
                             THEN Append(candidates, [commit |-> r.commit,
                                                      version |-> main[r.commit].declared])
                             ELSE candidates
            /\ waiting' = [commit |-> r.commit,
                           candidate |-> IF CandidateRequired(r) THEN Len(candidates) + 1 ELSE 0]
       ELSE candidates' = candidates /\ waiting' = None

(* The CI of a push takes its time. *)
CiOfPush ==
    \E c \in ci :
        /\ ci' = ci \ {c}
        /\ CiEnds([commit |-> c, event |-> "push"])

(* A person dispatches CI on the head of main, when nothing else goes on.  *)
Dispatch ==
    /\ job = Idle /\ ci' = ci
    /\ CiEnds([commit |-> Tip, event |-> "dispatch"])

-----------------------------------------------------------------------------
(* The publication workflow.  A job that fails is remembered where a       *)
(* re-run of that job would start.                                         *)

Publishing == {"tag", "find", "upload"}

Restart(j) ==
    CASE j.phase \in Publishing ->
            [j EXCEPT !.phase = "tag", !.left = VersionsOf(main[j.publish].entries)]
      [] j.phase = "deploy" -> j
      [] OTHER -> Idle

Fails ==
    /\ job' = Idle
    /\ UNCHANGED <<repoVars, waiting, halted, outVars, spent>>

JobStops ==
    /\ job # Idle /\ spent.stops < MaxStops
    /\ halted' = Restart(job) /\ job' = Idle
    /\ spent' = [spent EXCEPT !.stops = @ + 1]
    /\ UNCHANGED <<repoVars, waiting, outVars>>

(* current-main: the commit is still the head of main, or the head is the  *)
(* commit that an earlier run made from it.                                *)
Starts ==
    /\ job = Idle /\ waiting # None
    /\ waiting' = None
    /\ job' = IF Tip = waiting.commit \/ (main[Tip].bot /\ Tip - 1 = waiting.commit)
              THEN [Idle EXCEPT !.phase = "prepare", !.run = waiting, !.seen = Tip]
              ELSE Idle
    /\ UNCHANGED <<repoVars, halted, outVars, spent>>

(* record-firmware-release.mjs and the local commit, for a candidate k. *)
Recorded(k) ==
    LET c == main[candidates[k].commit]
    IN  [c EXCEPT !.entries = @ \cup Pair(candidates[k].version, candidates[k].commit, k),
                  !.touched = FALSE, !.bot = TRUE]

(* The candidate is still there and its version is new, and later than     *)
(* every other; if main already has the commit it is the very same.        *)
CanRecord(run, seen) ==
    LET c == main[run.commit]
    IN  /\ run.candidate \notin expired
        /\ Recordable(c.entries, candidates[run.candidate].version)
        /\ seen # run.commit => main[seen].entries = Recorded(run.candidate).entries

CanPrepare(run, seen) ==
    LET c == IF run.candidate = 0 THEN main[run.commit] ELSE Recorded(run.candidate)
    IN  /\ IF run.candidate = 0 THEN seen = run.commit ELSE CanRecord(run, seen)
        /\ Materializes(c.entries)
        /\ SiteAssembles(c.entries, c.quarantine)
        /\ \A e \in c.entries : e.source <= run.commit

(* The job `prepare' but for its last step: nothing has left the runner.   *)
Prepared ==
    LET fresh == job.run.candidate # 0 /\ job.seen = job.run.commit
    IN  [job EXCEPT !.phase = "push",
                    !.made = IF fresh THEN Recorded(job.run.candidate) ELSE None,
                    !.publish = IF fresh THEN 0 ELSE job.seen,
                    !.tag = IF job.run.candidate = 0 THEN None
                            ELSE candidates[job.run.candidate].version]

Prepare ==
    /\ job.phase = "prepare"
    /\ UNCHANGED <<repoVars, waiting, halted, outVars, spent>>
    /\ job' = IF CanPrepare(job.run, job.seen) THEN Prepared ELSE Idle

(* Main has to be where the job found it; git refuses any other push. *)
MainHasNotMoved == Tip = IF job.made = None THEN job.publish ELSE job.run.commit

PushPublication ==
    /\ job.phase = "push" /\ MainHasNotMoved
    /\ main' = IF job.made = None THEN main ELSE Append(main, job.made)
    /\ job' = [job EXCEPT !.phase = "tag", !.made = None, !.seen = 0, !.publish = Len(main'),
                          !.left = VersionsOf(main'[Len(main')].entries)]
    /\ UNCHANGED <<ci, candidates, expired, waiting, halted, outVars, spent>>

PushRefused == job.phase = "push" /\ ~MainHasNotMoved /\ Fails

(* publish-releases: the tag of the new release is free, or already right. *)
TagUsable ==
    job.tag # None /\ github[job.tag].state = "published"
        => github[job.tag].target = job.publish

TagChecked ==
    /\ job.phase = "tag" /\ TagUsable
    /\ job' = [job EXCEPT !.phase = "find"]
    /\ UNCHANGED <<repoVars, waiting, halted, outVars, spent>>

TagTaken == job.phase = "tag" /\ ~TagUsable /\ Fails

Planned == main[job.publish].entries

(* The releases are taken in the order of the manifest. *)
IsNext(v) ==
    \E e \in Planned :
        /\ e.version = v /\ v \in job.left
        /\ \A f \in Planned : f.version \in job.left => e.source <= f.source

(* A published release is only compared, never completed. *)
VerifyPublished(v) ==
    IF Exact(Planned, v)
    THEN /\ job' = [job EXCEPT !.left = @ \ {v}]
         /\ UNCHANGED <<repoVars, waiting, halted, outVars, spent>>
    ELSE Fails

CreateDraft(v) ==
    /\ github' = [github EXCEPT ![v] =
                     [NoRelease EXCEPT !.state = "draft", !.target = job.publish,
                                       !.notes = ArtifactOf(Planned, v)]]
    /\ job' = [job EXCEPT !.phase = "upload"]
    /\ UNCHANGED <<repoVars, waiting, halted, site, mirror, spent>>

(* Mutant: a draft that is there already is taken for someone else's. *)
ResumeDraftNever(v) == Fails

(* A draft left by an earlier run is completed if its metadata are right. *)
ResumeDraft(v) ==
    IF github[v].notes = ArtifactOf(Planned, v)
    THEN /\ job' = [job EXCEPT !.phase = "upload"]
         /\ UNCHANGED <<repoVars, waiting, halted, outVars, spent>>
    ELSE Fails

FindRelease(v) ==
    /\ job.phase = "find" /\ IsNext(v)
    /\ CASE github[v].state = "published" -> VerifyPublished(v)
         [] github[v].state = "draft" -> ResumeDraft(v)
         [] github[v].state = "none" -> CreateDraft(v)

(* Mutant: assets that are already there are not compared. *)
UnmatchedByName(v) == {p \in Profile : github[v].assets[p] = Absent}

(* The planned assets that GitHub does not hold with the planned bytes. *)
Unmatched(v) == {p \in Profile : github[v].assets[p] # ArtifactOf(Planned, v)}

(* They are gone through in one fixed order. *)
NextAsset(v) == CHOOSE p \in Unmatched(v) : TRUE
MustUpload(v) == Unmatched(v) # {} /\ github[v].assets[NextAsset(v)] = Absent

UploadAsset(v) ==
    /\ job.phase = "upload" /\ IsNext(v) /\ MustUpload(v)
    /\ github' = [github EXCEPT ![v].assets[NextAsset(v)] = ArtifactOf(Planned, v)]
    /\ UNCHANGED <<repoVars, jobVars, site, mirror, spent>>

(* The job stops within an upload, and GitHub keeps what had arrived. *)
UploadBreaks(v) ==
    /\ job.phase = "upload" /\ IsNext(v) /\ MustUpload(v) /\ spent.stops < MaxStops
    /\ github' = [github EXCEPT ![v].assets[NextAsset(v)] = Partial]
    /\ halted' = Restart(job) /\ job' = Idle
    /\ spent' = [spent EXCEPT !.stops = @ + 1]
    /\ UNCHANGED <<repoVars, waiting, site, mirror>>

(* An asset of that name is there with other bytes. *)
AssetsRefused(v) ==
    /\ job.phase = "upload" /\ IsNext(v)
    /\ Unmatched(v) # {} /\ github[v].assets[NextAsset(v)] # Absent
    /\ Fails

(* Mutant: the release is published on the commit that was tested. *)
RevealAtSource(v) ==
    /\ github' = [github EXCEPT ![v].state = "published", ![v].target = job.run.commit]
    /\ job' = [job EXCEPT !.phase = "find", !.left = @ \ {v}]
    /\ UNCHANGED <<repoVars, waiting, halted, site, mirror, spent>>

Reveal(v) ==
    /\ github' = [github EXCEPT ![v].state = "published", ![v].target = job.publish]
    /\ job' = [job EXCEPT !.phase = "find", !.left = @ \ {v}]
    /\ UNCHANGED <<repoVars, waiting, halted, site, mirror, spent>>

PublishDraft(v) ==
    /\ job.phase = "upload" /\ IsNext(v)
    /\ Unmatched(v) = {}
    /\ Reveal(v)

TagIsOurs == job.tag # None => github[job.tag].target = job.publish

Finish ==
    /\ job.phase = "find" /\ job.left = {}
    /\ IF TagIsOurs
       THEN /\ job' = [job EXCEPT !.phase = "deploy", !.todo = {"pages", "mirror"}]
            /\ UNCHANGED <<repoVars, waiting, halted, outVars, spent>>
       ELSE Fails

-----------------------------------------------------------------------------
(* The two jobs that deploy what was reconciled.                           *)

Finished(what) ==
    job' = IF job.todo = {what} THEN Idle ELSE [job EXCEPT !.todo = @ \ {what}]

DeployPages ==
    /\ job.phase = "deploy" /\ "pages" \in job.todo
    /\ site' = job.publish
    /\ Finished("pages")
    /\ UNCHANGED <<repoVars, waiting, halted, github, mirror, spent>>

(* mirror-native.mjs refuses, at its start and at its end, if main moved. *)
DeployMirror ==
    /\ job.phase = "deploy" /\ "mirror" \in job.todo
    /\ mirror' = IF Tip = job.publish THEN job.publish ELSE mirror
    /\ Finished("mirror")
    /\ UNCHANGED <<repoVars, waiting, halted, github, site, spent>>

-----------------------------------------------------------------------------
PublicationStep ==
    \/ Starts \/ Prepare \/ PushPublication \/ PushRefused
    \/ TagChecked \/ TagTaken \/ Finish \/ DeployPages \/ DeployMirror
    \/ \E v \in Version :
          \/ FindRelease(v) \/ UploadAsset(v) \/ AssetsRefused(v) \/ PublishDraft(v)

Next ==
    \/ PushCommit \/ Dispatch \/ RunAgain \/ RunFailedJobAgain \/ Expire
    \/ CiOfPush \/ PublicationStep \/ JobStops
    \/ \E v \in Version : UploadBreaks(v)

(* The runners of GitHub go on with what they have begun. *)
Spec == Init /\ [][Next]_vars /\ WF_vars(PublicationStep)

-----------------------------------------------------------------------------
Commits == 1 .. MaxPushes + MaxCandidates + 2
Builds == 0 .. MaxCandidates

Entry == [version : Version, profile : Profile, source : Commits, artifact : Builds]

(* The types, and what they say of the job: it has a commit to push only    *)
(* until it pushes, and releases left to publish only while it publishes.   *)
TypeOK ==
    /\ Tip \in Commits
    /\ \A i \in DOMAIN main :
          /\ main[i].declared \in Version /\ main[i].entries \subseteq Entry
          /\ main[i].touched \in BOOLEAN /\ main[i].bot \in BOOLEAN
          /\ \A e \in main[i].entries : e.source <= i /\ e.artifact <= Len(candidates)
    /\ ci \subseteq 1 .. Tip
    /\ \A k \in DOMAIN candidates : candidates[k] \in [commit : 1 .. Tip, version : Version]
    /\ expired \subseteq DOMAIN candidates
    /\ waiting = None \/ waiting \in [commit : 1 .. Tip, candidate : 0 .. Len(candidates)]
    /\ \A j \in {job, halted} :
          /\ j.phase \in {"idle", "prepare", "push", "deploy"} \cup Publishing
          /\ j.phase = "idle" => j = Idle
          /\ j.made # None => j.phase = "push"
          /\ j.publish \in 0 .. Tip /\ j.seen \in 0 .. Tip
          /\ j.tag \in Version \cup {None}
          /\ j.left # {} => j.phase \in Publishing /\ j.left \subseteq VersionsOf(main[j.publish].entries)
          /\ j.todo # {} <=> j.phase = "deploy"
    /\ \A v \in Version :
          github[v] \in [state : {"none", "draft", "published"}, notes : Builds \cup {None},
                         target : 0 .. Tip,
                         assets : [Profile -> Builds \cup {Absent, Partial}]]
    /\ site \in 0 .. Tip /\ mirror \in 0 .. Tip

(* A GitHub release appears whole and never changes again, whatever job     *)
(* stops, is run again or meets a newer one; and both sites only serve      *)
(* images that are released with exactly those bytes.                       *)
Released(v) == IF github[v].state = "published" THEN github[v].assets ELSE None

Served(commit) ==
    IF commit = 0 THEN {}
    ELSE {<<e.version, e.profile, e.artifact>> : e \in main[commit].entries}

Promise == INSTANCE AbstractReleases WITH
    Build <- Builds, Place <- {"pages", "mirror"},
    released <- [v \in Version |-> Released(v)],
    offered <- [s \in {"pages", "mirror"} |-> Served(IF s = "pages" THEN site ELSE mirror)]

ReleasesAsPromised == Promise!Spec

(* The tag of a release leads to a commit of main whose own manifest lists  *)
(* exactly the images that the release holds.                               *)
TagHoldsRelease ==
    \A v \in Version : github[v].state = "published" =>
        \A p \in Profile : \E e \in main[github[v].target].entries :
            e.version = v /\ e.profile = p /\ e.artifact = github[v].assets[p]

(* What the flasher takes for the latest release, by the site's own rule    *)
(* for versions, is the one that was recorded last.                         *)
LatestIsNewest ==
    \A place \in {site, mirror} \ {0} :
        \A latest \in Latest(Catalog(main[place].entries)), e \in main[place].entries :
            Descriptor(e) = latest => \A f \in main[place].entries : f.source <= e.source

(* Neither site serves an image that the deployed quarantine list names.    *)
NothingQuarantined ==
    \A place \in {site, mirror} \ {0} :
        \A e \in main[place].entries : Image(e) \notin main[place].quarantine

(* Every release that main lists is published in the end, however often     *)
(* jobs stopped, if people go on to dispatch the workflow; unless an image  *)
(* is lost, the manifest is refused, or the release or its draft on GitHub  *)
(* holds something else or a broken upload, which only people can mend.     *)
Blocked ==
    LET c == main[Tip]
    IN  \/ \E v \in VersionsOf(c.entries) : github[v].state # "none" /\
              \/ github[v].notes # ArtifactOf(c.entries, v)
              \/ \E p \in Profile :
                    github[v].assets[p] \notin {Absent, ArtifactOf(c.entries, v)}
        \/ ~Materializes(c.entries)
        \/ ~SiteAssembles(c.entries, c.quarantine)

AllPublished ==
    \A v \in VersionsOf(main[Tip].entries) : github[v].state = "published"

ReleaseResumes == []<><<Dispatch>>_vars => []<>(AllPublished \/ Blocked)
=============================================================================
