# FrogAlert: TLA+ models, model checking and proofs

FrogAlert is firmware for a FOSSASIA LED badge (CH582) that counts nearby
Bluetooth advertisers, alerts on some of them and still works as a BadgeMagic
badge; a web flasher and a release pipeline bring it to users. This directory
specifies the parts in which something can happen in the wrong order: the
firmware's shared radio, clock and buttons, the page that programs a badge, and
the workflows that publish what the page programs.

## 1. Inventory

| Component | Source | State | Operations | Model |
|---|---|---|---|---|
| Survey reducer | `crates/frogalert-core/src/runtime.rs`, `scan.rs` | phase with deadline, address table, published count, alert, last frame, next wake, shutdown watchdog | `Runtime::step` with ten events | `SurveyRuntime`, `SurveyReducer` |
| SDK adapter | `firmware/fossasia-usbc/frogalert-survey.c`, `crates/frogalert-ffi/src/lib.rs` | one TMOS wake (armed, retry, time) | `dispatch`, `central_event`, `survey_task`, the API of the hooks | `Badge` |
| Mode controller | `scripts/apply-fossasia-survey.mjs` (patches FOSSASIA's `main.c`, `peripheral.c`, `power.c`, `legacyctrl.c`) | mode, streaming, pending shutdown, connection handle | button, mode setups, link callbacks, upload completion, `FROGALERT_ENTER_SHUTDOWN` | `Badge`, `RadioArbiter` |
| Upload receiver | `transfer.rs`, `legacy_ble_rx` in the hooks | bytes received and announced, heap buffer, flash | accept a packet, store, reset | `Upload`, `UploadStore` |
| Wake qualification | `power.rs`, power hooks | marker in a reset-proof register, debounce counters | `Wake::sample`, early boot, `frogalert_reset_off`, `poweroff` | `Wake` |
| Detection, configuration, parsing | `config.rs`, `advertisement.rs`, `lib.rs` | none (a 384-byte block, read once) | `classify`, `parse` | parameters |
| Rendering, boot cards, battery | `render.rs`, `boot.rs`, `display.rs` | none | frames | by name |
| Display overlay | the hooks | double buffer, index, owner; read by the refresh interrupt | present, release, relinquish; who animates the panel | `Display`, `SurveyPictures` |
| Flashing session | `site/flash-session.js`, `wchisp-protocol.js` | the step of the session, the transfer under way, the badge's flash | configuration reset and readback, erase, program, verify, reset | `FlashSession`, `AbstractFlash` |
| Flasher page | `site/app.js` | adopted USB device and its identification, wizard, flashing, exclusive lock | detect, connect, disconnect, choose a button, flash | `FlasherPage` |
| Artifact slot | `site/app.js`, `flasher-state.js`, `firmware-config.js` | the image that is armed, its generation, base and options, the board record, the catalog and its verified bytes | local, release, lab and recovery loads, options, board record | `ArtifactSlot`, `FirmwareConfig`, `ReleaseCatalog` |
| Release pipeline | `.github/workflows/ci.yml`, `pages.yml`, `scripts/record-firmware-release.mjs`, `materialize-...`, `firmware-publication.mjs`, `firmware-release-plan.mjs`, `publish-github-releases.mjs`, `assemble-site.mjs`, `cloudflare/mirror-native.mjs` | main, CI artifacts, GitHub releases with their assets, two sites | test, build a candidate, record, push, publish, deploy | `ReleasePipeline`, `ReleaseManifest`, `ReleaseCatalog`, `AbstractReleases` |
| Build and audit scripts, emulator, probe, quarantined firmware, vendored HAL | `scripts/`, `tools/`, `firmware/` | none over time | | out of scope |

How they interact. TMOS, the vendor's cooperative scheduler, runs one handler
at a time. A handler of the adapter builds `inputs()` from the mode controller
and the radio, calls `Runtime::step`, and then executes the returned commands
as SDK calls; an SDK call may call back into the adapter before it returns, so
`dispatch` nests. The mode controller calls `suspend`, `prepare_shutdown`,
`cancel_shutdown` and `view_changed` of the same adapter and uses the returned
"radio idle" to decide whether it may advertise or power off. The radio
answers later and, sometimes, never. The interrupt of the display comes between
any two statements of a handler; it writes none of this state, but it reads the
picture that a handler is just exchanging. A badge that is
switched off leaves all this: only a marker in a retained byte is left, and the
next reset asks the wake qualifier first.

The page is one event loop. A handler runs to its next `await`; what it had read
before may be different after. A click on a button loads the image into the
slot, takes the lock that other tabs respect, and runs the session; the session
talks to the badge by one transfer at a time, each of which may be refused,
never be answered, or be answered after the page gave it up. What the slot may
hold comes from the catalog that the release pipeline published.

The pipeline is a chain of workflow jobs with GitHub between them: main moves by
people's pushes and by the pipeline's own commit, one publication runs and at
most one waits, and a job that stopped can be run again much later.

What is hard, and what makes each part correct:

* **Reducer.** Events come in any order: reports after a cancel, a completion
  after the watchdog, a Ready that is taken back, a Resume in the middle of a
  handoff. Correct: addresses do not outlive their window, the published count
  is that of one whole window, power-off only drains, the highest priority
  wins, the display follows the state, no deadline is slept through.
* **Clock.** 32 bits, wrapping; a wake may be late or stale.
* **Adapter.** Re-entrance, failed timer allocation, unreadable radio state.
  Correct: the wake of the newest result is the one on its way.
* **Mode controller.** Correct: discovery never overlaps advertising; the
  badge powers off only with an idle radio, and always eventually; advertising
  comes back when it should and stays off when it should.
* **Display overlay.** Streams, modes, uploads and the end of a link take the
  panel from the overlay behind the reducer's back, and the reducer presents
  changed frames only. Correct: no torn picture, the reducer is right about what
  it shows, somebody always draws, and nobody does on a badge that is off.
* **Upload receiver.** Correct: no copy past the buffer, no leak, nothing but
  whole uploads stored.
* **Wake.** Buttons bounce, stick and overlap; resets come at any time. Correct:
  off stays off until the owner asks for more, KEY2 always reaches the
  bootloader, and the qualifier comes to a decision.
* **Session and page.** The cable is pulled, a packet outlives its timeout, the
  tab is reloaded, two badges are exchanged. Correct: only the badge of the
  click changes, not before its configuration is safe, not after the page is
  idle; success is the truth; the page never stays locked.
* **Artifact slot.** Loads overtake each other while the board is entered again.
  Correct: what is armed was prepared for this board, is not quarantined, is
  what the form shows, and does not move under a flash.
* **Release pipeline.** Stops between any two requests, partial uploads, re-runs
  of old jobs, a main that moves, images that are withdrawn, artifacts that
  expire. Correct: a release appears whole and is never changed, its tag leads
  to the manifest that lists it, the sites offer released images only, and what
  stopped is completed by a later run.

`PROJECT.json` lists every hazard at its line with the properties that cover
it.

## 2. Modules

```
SurveyClock          the wrapping clock, due(), earlier()
  SurveyRuntime      Runtime::step as a pure operator
    SurveyRuntimeProofs  (its lemmas, used by both of the following)
    SurveyReducer    the reducer under an arbitrary environment
      MCSurveyReducer
      SurveyReducerProofs
    Badge            reducer + adapter + mode controller + radio
      (INSTANCE RadioArbiter, the abstract promise about the radio)
      MCBadge
      BadgeProofs
SurveyPictures       what a display may expect of the reducer
  (an INSTANCE of it in SurveyReducer shows that the reducer keeps it)
  Display            overlay, animations and interrupt, with that reducer
    MCDisplay
Upload               Transfer + legacy_ble_rx
  (INSTANCE UploadStore, the abstract promise about storage)
  MCUpload
HooksProofs          the proofs of Display and of Upload
Wake                 marker, shutdown, wake qualifier, early boot
  WakeProofs
FlashSession         one session, the wire and the bootloader
  FlasherPage        the page around it
    (INSTANCE AbstractFlash, what the owner of a badge is promised)
    MCFlasher
    FlasherPageProofs
FirmwareConfig       the configuration block inside an image
ReleaseCatalog       versions, descriptors and pairs, as the site reads them
  ArtifactSlot       (with FirmwareConfig) the image held ready
    MCArtifactSlot
    ArtifactSlotProofs
  ReleaseManifest    the manifest, as the scripts check and extend it
    ReleasePipeline  CI, publication, GitHub, two sites
      (INSTANCE AbstractReleases, what whoever downloads is promised)
      MCRelease
      ReleasePipelineProofs
```

**SurveyClock.** `W` stands for 2^32. `Due` is true for half a turn after a
deadline, as the comparison with 0x8000_0000 is.

**SurveyRuntime.** `Step(self, now, in, ev)` is `Runtime::step`. A step is a
pipeline over `m = [self, out]`; one operator per event (`OnReady`, ...,
`OnView`), then the early return of ordinary reports (`FastPath`), the shutdown
watchdog (`ResetOff`), the phase deadlines of a tick (`TickPhase`), the
permission guard (`Guard`) and the picture and next wake (`Render`). The order
of these stages, and every early return, is that of the code. Data are
abstract: a typed address is a member of `Address`, what `Config::classify`
answers a member of `Detection`, a frame the tuple of what it shows. `Priority`
and `PageCount` are arbitrary functions on `Detection`.

**SurveyReducer.** State: the clock, the runtime, the latest output, and two
observers: `heard`, the reports accepted in the running window, and `screen`,
what the adapter has on the display. One action per event, `Advance` for time,
`Reboot` after `reset_off`. The environment is the whole FFI: any event with
any inputs at any time, which includes everything a board can do. `MaxLag` is
how late a wake may be served. A third observer, `turned`, is set when the clock
comes round to the start of the dance: from then on the code, which only reads
the distance, takes the dance for one that has just begun.

**Badge.** `todo` is what the running handler has still to do: nested
dispatches put their commands in front, exactly as C's call stack would. SDK
callbacks run between two handlers or inside `Ready`, `StartResult` and
`CancelResult` points, where a handler is in an SDK call. `timer` holds the
adapter's three variables, TMOS's own timer and the event bit, which are
different things: a moved timer does not take back an event already set. The
radio is the controller: advertising (which stops a little after it is told
to), at most one link, discovery.

**RadioArbiter** is what `Badge` implements: a discovery runs alone, a peer
connects only to an advertising badge, power goes off with nothing in use, and
the only other exit is a reset.

**SurveyPictures** is the reducer as far as a picture depends on it: `Answers`
relates the state before a step, the inputs, the event, the state after it and
the output. Clock, table and deadlines are left out, and with them which alert
is heard and when it ends. The invariant `AnswersThePanel` of `SurveyReducer`
says that `Step` is one of these answers.

**Display.** `todo` is what the running handler has still to do, in the order of
its statements, as far as they concern the panel. `call` is how far a `dispatch`
is with it: the release and the animation it restarts, or the presentation,
which is one step per column, one for the index and one for the owner. `Refresh`
is the interrupt: enabled between any two of these steps, it reads index, owner
and one pair of columns without a pause, as interrupt handlers do. At `sdk`, the
commands of the dispatch, callbacks may dispatch again. `tasks` holds FOSSASIA's
animations, of which the model keeps what the hooks rely on: to start one sets
its timer and stops the others, a step that is due draws and sets its timer
again, and a timer that is stopped does not take back the event it has set. A
step that finds the overlay in its place ends there; that is the reason why the
overlay, when it goes, has to start the animation. `panel` is what the LEDs
show: a whole picture is compared column by column, never pixel by pixel.
`Badge` has the same handlers with their radio side; the two share the mode, the
stream and the link, which move alike in both, and neither reads what only the
other has.

**Upload.** A packet is a start packet, a truncated packet, or data, named by
the columns it announces if it comes second. **UploadStore** is what it
implements: an upload is stored as a whole or not at all, as one run of
consecutive packets. Finishing an upload calls `handle_after_rx`, which is the
action `UploadDone` of `Badge`; the two share no state, so they are not
composed further.

**Wake.** One module for the firmware's two halves of going dark: `poweroff` in
the patched `power.c` (wait for the buttons, mark, arm, shut down) and the
early-boot loop around `Wake::sample`. `keys` are the contacts, which move
freely; `seen` is history, counted from the contacts themselves and not from the
qualifier's counters, so that the properties do not take the code's word.

**FlashSession** and **FlasherPage.** `session` is the position in
`programAndVerifyFirmware`, `wire` the one transfer that `usbTransfer` has under
way, which the badge may execute (`BadgeExecutes`) whether or not the page still
waits. The bootloader is external: it may ignore a reset of its configuration or
an erase, program wrong bytes and reject a key, which is what the page's checks
are for. `closing` splits `closeUsb` at its awaits for each of its four callers.
`info` stands for the objects `state.chip` and `state.config`, compared by
identity: a fresh name for each identification. Load and lock are one await
(`choice.at = "loading"`), the wake lock another, after which the capture is
checked last. **AbstractFlash** is the promise: an order for a badge is the only
thing under which that badge changes, and success means it holds the image.

**ArtifactSlot.** Every handler that fills the slot takes a generation, clears
what it must and adds a member to `loads`; `Settle` ends one, in any order, as
`setFirmware` does: thrown before the generation is looked at (`Plausible`),
overtaken, thrown after (`ThrowsLate`), or landed. Two loads of one release
share its pending bytes. Most of these handlers sit in containers that the
shipped pages hide, but they are bound, and they share the slot with the two
buttons that are shown. The flash itself is a flag here; `FlasherPage` has it.

**FirmwareConfig**, **ReleaseCatalog** and **ReleaseManifest** are pure
operators. Blocks, images and hashes are compared whole: a checksum is the
content it was computed over.

**ReleasePipeline.** A commit is what the pipeline reads of it. `job` is the one
publication that runs, `waiting` the one that waits (GitHub replaces it by a
newer one), `halted` the job people may run again, from its start and with what
earlier jobs handed to it. An action is one step that leaves the runner: a
request to GitHub, a push, a deployment; what happens inside the runner before
it is part of it. The job `prepare` is one action up to its push, because only
main can change what it reads, and the push compares main again.
**AbstractReleases**: a release appears whole, never changes, and sites offer
released images only.

Operators whose comment starts with "Mutant" are wrong variants of the
operator they precede. They are used by nothing; they record which bug each
property would find (`mutants` in `PROJECT.json`).

## 3. What TLC checks

| Run | States | Shows |
|---|---|---|
| `SurveyLifecycle` | 3 193 (1.3 M transitions) | privacy wipe, counting, only a valid completion publishes, draining for shutdown, no deadline slept through |
| `SurveyPicture` | 21 636 | the right alert; each page and each pose on the display in its own time only, but for the lateness of a wake, in both builds of the view; every event answered as `SurveyPictures` says |
| `BadgeSafety` | 723 508 | `Badge` implements `RadioArbiter`, the wake is never lost, with all failures |
| `BadgeLiveness` | 51 125 | advertising comes back; surveys recur; a power-off arrives or is withdrawn |
| `Display` | about 185 000 | no torn picture, the reducer knows what is shown, somebody draws, streams and download mode have the panel to themselves, off is dark |
| `Upload` | 39 001 | no overrun, no leak, only whole uploads stored |
| `Wake` | 160 620 | off until asked; the recovery hold of KEY2 enters the bootloader; a decision is reached |
| `Flasher` | 624 906 | the page implements `AbstractFlash`; no erase before the readback, nothing lands later, a flash ends |
| `ArtifactSlot` | 182 284 | the armed image is for this board, not quarantined, as shown, and does not move |
| `Release` | 301 237 | the pipeline implements `AbstractReleases`; tags, order of versions, withdrawals; a stopped publication is completed |

Two runs each refute one statement that the repository makes about itself.

* `SurveyLateWake`: a cancel retry that is overdue when another event arrives
  is not "earlier" than the shutdown deadline, because the comparison wraps; the
  badge then sleeps until the 30-second reset instead of retrying every ten
  seconds (`docs/ARCHITECTURE.md:79`). Safety is unaffected. Without a late
  wake `WakeCoversDeadlines` holds.
* `BadgeAlwaysOn`: with always-on BLE the system button powers the badge off,
  where the comment says it returns to normal mode.

### Bounds, and why they are enough

* **Time.** One model tick is a quarter second or more; the delays keep the
  order of the real ones (QUIET < scan < WATCHDOG < RETRY < FIRST < NEXT_SCAN <
  SHUTDOWN_LIMIT; `SurveyPicture` and `BadgeLiveness` merge a few neighbours).
  `W` exceeds twice the longest delay, as 2^32 does. The reducer runs start one
  `FIRST` before the wrap, so deadlines are set before it and met after it.
* **VIEW.** The code reads the clock only through differences. `TimeView`
  replaces every time by its distance from `now` and drops times nothing will
  read; two states with the same view have the same successors up to the same
  shift, so checking one of them is enough. This is a bisimulation, and all
  properties depend on the view alone, so it is sound for the temporal
  properties too. The dance repeats after two poses, and `W` is a multiple of
  that in the run, so that after the first two the view keeps its age modulo two
  poses. 2^32 ticks are no such multiple: in a dance that goes on over the wrap
  of the clock, once in 31 days, one pose is cut short and its mirror image
  shown in the wrong half. `PoseOnTime` says so, and `PosesKeepTime` proves it
  for every `W`, also where a late wake falls together with the wrap.
  `PictureView` leaves out two things more: of the latest output all but whether
  it was a reset, since no later step and no property of that run reads the rest
  (what it put on the display is in `screen`), and of what was heard all but the
  matches.
* **Addresses, capacity.** Three addresses and two slots: empty, partial, full
  and overflowing tables. The detections of `SurveyPicture` are one of two
  pages and the dance, which outranks it.
* **Inputs.** `LifecycleInputs` is every combination of board inputs except
  the selected view, which only the picture reads; `PictureInputs` are the four
  the picture distinguishes. `STRIDE = 1`: time passes tick by tick.
* **Badge.** One connection at a time (the role's own limit), at most two link
  events waiting, a device list cut to one entry. A button press takes longer
  than TMOS needs for the events already set, so there is one press per tick.
* **Display.** Two pairs of columns, so that the interrupt can come inside a
  picture and between two of them; two frames, so that one can be replaced by
  another; both settings of always-on BLE. `DisplayView` leaves out what nothing
  can see: in which of the buffers a picture is, what is left in a buffer that
  is written from its first column before it is read again, and, of the panel,
  everything but which columns are lit. The code does not tell frames apart, so
  they are symmetric; no property is temporal. How many states TLC counts
  depends a little on which one of a class it meets first. There is one power
  cycle: after `reset_off` or `poweroff` everything starts from the initial
  state.
* **Upload.** A header of three packets; announced lengths that end with a
  packet, inside one, and beyond the flash.
* **Wake.** Nothing is scaled: the samples are the code's own (5, 3, 110, 15),
  saturating at 255. A power cycle leaves any marker.
* **Flasher.** Two badges, one plugged in at a time (`Ports`), two sessions per
  history (`MaxSessions`): a packet of the first may land in the second. The
  larger image has two sectors of two units in chunks of three, so that chunks
  straddle sectors and the last one is short. `getDevices()` answers before a
  badge that was plugged in since has been identified; the browser refuses to
  open a device that it is closing. The session's unique id and key are one
  checksum that is right or wrong.
* **ArtifactSlot.** One release for each of two profiles, a lab image, a
  developer's file and a quarantined one, markings that name one board or both,
  a manifest whose pair is incomplete, options that are refused. Four
  preparations per history (`MaxGeneration`): one in force, one overtaken, one
  overtaking, and one to spare. The
  manifest is fetched once per page. `PageView` leaves out a preparation that
  was overtaken, applies no options and has no button waiting for it: all it can
  still do is end, which changes nothing else. `CHECK_DEADLOCK` is off: after the last
  preparation the page may have nothing left to do.
* **Release.** One push by people, two candidates, one stop with one re-run, an
  image that may be withdrawn; a CI run that would build a third candidate
  fails, and like every failed one displaces the publication run that waits
  (`pages.yml:3-13`). Dispatches come when no job runs and their CI ends at once. Artifacts
  expire oldest first and when nothing runs, as days are to minutes. Assets are
  uploaded in one order and stand for the several files of a profile; every
  build has bytes of its own; an asset that GitHub keeps of a broken upload is
  `Partial`. The versions are the ninth and the tenth beta, whose text is in the
  other order. Initially a legacy release is published and the next version is
  just pushed.

`CHECK_DEADLOCK` is on in every run but `ArtifactSlot`.

### Fairness

`FairSpec` of `Badge` assumes weak fairness of TMOS (`RunTodo \/ Handlers`: a
handler runs to its end and pending events are served), of the radio coming up,
of advertising stopping and of a terminated link ending, and strong fairness of
the clock, which the model stops while handlers run and the hardware does not.
It assumes neither that a controller answers a cancel nor that a peer leaves.
`PowerOffArrives` needs no more: that is the point of the watchdog.
In `BadgeLiveness` the role always starts. With `RolesMayFail` surveys need not
recur: if the role was refused, a power-off was requested and handed off, and a
button withdraws it before TMOS has served that event, `Event::Resume` finds the
phase `Stopped` and no role, and sets no wake (`runtime.rs:256`). The survey then
rests until a late role callback or a reset. No document says otherwise, so no
run states it; `PROJECT.json` lists it as a hazard without a property.
`SurveyRecurs` additionally assumes, in the property itself, that discoveries
end; it excuses a badge whose survey is forbidden, connected or off, and one
whose controller is still advertising when the 250 ms of quiet are over.

`Wake` assumes weak fairness of the processor. `WakeDecides` supposes in the
property that resets end, that the firmware is not restarted by contacts any
more, and that KEY1 is not stuck; a stuck KEY2 is covered, by the bootloader.

`FlasherPage` assumes weak fairness of the page's own steps of a flash: a
settled promise is served and a timeout passes. Nothing is assumed of the badge,
of the browser's answers or of the person. `FlashEnds` therefore rests on the
timeouts alone.

`ReleasePipeline` assumes weak fairness of the steps of a running job.
`ReleaseResumes` supposes that people go on dispatching the workflow, and
excuses what no run can mend: a refused manifest, lost bytes, a draft or an
asset on GitHub that holds something else.

## 4. What is proved

TLAPS proves the theorems below for every value of the constants that satisfies
the named assumptions, TLC having found each property true on a small instance
first. Every safety invariant, every action property and every refinement that
the passing runs check is proved.
The type invariants of `SurveyReducer`, `Upload`, `Wake`, `Display` and
`ReleasePipeline` are proved and need no run; in the other two modules the type
invariant also relates variables, and a run checks it.

| Module | Theorems | Property |
|---|---|---|
| `SurveyReducerProofs` | `TypeCorrect` | `TypeOK` |
| | `AddressesAreWiped` | `WipedOutsideScan` |
| | `CounterMatchesWindow`, `CountsOneWindow` | `CounterIsWindow`, `CountIsOfOneWindow` |
| | `StrongestAlertWins` | `HighestPriorityWins` |
| | `ScreenIsRemembered`, `PagesKeepTime`, `PosesKeepTime` | `ScreenIsLastFrame`, `PageOnTime`, `PoseOnTime` |
| | `ReducerAnswersThePanel` | `AnswersThePanel` |
| | `ShutdownDrains` | `ShutdownOnlyDrains` |
| | `NoDeadlineSleptThrough` | `WakeCoversDeadlines`, if `MaxLag = 0` |
| `BadgeProofs` | `Invariance` | the inductive invariant |
| | `WakeComes` | `WakeIsOnItsWay` |
| | `AdvertisingReturns` | `AdvertisingComesBack`, if `~ReadsMayFail` |
| | `ArbiterHolds` | `Badge` implements `RadioArbiter` |
| `WakeProofs` | `WakeTypeCorrect`, `KEY2Recovers`, `StaysOffUntilAsked` | `TypeOK`, `RecoveryWins`, `OffUntilAsked` |
| `HooksProofs` | `DisplayTypeCorrect`, `NoTornPicture` | `DisplayTypeOK`, `OverlayIsWhole` |
| | `ReducerKnowsThePicture` | `OverlayIsLastFrame` |
| | `SomebodyDraws`, `OffIsDark` | `NeverFrozen`, `ScreenOffIsDark` |
| | `UploadTypeCorrect`, `EveryCopyFits`, `BufferLivesWithTransfer` | `TypeOK`, `CopyFits`, `BufferIsReleased` |
| | `ImplementsUploadStore` | `Upload` implements `UploadStore` |
| `FlasherPageProofs` | `PageTypeCorrect`, `ErasedAfterReadback`, `IdlePageIsSilent` | `TypeOK`, `EraseAfterReadback`, `NothingLandsLater` |
| | `ImplementsAbstractFlash` | `FlasherPage` implements `AbstractFlash` |
| `ArtifactSlotProofs` | `WhatIsWrittenIsRead`, `PatchedSaysIt` | what `Encode`, `Decode` and `Patch` of `FirmwareConfig` do |
| | `SlotTypeCorrect`, `SlotFitsTheBoard`, `SlotHoldsNothingQuarantined`, `WhatIsArmedIsShown`, `FlashHoldsItsImage` | `TypeOK`, `PreparedForThisBoard`, `NeverQuarantined`, `ArmedIsShown`, `NothingMovesWhileFlashing` |
| `ReleasePipelineProofs` | `PipelineTypeCorrect`, `TagsHoldReleases`, `SitesHoldNothingQuarantined`, `LatestWasRecordedLast` | `TypeOK`, `TagHoldsRelease`, `NothingQuarantined`, `LatestIsNewest` |
| | `ReleasesAreAsPromised` | `ReleasePipeline` implements `AbstractReleases` |

### Along which argument

**Reducer.** A step is a pipeline over `m = [self, out]`, and so is each proof:
a predicate on `m`, one lemma for each stage, one lemma that composes them.
`SurveyRuntimeProofs` does this for the types (`Sound`: `m` has its type, and its
table is empty unless it scans; `StepSound`), and both `SurveyReducer` and
`Badge` build on it. `SurveyReducerProofs` adds `Gathered` (what a scan has
heard survives a stage, or the scan is over), `Drains` (under a shutdown no
stage puts the radio to work) and `Near` (every deadline lies less than half a
turn ahead). The wipe is not inductive without the types. `CounterIsWindow` is
not without `WindowInv`: the observer is empty outside a scan and a table that
overflowed is full of addresses of its own window. `WakeCoversDeadlines` needs
`Watched`: the wake is no later than the earliest deadline *by the wrapping
comparison*, which is only transitive among times within half a turn of each
other; `Near` provides that. It also needs `MaxLag = 0`, and must: the run
`SurveyLateWake` shows what a late wake does. `PageOnTime` has its own lateness,
any `MaxLag`, in the bound. So has `PoseOnTime`, which says nothing of how the
pose came to the display and is not inductive; `PoseKept` is. It remembers that
the pose was `Drawn` at some time since: it is the one of that time, the wake is
no later than its end, and the clock is past the wake by no more than `MaxLag`.
If its half second lay before the end of the clock's turn and the present does
not, the clock has `turned`.

`CountIsOfOneWindow` and `AnswersThePanel` speak of the step that would come
next, for every event and all inputs. The first follows from `WindowInv` and from
`Survey`, which says of a step that its count is that of the table if the event
is a valid completion of a running scan, and else the old one. The second follows
from the types in `Inv`, by the pipeline again. The stages before `Render` are shown to prepare
it (`Prepared`: what the event may have made of alert, scan and picture;
`StagesPrepare`), and `PictureIsAsked` says when `Render` has a picture.

**Badge.** The difficulty is that a callback may run inside any SDK call, so the
items in `todo` wait for an unknown time. `Inv` states what keeps an item right
until its turn. `ItemOk` of each: an event or a result that calls the controller
idle is still true, because only one command starts a discovery, and that
command waits for nothing. `PairOk` of neighbours: `advertise_if_idle` follows
the dispatch or the return it waits for. `HeadOk` of the first: `start_scan` has
a silent radio, and nothing but its own return behind it. Three more parts
concern the rest: `RadioOk`, while the controller discovers the reducer's phase
says so, and when a completion is on its way the phase does or its deadline
cannot fall before it; `OffOk`, a handoff that finds `pending` has a silent
radio, or a button overtook it and has not been let go; `WakeOk`, an armed wake
is in TMOS or its event is set. For the reducer the proof needs no step of its
own but only a summary (`StepMoves`): a step stays where it is without a
command, cancels, starts a scan on inputs read from a silent radio, or comes to
rest with a fresh deadline and the few commands of `RestingCalls`. One lemma for
each action then shows `Inv'`; another for each maps its step to `RadioArbiter`.

`AdvertisingComesBack` says what holds at rest; `AdvInv`, kept beside `Inv`,
says why it will. Its part `Sought`: a badge that wants to be found and has no
link advertises and is not about to stop; or an item still to do switches it on
(`Promised`: an `advertise`, or an idle result with its `advertise_if_idle`); or
the result just returned lets the next item do so (`AdvertisesNext`); or the
reducer `Owes` it, in a window with `restore_advertising` or `advertise_after`
set. That debt is only worth something if the reducer will be able to pay it,
which is `RoleOk`: what the reducer, the radio's role and the mode controller
know of each other (under a shutdown the badge powers off or a resume is next;
in a window the role is up; the last link event tells the connection). `NotYet`
says that nothing is due before the start event. For the reducer the summary is
`StepPays`: a step that no longer owes has advertised. `~ReadsMayFail` is
needed: with a role state that cannot be read, TLC finds a badge that rests
without advertising until its next window.

**Wake.** `seen` counts the samples themselves; `CountsSamples` says what the
counters of `Wake::sample` mean in terms of it. `RecoveryWins` is part of the
invariant: before the decision it holds because the count of `CountsSamples` is
short of the recovery time, and the sample that completes it can only answer
`Isp`.

**Display.** Every property but the type and `OverlayIsWhole` speaks of a badge between two
handlers; in the middle of one, none of them need hold. `PanelInv` says instead
what the rest of the handler will do about it, in terms of what `todo` still
comes to (`Comes`) and what nothing after it undoes (`EndsIn`). `Drawn` is the
presentation under way: the columns before `x` are written, to the buffer that
is not shown. `Told`: while the survey may draw, reducer, adapter and overlay
agree, or a view change or a stream is still to come. `Yielded`: an overlay
without the permission is going to be relinquished, and a stream begins only
right after that. `Animated`: the animation of the mode goes on, or is still to
be started and not stopped after, or the overlay has the panel or is about to.
`Darkened`: a badge that is off has its timer stopped before its LEDs are
released, or will have. One lemma for each statement shows that `PanelInv`
survives it. A handler is then no more than a list of statements: `GoodPlan`
says which lists keep `PanelInv` when the handler begins, and each handler's
list is shown to be one. Of the reducer the proof uses `Answers` alone, which
`ReducerAnswersThePanel` proves of `Step`.

**Upload.** `Counted` says that `received` is the length of the buffer and
`total` what its second packet announced.

**FlasherPage.** `PageInv` says who holds the page; `SessionInv`, that the
session serves the click and the command on the wire is its step; `AcceptedInv`,
that after the readback the badge's configuration is accepted; `ComparedInv`,
that the units below the verified index hold the image.

**ArtifactSlot.** A load under way is sound for what was current when it began
and, if its generation is still the current one, for what is current now; that
is all `Settle` needs. The theorems on `FirmwareConfig` are what makes "the
options in the image are those of the form" true after patching.

**ReleasePipeline.** The invariant says where each entry of each commit comes
from, that a later commit keeps the entries of an earlier one, what the running
and the halted job know of the commit they publish, and which releases they have
reconciled. `LatestIsNewest` needs that the two orders of versions, the script's
and the site's, agree on versions that parse.

### Assumptions

The assumptions on constants are named where the constants are declared, and TLC
evaluates each of them in a run. They say: the clock has an even width; delays
are positive and less than half a turn (`TurnAssumption`: the longest is 15
minutes, half a turn is 15 days), and the lateness of a wake leaves
room for them in a turn (`LagAssumption`); addresses and profiles are finite;
counters of samples are positive and in order; a packet is no shorter than a
byte and a header is whole packets; the panel has whole pairs of columns; versions parse as `VERSION_PATTERN` has them; a canonical text is its
own canonical form; the value that marks an absence is not a member of the set
it marks the absence from. None of them bounds the number of badges, images,
packets, columns, pictures, addresses, versions, pushes, stops or re-runs. Which
calls may fail is arbitrary in `Badge`: the theorems cover every combination.

### What is only model-checked

* Liveness under fairness is out of the prover's reach: `SurveyRecurs`,
  `PowerOffArrives`, `WakeDecides`, `FlashEnds`, `ReleaseResumes`. `BadgeLiveness`
  checks the first two with radio states that can be read: the controller may
  ignore a cancel or lose its completion, but `GAPRole_GetParameter` succeeds.
* The two statements that runs refute (`CancelRetriesOnTime`,
  `AlwaysOnReturnsToNormal`).

## 5. What is not modelled

* Bytes: advertisement parsing, configuration offsets, CRCs, fonts, pixels,
  USB packets, ZIP and ELF files. Hashes are taken to be free of collisions.
* The brightness key and its PWM; boot cards, the splash and the charging
  display; what FOSSASIA's animations draw,
  and the scrolling and flashing tasks that accompany one.
* `reset_rx` (an upload that resets the badge), extra connections beyond one,
  a scheduler that cannot register the task, the individual scan settings.
* The timestamp check of an upload.
* Of the flasher: reading a badge over Bluetooth, the guides to ISP and to
  application mode, rendering. Another tab is seen only as the lock it holds.
* Of the release pipeline: how a candidate is built and audited, attestations,
  release notes and the other metadata of a release, the file layout of bundles.
  An old `deploy` job that is run again may put an older site back: nothing in
  the workflow prevents it, and no property forbids it. The older site still
  offers released images only.
* A reset in the at most 300 ms in which a badge waits for its buttons, before
  the marker is set for the first time, starts the application. `OffUntilAsked`
  speaks of a badge whose marker is set.
* Build, audit and patch scripts, the emulator and the probe: straight-line file
  work with no state over time.

## 6. Plan

Done: all modules of section 2, their runs, and the theorems of section 4.

What could follow: the timestamp check of an upload, reading a badge over
Bluetooth, and a composition of `Badge` and `Display` in one state.
