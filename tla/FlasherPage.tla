----------------------------- MODULE FlasherPage -----------------------------
(***************************************************************************)
(* The flashing page of the site: the wizard, the connection to a badge in *)
(* ISP mode and the button that starts a FlashSession.  JavaScript runs    *)
(* each piece of a handler up to its next await without interruption; the  *)
(* pieces are the actions here, and whatever other event may come first    *)
(* between two of them.  Badges are plugged in and unplugged, and the tab  *)
(* is closed or reloaded, at any time.                                     *)
(***************************************************************************)
EXTENDS FlashSession, FiniteSets

CONSTANTS
    Info,        \* names for the identifications of a badge, fresh each time
    Ports,       \* bound: how many badges are plugged in at a time
    MaxSessions  \* bound: how many sessions are started

Caller == {"user", "unplug", "connect", "flash"}
Idle == "idle"      \* a caller that is not closing anything

ASSUME FlasherPageAssumption ==
    /\ None \notin Info /\ None \notin Steps \cup {"done"}
    /\ Idle \notin Badge \cup {None}
    /\ IsFiniteSet(Info) /\ Cardinality(Info) > 2
    /\ Ports \in Nat \ {0} /\ MaxSessions \in Nat

VARIABLES
    catalog,     \* the release pair: "loading", "ready" or "failed"
    detecting,   \* detectAuthorizedUsb() awaits getDevices()
    request,     \* connectUsb(): where it stands, its badge, automatic or not
    info,        \* state.chip and state.config: one identification, or None
    choice,      \* chooseIspButtonAndFlash(): where it stands, what it captured
    flashing,    \* state.flashing
    closing,     \* closeUsb(): for each caller, the badge it is closing
    wizard,      \* the step the wizard shows
    sessions     \* how many sessions were started

pageVars == <<catalog, detecting, request, info, choice, flashing, closing,
              wizard>>
vars == <<sessionVars, pageVars, sessions>>

NoRequest == [at |-> "none", badge |-> None, automatic |-> FALSE]
NoChoice == [at |-> "none", badge |-> None, info |-> None, image |-> None]

Init ==
    /\ session = NoSession /\ wire = NoTransfer /\ device = None
    /\ catalog = "loading" /\ detecting = FALSE
    /\ request = NoRequest /\ info = None /\ choice = NoChoice
    /\ flashing = FALSE
    /\ closing = [c \in Caller |-> Idle]
    /\ wizard = "connect" /\ sessions = 0
    /\ attached = {}
    /\ flash = [b \in Badge |-> [u \in Unit |-> Other]]
    /\ config = [b \in Badge |-> "foreign"]

badgeVars == <<attached, flash, config>>

-----------------------------------------------------------------------------
(* setWizardStep(): the success step stays until the page is reloaded.     *)
Show(step) == wizard' = IF wizard = "success" THEN wizard ELSE step

(* Mutant: the configuration that was read is kept. *)
CloseUsbKeepsInfo(caller) ==
    /\ closing' = [closing EXCEPT ![caller] = device]
    /\ device' = None
    /\ UNCHANGED info

(* The synchronous part of closeUsb(), which forgets the badge at once. *)
CloseUsb(caller) ==
    /\ closing' = [closing EXCEPT ![caller] = device]
    /\ device' = None
    /\ info' = None

(* The rest of it: the handle is closed and what was under way is dropped. *)
Closed(caller) ==
    /\ closing[caller] # Idle
    /\ closing' = [closing EXCEPT ![caller] = Idle]
    /\ wire' = IF closing[caller] = session.badge \/ wire.at = "lost"
               THEN NoTransfer ELSE wire
    /\ UNCHANGED <<device, info, attached, flash, config>>

-----------------------------------------------------------------------------
(* The release pair, and looking for a badge the browser already knows.    *)

(* fetchReleaseManifest() ends; the page then looks for an attached badge. *)
CatalogReady ==
    /\ catalog = "loading"
    /\ catalog' = "ready" /\ detecting' = TRUE
    /\ UNCHANGED <<sessionVars, request, info, choice, flashing, closing, wizard>>

CatalogFails ==
    /\ catalog = "loading"
    /\ catalog' = "failed"
    /\ UNCHANGED <<sessionVars, detecting, request, info, choice, flashing, closing,
                   wizard>>

(* connectUsb() from its start to its first await. *)
StartConnect(b, automatic) ==
    /\ ~flashing /\ request = NoRequest /\ catalog = "ready"
    /\ request' = [at |-> IF b = None THEN "chooser" ELSE "open",
                   badge |-> b, automatic |-> automatic]

(* getDevices() names one authorized badge. *)
DetectOne(b) ==
    /\ detecting /\ b \in attached
    /\ StartConnect(b, TRUE)
    /\ detecting' = FALSE
    /\ UNCHANGED <<sessionVars, catalog, info, choice, flashing, closing, wizard>>

DetectNone ==
    /\ detecting /\ detecting' = FALSE
    /\ UNCHANGED <<sessionVars, catalog, request, info, choice, flashing, closing,
                   wizard>>

(* A badge is plugged in, as a new USB device: no handle on it is left. *)
Plug(b) ==
    /\ b \notin attached /\ Cardinality(attached) < Ports
    /\ device # b /\ request.badge # b /\ \A c \in Caller : closing[c] # b
    /\ attached' = attached \cup {b}

PlugUnknown(b) ==
    /\ Plug(b)
    /\ UNCHANGED <<session, wire, device, flash, config, pageVars>>

(* The connect event of an authorized badge. *)
PlugAuthorized(b) ==
    /\ Plug(b)
    /\ device = None
    /\ StartConnect(b, TRUE)
    /\ UNCHANGED <<session, wire, device, flash, config, catalog, detecting, info, choice,
                   flashing, closing, wizard>>

(* The cable is pulled, or the bootloader's window ends. *)
Unplug(b) ==
    /\ b \in attached
    /\ attached' = attached \ {b}
    /\ wire' = IF wire.at = "badge" /\ session.badge = b
               THEN [wire EXCEPT !.at = "lost"] ELSE wire
    /\ UNCHANGED <<session, device, flash, config, pageVars>>

(* The disconnect event of the adopted badge, up to its await. *)
DisconnectEvent ==
    /\ device # None /\ device \notin attached
    /\ closing["unplug"] = Idle /\ closing["user"] = Idle
    /\ CloseUsb("unplug")
    /\ UNCHANGED <<session, wire, badgeVars, catalog, detecting, request, choice,
                   flashing, wizard>>

DisconnectClosed ==
    /\ Closed("unplug")
    /\ IF flashing THEN UNCHANGED wizard ELSE Show("connect")
    /\ UNCHANGED <<session, catalog, detecting, request, choice, flashing>>

-----------------------------------------------------------------------------
(* connectUsb().                                                           *)

StartWatching ==
    /\ wizard = "connect" /\ device = None
    /\ StartConnect(None, FALSE)
    /\ UNCHANGED <<sessionVars, catalog, detecting, info, choice, flashing, closing,
                   wizard>>

ChooserPicks(b) ==
    /\ request.at = "chooser" /\ b \in attached
    /\ request' = [request EXCEPT !.at = "open", !.badge = b]
    /\ UNCHANGED <<sessionVars, catalog, detecting, info, choice, flashing, closing,
                   wizard>>

(* The chooser is cancelled; opening, claiming or identifying fails. *)
ConnectFails ==
    /\ request.at \in {"chooser", "open", "identify"}
    /\ closing["connect"] = Idle
    /\ CloseUsb("connect")
    /\ request' = [request EXCEPT !.at = "closing"]
    /\ UNCHANGED <<session, wire, badgeVars, catalog, detecting, choice, flashing,
                   wizard>>

(* The browser refuses to open a device that is being closed. *)
Opened ==
    /\ request.at = "open" /\ request.badge \in attached
    /\ \A c \in Caller : closing[c] # request.badge
    /\ device' = request.badge
    /\ request' = [request EXCEPT !.at = "identify"]
    /\ UNCHANGED <<session, wire, badgeVars, catalog, detecting, info, choice, flashing,
                   closing, wizard>>

(* readBootloaderInfo() has succeeded: chip and config are new objects.    *)
(* getDevices() answers sooner than a badge plugged in since is identified. *)
Identified ==
    /\ request.at = "identify" /\ ~detecting
    /\ device = request.badge /\ device \in attached
    /\ info' = CHOOSE i \in Info : i \notin {info, choice.info}
    /\ request' = NoRequest
    /\ Show("firmware")
    /\ UNCHANGED <<sessionVars, catalog, detecting, choice, flashing, closing>>

ConnectClosed ==
    /\ Closed("connect")
    /\ request' = NoRequest
    /\ IF request.automatic THEN Show("connect") ELSE UNCHANGED wizard
    /\ UNCHANGED <<session, catalog, detecting, choice, flashing>>

(* Back, or Stop while no button was chosen: disconnectUsbByUser(). *)
UserDisconnects ==
    /\ wizard = "firmware" /\ ~flashing /\ device # None
    /\ closing["unplug"] = Idle /\ closing["user"] = Idle
    /\ CloseUsb("user")
    /\ UNCHANGED <<session, wire, badgeVars, catalog, detecting, request, choice,
                   flashing, wizard>>

UserDisconnected ==
    /\ Closed("user")
    /\ Show("connect")
    /\ UNCHANGED <<session, catalog, detecting, request, choice, flashing>>

-----------------------------------------------------------------------------
(* chooseIspButtonAndFlash(), startFlash() and flashFirmware().            *)

Choose(i) ==
    /\ wizard = "firmware" /\ choice = NoChoice /\ ~flashing
    /\ device # None /\ info # None /\ catalog = "ready"
    /\ choice' = [at |-> "loading", badge |-> device, info |-> info, image |-> i]
    /\ UNCHANGED <<sessionVars, catalog, detecting, request, info, flashing, closing,
                   wizard>>

(* The badge and its identification are those captured by the click. *)
SameCapture == device = choice.badge /\ info = choice.info

(* "No destructive command was sent." *)
Refused ==
    /\ choice' = NoChoice
    /\ UNCHANGED <<sessionVars, catalog, detecting, request, info, flashing, closing,
                   wizard>>

(* loadReleaseArtifact() has rejected the image, another tab holds the     *)
(* lock, or the capture was lost before either was known.                  *)
ChoiceRefused == choice.at = "loading" /\ Refused

(* The image is loaded, then the exclusive lock granted. *)
LockGranted ==
    /\ choice.at = "loading" /\ SameCapture /\ sessions < MaxSessions
    /\ flashing' = TRUE
    /\ choice' = [choice EXCEPT !.at = "wake"]
    /\ Show("flash")
    /\ UNCHANGED <<sessionVars, catalog, detecting, request, info, closing>>

(* The screen wake lock was granted or refused; the capture is checked last. *)
SessionStarts ==
    /\ choice.at = "wake" /\ SameCapture
    /\ choice' = [choice EXCEPT !.at = "running"]
    /\ sessions' = sessions + 1
    /\ session' = [step |-> "config-reset", index |-> 0,
                   badge |-> choice.badge, image |-> choice.image]
    /\ UNCHANGED <<wire, device, badgeVars, catalog, detecting, request, info, flashing,
                   closing, wizard>>

FlashStops ==
    /\ closing["flash"] = Idle
    /\ CloseUsb("flash")
    /\ choice' = [choice EXCEPT !.at = "stopping"]
    /\ UNCHANGED <<session, wire, badgeVars, catalog, detecting, request, flashing,
                   wizard>>

CaptureLost == choice.at = "wake" /\ ~SameCapture /\ FlashStops

SessionFailed == choice.at = "running" /\ session.step = "failed" /\ FlashStops

SessionDone ==
    /\ choice.at = "running" /\ session.step = "done"
    /\ wizard' = "success"
    /\ CloseUsb("flash")
    /\ choice' = [choice EXCEPT !.at = "finished"]
    /\ UNCHANGED <<session, wire, badgeVars, catalog, detecting, request, flashing>>

FlashEnded ==
    /\ flashing' = FALSE
    /\ choice' = NoChoice
    /\ UNCHANGED <<catalog, detecting, request>>

FlashFinished ==
    /\ choice.at = "finished" /\ Closed("flash") /\ FlashEnded
    /\ session' = NoSession
    /\ UNCHANGED wizard

(* Mutant: the page is released before the handle is closed. *)
FlashStoppedEarly ==
    /\ choice.at = "stopping" /\ closing["flash"] # Idle
    /\ closing' = [closing EXCEPT !["flash"] = Idle]
    /\ wizard' = "connect"
    /\ FlashEnded
    /\ UNCHANGED <<session, device, info, attached, flash, config, wire>>

FlashStopped ==
    /\ choice.at = "stopping" /\ Closed("flash") /\ FlashEnded
    /\ session' = NoSession
    /\ wizard' = "connect"

Transfer == Send /\ UNCHANGED pageVars
Receive == (Answer \/ TransferError) /\ UNCHANGED pageVars
GiveUp == TimeOut /\ UNCHANGED pageVars
Execute == BadgeExecutes /\ UNCHANGED pageVars

(* The tab is reloaded, closed or crashes: the browser closes its handles. *)
Reload ==
    /\ session' = NoSession /\ wire' = NoTransfer /\ device' = None
    /\ catalog' = "loading" /\ detecting' = FALSE
    /\ request' = NoRequest /\ info' = None /\ choice' = NoChoice
    /\ flashing' = FALSE
    /\ closing' = [c \in Caller |-> Idle]
    /\ wizard' = "connect"
    /\ UNCHANGED badgeVars

-----------------------------------------------------------------------------
FlashStep ==
    \/ SessionStarts
    \/ /\ \/ CaptureLost \/ Transfer \/ (Answer /\ UNCHANGED pageVars) \/ GiveUp
          \/ SessionFailed \/ SessionDone \/ FlashFinished \/ FlashStopped
       /\ UNCHANGED sessions

PageStep ==
    \/ CatalogReady \/ CatalogFails \/ DetectNone \/ DisconnectEvent \/ DisconnectClosed
    \/ \E b \in Badge : \/ DetectOne(b) \/ PlugUnknown(b) \/ PlugAuthorized(b)
                        \/ Unplug(b) \/ ChooserPicks(b)
    \/ StartWatching \/ ConnectFails \/ Opened \/ Identified \/ ConnectClosed
    \/ UserDisconnects \/ UserDisconnected
    \/ \E i \in Image : Choose(i)
    \/ ChoiceRefused \/ LockGranted
    \/ Receive \/ Execute
    \/ Reload

Next == FlashStep \/ (PageStep /\ UNCHANGED sessions)

(* A promise that has settled, or whose time limit has passed, is served by *)
(* the event loop; nothing is assumed of the badge or of the person.        *)
Spec == Init /\ [][Next]_vars /\ WF_vars(FlashStep)

-----------------------------------------------------------------------------
(* The variables keep their types; in particular an identification is only *)
(* remembered together with the badge it was read from (closeUsb clears    *)
(* both), and a session runs only while the page says so.                  *)
TypeOK ==
    /\ session \in [step : Steps \cup {"none", "failed", "done"}, index : Nat,
                    badge : Badge \cup {None}, image : Image \cup {None}]
    /\ wire \in [command : Steps \cup {None}, at : {"none", "badge", "page", "lost"},
                 good : BOOLEAN]
    /\ device \in Badge \cup {None} /\ attached \subseteq Badge
    /\ flash \in [Badge -> [Unit -> Image \cup {Other, Blank}]]
    /\ config \in [Badge -> Config]
    /\ catalog \in {"loading", "ready", "failed"} /\ detecting \in BOOLEAN
    /\ request \in [at : {"none", "chooser", "open", "identify", "closing"},
                    badge : Badge \cup {None}, automatic : BOOLEAN]
    /\ choice \in [at : {"none", "loading", "wake", "running", "stopping", "finished"},
                   badge : Badge \cup {None}, info : Info \cup {None},
                   image : Image \cup {None}]
    /\ info \in Info \cup {None} /\ (info # None => device # None)
    /\ flashing \in BOOLEAN /\ (Working => flashing)
    /\ closing \in [Caller -> Badge \cup {None, Idle}]
    /\ wizard \in {"connect", "firmware", "flash", "success"}
    /\ sessions \in 0 .. MaxSessions

(* No badge is erased or programmed before its own configuration was reset *)
(* and read back as accepted (the order in programAndVerifyFirmware).      *)
EraseAfterReadback ==
    [][\A b \in Badge : flash'[b] # flash[b] => config[b] = "accepted"]_vars

(* Once the page is idle again, after a failure or a timeout in particular, *)
(* nothing that it has sent still reaches a badge (flashFirmware closes    *)
(* the device before it ends the operation).                               *)
PageIdle == ~flashing /\ request = NoRequest /\ \A c \in Caller : closing[c] = Idle

NothingLandsLater ==
    [][PageIdle => UNCHANGED <<flash, config>>]_vars

(* A flash always ends, whatever the badge does or does not answer: the    *)
(* page never stays locked (withTimeout, and the finally of flashFirmware). *)
FlashEnds == flashing ~> ~flashing

(* The badge named by the click is the only one that changes, only while   *)
(* its order stands, and success is shown only when it holds the whole     *)
(* image of the button that was chosen.                                    *)
Holds(b) ==
    IF \E i \in Image : \A u \in 0 .. Units(i) - 1 : flash[b][u] = i
    THEN CHOOSE i \in Image : \A u \in 0 .. Units(i) - 1 : flash[b][u] = i
    ELSE Other

Order == IF choice.at \in {"running", "stopping"} /\ session.badge = choice.badge
         THEN [badge |-> choice.badge, image |-> choice.image]
         ELSE [badge |-> None, image |-> None]

Flash == INSTANCE AbstractFlash
           WITH order <- Order, content <- [b \in Badge |-> Holds(b)],
                success <- wizard = "success"

FlashesAsOrdered == Flash!Spec
=============================================================================
