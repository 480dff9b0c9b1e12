------------------------------- MODULE Badge -------------------------------
(***************************************************************************)
(* The survey reducer on its badge: the C adapter that executes its        *)
(* commands, the TMOS timer and task events that call it, the radio it     *)
(* shares with BadgeMagic, and the mode controller of the buttons.         *)
(*                                                                         *)
(* TMOS runs one handler at a time, but a handler calls the SDK in the     *)
(* middle, and the SDK may call back into the adapter before it returns.   *)
(* `todo' is what the running handler has still to do; a nested dispatch   *)
(* puts its own commands in front.  Interrupts do not touch this state.    *)
(***************************************************************************)
EXTENDS SurveyRuntime, Sequences

CONSTANTS
    AlwaysOn,        \* the values of badge_cfg.ble_always_on to consider
    ReadsMayFail,    \* may GAPRole_GetParameter fail?
    RolesMayFail,    \* may the central role refuse to start?
    AllocMayFail,    \* may tmos_start_task find no timer?
    CancelsMayHang   \* may a controller ignore a cancel, or lose its completion?

ASSUME BadgeAssumption ==
    /\ AlwaysOn \subseteq BOOLEAN
    /\ {ReadsMayFail, RolesMayFail, AllocMayFail, CancelsMayHang} \subseteq BOOLEAN

VARIABLES
    now,        \* TMOS_GetSystemClock()
    rt,         \* the reducer's state, SESSION in Rust
    timer,      \* the adapter's view of its one wake, and TMOS's own
    board,      \* mode controller, power
    radio,      \* the controller: advertising, connection, discovery
    callbacks,  \* SDK callbacks not yet delivered
    todo,       \* what the running handler has still to do
    ret         \* what the latest dispatch() returned

vars == <<now, rt, timer, board, radio, callbacks, todo, ret>>

-----------------------------------------------------------------------------
(* What the handlers read.                                                 *)

On == board.power = "on"

Idle == On /\ todo = <<>>       \* TMOS is between two handlers

persistent_advertising ==
    board.mode # "POWER_OFF" /\ (board.always_on \/ board.mode = "DOWNLOAD")

survey_allowed == board.mode = "NORMAL" /\ ~board.streaming

Reading(connected, advertising) ==
    [allowed |-> survey_allowed, connected |-> connected,
     advertising |-> advertising,
     wants_advertising |-> persistent_advertising, counter_view |-> FALSE]

(* inputs(): an unreadable role state counts as a connection; a report     *)
(* does not read the advertising state; before the role is up it is INIT.  *)
inputs(kind) ==
    LET advertising == IF kind = "Report" \/ radio.gap # "up" THEN "unknown"
                       ELSE IF radio.adv = "off" THEN "off" ELSE "on"
    IN  {Reading(radio.conn, advertising)}
          \cup (IF ReadsMayFail
                THEN {Reading(TRUE, "unknown"), Reading(radio.conn, "unknown")}
                ELSE {})

-----------------------------------------------------------------------------
(* What the handlers do: the vocabulary of `todo'.                         *)

Dispatch(ev) == [op |-> "dispatch", ev |-> ev]
Event(kind) == Dispatch([kind |-> kind])
EventOk(kind, ok) == Dispatch([kind |-> kind, ok |-> ok])
Call(op) == [op |-> op]

(* The flags of a step's output, in the order in which dispatch() tests them. *)
Commands(actions) ==
    LET If(op) == IF op \in actions THEN <<Call(op)>> ELSE <<>>
    IN  If("start_role") \o If("stop_advertising") \o If("disconnect")
          \o If("start_scan") \o If("cancel_scan") \o If("advertise")
          \o If("shutdown_idle")

(* The wake is replaced before any SDK call.  An armed timer is only moved *)
(* when its deadline changes; a new one may find no memory, and then waits *)
(* for the 200 ms poll.                                                    *)
Armed(at) == [timer EXCEPT !.wake_armed = TRUE, !.wake_retry = FALSE,
                           !.wake_at = at, !.tmos = at]

(* Mutant: an armed wake stays where it is. *)
RearmedOnce(kind, wake_after) ==
    IF wake_after = NoTime
    THEN {[timer EXCEPT !.wake_armed = FALSE, !.wake_retry = FALSE,
                        !.tmos = IF timer.wake_armed THEN NoTime ELSE @]}
    ELSE IF timer.wake_armed THEN {timer}
    ELSE {Armed(Wadd(now, wake_after))}

Rearmed(kind, wake_after) ==
    LET at == Wadd(now, wake_after)
    IN  IF wake_after = NoTime
        THEN {[timer EXCEPT !.wake_armed = FALSE, !.wake_retry = FALSE,
                            !.tmos = IF timer.wake_armed THEN NoTime ELSE @]}
        ELSE IF /\ ~timer.wake_retry \/ kind = "Tick"
                /\ ~timer.wake_armed \/ timer.wake_at # at
        THEN {Armed(at)} \cup
             (IF AllocMayFail /\ timer.tmos = NoTime
              THEN {[timer EXCEPT !.wake_armed = FALSE, !.wake_retry = TRUE,
                                  !.wake_at = at]}
              ELSE {})
        ELSE {timer}

(* dispatch(): one step of the reducer, then its commands in order, then   *)
(* the value returned to the caller, which is the outer step's.            *)
RunDispatch ==
    /\ On /\ todo # <<>> /\ Head(todo).op = "dispatch"
    /\ \E in \in inputs(Head(todo).ev.kind) :
        \E m \in {Step(rt, now, in, Head(todo).ev)} :
            /\ rt' = m.self
            /\ IF "reset_off" \in m.out.actions
               THEN /\ board' = [board EXCEPT !.power = "reset"]
                    /\ todo' = <<>>
                    /\ UNCHANGED timer
               ELSE /\ timer' \in Rearmed(Head(todo).ev.kind, m.out.wake_after)
                    /\ todo' = Commands(m.out.actions)
                                 \o <<[op |-> "return", idle |-> m.out.radio_idle]>>
                                 \o Tail(todo)
                    /\ UNCHANGED board
    /\ UNCHANGED <<now, radio, callbacks, ret>>

Doing(op) == On /\ todo # <<>> /\ Head(todo).op = op

RunReturn ==
    /\ Doing("return")
    /\ ret' = Head(todo).idle
    /\ todo' = Tail(todo)
    /\ UNCHANGED <<now, rt, timer, board, radio, callbacks>>

(* start_role(): GAPRole_CentralInit and GAPRole_CentralStartDevice.       *)
RunStartRole ==
    /\ Doing("start_role")
    /\ \E ok \in {TRUE, ~RolesMayFail} :
        /\ todo' = <<EventOk("Ready", ok)>> \o Tail(todo)
        /\ radio' = [radio EXCEPT !.gap = IF ok /\ @ = "down" THEN "starting" ELSE @]
    /\ UNCHANGED <<now, rt, timer, board, callbacks, ret>>

(* ble_disable_advertise(): the controller stops a little later. *)
Disabled(r) == [r EXCEPT !.adv = IF @ = "on" THEN "stopping" ELSE @]

Enabled(r) == [r EXCEPT !.adv = "on"]

RunStopAdvertising ==
    /\ Doing("stop_advertising")
    /\ radio' = Disabled(radio)
    /\ todo' = Tail(todo)
    /\ UNCHANGED <<now, rt, timer, board, callbacks, ret>>

(* frogalert_badgemagic_disconnect(): only a link the shell knows of. *)
RunDisconnect ==
    /\ Doing("disconnect")
    /\ radio' = [radio EXCEPT !.hangup = @ \/ board.handle]
    /\ todo' = Tail(todo)
    /\ UNCHANGED <<now, rt, timer, board, callbacks, ret>>

RunStartScan ==
    /\ Doing("start_scan")
    /\ \/ /\ radio.disc = "idle"
          /\ radio' = [radio EXCEPT !.disc = "scanning"]
          /\ todo' = <<EventOk("StartResult", TRUE)>> \o Tail(todo)
       \/ /\ todo' = <<EventOk("StartResult", FALSE)>> \o Tail(todo)
          /\ UNCHANGED radio
    /\ UNCHANGED <<now, rt, timer, board, callbacks, ret>>

(* bleIncorrectMode is the SDK's way to say that nothing is discovering. *)
RunCancelScan ==
    /\ Doing("cancel_scan")
    /\ radio' = [radio EXCEPT !.disc = IF @ = "idle" THEN "idle" ELSE "cancelling"]
    /\ todo' = <<EventOk("CancelResult", radio.disc = "idle")>> \o Tail(todo)
    /\ UNCHANGED <<now, rt, timer, board, callbacks, ret>>

(* Advertising is re-read before it is restored. *)
RunAdvertise ==
    /\ Doing("advertise")
    /\ \E in \in inputs("Tick") :
        radio' = IF persistent_advertising /\ ~in.connected
                     /\ in.advertising # "unknown"
                 THEN Enabled(radio) ELSE radio
    /\ todo' = Tail(todo)
    /\ UNCHANGED <<now, rt, timer, board, callbacks, ret>>

(* frogalert_survey_radio_idle(). *)
HandedOff(b) ==
    [b EXCEPT !.enter_shutdown = @ \/ (b.pending /\ b.mode = "POWER_OFF")]

RunShutdownIdle ==
    /\ \/ Doing("shutdown_idle") /\ board' = HandedOff(board)
       \/ Doing("handoff_if_idle") /\ board' = IF ret THEN HandedOff(board) ELSE board
    /\ todo' = Tail(todo)
    /\ UNCHANGED <<now, rt, timer, radio, callbacks, ret>>

RunAdvertiseIfIdle ==
    /\ Doing("advertise_if_idle")
    /\ radio' = IF ret THEN Enabled(radio) ELSE radio
    /\ todo' = Tail(todo)
    /\ UNCHANGED <<now, rt, timer, board, callbacks, ret>>

RunStreamingOn ==
    /\ Doing("streaming_on")
    /\ board' = [board EXCEPT !.streaming = TRUE]
    /\ todo' = Tail(todo)
    /\ UNCHANGED <<now, rt, timer, radio, callbacks, ret>>

RunTodo ==
    \/ RunDispatch \/ RunReturn \/ RunStartRole \/ RunStopAdvertising
    \/ RunDisconnect \/ RunStartScan \/ RunCancelScan \/ RunAdvertise
    \/ RunShutdownIdle \/ RunAdvertiseIfIdle \/ RunStreamingOn

-----------------------------------------------------------------------------
(* TMOS handlers.  Each starts between two others.                         *)

Start(ops) == todo' = ops

(* START_EVENT and WAKE_EVENT of survey_task. *)
StartTask ==
    /\ Idle /\ timer.start
    /\ timer' = [timer EXCEPT !.start = FALSE]
    /\ Start(<<Call("start_role")>>)
    /\ UNCHANGED <<now, rt, board, radio, callbacks, ret>>

WakeTask ==
    /\ Idle /\ timer.wake_event
    /\ timer' = [timer EXCEPT !.wake_event = FALSE, !.wake_armed = FALSE]
    /\ Start(<<Event("Tick")>>)
    /\ UNCHANGED <<now, rt, board, radio, callbacks, ret>>

(* frogalert_survey_poll(), from the 200 ms recovery-button task. *)
Poll ==
    /\ Idle /\ timer.wake_retry /\ ~timer.polled
    /\ timer' = [timer EXCEPT !.polled = TRUE]
    /\ Start(<<Event("Tick")>>)
    /\ UNCHANGED <<now, rt, board, radio, callbacks, ret>>

SuspendThenAdvertise ==
    <<EventOk("Suspend", TRUE), Call("advertise_if_idle")>>

(* mode_setup_screen_off(). *)
ScreenOff ==
    /\ board' = [board EXCEPT !.mode = "POWER_OFF", !.pending = TRUE,
                              !.pressed = TRUE]
    /\ radio' = Disabled(radio)
    /\ Start(<<Event("Shutdown"), Call("handoff_if_idle")>>)

(* mode_setup_normal(). *)
SetupNormal(pressed) ==
    /\ board' = [board EXCEPT !.mode = "NORMAL", !.pending = FALSE,
                              !.pressed = pressed]
    /\ Start(<<Event("Resume")>>
               \o (IF board.always_on THEN SuspendThenAdvertise ELSE <<>>)
               \o <<Event("View")>>)
    /\ UNCHANGED radio

(* mode_setup_download(): always-on BLE skips the mode. *)
SetupDownload ==
    IF board.always_on THEN ScreenOff
    ELSE /\ board' = [board EXCEPT !.mode = "DOWNLOAD", !.pressed = TRUE]
         /\ Start(SuspendThenAdvertise)
         /\ UNCHANGED radio

(* The system button: frogalert_change_mode().  A press takes longer than  *)
(* TMOS needs to run the events already set, so the clock moves in between.*)
SystemButton ==
    /\ Idle /\ ~board.pressed
    /\ CASE board.mode = "NORMAL"    -> SetupDownload
         [] board.mode = "DOWNLOAD"  -> ScreenOff
         [] board.mode = "POWER_OFF" -> SetupNormal(TRUE)
    /\ UNCHANGED <<now, rt, timer, callbacks, ret>>

(* handle_after_rx() at the end of an upload over an established link. *)
UploadDone ==
    /\ Idle /\ board.handle /\ radio.conn
    /\ SetupNormal(board.pressed)
    /\ UNCHANGED <<now, rt, timer, callbacks, ret>>

StreamingEnter ==
    /\ Idle /\ board.handle /\ radio.conn /\ ~board.streaming
    /\ Start(<<EventOk("Suspend", FALSE), Call("streaming_on")>>)
    /\ UNCHANGED <<now, rt, timer, board, radio, callbacks, ret>>

StreamingExit ==
    /\ Idle /\ board.handle /\ radio.conn /\ board.streaming
    /\ board' = [board EXCEPT !.streaming = FALSE]
    /\ Start(<<Event("View")>>)
    /\ UNCHANGED <<now, rt, timer, radio, callbacks, ret>>

(* FROGALERT_ENTER_SHUTDOWN re-checks the mode before it crosses WFI. *)
EnterShutdown ==
    /\ Idle /\ board.enter_shutdown
    /\ board' = [board EXCEPT
                   !.enter_shutdown = FALSE, !.pending = FALSE,
                   !.power = IF board.pending /\ board.mode = "POWER_OFF"
                             THEN "off" ELSE "on"]
    /\ UNCHANGED <<now, rt, timer, radio, callbacks, todo, ret>>

-----------------------------------------------------------------------------
(* SDK callbacks: between two handlers, or out of the SDK call of one.     *)

InSdkCall ==
    /\ todo # <<>>
    /\ Head(todo).op = "dispatch"
    /\ Head(todo).ev.kind \in {"Ready", "StartResult", "CancelResult"}

MayCallBack == On /\ (todo = <<>> \/ InSdkCall)

(* GAP_DEVICE_INIT_DONE_EVENT. *)
InitDone ==
    /\ MayCallBack /\ callbacks.init # "none"
    /\ callbacks' = [callbacks EXCEPT !.init = "none"]
    /\ todo' = <<EventOk("Ready", callbacks.init = "ok")>> \o todo
    /\ UNCHANGED <<now, rt, timer, board, radio, ret>>

ReportOf(address) ==
    Dispatch([kind |-> "Report", address |-> address, found |-> NoDetection])

(* The device list of a completion, cut to one entry. *)
Replays == {<<>>} \cup {<<ReportOf(a)>> : a \in Address}

(* GAP_DEVICE_DISCOVERY_EVENT, after the replay of its device list. *)
DiscoveryEvent ==
    /\ MayCallBack /\ callbacks.complete # "none"
    /\ callbacks' = [callbacks EXCEPT !.complete = "none"]
    /\ \E replay \in IF callbacks.complete = "ok" THEN Replays ELSE {<<>>} :
        todo' = replay \o <<EventOk("Complete", callbacks.complete = "ok")>> \o todo
    /\ UNCHANGED <<now, rt, timer, board, radio, ret>>

(* GAP_DEVICE_INFO_EVENT and its extended and direct forms. *)
DeviceInfo ==
    /\ MayCallBack /\ radio.disc # "idle"
    /\ \E a \in Address :
        todo' = <<ReportOf(a)>> \o todo
    /\ UNCHANGED <<now, rt, timer, board, radio, callbacks, ret>>

(* link_onEstablished(). *)
LinkUp ==
    /\ Idle /\ callbacks.links # <<>> /\ Head(callbacks.links) = "up"
    /\ callbacks' = [callbacks EXCEPT !.links = Tail(@)]
    /\ board' = [board EXCEPT !.handle = TRUE]
    /\ radio' = Disabled(radio)
    /\ Start(<<EventOk("Suspend", FALSE)>>)
    /\ UNCHANGED <<now, rt, timer, ret>>

(* link_onTerminated() and frogalert_survey_on_disconnect(). *)
LinkDown ==
    /\ Idle /\ callbacks.links # <<>> /\ Head(callbacks.links) = "down"
    /\ callbacks' = [callbacks EXCEPT !.links = Tail(@)]
    /\ board' = [board EXCEPT !.handle = FALSE, !.streaming = FALSE]
    /\ Start((IF board.mode = "NORMAL" THEN <<Event("View")>> ELSE <<>>)
               \o (IF persistent_advertising THEN SuspendThenAdvertise
                   ELSE <<EventOk("Suspend", FALSE)>>))
    /\ UNCHANGED <<now, rt, timer, radio, ret>>

-----------------------------------------------------------------------------
(* The controller and its peers, the clock, the power switch.              *)

RadioUp ==
    /\ On /\ radio.gap = "starting"
    /\ \/ /\ radio' = [radio EXCEPT !.gap = "up"]
          /\ callbacks' = [callbacks EXCEPT !.init = "ok"]
       \/ /\ RolesMayFail
          /\ radio' = [radio EXCEPT !.gap = "down"]
          /\ callbacks' = [callbacks EXCEPT !.init = "fail"]
    /\ UNCHANGED <<now, rt, timer, board, todo, ret>>

AdvertisingStops ==
    /\ On /\ radio.adv = "stopping"
    /\ radio' = [radio EXCEPT !.adv = "off"]
    /\ UNCHANGED <<now, rt, timer, board, callbacks, todo, ret>>

(* At most one link: a peer connects while the badge can be found. *)
Connect ==
    /\ On /\ radio.gap = "up" /\ radio.adv # "off" /\ ~radio.conn
    /\ Len(callbacks.links) < 2
    /\ radio' = [radio EXCEPT !.conn = TRUE, !.hangup = FALSE]
    /\ callbacks' = [callbacks EXCEPT !.links = Append(@, "up")]
    /\ UNCHANGED <<now, rt, timer, board, todo, ret>>

LinkDrops ==
    /\ radio' = [radio EXCEPT !.conn = FALSE, !.hangup = FALSE]
    /\ callbacks' = [callbacks EXCEPT !.links = Append(@, "down")]
    /\ UNCHANGED <<now, rt, timer, board, todo, ret>>

PeerLeaves == On /\ radio.conn /\ ~radio.hangup /\ LinkDrops

HungUp == On /\ radio.conn /\ radio.hangup /\ LinkDrops

(* The three seconds are over, or a cancel took effect; the event may fail *)
(* and, with a controller that hangs, get lost. *)
DiscoveryEnds ==
    /\ On /\ radio.disc # "idle" /\ callbacks.complete = "none"
    /\ radio' = [radio EXCEPT !.disc = "idle"]
    /\ \E result \in {"ok", "fail"} \cup (IF CancelsMayHang THEN {"none"} ELSE {}) :
        callbacks' = [callbacks EXCEPT !.complete = result]
    /\ UNCHANGED <<now, rt, timer, board, todo, ret>>

Settled ==
    /\ Idle
    /\ callbacks.init = "none" /\ callbacks.complete = "none" /\ callbacks.links = <<>>
    /\ ~timer.start /\ ~timer.wake_event /\ ~board.enter_shutdown

(* A tick of the model is a quarter of a second: whatever TMOS has been    *)
(* told runs before the clock moves on, and so does the 200 ms poll.  The  *)
(* timer that expires sets its event; a timer stopped or moved after that  *)
(* does not take the event back.                                           *)
Advance ==
    /\ Settled
    /\ timer.wake_retry => timer.polled
    /\ now' = Wadd(now, 1)
    /\ timer' = IF timer.tmos = now'
                THEN [timer EXCEPT !.polled = FALSE, !.tmos = NoTime,
                                   !.wake_event = TRUE]
                ELSE [timer EXCEPT !.polled = FALSE]
    /\ board' = [board EXCEPT !.pressed = FALSE]
    /\ UNCHANGED <<rt, radio, callbacks, todo, ret>>

Boot(always_on) ==
    [rt        |-> NewRuntime(FALSE),
     timer     |-> [start |-> TRUE, wake_armed |-> FALSE, wake_retry |-> FALSE,
                    wake_at |-> 0, tmos |-> NoTime, wake_event |-> FALSE,
                    polled |-> FALSE],
     board     |-> [power |-> "on", mode |-> "NORMAL", always_on |-> always_on,
                    streaming |-> FALSE, pending |-> FALSE,
                    enter_shutdown |-> FALSE, handle |-> FALSE, pressed |-> FALSE],
     radio     |-> [gap |-> "starting",
                    adv |-> IF always_on THEN "on" ELSE "off",
                    conn |-> FALSE, hangup |-> FALSE, disc |-> "idle"],
     callbacks |-> [init |-> "none", complete |-> "none", links |-> <<>>]]

(* A qualified wake from shutdown, or from the marked-off reset: RAM is new. *)
PowerUp ==
    /\ ~On
    /\ LET b == Boot(board.always_on)
       IN  /\ rt' = b.rt /\ timer' = b.timer /\ board' = b.board
           /\ radio' = b.radio /\ callbacks' = b.callbacks
    /\ todo' = <<>> /\ ret' = FALSE
    /\ UNCHANGED now

Init ==
    /\ now = 0
    /\ \E always_on \in AlwaysOn :
        LET b == Boot(always_on)
        IN  /\ rt = b.rt /\ timer = b.timer /\ board = b.board
            /\ radio = b.radio /\ callbacks = b.callbacks
    /\ todo = <<>> /\ ret = FALSE

Handlers ==
    \/ StartTask \/ WakeTask \/ Poll \/ EnterShutdown
    \/ InitDone \/ DiscoveryEvent \/ LinkUp \/ LinkDown

Owner == SystemButton \/ UploadDone \/ StreamingEnter \/ StreamingExit

Surroundings ==
    \/ DeviceInfo \/ RadioUp \/ AdvertisingStops \/ Connect \/ PeerLeaves
    \/ HungUp \/ DiscoveryEnds \/ Advance \/ PowerUp

Next == RunTodo \/ Handlers \/ Owner \/ Surroundings

Spec == Init /\ [][Next]_vars

(* What the badge may rely on: TMOS runs whatever is ready, time goes on,   *)
(* and the radio comes up, stops advertising and ends a link when told.    *)
(* Not that a controller answers a cancel, nor that a peer ever leaves.    *)
Fairness ==
    /\ WF_vars(RunTodo \/ Handlers)
    /\ WF_vars(RadioUp) /\ WF_vars(AdvertisingStops) /\ WF_vars(HungUp)
    /\ SF_vars(Advance)

FairSpec == Spec /\ Fairness

-----------------------------------------------------------------------------
(* Safety.                                                                 *)

(* The survey, the mode controller and the app share the radio as          *)
(* RadioArbiter promises: discovery never overlaps advertising, and        *)
(* shutdown is crossed only with the controller idle, whichever callback   *)
(* comes inside which call, fails, hangs or gets lost.                     *)
RadioUsers ==
    (IF radio.adv # "off" THEN {"advertising"} ELSE {})
      \cup (IF radio.conn THEN {"link"} ELSE {})
      \cup (IF radio.disc # "idle" THEN {"discovery"} ELSE {})

Arbiter == INSTANCE RadioArbiter
             WITH users <- IF On THEN RadioUsers ELSE {}, power <- board.power

ArbiterSpec == Arbiter!Spec

(* Between two handlers the wake the reducer waits for is really on its    *)
(* way: nested dispatches leave the newest deadline armed, not the one of  *)
(* the call that returns last, and a timer that found no memory is left to *)
(* the poll (dispatch(), lines 80 to 93).                                  *)
WakeIsOnItsWay ==
    Idle /\ rt.next_wake # NoTime =>
        \/ timer.wake_event \/ timer.wake_retry
        \/ timer.tmos \in {rt.next_wake, Wadd(now, 1)}

(* A badge that wants to be found is found again after every scan,         *)
(* connection or aborted window: when TMOS rests, nobody is connected and  *)
(* no scan is under way, it advertises (finish, FA_ADVERTISE and the       *)
(* callers of suspend; as long as the controller's state can be read).     *)
AdvertisingComesBack ==
    /\ Settled /\ persistent_advertising /\ ~radio.conn
    /\ rt.phase.k \in {"Waiting", "Offline"}
    => radio.adv = "on"

(* Always-on BLE skips download mode: the system button leaves the badge   *)
(* in normal mode (the comment of mode_setup_download).                    *)
AlwaysOnReturnsToNormal ==
    [][ board.always_on /\ board.mode = "NORMAL" /\ On => board'.mode = "NORMAL" ]_vars

(* A badge told to power off does so, or is told otherwise, even when the  *)
(* controller never confirms the cancel of a running scan: the watchdog    *)
(* resets it (Event::Shutdown, FA_RESET_OFF, FROGALERT_ENTER_SHUTDOWN).    *)
PowerOffArrives == board.pending ~> (~On \/ ~board.pending)

(* The survey does not die out: with a role that starts and a controller   *)
(* that ends what it is told to end, in normal mode, with nobody connected,*)
(* another scan is started, whatever was lost, refused, suspended or       *)
(* resumed before; unless advertising outlives its 250 ms of quiet again   *)
(* and again.                                                              *)
StillAdvertising == rt.phase.k = "Quiet" /\ timer.wake_event /\ radio.adv # "off"

Blocked ==
    \/ ~On \/ ~survey_allowed \/ radio.gap # "up" \/ radio.conn
    \/ StillAdvertising

SurveyRecurs ==
    WF_vars(DiscoveryEnds) => []<>Blocked \/ []<><<RunStartScan>>_vars
=============================================================================
