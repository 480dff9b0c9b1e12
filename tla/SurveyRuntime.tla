--------------------------- MODULE SurveyRuntime ---------------------------
(***************************************************************************)
(* The survey reducer: one step function that owns the lifecycle of a BLE  *)
(* scan, the alert found in it, the picture on the badge and the deadline  *)
(* of the next wake.  It never calls hardware: a step returns commands.    *)
(*                                                                         *)
(* A step is a pipeline over m = [self, out], the runtime and the output   *)
(* it has accumulated; each stage is an operator that returns the next m.  *)
(* Bytes are abstracted: a typed address is a member of Address, what      *)
(* Config::classify answers is a member of Detection (or NoDetection), and *)
(* a frame is named by what it shows.                                      *)
(***************************************************************************)
EXTENDS SurveyClock, FiniteSets

CONSTANTS
    FIRST, RETRY, QUIET, NEXT_SCAN,      \* delays of the lifecycle, in ticks
    WATCHDOG, SHUTDOWN_LIMIT,       \* 5 s to complete a scan, 30 s to hand off
    SECOND, HALF,                   \* an alert page, a pose of the frog view
    Address, CAPACITY,              \* typed addresses, slots of ScanCounter
    Detection, NoDetection,         \* what Config::classify may answer
    Priority,                       \* Detection::priority
    PageCount,                      \* Pages::new: 1 or 2 pages, 0 for None
    FrogDance                       \* detections of kind FrogDance

Delay == Nat \ {0}

ASSUME DelayAssumption ==
    /\ {FIRST, RETRY, QUIET, NEXT_SCAN} \subseteq Delay
    /\ {WATCHDOG, SHUTDOWN_LIMIT, SECOND, HALF} \subseteq Delay

(* Half a turn of the clock is 15 days: far more than the longest delay. *)
ASSUME TurnAssumption ==
    \A delay \in {FIRST, RETRY, QUIET, NEXT_SCAN, WATCHDOG, SHUTDOWN_LIMIT} :
        delay < W \div 2

ASSUME DetectionAssumption ==
    /\ NoDetection \notin Detection
    /\ Priority \in [Detection -> Nat]
    /\ PageCount \in [Detection -> 0 .. 2]
    /\ FrogDance \subseteq Detection

ASSUME CapacityAssumption ==
    /\ CAPACITY \in Nat
    /\ IsFiniteSet(Address)

-----------------------------------------------------------------------------
(* Data.                                                                   *)

PhaseKind == {"Offline", "Waiting", "Quiet", "Scanning", "Cancelling",
              "PowerWait", "Stopped"}

(* Only Stopped has no deadline.  It is given one, which nothing reads. *)
Phase == [k : PhaseKind, at : Time]

Stopped == [k |-> "Stopped", at |-> 0]

NoFrame == <<"none", 0, FALSE>>
CountFrame(n, sat) == <<"count", n, sat>>
FrogFrame(pose) == <<"frogs", pose % 2, FALSE>>
PageFrame(d, page) == <<"page", page, d>>

NoAlert == [found |-> NoDetection, start |-> 0]

EmptyCounter == [seen |-> {}, saturated |-> FALSE]

Command == {"start_role", "stop_advertising", "start_scan", "cancel_scan",
            "advertise", "shutdown_idle", "reset_off", "disconnect"}

NoOutput == [actions |-> {}, radio_idle |-> FALSE, owned |-> FALSE,
             frame |-> NoFrame, wake_after |-> NoTime]

AllInputs == [allowed : BOOLEAN, connected : BOOLEAN,
              advertising : {"on", "off", "unknown"},
              wants_advertising : BOOLEAN, counter_view : BOOLEAN]

(* Runtime::new; `frogs' tells the dancing-frog build of the view. *)
NewRuntime(frogs) ==
    [phase |-> Stopped, counter |-> EmptyCounter,
     completed |-> [n |-> 0, saturated |-> FALSE],
     detected |-> NoDetection, alert |-> NoAlert, last_frame |-> NoFrame,
     next_wake |-> NoTime, counter_view |-> FALSE,
     restore_advertising |-> FALSE, advertise_after |-> FALSE,
     shutdown |-> FALSE, shutdown_deadline |-> NoTime,
     ready |-> FALSE, frogs |-> frogs, frog_epoch |-> 0]

(* The types of struct Runtime and Output. *)
Frame ==
    {"none", "count", "frogs", "page"} \X Nat
      \X (BOOLEAN \cup Detection \cup {NoDetection})

RuntimeType ==
    [phase : Phase,
     counter : [seen : SUBSET Address, saturated : BOOLEAN],
     completed : [n : Nat, saturated : BOOLEAN],
     detected : Detection \cup {NoDetection},
     alert : [found : Detection \cup {NoDetection}, start : Time],
     last_frame : Frame, next_wake : MaybeTime, counter_view : BOOLEAN,
     restore_advertising : BOOLEAN, advertise_after : BOOLEAN,
     shutdown : BOOLEAN, shutdown_deadline : MaybeTime,
     ready : BOOLEAN, frogs : BOOLEAN, frog_epoch : Time]

OutputType ==
    [actions : SUBSET Command, radio_idle : BOOLEAN, owned : BOOLEAN,
     frame : Frame, wake_after : Nat \cup {NoTime}]

(* enum Event. *)
EventType ==
    [kind : {"Tick", "Shutdown", "Resume", "View"}]
      \cup [kind : {"Ready", "StartResult", "CancelResult", "Complete", "Suspend"},
            ok : BOOLEAN]
      \cup [kind : {"Report"}, address : Address, found : Detection \cup {NoDetection}]

-----------------------------------------------------------------------------
(* Helpers on m.                                                           *)

Emit(m, commands) == [m EXCEPT !.out.actions = @ \cup commands]

Enter(m, kind, at) == [m EXCEPT !.self.phase = [k |-> kind, at |-> at]]

Clear(m) == [m EXCEPT !.self.counter = EmptyCounter]

In(m, kinds) == m.self.phase.k \in kinds

Busy(m) == In(m, {"Scanning", "Cancelling"})

(* Mutant: an overflow is not remembered. *)
ObserveSilently(counter, address) ==
    IF Cardinality(counter.seen) = CAPACITY THEN counter
    ELSE [counter EXCEPT !.seen = @ \cup {address}]

(* ScanCounter::observe_typed: duplicates are free, the table never grows  *)
(* past its capacity and remembers that it wanted to.                      *)
Observe(counter, address) ==
    IF address \in counter.seen THEN counter
    ELSE IF Cardinality(counter.seen) = CAPACITY
         THEN [counter EXCEPT !.saturated = TRUE]
         ELSE [counter EXCEPT !.seen = @ \cup {address}]

-----------------------------------------------------------------------------
(* The end of a scan window, successful or not, and of an idle suspend.    *)

Publish(m) ==
    [m EXCEPT !.self.completed = [n |-> Cardinality(m.self.counter.seen),
                                  saturated |-> m.self.counter.saturated]]

(* Power is handed off only once the controller is known to be idle. *)
FinishShutdown(m, now, in) ==
    IF in.advertising = "off" /\ ~in.connected
    THEN LET stopped == [m EXCEPT !.self.phase = Stopped,
                                  !.self.shutdown_deadline = NoTime]
         IN Emit(stopped, {"shutdown_idle"})
    ELSE Emit(Enter(m, "PowerWait", Wadd(now, QUIET)),
              {"stop_advertising"}
                \cup (IF in.connected THEN {"disconnect"} ELSE {}))

(* Mutant: only advertising that was on before the scan is brought back. *)
FinishWindowForgetful(m, now, success, in) ==
    LET next == Enter(m, "Waiting", Wadd(now, IF success THEN NEXT_SCAN ELSE RETRY))
    IN  IF m.self.restore_advertising /\ in.wants_advertising /\ ~in.connected
        THEN Emit(next, {"advertise"})
        ELSE next

FinishWindow(m, now, success, in) ==
    LET next == IF m.self.ready
                THEN Enter(m, "Waiting", Wadd(now, IF success THEN NEXT_SCAN ELSE RETRY))
                ELSE Enter(m, "Offline", Wadd(now, RETRY))
        owed == \/ m.self.restore_advertising
                \/ m.self.advertise_after
    IN  IF owed /\ in.wants_advertising /\ ~in.connected
        THEN Emit(next, {"advertise"})
        ELSE next

(* Mutant: the counter survives a window that failed. *)
FinishUnwiped(m, now, success, in) ==
    LET counted == IF success THEN Clear(Publish(m)) ELSE m
        ended == IF m.self.shutdown THEN FinishShutdown(counted, now, in)
                 ELSE FinishWindow(counted, now, success, in)
    IN  [ended EXCEPT !.self.restore_advertising = FALSE,
                      !.self.advertise_after = FALSE]

Finish(m, now, success, in) ==
    LET counted == Clear(IF success THEN Publish(m) ELSE m)
        ended == IF m.self.shutdown THEN FinishShutdown(counted, now, in)
                 ELSE FinishWindow(counted, now, success, in)
    IN  [ended EXCEPT !.self.restore_advertising = FALSE,
                      !.self.advertise_after = FALSE]

(* A busy controller is asked to cancel; an idle one goes back to the mode *)
(* caller, who advertises itself.                                          *)
Suspend(m, now, advertise_after, in) ==
    LET wiped == [Clear(m) EXCEPT
                    !.self.alert = NoAlert,
                    !.self.restore_advertising = FALSE,
                    !.self.advertise_after = advertise_after /\ ~m.self.shutdown]
    IN  IF Busy(m)
        THEN Emit(Enter(wiped, "Cancelling", Wadd(now, RETRY)), {"cancel_scan"})
        ELSE LET idle == Finish(wiped, now, FALSE, in)
             IN  [idle EXCEPT !.out.actions = @ \ {"advertise"}]

-----------------------------------------------------------------------------
(* One operator per event.                                                 *)

(* Mutant: a late Ready forgets the shutdown. *)
OnReadyRegardless(m, now, in, success) ==
    LET known == [m EXCEPT !.self.ready = success]
    IN  IF m.self.ready \/ Busy(m) THEN known
        ELSE Enter(known, "Waiting", Wadd(now, FIRST))

OnReady(m, now, in, success) ==
    LET known == [m EXCEPT !.self.ready = success]
    IN  IF success
        THEN IF m.self.ready \/ m.self.shutdown \/ Busy(m) THEN known
             ELSE Enter(known, "Waiting", Wadd(now, FIRST))
        ELSE IF Busy(m) THEN Suspend(known, now, FALSE, in)
             ELSE IF m.self.shutdown THEN known
             ELSE Enter(known, "Offline", Wadd(now, RETRY))

OnStartResult(m, now, in, success) ==
    IF ~success /\ In(m, {"Scanning"}) THEN Finish(m, now, FALSE, in) ELSE m

(* Mutant: an accepted cancel is taken for an idle controller. *)
OnCancelResultEager(m, now, in, idle) ==
    IF In(m, {"Cancelling"}) THEN Finish(m, now, FALSE, in) ELSE m

OnCancelResult(m, now, in, idle) ==
    IF idle /\ In(m, {"Cancelling"}) THEN Finish(m, now, FALSE, in) ELSE m

(* Mutant: the completion of a cancelled scan counts. *)
OnCompleteLate(m, now, in, success) ==
    IF Busy(m) THEN Finish(m, now, success /\ in.allowed /\ ~in.connected, in) ELSE m

OnComplete(m, now, in, success) ==
    IF Busy(m)
    THEN Finish(m, now,
                success /\ In(m, {"Scanning"}) /\ in.allowed /\ ~in.connected,
                in)
    ELSE m

Listening(m, in) == In(m, {"Scanning"}) /\ in.allowed /\ ~in.connected

(* Mutant: the latest match wins. *)
OutranksAny(self, found) == found # NoDetection

(* Only a strictly higher priority than every earlier one of the window counts. *)
Outranks(self, found) ==
    /\ found # NoDetection
    /\ \/ self.detected = NoDetection
       \/ Priority[found] > Priority[self.detected]

OnReport(m, now, in, address, found) ==
    IF ~Listening(m, in) THEN m
    ELSE LET seen == [m EXCEPT !.self.counter = Observe(@, address)]
         IN  IF ~Outranks(m.self, found) THEN seen
             ELSE IF PageCount[found] = 0
                  THEN [seen EXCEPT !.self.detected = found]
                  ELSE [seen EXCEPT !.self.detected = found,
                                    !.self.alert = [found |-> found, start |-> now]]

(* Mutant: nobody watches the cancellation. *)
OnShutdownUnwatched(m, now, in) ==
    Suspend([m EXCEPT !.self.shutdown = TRUE], now, FALSE, in)

OnShutdown(m, now, in) ==
    LET told == [m EXCEPT !.self.shutdown = TRUE,
                          !.self.shutdown_deadline =
                              IF m.self.shutdown THEN @
                              ELSE Wadd(now, SHUTDOWN_LIMIT)]
    IN  Suspend(told, now, FALSE, in)

OnResume(m, now) ==
    LET told == [m EXCEPT !.self.shutdown = FALSE,
                          !.self.shutdown_deadline = NoTime,
                          !.self.advertise_after = FALSE]
    IN  IF m.self.ready /\ ~Busy(m)
        THEN Enter(told, "Waiting", Wadd(now, QUIET))
        ELSE told

OnView(m, now) ==
    [m EXCEPT !.self.frog_epoch = now, !.self.last_frame = NoFrame]

HandleEvent(m, now, in, ev) ==
    CASE ev.kind = "Ready"        -> OnReady(m, now, in, ev.ok)
      [] ev.kind = "StartResult"  -> OnStartResult(m, now, in, ev.ok)
      [] ev.kind = "CancelResult" -> OnCancelResult(m, now, in, ev.ok)
      [] ev.kind = "Complete"     -> OnComplete(m, now, in, ev.ok)
      [] ev.kind = "Report"       -> OnReport(m, now, in, ev.address, ev.found)
      [] ev.kind = "Suspend"      -> Suspend(m, now, ev.ok, in)
      [] ev.kind = "Shutdown"     -> OnShutdown(m, now, in)
      [] ev.kind = "Resume"       -> OnResume(m, now)
      [] ev.kind = "View"         -> OnView(m, now)
      [] ev.kind = "Tick"         -> m

-----------------------------------------------------------------------------
(* After the event: the shutdown watchdog, then the deadline of the phase. *)

(* Mutant: the report that starts an alert keeps the frame, too. *)
FastPathAlways(before, m, now, in, ev) ==
    /\ ev.kind = "Report"
    /\ Listening(m, in)
    /\ m.self.next_wake # NoTime

(* A burst of ordinary reports leaves the frame and the wake as they are.  *)
FastPath(before, m, now, in, ev) ==
    /\ ev.kind = "Report"
    /\ Listening(m, in)
    /\ m.self.alert = before.alert
    /\ ~m.self.shutdown
    /\ in.counter_view = m.self.counter_view
    /\ m.self.next_wake # NoTime
    /\ ~Due(now, m.self.next_wake)

(* Mutant: a kept frame is not owned. *)
KeepWakeOnly(m, now) ==
    [m EXCEPT !.out = [NoOutput EXCEPT !.wake_after = Wsub(m.self.next_wake, now)]]

KeepFrameAndWake(m, now) ==
    [m EXCEPT !.out = [NoOutput EXCEPT
                         !.owned = m.self.last_frame # NoFrame,
                         !.wake_after = Wsub(m.self.next_wake, now)]]

ShutdownOverdue(m, now) ==
    /\ m.self.shutdown_deadline # NoTime
    /\ Due(now, m.self.shutdown_deadline)

(* A lost acknowledgement is not proof of idle: reset, marked off. *)
ResetOff(m) ==
    LET off == [Clear(m) EXCEPT !.self.alert = NoAlert,
                                !.self.last_frame = NoFrame,
                                !.self.shutdown_deadline = NoTime,
                                !.self.phase = Stopped]
    IN  [off EXCEPT !.out = [NoOutput EXCEPT !.actions = {"reset_off"}]]

WaitingIsOver(m, now, in) ==
    IF m.self.ready /\ in.allowed /\ ~in.connected /\ in.advertising # "unknown"
    THEN LET on == in.advertising = "on"
             quiet == [Clear(m) EXCEPT !.self.detected = NoDetection,
                                       !.self.alert = NoAlert,
                                       !.self.restore_advertising = on]
         IN  Emit(Enter(quiet, "Quiet", Wadd(now, QUIET)),
                  IF on THEN {"stop_advertising"} ELSE {})
    ELSE Enter(m, "Waiting", Wadd(now, RETRY))

QuietIsOver(m, now, in) ==
    IF in.allowed /\ ~in.connected /\ in.advertising = "off" /\ ~m.self.shutdown
    THEN Emit(Enter(m, "Scanning", Wadd(now, WATCHDOG)), {"start_scan"})
    ELSE Finish(m, now, FALSE, in)

(* Mutant: a lost completion is waited for, not asked for again. *)
CancelOnce(m, now) == Enter(m, "Cancelling", Wadd(now, RETRY))

CancelAgain(m, now) ==
    Emit(Enter(m, "Cancelling", Wadd(now, RETRY)), {"cancel_scan"})

(* A wake that comes early moves nothing; only deadlines do. *)
TickPhase(m, now, in) ==
    IF In(m, {"Stopped"}) \/ ~Due(now, m.self.phase.at) THEN m
    ELSE CASE In(m, {"Offline"}) /\ ~m.self.shutdown ->
                Emit(Enter(m, "Offline", Wadd(now, RETRY)), {"start_role"})
           [] In(m, {"Waiting"}) /\ ~m.self.shutdown -> WaitingIsOver(m, now, in)
           [] In(m, {"Quiet"}) -> QuietIsOver(m, now, in)
           [] In(m, {"Scanning"}) -> CancelAgain(Clear(m), now)
           [] In(m, {"Cancelling"}) -> CancelAgain(m, now)
           [] In(m, {"PowerWait"}) -> Finish(m, now, FALSE, in)
           [] OTHER -> m

(* A scan does not outlive the permission to scan. *)
Guard(m, now, in) ==
    IF In(m, {"Scanning"}) /\ (~in.allowed \/ in.connected \/ m.self.shutdown)
    THEN Suspend(m, now, in.wants_advertising, in)
    ELSE m

-----------------------------------------------------------------------------
(* The picture and the next wake.                                          *)

AlertPages(found) == IF found \in FrogDance THEN 3 ELSE PageCount[found]

AlertPage(self, now) == Wsub(now, self.alert.start) \div SECOND

AlertLive(self, now) ==
    /\ self.alert # NoAlert
    /\ AlertPage(self, now) < AlertPages(self.alert.found)

MayShow(self, in) == in.allowed /\ ~self.shutdown

Picture(self, now, in) ==
    IF ~MayShow(self, in) THEN NoFrame
    ELSE IF AlertLive(self, now)
    THEN IF self.alert.found \in FrogDance THEN FrogFrame(AlertPage(self, now))
         ELSE PageFrame(self.alert.found, AlertPage(self, now))
    ELSE IF ~in.counter_view THEN NoFrame
    ELSE IF self.frogs THEN FrogFrame(Wsub(now, self.frog_epoch) \div HALF)
    ELSE CountFrame(self.completed.n, self.completed.saturated)

(* Mutant: a pose lasts half a second from its latest redraw. *)
PictureUntilRedrawn(self, now, in) ==
    IF ~MayShow(self, in) THEN NoTime
    ELSE IF AlertLive(self, now)
    THEN Wadd(self.alert.start, (AlertPage(self, now) + 1) * SECOND)
    ELSE IF in.counter_view /\ self.frogs THEN Wadd(now, HALF)
    ELSE NoTime

(* The tick at which the picture changes by itself, or NoTime. *)
PictureUntil(self, now, in) ==
    IF ~MayShow(self, in) THEN NoTime
    ELSE IF AlertLive(self, now)
    THEN Wadd(self.alert.start, (AlertPage(self, now) + 1) * SECOND)
    ELSE IF in.counter_view /\ self.frogs
    THEN Wadd(now, HALF - (Wsub(now, self.frog_epoch) % HALF))
    ELSE NoTime

PhaseDeadline(self) == IF self.phase.k = "Stopped" THEN NoTime ELSE self.phase.at

NextWake(self, now, in) ==
    LET Sooner(next, at) == IF at = NoTime THEN next ELSE Earlier(now, next, at)
    IN  Sooner(Sooner(PhaseDeadline(self), self.shutdown_deadline),
               PictureUntil(self, now, in))

Render(m, now, in) ==
    LET frame == Picture(m.self, now, in)
        wake == NextWake(m.self, now, in)
    IN  [self |-> [m.self EXCEPT
                     !.alert = IF MayShow(m.self, in) /\ AlertLive(m.self, now)
                               THEN @ ELSE NoAlert,
                     !.last_frame = frame,
                     !.next_wake = wake,
                     !.counter_view = in.counter_view],
         out  |-> [m.out EXCEPT
                     !.owned = frame # NoFrame,
                     !.frame = IF frame = m.self.last_frame THEN NoFrame ELSE frame,
                     !.radio_idle = ~Busy(m) /\ ~In(m, {"PowerWait"}),
                     !.wake_after = IF wake = NoTime THEN NoTime
                                    ELSE IF Due(now, wake) THEN 1
                                    ELSE Wsub(wake, now)]]

(* Runtime::step. *)
Step(self, now, in, ev) ==
    LET handled == HandleEvent([self |-> self, out |-> NoOutput], now, in, ev)
        ticked == IF ev.kind = "Tick" THEN TickPhase(handled, now, in) ELSE handled
    IN  IF FastPath(self, handled, now, in, ev) THEN KeepFrameAndWake(handled, now)
        ELSE IF ShutdownOverdue(handled, now) THEN ResetOff(handled)
        ELSE Render(Guard(ticked, now, in), now, in)
=============================================================================
