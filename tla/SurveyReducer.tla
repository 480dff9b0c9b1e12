--------------------------- MODULE SurveyReducer ---------------------------
(***************************************************************************)
(* The survey reducer in the most hostile surroundings its interface       *)
(* allows: any event of the FFI, in any order, at any time, with any board *)
(* inputs (scan reports after a cancel, two completions, a Ready that is   *)
(* taken back, a shutdown in the middle of anything).  What is proved here *)
(* holds on every board.                                                   *)
(***************************************************************************)
EXTENDS SurveyRuntime

CONSTANTS
    Builds,       \* the builds of the view: FALSE counts, TRUE dances
    Inputs,       \* the board inputs offered, a subset of AllInputs
    STRIDE,       \* bound: the clock jumps by at most this much
    MaxLag        \* bound: how far a wake may be overtaken by the clock

ASSUME ReducerAssumption ==
    /\ Builds \subseteq BOOLEAN
    /\ Inputs \subseteq AllInputs
    /\ STRIDE \in Nat /\ MaxLag \in Nat

(* Half a turn of the clock is 15 days: far more than an alert or a pose   *)
(* lasts, and than a badge is late for a wake.                             *)
ASSUME LagAssumption ==
    /\ STRIDE + MaxLag < W \div 2
    /\ 2 * SECOND + STRIDE + MaxLag < W
    /\ HALF + STRIDE + MaxLag < W

VARIABLES
    now,     \* TMOS_GetSystemClock()
    rt,      \* Runtime
    out,     \* the Output of the latest step
    heard,   \* observer: the reports accepted in the running scan window
    screen,  \* what the adapter has on the display on behalf of the survey
    turned   \* observer: the clock has come round to frog_epoch since it was set

vars == <<now, rt, out, heard, screen, turned>>

Init ==
    /\ now \in Time
    /\ \E frogs \in Builds : rt = NewRuntime(frogs)
    /\ out = NoOutput
    /\ heard = {}
    /\ screen = NoFrame
    /\ turned = FALSE

(* The adapter releases an unowned display and presents a changed frame.   *)
Displayed(old, o) ==
    IF ~o.owned THEN NoFrame ELSE IF o.frame # NoFrame THEN o.frame ELSE old

Accepted(in, ev) ==
    IF ev.kind = "Report" /\ rt.phase.k = "Scanning" /\ in.allowed /\ ~in.connected
    THEN {<<ev.address, ev.found>>} ELSE {}

(* After reset_off the adapter does not return: only a reboot follows. *)
Running == "reset_off" \notin out.actions

Do(in, ev) ==
    /\ Running
    /\ LET m == Step(rt, now, in, ev)
       IN  /\ rt' = m.self
           /\ out' = m.out
           /\ screen' = Displayed(screen, m.out)
           /\ heard' = IF m.self.phase.k = "Scanning"
                       THEN heard \cup Accepted(in, ev) ELSE {}
    /\ turned' = (turned /\ ev.kind # "View")
    /\ UNCHANGED now

Tick == \E in \in Inputs : Do(in, [kind |-> "Tick"])
Ready == \E in \in Inputs, ok \in BOOLEAN : Do(in, [kind |-> "Ready", ok |-> ok])
StartResult ==
    \E in \in Inputs, ok \in BOOLEAN : Do(in, [kind |-> "StartResult", ok |-> ok])
CancelResult ==
    \E in \in Inputs, ok \in BOOLEAN : Do(in, [kind |-> "CancelResult", ok |-> ok])
Complete ==
    \E in \in Inputs, ok \in BOOLEAN : Do(in, [kind |-> "Complete", ok |-> ok])
Report ==
    \E in \in Inputs, a \in Address, d \in Detection \cup {NoDetection} :
        Do(in, [kind |-> "Report", address |-> a, found |-> d])
SuspendRequest ==
    \E in \in Inputs, after \in BOOLEAN : Do(in, [kind |-> "Suspend", ok |-> after])
Shutdown == \E in \in Inputs : Do(in, [kind |-> "Shutdown"])
Resume == \E in \in Inputs : Do(in, [kind |-> "Resume"])
View == \E in \in Inputs : Do(in, [kind |-> "View"])

Overtaken(t) ==
    /\ rt.next_wake # NoTime
    /\ Due(t, rt.next_wake)
    /\ Wsub(t, rt.next_wake) > MaxLag

Advance ==
    /\ Running
    /\ \E d \in 1 .. STRIDE :
        /\ ~Overtaken(Wadd(now, d))
        /\ now' = Wadd(now, d)
    /\ turned' = (turned \/ Wsub(now', rt.frog_epoch) < Wsub(now, rt.frog_epoch))
    /\ UNCHANGED <<rt, out, heard, screen>>

Reboot ==
    /\ ~Running
    /\ rt' = NewRuntime(rt.frogs)
    /\ out' = NoOutput /\ heard' = {} /\ screen' = NoFrame /\ turned' = FALSE
    /\ UNCHANGED now

Next ==
    \/ Tick \/ Ready \/ StartResult \/ CancelResult \/ Complete \/ Report
    \/ SuspendRequest \/ Shutdown \/ Resume \/ View \/ Advance \/ Reboot

Spec == Init /\ [][Next]_vars

-----------------------------------------------------------------------------
(* Types.                                                                  *)

(* Every variable stays in its type, whatever the events: in particular no *)
(* deadline leaves the clock's range (runtime.rs, struct Runtime, Output). *)
TypeOK ==
    /\ now \in Time
    /\ rt \in RuntimeType
    /\ out \in OutputType
    /\ heard \subseteq Address \X (Detection \cup {NoDetection})
    /\ screen \in Frame
    /\ turned \in BOOLEAN

-----------------------------------------------------------------------------
(* Safety.                                                                 *)

(* Privacy: the address table holds something only while a scan runs.  A   *)
(* completion, a timeout, a refused start, a suspension, a shutdown and a  *)
(* reset all wipe it, and a late report after any of them does not refill  *)
(* it (ScanCounter::clear and its callers; the report guard of step).      *)
WipedOutsideScan ==
    rt.phase.k # "Scanning" => rt.counter = EmptyCounter

(* The table never holds more addresses than it has slots, and says so     *)
(* exactly when a further one was heard (ScanCounter::observe_typed).      *)
HeardAddresses == {h[1] : h \in heard}

CounterIsWindow ==
    /\ Cardinality(rt.counter.seen) <= CAPACITY
    /\ rt.counter.seen \subseteq HeardAddresses
    /\ IF rt.counter.saturated
       THEN Cardinality(rt.counter.seen) = CAPACITY
            /\ Cardinality(HeardAddresses) > CAPACITY
       ELSE rt.counter.seen = HeardAddresses

(* Does the event end a running scan window whole, and still permitted? *)
EndsWindow(self, in, ev) ==
    /\ self.phase.k = "Scanning" /\ in.allowed /\ ~in.connected
    /\ ev.kind = "Complete" /\ ev.ok

(* The number on the badge is that of one whole scan window.  In any state *)
(* the successful completion of a running, still permitted scan ends its   *)
(* window and shows what was heard in it alone, capped and marked when it  *)
(* overflowed; any other event and inputs leave the number as it was, be   *)
(* it a completion that failed or came late, a refused start, a scan cut   *)
(* short, or the watchdog (finish, and the validity test of                *)
(* Event::Complete).                                                       *)
CountIsOfOneWindow ==
    Running => \A in \in Inputs, ev \in EventType :
        LET next == Step(rt, now, in, ev).self
            n == Cardinality(HeardAddresses)
        IN  IF EndsWindow(rt, in, ev)
            THEN /\ next.phase.k # "Scanning"
                 /\ next.completed.saturated = (n > CAPACITY)
                 /\ next.completed.n = IF n > CAPACITY THEN CAPACITY ELSE n
            ELSE next.completed = rt.completed

(* Once the owner asked for power-off, nothing puts the radio back to work *)
(* until the mode controller resumes: the lifecycle only drains, towards a *)
(* handoff, and a controller that has not confirmed its cancel is watched  *)
(* by the 30-second deadline (suspend, finish, Event::Ready under shutdown).*)
ShutdownOnlyDrains ==
    rt.shutdown =>
        /\ rt.phase.k \in {"Cancelling", "PowerWait", "Stopped"}
        /\ rt.phase.k = "Cancelling" => rt.shutdown_deadline # NoTime
        /\ out.actions \cap {"start_role", "start_scan", "advertise"} = {}

(* An alert is never outranked by something its own window has heard: the  *)
(* highest priority wins, whatever the order of the reports.               *)
HighestPriorityWins ==
    /\ \A h \in heard : h[2] # NoDetection =>
          /\ rt.detected # NoDetection
          /\ Priority[rt.detected] >= Priority[h[2]]
    /\ rt.alert # NoAlert =>
          rt.alert.found = rt.detected \/ PageCount[rt.detected] = 0

(* The display shows what the reducer believes it shows: presenting only   *)
(* changed frames, keeping the frame through the report fast path, and     *)
(* forgetting it on View never leave a stale picture behind.               *)
ScreenIsLastFrame == screen = rt.last_frame

Pictures == INSTANCE SurveyPictures WITH Frame <- Frame \ {NoFrame}

Watching(self) ==
    [alert |-> self.alert # NoAlert, scanning |-> self.phase.k = "Scanning",
     shutdown |-> self.shutdown, counter_view |-> self.counter_view,
     last_frame |-> self.last_frame]

(* In any state and for any event and inputs, the reducer answers as       *)
(* Display takes it for granted: an alert is born of a report alone and    *)
(* dies with the permission to show it, no scan outlives its permission,   *)
(* and there is a picture exactly when an alert or the view asks for one   *)
(* (step; the fast path of reports included).                              *)
AnswersThePanel ==
    Running => \A in \in Inputs, ev \in EventType :
        LET m == Step(rt, now, in, ev)
        IN  \/ "reset_off" \in m.out.actions
            \/ Pictures!Answers(Watching(rt), in, ev.kind, Watching(m.self),
                                m.out.owned, m.out.frame)

(* A page of an alert is on the display in its own second, and not a tick  *)
(* before it or, but for the wake's lateness, after it, even when other    *)
(* deadlines, reports and view changes intervene (the page and its         *)
(* deadline in step, and `earlier').                                       *)
PageOnTime ==
    screen[1] = "page" =>
        /\ rt.alert.found = screen[3]
        /\ screen[2] * SECOND <= Wsub(now, rt.alert.start)
        /\ Wsub(now, rt.alert.start) <= (screen[2] + 1) * SECOND + MaxLag

(* The dancing frogs keep time: pose p belongs to the p-th half second     *)
(* since the view was selected, and is on the display then and, while its  *)
(* wake is late, a little longer, whatever alerts and reports come in      *)
(* between (the pose deadline in step).  When the clock comes round to     *)
(* the selection, the last pose is not cut short where 2^32 is no multiple *)
(* of a pose: it has its half second, and pose 0 only the rest of its own. *)
Timely(pose, elapsed) ==
    /\ screen = FrogFrame(pose)
    /\ pose * HALF <= elapsed
    /\ elapsed <= (pose + 1) * HALF + MaxLag

PoseOnTime ==
    screen[1] = "frogs" /\ rt.alert = NoAlert =>
        LET elapsed == Wsub(now, rt.frog_epoch)
        IN  \E pose \in 0 .. (W \div HALF) :
              Timely(pose, elapsed) \/ (turned /\ Timely(pose, elapsed + W))

(* No deadline is slept through: while the lifecycle or the shutdown       *)
(* watchdog waits for one, a wake is due no later than it (`earlier', the  *)
(* choice of next, and the wake the report fast path keeps).               *)
Pending == {PhaseDeadline(rt), rt.shutdown_deadline} \ {NoTime}

WakeCoversDeadlines ==
    Running => \A at \in Pending :
        /\ rt.next_wake # NoTime
        /\ Wsub(at, rt.next_wake) < W \div 2

(* A cancellation whose completion is lost is asked for again when its     *)
(* retry is due, even when the wake comes late and something else happens  *)
(* first (docs/ARCHITECTURE.md: "if completion is lost, cancellation       *)
(* retries every ten seconds").                                            *)
CancelRetriesOnTime ==
    Running /\ rt.phase.k = "Cancelling" =>
        /\ rt.next_wake # NoTime
        /\ Wsub(rt.phase.at, rt.next_wake) < W \div 2
=============================================================================
