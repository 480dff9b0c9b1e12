------------------------- MODULE SurveyRuntimeProofs -------------------------
(***************************************************************************)
(* What one step of the reducer does, whoever takes it: its types, the     *)
(* fields that each stage of the pipeline leaves alone, the ways a step    *)
(* ends, and the distances of the wrapping clock.  The theorems about the  *)
(* reducer (SurveyReducerProofs) and about the badge (BadgeProofs) rest on *)
(* these lemmas.                                                           *)
(***************************************************************************)
EXTENDS SurveyRuntime, FiniteSetTheorems, TLAPS

MachineType == [self : RuntimeType, out : OutputType]

Wiped(m) == m.self.phase.k # "Scanning" => m.self.counter = EmptyCounter

Sound(m) == m \in MachineType /\ Wiped(m)

Empty(m) == m \in MachineType /\ m.self.counter = EmptyCounter

-----------------------------------------------------------------------------
(* The clock and the helpers.                                              *)

LEMMA WaddType == ASSUME NEW t \in Int, NEW d \in Int PROVE Wadd(t, d) \in Time
  BY WAssumption DEF Wadd, Time

LEMMA WsubType == ASSUME NEW a \in Int, NEW b \in Int PROVE Wsub(a, b) \in Time
  BY WAssumption DEF Wsub, Time

LEMMA ZeroIsTime == 0 \in Time /\ Time \subseteq Int /\ Time \subseteq Nat
  BY WAssumption DEF Time

(* A deadline a delay ahead is a time. *)
LEMMA DeadlineType ==
  ASSUME NEW t \in Time
  PROVE  /\ Wadd(t, FIRST) \in Time /\ Wadd(t, RETRY) \in Time
         /\ Wadd(t, QUIET) \in Time /\ Wadd(t, NEXT_SCAN) \in Time
         /\ Wadd(t, WATCHDOG) \in Time /\ Wadd(t, SHUTDOWN_LIMIT) \in Time
  BY WaddType, ZeroIsTime, DelayAssumption DEF Delay

LEMMA ClearSound ==
  ASSUME NEW m \in MachineType
  PROVE  /\ Empty(Clear(m))
         /\ Clear(m).self.phase = m.self.phase
         /\ Clear(m).self.shutdown = m.self.shutdown
         /\ Clear(m).out = m.out
  BY DEF Clear, Empty, MachineType, RuntimeType, EmptyCounter

LEMMA EmitSound ==
  ASSUME NEW m \in MachineType, NEW c \in SUBSET Command
  PROVE  /\ Emit(m, c) \in MachineType
         /\ Emit(m, c).self = m.self
  BY DEF Emit, MachineType, OutputType

LEMMA EnterSound ==
  ASSUME NEW m \in MachineType, NEW k \in PhaseKind, NEW at \in Time
  PROVE  /\ Enter(m, k, at) \in MachineType
         /\ Enter(m, k, at).self.phase.k = k
         /\ Enter(m, k, at).self.counter = m.self.counter
  BY DEF Enter, MachineType, RuntimeType, Phase

LEMMA ObserveType ==
  ASSUME NEW c \in [seen : SUBSET Address, saturated : BOOLEAN], NEW a \in Address
  PROVE  Observe(c, a) \in [seen : SUBSET Address, saturated : BOOLEAN]
  BY DEF Observe

LEMMA PublishSound ==
  ASSUME NEW m \in MachineType
  PROVE  Publish(m) \in MachineType
  <1>1. m.self.counter.seen \in SUBSET Address
    BY DEF MachineType, RuntimeType
  <1>2. Cardinality(m.self.counter.seen) \in Nat
    BY <1>1, CapacityAssumption, FS_Subset, FS_CardinalityType
  <1> QED BY <1>2 DEF Publish, MachineType, RuntimeType

LEMMA StoppedIsPhase == Stopped \in Phase /\ Stopped.k = "Stopped"
  BY ZeroIsTime DEF Stopped, Phase, PhaseKind

-----------------------------------------------------------------------------
(* The end of a window, and suspension.                                    *)

LEMMA FinishShutdownSound ==
  ASSUME NEW m, Empty(m), NEW in \in AllInputs, NEW t \in Time
  PROVE  Empty(FinishShutdown(m, t, in))
  <1> DEFINE stopped == [m EXCEPT !.self.phase = Stopped,
                                  !.self.shutdown_deadline = NoTime]
             asked == {"stop_advertising"}
                        \cup (IF in.connected THEN {"disconnect"} ELSE {})
             waiting == Enter(m, "PowerWait", Wadd(t, QUIET))
  <1>1. stopped \in MachineType /\ stopped.self.counter = EmptyCounter
    BY StoppedIsPhase DEF MachineType, RuntimeType, Empty, MaybeTime
  <1>2. Empty(Emit(stopped, {"shutdown_idle"}))
    <2>1. {"shutdown_idle"} \in SUBSET Command BY DEF Command
    <2> QED BY <1>1, <2>1, EmitSound DEF Empty
  <1>3. waiting \in MachineType /\ waiting.self.counter = EmptyCounter
    <2>1. m \in MachineType /\ m.self.counter = EmptyCounter BY DEF Empty
    <2>2. "PowerWait" \in PhaseKind BY DEF PhaseKind
    <2>3. Wadd(t, QUIET) \in Time BY DeadlineType
    <2> QED BY <2>1, <2>2, <2>3, EnterSound
  <1>4. Empty(Emit(waiting, asked))
    <2>1. asked \in SUBSET Command BY DEF Command
    <2> QED BY <1>3, <2>1, EmitSound DEF Empty
  <1>5. CASE in.advertising = "off" /\ ~in.connected
    BY <1>5, <1>2 DEF FinishShutdown
  <1>6. CASE ~(in.advertising = "off" /\ ~in.connected)
    BY <1>6, <1>4 DEF FinishShutdown
  <1> QED BY <1>5, <1>6

LEMMA FinishWindowSound ==
  ASSUME NEW m, Empty(m), NEW in \in AllInputs, NEW t \in Time, NEW ok \in BOOLEAN
  PROVE  Empty(FinishWindow(m, t, ok, in))
  <1> DEFINE next == IF m.self.ready
                     THEN Enter(m, "Waiting", Wadd(t, IF ok THEN NEXT_SCAN ELSE RETRY))
                     ELSE Enter(m, "Offline", Wadd(t, RETRY))
  <1>1. Empty(next)
    <2>1. m \in MachineType /\ m.self.counter = EmptyCounter BY DEF Empty
    <2>2. {"Waiting", "Offline"} \subseteq PhaseKind BY DEF PhaseKind
    <2>3. Wadd(t, IF ok THEN NEXT_SCAN ELSE RETRY) \in Time /\ Wadd(t, RETRY) \in Time
      BY DeadlineType
    <2>4. Empty(Enter(m, "Waiting", Wadd(t, IF ok THEN NEXT_SCAN ELSE RETRY)))
      BY <2>1, <2>2, <2>3, EnterSound, SMTT(60) DEF Empty
    <2>5. Empty(Enter(m, "Offline", Wadd(t, RETRY)))
      BY <2>1, <2>2, <2>3, EnterSound, SMTT(60) DEF Empty
    <2> QED BY <2>4, <2>5
  <1>2. Empty(Emit(next, {"advertise"}))
    <2>1. {"advertise"} \in SUBSET Command BY DEF Command
    <2> QED BY <1>1, <2>1, EmitSound DEF Empty
  <1> HIDE DEF next
  <1>3. FinishWindow(m, t, ok, in) \in {next, Emit(next, {"advertise"})}
    BY DEF FinishWindow, next
  <1> QED BY <1>1, <1>2, <1>3

LEMMA FinishSound ==
  ASSUME NEW m \in MachineType, NEW in \in AllInputs, NEW t \in Time, NEW ok \in BOOLEAN
  PROVE  Empty(Finish(m, t, ok, in))
  <1> DEFINE counted == Clear(IF ok THEN Publish(m) ELSE m)
             ended == IF m.self.shutdown THEN FinishShutdown(counted, t, in)
                      ELSE FinishWindow(counted, t, ok, in)
  <1>1. Empty(counted) BY PublishSound, ClearSound
  <1> HIDE DEF counted
  <1>2. Empty(ended) BY <1>1, FinishShutdownSound, FinishWindowSound
  <1> HIDE DEF ended
  <1>3. Empty([ended EXCEPT !.self.restore_advertising = FALSE,
                            !.self.advertise_after = FALSE])
    BY <1>2 DEF Empty, MachineType, RuntimeType
  <1> QED BY <1>3 DEF Finish, ended, counted

LEMMA SuspendSound ==
  ASSUME NEW m \in MachineType, NEW in \in AllInputs, NEW t \in Time, NEW after \in BOOLEAN
  PROVE  Empty(Suspend(m, t, after, in))
  <1> DEFINE cleared == Clear(m)
             wiped == [cleared EXCEPT
                         !.self.alert = NoAlert,
                         !.self.restore_advertising = FALSE,
                         !.self.advertise_after = after /\ ~m.self.shutdown]
             idle == Finish(wiped, t, FALSE, in)
             cancelling == Enter(wiped, "Cancelling", Wadd(t, RETRY))
  <1>1. Empty(wiped)
    <2>1. Empty(cleared) BY ClearSound
    <2>2. NoAlert \in [found : Detection \cup {NoDetection}, start : Time]
      BY ZeroIsTime DEF NoAlert
    <2>3. (after /\ ~m.self.shutdown) \in BOOLEAN OBVIOUS
    <2> HIDE DEF cleared
    <2> QED BY <2>1, <2>2, <2>3, ZenonT(60) DEF Empty, MachineType, RuntimeType
  <1> HIDE DEF wiped
  <1>2. Empty(idle) BY <1>1, FinishSound DEF Empty
  <1> HIDE DEF idle
  <1>3. Empty([idle EXCEPT !.out.actions = @ \ {"advertise"}])
    BY <1>2 DEF Empty, MachineType, OutputType
  <1>4. Empty(cancelling)
    <2>1. "Cancelling" \in PhaseKind BY DEF PhaseKind
    <2>2. Wadd(t, RETRY) \in Time BY DeadlineType
    <2> QED BY <1>1, <2>1, <2>2, EnterSound DEF Empty
  <1> HIDE DEF cancelling
  <1>5. Empty(Emit(cancelling, {"cancel_scan"}))
    <2>1. {"cancel_scan"} \in SUBSET Command BY DEF Command
    <2> QED BY <1>4, <2>1, EmitSound DEF Empty
  <1> QED BY <1>3, <1>5 DEF Suspend, wiped, idle, cancelling

-----------------------------------------------------------------------------
(* The events.                                                             *)

LEMMA EmptyIsSound == ASSUME NEW m, Empty(m) PROVE Sound(m)
  BY DEF Empty, Sound, Wiped

(* Entering any phase but Scanning keeps what is empty outside a scan only *)
(* if it was not scanning before. *)
LEMMA EnterFromIdle ==
  ASSUME NEW m, Sound(m), ~In(m, {"Scanning"}),
         NEW k \in PhaseKind, NEW at \in Time
  PROVE  Empty(Enter(m, k, at))
  <1>1. m \in MachineType /\ m.self.counter = EmptyCounter
    BY DEF Sound, Wiped, In
  <1> QED BY <1>1, EnterSound DEF Empty

LEMMA OnReadySound ==
  ASSUME NEW m, Sound(m), NEW in \in AllInputs, NEW t \in Time, NEW ok \in BOOLEAN
  PROVE  Sound(OnReady(m, t, in, ok))
  <1> DEFINE known == [m EXCEPT !.self.ready = ok]
  <1>1. Sound(known) /\ known.self.phase = m.self.phase
    BY DEF Sound, Wiped, MachineType, RuntimeType
  <1> HIDE DEF known
  <1>2. Sound(Suspend(known, t, FALSE, in))
    BY <1>1, SuspendSound, EmptyIsSound DEF Sound
  <1>3. ASSUME ~Busy(m)
        PROVE  /\ Sound(Enter(known, "Waiting", Wadd(t, FIRST)))
               /\ Sound(Enter(known, "Offline", Wadd(t, RETRY)))
    <2>1. ~In(known, {"Scanning"}) BY <1>1, <1>3 DEF Busy, In
    <2>2. {"Waiting", "Offline"} \subseteq PhaseKind BY DEF PhaseKind
    <2>3. Wadd(t, FIRST) \in Time /\ Wadd(t, RETRY) \in Time BY DeadlineType
    <2> QED BY <1>1, <2>1, <2>2, <2>3, EnterFromIdle, EmptyIsSound
  <1> QED BY <1>1, <1>2, <1>3 DEF OnReady, known

LEMMA FinishedIsSound ==
  ASSUME NEW m, Sound(m), NEW in \in AllInputs, NEW t \in Time, NEW ok \in BOOLEAN
  PROVE  Sound(Finish(m, t, ok, in))
  BY FinishSound, EmptyIsSound DEF Sound

LEMMA OnResultsSound ==
  ASSUME NEW m, Sound(m), NEW in \in AllInputs, NEW t \in Time, NEW ok \in BOOLEAN
  PROVE  /\ Sound(OnStartResult(m, t, in, ok))
         /\ Sound(OnCancelResult(m, t, in, ok))
         /\ Sound(OnComplete(m, t, in, ok))
  <1>1. Sound(OnStartResult(m, t, in, ok)) BY FinishedIsSound DEF OnStartResult
  <1>2. Sound(OnCancelResult(m, t, in, ok)) BY FinishedIsSound DEF OnCancelResult
  <1>3. Sound(OnComplete(m, t, in, ok))
    <2>1. (ok /\ In(m, {"Scanning"}) /\ in.allowed /\ ~in.connected) \in BOOLEAN
      BY DEF In
    <2> QED BY <2>1, FinishedIsSound DEF OnComplete
  <1> QED BY <1>1, <1>2, <1>3

(* A report is the only event that fills the table, and only of a scan. *)
LEMMA OnReportSound ==
  ASSUME NEW m, Sound(m), NEW in \in AllInputs, NEW t \in Time,
         NEW a \in Address, NEW found \in Detection \cup {NoDetection}
  PROVE  Sound(OnReport(m, t, in, a, found))
  <1>1. CASE ~Listening(m, in) BY <1>1 DEF OnReport
  <1>2. CASE Listening(m, in)
    <2> DEFINE seen == [m EXCEPT !.self.counter = Observe(@, a)]
               noted == [seen EXCEPT !.self.detected = found]
               raised == [seen EXCEPT !.self.detected = found,
                                      !.self.alert = [found |-> found, start |-> t]]
    <2>1. m.self.phase.k = "Scanning" BY <1>2 DEF Listening, In
    <2>2. Observe(m.self.counter, a) \in [seen : SUBSET Address, saturated : BOOLEAN]
      BY ObserveType DEF Sound, MachineType, RuntimeType
    <2>3. seen \in MachineType /\ seen.self.phase.k = "Scanning"
      BY <2>1, <2>2 DEF Sound, MachineType, RuntimeType
    <2> HIDE DEF seen
    <2>4. noted \in MachineType /\ noted.self.phase.k = "Scanning"
      BY <2>3 DEF MachineType, RuntimeType
    <2>5. raised \in MachineType /\ raised.self.phase.k = "Scanning"
      BY <2>3 DEF MachineType, RuntimeType
    <2> HIDE DEF noted, raised
    <2>6. OnReport(m, t, in, a, found) \in {seen, noted, raised}
      BY <1>2 DEF OnReport, seen, noted, raised
    <2> QED BY <2>3, <2>4, <2>5, <2>6 DEF Sound, Wiped
  <1> QED BY <1>1, <1>2

LEMMA OnShutdownSound ==
  ASSUME NEW m, Sound(m), NEW in \in AllInputs, NEW t \in Time
  PROVE  Sound(OnShutdown(m, t, in))
  <1> DEFINE deadline == IF m.self.shutdown THEN m.self.shutdown_deadline
                         ELSE Wadd(t, SHUTDOWN_LIMIT)
             told == [m EXCEPT !.self.shutdown = TRUE,
                               !.self.shutdown_deadline = deadline]
  <1>1. deadline \in MaybeTime
    BY DeadlineType DEF MaybeTime, Sound, MachineType, RuntimeType
  <1> HIDE DEF deadline
  <1>2. told \in MachineType BY <1>1 DEF Sound, MachineType, RuntimeType
  <1> HIDE DEF told
  <1>3. Sound(Suspend(told, t, FALSE, in)) BY <1>2, SuspendSound, EmptyIsSound
  <1>4. OnShutdown(m, t, in) = Suspend(told, t, FALSE, in)
    BY DEF OnShutdown, told, deadline
  <1> QED BY <1>3, <1>4

LEMMA OnResumeSound ==
  ASSUME NEW m, Sound(m), NEW t \in Time
  PROVE  Sound(OnResume(m, t))
  <1> DEFINE told == [m EXCEPT !.self.shutdown = FALSE,
                               !.self.shutdown_deadline = NoTime,
                               !.self.advertise_after = FALSE]
  <1>1. Sound(told) /\ told.self.phase = m.self.phase
    BY DEF Sound, Wiped, MachineType, RuntimeType, MaybeTime
  <1> HIDE DEF told
  <1>2. ASSUME ~Busy(m) PROVE Sound(Enter(told, "Waiting", Wadd(t, QUIET)))
    <2>1. ~In(told, {"Scanning"}) BY <1>1, <1>2 DEF Busy, In
    <2>2. "Waiting" \in PhaseKind BY DEF PhaseKind
    <2>3. Wadd(t, QUIET) \in Time BY DeadlineType
    <2> QED BY <1>1, <2>1, <2>2, <2>3, EnterFromIdle, EmptyIsSound
  <1> QED BY <1>1, <1>2 DEF OnResume, told

LEMMA NoFrameType == NoFrame \in Frame
  BY DEF NoFrame, Frame

LEMMA OnViewSound ==
  ASSUME NEW m, Sound(m), NEW t \in Time
  PROVE  Sound(OnView(m, t))
  BY NoFrameType DEF OnView, Sound, Wiped, MachineType, RuntimeType

LEMMA HandleEventSound ==
  ASSUME NEW m, Sound(m), NEW in \in AllInputs, NEW t \in Time, NEW ev \in EventType
  PROVE  Sound(HandleEvent(m, t, in, ev))
  <1>1. CASE ev.kind = "Ready"
    BY <1>1, OnReadySound DEF HandleEvent, EventType
  <1>2. CASE ev.kind \in {"StartResult", "CancelResult", "Complete"}
    BY <1>2, OnResultsSound DEF HandleEvent, EventType
  <1>3. CASE ev.kind = "Report"
    BY <1>3, OnReportSound DEF HandleEvent, EventType
  <1>4. CASE ev.kind = "Suspend"
    BY <1>4, SuspendSound, EmptyIsSound DEF HandleEvent, EventType, Sound
  <1>5. CASE ev.kind = "Shutdown"
    BY <1>5, OnShutdownSound DEF HandleEvent
  <1>6. CASE ev.kind = "Resume"
    BY <1>6, OnResumeSound DEF HandleEvent
  <1>7. CASE ev.kind = "View"
    BY <1>7, OnViewSound DEF HandleEvent
  <1>8. CASE ev.kind = "Tick"
    BY <1>8 DEF HandleEvent
  <1> QED BY <1>1, <1>2, <1>3, <1>4, <1>5, <1>6, <1>7, <1>8 DEF EventType

-----------------------------------------------------------------------------
(* Deadlines, and the permission to scan.                                  *)

LEMMA NoAlertType == NoAlert \in [found : Detection \cup {NoDetection}, start : Time]
  BY ZeroIsTime DEF NoAlert

LEMMA WaitingIsOverSound ==
  ASSUME NEW m, Sound(m), In(m, {"Waiting"}), NEW in \in AllInputs, NEW t \in Time
  PROVE  Sound(WaitingIsOver(m, t, in))
  <1> DEFINE on == in.advertising = "on"
             cleared == Clear(m)
             quiet == [cleared EXCEPT !.self.detected = NoDetection,
                                      !.self.alert = NoAlert,
                                      !.self.restore_advertising = on]
             asked == IF on THEN {"stop_advertising"} ELSE {}
  <1>1. Empty(cleared) BY ClearSound DEF Sound
  <1> HIDE DEF cleared
  <1>2. Empty(quiet) BY <1>1, NoAlertType DEF Empty, MachineType, RuntimeType
  <1> HIDE DEF quiet
  <1>3. {"Quiet", "Waiting"} \subseteq PhaseKind BY DEF PhaseKind
  <1>4. Wadd(t, QUIET) \in Time /\ Wadd(t, RETRY) \in Time BY DeadlineType
  <1>5. Empty(Enter(quiet, "Quiet", Wadd(t, QUIET)))
    BY <1>2, <1>3, <1>4, EnterSound, SMTT(60) DEF Empty
  <1>6. asked \in SUBSET Command BY DEF Command
  <1>7. Empty(Emit(Enter(quiet, "Quiet", Wadd(t, QUIET)), asked))
    BY <1>5, <1>6, EmitSound DEF Empty
  <1>8. Sound(Enter(m, "Waiting", Wadd(t, RETRY)))
    <2>1. ~In(m, {"Scanning"}) BY DEF In
    <2> QED BY <2>1, <1>3, <1>4, EnterFromIdle, EmptyIsSound
  <1>9. WaitingIsOver(m, t, in) \in
          {Emit(Enter(quiet, "Quiet", Wadd(t, QUIET)), asked),
           Enter(m, "Waiting", Wadd(t, RETRY))}
    BY DEF WaitingIsOver, quiet, cleared
  <1> HIDE DEF asked
  <1> QED BY <1>7, <1>8, <1>9, EmptyIsSound

LEMMA QuietIsOverSound ==
  ASSUME NEW m, Sound(m), NEW in \in AllInputs, NEW t \in Time
  PROVE  Sound(QuietIsOver(m, t, in))
  <1> DEFINE scanning == Enter(m, "Scanning", Wadd(t, WATCHDOG))
  <1>1. scanning \in MachineType /\ scanning.self.phase.k = "Scanning"
    <2>1. "Scanning" \in PhaseKind BY DEF PhaseKind
    <2>2. Wadd(t, WATCHDOG) \in Time BY DeadlineType
    <2> QED BY <2>1, <2>2, EnterSound DEF Sound
  <1> HIDE DEF scanning
  <1>2. Sound(Emit(scanning, {"start_scan"}))
    <2>1. {"start_scan"} \in SUBSET Command BY DEF Command
    <2> QED BY <1>1, <2>1, EmitSound DEF Sound, Wiped
  <1> QED BY <1>2, FinishedIsSound DEF QuietIsOver, scanning

LEMMA CancelAgainSound ==
  ASSUME NEW m, Empty(m), NEW t \in Time
  PROVE  Empty(CancelAgain(m, t))
  <1>1. "Cancelling" \in PhaseKind BY DEF PhaseKind
  <1>2. Wadd(t, RETRY) \in Time BY DeadlineType
  <1>3. Empty(Enter(m, "Cancelling", Wadd(t, RETRY)))
    BY <1>1, <1>2, EnterSound DEF Empty
  <1>4. {"cancel_scan"} \in SUBSET Command BY DEF Command
  <1> QED BY <1>3, <1>4, EmitSound DEF CancelAgain, Empty

LEMMA TickPhaseSound ==
  ASSUME NEW m, Sound(m), NEW in \in AllInputs, NEW t \in Time
  PROVE  Sound(TickPhase(m, t, in))
  <1>1. CASE In(m, {"Stopped"}) \/ ~Due(t, m.self.phase.at)
    BY <1>1 DEF TickPhase
  <1>2. CASE ~(In(m, {"Stopped"}) \/ ~Due(t, m.self.phase.at))
    <2> USE <1>2
    <2>1. CASE In(m, {"Offline"})
      <3> DEFINE offline == Enter(m, "Offline", Wadd(t, RETRY))
      <3>1. Empty(offline)
        <4>1. ~In(m, {"Scanning"}) BY <2>1 DEF In
        <4>2. "Offline" \in PhaseKind BY DEF PhaseKind
        <4>3. Wadd(t, RETRY) \in Time BY DeadlineType
        <4> QED BY <4>1, <4>2, <4>3, EnterFromIdle
      <3> HIDE DEF offline
      <3>2. {"start_role"} \in SUBSET Command BY DEF Command
      <3>3. Empty(Emit(offline, {"start_role"}))
        BY <3>1, <3>2, EmitSound DEF Empty
      <3> QED BY <2>1, <3>3, EmptyIsSound DEF TickPhase, offline, In
    <2>2. CASE In(m, {"Waiting"})
      BY <2>2, WaitingIsOverSound DEF TickPhase, In
    <2>3. CASE In(m, {"Quiet"})
      BY <2>3, QuietIsOverSound DEF TickPhase, In
    <2>4. CASE In(m, {"Scanning"})
      <3>1. Sound(CancelAgain(Clear(m), t))
        BY ClearSound, CancelAgainSound, EmptyIsSound DEF Sound
      <3> QED BY <2>4, <3>1 DEF TickPhase, In
    <2>5. CASE In(m, {"Cancelling"})
      <3>1. Empty(m) BY <2>5 DEF Sound, Wiped, Empty, In
      <3>2. Sound(CancelAgain(m, t)) BY <3>1, CancelAgainSound, EmptyIsSound
      <3> QED BY <2>5, <3>2 DEF TickPhase, In
    <2>6. CASE In(m, {"PowerWait"})
      BY <2>6, FinishedIsSound DEF TickPhase, In
    <2> QED BY <2>1, <2>2, <2>3, <2>4, <2>5, <2>6 DEF TickPhase, In
  <1> QED BY <1>1, <1>2

LEMMA GuardSound ==
  ASSUME NEW m, Sound(m), NEW in \in AllInputs, NEW t \in Time
  PROVE  Sound(Guard(m, t, in))
  <1>1. in.wants_advertising \in BOOLEAN BY DEF AllInputs
  <1> QED BY <1>1, SuspendSound, EmptyIsSound DEF Guard, Sound
-----------------------------------------------------------------------------
(* The picture and the wake.                                               *)

LEMMA QuotientType ==
  ASSUME NEW a \in Time, NEW d \in Nat \ {0}
  PROVE  a \div d \in Nat
  BY DEF Time

LEMMA AlertPageType ==
  ASSUME NEW self \in RuntimeType, NEW t \in Time
  PROVE  AlertPage(self, t) \in Nat
  <1>1. self.alert.start \in Time BY DEF RuntimeType
  <1>2. Wsub(t, self.alert.start) \in Time BY <1>1, WsubType, ZeroIsTime
  <1> QED BY <1>2, QuotientType, DelayAssumption DEF AlertPage, Delay

LEMMA PictureType ==
  ASSUME NEW self \in RuntimeType, NEW in \in AllInputs, NEW t \in Time
  PROVE  Picture(self, t, in) \in Frame
  <1> DEFINE page == AlertPage(self, t)
             pose == Wsub(t, self.frog_epoch) \div HALF
  <1>1. page \in Nat BY AlertPageType
  <1>2. pose \in Nat
    <2>1. self.frog_epoch \in Time BY DEF RuntimeType
    <2>2. Wsub(t, self.frog_epoch) \in Time BY <2>1, WsubType, ZeroIsTime
    <2> QED BY <2>2, QuotientType, DelayAssumption DEF Delay
  <1> HIDE DEF page, pose
  <1>3. FrogFrame(page) \in Frame
    <2>1. page % 2 \in Nat BY <1>1
    <2> QED BY <2>1 DEF FrogFrame, Frame
  <1>4. FrogFrame(pose) \in Frame
    <2>1. pose % 2 \in Nat BY <1>2
    <2> QED BY <2>1 DEF FrogFrame, Frame
  <1>5. PageFrame(self.alert.found, page) \in Frame
    BY <1>1 DEF PageFrame, Frame, RuntimeType
  <1>6. CountFrame(self.completed.n, self.completed.saturated) \in Frame
    BY DEF CountFrame, Frame, RuntimeType
  <1> QED BY <1>3, <1>4, <1>5, <1>6, NoFrameType DEF Picture, page, pose

LEMMA PictureUntilType ==
  ASSUME NEW self \in RuntimeType, NEW in \in AllInputs, NEW t \in Time
  PROVE  PictureUntil(self, t, in) \in MaybeTime
  <1>1. Wadd(self.alert.start, (AlertPage(self, t) + 1) * SECOND) \in Time
    <2>1. self.alert.start \in Int BY ZeroIsTime DEF RuntimeType
    <2>2. (AlertPage(self, t) + 1) * SECOND \in Int
      BY AlertPageType, DelayAssumption DEF Delay
    <2> QED BY <2>1, <2>2, WaddType
  <1>2. Wadd(t, HALF - (Wsub(t, self.frog_epoch) % HALF)) \in Time
    <2>1. Wsub(t, self.frog_epoch) \in Int
      BY WsubType, ZeroIsTime DEF RuntimeType
    <2>2. HALF - (Wsub(t, self.frog_epoch) % HALF) \in Int
      BY <2>1, DelayAssumption DEF Delay
    <2> QED BY <2>2, WaddType, ZeroIsTime
  <1> QED BY <1>1, <1>2 DEF PictureUntil, MaybeTime

LEMMA NextWakeType ==
  ASSUME NEW self \in RuntimeType, NEW in \in AllInputs, NEW t \in Time
  PROVE  NextWake(self, t, in) \in MaybeTime
  <1>1. PhaseDeadline(self) \in MaybeTime
    BY DEF PhaseDeadline, RuntimeType, Phase, MaybeTime
  <1>2. self.shutdown_deadline \in MaybeTime BY DEF RuntimeType
  <1> QED BY <1>1, <1>2, PictureUntilType DEF NextWake, Earlier

LEMMA RenderSound ==
  ASSUME NEW m, Sound(m), NEW in \in AllInputs, NEW t \in Time
  PROVE  Sound(Render(m, t, in))
  <1> DEFINE frame == Picture(m.self, t, in)
             wake == NextWake(m.self, t, in)
             alert == IF MayShow(m.self, in) /\ AlertLive(m.self, t)
                      THEN m.self.alert ELSE NoAlert
             after == IF wake = NoTime THEN NoTime
                      ELSE IF Due(t, wake) THEN 1 ELSE Wsub(wake, t)
             shown == IF frame = m.self.last_frame THEN NoFrame ELSE frame
             owned == frame # NoFrame
             radio_idle == ~Busy(m) /\ ~In(m, {"PowerWait"})
             self == [m.self EXCEPT !.alert = alert, !.last_frame = frame,
                                    !.next_wake = wake,
                                    !.counter_view = in.counter_view]
             output == [m.out EXCEPT !.owned = owned, !.frame = shown,
                                     !.radio_idle = radio_idle,
                                     !.wake_after = after]
  <1>1. m.self \in RuntimeType /\ m.out \in OutputType BY DEF Sound, MachineType
  <1>2. frame \in Frame BY <1>1, PictureType
  <1>3. wake \in MaybeTime BY <1>1, NextWakeType
  <1>4. alert \in [found : Detection \cup {NoDetection}, start : Time]
    BY <1>1, NoAlertType DEF RuntimeType
  <1> HIDE DEF frame, wake, alert
  <1>5. after \in Nat \cup {NoTime}
    <2>1. ASSUME wake # NoTime PROVE Wsub(wake, t) \in Nat
      <3>1. wake \in Int /\ t \in Int BY <1>3, <2>1, ZeroIsTime DEF MaybeTime
      <3> QED BY <3>1, WsubType, ZeroIsTime
    <2> QED BY <2>1
  <1>6. shown \in Frame BY <1>2, NoFrameType
  <1>7. owned \in BOOLEAN /\ radio_idle \in BOOLEAN BY DEF Busy, In
  <1> HIDE DEF after, shown, owned, radio_idle
  <1>8. output \in OutputType BY <1>1, <1>5, <1>6, <1>7 DEF OutputType
  <1>9. self \in RuntimeType BY <1>1, <1>2, <1>3, <1>4 DEF RuntimeType, AllInputs
  <1>10. self.phase = m.self.phase /\ self.counter = m.self.counter
    BY <1>1 DEF RuntimeType
  <1> HIDE DEF self, output
  <1>11. Sound([self |-> self, out |-> output])
    BY <1>8, <1>9, <1>10 DEF Sound, Wiped, MachineType
  <1> QED BY <1>11
       DEF Render, self, output, frame, wake, alert, after, shown, owned, radio_idle

LEMMA NoOutputType == NoOutput \in OutputType
  BY NoFrameType DEF NoOutput, OutputType

LEMMA ResetOffSound ==
  ASSUME NEW m, Sound(m)
  PROVE  Sound(ResetOff(m))
  <1> DEFINE cleared == Clear(m)
             off == [cleared EXCEPT !.self.alert = NoAlert,
                                    !.self.last_frame = NoFrame,
                                    !.self.shutdown_deadline = NoTime,
                                    !.self.phase = Stopped]
             output == [NoOutput EXCEPT !.actions = {"reset_off"}]
  <1>1. Empty(cleared) BY ClearSound DEF Sound
  <1> HIDE DEF cleared
  <1>2. Empty(off)
    BY <1>1, NoAlertType, NoFrameType, StoppedIsPhase
       DEF Empty, MachineType, RuntimeType, MaybeTime
  <1> HIDE DEF off
  <1>3. output \in OutputType BY NoOutputType DEF OutputType, Command
  <1> HIDE DEF output
  <1>4. Empty([off EXCEPT !.out = output]) BY <1>2, <1>3 DEF Empty, MachineType
  <1> QED BY <1>4, EmptyIsSound DEF ResetOff, off, cleared, output

LEMMA KeepFrameAndWakeSound ==
  ASSUME NEW m, Sound(m), NEW t \in Time
  PROVE  Sound(KeepFrameAndWake(m, t))
  <1> DEFINE output == [NoOutput EXCEPT
                          !.owned = m.self.last_frame # NoFrame,
                          !.wake_after = Wsub(m.self.next_wake, t)]
  <1>1. Wsub(m.self.next_wake, t) \in Nat
    <2>1. m.self.next_wake \in Int /\ t \in Int
      <3>1. m.self.next_wake \in MaybeTime BY DEF Sound, MachineType, RuntimeType
      <3> QED BY <3>1, ZeroIsTime DEF MaybeTime, NoTime
    <2> QED BY <2>1, WsubType, ZeroIsTime
  <1>2. output \in OutputType BY <1>1, NoOutputType DEF OutputType
  <1> HIDE DEF output
  <1>3. Sound([m EXCEPT !.out = output]) BY <1>2 DEF Sound, Wiped, MachineType
  <1> QED BY <1>3 DEF KeepFrameAndWake, output

-----------------------------------------------------------------------------
(* A step of the reducer.                                                  *)

LEMMA StepSound ==
  ASSUME NEW self \in RuntimeType, self.phase.k # "Scanning" => self.counter = EmptyCounter,
         NEW in \in AllInputs, NEW t \in Time, NEW ev \in EventType
  PROVE  Sound(Step(self, t, in, ev))
  <1> DEFINE m == [self |-> self, out |-> NoOutput]
             handled == HandleEvent(m, t, in, ev)
             ticked == IF ev.kind = "Tick" THEN TickPhase(handled, t, in) ELSE handled
  <1>1. Sound(m) BY NoOutputType DEF Sound, Wiped, MachineType
  <1> HIDE DEF m
  <1>2. Sound(handled) BY <1>1, HandleEventSound
  <1> HIDE DEF handled
  <1>3. Sound(ticked) BY <1>2, TickPhaseSound
  <1> HIDE DEF ticked
  <1>4. Sound(Render(Guard(ticked, t, in), t, in)) BY <1>3, GuardSound, RenderSound
  <1>5. Sound(KeepFrameAndWake(handled, t)) BY <1>2, KeepFrameAndWakeSound
  <1>6. Sound(ResetOff(handled)) BY <1>2, ResetOffSound
  <1> QED BY <1>4, <1>5, <1>6 DEF Step, ticked, handled, m

LEMMA NewRuntimeType ==
  ASSUME NEW frogs \in BOOLEAN
  PROVE  NewRuntime(frogs) \in RuntimeType /\ NewRuntime(frogs).counter = EmptyCounter
  <1>1. EmptyCounter \in [seen : SUBSET Address, saturated : BOOLEAN]
    BY DEF EmptyCounter
  <1>2. NoTime \in MaybeTime BY DEF MaybeTime
  <1> QED BY <1>1, <1>2, StoppedIsPhase, NoAlertType, NoFrameType, ZeroIsTime
          DEF NewRuntime, RuntimeType

-----------------------------------------------------------------------------
(* What a stage leaves alone.  Every stage that is not a report has one    *)
(* lemma of this kind.                                                     *)

(* The fields no stage but a report, a view change and the picture touch. *)
Kept(m, n) ==
    /\ n.self.last_frame = m.self.last_frame
    /\ n.self.detected = m.self.detected
    /\ n.self.shutdown = m.self.shutdown

Idling == {"Stopped", "PowerWait", "Waiting", "Offline"}

LEMMA ClearKeeps ==
  ASSUME NEW m \in MachineType
  PROVE  /\ Kept(m, Clear(m))
         /\ Clear(m).self.alert = m.self.alert
         /\ Clear(m).self.completed = m.self.completed
         /\ Clear(m).self.phase = m.self.phase
         /\ Clear(m).self.ready = m.self.ready
         /\ Clear(m).self.shutdown_deadline = m.self.shutdown_deadline
         /\ Clear(m).out = m.out
  BY DEF Clear, Kept, MachineType, RuntimeType

LEMMA EnterKeeps ==
  ASSUME NEW m \in MachineType, NEW k \in PhaseKind, NEW at \in Time
  PROVE  /\ Enter(m, k, at) \in MachineType
         /\ Kept(m, Enter(m, k, at))
         /\ Enter(m, k, at).self.alert = m.self.alert
         /\ Enter(m, k, at).self.completed = m.self.completed
         /\ Enter(m, k, at).self.counter = m.self.counter
         /\ Enter(m, k, at).self.phase.k = k
         /\ Enter(m, k, at).self.phase.at = at
         /\ Enter(m, k, at).self.shutdown_deadline = m.self.shutdown_deadline
         /\ Enter(m, k, at).out = m.out
  BY DEF Enter, Kept, MachineType, RuntimeType, Phase

LEMMA EmitKeeps ==
  ASSUME NEW m \in MachineType, NEW c
  PROVE  /\ Emit(m, c).self = m.self
         /\ Emit(m, c).out.actions = m.out.actions \cup c
  BY DEF Emit, MachineType, OutputType

(* What a table says: the addresses in it, and whether it overflowed. *)
Tally(counter) == [n |-> Cardinality(counter.seen), saturated |-> counter.saturated]

(* What Clear(Publish(m)) publishes is what the table held. *)
LEMMA CountedKeeps ==
  ASSUME NEW m \in MachineType, NEW ok \in BOOLEAN
  PROVE  LET counted == Clear(IF ok THEN Publish(m) ELSE m)
         IN  /\ Empty(counted)
             /\ Kept(m, counted)
             /\ counted.self.alert = m.self.alert
             /\ counted.self.completed =
                  IF ok THEN Tally(m.self.counter)
                  ELSE m.self.completed
             /\ counted.self.shutdown_deadline = m.self.shutdown_deadline
             /\ counted.out = m.out
  <1> DEFINE told == IF ok THEN Publish(m) ELSE m
  <1>1. told \in MachineType BY PublishSound
  <1>2. /\ Kept(m, told)
        /\ told.self.alert = m.self.alert
        /\ told.self.completed =
             IF ok THEN Tally(m.self.counter)
             ELSE m.self.completed
        /\ told.self.shutdown_deadline = m.self.shutdown_deadline
        /\ told.out = m.out
    BY DEF Publish, Tally, Kept, MachineType, RuntimeType
  <1> HIDE DEF told
  <1>3. /\ Empty(Clear(told))
        /\ Kept(m, Clear(told))
        /\ Clear(told).self.alert = m.self.alert
        /\ Clear(told).self.completed = told.self.completed
        /\ Clear(told).self.shutdown_deadline = m.self.shutdown_deadline
        /\ Clear(told).out = m.out
    BY <1>1, <1>2, ClearKeeps, ClearSound DEF Kept
  <1> QED BY <1>2, <1>3 DEF told

(* The commands that put the radio to work. *)
Working == {"start_role", "start_scan", "advertise"}

LEMMA FinishShutdownKeeps ==
  ASSUME NEW m, Empty(m), NEW in \in AllInputs, NEW t \in Time
  PROVE  LET n == FinishShutdown(m, t, in)
         IN  /\ Kept(m, n)
             /\ n.self.alert = m.self.alert
             /\ n.self.completed = m.self.completed
             /\ n.self.phase.k \in {"Stopped", "PowerWait"}
             /\ n.out.actions \cap Working \subseteq m.out.actions
  <1> DEFINE stopped == [m EXCEPT !.self.phase = Stopped,
                                  !.self.shutdown_deadline = NoTime]
             asked == {"stop_advertising"}
                        \cup (IF in.connected THEN {"disconnect"} ELSE {})
             waiting == Enter(m, "PowerWait", Wadd(t, QUIET))
             n == FinishShutdown(m, t, in)
  <1>0. m \in MachineType BY DEF Empty
  <1>1. /\ stopped \in MachineType
        /\ Kept(m, stopped)
        /\ stopped.self.alert = m.self.alert
        /\ stopped.self.completed = m.self.completed
        /\ stopped.self.phase.k = "Stopped"
        /\ stopped.out = m.out
    BY <1>0, StoppedIsPhase DEF Kept, MachineType, RuntimeType, MaybeTime
  <1> HIDE DEF stopped
  <1>2. /\ waiting \in MachineType
        /\ Kept(m, waiting)
        /\ waiting.self.alert = m.self.alert
        /\ waiting.self.completed = m.self.completed
        /\ waiting.self.phase.k = "PowerWait"
        /\ waiting.out = m.out
    <2>1. "PowerWait" \in PhaseKind BY DEF PhaseKind
    <2>2. Wadd(t, QUIET) \in Time BY DeadlineType
    <2> QED BY <1>0, <2>1, <2>2, EnterKeeps
  <1> HIDE DEF waiting
  <1>3. n \in {Emit(stopped, {"shutdown_idle"}), Emit(waiting, asked)}
    BY DEF FinishShutdown, stopped, waiting
  <1>4. asked \cap Working = {} /\ {"shutdown_idle"} \cap Working = {}
    BY DEF Working
  <1> HIDE DEF n, asked
  <1>5. CASE n = Emit(stopped, {"shutdown_idle"})
    <2>1. /\ n.self = stopped.self
          /\ n.out.actions = m.out.actions \cup {"shutdown_idle"}
      BY <1>5, <1>1, EmitKeeps
    <2>2. Kept(m, n) BY <1>1, <2>1 DEF Kept
    <2> QED BY <1>1, <1>4, <2>1, <2>2 DEF n
  <1>6. CASE n = Emit(waiting, asked)
    <2>1. /\ n.self = waiting.self
          /\ n.out.actions = m.out.actions \cup asked
      BY <1>6, <1>2, EmitKeeps
    <2>2. Kept(m, n) BY <1>2, <2>1 DEF Kept
    <2> QED BY <1>2, <1>4, <2>1, <2>2 DEF n
  <1> QED BY <1>3, <1>5, <1>6 DEF n

LEMMA FinishWindowKeeps ==
  ASSUME NEW m, Empty(m), NEW in \in AllInputs, NEW t \in Time, NEW ok \in BOOLEAN
  PROVE  LET n == FinishWindow(m, t, ok, in)
         IN  /\ Kept(m, n)
             /\ n.self.alert = m.self.alert
             /\ n.self.completed = m.self.completed
             /\ n.self.phase.k \in {"Waiting", "Offline"}
  <1> DEFINE next == IF m.self.ready
                     THEN Enter(m, "Waiting", Wadd(t, IF ok THEN NEXT_SCAN ELSE RETRY))
                     ELSE Enter(m, "Offline", Wadd(t, RETRY))
             n == FinishWindow(m, t, ok, in)
  <1>0. m \in MachineType BY DEF Empty
  <1>1. /\ next \in MachineType
        /\ Kept(m, next)
        /\ next.self.alert = m.self.alert
        /\ next.self.completed = m.self.completed
        /\ next.self.phase.k \in {"Waiting", "Offline"}
    <2>1. {"Waiting", "Offline"} \subseteq PhaseKind BY DEF PhaseKind
    <2> DEFINE soon == Wadd(t, IF ok THEN NEXT_SCAN ELSE RETRY)
    <2>2. soon \in Time /\ Wadd(t, RETRY) \in Time
      BY DeadlineType
    <2> HIDE DEF soon
    <2>3. next \in {Enter(m, "Waiting", soon), Enter(m, "Offline", Wadd(t, RETRY))}
      BY DEF soon
    <2> HIDE DEF next
    <2>4. ASSUME NEW k \in {"Waiting", "Offline"}, NEW at \in Time, next = Enter(m, k, at)
          PROVE  /\ next \in MachineType
                 /\ Kept(m, next)
                 /\ next.self.alert = m.self.alert
                 /\ next.self.completed = m.self.completed
                 /\ next.self.phase.k \in {"Waiting", "Offline"}
      <3>1. k \in PhaseKind BY <2>1
      <3> QED BY <1>0, <2>4, <3>1, EnterKeeps
    <2> QED BY <2>2, <2>3, <2>4
  <1> HIDE DEF next
  <1>2. n \in {next, Emit(next, {"advertise"})}
    BY DEF FinishWindow, next
  <1> HIDE DEF n
  <1>3. n.self = next.self BY <1>1, <1>2, EmitKeeps
  <1> QED BY <1>1, <1>3 DEF Kept, n

(* The end of a window wakes nothing under a shutdown. *)
LEMMA FinishKeeps ==
  ASSUME NEW m \in MachineType, NEW in \in AllInputs, NEW t \in Time, NEW ok \in BOOLEAN
  PROVE  LET n == Finish(m, t, ok, in)
         IN  /\ Kept(m, n)
             /\ n.self.alert = m.self.alert
             /\ n.self.completed =
                  IF ok THEN Tally(m.self.counter)
                  ELSE m.self.completed
             /\ n.self.phase.k \in Idling
             /\ m.self.shutdown => /\ n.self.phase.k \in {"Stopped", "PowerWait"}
                                   /\ n.out.actions \cap Working \subseteq m.out.actions
  <1> DEFINE counted == Clear(IF ok THEN Publish(m) ELSE m)
             ended == IF m.self.shutdown THEN FinishShutdown(counted, t, in)
                      ELSE FinishWindow(counted, t, ok, in)
             n == Finish(m, t, ok, in)
             sum == IF ok THEN Tally(m.self.counter)
                    ELSE m.self.completed
  <1>1. /\ Empty(counted) /\ Kept(m, counted)
        /\ counted.self.alert = m.self.alert
        /\ counted.self.completed = sum
        /\ counted.out = m.out
    BY CountedKeeps
  <1> HIDE DEF counted, sum
  <1>2. Empty(ended) BY <1>1, FinishShutdownSound, FinishWindowSound
  <1>3. /\ Kept(m, ended)
        /\ ended.self.alert = m.self.alert
        /\ ended.self.completed = sum
        /\ ended.self.phase.k \in Idling
        /\ m.self.shutdown => /\ ended.self.phase.k \in {"Stopped", "PowerWait"}
                              /\ ended.out.actions \cap Working \subseteq m.out.actions
    <2>1. CASE m.self.shutdown
      BY <2>1, <1>1, FinishShutdownKeeps DEF Kept, Idling
    <2>2. CASE ~m.self.shutdown
      BY <2>2, <1>1, FinishWindowKeeps DEF Kept, Idling
    <2> QED BY <2>1, <2>2
  <1> HIDE DEF ended
  <1>4. n = [ended EXCEPT !.self.restore_advertising = FALSE,
                          !.self.advertise_after = FALSE]
    BY DEF Finish, n, ended, counted
  <1> HIDE DEF n
  <1>5. /\ Kept(ended, n)
        /\ n.self.alert = ended.self.alert
        /\ n.self.completed = ended.self.completed
        /\ n.self.phase = ended.self.phase
        /\ n.out = ended.out
    BY <1>2, <1>4 DEF Empty, Kept, MachineType, RuntimeType
  <1> QED BY <1>3, <1>5 DEF Kept, n, sum

LEMMA SuspendKeeps ==
  ASSUME NEW m \in MachineType, NEW in \in AllInputs, NEW t \in Time, NEW after \in BOOLEAN
  PROVE  LET n == Suspend(m, t, after, in)
         IN  /\ Kept(m, n)
             /\ n.self.alert = NoAlert
             /\ n.self.completed = m.self.completed
             /\ n.self.phase.k \in Idling \cup {"Cancelling"}
             /\ m.self.shutdown =>
                  /\ n.self.phase.k \in {"Stopped", "PowerWait", "Cancelling"}
                  /\ n.self.phase.k = "Cancelling" =>
                       /\ Busy(m)
                       /\ n.self.shutdown_deadline = m.self.shutdown_deadline
                  /\ n.out.actions \cap Working \subseteq m.out.actions
  <1> DEFINE cleared == Clear(m)
             wiped == [cleared EXCEPT
                         !.self.alert = NoAlert,
                         !.self.restore_advertising = FALSE,
                         !.self.advertise_after = after /\ ~m.self.shutdown]
             idle == Finish(wiped, t, FALSE, in)
             cancelling == Enter(wiped, "Cancelling", Wadd(t, RETRY))
             n == Suspend(m, t, after, in)
  <1>1. /\ wiped \in MachineType
        /\ Kept(m, wiped)
        /\ wiped.self.alert = NoAlert
        /\ wiped.self.completed = m.self.completed
        /\ wiped.self.shutdown_deadline = m.self.shutdown_deadline
        /\ wiped.out = m.out
    <2>1. /\ cleared \in MachineType
          /\ Kept(m, cleared)
          /\ cleared.self.completed = m.self.completed
          /\ cleared.self.shutdown_deadline = m.self.shutdown_deadline
          /\ cleared.out = m.out
      BY ClearSound, ClearKeeps DEF Empty
    <2>2. (after /\ ~m.self.shutdown) \in BOOLEAN OBVIOUS
    <2> HIDE DEF cleared
    <2>3. wiped \in MachineType
      BY <2>1, <2>2, NoAlertType, ZenonT(60) DEF MachineType, RuntimeType
    <2>4. /\ Kept(cleared, wiped)
          /\ wiped.self.alert = NoAlert
          /\ wiped.self.completed = cleared.self.completed
          /\ wiped.self.shutdown_deadline = cleared.self.shutdown_deadline
          /\ wiped.out = cleared.out
      BY <2>1 DEF Kept, MachineType, RuntimeType
    <2> HIDE DEF wiped
    <2> QED BY <2>1, <2>3, <2>4 DEF Kept
  <1> HIDE DEF wiped
  <1>2. /\ idle \in MachineType
        /\ Kept(m, idle)
        /\ idle.self.alert = NoAlert
        /\ idle.self.completed = m.self.completed
        /\ idle.self.phase.k \in Idling
        /\ m.self.shutdown => /\ idle.self.phase.k \in {"Stopped", "PowerWait"}
                              /\ idle.out.actions \cap Working \subseteq m.out.actions
    <2>1. idle \in MachineType BY <1>1, FinishSound DEF Empty
    <2> QED BY <1>1, <2>1, FinishKeeps, ZenonT(60) DEF Kept
  <1> HIDE DEF idle
  <1>3. /\ cancelling \in MachineType
        /\ Kept(m, cancelling)
        /\ cancelling.self.alert = NoAlert
        /\ cancelling.self.completed = m.self.completed
        /\ cancelling.self.phase.k = "Cancelling"
        /\ cancelling.self.shutdown_deadline = m.self.shutdown_deadline
        /\ cancelling.out = m.out
    <2>1. "Cancelling" \in PhaseKind BY DEF PhaseKind
    <2>2. Wadd(t, RETRY) \in Time BY DeadlineType
    <2> QED BY <1>1, <2>1, <2>2, EnterKeeps DEF Kept
  <1> HIDE DEF cancelling
  <1>4. \/ Busy(m) /\ n = Emit(cancelling, {"cancel_scan"})
        \/ n = [idle EXCEPT !.out.actions = @ \ {"advertise"}]
    BY DEF Suspend, n, wiped, idle, cancelling, cleared
  <1> HIDE DEF n
  <1>5. CASE Busy(m) /\ n = Emit(cancelling, {"cancel_scan"})
    <2>1. n.self = cancelling.self /\ n.out.actions = m.out.actions \cup {"cancel_scan"}
      BY <1>3, <1>5, EmitKeeps
    <2>2. {"cancel_scan"} \cap Working = {} BY DEF Working
    <2>3. Kept(m, n) BY <1>3, <2>1 DEF Kept
    <2> QED BY <1>3, <1>5, <2>1, <2>2, <2>3 DEF n
  <1>6. CASE n = [idle EXCEPT !.out.actions = @ \ {"advertise"}]
    <2>1. n.self = idle.self /\ n.out.actions \subseteq idle.out.actions
      BY <1>2, <1>6 DEF MachineType, OutputType
    <2>2. Kept(m, n) BY <1>2, <2>1 DEF Kept
    <2> QED BY <1>2, <2>1, <2>2 DEF n, Idling
  <1> QED BY <1>4, <1>5, <1>6

-----------------------------------------------------------------------------
(* The end of a step.                                                      *)

LEMMA RenderShows ==
  ASSUME NEW m, Sound(m), NEW in \in AllInputs, NEW t \in Time
  PROVE  LET n == Render(m, t, in)
         IN  /\ n.self.phase = m.self.phase
             /\ n.self.counter = m.self.counter
             /\ n.self.completed = m.self.completed
             /\ n.self.detected = m.self.detected
             /\ n.self.shutdown = m.self.shutdown
             /\ n.self.shutdown_deadline = m.self.shutdown_deadline
             /\ n.self.alert = IF MayShow(m.self, in) /\ AlertLive(m.self, t)
                               THEN m.self.alert ELSE NoAlert
             /\ n.self.last_frame = Picture(m.self, t, in)
             /\ n.self.next_wake = NextWake(m.self, t, in)
             /\ n.self.counter_view = in.counter_view
             /\ n.out.actions = m.out.actions
             /\ n.out.radio_idle = (~Busy(m) /\ ~In(m, {"PowerWait"}))
             /\ n.out.wake_after = LET wake == NextWake(m.self, t, in)
                                   IN  IF wake = NoTime THEN NoTime
                                       ELSE IF Due(t, wake) THEN 1 ELSE Wsub(wake, t)
             /\ n.out.owned = (Picture(m.self, t, in) # NoFrame)
             /\ n.out.frame = IF Picture(m.self, t, in) = m.self.last_frame THEN NoFrame
                              ELSE Picture(m.self, t, in)
  <1> DEFINE frame == Picture(m.self, t, in)
             wake == NextWake(m.self, t, in)
             alert == IF MayShow(m.self, in) /\ AlertLive(m.self, t)
                      THEN m.self.alert ELSE NoAlert
             after == IF wake = NoTime THEN NoTime
                      ELSE IF Due(t, wake) THEN 1 ELSE Wsub(wake, t)
             shown == IF frame = m.self.last_frame THEN NoFrame ELSE frame
             owned == frame # NoFrame
             radio_idle == ~Busy(m) /\ ~In(m, {"PowerWait"})
             self == [m.self EXCEPT !.alert = alert, !.last_frame = frame,
                                    !.next_wake = wake,
                                    !.counter_view = in.counter_view]
             output == [m.out EXCEPT !.owned = owned, !.frame = shown,
                                     !.radio_idle = radio_idle,
                                     !.wake_after = after]
  <1>1. m.self \in RuntimeType /\ m.out \in OutputType BY DEF Sound, MachineType
  <1>2. Render(m, t, in) = [self |-> self, out |-> output] BY DEF Render
  <1> HIDE DEF frame, wake, alert, after, shown, owned, radio_idle
  <1>3. /\ self.phase = m.self.phase
        /\ self.counter = m.self.counter
        /\ self.completed = m.self.completed
        /\ self.detected = m.self.detected
        /\ self.shutdown = m.self.shutdown
        /\ self.shutdown_deadline = m.self.shutdown_deadline
        /\ self.alert = alert
        /\ self.last_frame = frame
        /\ self.next_wake = wake
        /\ self.counter_view = in.counter_view
    BY <1>1 DEF RuntimeType
  <1>4. /\ output.actions = m.out.actions
        /\ output.radio_idle = radio_idle
        /\ output.wake_after = after
        /\ output.owned = owned
        /\ output.frame = shown
    BY <1>1 DEF OutputType
  <1> HIDE DEF self, output
  <1>5. Render(m, t, in).self = self /\ Render(m, t, in).out = output BY <1>2
  <1> QED BY <1>3, <1>4, <1>5
          DEF frame, wake, alert, after, shown, owned, radio_idle

LEMMA ResetOffClears ==
  ASSUME NEW m, Sound(m)
  PROVE  LET n == ResetOff(m)
         IN  /\ n.self.phase = Stopped
             /\ n.self.alert = NoAlert
             /\ n.self.last_frame = NoFrame
             /\ n.self.detected = m.self.detected
             /\ n.self.completed = m.self.completed
             /\ n.self.shutdown = m.self.shutdown
             /\ n.out.actions = {"reset_off"}
             /\ ~n.out.owned
  <1> DEFINE cleared == Clear(m)
             off == [cleared EXCEPT !.self.alert = NoAlert,
                                    !.self.last_frame = NoFrame,
                                    !.self.shutdown_deadline = NoTime,
                                    !.self.phase = Stopped]
             output == [NoOutput EXCEPT !.actions = {"reset_off"}]
             n == [off EXCEPT !.out = output]
  <1>1. /\ cleared \in MachineType
        /\ Kept(m, cleared)
        /\ cleared.self.completed = m.self.completed
    BY ClearSound, ClearKeeps DEF Empty, Sound
  <1>2. ResetOff(m) = n BY DEF ResetOff
  <1> HIDE DEF cleared
  <1>3. /\ off \in MachineType
        /\ off.self.phase = Stopped
        /\ off.self.alert = NoAlert
        /\ off.self.last_frame = NoFrame
        /\ off.self.detected = m.self.detected
        /\ off.self.completed = m.self.completed
        /\ off.self.shutdown = m.self.shutdown
    BY <1>1, StoppedIsPhase, NoAlertType, NoFrameType
       DEF Kept, MachineType, RuntimeType, MaybeTime
  <1>4. output.actions = {"reset_off"} /\ output.owned = FALSE BY DEF NoOutput
  <1> HIDE DEF off, output
  <1>5. n.self = off.self /\ n.out = output BY <1>3 DEF MachineType
  <1> HIDE DEF n
  <1> QED BY <1>2, <1>3, <1>4, <1>5

LEMMA KeepKeeps ==
  ASSUME NEW m, Sound(m), NEW t \in Time
  PROVE  LET n == KeepFrameAndWake(m, t)
         IN  /\ n.self = m.self
             /\ n.out.actions = {}
             /\ n.out.radio_idle = FALSE
             /\ n.out.wake_after = Wsub(m.self.next_wake, t)
             /\ n.out.owned = (m.self.last_frame # NoFrame)
             /\ n.out.frame = NoFrame
  <1> DEFINE output == [NoOutput EXCEPT
                          !.owned = m.self.last_frame # NoFrame,
                          !.wake_after = Wsub(m.self.next_wake, t)]
  <1>1. /\ output.actions = {}
        /\ output.radio_idle = FALSE
        /\ output.wake_after = Wsub(m.self.next_wake, t)
        /\ output.owned = (m.self.last_frame # NoFrame)
        /\ output.frame = NoFrame
    BY DEF NoOutput
  <1>2. KeepFrameAndWake(m, t) = [m EXCEPT !.out = output] BY DEF KeepFrameAndWake
  <1> HIDE DEF output
  <1>3. /\ [m EXCEPT !.out = output].self = m.self
        /\ [m EXCEPT !.out = output].out = output
    BY DEF Sound, MachineType
  <1> QED BY <1>1, <1>2, <1>3

-----------------------------------------------------------------------------
(* A whole step, seen from the window, the alert and the display.          *)

Begin(self) == [self |-> self, out |-> NoOutput]

(* The three ways a step ends. *)
LEMMA StepEnds ==
  ASSUME NEW self \in RuntimeType, self.phase.k # "Scanning" => self.counter = EmptyCounter,
         NEW in \in AllInputs, NEW t \in Time, NEW ev \in EventType
  PROVE  LET h == HandleEvent(Begin(self), t, in, ev)
             x == IF ev.kind = "Tick" THEN TickPhase(h, t, in) ELSE h
             s == Step(self, t, in, ev)
         IN  /\ Sound(Begin(self)) /\ Sound(h) /\ Sound(x) /\ Sound(Guard(x, t, in))
             /\ Begin(self).self = self /\ Begin(self).out = NoOutput
             /\ \/ FastPath(self, h, t, in, ev) /\ s = KeepFrameAndWake(h, t)
                \/ ShutdownOverdue(h, t) /\ s = ResetOff(h)
                \/ ~ShutdownOverdue(h, t) /\ s = Render(Guard(x, t, in), t, in)
  <1> DEFINE h == HandleEvent(Begin(self), t, in, ev)
             x == IF ev.kind = "Tick" THEN TickPhase(h, t, in) ELSE h
  <1>1. Sound(Begin(self)) BY NoOutputType DEF Sound, Wiped, MachineType, Begin
  <1>2. Sound(h) BY <1>1, HandleEventSound
  <1>3. Step(self, t, in, ev) = IF FastPath(self, h, t, in, ev) THEN KeepFrameAndWake(h, t)
                                ELSE IF ShutdownOverdue(h, t) THEN ResetOff(h)
                                ELSE Render(Guard(x, t, in), t, in)
    BY DEF Step, Begin
  <1> HIDE DEF h
  <1>4. Sound(x) BY <1>2, TickPhaseSound
  <1>5. Sound(Guard(x, t, in)) BY <1>4, GuardSound
  <1>6. Begin(self).self = self /\ Begin(self).out = NoOutput BY DEF Begin
  <1> QED BY <1>1, <1>2, <1>3, <1>4, <1>5, <1>6 DEF h

-----------------------------------------------------------------------------
(* The clock: distances on a circle.                                       *)

HalfTurn == W \div 2

LEMMA HalfTurnIs == HalfTurn \in Nat /\ W = 2 * HalfTurn /\ HalfTurn > 0
  BY WAssumption DEF HalfTurn

LEMMA ModOfNear ==
  ASSUME NEW x \in Int
  PROVE  /\ 0 <= x /\ x < W => x % W = x
         /\ W <= x /\ x < 2 * W => x % W = x - W
         /\ -W <= x /\ x < 0 => x % W = x + W
  BY WAssumption

LEMMA WsubIs ==
  ASSUME NEW a \in Time, NEW b \in Time
  PROVE  Wsub(a, b) = IF a >= b THEN a - b ELSE a - b + W
  BY WAssumption, ModOfNear DEF Wsub, Time

(* A deadline is as far ahead as it was set. *)
LEMMA WsubOfWadd ==
  ASSUME NEW t \in Time, NEW d \in Nat, d < W
  PROVE  /\ Wadd(t, d) \in Time
         /\ Wsub(Wadd(t, d), t) = d
  <1>1. t \in Nat /\ t < W /\ W \in Nat /\ t + d \in Int BY WAssumption DEF Time
  <1>2. Wadd(t, d) = IF t + d < W THEN t + d ELSE t + d - W
    BY <1>1, ModOfNear DEF Wadd
  <1>3. Wadd(t, d) \in Time BY <1>1, <1>2 DEF Time
  <1> QED BY <1>1, <1>2, <1>3, WsubIs

(* Distances from the same point compare as their ends lie. *)
LEMMA WsubSplits ==
  ASSUME NEW a \in Time, NEW b \in Time, NEW t \in Time, Wsub(b, t) <= Wsub(a, t)
  PROVE  Wsub(a, b) = Wsub(a, t) - Wsub(b, t)
  BY WsubIs, WAssumption DEF Time

(* Distances add up to the distance, within a turn. *)
LEMMA WsubAdds ==
  ASSUME NEW a \in Time, NEW b \in Time, NEW t \in Time,
         Wsub(b, t) + Wsub(a, b) < W
  PROVE  Wsub(a, t) = Wsub(b, t) + Wsub(a, b)
  <1>1. a \in Nat /\ b \in Nat /\ t \in Nat /\ a < W /\ b < W /\ t < W /\ W \in Nat
    BY WAssumption DEF Time
  <1> QED BY <1>1, WsubIs

(* The way back is the rest of the turn. *)
LEMMA WsubTurns ==
  ASSUME NEW a \in Time, NEW b \in Time
  PROVE  Wsub(b, a) = IF Wsub(a, b) = 0 THEN 0 ELSE W - Wsub(a, b)
  <1>1. a \in Nat /\ b \in Nat /\ a < W /\ b < W /\ W \in Nat
    BY WAssumption DEF Time
  <1> QED BY <1>1, WsubIs

(* As the clock advances, what is ahead comes closer. *)
LEMMA WsubAdvances ==
  ASSUME NEW a \in Time, NEW t \in Time, NEW d \in Nat, d < W
  PROVE  Wsub(a, Wadd(t, d)) = IF d <= Wsub(a, t) THEN Wsub(a, t) - d
                               ELSE Wsub(a, t) - d + W
  <1>1. t \in Nat /\ t < W /\ W \in Nat /\ t + d \in Int BY WAssumption DEF Time
  <1>2. Wadd(t, d) = IF t + d < W THEN t + d ELSE t + d - W
    BY <1>1, ModOfNear DEF Wadd
  <1>3. Wadd(t, d) \in Time BY <1>1, <1>2 DEF Time
  <1>4. a \in Nat /\ a < W BY <1>1 DEF Time
  <1> QED BY <1>1, <1>2, <1>3, <1>4, WsubIs

(* ... and what lies behind falls back. *)
LEMMA WsubFallsBack ==
  ASSUME NEW s \in Time, NEW t \in Time, NEW d \in Nat, d < W
  PROVE  Wsub(Wadd(t, d), s) = IF Wsub(t, s) + d < W THEN Wsub(t, s) + d
                               ELSE Wsub(t, s) + d - W
  <1>1. t \in Nat /\ t < W /\ W \in Nat /\ t + d \in Int BY WAssumption DEF Time
  <1>2. Wadd(t, d) = IF t + d < W THEN t + d ELSE t + d - W
    BY <1>1, ModOfNear DEF Wadd
  <1>3. Wadd(t, d) \in Time BY <1>1, <1>2 DEF Time
  <1>4. s \in Nat /\ s < W BY <1>1 DEF Time
  <1> QED BY <1>1, <1>2, <1>3, <1>4, WsubIs

(* The wake is none of the candidates' later ones. *)
Covers(t, wake, at) ==
    at # NoTime => wake \in Time /\ Wsub(wake, t) <= Wsub(at, t)

LEMMA NextWakeCovers ==
  ASSUME NEW self \in RuntimeType, NEW in \in AllInputs, NEW t \in Time
  PROVE  LET wake == NextWake(self, t, in)
         IN  /\ Covers(t, wake, PhaseDeadline(self))
             /\ Covers(t, wake, self.shutdown_deadline)
             /\ Covers(t, wake, PictureUntil(self, t, in))
  <1> DEFINE a == PhaseDeadline(self)
             b == self.shutdown_deadline
             u == PictureUntil(self, t, in)
             r == IF b = NoTime THEN a ELSE Earlier(t, a, b)
             wake == NextWake(self, t, in)
  <1>1. a \in MaybeTime BY DEF PhaseDeadline, RuntimeType, Phase, MaybeTime
  <1>2. b \in MaybeTime BY DEF RuntimeType
  <1>3. u \in MaybeTime BY PictureUntilType
  <1>4. wake = IF u = NoTime THEN r ELSE Earlier(t, r, u) BY DEF NextWake
  <1>5. \A x \in Time : Wsub(x, t) \in Nat BY WsubType, ZeroIsTime
  <1> HIDE DEF a, b, u, wake
  <1>6. r \in MaybeTime /\ Covers(t, r, a) /\ Covers(t, r, b)
    BY <1>1, <1>2, <1>5 DEF Earlier, Covers, MaybeTime
  <1> HIDE DEF r
  <1>7. Covers(t, wake, a) /\ Covers(t, wake, b) /\ Covers(t, wake, u)
    <2>1. CASE u = NoTime
      <3>1. wake = r BY <1>4, <2>1
      <3> QED BY <1>6, <2>1, <3>1 DEF Covers
    <2>2. CASE u # NoTime /\ (r = NoTime \/ Wsub(u, t) < Wsub(r, t))
      <3>1. wake = u /\ u \in Time BY <1>3, <1>4, <2>2 DEF Earlier, MaybeTime
      <3>2. NoTime \notin Time BY DEF NoTime, Time
      <3>3. ASSUME NEW x \in {a, b}, x # NoTime
            PROVE  Wsub(u, t) <= Wsub(x, t)
        <4>1. r \in Time /\ Wsub(r, t) <= Wsub(x, t) BY <1>6, <3>3 DEF Covers
        <4>2. x \in Time BY <1>1, <1>2, <3>3 DEF MaybeTime
        <4>3. Wsub(u, t) < Wsub(r, t) BY <2>2, <3>2, <4>1
        <4> QED BY <1>5, <3>1, <4>1, <4>2, <4>3
      <3>4. Wsub(u, t) <= Wsub(u, t) BY <1>5, <3>1
      <3> QED BY <3>1, <3>3, <3>4 DEF Covers
    <2>3. CASE u # NoTime /\ ~(r = NoTime \/ Wsub(u, t) < Wsub(r, t))
      <3>1. wake = r /\ r \in Time /\ u \in Time
        BY <1>3, <1>4, <1>6, <2>3 DEF Earlier, MaybeTime
      <3>2. Wsub(r, t) <= Wsub(u, t) BY <1>5, <2>3, <3>1
      <3> QED BY <1>6, <3>1, <3>2 DEF Covers
    <2> QED BY <2>1, <2>2, <2>3
  <1> QED BY <1>7 DEF a, b, u, wake

-----------------------------------------------------------------------------
(* Deadlines lie less than half a turn ahead.                              *)

Ahead(t, at) == Wsub(at, t) < HalfTurn

Near(m, t) ==
    /\ m.self.phase.k # "Stopped" => Ahead(t, m.self.phase.at)
    /\ m.self.shutdown_deadline # NoTime => Ahead(t, m.self.shutdown_deadline)

LEMMA FreshDeadline ==
  ASSUME NEW t \in Time,
         NEW d \in {FIRST, RETRY, QUIET, NEXT_SCAN, WATCHDOG, SHUTDOWN_LIMIT}
  PROVE  Wadd(t, d) \in Time /\ Ahead(t, Wadd(t, d)) /\ Wadd(t, d) # NoTime
  <1>1. d \in Nat /\ d < HalfTurn
    BY DelayAssumption, TurnAssumption DEF Delay, HalfTurn
  <1>2. d < W BY <1>1, HalfTurnIs
  <1>3. Wadd(t, d) # NoTime BY <1>1, <1>2, WsubOfWadd DEF Time, NoTime
  <1> QED BY <1>1, <1>2, <1>3, WsubOfWadd DEF Ahead
=============================================================================
