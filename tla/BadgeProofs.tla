---------------------------- MODULE BadgeProofs ----------------------------
(***************************************************************************)
(* The badge, for every choice of what may fail: between two handlers the  *)
(* wake the survey waits for is on its way, the radio is shared as         *)
(* RadioArbiter promises, and, where the controller's state can be read,   *)
(* advertising comes back.  The first two follow from one inductive        *)
(* invariant, Inv.  It says what must be true of every item a handler has  *)
(* still to do, so that it is still right when its turn comes after any    *)
(* callback nested before it; of the phase of the reducer while the        *)
(* controller discovers or a completion is on its way; and of a handoff to *)
(* power-off that a button overtakes.  The third needs AdvInv beside it:   *)
(* who owes the badge its advertising at every moment it is silent.        *)
(***************************************************************************)
EXTENDS Badge, SurveyRuntimeProofs, SequenceTheorems

-----------------------------------------------------------------------------
(* A step of the reducer, seen from the radio.                             *)

Discovering(self) == self.phase.k \in {"Scanning", "Cancelling"}

(* No deadline of the phase can be met before the clock moves on. *)
Fresh(self, t) == self.phase.k = "Stopped" \/ ~Due(t, self.phase.at)

(* The events that say that the controller discovers no more. *)
TellsIdle(ev) ==
    \/ ev.kind = "StartResult" /\ ~ev.ok
    \/ ev.kind = "CancelResult" /\ ev.ok
    \/ ev.kind = "Complete"

(* Inputs that were read from a silent radio. *)
ReadsSilent(in) == in.advertising = "off" /\ ~in.connected

Stays(m, n) == n.self.phase = m.self.phase /\ n.out.actions = {}

Cancels(n) == n.self.phase.k = "Cancelling" /\ n.out.actions = {"cancel_scan"}

(* The commands of a reducer that does not discover. *)
RestingCalls(n, in) ==
    \/ n.out.actions \subseteq {"stop_advertising", "disconnect"}
    \/ n.out.actions \in {{"start_role"}, {"advertise"}}
    \/ n.out.actions = {"shutdown_idle"} /\ ReadsSilent(in)

Rests(n, t, in) ==
    ~Discovering(n.self) /\ Fresh(n.self, t) /\ RestingCalls(n, in)

Starts(m, n, t, in) ==
    /\ m.self.phase.k = "Quiet" /\ Due(t, m.self.phase.at)
    /\ ReadsSilent(in) /\ in.allowed
    /\ n.self.phase.k = "Scanning" /\ ~n.self.shutdown
    /\ n.out.actions = {"start_scan"}

LEMMA BusyIs == ASSUME NEW m PROVE Busy(m) <=> Discovering(m.self)
  BY DEF Busy, In, Discovering

LEMMA FreshIs ==
  ASSUME NEW t \in Time,
         NEW d \in {FIRST, RETRY, QUIET, NEXT_SCAN, WATCHDOG, SHUTDOWN_LIMIT}
  PROVE  Wadd(t, d) \in Time /\ ~Due(t, Wadd(t, d))
  <1>1. Wadd(t, d) \in Time /\ Wsub(Wadd(t, d), t) < HalfTurn
    BY FreshDeadline DEF Ahead
  <1>2. d \in Nat \ {0} /\ d < HalfTurn
    BY DelayAssumption, TurnAssumption DEF Delay, HalfTurn
  <1>3. Wsub(Wadd(t, d), t) = d BY <1>2, WsubOfWadd, HalfTurnIs
  <1>4. Wsub(t, Wadd(t, d)) = W - d BY <1>1, <1>2, <1>3, WsubTurns
  <1> QED BY <1>1, <1>2, <1>4, HalfTurnIs DEF Due, HalfTurn

LEMMA EnterRests ==
  ASSUME NEW m \in MachineType, NEW t \in Time, NEW at \in Time, ~Due(t, at),
         NEW k \in {"Offline", "Waiting", "Quiet", "PowerWait"}
  PROVE  LET n == Enter(m, k, at)
         IN  /\ n \in MachineType
             /\ n.self.phase.k = k
             /\ ~Discovering(n.self) /\ Fresh(n.self, t)
             /\ n.out = m.out
             /\ n.self.shutdown = m.self.shutdown
  <1>1. k \in PhaseKind BY DEF PhaseKind
  <1> QED BY <1>1, EnterKeeps DEF Discovering, Fresh, Kept

LEMMA FinishShutdownRests ==
  ASSUME NEW m \in MachineType, NEW in \in AllInputs, NEW t \in Time,
         m.out.actions = {}
  PROVE  LET n == FinishShutdown(m, t, in)
         IN  /\ n \in MachineType
             /\ Rests(n, t, in)
             /\ n.self.phase.k = "PowerWait" \/ ReadsSilent(in)
  <1> DEFINE stopped == [m EXCEPT !.self.phase = Stopped,
                                  !.self.shutdown_deadline = NoTime]
             asked == {"stop_advertising"}
                        \cup (IF in.connected THEN {"disconnect"} ELSE {})
             waiting == Enter(m, "PowerWait", Wadd(t, QUIET))
             n == FinishShutdown(m, t, in)
  <1>1. /\ stopped \in MachineType
        /\ stopped.self.phase.k = "Stopped"
        /\ stopped.out = m.out
    BY StoppedIsPhase DEF MachineType, RuntimeType, MaybeTime
  <1> HIDE DEF stopped
  <1>2. /\ waiting \in MachineType /\ waiting.self.phase.k = "PowerWait"
        /\ ~Discovering(waiting.self) /\ Fresh(waiting.self, t)
        /\ waiting.out = m.out
    <2>1. Wadd(t, QUIET) \in Time /\ ~Due(t, Wadd(t, QUIET)) BY FreshIs
    <2> QED BY <2>1, EnterRests
  <1> HIDE DEF waiting
  <1>3. asked \in SUBSET Command /\ {"shutdown_idle"} \in SUBSET Command
    BY DEF Command
  <1>4. asked \subseteq {"stop_advertising", "disconnect"} OBVIOUS
  <1>5. CASE ReadsSilent(in)
    <2>1. n = Emit(stopped, {"shutdown_idle"})
      BY <1>5 DEF FinishShutdown, stopped, ReadsSilent
    <2> HIDE DEF n
    <2>2. /\ n \in MachineType
          /\ n.self = stopped.self /\ n.out.actions = {"shutdown_idle"}
      BY <1>1, <1>3, <2>1, EmitSound, EmitKeeps
    <2>3. Rests(n, t, in)
      BY <1>1, <1>5, <2>2 DEF Rests, Discovering, Fresh, RestingCalls
    <2> QED BY <1>5, <2>2, <2>3 DEF n
  <1>6. CASE ~ReadsSilent(in)
    <2>1. n = Emit(waiting, asked)
      BY <1>6 DEF FinishShutdown, waiting, ReadsSilent
    <2> HIDE DEF n, asked
    <2>a. n \in MachineType BY <1>2, <1>3, <2>1, EmitSound
    <2>b. n.self = waiting.self /\ n.out.actions = waiting.out.actions \cup asked
      BY <1>2, <2>1, EmitKeeps
    <2>2. n.self = waiting.self /\ n.out.actions = asked BY <1>2, <2>b
    <2>3. Rests(n, t, in) BY <1>2, <1>4, <2>2 DEF Rests, RestingCalls
    <2> QED BY <1>2, <2>a, <2>2, <2>3 DEF n
  <1> QED BY <1>5, <1>6

LEMMA FinishWindowRests ==
  ASSUME NEW m \in MachineType, NEW in \in AllInputs, NEW t \in Time, NEW ok \in BOOLEAN,
         m.out.actions = {}
  PROVE  LET n == FinishWindow(m, t, ok, in)
         IN  n \in MachineType /\ Rests(n, t, in)
  <1> DEFINE soon == Wadd(t, IF ok THEN NEXT_SCAN ELSE RETRY)
             later == Wadd(t, RETRY)
             next == IF m.self.ready THEN Enter(m, "Waiting", soon)
                     ELSE Enter(m, "Offline", later)
             n == FinishWindow(m, t, ok, in)
  <1>1. soon \in Time /\ ~Due(t, soon) /\ later \in Time /\ ~Due(t, later)
    BY FreshIs
  <1> HIDE DEF soon, later
  <1>2. /\ next \in MachineType
        /\ ~Discovering(next.self) /\ Fresh(next.self, t)
        /\ next.out = m.out
    <2>1. ASSUME NEW k \in {"Waiting", "Offline"}, NEW at \in {soon, later}
          PROVE  LET x == Enter(m, k, at)
                 IN  /\ x \in MachineType
                     /\ ~Discovering(x.self) /\ Fresh(x.self, t)
                     /\ x.out = m.out
      <3>1. k \in {"Offline", "Waiting", "Quiet", "PowerWait"} OBVIOUS
      <3>2. at \in Time /\ ~Due(t, at) BY <1>1
      <3> DEFINE x == Enter(m, k, at)
      <3>3. k \in PhaseKind BY DEF PhaseKind
      <3>4. x.out = m.out BY <3>2, <3>3, EnterKeeps
      <3>5. /\ x \in MachineType
            /\ ~Discovering(x.self) /\ Fresh(x.self, t)
        BY <3>1, <3>2, EnterRests
      <3> QED BY <3>4, <3>5
    <2> QED BY <2>1
  <1>3. n \in {next, Emit(next, {"advertise"})}
    BY DEF FinishWindow, next, soon, later
  <1> HIDE DEF next, n
  <1>4. {"advertise"} \in SUBSET Command BY DEF Command
  <1>5. /\ n \in MachineType
        /\ n.self = next.self /\ n.out.actions \in {{}, {"advertise"}}
    BY <1>2, <1>3, <1>4, EmitSound, EmitKeeps
  <1> QED BY <1>2, <1>5 DEF Rests, RestingCalls, n

(* Whatever ends a window leaves a reducer that discovers no more. *)
LEMMA FinishRests ==
  ASSUME NEW m \in MachineType, NEW in \in AllInputs, NEW t \in Time, NEW ok \in BOOLEAN,
         m.out.actions = {}
  PROVE  LET n == Finish(m, t, ok, in)
         IN  /\ n \in MachineType
             /\ Rests(n, t, in)
             /\ m.self.shutdown => n.self.phase.k = "PowerWait" \/ ReadsSilent(in)
  <1> DEFINE counted == Clear(IF ok THEN Publish(m) ELSE m)
             ended == IF m.self.shutdown THEN FinishShutdown(counted, t, in)
                      ELSE FinishWindow(counted, t, ok, in)
             n == Finish(m, t, ok, in)
  <1>1. counted \in MachineType /\ counted.out = m.out
    BY CountedKeeps DEF Empty
  <1> HIDE DEF counted
  <1>2. /\ ended \in MachineType
        /\ Rests(ended, t, in)
        /\ m.self.shutdown => ended.self.phase.k = "PowerWait" \/ ReadsSilent(in)
    BY <1>1, FinishShutdownRests, FinishWindowRests
  <1>3. n = [ended EXCEPT !.self.restore_advertising = FALSE,
                          !.self.advertise_after = FALSE]
    BY DEF Finish, n, ended, counted
  <1> HIDE DEF n, ended
  <1>4. /\ n \in MachineType
        /\ n.self.phase = ended.self.phase /\ n.out = ended.out
    BY <1>2, <1>3, ZenonT(60) DEF MachineType, RuntimeType
  <1>5. Rests(n, t, in)
    BY <1>2, <1>4 DEF Rests, Discovering, Fresh, RestingCalls
  <1> QED BY <1>2, <1>4, <1>5 DEF n

(* A busy controller is asked to stop, an idle one is left to the caller. *)
LEMMA SuspendRests ==
  ASSUME NEW m \in MachineType, NEW in \in AllInputs, NEW t \in Time, NEW after \in BOOLEAN,
         m.out.actions = {}
  PROVE  LET n == Suspend(m, t, after, in)
         IN  /\ IF Discovering(m.self) THEN Cancels(n) ELSE Rests(n, t, in)
             /\ m.self.shutdown =>
                  n.self.phase.k \in {"Cancelling", "PowerWait"} \/ ReadsSilent(in)
  <1> DEFINE cleared == Clear(m)
             wiped == [cleared EXCEPT
                         !.self.alert = NoAlert,
                         !.self.restore_advertising = FALSE,
                         !.self.advertise_after = after /\ ~m.self.shutdown]
             idle == Finish(wiped, t, FALSE, in)
             cancelling == Enter(wiped, "Cancelling", Wadd(t, RETRY))
             n == Suspend(m, t, after, in)
  <1>1. /\ wiped \in MachineType
        /\ wiped.self.shutdown = m.self.shutdown
        /\ wiped.out = m.out
    <2>1. /\ cleared \in MachineType
          /\ cleared.self.shutdown = m.self.shutdown
          /\ cleared.out = m.out
      BY ClearSound DEF Empty
    <2>2. (after /\ ~m.self.shutdown) \in BOOLEAN OBVIOUS
    <2> HIDE DEF cleared
    <2>3. wiped \in MachineType
      BY <2>1, <2>2, NoAlertType, ZenonT(60) DEF MachineType, RuntimeType
    <2>4. /\ wiped.self.shutdown = cleared.self.shutdown
          /\ wiped.out = cleared.out
      BY <2>1 DEF MachineType, RuntimeType
    <2> HIDE DEF wiped
    <2> QED BY <2>1, <2>3, <2>4
  <1>a. n = IF Busy(m) THEN Emit(cancelling, {"cancel_scan"})
            ELSE [idle EXCEPT !.out.actions = @ \ {"advertise"}]
    BY DEF Suspend, n, idle, cancelling, wiped, cleared
  <1> HIDE DEF wiped
  <1>2. /\ idle \in MachineType
        /\ Rests(idle, t, in)
        /\ m.self.shutdown => idle.self.phase.k = "PowerWait" \/ ReadsSilent(in)
    BY <1>1, FinishRests
  <1>3. /\ cancelling \in MachineType
        /\ cancelling.self.phase.k = "Cancelling"
        /\ cancelling.out = m.out
    <2>1. "Cancelling" \in PhaseKind BY DEF PhaseKind
    <2>2. Wadd(t, RETRY) \in Time BY DeadlineType
    <2> QED BY <1>1, <2>1, <2>2, EnterKeeps
  <1> HIDE DEF idle, cancelling, n
  <1>4. CASE Discovering(m.self)
    <2>1. n = Emit(cancelling, {"cancel_scan"}) BY <1>a, <1>4, BusyIs
    <2>2. n.self = cancelling.self /\ n.out.actions = {"cancel_scan"}
      BY <1>3, <2>1, EmitKeeps
    <2>3. Cancels(n) /\ n.self.phase.k = "Cancelling" BY <1>3, <2>2 DEF Cancels
    <2> QED BY <1>4, <2>3 DEF n
  <1>5. CASE ~Discovering(m.self)
    <2>1. n = [idle EXCEPT !.out.actions = @ \ {"advertise"}]
      BY <1>a, <1>5, BusyIs
    <2>2. n.self = idle.self /\ n.out.actions = idle.out.actions \ {"advertise"}
      BY <1>2, <2>1 DEF MachineType, OutputType
    <2>3. RestingCalls(n, in)
      BY <1>2, <2>2 DEF Rests, RestingCalls
    <2>4. Rests(n, t, in) BY <1>2, <2>2, <2>3 DEF Rests
    <2> QED BY <1>2, <1>5, <2>2, <2>4 DEF n
  <1> QED BY <1>4, <1>5

LEMMA EnterOnlyRests ==
  ASSUME NEW m \in MachineType, NEW in, NEW t \in Time, NEW at \in Time, ~Due(t, at),
         NEW k \in {"Offline", "Waiting", "Quiet", "PowerWait"},
         NEW a \in SUBSET Command, m.out.actions = {}, RestingCalls([out |-> [actions |-> a]], in)
  PROVE  /\ Rests(Enter(m, k, at), t, in)
         /\ Rests(Emit(Enter(m, k, at), a), t, in)
  <1> DEFINE n == Enter(m, k, at)
             e == Emit(n, a)
  <1>1. k \in PhaseKind BY DEF PhaseKind
  <1>2. n \in MachineType /\ n.out = m.out BY <1>1, EnterKeeps
  <1>3. ~Discovering(n.self) /\ Fresh(n.self, t) BY EnterRests
  <1> HIDE DEF n
  <1>a. e.self = n.self /\ e.out.actions = n.out.actions \cup a
    BY <1>2, EmitKeeps
  <1> HIDE DEF e
  <1>b. n.out.actions = {} BY <1>2
  <1>4. e.self = n.self /\ e.out.actions = a BY <1>a, <1>b
  <1>5. RestingCalls(n, in) BY <1>2 DEF RestingCalls
  <1>6. RestingCalls(e, in) BY <1>4 DEF RestingCalls
  <1>7. Rests(n, t, in) BY <1>3, <1>5 DEF Rests
  <1>8. Rests(e, t, in) BY <1>3, <1>4, <1>6 DEF Rests
  <1> QED BY <1>7, <1>8 DEF n, e

-----------------------------------------------------------------------------
(* The events.                                                             *)

(* What an event that arrives at a reducer without commands leaves. *)
Reacts(m, n, t, in, ev) ==
    \/ Stays(m, n)
    \/ Cancels(n)
    \/ Rests(n, t, in) /\ (Discovering(m.self) => TellsIdle(ev))

LEMMA OnReadyReacts ==
  ASSUME NEW m \in MachineType, NEW in \in AllInputs, NEW t \in Time, NEW ok \in BOOLEAN,
         m.out.actions = {}, NEW ev
  PROVE  Reacts(m, OnReady(m, t, in, ok), t, in, ev)
  <1> DEFINE known == [m EXCEPT !.self.ready = ok]
             n == OnReady(m, t, in, ok)
             first == Wadd(t, FIRST)
             retry == Wadd(t, RETRY)
  <1>1. /\ known \in MachineType
        /\ known.self.phase = m.self.phase /\ known.out = m.out
    BY DEF MachineType, RuntimeType
  <1>2. \/ n = known
        \/ Busy(m) /\ n = Suspend(known, t, FALSE, in)
        \/ ~Busy(m) /\ n \in {Enter(known, "Waiting", first), Enter(known, "Offline", retry)}
    BY DEF OnReady, known
  <1>3. first \in Time /\ ~Due(t, first) /\ retry \in Time /\ ~Due(t, retry) BY FreshIs
  <1> HIDE DEF known, n, first, retry
  <1>4. CASE n = known
    BY <1>1, <1>4 DEF Reacts, Stays, n
  <1>5. CASE Busy(m) /\ n = Suspend(known, t, FALSE, in)
    <2>1. Discovering(known.self) BY <1>1, <1>5, BusyIs DEF Discovering
    <2>2. Cancels(n) BY <1>1, <1>5, <2>1, SuspendRests
    <2> QED BY <2>2 DEF Reacts, n
  <1>6. CASE ~Busy(m) /\ n \in {Enter(known, "Waiting", first), Enter(known, "Offline", retry)}
    <2>1. ~Discovering(m.self) BY <1>6, BusyIs
    <2>2. RestingCalls([out |-> [actions |-> {}]], in) BY DEF RestingCalls
    <2>3. Rests(Enter(known, "Waiting", first), t, in)
      BY <1>1, <1>3, <2>2, EnterOnlyRests
    <2>4. Rests(Enter(known, "Offline", retry), t, in)
      BY <1>1, <1>3, <2>2, EnterOnlyRests
    <2> QED BY <1>6, <2>1, <2>3, <2>4 DEF Reacts, n
  <1> QED BY <1>2, <1>4, <1>5, <1>6

LEMMA OnResultsReact ==
  ASSUME NEW m \in MachineType, NEW in \in AllInputs, NEW t \in Time, NEW ok \in BOOLEAN,
         m.out.actions = {}, NEW ev, ev.ok = ok
  PROVE  /\ ev.kind = "StartResult" => Reacts(m, OnStartResult(m, t, in, ok), t, in, ev)
         /\ ev.kind = "CancelResult" => Reacts(m, OnCancelResult(m, t, in, ok), t, in, ev)
         /\ ev.kind = "Complete" => Reacts(m, OnComplete(m, t, in, ok), t, in, ev)
  <1>1. Stays(m, m) BY DEF Stays
  <1>2. ASSUME NEW b \in BOOLEAN PROVE Rests(Finish(m, t, b, in), t, in)
    BY FinishRests
  <1>3. (ok /\ In(m, {"Scanning"}) /\ in.allowed /\ ~in.connected) \in BOOLEAN
    BY DEF In
  <1>4. ASSUME ev.kind = "StartResult"
        PROVE  Reacts(m, OnStartResult(m, t, in, ok), t, in, ev)
    BY <1>1, <1>2, <1>4 DEF OnStartResult, Reacts, TellsIdle
  <1>5. ASSUME ev.kind = "CancelResult"
        PROVE  Reacts(m, OnCancelResult(m, t, in, ok), t, in, ev)
    BY <1>1, <1>2, <1>5 DEF OnCancelResult, Reacts, TellsIdle
  <1>6. ASSUME ev.kind = "Complete"
        PROVE  Reacts(m, OnComplete(m, t, in, ok), t, in, ev)
    BY <1>1, <1>2, <1>3, <1>6 DEF OnComplete, Reacts, TellsIdle
  <1> QED BY <1>4, <1>5, <1>6

LEMMA OnReportStays ==
  ASSUME NEW m \in MachineType, NEW in, NEW t, NEW a, NEW found, m.out.actions = {}
  PROVE  Stays(m, OnReport(m, t, in, a, found))
  <1> DEFINE seen == [m EXCEPT !.self.counter = Observe(@, a)]
             noted == [seen EXCEPT !.self.detected = found]
             raised == [seen EXCEPT !.self.detected = found,
                                    !.self.alert = [found |-> found, start |-> t]]
  <1>1. OnReport(m, t, in, a, found) \in {m, seen, noted, raised}
    BY DEF OnReport, seen, noted, raised
  <1>2. seen.self.phase = m.self.phase /\ seen.out = m.out
    BY DEF MachineType, RuntimeType
  <1>3. noted.self.phase = m.self.phase /\ noted.out = m.out
    BY DEF MachineType, RuntimeType
  <1>4. raised.self.phase = m.self.phase /\ raised.out = m.out
    BY DEF MachineType, RuntimeType
  <1> HIDE DEF seen, noted, raised
  <1> QED BY <1>1, <1>2, <1>3, <1>4 DEF Stays

LEMMA OnShutdownReacts ==
  ASSUME NEW m \in MachineType, NEW in \in AllInputs, NEW t \in Time,
         m.out.actions = {}, NEW ev
  PROVE  LET n == OnShutdown(m, t, in)
         IN  /\ Reacts(m, n, t, in, ev) /\ (Cancels(n) \/ Rests(n, t, in))
             /\ n.self.phase.k \in {"Cancelling", "PowerWait"} \/ ReadsSilent(in)
  <1> DEFINE deadline == IF m.self.shutdown THEN m.self.shutdown_deadline
                         ELSE Wadd(t, SHUTDOWN_LIMIT)
             told == [m EXCEPT !.self.shutdown = TRUE,
                               !.self.shutdown_deadline = deadline]
             n == OnShutdown(m, t, in)
  <1>1. deadline \in MaybeTime BY DeadlineType DEF MaybeTime, MachineType, RuntimeType
  <1>2. n = Suspend(told, t, FALSE, in) BY DEF OnShutdown, told, deadline
  <1> HIDE DEF deadline, n
  <1>3. /\ told \in MachineType
        /\ told.self.phase = m.self.phase /\ told.self.shutdown /\ told.out = m.out
    BY <1>1 DEF MachineType, RuntimeType
  <1> HIDE DEF told
  <1>4. /\ IF Discovering(told.self) THEN Cancels(n) ELSE Rests(n, t, in)
        /\ n.self.phase.k \in {"Cancelling", "PowerWait"} \/ ReadsSilent(in)
    BY <1>2, <1>3, SuspendRests
  <1>5. Discovering(told.self) <=> Discovering(m.self) BY <1>3 DEF Discovering
  <1> QED BY <1>4, <1>5 DEF Reacts, n

LEMMA OnResumeReacts ==
  ASSUME NEW m \in MachineType, NEW in, NEW t \in Time, m.out.actions = {}, NEW ev
  PROVE  Reacts(m, OnResume(m, t), t, in, ev)
  <1> DEFINE told == [m EXCEPT !.self.shutdown = FALSE,
                               !.self.shutdown_deadline = NoTime,
                               !.self.advertise_after = FALSE]
             soon == Wadd(t, QUIET)
             n == OnResume(m, t)
  <1>1. /\ told \in MachineType
        /\ told.self.phase = m.self.phase /\ told.out = m.out
    BY ZenonT(60) DEF MachineType, RuntimeType, MaybeTime
  <1>2. n = IF m.self.ready /\ ~Busy(m) THEN Enter(told, "Waiting", soon) ELSE told
    BY DEF OnResume
  <1>3. soon \in Time /\ ~Due(t, soon) BY FreshIs
  <1> HIDE DEF told, soon, n
  <1>4. CASE n = told BY <1>1, <1>4 DEF Reacts, Stays, n
  <1>5. CASE ~Busy(m) /\ n = Enter(told, "Waiting", soon)
    <2>1. ~Discovering(m.self) BY <1>5, BusyIs
    <2>2. RestingCalls([out |-> [actions |-> {}]], in) BY DEF RestingCalls
    <2>3. Rests(n, t, in) BY <1>1, <1>3, <1>5, <2>2, EnterOnlyRests
    <2> QED BY <2>1, <2>3 DEF Reacts, n
  <1> QED BY <1>2, <1>4, <1>5

LEMMA HandleReacts ==
  ASSUME NEW m, Sound(m), NEW in \in AllInputs, NEW t \in Time, NEW ev \in EventType,
         m.out.actions = {}
  PROVE  LET n == HandleEvent(m, t, in, ev)
         IN  /\ Reacts(m, n, t, in, ev)
             /\ ev.kind = "Tick" => n = m
             /\ ev.kind = "Report" => Stays(m, n)
             /\ ev.kind = "Shutdown" =>
                  /\ Cancels(n) \/ Rests(n, t, in)
                  /\ n.self.phase.k \in {"Cancelling", "PowerWait"} \/ ReadsSilent(in)
  <1> DEFINE n == HandleEvent(m, t, in, ev)
  <1>0. m \in MachineType BY DEF Sound
  <1>1. CASE ev.kind = "Ready"
    <2>1. n = OnReady(m, t, in, ev.ok) /\ ev.ok \in BOOLEAN
      BY <1>1 DEF HandleEvent, EventType
    <2> QED BY <1>0, <1>1, <2>1, OnReadyReacts
  <1>2. CASE ev.kind \in {"StartResult", "CancelResult", "Complete"}
    <2>1. ev.ok \in BOOLEAN BY <1>2 DEF EventType
    <2>2. Reacts(m, n, t, in, ev)
      BY <1>0, <1>2, <2>1, OnResultsReact DEF HandleEvent
    <2> QED BY <1>2, <2>2
  <1>3. CASE ev.kind = "Report"
    <2>1. n = OnReport(m, t, in, ev.address, ev.found) BY <1>3 DEF HandleEvent
    <2>2. Stays(m, n) BY <1>0, <2>1, OnReportStays
    <2> QED BY <1>3, <2>2 DEF Reacts
  <1>4. CASE ev.kind = "Suspend"
    <2>1. n = Suspend(m, t, ev.ok, in) /\ ev.ok \in BOOLEAN
      BY <1>4 DEF HandleEvent, EventType
    <2>2. IF Discovering(m.self) THEN Cancels(n) ELSE Rests(n, t, in)
      BY <1>0, <2>1, SuspendRests
    <2> QED BY <1>4, <2>2 DEF Reacts
  <1>5. CASE ev.kind = "Shutdown"
    <2>1. n = OnShutdown(m, t, in) BY <1>5 DEF HandleEvent
    <2> QED BY <1>0, <1>5, <2>1, OnShutdownReacts
  <1>6. CASE ev.kind = "Resume"
    <2>1. n = OnResume(m, t) BY <1>6 DEF HandleEvent
    <2> QED BY <1>0, <1>6, <2>1, OnResumeReacts
  <1>7. CASE ev.kind = "View"
    <2>1. n = OnView(m, t) BY <1>7 DEF HandleEvent
    <2>2. n.self.phase = m.self.phase /\ n.out = m.out
      BY <1>0, <2>1, ZenonT(60) DEF OnView, MachineType, RuntimeType
    <2> QED BY <1>7, <2>2 DEF Reacts, Stays
  <1>8. CASE ev.kind = "Tick"
    <2>1. n = m BY <1>8 DEF HandleEvent
    <2> QED BY <1>8, <2>1 DEF Reacts, Stays
  <1> QED BY <1>1, <1>2, <1>3, <1>4, <1>5, <1>6, <1>7, <1>8 DEF EventType

-----------------------------------------------------------------------------
(* A whole step.                                                           *)

(* What a step that does not reset the badge does to the radio's user. *)
Moves(m, n, t, in, ev) ==
    \/ Stays(m, n)
    \/ Cancels(n)
    \/ Rests(n, t, in) /\ (Discovering(m.self) => TellsIdle(ev))
    \/ Starts(m, n, t, in) /\ ev.kind = "Tick"

LEMMA MovesAlike ==
  ASSUME NEW m, NEW n, NEW p, NEW t, NEW in, NEW ev,
         Moves(m, n, t, in, ev),
         p.self.phase = n.self.phase, p.self.shutdown = n.self.shutdown,
         p.out.actions = n.out.actions
  PROVE  Moves(m, p, t, in, ev)
  BY DEF Moves, Stays, Cancels, Rests, Starts, RestingCalls, Discovering, Fresh

LEMMA WaitingIsOverRests ==
  ASSUME NEW m \in MachineType, NEW in \in AllInputs, NEW t \in Time, m.out.actions = {}
  PROVE  Rests(WaitingIsOver(m, t, in), t, in)
  <1> DEFINE on == in.advertising = "on"
             cleared == Clear(m)
             quiet == [cleared EXCEPT !.self.detected = NoDetection,
                                      !.self.alert = NoAlert,
                                      !.self.restore_advertising = on]
             soon == Wadd(t, QUIET)
             later == Wadd(t, RETRY)
             calls == IF on THEN {"stop_advertising"} ELSE {}
             n == WaitingIsOver(m, t, in)
  <1>1. quiet \in MachineType /\ quiet.out = m.out
    <2>1. cleared \in MachineType /\ cleared.out = m.out BY ClearSound DEF Empty
    <2>2. on \in BOOLEAN OBVIOUS
    <2> HIDE DEF cleared, on
    <2> QED BY <2>1, <2>2, NoAlertType DEF MachineType, RuntimeType
  <1>2. \/ n = Emit(Enter(quiet, "Quiet", soon), calls)
        \/ n = Enter(m, "Waiting", later)
    BY DEF WaitingIsOver
  <1>3. soon \in Time /\ ~Due(t, soon) /\ later \in Time /\ ~Due(t, later)
    BY FreshIs
  <1>4. calls \in SUBSET Command BY DEF Command
  <1>5. RestingCalls([out |-> [actions |-> calls]], in) BY DEF RestingCalls
  <1> HIDE DEF quiet, soon, later, calls, n
  <1>6. quiet.out.actions = {} BY <1>1
  <1>7. Rests(Emit(Enter(quiet, "Quiet", soon), calls), t, in)
    BY <1>1, <1>3, <1>4, <1>5, <1>6, EnterOnlyRests
  <1>8. Rests(Enter(m, "Waiting", later), t, in)
    BY <1>3, <1>4, <1>5, EnterOnlyRests
  <1> QED BY <1>2, <1>7, <1>8 DEF n

LEMMA QuietIsOverMoves ==
  ASSUME NEW m \in MachineType, NEW in \in AllInputs, NEW t \in Time, m.out.actions = {},
         m.self.phase.k = "Quiet", Due(t, m.self.phase.at)
  PROVE  LET n == QuietIsOver(m, t, in)
         IN  Rests(n, t, in) \/ Starts(m, n, t, in)
  <1> DEFINE at == Wadd(t, WATCHDOG)
             scanning == Enter(m, "Scanning", at)
             go == in.allowed /\ ~in.connected /\ in.advertising = "off" /\ ~m.self.shutdown
             n == QuietIsOver(m, t, in)
  <1>1. n = IF go THEN Emit(scanning, {"start_scan"}) ELSE Finish(m, t, FALSE, in)
    BY DEF QuietIsOver
  <1>2. /\ scanning \in MachineType
        /\ scanning.self.phase.k = "Scanning"
        /\ scanning.self.shutdown = m.self.shutdown
        /\ scanning.out = m.out
    <2>1. "Scanning" \in PhaseKind /\ at \in Time BY DeadlineType DEF PhaseKind
    <2> HIDE DEF at
    <2> QED BY <2>1, EnterKeeps DEF Kept
  <1> HIDE DEF scanning, n
  <1>3. CASE go
    <2>1. n = Emit(scanning, {"start_scan"}) BY <1>1, <1>3
    <2>2. n.self = scanning.self
          /\ n.out.actions = scanning.out.actions \cup {"start_scan"}
      BY <1>2, <2>1, EmitKeeps
    <2>3. n.out.actions = {"start_scan"} BY <1>2, <2>2
    <2>4. Starts(m, n, t, in) BY <1>2, <1>3, <2>2, <2>3 DEF Starts, ReadsSilent
    <2> QED BY <2>4 DEF n
  <1>4. CASE ~go
    <2>1. n = Finish(m, t, FALSE, in) BY <1>1, <1>4
    <2>2. Rests(n, t, in) BY <2>1, FinishRests
    <2> QED BY <2>2 DEF n
  <1> QED BY <1>3, <1>4

LEMMA CancelAgainCancels ==
  ASSUME NEW m \in MachineType, NEW t \in Time, m.out.actions = {}
  PROVE  Cancels(CancelAgain(m, t))
  <1> DEFINE at == Wadd(t, RETRY)
             cancelling == Enter(m, "Cancelling", at)
             n == CancelAgain(m, t)
  <1>1. n = Emit(cancelling, {"cancel_scan"}) BY DEF CancelAgain
  <1>2. /\ cancelling \in MachineType
        /\ cancelling.self.phase.k = "Cancelling"
        /\ cancelling.out = m.out
    <2>1. "Cancelling" \in PhaseKind /\ at \in Time BY DeadlineType DEF PhaseKind
    <2> HIDE DEF at
    <2> QED BY <2>1, EnterKeeps
  <1> HIDE DEF cancelling, n
  <1>3. n.self = cancelling.self
        /\ n.out.actions = cancelling.out.actions \cup {"cancel_scan"}
    BY <1>1, <1>2, EmitKeeps
  <1>4. n.out.actions = {"cancel_scan"} BY <1>2, <1>3
  <1> QED BY <1>2, <1>3, <1>4 DEF Cancels, n

(* A due deadline starts a scan only from Quiet. *)
LEMMA TickMoves ==
  ASSUME NEW m, Sound(m), NEW in \in AllInputs, NEW t \in Time, m.out.actions = {},
         NEW ev, ev.kind = "Tick"
  PROVE  Moves(m, TickPhase(m, t, in), t, in, ev)
  <1> DEFINE n == TickPhase(m, t, in)
  <1>0. m \in MachineType /\ Moves(m, m, t, in, ev) BY DEF Sound, Moves, Stays
  <1>1. CASE In(m, {"Stopped"}) \/ ~Due(t, m.self.phase.at)
    BY <1>0, <1>1 DEF TickPhase
  <1>2. CASE ~(In(m, {"Stopped"}) \/ ~Due(t, m.self.phase.at))
    <2> USE <1>2
    <2>1. CASE In(m, {"Offline"})
      <3>1. Wadd(t, RETRY) \in Time /\ ~Due(t, Wadd(t, RETRY)) BY FreshIs
      <3>2. {"start_role"} \in SUBSET Command BY DEF Command
      <3>3. RestingCalls([out |-> [actions |-> {"start_role"}]], in) BY DEF RestingCalls
      <3>4. Rests(Emit(Enter(m, "Offline", Wadd(t, RETRY)), {"start_role"}), t, in)
        BY <1>0, <3>1, <3>2, <3>3, EnterOnlyRests
      <3>5. n = m \/ n = Emit(Enter(m, "Offline", Wadd(t, RETRY)), {"start_role"})
        BY <2>1 DEF TickPhase, In
      <3>6. ~Discovering(m.self) BY <2>1 DEF In, Discovering
      <3> QED BY <1>0, <3>4, <3>5, <3>6 DEF Moves
    <2>2. CASE In(m, {"Waiting"})
      <3>1. n = m \/ n = WaitingIsOver(m, t, in) BY <2>2 DEF TickPhase, In
      <3>2. ~Discovering(m.self) BY <2>2 DEF In, Discovering
      <3>3. Rests(WaitingIsOver(m, t, in), t, in) BY <1>0, WaitingIsOverRests
      <3> QED BY <1>0, <3>1, <3>2, <3>3 DEF Moves
    <2>3. CASE In(m, {"Quiet"})
      <3>1. n = QuietIsOver(m, t, in) BY <2>3 DEF TickPhase, In
      <3>2. ~Discovering(m.self) BY <2>3 DEF In, Discovering
      <3>3. m.self.phase.k = "Quiet" /\ Due(t, m.self.phase.at) BY <2>3 DEF In
      <3>4. Rests(n, t, in) \/ Starts(m, n, t, in)
        BY <1>0, <3>1, <3>3, QuietIsOverMoves
      <3> QED BY <3>2, <3>4 DEF Moves
    <2>4. CASE In(m, {"Scanning"})
      <3>1. n = CancelAgain(Clear(m), t) BY <2>4 DEF TickPhase, In
      <3>2. Clear(m) \in MachineType /\ Clear(m).out.actions = {}
        BY <1>0, ClearSound DEF Empty
      <3>3. Cancels(n) BY <3>1, <3>2, CancelAgainCancels
      <3> QED BY <3>3 DEF Moves
    <2>5. CASE In(m, {"Cancelling"})
      <3>1. n = CancelAgain(m, t) BY <2>5 DEF TickPhase, In
      <3>2. Cancels(n) BY <1>0, <3>1, CancelAgainCancels
      <3> QED BY <3>2 DEF Moves
    <2>6. CASE In(m, {"PowerWait"})
      <3>1. n = Finish(m, t, FALSE, in) BY <2>6 DEF TickPhase, In
      <3>2. ~Discovering(m.self) BY <2>6 DEF In, Discovering
      <3>3. Rests(n, t, in) BY <1>0, <3>1, FinishRests
      <3> QED BY <3>2, <3>3 DEF Moves
    <2>7. m.self.phase.k \in PhaseKind BY <1>0 DEF MachineType, RuntimeType, Phase
    <2> QED BY <2>1, <2>2, <2>3, <2>4, <2>5, <2>6, <2>7 DEF PhaseKind, In
  <1> QED BY <1>1, <1>2

(* A scan that has just been started needs no guard; any other is cancelled. *)
LEMMA GuardMoves ==
  ASSUME NEW m, NEW x, Sound(x), NEW in \in AllInputs, NEW t \in Time, NEW ev,
         Moves(m, x, t, in, ev)
  PROVE  LET n == Guard(x, t, in)
         IN  /\ Moves(m, n, t, in, ev)
             /\ ~In(x, {"Scanning"}) => n = x
  <1> DEFINE n == Guard(x, t, in)
  <1>1. CASE n = x BY <1>1
  <1>2. CASE n # x
    <2>1. /\ In(x, {"Scanning"}) /\ (~in.allowed \/ in.connected \/ x.self.shutdown)
          /\ n = Suspend(x, t, in.wants_advertising, in)
      BY <1>2 DEF Guard
    <2>2. Discovering(x.self) BY <2>1 DEF In, Discovering
    <2>3. x.out.actions = {}
      BY <2>1 DEF Moves, Stays, Cancels, Rests, Starts, In, Discovering, ReadsSilent
    <2>4. in.wants_advertising \in BOOLEAN /\ x \in MachineType
      BY DEF AllInputs, Sound
    <2>5. Cancels(n) BY <2>1, <2>2, <2>3, <2>4, SuspendRests
    <2> QED BY <2>1, <2>5 DEF Moves
  <1> QED BY <1>1, <1>2

(* What the adapter reads off a step: the commands it may have to execute, *)
(* and that it calls the radio idle only when nothing discovers; after a   *)
(* Shutdown, only when the inputs said so.                                 *)
StepIs(self, s, t, in, ev) ==
    \/ s.out.actions = {"reset_off"}
    \/ /\ "reset_off" \notin s.out.actions
       /\ Moves(Begin(self), s, t, in, ev)
       /\ s.out.radio_idle =>
            ~Discovering(s.self) /\ (ev.kind = "Shutdown" => ReadsSilent(in))

LEMMA MovesNeverReset ==
  ASSUME NEW m, NEW n, NEW t, NEW in, NEW ev, Moves(m, n, t, in, ev)
  PROVE  "reset_off" \notin n.out.actions
  BY DEF Moves, Stays, Cancels, Rests, Starts, RestingCalls

LEMMA StepMoves ==
  ASSUME NEW self \in RuntimeType, self.phase.k # "Scanning" => self.counter = EmptyCounter,
         NEW in \in AllInputs, NEW t \in Time, NEW ev \in EventType
  PROVE  StepIs(self, Step(self, t, in, ev), t, in, ev)
  <1> DEFINE m == Begin(self)
             h == HandleEvent(m, t, in, ev)
             x == IF ev.kind = "Tick" THEN TickPhase(h, t, in) ELSE h
             g == Guard(x, t, in)
             s == Step(self, t, in, ev)
  <1>1. /\ Sound(m) /\ Sound(h) /\ Sound(x) /\ Sound(g)
        /\ m.out = NoOutput
        /\ \/ FastPath(self, h, t, in, ev) /\ s = KeepFrameAndWake(h, t)
           \/ ShutdownOverdue(h, t) /\ s = ResetOff(h)
           \/ ~ShutdownOverdue(h, t) /\ s = Render(g, t, in)
    BY StepEnds
  <1> HIDE DEF m
  <1>2. m.out.actions = {} BY <1>1 DEF NoOutput
  <1>3. /\ Reacts(m, h, t, in, ev)
        /\ ev.kind = "Tick" => h = m
        /\ ev.kind = "Report" => Stays(m, h)
        /\ ev.kind = "Shutdown" =>
             /\ Cancels(h) \/ Rests(h, t, in)
             /\ h.self.phase.k \in {"Cancelling", "PowerWait"} \/ ReadsSilent(in)
    BY <1>1, <1>2, HandleReacts
  <1> HIDE DEF h
  <1>4. Moves(m, x, t, in, ev)
    <2>1. CASE ev.kind = "Tick" BY <1>1, <1>2, <1>3, <2>1, TickMoves
    <2>2. CASE ev.kind # "Tick" BY <1>3, <2>2 DEF Reacts, Moves
    <2> QED BY <2>1, <2>2
  <1>5. ev.kind = "Shutdown" => x = h OBVIOUS
  <1> HIDE DEF x
  <1>6. Moves(m, g, t, in, ev) /\ (~In(x, {"Scanning"}) => g = x)
    BY <1>1, <1>4, GuardMoves
  <1> HIDE DEF g, s
  <1>7. CASE FastPath(self, h, t, in, ev) /\ s = KeepFrameAndWake(h, t)
    <2>1. s.self = h.self /\ s.out.actions = {} /\ s.out.radio_idle = FALSE
      BY <1>1, <1>7, KeepKeeps
    <2>2. Stays(m, h) BY <1>3, <1>7 DEF FastPath
    <2>3. Stays(m, s) BY <2>1, <2>2 DEF Stays
    <2> QED BY <2>1, <2>3 DEF StepIs, Moves, m, s
  <1>8. CASE ShutdownOverdue(h, t) /\ s = ResetOff(h)
    <2>1. s.out.actions = {"reset_off"} BY <1>1, <1>8, ResetOffClears
    <2> QED BY <2>1 DEF StepIs, s
  <1>9. CASE ~ShutdownOverdue(h, t) /\ s = Render(g, t, in)
    <2>1. /\ s.self.phase = g.self.phase /\ s.self.shutdown = g.self.shutdown
          /\ s.out.actions = g.out.actions
          /\ s.out.radio_idle = (~Busy(g) /\ ~In(g, {"PowerWait"}))
      BY <1>1, <1>9, RenderShows
    <2>2. Moves(m, s, t, in, ev) BY <1>6, <2>1, MovesAlike
    <2>3. "reset_off" \notin s.out.actions BY <2>2, MovesNeverReset
    <2>4. ASSUME s.out.radio_idle
          PROVE  ~Discovering(s.self) /\ (ev.kind = "Shutdown" => ReadsSilent(in))
      <3>1. ~Busy(g) /\ ~In(g, {"PowerWait"}) BY <2>1, <2>4
      <3>2. ~Discovering(s.self) BY <2>1, <3>1, BusyIs DEF Discovering
      <3>3. ASSUME ev.kind = "Shutdown" PROVE ReadsSilent(in)
        <4>1. ~In(x, {"Scanning"})
          BY <1>3, <1>5, <3>3 DEF Cancels, Rests, Discovering, In
        <4>2. g = h BY <1>5, <1>6, <3>3, <4>1
        <4>3. h.self.phase.k \notin {"Cancelling", "PowerWait"}
          BY <3>1, <4>2 DEF Busy, In
        <4> QED BY <1>3, <3>3, <4>3
      <3> QED BY <3>2, <3>3
    <2> QED BY <2>2, <2>3, <2>4 DEF StepIs, m, s
  <1> QED BY <1>1, <1>7, <1>8, <1>9 DEF s

(* A step arms the wake it waits for, or one for the very next tick. *)
LEMMA StepWakes ==
  ASSUME NEW self \in RuntimeType, self.phase.k # "Scanning" => self.counter = EmptyCounter,
         NEW in \in AllInputs, NEW t \in Time, NEW ev \in EventType,
         "reset_off" \notin Step(self, t, in, ev).out.actions
  PROVE  LET s == Step(self, t, in, ev)
             after == s.out.wake_after
         IN  \/ s.self.next_wake = NoTime /\ after = NoTime
             \/ /\ s.self.next_wake \in Time
                /\ after \in Nat
                /\ Wadd(t, after) \in {s.self.next_wake, Wadd(t, 1)}
  <1> DEFINE m == Begin(self)
             h == HandleEvent(m, t, in, ev)
             x == IF ev.kind = "Tick" THEN TickPhase(h, t, in) ELSE h
             g == Guard(x, t, in)
             s == Step(self, t, in, ev)
  <1>1. /\ Sound(h) /\ Sound(g)
        /\ \/ FastPath(self, h, t, in, ev) /\ s = KeepFrameAndWake(h, t)
           \/ ShutdownOverdue(h, t) /\ s = ResetOff(h)
           \/ ~ShutdownOverdue(h, t) /\ s = Render(g, t, in)
    BY StepEnds
  <1>a. "reset_off" \notin s.out.actions OBVIOUS
  <1> HIDE DEF m, h, x, g, s
  <1>2. ASSUME NEW at \in Time PROVE Wsub(at, t) \in Nat /\ Wadd(t, Wsub(at, t)) = at
    <2>1. at \in Nat /\ t \in Nat /\ at < W /\ t < W /\ W \in Nat
      BY WAssumption DEF Time
    <2>2. Wsub(at, t) = IF at >= t THEN at - t ELSE at - t + W BY WsubIs
    <2>3. t + Wsub(at, t) = IF at >= t THEN at ELSE at + W BY <2>1, <2>2
    <2>4. Wadd(t, Wsub(at, t)) = at BY <2>1, <2>3, ModOfNear DEF Wadd
    <2> QED BY <2>1, <2>2, <2>4
  <1>3. CASE FastPath(self, h, t, in, ev) /\ s = KeepFrameAndWake(h, t)
    <2>1. s.self = h.self /\ s.out.wake_after = Wsub(h.self.next_wake, t)
      BY <1>1, <1>3, KeepKeeps
    <2>2. h.self.next_wake \in Time
      BY <1>1, <1>3 DEF FastPath, Sound, MachineType, RuntimeType, MaybeTime
    <2> QED BY <1>2, <2>1, <2>2 DEF s
  <1>4. CASE ShutdownOverdue(h, t) /\ s = ResetOff(h)
    <2>1. s.out.actions = {"reset_off"} BY <1>1, <1>4, ResetOffClears
    <2> QED BY <1>a, <2>1
  <1>5. CASE ~ShutdownOverdue(h, t) /\ s = Render(g, t, in)
    <2> DEFINE wake == NextWake(g.self, t, in)
    <2>1. /\ s.self.next_wake = wake
          /\ s.out.wake_after = IF wake = NoTime THEN NoTime
                                ELSE IF Due(t, wake) THEN 1 ELSE Wsub(wake, t)
      BY <1>1, <1>5, RenderShows
    <2>2. wake \in MaybeTime BY <1>1, NextWakeType DEF Sound, MachineType
    <2> HIDE DEF wake
    <2>3. CASE wake = NoTime BY <2>1, <2>3 DEF s
    <2>4. CASE wake # NoTime
      <3>1. wake \in Time BY <2>2, <2>4 DEF MaybeTime
      <3>2. Wsub(wake, t) \in Nat /\ Wadd(t, Wsub(wake, t)) = wake BY <1>2, <3>1
      <3> QED BY <2>1, <2>4, <3>1, <3>2 DEF s
    <2> QED BY <2>3, <2>4
  <1> QED BY <1>1, <1>3, <1>4, <1>5

-----------------------------------------------------------------------------
(* What a handler has still to do.                                         *)

CallOp ==
    {"start_role", "stop_advertising", "disconnect", "start_scan", "cancel_scan",
     "advertise", "shutdown_idle", "advertise_if_idle", "handoff_if_idle",
     "streaming_on"}

Item ==
    [op : {"dispatch"}, ev : EventType]
      \cup [op : {"return"}, idle : BOOLEAN]
      \cup [op : CallOp]

IsEvent(x, kind) == x.op = "dispatch" /\ x.ev.kind = kind

SilentRadio(r) == r.adv = "off" /\ ~r.conn /\ r.disc = "idle"

(* Wherever it waits: an event or a result that calls the controller idle  *)
(* is still true when its turn comes, and the callers know their mode.     *)
ItemOk(x, b, r) ==
    /\ x.op = "dispatch" => (TellsIdle(x.ev) => r.disc = "idle")
    /\ x.op = "return" => (x.idle => r.disc = "idle")
    /\ x.op = "advertise_if_idle" => b.mode # "POWER_OFF"
    /\ x.op = "handoff_if_idle" => b.mode = "POWER_OFF"

(* What may follow what: a caller follows the dispatch it waits for, and   *)
(* the result of a Shutdown is taken for idle only on a silent radio.      *)
PairOk(x, y, r) ==
    /\ y.op \notin {"start_scan", "advertise", "shutdown_idle"}
    /\ ~IsEvent(y, "Tick")
    /\ y.op = "advertise_if_idle" => x.op \in {"dispatch", "return"}
    /\ y.op = "handoff_if_idle" =>
         IF x.op = "return" THEN x.idle => SilentRadio(r) ELSE IsEvent(x, "Shutdown")

Chain(s, b, r) ==
    /\ s \in Seq(Item)
    /\ \A i \in 1 .. Len(s) : ItemOk(s[i], b, r)
    /\ \A i \in 1 .. Len(s) - 1 : PairOk(s[i], s[i + 1], r)

(* What holds when the turn of the first has come. *)
HeadOk(s, self, b, r, c, told) ==
    /\ s[1].op = "start_scan" =>
         /\ SilentRadio(r)
         /\ self.phase.k = "Scanning" /\ b.mode = "NORMAL" /\ c.complete = "none"
         /\ Len(s) = 2 /\ s[2].op = "return" /\ ~s[2].idle
    /\ s[1].op = "advertise" => r.disc = "idle"
    /\ s[1].op = "shutdown_idle" => SilentRadio(r)
    /\ s[1].op = "advertise_if_idle" => (told => r.disc = "idle")
    /\ s[1].op = "handoff_if_idle" => (told => SilentRadio(r))
    /\ IsEvent(s[1], "Tick") => Len(s) = 1

LEMMA ChainEmpty == ASSUME NEW b, NEW r PROVE Chain(<<>>, b, r)
  BY DEF Chain

LEMMA ChainTail ==
  ASSUME NEW s, NEW b, NEW r, Chain(s, b, r), s # <<>>
  PROVE  /\ Head(s) = s[1] /\ Head(s) \in Item /\ ItemOk(Head(s), b, r)
         /\ Tail(s) \in Seq(Item) /\ Len(Tail(s)) = Len(s) - 1
         /\ Chain(Tail(s), b, r)
         /\ Tail(s) # <<>> => PairOk(Head(s), Tail(s)[1], r)
  <1>1. s \in Seq(Item) BY DEF Chain
  <1>2. /\ Tail(s) \in Seq(Item) /\ Len(Tail(s)) = Len(s) - 1
        /\ Head(s) = s[1] /\ Head(s) \in Item
        /\ Len(s) \in Nat \ {0}
    BY <1>1
  <1>3. \A i \in 1 .. Len(s) - 1 : Tail(s)[i] = s[i + 1] BY <1>1
  <1>4. ItemOk(Head(s), b, r) BY <1>2 DEF Chain
  <1>5. \A i \in 1 .. Len(Tail(s)) : ItemOk(Tail(s)[i], b, r)
    <2>1. ASSUME NEW i \in 1 .. Len(Tail(s)) PROVE ItemOk(Tail(s)[i], b, r)
      <3>1. i \in 1 .. Len(s) - 1 /\ i + 1 \in 1 .. Len(s) BY <1>2
      <3> QED BY <1>3, <3>1 DEF Chain
    <2> QED BY <2>1
  <1>6. \A i \in 1 .. Len(Tail(s)) - 1 : PairOk(Tail(s)[i], Tail(s)[i + 1], r)
    <2>1. ASSUME NEW i \in 1 .. Len(Tail(s)) - 1
          PROVE  PairOk(Tail(s)[i], Tail(s)[i + 1], r)
      <3>1. i \in 1 .. Len(s) - 1 /\ i + 1 \in 1 .. Len(s) - 1 BY <1>2
      <3>2. PairOk(s[i + 1], s[(i + 1) + 1], r) BY <3>1 DEF Chain
      <3> QED BY <1>3, <3>1, <3>2
    <2> QED BY <2>1
  <1>7. Tail(s) # <<>> => PairOk(Head(s), Tail(s)[1], r)
    <2>1. ASSUME Tail(s) # <<>> PROVE 1 \in 1 .. Len(s) - 1 BY <1>1, <1>2, <2>1
    <2>2. 1 \in 1 .. Len(s) - 1 => PairOk(s[1], s[1 + 1], r) BY DEF Chain
    <2> QED BY <1>2, <1>3, <2>1, <2>2
  <1> QED BY <1>2, <1>4, <1>5, <1>6, <1>7 DEF Chain

LEMMA ChainPush ==
  ASSUME NEW s, NEW b, NEW r, Chain(s, b, r),
         NEW x \in Item, ItemOk(x, b, r), s # <<>> => PairOk(x, s[1], r)
  PROVE  /\ Chain(<<x>> \o s, b, r)
         /\ <<x>> \o s # <<>> /\ (<<x>> \o s)[1] = x
         /\ Len(<<x>> \o s) = Len(s) + 1
         /\ s # <<>> => (<<x>> \o s)[2] = s[1]
  <1> DEFINE p == <<x>> \o s
  <1>1. s \in Seq(Item) BY DEF Chain
  <1>2. /\ p \in Seq(Item) /\ Len(p) = Len(s) + 1 /\ p[1] = x /\ p # <<>>
        /\ Len(s) \in Nat
    BY <1>1
  <1>3. \A i \in 1 .. Len(s) : p[i + 1] = s[i] BY <1>1
  <1> HIDE DEF p
  <1>4. ASSUME NEW i \in 1 .. Len(p) PROVE ItemOk(p[i], b, r)
    <2>1. CASE i = 1 BY <1>2, <2>1
    <2>2. CASE i # 1
      <3> DEFINE j == i - 1
      <3>1. j \in 1 .. Len(s) /\ i = j + 1 BY <1>2, <2>2
      <3> HIDE DEF j
      <3> QED BY <1>3, <3>1 DEF Chain
    <2> QED BY <2>1, <2>2
  <1>5. ASSUME NEW i \in 1 .. Len(p) - 1 PROVE PairOk(p[i], p[i + 1], r)
    <2>1. CASE i = 1
      <3>1. s # <<>> /\ 1 \in 1 .. Len(s) BY <1>1, <1>2, <2>1
      <3>2. p[i + 1] = s[1] /\ p[i] = x BY <1>2, <1>3, <2>1, <3>1
      <3> QED BY <3>1, <3>2
    <2>2. CASE i # 1
      <3> DEFINE j == i - 1
      <3>1. j \in 1 .. Len(s) - 1 /\ j \in 1 .. Len(s) /\ j + 1 \in 1 .. Len(s) /\ i = j + 1
        BY <1>2, <2>2
      <3> HIDE DEF j
      <3>2. p[i] = s[j] BY <1>3, <3>1
      <3>3. p[i + 1] = s[j + 1] BY <1>3, <3>1
      <3>4. PairOk(s[j], s[j + 1], r) BY <3>1 DEF Chain
      <3> QED BY <3>2, <3>3, <3>4
    <2> QED BY <2>1, <2>2
  <1>6. s # <<>> => p[2] = s[1]
    <2>1. ASSUME s # <<>> PROVE 1 \in 1 .. Len(s) BY <1>1, <2>1
    <2> QED BY <1>3, <2>1
  <1> QED BY <1>2, <1>4, <1>5, <1>6 DEF Chain, p

(* A chain outlives what the radio does, as long as the radio stays as     *)
(* quiet as it was; when the badge is not powering off, advertising is     *)
(* free to come back. *)
LEMMA ChainStays ==
  ASSUME NEW s, NEW b, NEW r, NEW b2, NEW r2, Chain(s, b, r),
         b2.mode = b.mode,
         r.disc = "idle" => r2.disc = "idle",
         b.mode = "POWER_OFF" => (SilentRadio(r) => SilentRadio(r2))
  PROVE  Chain(s, b2, r2)
  <1>1. ASSUME NEW x, ItemOk(x, b, r) PROVE ItemOk(x, b2, r2)
    BY <1>1 DEF ItemOk
  <1>2. ASSUME NEW x, NEW y, ItemOk(y, b, r), PairOk(x, y, r) PROVE PairOk(x, y, r2)
    BY <1>2 DEF ItemOk, PairOk
  <1>3. ASSUME NEW i \in 1 .. Len(s) - 1 PROVE PairOk(s[i], s[i + 1], r2)
    <2>1. i + 1 \in 1 .. Len(s) BY DEF Chain
    <2> QED BY <1>2, <2>1 DEF Chain
  <1> QED BY <1>1, <1>3 DEF Chain

LEMMA EventIs ==
  ASSUME NEW kind \in {"Tick", "Shutdown", "Resume", "View"}
  PROVE  /\ Event(kind) \in Item
         /\ Event(kind).op = "dispatch" /\ Event(kind).ev.kind = kind
         /\ \A b, r : ItemOk(Event(kind), b, r)
  <1>1. [kind |-> kind] \in EventType BY DEF EventType
  <1>2. Event(kind) \in Item BY <1>1 DEF Event, Dispatch, Item
  <1>3. Event(kind).op = "dispatch" /\ Event(kind).ev.kind = kind BY DEF Event, Dispatch
  <1> QED BY <1>2, <1>3 DEF ItemOk, TellsIdle

LEMMA EventOkIs ==
  ASSUME NEW kind \in {"Ready", "StartResult", "CancelResult", "Complete", "Suspend"},
         NEW ok \in BOOLEAN
  PROVE  /\ EventOk(kind, ok) \in Item
         /\ EventOk(kind, ok).op = "dispatch"
         /\ EventOk(kind, ok).ev.kind = kind /\ EventOk(kind, ok).ev.ok = ok
  <1>1. [kind |-> kind, ok |-> ok] \in EventType BY DEF EventType
  <1>2. EventOk(kind, ok) \in Item BY <1>1 DEF EventOk, Dispatch, Item
  <1> QED BY <1>2 DEF EventOk, Dispatch

LEMMA ReportIs ==
  ASSUME NEW a \in Address
  PROVE  /\ ReportOf(a) \in Item
         /\ ReportOf(a).op = "dispatch" /\ ReportOf(a).ev.kind = "Report"
         /\ \A b, r : ItemOk(ReportOf(a), b, r)
  <1> DEFINE ev == [kind |-> "Report", address |-> a, found |-> NoDetection]
  <1>1. ev \in EventType BY DEF EventType
  <1>2. ReportOf(a) \in Item BY <1>1 DEF ReportOf, Dispatch, Item
  <1>3. ReportOf(a).op = "dispatch" /\ ReportOf(a).ev.kind = "Report"
    BY DEF ReportOf, Dispatch
  <1> QED BY <1>2, <1>3 DEF ItemOk, TellsIdle

LEMMA CallIs ==
  ASSUME NEW op \in CallOp
  PROVE  Call(op) \in Item /\ Call(op).op = op
  BY DEF Call, Item

LEMMA ReturnIs ==
  ASSUME NEW idle \in BOOLEAN
  PROVE  LET x == [op |-> "return", idle |-> idle]
         IN  x \in Item /\ x.op = "return" /\ x.idle = idle
  BY DEF Item

LEMMA TwoAre ==
  ASSUME NEW x, NEW y
  PROVE  /\ <<x, y>> = <<x>> \o <<y>>
         /\ <<x, y>> \o <<>> = <<x, y>>
         /\ <<>> \o <<x>> = <<x>>
         /\ <<x>> \o <<>> = <<x>>
  <1> DEFINE s == <<x>> \o <<y>>
             t == <<x, y>>
             S == {x, y}
  <1>1. s \in Seq(S) /\ Len(s) = 2 /\ s[1] = x /\ s[2] = y OBVIOUS
  <1>2. t \in Seq(S) /\ Len(t) = 2 /\ t[1] = x /\ t[2] = y OBVIOUS
  <1>3. <<>> \o <<x>> = <<x>> /\ <<x>> \o <<>> = <<x>> OBVIOUS
  <1> HIDE DEF s, t, S
  <1>4. \A i \in 1 .. Len(s) : s[i] = t[i] BY <1>1, <1>2
  <1>5. Len(s) = Len(t) BY <1>1, <1>2
  <1>6. s = t BY <1>1, <1>2, <1>4, <1>5, SeqEqual
  <1>7. t \o <<>> = t BY <1>2, ConcatEmptySeq
  <1> QED BY <1>3, <1>6, <1>7 DEF s, t

(* The commands of a step, in the order of the adapter. *)
LEMMA CommandsAre ==
  /\ Commands({}) = <<>>
  /\ \A c \in {"start_role", "stop_advertising", "disconnect", "start_scan",
               "cancel_scan", "advertise", "shutdown_idle"} :
       Commands({c}) = <<Call(c)>>
  /\ Commands({"stop_advertising", "disconnect"}) =
       <<Call("stop_advertising"), Call("disconnect")>>
  <1>1. Commands({}) = <<>> BY DEF Commands
  <1>2. ASSUME NEW c \in {"start_role", "stop_advertising", "disconnect", "start_scan",
                          "cancel_scan", "advertise", "shutdown_idle"}
        PROVE  Commands({c}) = <<Call(c)>>
    <2> DEFINE If(op) == IF op \in {c} THEN <<Call(op)>> ELSE <<>>
               q == <<Call(c)>>
    <2>a. \A op : If(op) = IF op = c THEN q ELSE <<>> OBVIOUS
    <2>b. Commands({c}) = If("start_role") \o If("stop_advertising") \o If("disconnect")
             \o If("start_scan") \o If("cancel_scan") \o If("advertise")
             \o If("shutdown_idle")
      BY DEF Commands
    <2>c. q \o <<>> = q /\ <<>> \o q = q /\ <<>> \o <<>> = <<>> OBVIOUS
    <2> HIDE DEF If, q
    <2>1. CASE c = "start_role" BY <2>a, <2>b, <2>c, <2>1 DEF q
    <2>2. CASE c = "stop_advertising" BY <2>a, <2>b, <2>c, <2>2 DEF q
    <2>3. CASE c = "disconnect" BY <2>a, <2>b, <2>c, <2>3 DEF q
    <2>4. CASE c = "start_scan" BY <2>a, <2>b, <2>c, <2>4 DEF q
    <2>5. CASE c = "cancel_scan" BY <2>a, <2>b, <2>c, <2>5 DEF q
    <2>6. CASE c = "advertise" BY <2>a, <2>b, <2>c, <2>6 DEF q
    <2>7. CASE c = "shutdown_idle" BY <2>a, <2>b, <2>c, <2>7 DEF q
    <2> QED BY <2>1, <2>2, <2>3, <2>4, <2>5, <2>6, <2>7
  <1>3. Commands({"stop_advertising", "disconnect"}) =
          <<Call("stop_advertising"), Call("disconnect")>>
    <2> DEFINE asked == {"stop_advertising", "disconnect"}
               If(op) == IF op \in asked THEN <<Call(op)>> ELSE <<>>
               p == <<Call("stop_advertising")>>
               q == <<Call("disconnect")>>
    <2>1. /\ If("start_role") = <<>> /\ If("stop_advertising") = p
          /\ If("disconnect") = q /\ If("start_scan") = <<>>
          /\ If("cancel_scan") = <<>> /\ If("advertise") = <<>>
          /\ If("shutdown_idle") = <<>>
      OBVIOUS
    <2>2. Commands(asked) = If("start_role") \o If("stop_advertising") \o If("disconnect")
             \o If("start_scan") \o If("cancel_scan") \o If("advertise")
             \o If("shutdown_idle")
      BY DEF Commands
    <2>3. <<>> \o p = p /\ <<Call("stop_advertising"), Call("disconnect")>> = p \o q
      BY TwoAre
    <2>4. (p \o q) \o <<>> = p \o q BY <2>3, TwoAre
    <2> HIDE DEF If, p, q
    <2>5. Commands(asked) = p \o q BY <2>1, <2>2, <2>3, <2>4
    <2> QED BY <2>3, <2>5
  <1> QED BY <1>1, <1>2, <1>3

-----------------------------------------------------------------------------
(* The inductive invariant.                                                *)

TimerType ==
    [start : BOOLEAN, wake_armed : BOOLEAN, wake_retry : BOOLEAN, wake_at : Time,
     tmos : MaybeTime, wake_event : BOOLEAN, polled : BOOLEAN]

BoardType ==
    [power : {"on", "off", "reset"}, mode : {"NORMAL", "DOWNLOAD", "POWER_OFF"},
     always_on : BOOLEAN, streaming : BOOLEAN, pending : BOOLEAN,
     enter_shutdown : BOOLEAN, handle : BOOLEAN, pressed : BOOLEAN]

RadioType ==
    [gap : {"down", "starting", "up"}, adv : {"on", "stopping", "off"},
     conn : BOOLEAN, hangup : BOOLEAN, disc : {"idle", "scanning", "cancelling"}]

CallbacksType ==
    [init : {"none", "ok", "fail"}, complete : {"none", "ok", "fail"},
     links : Seq({"up", "down"})]

Types ==
    /\ now \in Time
    /\ rt \in RuntimeType
    /\ rt.phase.k # "Scanning" => rt.counter = EmptyCounter
    /\ timer \in TimerType
    /\ board \in BoardType
    /\ radio \in RadioType
    /\ callbacks \in CallbacksType
    /\ todo \in Seq(Item)
    /\ ret \in BOOLEAN

(* A discovery runs alone and the reducer knows of it; when it has ended   *)
(* and its completion is on its way, the reducer still waits for it, or    *)
(* cannot meet its deadline before the completion is delivered. *)
RadioOk(r, self, c, t) ==
    /\ r.disc # "idle" => r.adv = "off" /\ ~r.conn /\ Discovering(self)
    /\ c.complete # "none" => r.disc = "idle" /\ (Discovering(self) \/ Fresh(self, t))

(* A handoff that is under way either finds the radio silent or was        *)
(* overtaken by a button, and then the clock has not moved since. *)
OffOk(b, r) ==
    b.enter_shutdown =>
      IF b.pending /\ b.mode = "POWER_OFF" THEN SilentRadio(r) ELSE b.pressed

WakeOk(w, self, t, s) ==
    /\ w.wake_armed => w.tmos = w.wake_at \/ w.wake_event
    /\ self.next_wake # NoTime =>
         \/ w.wake_event \/ w.wake_retry
         \/ w.tmos \in {self.next_wake, Wadd(t, 1)}
         \/ s # <<>> /\ IsEvent(s[1], "Tick")

TodoOk(s, self, b, r, c, told) ==
    Chain(s, b, r) /\ (s # <<>> => HeadOk(s, self, b, r, c, told))

Inv ==
    /\ Types
    /\ On => /\ RadioOk(radio, rt, callbacks, now)
             /\ OffOk(board, radio)
             /\ TodoOk(todo, rt, board, radio, callbacks, ret)
             /\ WakeOk(timer, rt, now, todo)

-----------------------------------------------------------------------------
(* dispatch().                                                             *)

LEMMA InputsAre ==
  ASSUME Types, NEW kind, NEW in \in inputs(kind)
  PROVE  /\ in \in AllInputs
         /\ in.wants_advertising = persistent_advertising
         /\ in.allowed => board.mode = "NORMAL"
         /\ in.advertising = "off" => radio.adv = "off" /\ in.connected = radio.conn
  <1>1. survey_allowed \in BOOLEAN /\ persistent_advertising \in BOOLEAN
        /\ radio.conn \in BOOLEAN
    BY DEF Types, survey_allowed, persistent_advertising, BoardType, RadioType
  <1>2. ASSUME NEW connected \in BOOLEAN, NEW advertising \in {"on", "off", "unknown"}
        PROVE  LET x == Reading(connected, advertising)
               IN  /\ x \in AllInputs
                   /\ x.allowed = survey_allowed
                   /\ x.wants_advertising = persistent_advertising
                   /\ x.connected = connected /\ x.advertising = advertising
    BY <1>1 DEF Reading, AllInputs
  <1> DEFINE advertising == IF kind = "Report" \/ radio.gap # "up" THEN "unknown"
                            ELSE IF radio.adv = "off" THEN "off" ELSE "on"
  <1>3. in \in {Reading(radio.conn, advertising), Reading(TRUE, "unknown"),
                Reading(radio.conn, "unknown")}
    BY DEF inputs
  <1>4. advertising \in {"on", "off", "unknown"}
        /\ (advertising = "off" => radio.adv = "off")
    OBVIOUS
  <1> HIDE DEF advertising
  <1>5. CASE in = Reading(radio.conn, advertising)
    BY <1>1, <1>2, <1>4, <1>5 DEF survey_allowed
  <1>6. CASE in = Reading(TRUE, "unknown") BY <1>1, <1>2, <1>6 DEF survey_allowed
  <1>7. CASE in = Reading(radio.conn, "unknown") BY <1>1, <1>2, <1>7 DEF survey_allowed
  <1> QED BY <1>3, <1>5, <1>6, <1>7

(* A list of commands before what waits. *)
LEMMA PrependOne ==
  ASSUME NEW x \in Item, NEW z \in Item, NEW s \in Seq(Item)
  PROVE  /\ <<>> \o <<z>> \o s = <<z>> \o s
         /\ <<x>> \o <<z>> \o s = <<x>> \o (<<z>> \o s)
  <1>1. <<x>> \in Seq(Item) /\ <<z>> \in Seq(Item) OBVIOUS
  <1>2. (<<x>> \o <<z>>) \o s = <<x>> \o (<<z>> \o s)
    BY <1>1, ConcatAssociative
  <1> QED BY <1>2, TwoAre

LEMMA PrependTwo ==
  ASSUME NEW x \in Item, NEW y \in Item, NEW z \in Item, NEW s \in Seq(Item),
         NEW p, p = <<x>> \o <<y>>
  PROVE  p \o <<z>> \o s = <<x>> \o (<<y>> \o (<<z>> \o s))
  <1>1. <<x>> \in Seq(Item) /\ <<y>> \in Seq(Item) /\ <<z>> \in Seq(Item) OBVIOUS
  <1>2. <<y>> \o <<z>> \in Seq(Item) BY <1>1
  <1>3. (<<y>> \o <<z>>) \o s = <<y>> \o (<<z>> \o s)
    BY <1>1, ConcatAssociative
  <1>4. p \o <<z>> = <<x>> \o (<<y>> \o <<z>>)
    BY <1>1, ConcatAssociative
  <1>5. (<<x>> \o (<<y>> \o <<z>>)) \o s = <<x>> \o ((<<y>> \o <<z>>) \o s)
    BY <1>1, <1>2, ConcatAssociative
  <1> QED BY <1>3, <1>4, <1>5

LEMMA RestingIsQuiet ==
  ASSUME NEW self, NEW r, NEW c, NEW t, NEW in, NEW s, NEW b, NEW n, NEW ev,
         RadioOk(r, self, c, t), TellsIdle(ev) => r.disc = "idle",
         Moves(Begin(self), n, t, in, ev), Begin(self).self = self
  PROVE  /\ RadioOk(r, n.self, c, t)
         /\ Rests(n, t, in) \/ Starts(Begin(self), n, t, in) => r.disc = "idle"
  <1>1. ASSUME Rests(n, t, in) /\ (Discovering(self) => TellsIdle(ev))
        PROVE  r.disc = "idle" /\ RadioOk(r, n.self, c, t)
    BY <1>1 DEF RadioOk, Rests
  <1>2. ASSUME Starts(Begin(self), n, t, in)
        PROVE  r.disc = "idle" /\ RadioOk(r, n.self, c, t)
    BY <1>2 DEF RadioOk, Starts, Discovering
  <1>3. ASSUME Stays(Begin(self), n)
        PROVE  /\ RadioOk(r, n.self, c, t)
               /\ Rests(n, t, in) => r.disc = "idle"
    BY <1>3 DEF RadioOk, Stays, Rests, Discovering, Fresh
  <1>4. ASSUME Cancels(n)
        PROVE  RadioOk(r, n.self, c, t) /\ ~Rests(n, t, in)
    BY <1>4 DEF RadioOk, Cancels, Rests, Discovering, Fresh
  <1> QED BY <1>1, <1>2, <1>3, <1>4 DEF Moves

(* What is still to do after a dispatch whose step ended in n. *)
After(n, s) ==
    Commands(n.out.actions)
      \o <<[op |-> "return", idle |-> n.out.radio_idle]>> \o Tail(s)

(* A dispatch whose turn has come, the inputs it reads, and what its step   *)
(* ends in. *)
Dispatches(self, t, in, r, b, c, told, s, n) ==
    /\ self \in RuntimeType /\ t \in Time /\ in \in AllInputs
    /\ self.phase.k # "Scanning" => self.counter = EmptyCounter
    /\ RadioOk(r, self, c, t) /\ TodoOk(s, self, b, r, c, told)
    /\ s # <<>> /\ Head(s).op = "dispatch"
    /\ in.advertising = "off" => r.adv = "off" /\ in.connected = r.conn
    /\ in.allowed => b.mode = "NORMAL"
    /\ n = Step(self, t, in, Head(s).ev)
    /\ n.out.actions # {"reset_off"}

(* dispatch() leaves its commands, its result and what waited before, each *)
(* as it must be when its turn comes. *)
LEMMA DispatchOk ==
  ASSUME NEW self, NEW t, NEW in, NEW r, NEW b, NEW c, NEW told, NEW s, NEW n,
         Dispatches(self, t, in, r, b, c, told, s, n)
  PROVE  /\ RadioOk(r, n.self, c, t)
         /\ TodoOk(After(n, s), n.self, b, r, c, told)
         /\ n.self \in RuntimeType
         /\ n.self.phase.k # "Scanning" => n.self.counter = EmptyCounter
  <1> DEFINE ev == Head(s).ev
             back == [op |-> "return", idle |-> n.out.radio_idle]
             rest == Tail(s)
             tail == <<back>> \o rest
             after == Commands(n.out.actions) \o <<back>> \o rest
  <1>0. /\ self \in RuntimeType /\ t \in Time /\ in \in AllInputs
        /\ self.phase.k # "Scanning" => self.counter = EmptyCounter
        /\ RadioOk(r, self, c, t) /\ TodoOk(s, self, b, r, c, told)
        /\ s # <<>> /\ Head(s).op = "dispatch"
        /\ in.advertising = "off" => r.adv = "off" /\ in.connected = r.conn
        /\ in.allowed => b.mode = "NORMAL"
        /\ n = Step(self, t, in, Head(s).ev)
        /\ n.out.actions # {"reset_off"}
    BY DEF Dispatches
  <1> USE <1>0
  <1>1. /\ Head(s) = s[1] /\ Head(s) \in Item /\ ItemOk(Head(s), b, r)
        /\ rest \in Seq(Item) /\ Len(rest) = Len(s) - 1
        /\ Chain(rest, b, r)
        /\ rest # <<>> => PairOk(Head(s), rest[1], r)
        /\ HeadOk(s, self, b, r, c, told)
    BY ChainTail DEF TodoOk
  <1>2. ev \in EventType BY <1>1 DEF Item, CallOp
  <1>3. /\ "reset_off" \notin n.out.actions
        /\ Moves(Begin(self), n, t, in, ev)
        /\ n.out.radio_idle =>
             ~Discovering(n.self) /\ (ev.kind = "Shutdown" => ReadsSilent(in))
    BY <1>2, StepMoves DEF StepIs
  <1>4. /\ n.self \in RuntimeType /\ n.out.radio_idle \in BOOLEAN
        /\ n.self.phase.k # "Scanning" => n.self.counter = EmptyCounter
    BY <1>2, StepSound DEF Sound, Wiped, MachineType, OutputType
  <1>5. TellsIdle(ev) => r.disc = "idle" BY <1>1 DEF ItemOk
  <1>6. IsEvent(s[1], "Tick") <=> ev.kind = "Tick" BY <1>1 DEF IsEvent
  <1>7. IsEvent(Head(s), "Shutdown") <=> ev.kind = "Shutdown" BY DEF IsEvent
  <1> HIDE DEF ev, rest
  <1>8. Begin(self).self = self BY DEF Begin
  <1>9. /\ RadioOk(r, n.self, c, t)
        /\ Rests(n, t, in) \/ Starts(Begin(self), n, t, in) => r.disc = "idle"
    BY <1>3, <1>5, <1>8, RestingIsQuiet
  <1>10. ReadsSilent(in) => r.adv = "off" /\ ~r.conn BY DEF ReadsSilent
  <1>11. /\ back \in Item /\ back.op = "return" /\ back.idle = n.out.radio_idle
         /\ n.out.radio_idle => r.disc = "idle"
    BY <1>3, <1>4, <1>9, ReturnIs DEF RadioOk
  <1> HIDE DEF back
  <1>12. ItemOk(back, b, r) BY <1>11 DEF ItemOk
  <1>13. ASSUME rest # <<>> PROVE PairOk(back, rest[1], r)
    <2>1. PairOk(Head(s), rest[1], r) BY <1>1, <1>13
    <2>2. ASSUME rest[1].op = "handoff_if_idle" PROVE back.idle => SilentRadio(r)
      <3>1. ev.kind = "Shutdown" BY <1>7, <2>1, <2>2 DEF PairOk
      <3> QED BY <1>3, <1>10, <1>11, <3>1 DEF SilentRadio
    <2> QED BY <1>11, <2>1, <2>2 DEF PairOk
  <1>14. /\ Chain(tail, b, r) /\ tail # <<>> /\ tail[1] = back
         /\ Len(tail) = Len(rest) + 1
    BY <1>1, <1>11, <1>12, <1>13, ChainPush
  <1>15. tail \in Seq(Item) BY <1>14 DEF Chain
  <1> HIDE DEF tail
  (* One command. *)
  <1>16. ASSUME NEW op \in CallOp \ {"advertise_if_idle", "handoff_if_idle"},
                n.out.actions = {op}, Commands({op}) = <<Call(op)>>
         PROVE  /\ after # <<>> /\ after[1].op = op /\ after[2] = back
                /\ Chain(after, b, r) /\ Len(after) = Len(rest) + 2
    <2>1. Call(op) \in Item /\ Call(op).op = op BY CallIs
    <2>2. ItemOk(Call(op), b, r) BY <2>1 DEF ItemOk, CallOp
    <2>3. PairOk(Call(op), tail[1], r) BY <1>11, <1>14, <2>1 DEF PairOk, IsEvent
    <2>4. after = <<Call(op)>> \o tail
      <3>1. after = <<Call(op)>> \o <<back>> \o rest BY <1>16
      <3> HIDE DEF after
      <3> QED BY <1>1, <1>11, <2>1, <3>1, PrependOne DEF tail
    <2> HIDE DEF after
    <2>5. /\ Chain(<<Call(op)>> \o tail, b, r) /\ <<Call(op)>> \o tail # <<>>
          /\ (<<Call(op)>> \o tail)[1] = Call(op)
          /\ Len(<<Call(op)>> \o tail) = Len(tail) + 1
          /\ (<<Call(op)>> \o tail)[2] = tail[1]
      BY <1>14, <2>1, <2>2, <2>3, ChainPush
    <2>6. Len(rest) \in Nat BY <1>1
    <2> QED BY <1>14, <2>1, <2>4, <2>5, <2>6
  <1>17. TodoOk(after, n.self, b, r, c, told)
    <2>1. CASE n.out.actions = {}
      <3>1. after = tail
        <4>1. Commands(n.out.actions) = <<>> BY <2>1, CommandsAre
        <4>2. after = <<>> \o <<back>> \o rest BY <4>1
        <4> HIDE DEF after
        <4> QED BY <1>1, <1>11, <4>2, PrependOne DEF tail
      <3>2. HeadOk(tail, n.self, b, r, c, told)
        BY <1>11, <1>14 DEF HeadOk, IsEvent
      <3> HIDE DEF after
      <3> QED BY <1>14, <3>1, <3>2 DEF TodoOk
    <2>2. ASSUME NEW op \in {"start_role", "stop_advertising", "disconnect", "cancel_scan"},
                 n.out.actions = {op}
          PROVE  TodoOk(after, n.self, b, r, c, told)
      <3>1. op \in CallOp \ {"advertise_if_idle", "handoff_if_idle"} BY DEF CallOp
      <3>2. Commands({op}) = <<Call(op)>> BY CommandsAre
      <3>3. /\ after # <<>> /\ after[1].op = op /\ Chain(after, b, r)
        BY <1>16, <2>2, <3>1, <3>2
      <3> HIDE DEF after
      <3>4. HeadOk(after, n.self, b, r, c, told) BY <3>3 DEF HeadOk, IsEvent
      <3> QED BY <3>3, <3>4 DEF TodoOk
    <2>3. CASE n.out.actions = {"advertise"} /\ r.disc = "idle"
      <3>1. "advertise" \in CallOp \ {"advertise_if_idle", "handoff_if_idle"} BY DEF CallOp
      <3>2. Commands({"advertise"}) = <<Call("advertise")>> BY CommandsAre
      <3>3. after # <<>> /\ after[1].op = "advertise" /\ Chain(after, b, r)
        BY <1>16, <2>3, <3>1, <3>2
      <3> HIDE DEF after
      <3>4. HeadOk(after, n.self, b, r, c, told) BY <2>3, <3>3 DEF HeadOk, IsEvent
      <3> QED BY <3>3, <3>4 DEF TodoOk
    <2>4. CASE n.out.actions = {"shutdown_idle"} /\ ReadsSilent(in) /\ r.disc = "idle"
      <3>1. "shutdown_idle" \in CallOp \ {"advertise_if_idle", "handoff_if_idle"}
        BY DEF CallOp
      <3>2. Commands({"shutdown_idle"}) = <<Call("shutdown_idle")>> BY CommandsAre
      <3>3. after # <<>> /\ after[1].op = "shutdown_idle" /\ Chain(after, b, r)
        BY <1>16, <2>4, <3>1, <3>2
      <3> HIDE DEF after
      <3>4. SilentRadio(r) BY <1>10, <2>4 DEF SilentRadio
      <3>5. HeadOk(after, n.self, b, r, c, told) BY <3>3, <3>4 DEF HeadOk, IsEvent
      <3> QED BY <3>3, <3>5 DEF TodoOk
    <2>5. CASE Starts(Begin(self), n, t, in) /\ ev.kind = "Tick"
      <3>1. "start_scan" \in CallOp \ {"advertise_if_idle", "handoff_if_idle"}
        BY DEF CallOp
      <3>2. Commands({"start_scan"}) = <<Call("start_scan")>> BY CommandsAre
      <3>3. /\ n.out.actions = {"start_scan"} /\ n.self.phase.k = "Scanning"
            /\ ReadsSilent(in) /\ in.allowed
            /\ self.phase.k = "Quiet" /\ Due(t, self.phase.at)
        BY <1>8, <2>5 DEF Starts
      <3>4. /\ after # <<>> /\ after[1].op = "start_scan" /\ Chain(after, b, r)
            /\ after[2] = back /\ Len(after) = Len(rest) + 2
        BY <1>16, <3>1, <3>2, <3>3
      <3> HIDE DEF after
      <3>5. Len(after) = 2
        <4>1. Len(s) = 1 BY <1>1, <1>6, <2>5 DEF HeadOk
        <4> QED BY <1>1, <3>4, <4>1
      <3>6. SilentRadio(r) BY <1>9, <1>10, <2>5, <3>3 DEF SilentRadio
      <3>7. c.complete = "none" BY <3>3 DEF RadioOk, Discovering, Fresh
      <3>8. ~n.out.radio_idle BY <1>3, <3>3 DEF Discovering
      <3>9. HeadOk(after, n.self, b, r, c, told)
        BY <1>11, <3>3, <3>4, <3>5, <3>6, <3>7, <3>8 DEF HeadOk, IsEvent
      <3> QED BY <3>4, <3>9 DEF TodoOk
    <2>6. CASE n.out.actions = {"stop_advertising", "disconnect"}
      <3> DEFINE x == Call("stop_advertising")
                 y == Call("disconnect")
                 later == <<y>> \o tail
      <3>1. /\ x \in Item /\ x.op = "stop_advertising"
            /\ y \in Item /\ y.op = "disconnect"
        BY CallIs DEF CallOp
      <3>2. after = <<x>> \o later
        <4> DEFINE p == <<x, y>>
        <4>1. Commands(n.out.actions) = p BY <2>6, CommandsAre
        <4>2. after = p \o <<back>> \o rest BY <4>1
        <4>3. p = <<x>> \o <<y>> BY TwoAre
        <4> HIDE DEF after, p, x, y
        <4> QED BY <1>1, <1>11, <3>1, <4>2, <4>3, PrependTwo DEF tail
      <3> HIDE DEF x, y
      <3>3. ItemOk(x, b, r) /\ ItemOk(y, b, r) BY <3>1 DEF ItemOk
      <3>4. PairOk(y, tail[1], r) BY <1>11, <1>14, <3>1 DEF PairOk, IsEvent
      <3>5. Chain(later, b, r) /\ later # <<>> /\ later[1] = y
        BY <1>14, <3>1, <3>3, <3>4, ChainPush
      <3> HIDE DEF later
      <3>6. PairOk(x, later[1], r) BY <3>1, <3>5 DEF PairOk, IsEvent
      <3>7. Chain(<<x>> \o later, b, r) /\ <<x>> \o later # <<>> /\ (<<x>> \o later)[1] = x
        BY <3>1, <3>3, <3>5, <3>6, ChainPush
      <3> HIDE DEF after
      <3>8. Chain(after, b, r) /\ after[1].op = "stop_advertising"
        BY <3>1, <3>2, <3>7
      <3>9. HeadOk(after, n.self, b, r, c, told) BY <3>8 DEF HeadOk, IsEvent
      <3> QED BY <3>8, <3>9 DEF TodoOk
    <2>7. CASE Rests(n, t, in)
      <3>1. r.disc = "idle" BY <1>9, <2>7
      <3>2. RestingCalls(n, in) BY <2>7 DEF Rests
      <3>3. ASSUME n.out.actions \subseteq {"stop_advertising", "disconnect"}
            PROVE  n.out.actions \in {{}, {"stop_advertising"}, {"disconnect"},
                                      {"stop_advertising", "disconnect"}}
        BY <3>3
      <3> HIDE DEF after
      <3> QED BY <2>1, <2>2, <2>3, <2>4, <2>6, <3>1, <3>2, <3>3 DEF RestingCalls
    <2>8. CASE Stays(Begin(self), n) BY <2>1, <2>8 DEF Stays
    <2>9. CASE Cancels(n) BY <2>2, <2>9 DEF Cancels
    <2> HIDE DEF after
    <2> QED BY <1>3, <2>5, <2>7, <2>8, <2>9 DEF Moves
  <1> QED BY <1>4, <1>9, <1>17 DEF After, after, back, rest

(* The wake that a dispatch leaves is the one its step waits for. *)
LEMMA RearmedOk ==
  ASSUME Types, NEW kind, NEW after, NEW self, NEW w \in Rearmed(kind, after), NEW s,
         timer.wake_armed => timer.tmos = timer.wake_at \/ timer.wake_event,
         \/ self.next_wake = NoTime /\ after = NoTime
         \/ /\ self.next_wake \in Time
            /\ after \in Nat
            /\ Wadd(now, after) \in {self.next_wake, Wadd(now, 1)}
  PROVE  w \in TimerType /\ WakeOk(w, self, now, s)
  <1>1. NoTime \notin Nat BY DEF NoTime
  <1>2. timer \in TimerType /\ now \in Time BY DEF Types
  <1>3. CASE self.next_wake = NoTime /\ after = NoTime
    <2>1. w = [timer EXCEPT !.wake_armed = FALSE, !.wake_retry = FALSE,
                            !.tmos = IF timer.wake_armed THEN NoTime ELSE @]
      BY <1>3 DEF Rearmed
    <2>2. w \in TimerType /\ ~w.wake_armed BY <1>2, <2>1 DEF TimerType, MaybeTime
    <2> QED BY <1>3, <2>2 DEF WakeOk
  <1>4. CASE /\ self.next_wake \in Time
             /\ after \in Nat
             /\ Wadd(now, after) \in {self.next_wake, Wadd(now, 1)}
    <2> DEFINE at == Wadd(now, after)
               armed == Armed(at)
               retry == [timer EXCEPT !.wake_armed = FALSE, !.wake_retry = TRUE,
                                      !.wake_at = at]
    <2>1. at \in Time BY <1>2, <1>4, WaddType, ZeroIsTime
    <2>2. \/ w \in {armed, retry}
          \/ /\ w = timer
             /\ timer.wake_retry \/ (timer.wake_armed /\ timer.wake_at = at)
      BY <1>1, <1>4 DEF Rearmed
    <2>3. /\ armed \in TimerType /\ retry \in TimerType
          /\ armed.tmos = at /\ armed.wake_at = at
          /\ ~retry.wake_armed /\ retry.wake_retry
      BY <1>2, <2>1 DEF Armed, TimerType, MaybeTime
    <2> HIDE DEF armed, retry
    <2>4. at \in {self.next_wake, Wadd(now, 1)} BY <1>4
    <2> HIDE DEF at
    <2> QED BY <1>2, <2>2, <2>3, <2>4 DEF WakeOk
  <1> QED BY <1>3, <1>4

-----------------------------------------------------------------------------
(* What a step of anything does to what is still to do.                    *)

(* The radio stays as quiet as it was; when the badge is not powering off, *)
(* advertising is free to come back. *)
Quieter(b, r, b2, r2) ==
    /\ b2.mode = b.mode
    /\ r.disc = "idle" => r2.disc = "idle"
    /\ b.mode = "POWER_OFF" => (SilentRadio(r) => SilentRadio(r2))

NoTick(s) == ~(s # <<>> /\ IsEvent(s[1], "Tick"))

LEMMA WakeStays ==
  ASSUME NEW w, NEW self, NEW t, NEW s, NEW s2, WakeOk(w, self, t, s), NoTick(s)
  PROVE  WakeOk(w, self, t, s2)
  BY DEF WakeOk, NoTick

LEMMA PopOk ==
  ASSUME NEW s, NEW self, NEW b, NEW r, NEW c, NEW told,
         TodoOk(s, self, b, r, c, told), s # <<>>, Head(s).op \in CallOp,
         NEW b2, NEW r2, Quieter(b, r, b2, r2)
  PROVE  /\ TodoOk(Tail(s), self, b2, r2, c, told)
         /\ Tail(s) \in Seq(Item)
         /\ NoTick(s)
  <1>1. /\ Head(s) = s[1] /\ Chain(Tail(s), b, r) /\ Tail(s) \in Seq(Item)
        /\ Tail(s) # <<>> => PairOk(Head(s), Tail(s)[1], r)
    BY ChainTail DEF TodoOk
  <1>2. Head(s).op \notin {"dispatch", "return"} BY DEF CallOp
  <1>3. Chain(Tail(s), b2, r2) BY <1>1, ChainStays DEF Quieter
  <1>4. Tail(s) # <<>> => HeadOk(Tail(s), self, b2, r2, c, told)
    BY <1>1, <1>2 DEF PairOk, HeadOk, IsEvent
  <1>5. NoTick(s) BY <1>1, <1>2 DEF NoTick, IsEvent
  <1> QED BY <1>1, <1>3, <1>4, <1>5 DEF TodoOk

LEMMA ReplaceOk ==
  ASSUME NEW s, NEW self, NEW b, NEW r, NEW c, NEW told,
         TodoOk(s, self, b, r, c, told), s # <<>>, Head(s).op \in CallOp,
         NEW b2, NEW r2, Quieter(b, r, b2, r2),
         NEW x \in Item, x.op = "dispatch", x.ev.kind # "Tick", ItemOk(x, b2, r2)
  PROVE  /\ TodoOk(<<x>> \o Tail(s), self, b2, r2, c, told)
         /\ <<x>> \o Tail(s) \in Seq(Item)
         /\ NoTick(s)
  <1>1. /\ Head(s) = s[1] /\ Chain(Tail(s), b, r) /\ Tail(s) \in Seq(Item)
        /\ Tail(s) # <<>> => PairOk(Head(s), Tail(s)[1], r)
    BY ChainTail DEF TodoOk
  <1>2. Head(s).op \notin {"dispatch", "return"} BY DEF CallOp
  <1>3. Chain(Tail(s), b2, r2) BY <1>1, ChainStays DEF Quieter
  <1>4. Tail(s) # <<>> => PairOk(x, Tail(s)[1], r2)
    BY <1>1, <1>2 DEF PairOk, IsEvent
  <1>5. Chain(<<x>> \o Tail(s), b2, r2) /\ (<<x>> \o Tail(s))[1] = x
    BY <1>3, <1>4, ChainPush
  <1>6. HeadOk(<<x>> \o Tail(s), self, b2, r2, c, told) BY <1>5 DEF HeadOk, IsEvent
  <1>7. NoTick(s) BY <1>1, <1>2 DEF NoTick, IsEvent
  <1> QED BY <1>5, <1>6, <1>7 DEF TodoOk, Chain

(* A callback between two handlers, or out of an SDK call. *)
LEMMA PushOk ==
  ASSUME NEW s, NEW self, NEW b, NEW r, NEW c, NEW told,
         TodoOk(s, self, b, r, c, told),
         s # <<>> => /\ s[1].op = "dispatch"
                     /\ s[1].ev.kind \in {"Ready", "StartResult", "CancelResult",
                                          "Complete", "Report"},
         NEW x \in Item, x.op = "dispatch", x.ev.kind # "Tick", ItemOk(x, b, r),
         NEW c2
  PROVE  /\ TodoOk(<<x>> \o s, self, b, r, c2, told)
         /\ <<x>> \o s \in Seq(Item) /\ (<<x>> \o s)[1] = x
         /\ NoTick(s)
  <1>1. Chain(s, b, r) BY DEF TodoOk
  <1>2. s # <<>> => PairOk(x, s[1], r) BY DEF PairOk, IsEvent
  <1>3. Chain(<<x>> \o s, b, r) /\ (<<x>> \o s)[1] = x BY <1>1, <1>2, ChainPush
  <1>4. HeadOk(<<x>> \o s, self, b, r, c2, told) BY <1>3 DEF HeadOk, IsEvent
  <1>5. NoTick(s) BY DEF NoTick, IsEvent
  <1> QED BY <1>3, <1>4, <1>5 DEF TodoOk, Chain

(* What the controller does on its own never makes a silent radio heard. *)
LEMMA AsideOk ==
  ASSUME NEW s, NEW self, NEW b, NEW r, NEW c, NEW told,
         TodoOk(s, self, b, r, c, told),
         NEW r2, NEW c2,
         r.disc = "idle" => r2.disc = "idle",
         SilentRadio(r) => SilentRadio(r2),
         SilentRadio(r) /\ c.complete = "none" => c2.complete = "none"
  PROVE  TodoOk(s, self, b, r2, c2, told)
  <1>1. Chain(s, b, r) => Chain(s, b, r2) BY ChainStays
  <1>2. HeadOk(s, self, b, r, c, told) => HeadOk(s, self, b, r2, c2, told)
    BY DEF HeadOk
  <1> QED BY <1>1, <1>2 DEF TodoOk

(* A handler that starts with one event, or one call. *)
LEMMA OneOk ==
  ASSUME NEW self, NEW b, NEW r, NEW c, NEW told,
         NEW x \in Item, ItemOk(x, b, r),
         x.op \in {"dispatch", "start_role"}
  PROVE  TodoOk(<<x>>, self, b, r, c, told) /\ <<x>> \in Seq(Item)
  <1>1. Chain(<<>>, b, r) BY ChainEmpty
  <1>2. <<x>> \o <<>> = <<x>> BY TwoAre
  <1>3. Chain(<<x>>, b, r) /\ <<x>>[1] = x /\ Len(<<x>>) = 1 BY <1>1, <1>2, ChainPush, ZenonT(60)
  <1>4. HeadOk(<<x>>, self, b, r, c, told) BY <1>3 DEF HeadOk, IsEvent
  <1> QED BY <1>3, <1>4 DEF TodoOk, Chain

(* ... and one that calls something once the dispatch has returned. *)
LEMMA TwoOk ==
  ASSUME NEW self, NEW b, NEW r, NEW c, NEW told,
         NEW x \in Item, ItemOk(x, b, r), x.op = "dispatch", x.ev.kind # "Tick",
         NEW y \in Item, ItemOk(y, b, r), PairOk(x, y, r)
  PROVE  TodoOk(<<x, y>>, self, b, r, c, told) /\ <<x, y>> \in Seq(Item)
  <1>1. Chain(<<>>, b, r) BY ChainEmpty
  <1>2. <<y>> \o <<>> = <<y>> /\ <<x, y>> = <<x>> \o <<y>> BY TwoAre
  <1>a. Chain(<<y>> \o <<>>, b, r) BY <1>1, ChainPush
  <1>b. Chain(<<y>>, b, r) BY <1>2, <1>a
  <1>3. Chain(<<y>>, b, r) /\ <<y>>[1] = y BY <1>b
  <1>4. Chain(<<x>> \o <<y>>, b, r) /\ (<<x>> \o <<y>>)[1] = x BY <1>3, ChainPush
  <1> DEFINE p == <<x, y>>
  <1>5. Chain(p, b, r) /\ p[1] = x BY <1>2, <1>4
  <1> HIDE DEF p
  <1>6. HeadOk(p, self, b, r, c, told) BY <1>5 DEF HeadOk, IsEvent
  <1>7. TodoOk(p, self, b, r, c, told) /\ p \in Seq(Item) BY <1>5, <1>6 DEF TodoOk, Chain
  <1> QED BY <1>7 DEF p

(* A handler that goes on after the event it starts with. *)
LEMMA ThenOk ==
  ASSUME NEW self, NEW b, NEW r, NEW c, NEW told,
         NEW x \in Item, ItemOk(x, b, r), x.op = "dispatch", x.ev.kind # "Tick",
         NEW s, TodoOk(s, self, b, r, c, told), s # <<>>,
         s[1].op = "dispatch", s[1].ev.kind # "Tick"
  PROVE  /\ TodoOk(<<x>> \o s, self, b, r, c, told) /\ <<x>> \o s \in Seq(Item)
  <1>1. Chain(s, b, r) BY DEF TodoOk
  <1>2. PairOk(x, s[1], r) BY DEF PairOk, IsEvent
  <1>3. Chain(<<x>> \o s, b, r) /\ (<<x>> \o s)[1] = x BY <1>1, <1>2, ChainPush
  <1>4. HeadOk(<<x>> \o s, self, b, r, c, told) BY <1>3 DEF HeadOk, IsEvent
  <1> QED BY <1>3, <1>4 DEF TodoOk, Chain

LEMMA SuspendThenAdvertiseOk ==
  ASSUME NEW self, NEW b, NEW r, NEW c, NEW told, b.mode # "POWER_OFF"
  PROVE  /\ TodoOk(SuspendThenAdvertise, self, b, r, c, told)
         /\ SuspendThenAdvertise \in Seq(Item) /\ SuspendThenAdvertise # <<>>
         /\ SuspendThenAdvertise[1].op = "dispatch"
         /\ SuspendThenAdvertise[1].ev.kind # "Tick"
  <1> DEFINE x == EventOk("Suspend", TRUE)
             y == Call("advertise_if_idle")
  <1>1. x \in Item /\ x.op = "dispatch" /\ x.ev.kind = "Suspend" BY EventOkIs
  <1>2. y \in Item /\ y.op = "advertise_if_idle" BY CallIs DEF CallOp
  <1>3. SuspendThenAdvertise = <<x, y>> BY DEF SuspendThenAdvertise
  <1> HIDE DEF x, y
  <1>4. ItemOk(x, b, r) BY <1>1 DEF ItemOk, TellsIdle
  <1>5. ItemOk(y, b, r) BY <1>2 DEF ItemOk
  <1>6. PairOk(x, y, r) BY <1>1, <1>2 DEF PairOk, IsEvent
  <1>7. TodoOk(<<x, y>>, self, b, r, c, told) /\ <<x, y>> \in Seq(Item)
    BY <1>1, <1>2, <1>4, <1>5, <1>6, TwoOk
  <1>8. <<x, y>> # <<>> /\ <<x, y>>[1] = x OBVIOUS
  <1> QED BY <1>1, <1>3, <1>7, <1>8

NormalOps(always_on) ==
    <<Event("Resume")>> \o (IF always_on THEN SuspendThenAdvertise ELSE <<>>)
      \o <<Event("View")>>

LEMMA NormalOpsOk ==
  ASSUME NEW self, NEW b, NEW r, NEW c, NEW told, b.mode # "POWER_OFF",
         NEW always_on \in BOOLEAN
  PROVE  TodoOk(NormalOps(always_on), self, b, r, c, told)
         /\ NormalOps(always_on) \in Seq(Item)
  <1> DEFINE resume == Event("Resume")
             view == Event("View")
             x == EventOk("Suspend", TRUE)
             y == Call("advertise_if_idle")
  <1>1. /\ resume \in Item /\ resume.op = "dispatch" /\ resume.ev.kind = "Resume"
        /\ ItemOk(resume, b, r)
        /\ view \in Item /\ view.op = "dispatch" /\ view.ev.kind = "View"
        /\ ItemOk(view, b, r)
    BY EventIs
  <1>2. x \in Item /\ x.op = "dispatch" /\ x.ev.kind = "Suspend" BY EventOkIs
  <1>3. y \in Item /\ y.op = "advertise_if_idle" BY CallIs DEF CallOp
  <1>4. SuspendThenAdvertise = <<x, y>> BY DEF SuspendThenAdvertise
  <1> HIDE DEF resume, view, x, y
  <1>5. TodoOk(<<view>>, self, b, r, c, told) /\ <<view>> \in Seq(Item)
    BY <1>1, OneOk
  <1>6. <<view>> # <<>> /\ <<view>>[1] = view OBVIOUS
  <1>7. CASE always_on
    <2> DEFINE later == <<y>> \o <<view>>
               last == <<x>> \o later
               p == <<x, y>>
    <2>1. ItemOk(x, b, r) BY <1>2 DEF ItemOk, TellsIdle
    <2>2. ItemOk(y, b, r) BY <1>3 DEF ItemOk
    <2>3. PairOk(x, y, r) /\ PairOk(y, view, r) BY <1>1, <1>2, <1>3 DEF PairOk, IsEvent
    <2>4. Chain(later, b, r) /\ later # <<>> /\ later[1] = y
      BY <1>3, <1>5, <1>6, <2>2, <2>3, ChainPush DEF TodoOk
    <2> HIDE DEF later
    <2>5. Chain(last, b, r) /\ last # <<>> /\ last[1] = x
      BY <1>2, <2>1, <2>3, <2>4, ChainPush
    <2> HIDE DEF last
    <2>6. HeadOk(last, self, b, r, c, told) BY <1>2, <2>5 DEF HeadOk, IsEvent
    <2>7. TodoOk(<<resume>> \o last, self, b, r, c, told) /\ <<resume>> \o last \in Seq(Item)
      BY <1>1, <1>2, <2>5, <2>6, ThenOk DEF TodoOk
    <2>8. NormalOps(always_on) = <<resume>> \o last
      <3>1. p = <<x>> \o <<y>> BY TwoAre
      <3>2. p \in Seq(Item) BY <1>2, <1>3
      <3>3. NormalOps(always_on) = <<resume>> \o p \o <<view>>
        BY <1>4, <1>7 DEF NormalOps, resume, view
      <3> HIDE DEF p
      <3>4. p \o <<view>> = last
        <4>1. <<x>> \in Seq(Item) /\ <<y>> \in Seq(Item) BY <1>2, <1>3
        <4> QED BY <1>5, <3>1, <4>1, ConcatAssociative DEF last, later
      <3>5. <<resume>> \in Seq(Item) BY <1>1
      <3> DEFINE q == <<resume>>
                 v == <<view>>
      <3>6. q \in Seq(Item) /\ v \in Seq(Item) BY <1>5, <3>5
      <3>7. NormalOps(always_on) = (q \o p) \o v /\ p \o v = last BY <3>3, <3>4
      <3> HIDE DEF q, v
      <3>8. (q \o p) \o v = q \o (p \o v) BY <3>2, <3>6, ConcatAssociative
      <3> QED BY <3>7, <3>8 DEF q
    <2> QED BY <2>7, <2>8
  <1>8. CASE ~always_on
    <2>1. TodoOk(<<resume>> \o <<view>>, self, b, r, c, told)
          /\ <<resume>> \o <<view>> \in Seq(Item)
      BY <1>1, <1>5, <1>6, ThenOk
    <2>2. NormalOps(always_on) = <<resume>> \o <<>> \o <<view>>
      BY <1>8 DEF NormalOps, resume, view
    <2>3. <<resume>> \o <<>> = <<resume>> BY TwoAre
    <2> QED BY <2>1, <2>2, <2>3
  <1> QED BY <1>7, <1>8

-----------------------------------------------------------------------------
(* The invariant, action by action: what a handler has to do.              *)

LEMMA DispatchKeeps == ASSUME Inv, RunDispatch PROVE Inv'
  <1> DEFINE ev == Head(todo).ev
  <1>1. /\ Types /\ On /\ todo # <<>> /\ Head(todo).op = "dispatch"
        /\ RadioOk(radio, rt, callbacks, now) /\ OffOk(board, radio)
        /\ TodoOk(todo, rt, board, radio, callbacks, ret)
        /\ WakeOk(timer, rt, now, todo)
    BY DEF Inv, RunDispatch
  <1>2. ev \in EventType
    <2>1. Head(todo) \in Item BY <1>1, ChainTail DEF TodoOk
    <2> QED BY <1>1, <2>1 DEF Item, CallOp
  <1>3. PICK in \in inputs(ev.kind) :
          LET m == Step(rt, now, in, ev)
          IN  /\ rt' = m.self
              /\ IF "reset_off" \in m.out.actions
                 THEN /\ board' = [board EXCEPT !.power = "reset"]
                      /\ todo' = <<>>
                      /\ UNCHANGED timer
                 ELSE /\ timer' \in Rearmed(ev.kind, m.out.wake_after)
                      /\ todo' = Commands(m.out.actions)
                                   \o <<[op |-> "return", idle |-> m.out.radio_idle]>>
                                   \o Tail(todo)
                      /\ UNCHANGED board
    BY DEF RunDispatch
  <1>4. UNCHANGED <<now, radio, callbacks, ret>> BY DEF RunDispatch
  <1> DEFINE n == Step(rt, now, in, ev)
  <1>5. /\ in \in AllInputs
        /\ in.allowed => board.mode = "NORMAL"
        /\ in.advertising = "off" => radio.adv = "off" /\ in.connected = radio.conn
    BY <1>1, InputsAre
  <1>6. rt' = n.self /\ rt \in RuntimeType /\ now \in Time
        /\ (rt.phase.k # "Scanning" => rt.counter = EmptyCounter)
    BY <1>1, <1>3 DEF Types
  <1>7. CASE "reset_off" \in n.out.actions
    <2>1. board' = [board EXCEPT !.power = "reset"] /\ todo' = <<>> /\ timer' = timer
      BY <1>3, <1>7
    <2>2. /\ rt' \in RuntimeType
          /\ rt'.phase.k # "Scanning" => rt'.counter = EmptyCounter
      BY <1>2, <1>5, <1>6, StepSound DEF Sound, Wiped, MachineType
    <2>3. board' \in BoardType /\ board'.power = "reset"
      BY <1>1, <2>1 DEF Types, BoardType
    <2>4. todo' \in Seq(Item) BY <2>1
    <2>5. Types' BY <1>1, <1>4, <2>1, <2>2, <2>3, <2>4 DEF Types
    <2> QED BY <2>3, <2>5 DEF Inv, On
  <1>8. CASE "reset_off" \notin n.out.actions
    <2>1. /\ timer' \in Rearmed(ev.kind, n.out.wake_after)
          /\ todo' = Commands(n.out.actions)
                       \o <<[op |-> "return", idle |-> n.out.radio_idle]>>
                       \o Tail(todo)
          /\ board' = board
      BY <1>3, <1>8
    <2>2. /\ RadioOk(radio, rt', callbacks, now)
          /\ TodoOk(todo', rt', board, radio, callbacks, ret)
          /\ rt' \in RuntimeType
          /\ rt'.phase.k # "Scanning" => rt'.counter = EmptyCounter
      <3>1. n.out.actions # {"reset_off"} /\ n = Step(rt, now, in, Head(todo).ev)
        BY <1>8
      <3>3. todo' = After(n, todo) /\ rt' = n.self BY <1>6, <2>1 DEF After
      <3> HIDE DEF n
      <3>2. /\ RadioOk(radio, n.self, callbacks, now)
            /\ TodoOk(After(n, todo), n.self, board, radio, callbacks, ret)
            /\ n.self \in RuntimeType
            /\ n.self.phase.k # "Scanning" => n.self.counter = EmptyCounter
        <4>1. rt \in RuntimeType /\ now \in Time /\ in \in AllInputs
          BY <1>5, <1>6
        <4>2. rt.phase.k # "Scanning" => rt.counter = EmptyCounter BY <1>6
        <4>3. Head(todo).op = "dispatch" /\ todo # <<>> BY <1>1
        <4>5. /\ RadioOk(radio, rt, callbacks, now)
              /\ TodoOk(todo, rt, board, radio, callbacks, ret)
          BY <1>1
        <4>6. /\ in.advertising = "off" => radio.adv = "off" /\ in.connected = radio.conn
              /\ in.allowed => board.mode = "NORMAL"
          BY <1>5
        <4>7. Dispatches(rt, now, in, radio, board, callbacks, ret, todo, n)
          BY <3>1, <4>1, <4>2, <4>3, <4>5, <4>6 DEF Dispatches
        <4> QED BY <4>7, DispatchOk
      <3> QED BY <3>2, <3>3
    <2>3. \/ rt'.next_wake = NoTime /\ n.out.wake_after = NoTime
          \/ /\ rt'.next_wake \in Time
             /\ n.out.wake_after \in Nat
             /\ Wadd(now, n.out.wake_after) \in {rt'.next_wake, Wadd(now, 1)}
      BY <1>2, <1>5, <1>6, <1>8, StepWakes
    <2>4. timer.wake_armed => timer.tmos = timer.wake_at \/ timer.wake_event
      BY <1>1 DEF WakeOk
    <2> HIDE DEF n
    <2>5. timer' \in TimerType /\ WakeOk(timer', rt', now, todo')
      BY <1>1, <2>1, <2>3, <2>4, RearmedOk
    <2>6. Types' BY <1>1, <1>4, <2>1, <2>2, <2>5 DEF Types, TodoOk, Chain
    <2> QED BY <1>1, <1>4, <2>1, <2>2, <2>5, <2>6 DEF Inv
  <1> QED BY <1>7, <1>8

LEMMA ReturnKeeps == ASSUME Inv, RunReturn PROVE Inv'
  <1> DEFINE x == Head(todo)
             rest == Tail(todo)
  <1>1. /\ Types /\ On /\ todo # <<>> /\ x.op = "return"
        /\ ret' = x.idle /\ todo' = rest
        /\ UNCHANGED <<now, rt, timer, board, radio, callbacks>>
        /\ RadioOk(radio, rt, callbacks, now) /\ OffOk(board, radio)
        /\ TodoOk(todo, rt, board, radio, callbacks, ret)
        /\ WakeOk(timer, rt, now, todo)
    BY DEF Inv, RunReturn, Doing
  <1>2. /\ x = todo[1] /\ x \in Item /\ ItemOk(x, board, radio)
        /\ rest \in Seq(Item) /\ Chain(rest, board, radio)
        /\ rest # <<>> => PairOk(x, rest[1], radio)
    BY <1>1, ChainTail DEF TodoOk
  <1>3. rest # <<>> => ItemOk(rest[1], board, radio)
    BY <1>2 DEF Chain
  <1>4. x.idle \in BOOLEAN BY <1>1, <1>2 DEF Item, CallOp
  <1> HIDE DEF x, rest
  <1>5. rest # <<>> => HeadOk(rest, rt, board, radio, callbacks, x.idle)
    BY <1>1, <1>2 DEF PairOk, ItemOk, HeadOk
  <1>6. NoTick(todo) BY <1>1, <1>2 DEF NoTick, IsEvent
  <1>7. WakeOk(timer, rt, now, rest) BY <1>1, <1>6, WakeStays
  <1>8. Types' BY <1>1, <1>2, <1>4 DEF Types
  <1> QED BY <1>1, <1>2, <1>5, <1>7, <1>8 DEF Inv, TodoOk

(* A call that only acts on the radio or the board. *)
LEMMA CallKeeps ==
  ASSUME Inv, On, todo # <<>>, Head(todo).op \in CallOp,
         todo' = Tail(todo), UNCHANGED <<now, rt, timer, callbacks, ret>>,
         board' \in BoardType, radio' \in RadioType,
         Quieter(board, radio, board', radio'),
         RadioOk(radio', rt, callbacks, now), OffOk(board', radio')
  PROVE  Inv'
  <1>1. /\ Types
        /\ TodoOk(todo, rt, board, radio, callbacks, ret)
        /\ WakeOk(timer, rt, now, todo)
    BY DEF Inv
  <1>2. /\ TodoOk(Tail(todo), rt, board', radio', callbacks, ret)
        /\ Tail(todo) \in Seq(Item) /\ NoTick(todo)
    BY <1>1, PopOk
  <1>3. WakeOk(timer, rt, now, Tail(todo)) BY <1>1, <1>2, WakeStays
  <1>4. Types' BY <1>1, <1>2 DEF Types
  <1> QED BY <1>2, <1>3, <1>4 DEF Inv

(* A call that ends in a dispatch of its own. *)
LEMMA AnswerKeeps ==
  ASSUME Inv, On, todo # <<>>, Head(todo).op \in CallOp,
         NEW kind \in {"Ready", "StartResult", "CancelResult"}, NEW ok \in BOOLEAN,
         todo' = <<EventOk(kind, ok)>> \o Tail(todo),
         UNCHANGED <<now, rt, timer, board, callbacks, ret>>,
         radio' \in RadioType,
         Quieter(board, radio, board, radio'),
         ItemOk(EventOk(kind, ok), board, radio'),
         RadioOk(radio', rt, callbacks, now), OffOk(board, radio')
  PROVE  Inv'
  <1> DEFINE x == EventOk(kind, ok)
             s == <<x>> \o Tail(todo)
  <1>1. /\ Types
        /\ TodoOk(todo, rt, board, radio, callbacks, ret)
        /\ WakeOk(timer, rt, now, todo)
    BY DEF Inv
  <1>2. x \in Item /\ x.op = "dispatch" /\ x.ev.kind = kind BY EventOkIs
  <1>3. ItemOk(x, board, radio') /\ todo' = s OBVIOUS
  <1> HIDE DEF x
  <1>4. /\ TodoOk(s, rt, board, radio', callbacks, ret)
        /\ s \in Seq(Item) /\ NoTick(todo)
    BY <1>1, <1>2, <1>3, ReplaceOk
  <1> HIDE DEF s
  <1>5. WakeOk(timer, rt, now, s) BY <1>1, <1>4, WakeStays
  <1>6. Types' BY <1>1, <1>3, <1>4 DEF Types
  <1> QED BY <1>3, <1>4, <1>5, <1>6 DEF Inv, On

(* What is known when something is done: the parts of the invariant, and   *)
(* that the head of the list may have its turn. *)
LEMMA TurnOf ==
  ASSUME Inv, NEW op \in CallOp, Doing(op)
  PROVE  /\ Types /\ On /\ todo # <<>> /\ Head(todo).op = op
         /\ Head(todo) = todo[1] /\ ItemOk(Head(todo), board, radio)
         /\ RadioOk(radio, rt, callbacks, now) /\ OffOk(board, radio)
         /\ TodoOk(todo, rt, board, radio, callbacks, ret)
         /\ HeadOk(todo, rt, board, radio, callbacks, ret)
         /\ WakeOk(timer, rt, now, todo)
  <1>1. /\ Types /\ On /\ todo # <<>> /\ Head(todo).op = op
        /\ RadioOk(radio, rt, callbacks, now) /\ OffOk(board, radio)
        /\ TodoOk(todo, rt, board, radio, callbacks, ret)
        /\ WakeOk(timer, rt, now, todo)
    BY DEF Inv, Doing
  <1> QED BY <1>1, ChainTail DEF TodoOk

(* A radio in which at most advertising ends is as quiet as it was. *)
Fades(r, r2) ==
    /\ r.adv = "off" => r2.adv = "off"
    /\ r2.conn = r.conn
    /\ r2.disc = r.disc

LEMMA FadesIsQuiet ==
  ASSUME NEW r, NEW r2, Fades(r, r2)
  PROVE  /\ r.disc = "idle" => r2.disc = "idle"
         /\ SilentRadio(r) => SilentRadio(r2)
         /\ \A b : Quieter(b, r, b, r2)
         /\ \A b : OffOk(b, r) => OffOk(b, r2)
         /\ \A self, c, t : RadioOk(r, self, c, t) => RadioOk(r2, self, c, t)
  <1>1. (r.disc = "idle" => r2.disc = "idle") /\ (SilentRadio(r) => SilentRadio(r2))
    BY DEF Fades, SilentRadio
  <1>2. \A b : Quieter(b, r, b, r2) BY <1>1 DEF Quieter
  <1>3. \A b : OffOk(b, r) => OffOk(b, r2) BY <1>1 DEF OffOk
  <1>4. \A self, c, t : RadioOk(r, self, c, t) => RadioOk(r2, self, c, t)
    BY DEF RadioOk, Fades
  <1> QED BY <1>1, <1>2, <1>3, <1>4

LEMMA DisabledIs ==
  ASSUME NEW r \in RadioType
  PROVE  Disabled(r) \in RadioType /\ Fades(r, Disabled(r))
  <1> DEFINE n == Disabled(r)
  <1>1. /\ n \in RadioType
        /\ n.adv = IF r.adv = "on" THEN "stopping" ELSE r.adv
        /\ n.conn = r.conn /\ n.disc = r.disc
    BY DEF Disabled, RadioType
  <1> HIDE DEF n
  <1>2. Fades(r, n) BY <1>1 DEF Fades
  <1> QED BY <1>1, <1>2 DEF n

LEMMA StartRoleKeeps == ASSUME Inv, RunStartRole PROVE Inv'
  <1>1. "start_role" \in CallOp BY DEF CallOp
  <1>2. /\ Types /\ On /\ todo # <<>> /\ Head(todo).op = "start_role"
        /\ RadioOk(radio, rt, callbacks, now) /\ OffOk(board, radio)
    BY <1>1, TurnOf DEF RunStartRole
  <1>3. PICK ok \in {TRUE, ~RolesMayFail} :
          /\ todo' = <<EventOk("Ready", ok)>> \o Tail(todo)
          /\ radio' = [radio EXCEPT !.gap = IF ok /\ @ = "down" THEN "starting" ELSE @]
    BY DEF RunStartRole
  <1>4. UNCHANGED <<now, rt, timer, board, callbacks, ret>> BY DEF RunStartRole
  <1>5. radio' \in RadioType /\ Fades(radio, radio')
    <2>1. /\ radio' \in RadioType
          /\ radio'.adv = radio.adv /\ radio'.conn = radio.conn
          /\ radio'.disc = radio.disc
      BY <1>2, <1>3 DEF Types, RadioType
    <2> QED BY <2>1 DEF Fades
  <1>6. /\ Quieter(board, radio, board, radio')
        /\ RadioOk(radio', rt, callbacks, now) /\ OffOk(board, radio')
    BY <1>2, <1>5, FadesIsQuiet
  <1>7. ok \in BOOLEAN BY BadgeAssumption
  <1>8. ItemOk(EventOk("Ready", ok), board, radio')
    BY <1>7, EventOkIs DEF ItemOk, TellsIdle
  <1> QED BY <1>1, <1>2, <1>3, <1>4, <1>5, <1>6, <1>7, <1>8, AnswerKeeps

LEMMA StopAdvertisingKeeps == ASSUME Inv, RunStopAdvertising PROVE Inv'
  <1>1. "stop_advertising" \in CallOp BY DEF CallOp
  <1>2. /\ Types /\ On /\ todo # <<>> /\ Head(todo).op = "stop_advertising"
        /\ RadioOk(radio, rt, callbacks, now) /\ OffOk(board, radio)
    BY <1>1, TurnOf DEF RunStopAdvertising
  <1>3. /\ todo' = Tail(todo) /\ radio' = Disabled(radio)
        /\ UNCHANGED <<now, rt, timer, board, callbacks, ret>>
    BY DEF RunStopAdvertising
  <1>4. radio' \in RadioType /\ Fades(radio, radio') /\ board' \in BoardType
    BY <1>2, <1>3, DisabledIs DEF Types
  <1>5. /\ Quieter(board, radio, board', radio')
        /\ RadioOk(radio', rt, callbacks, now) /\ OffOk(board', radio')
    BY <1>2, <1>3, <1>4, FadesIsQuiet
  <1> QED BY <1>1, <1>2, <1>3, <1>4, <1>5, CallKeeps

LEMMA DisconnectKeeps == ASSUME Inv, RunDisconnect PROVE Inv'
  <1>1. "disconnect" \in CallOp BY DEF CallOp
  <1>2. /\ Types /\ On /\ todo # <<>> /\ Head(todo).op = "disconnect"
        /\ RadioOk(radio, rt, callbacks, now) /\ OffOk(board, radio)
    BY <1>1, TurnOf DEF RunDisconnect
  <1>3. /\ todo' = Tail(todo) /\ radio' = [radio EXCEPT !.hangup = @ \/ board.handle]
        /\ UNCHANGED <<now, rt, timer, board, callbacks, ret>>
    BY DEF RunDisconnect
  <1>4. (radio.hangup \/ board.handle) \in BOOLEAN OBVIOUS
  <1>5. radio' \in RadioType /\ Fades(radio, radio') /\ board' \in BoardType
    <2>1. /\ radio' \in RadioType
          /\ radio'.adv = radio.adv /\ radio'.conn = radio.conn
          /\ radio'.disc = radio.disc
      BY <1>2, <1>3, <1>4 DEF Types, RadioType
    <2>2. board' \in BoardType BY <1>2, <1>3 DEF Types
    <2> QED BY <2>1, <2>2 DEF Fades
  <1>6. /\ Quieter(board, radio, board', radio')
        /\ RadioOk(radio', rt, callbacks, now) /\ OffOk(board', radio')
    BY <1>2, <1>3, <1>5, FadesIsQuiet
  <1> QED BY <1>1, <1>2, <1>3, <1>5, <1>6, CallKeeps

(* The one place where a discovery begins: nothing else waits, and the     *)
(* radio is silent. *)
LEMMA StartScanKeeps == ASSUME Inv, RunStartScan PROVE Inv'
  <1>1. "start_scan" \in CallOp BY DEF CallOp
  <1>2. /\ Types /\ On /\ todo # <<>> /\ Head(todo).op = "start_scan"
        /\ Head(todo) = todo[1]
        /\ RadioOk(radio, rt, callbacks, now) /\ OffOk(board, radio)
        /\ TodoOk(todo, rt, board, radio, callbacks, ret)
        /\ HeadOk(todo, rt, board, radio, callbacks, ret)
        /\ WakeOk(timer, rt, now, todo)
    BY <1>1, TurnOf DEF RunStartScan
  <1>3. /\ SilentRadio(radio)
        /\ rt.phase.k = "Scanning" /\ board.mode = "NORMAL"
        /\ callbacks.complete = "none"
        /\ Len(todo) = 2 /\ todo[2].op = "return" /\ ~todo[2].idle
    BY <1>2 DEF HeadOk
  <1>4. UNCHANGED <<now, rt, timer, board, callbacks, ret>> BY DEF RunStartScan
  <1>5. CASE /\ radio' = radio
             /\ todo' = <<EventOk("StartResult", FALSE)>> \o Tail(todo)
    <2>1. radio' \in RadioType BY <1>2, <1>5 DEF Types
    <2>2. Quieter(board, radio, board, radio') BY <1>5 DEF Quieter
    <2>3. ItemOk(EventOk("StartResult", FALSE), board, radio')
      BY <1>3, <1>5, EventOkIs DEF ItemOk, SilentRadio
    <2> QED BY <1>1, <1>2, <1>4, <1>5, <2>1, <2>2, <2>3, AnswerKeeps
  <1>6. CASE /\ radio' = [radio EXCEPT !.disc = "scanning"]
             /\ todo' = <<EventOk("StartResult", TRUE)>> \o Tail(todo)
    <2> DEFINE x == EventOk("StartResult", TRUE)
               rest == Tail(todo)
               s == <<x>> \o rest
    <2>1. /\ radio' \in RadioType
          /\ radio'.adv = "off" /\ ~radio'.conn /\ radio'.disc = "scanning"
      BY <1>2, <1>3, <1>6 DEF Types, RadioType, SilentRadio
    <2>2. /\ rest \in Seq(Item) /\ Len(rest) = 1 /\ rest # <<>> /\ rest[1] = todo[2]
      <3>1. todo \in Seq(Item) /\ todo # <<>> BY <1>2 DEF Types
      <3>2. rest \in Seq(Item) /\ Len(rest) = Len(todo) - 1 BY <3>1
      <3>3. \A i \in 1 .. Len(todo) - 1 : rest[i] = todo[i + 1] BY <3>1
      <3>4. Len(rest) = 1 /\ rest[1] = todo[2] BY <1>3, <3>2, <3>3
      <3>5. rest # <<>>
        <4>1. Len(<<>>) = 0 OBVIOUS
        <4> HIDE DEF rest
        <4> QED BY <3>4, <4>1
      <3> HIDE DEF rest
      <3> QED BY <3>2, <3>4, <3>5
    <2>3. x \in Item /\ x.op = "dispatch" /\ x.ev.kind = "StartResult" /\ x.ev.ok
      BY EventOkIs
    <2>4. todo' = s BY <1>6
    <2> HIDE DEF x, rest
    <2>5. ItemOk(x, board, radio') BY <2>3 DEF ItemOk, TellsIdle
    <2>6. Chain(rest, board, radio')
      <3>1. ItemOk(rest[1], board, radio') BY <1>3, <2>2 DEF ItemOk
      <3>2. \A i \in 1 .. Len(rest) : i = 1 BY <2>2
      <3>3. 1 .. Len(rest) - 1 = {} BY <2>2
      <3> QED BY <2>2, <3>1, <3>2, <3>3 DEF Chain
    <2>7. PairOk(x, rest[1], radio') BY <1>3, <2>2 DEF PairOk, IsEvent
    <2>8. Chain(s, board, radio') /\ s[1] = x
      BY <2>3, <2>5, <2>6, <2>7, ChainPush
    <2> HIDE DEF s
    <2>9. HeadOk(s, rt, board, radio', callbacks, ret)
      BY <2>3, <2>8 DEF HeadOk, IsEvent
    <2>10. TodoOk(s, rt, board, radio', callbacks, ret) /\ s \in Seq(Item)
      BY <2>8, <2>9 DEF TodoOk, Chain
    <2>11. RadioOk(radio', rt, callbacks, now)
      BY <1>3, <2>1 DEF RadioOk, Discovering
    <2>12. OffOk(board, radio') BY <1>2, <1>3 DEF OffOk
    <2>13. NoTick(todo) BY <1>2 DEF NoTick, IsEvent
    <2>14. WakeOk(timer, rt, now, s) BY <1>2, <2>13, WakeStays
    <2>15. Types' BY <1>2, <1>4, <2>1, <2>4, <2>10 DEF Types
    <2> QED BY <1>4, <2>4, <2>10, <2>11, <2>12, <2>14, <2>15 DEF Inv, On
  <1> QED BY <1>5, <1>6 DEF RunStartScan

LEMMA CancelScanKeeps == ASSUME Inv, RunCancelScan PROVE Inv'
  <1>1. "cancel_scan" \in CallOp BY DEF CallOp
  <1>2. /\ Types /\ On /\ todo # <<>> /\ Head(todo).op = "cancel_scan"
        /\ RadioOk(radio, rt, callbacks, now) /\ OffOk(board, radio)
    BY <1>1, TurnOf DEF RunCancelScan
  <1> DEFINE idle == radio.disc = "idle"
  <1>3. /\ radio' = [radio EXCEPT !.disc = IF @ = "idle" THEN "idle" ELSE "cancelling"]
        /\ todo' = <<EventOk("CancelResult", idle)>> \o Tail(todo)
        /\ UNCHANGED <<now, rt, timer, board, callbacks, ret>>
    BY DEF RunCancelScan
  <1>4. /\ radio' \in RadioType /\ idle \in BOOLEAN
        /\ radio'.adv = radio.adv /\ radio'.conn = radio.conn
        /\ radio'.disc = "idle" <=> radio.disc = "idle"
    BY <1>2, <1>3 DEF Types, RadioType
  <1>5. Quieter(board, radio, board, radio') BY <1>4 DEF Quieter, SilentRadio
  <1>6. RadioOk(radio', rt, callbacks, now) BY <1>2, <1>4 DEF RadioOk
  <1>7. OffOk(board, radio') BY <1>2, <1>4 DEF OffOk, SilentRadio
  <1>8. ItemOk(EventOk("CancelResult", idle), board, radio')
    <2>1. EventOk("CancelResult", idle).ev.ok = idle
          /\ EventOk("CancelResult", idle).op = "dispatch"
          /\ EventOk("CancelResult", idle).ev.kind = "CancelResult"
      BY <1>4, EventOkIs
    <2> QED BY <1>4, <2>1 DEF ItemOk, TellsIdle
  <1> HIDE DEF idle
  <1> QED BY <1>1, <1>2, <1>3, <1>4, <1>5, <1>6, <1>7, <1>8, AnswerKeeps

(* Advertising comes back only where the controller discovers nothing, and *)
(* never on a badge that powers off. *)
LEMMA AdvertisingIsFree ==
  ASSUME Types, RadioOk(radio, rt, callbacks, now), OffOk(board, radio),
         radio.disc = "idle", board.mode # "POWER_OFF"
  PROVE  LET r == Enabled(radio)
         IN  /\ r \in RadioType
             /\ Quieter(board, radio, board, r)
             /\ RadioOk(r, rt, callbacks, now) /\ OffOk(board, r)
  <1> DEFINE r == Enabled(radio)
  <1>1. r \in RadioType /\ r.disc = radio.disc
    BY DEF Enabled, Types, RadioType
  <1> HIDE DEF r
  <1>2. Quieter(board, radio, board, r) BY <1>1 DEF Quieter
  <1>3. RadioOk(r, rt, callbacks, now) BY <1>1 DEF RadioOk
  <1>4. OffOk(board, r) BY DEF OffOk
  <1> QED BY <1>1, <1>2, <1>3, <1>4 DEF r

LEMMA AdvertiseKeeps == ASSUME Inv, RunAdvertise PROVE Inv'
  <1>1. "advertise" \in CallOp BY DEF CallOp
  <1>2. /\ Types /\ On /\ todo # <<>> /\ Head(todo).op = "advertise"
        /\ Head(todo) = todo[1]
        /\ RadioOk(radio, rt, callbacks, now) /\ OffOk(board, radio)
        /\ HeadOk(todo, rt, board, radio, callbacks, ret)
    BY <1>1, TurnOf DEF RunAdvertise
  <1>3. /\ todo' = Tail(todo)
        /\ UNCHANGED <<now, rt, timer, board, callbacks, ret>>
        /\ \/ radio' = radio
           \/ radio' = Enabled(radio) /\ persistent_advertising
    BY DEF RunAdvertise
  <1>4. radio.disc = "idle" BY <1>2 DEF HeadOk
  <1>5. CASE radio' = radio
    <2>1. radio' \in RadioType /\ board' \in BoardType BY <1>2, <1>3, <1>5 DEF Types
    <2>2. Quieter(board, radio, board', radio') BY <1>3, <1>5 DEF Quieter
    <2> QED BY <1>1, <1>2, <1>3, <1>5, <2>1, <2>2, CallKeeps
  <1>6. CASE radio' = Enabled(radio) /\ persistent_advertising
    <2>1. board.mode # "POWER_OFF" BY <1>6 DEF persistent_advertising
    <2>2. /\ radio' \in RadioType
          /\ Quieter(board, radio, board, radio')
          /\ RadioOk(radio', rt, callbacks, now) /\ OffOk(board, radio')
      BY <1>2, <1>4, <1>6, <2>1, AdvertisingIsFree
    <2>3. board' \in BoardType /\ board' = board BY <1>2, <1>3 DEF Types
    <2> QED BY <1>1, <1>2, <1>3, <2>2, <2>3, CallKeeps
  <1> QED BY <1>3, <1>5, <1>6

LEMMA AdvertiseIfIdleKeeps == ASSUME Inv, RunAdvertiseIfIdle PROVE Inv'
  <1>1. "advertise_if_idle" \in CallOp BY DEF CallOp
  <1>2. /\ Types /\ On /\ todo # <<>> /\ Head(todo).op = "advertise_if_idle"
        /\ Head(todo) = todo[1] /\ ItemOk(Head(todo), board, radio)
        /\ RadioOk(radio, rt, callbacks, now) /\ OffOk(board, radio)
        /\ HeadOk(todo, rt, board, radio, callbacks, ret)
    BY <1>1, TurnOf DEF RunAdvertiseIfIdle
  <1>3. /\ todo' = Tail(todo)
        /\ UNCHANGED <<now, rt, timer, board, callbacks, ret>>
        /\ radio' = IF ret THEN Enabled(radio) ELSE radio
    BY DEF RunAdvertiseIfIdle
  <1>4. CASE ~ret
    <2>1. radio' \in RadioType /\ board' \in BoardType /\ radio' = radio
      BY <1>2, <1>3, <1>4 DEF Types
    <2>2. Quieter(board, radio, board', radio') BY <1>3, <2>1 DEF Quieter
    <2> QED BY <1>1, <1>2, <1>3, <2>1, <2>2, CallKeeps
  <1>5. CASE ret
    <2>1. board.mode # "POWER_OFF" /\ radio.disc = "idle"
      BY <1>2, <1>5 DEF ItemOk, HeadOk
    <2>2. radio' = Enabled(radio) BY <1>3, <1>5
    <2>3. /\ radio' \in RadioType
          /\ Quieter(board, radio, board, radio')
          /\ RadioOk(radio', rt, callbacks, now) /\ OffOk(board, radio')
      BY <1>2, <2>1, <2>2, AdvertisingIsFree
    <2>4. board' \in BoardType /\ board' = board BY <1>2, <1>3 DEF Types
    <2> QED BY <1>1, <1>2, <1>3, <2>3, <2>4, CallKeeps
  <1> QED BY <1>4, <1>5

(* The handoff is given only on a silent radio. *)
LEMMA HandoffKeeps == ASSUME Inv, RunShutdownIdle PROVE Inv'
  <1>1. {"shutdown_idle", "handoff_if_idle"} \subseteq CallOp BY DEF CallOp
  <1>2. /\ Types /\ On /\ todo # <<>> /\ Head(todo) = todo[1]
        /\ Head(todo).op \in {"shutdown_idle", "handoff_if_idle"}
        /\ RadioOk(radio, rt, callbacks, now) /\ OffOk(board, radio)
        /\ HeadOk(todo, rt, board, radio, callbacks, ret)
    BY <1>1, TurnOf DEF RunShutdownIdle
  <1>3. /\ todo' = Tail(todo)
        /\ UNCHANGED <<now, rt, timer, radio, callbacks, ret>>
        /\ \/ board' = board
           \/ board' = HandedOff(board) /\ SilentRadio(radio)
    BY <1>2 DEF RunShutdownIdle, HeadOk, Doing
  <1>4. /\ board' \in BoardType /\ board'.mode = board.mode /\ OffOk(board', radio)
    <2>1. CASE board' = board BY <1>2, <2>1 DEF Types
    <2>2. CASE board' = HandedOff(board) /\ SilentRadio(radio)
      <3>1. (board.enter_shutdown \/ (board.pending /\ board.mode = "POWER_OFF")) \in BOOLEAN
        OBVIOUS
      <3>2. /\ board' \in BoardType
            /\ board'.mode = board.mode /\ board'.pending = board.pending
            /\ board'.pressed = board.pressed
            /\ board'.enter_shutdown =
                 (board.enter_shutdown \/ (board.pending /\ board.mode = "POWER_OFF"))
        BY <1>2, <2>2, <3>1 DEF Types, HandedOff, BoardType
      <3> QED BY <1>2, <2>2, <3>2 DEF OffOk
    <2> QED BY <1>3, <2>1, <2>2
  <1>5. radio' = radio /\ radio' \in RadioType BY <1>2, <1>3 DEF Types
  <1>6. Quieter(board, radio, board', radio') BY <1>4, <1>5 DEF Quieter
  <1> QED BY <1>1, <1>2, <1>3, <1>4, <1>5, <1>6, CallKeeps

LEMMA StreamingOnKeeps == ASSUME Inv, RunStreamingOn PROVE Inv'
  <1>1. "streaming_on" \in CallOp BY DEF CallOp
  <1>2. /\ Types /\ On /\ todo # <<>> /\ Head(todo).op = "streaming_on"
        /\ RadioOk(radio, rt, callbacks, now) /\ OffOk(board, radio)
    BY <1>1, TurnOf DEF RunStreamingOn
  <1>3. /\ todo' = Tail(todo) /\ board' = [board EXCEPT !.streaming = TRUE]
        /\ UNCHANGED <<now, rt, timer, radio, callbacks, ret>>
    BY DEF RunStreamingOn
  <1>4. /\ board' \in BoardType /\ board'.mode = board.mode
        /\ board'.pending = board.pending /\ board'.pressed = board.pressed
        /\ board'.enter_shutdown = board.enter_shutdown
    BY <1>2, <1>3 DEF Types, BoardType
  <1>5. OffOk(board', radio) BY <1>2, <1>4 DEF OffOk
  <1>6. radio' = radio /\ radio' \in RadioType BY <1>2, <1>3 DEF Types
  <1>7. Quieter(board, radio, board', radio') BY <1>4, <1>6 DEF Quieter
  <1> QED BY <1>1, <1>2, <1>3, <1>4, <1>5, <1>6, <1>7, CallKeeps

-----------------------------------------------------------------------------
(* The invariant, action by action: the handlers of TMOS.                  *)

LEMMA IdleIs ==
  ASSUME Inv, Idle
  PROVE  /\ Types /\ On /\ todo = <<>>
         /\ RadioOk(radio, rt, callbacks, now) /\ OffOk(board, radio)
         /\ \A s : WakeOk(timer, rt, now, s)
  <1>1. /\ Types /\ On /\ todo = <<>>
        /\ RadioOk(radio, rt, callbacks, now) /\ OffOk(board, radio)
        /\ WakeOk(timer, rt, now, todo)
    BY DEF Inv, Idle
  <1>2. NoTick(todo) BY <1>1 DEF NoTick
  <1>3. ASSUME NEW s PROVE WakeOk(timer, rt, now, s) BY <1>1, <1>2, WakeStays
  <1> QED BY <1>1, <1>3

LEMMA HandlerKeeps ==
  ASSUME Inv, UNCHANGED <<now, rt, ret>>,
         TodoOk(todo', rt, board', radio', callbacks', ret), todo' \in Seq(Item),
         timer' \in TimerType, WakeOk(timer', rt, now, todo'),
         board' \in BoardType, radio' \in RadioType, callbacks' \in CallbacksType,
         RadioOk(radio', rt, callbacks', now), OffOk(board', radio')
  PROVE  Inv'
  <1>1. Types' BY DEF Inv, Types
  <1> QED BY <1>1 DEF Inv

(* A handler that leaves the wake, the radio and the callbacks alone. *)
LEMMA EventKeeps ==
  ASSUME Inv, Idle, UNCHANGED <<now, rt, timer, radio, callbacks, ret>>,
         TodoOk(todo', rt, board', radio, callbacks, ret), todo' \in Seq(Item),
         board' \in BoardType, OffOk(board', radio)
  PROVE  Inv'
  <1>1. /\ Types /\ RadioOk(radio, rt, callbacks, now)
        /\ WakeOk(timer, rt, now, todo')
    BY IdleIs
  <1>2. timer \in TimerType /\ radio \in RadioType /\ callbacks \in CallbacksType
    BY <1>1 DEF Types
  <1> QED BY <1>1, <1>2, HandlerKeeps

LEMMA StartTaskKeeps == ASSUME Inv, StartTask PROVE Inv'
  <1> DEFINE x == Call("start_role")
  <1>1. /\ Types /\ RadioOk(radio, rt, callbacks, now) /\ OffOk(board, radio)
        /\ WakeOk(timer, rt, now, <<x>>)
    BY IdleIs DEF StartTask
  <1>2. /\ timer' = [timer EXCEPT !.start = FALSE] /\ todo' = <<x>>
        /\ UNCHANGED <<now, rt, board, radio, callbacks, ret>>
    BY DEF StartTask, Start
  <1>3. x \in Item /\ x.op = "start_role" BY CallIs DEF CallOp
  <1> HIDE DEF x
  <1>4. ItemOk(x, board, radio) BY <1>3 DEF ItemOk
  <1>5. TodoOk(<<x>>, rt, board, radio, callbacks, ret) /\ <<x>> \in Seq(Item)
    BY <1>3, <1>4, OneOk
  <1>6. /\ timer' \in TimerType
        /\ timer'.wake_armed = timer.wake_armed /\ timer'.tmos = timer.tmos
        /\ timer'.wake_at = timer.wake_at /\ timer'.wake_event = timer.wake_event
        /\ timer'.wake_retry = timer.wake_retry
    BY <1>1, <1>2 DEF Types, TimerType
  <1>7. WakeOk(timer', rt, now, <<x>>) BY <1>1, <1>6 DEF WakeOk
  <1>8. board \in BoardType /\ radio \in RadioType /\ callbacks \in CallbacksType
    BY <1>1 DEF Types
  <1> QED BY <1>1, <1>2, <1>5, <1>6, <1>7, <1>8, HandlerKeeps

(* A tick, whether the wake or the poll brings it. *)
LEMMA TickKeeps ==
  ASSUME Inv, Idle, todo' = <<Event("Tick")>>,
         timer' \in TimerType, timer'.wake_armed => timer'.tmos = timer'.wake_at \/ timer'.wake_event,
         UNCHANGED <<now, rt, board, radio, callbacks, ret>>
  PROVE  Inv'
  <1> DEFINE x == Event("Tick")
  <1>1. Types /\ RadioOk(radio, rt, callbacks, now) /\ OffOk(board, radio)
    BY IdleIs
  <1>2. /\ x \in Item /\ x.op = "dispatch" /\ x.ev.kind = "Tick"
        /\ ItemOk(x, board, radio)
    BY EventIs
  <1>3. todo' = <<x>> OBVIOUS
  <1> HIDE DEF x
  <1>4. TodoOk(<<x>>, rt, board, radio, callbacks, ret) /\ <<x>> \in Seq(Item)
    BY <1>2, OneOk
  <1>5. <<x>> # <<>> /\ <<x>>[1] = x OBVIOUS
  <1>6. WakeOk(timer', rt, now, <<x>>) BY <1>2, <1>5 DEF WakeOk, IsEvent
  <1>7. board \in BoardType /\ radio \in RadioType /\ callbacks \in CallbacksType
    BY <1>1 DEF Types
  <1> QED BY <1>1, <1>3, <1>4, <1>6, <1>7, HandlerKeeps

LEMMA WakeTaskKeeps == ASSUME Inv, WakeTask PROVE Inv'
  <1>1. /\ Idle /\ todo' = <<Event("Tick")>>
        /\ timer' = [timer EXCEPT !.wake_event = FALSE, !.wake_armed = FALSE]
        /\ UNCHANGED <<now, rt, board, radio, callbacks, ret>>
    BY DEF WakeTask, Start
  <1>2. timer \in TimerType BY DEF Inv, Types
  <1>3. timer' \in TimerType /\ ~timer'.wake_armed BY <1>1, <1>2 DEF TimerType
  <1> QED BY <1>1, <1>3, TickKeeps

LEMMA PollKeeps == ASSUME Inv, Poll PROVE Inv'
  <1>1. /\ Idle /\ todo' = <<Event("Tick")>>
        /\ timer' = [timer EXCEPT !.polled = TRUE]
        /\ UNCHANGED <<now, rt, board, radio, callbacks, ret>>
    BY DEF Poll, Start
  <1>2. timer \in TimerType /\ WakeOk(timer, rt, now, todo')
    BY <1>1, IdleIs DEF Types
  <1>3. /\ timer' \in TimerType
        /\ timer'.wake_armed = timer.wake_armed /\ timer'.tmos = timer.tmos
        /\ timer'.wake_at = timer.wake_at /\ timer'.wake_event = timer.wake_event
    BY <1>1, <1>2 DEF TimerType
  <1>4. timer'.wake_armed => timer'.tmos = timer'.wake_at \/ timer'.wake_event
    BY <1>2, <1>3 DEF WakeOk
  <1> QED BY <1>1, <1>3, <1>4, TickKeeps

-----------------------------------------------------------------------------
(* ... the buttons and the app ...                                         *)

(* A press that powers off finds no handoff under way: the one a button    *)
(* overtook is over before the next press. *)
LEMMA ScreenOffKeeps ==
  ASSUME Inv, Idle, ~board.pressed, board.mode # "POWER_OFF", ScreenOff,
         UNCHANGED <<now, rt, timer, callbacks, ret>>
  PROVE  Inv'
  <1> DEFINE x == Event("Shutdown")
             y == Call("handoff_if_idle")
  <1>1. /\ Types /\ On /\ RadioOk(radio, rt, callbacks, now) /\ OffOk(board, radio)
        /\ WakeOk(timer, rt, now, todo')
    BY IdleIs
  <1>2. /\ board' = [board EXCEPT !.mode = "POWER_OFF", !.pending = TRUE,
                                  !.pressed = TRUE]
        /\ radio' = Disabled(radio)
        /\ todo' = <<x, y>>
    BY DEF ScreenOff, Start
  <1>3. /\ board' \in BoardType /\ board'.mode = "POWER_OFF"
        /\ board'.enter_shutdown = board.enter_shutdown
    BY <1>1, <1>2 DEF Types, BoardType
  <1>4. ~board.enter_shutdown BY <1>1 DEF OffOk
  <1>5. radio' \in RadioType /\ Fades(radio, radio')
    BY <1>1, <1>2, DisabledIs DEF Types
  <1>6. RadioOk(radio', rt, callbacks, now) BY <1>1, <1>5, FadesIsQuiet
  <1>7. OffOk(board', radio') BY <1>3, <1>4 DEF OffOk
  <1>8. /\ x \in Item /\ x.op = "dispatch" /\ x.ev.kind = "Shutdown"
        /\ ItemOk(x, board', radio')
    BY EventIs
  <1>9. y \in Item /\ y.op = "handoff_if_idle" BY CallIs DEF CallOp
  <1> HIDE DEF x, y
  <1>10. ItemOk(y, board', radio') BY <1>3, <1>9 DEF ItemOk
  <1>11. PairOk(x, y, radio') BY <1>8, <1>9 DEF PairOk, IsEvent
  <1>12. /\ TodoOk(<<x, y>>, rt, board', radio', callbacks, ret)
         /\ <<x, y>> \in Seq(Item)
    BY <1>8, <1>9, <1>10, <1>11, TwoOk
  <1>13. timer' \in TimerType /\ callbacks' \in CallbacksType /\ todo' \in Seq(Item)
    BY <1>1, <1>2, <1>12 DEF Types
  <1> QED BY <1>1, <1>2, <1>3, <1>5, <1>6, <1>7, <1>12, <1>13, HandlerKeeps

LEMMA SetupNormalKeeps ==
  ASSUME Inv, Idle, NEW pressed \in BOOLEAN, SetupNormal(pressed),
         board.enter_shutdown => pressed,
         UNCHANGED <<now, rt, timer, callbacks, ret>>
  PROVE  Inv'
  <1>1. board \in BoardType BY DEF Inv, Types
  <1>2. /\ board' = [board EXCEPT !.mode = "NORMAL", !.pending = FALSE,
                                  !.pressed = pressed]
        /\ todo' = NormalOps(board.always_on)
        /\ UNCHANGED radio
    BY DEF SetupNormal, NormalOps, Start
  <1>3. /\ board' \in BoardType /\ board'.mode = "NORMAL"
        /\ board'.pressed = pressed
        /\ board'.enter_shutdown = board.enter_shutdown
    BY <1>1, <1>2 DEF BoardType
  <1>4. OffOk(board', radio) BY <1>3 DEF OffOk
  <1>5. board.always_on \in BOOLEAN BY <1>1 DEF BoardType
  <1>6. /\ TodoOk(NormalOps(board.always_on), rt, board', radio, callbacks, ret)
        /\ NormalOps(board.always_on) \in Seq(Item)
    BY <1>3, <1>5, NormalOpsOk
  <1> QED BY <1>2, <1>3, <1>4, <1>6, EventKeeps

LEMMA SystemButtonKeeps == ASSUME Inv, SystemButton PROVE Inv'
  <1>1. /\ Idle /\ ~board.pressed
        /\ UNCHANGED <<now, rt, timer, callbacks, ret>>
    BY DEF SystemButton
  <1>2. board \in BoardType /\ board.mode \in {"NORMAL", "DOWNLOAD", "POWER_OFF"}
    BY DEF Inv, Types, BoardType
  <1>3. CASE board.mode = "NORMAL" /\ board.always_on
    BY <1>1, <1>3, ScreenOffKeeps DEF SystemButton, SetupDownload
  <1>4. CASE board.mode = "NORMAL" /\ ~board.always_on
    <2>1. /\ board' = [board EXCEPT !.mode = "DOWNLOAD", !.pressed = TRUE]
          /\ todo' = SuspendThenAdvertise
          /\ UNCHANGED radio
      BY <1>4 DEF SystemButton, SetupDownload, Start
    <2>2. /\ board' \in BoardType /\ board'.mode = "DOWNLOAD" /\ board'.pressed
      BY <1>2, <2>1 DEF BoardType
    <2>3. OffOk(board', radio) BY <2>2 DEF OffOk
    <2>4. /\ TodoOk(SuspendThenAdvertise, rt, board', radio, callbacks, ret)
          /\ SuspendThenAdvertise \in Seq(Item)
      BY <2>2, SuspendThenAdvertiseOk
    <2> QED BY <1>1, <2>1, <2>2, <2>3, <2>4, EventKeeps
  <1>5. CASE board.mode = "DOWNLOAD"
    BY <1>1, <1>5, ScreenOffKeeps DEF SystemButton
  <1>6. CASE board.mode = "POWER_OFF"
    <2>1. SetupNormal(TRUE) BY <1>6 DEF SystemButton
    <2> QED BY <1>1, <2>1, SetupNormalKeeps
  <1> QED BY <1>2, <1>3, <1>4, <1>5, <1>6

(* An upload ends on a link: no handoff to a power-off is under way. *)
LEMMA UploadDoneKeeps == ASSUME Inv, UploadDone PROVE Inv'
  <1>1. /\ Idle /\ radio.conn /\ SetupNormal(board.pressed)
        /\ UNCHANGED <<now, rt, timer, callbacks, ret>>
    BY DEF UploadDone
  <1>2. board.pressed \in BOOLEAN BY DEF Inv, Types, BoardType
  <1>3. OffOk(board, radio) BY <1>1, IdleIs
  <1>4. board.enter_shutdown => board.pressed BY <1>1, <1>3 DEF OffOk, SilentRadio
  <1> QED BY <1>1, <1>2, <1>4, SetupNormalKeeps

LEMMA StreamingEnterKeeps == ASSUME Inv, StreamingEnter PROVE Inv'
  <1> DEFINE x == EventOk("Suspend", FALSE)
             y == Call("streaming_on")
  <1>1. /\ Idle /\ todo' = <<x, y>>
        /\ UNCHANGED <<now, rt, timer, board, radio, callbacks, ret>>
    BY DEF StreamingEnter, Start
  <1>2. Types /\ OffOk(board, radio) BY <1>1, IdleIs
  <1>3. x \in Item /\ x.op = "dispatch" /\ x.ev.kind = "Suspend" BY EventOkIs
  <1>4. y \in Item /\ y.op = "streaming_on" BY CallIs DEF CallOp
  <1> HIDE DEF x, y
  <1>5. ItemOk(x, board, radio) /\ ItemOk(y, board, radio)
    BY <1>3, <1>4 DEF ItemOk, TellsIdle
  <1>6. PairOk(x, y, radio) BY <1>3, <1>4 DEF PairOk, IsEvent
  <1>7. /\ TodoOk(<<x, y>>, rt, board, radio, callbacks, ret)
        /\ <<x, y>> \in Seq(Item)
    BY <1>3, <1>4, <1>5, <1>6, TwoOk
  <1>8. board' \in BoardType /\ board' = board BY <1>1, <1>2 DEF Types
  <1> QED BY <1>1, <1>2, <1>7, <1>8, EventKeeps

LEMMA StreamingExitKeeps == ASSUME Inv, StreamingExit PROVE Inv'
  <1> DEFINE x == Event("View")
  <1>1. /\ Idle /\ todo' = <<x>>
        /\ board' = [board EXCEPT !.streaming = FALSE]
        /\ UNCHANGED <<now, rt, timer, radio, callbacks, ret>>
    BY DEF StreamingExit, Start
  <1>2. Types /\ OffOk(board, radio) BY <1>1, IdleIs
  <1>3. /\ board' \in BoardType /\ board'.mode = board.mode
        /\ board'.pending = board.pending /\ board'.pressed = board.pressed
        /\ board'.enter_shutdown = board.enter_shutdown
    BY <1>1, <1>2 DEF Types, BoardType
  <1>4. OffOk(board', radio) BY <1>2, <1>3 DEF OffOk
  <1>5. /\ x \in Item /\ x.op = "dispatch" /\ ItemOk(x, board', radio)
    BY EventIs
  <1> HIDE DEF x
  <1>6. TodoOk(<<x>>, rt, board', radio, callbacks, ret) /\ <<x>> \in Seq(Item)
    BY <1>5, OneOk
  <1> QED BY <1>1, <1>3, <1>4, <1>6, EventKeeps

LEMMA EnterShutdownKeeps == ASSUME Inv, EnterShutdown PROVE Inv'
  <1> DEFINE off == board.pending /\ board.mode = "POWER_OFF"
  <1>1. /\ Idle
        /\ board' = [board EXCEPT
                       !.enter_shutdown = FALSE, !.pending = FALSE,
                       !.power = IF off THEN "off" ELSE "on"]
        /\ UNCHANGED <<now, rt, timer, radio, callbacks, todo, ret>>
    BY DEF EnterShutdown
  <1>2. Types /\ todo = <<>> BY <1>1, IdleIs
  <1>3. board' \in BoardType /\ ~board'.enter_shutdown
    BY <1>1, <1>2 DEF Types, BoardType
  <1>4. OffOk(board', radio) BY <1>3 DEF OffOk
  <1>5. TodoOk(<<>>, rt, board', radio, callbacks, ret) BY ChainEmpty DEF TodoOk
  <1>6. todo' = <<>> /\ todo' \in Seq(Item) BY <1>1, <1>2
  <1> QED BY <1>1, <1>3, <1>4, <1>5, <1>6, EventKeeps

-----------------------------------------------------------------------------
(* ... the callbacks of the SDK ...                                        *)

LEMMA CallBackIs ==
  ASSUME Inv, MayCallBack
  PROVE  /\ Types /\ On
         /\ RadioOk(radio, rt, callbacks, now) /\ OffOk(board, radio)
         /\ TodoOk(todo, rt, board, radio, callbacks, ret)
         /\ WakeOk(timer, rt, now, todo)
         /\ todo # <<>> => /\ todo[1].op = "dispatch"
                           /\ todo[1].ev.kind \in {"Ready", "StartResult", "CancelResult",
                                                   "Complete", "Report"}
  <1>1. /\ Types /\ On
        /\ RadioOk(radio, rt, callbacks, now) /\ OffOk(board, radio)
        /\ TodoOk(todo, rt, board, radio, callbacks, ret)
        /\ WakeOk(timer, rt, now, todo)
    BY DEF Inv, MayCallBack
  <1>2. ASSUME todo # <<>>
        PROVE  /\ todo[1].op = "dispatch"
               /\ todo[1].ev.kind \in {"Ready", "StartResult", "CancelResult"}
    <2>1. Head(todo) = todo[1] BY <1>1, <1>2, ChainTail DEF TodoOk
    <2> QED BY <1>2, <2>1 DEF MayCallBack, InSdkCall
  <1> QED BY <1>1, <1>2

LEMMA InitDoneKeeps == ASSUME Inv, InitDone PROVE Inv'
  <1> DEFINE ok == callbacks.init = "ok"
             x == EventOk("Ready", ok)
  <1>1. /\ MayCallBack
        /\ callbacks' = [callbacks EXCEPT !.init = "none"]
        /\ todo' = <<x>> \o todo
        /\ UNCHANGED <<now, rt, timer, board, radio, ret>>
    BY DEF InitDone
  <1>2. /\ Types
        /\ RadioOk(radio, rt, callbacks, now) /\ OffOk(board, radio)
        /\ TodoOk(todo, rt, board, radio, callbacks, ret)
        /\ WakeOk(timer, rt, now, todo)
        /\ todo # <<>> => /\ todo[1].op = "dispatch"
                          /\ todo[1].ev.kind \in {"Ready", "StartResult", "CancelResult",
                                                  "Complete", "Report"}
    BY <1>1, CallBackIs
  <1>3. callbacks' \in CallbacksType /\ callbacks'.complete = callbacks.complete
    BY <1>1, <1>2 DEF Types, CallbacksType
  <1>4. x \in Item /\ x.op = "dispatch" /\ x.ev.kind = "Ready"
    <2>1. ok \in BOOLEAN OBVIOUS
    <2> HIDE DEF ok
    <2> QED BY <2>1, EventOkIs
  <1> HIDE DEF x
  <1>5. ItemOk(x, board, radio) BY <1>4 DEF ItemOk, TellsIdle
  <1>6. /\ TodoOk(<<x>> \o todo, rt, board, radio, callbacks', ret)
        /\ <<x>> \o todo \in Seq(Item) /\ NoTick(todo)
    BY <1>2, <1>4, <1>5, PushOk
  <1>7. WakeOk(timer, rt, now, <<x>> \o todo) BY <1>2, <1>6, WakeStays
  <1>8. RadioOk(radio, rt, callbacks', now) BY <1>2, <1>3 DEF RadioOk
  <1>9. timer \in TimerType /\ board \in BoardType /\ radio \in RadioType
    BY <1>2 DEF Types
  <1> QED BY <1>1, <1>2, <1>3, <1>6, <1>7, <1>8, <1>9, HandlerKeeps

(* A completion is delivered while the controller still discovers nothing. *)
LEMMA DiscoveryEventKeeps == ASSUME Inv, DiscoveryEvent PROVE Inv'
  <1> DEFINE ok == callbacks.complete = "ok"
             x == EventOk("Complete", ok)
             s == <<x>> \o todo
  <1>1. /\ MayCallBack /\ callbacks.complete # "none"
        /\ callbacks' = [callbacks EXCEPT !.complete = "none"]
        /\ UNCHANGED <<now, rt, timer, board, radio, ret>>
    BY DEF DiscoveryEvent
  <1>2. /\ Types
        /\ RadioOk(radio, rt, callbacks, now) /\ OffOk(board, radio)
        /\ TodoOk(todo, rt, board, radio, callbacks, ret)
        /\ WakeOk(timer, rt, now, todo)
        /\ todo # <<>> => /\ todo[1].op = "dispatch"
                          /\ todo[1].ev.kind \in {"Ready", "StartResult", "CancelResult",
                                                  "Complete", "Report"}
    BY <1>1, CallBackIs
  <1>3. callbacks' \in CallbacksType /\ callbacks'.complete = "none"
    BY <1>1, <1>2 DEF Types, CallbacksType
  <1>4. radio.disc = "idle" /\ RadioOk(radio, rt, callbacks', now)
    BY <1>1, <1>2, <1>3 DEF RadioOk
  <1>5. PICK replay \in Replays : todo' = replay \o <<x>> \o todo
    BY DEF DiscoveryEvent, Replays
  <1>6. x \in Item /\ x.op = "dispatch" /\ x.ev.kind = "Complete"
    <2>1. ok \in BOOLEAN OBVIOUS
    <2> HIDE DEF ok
    <2> QED BY <2>1, EventOkIs
  <1> HIDE DEF x
  <1>7. ItemOk(x, board, radio) BY <1>4, <1>6 DEF ItemOk
  <1>8. /\ TodoOk(s, rt, board, radio, callbacks', ret)
        /\ s \in Seq(Item) /\ s[1] = x /\ NoTick(todo)
    BY <1>2, <1>6, <1>7, PushOk
  <1>9. TodoOk(todo', rt, board, radio, callbacks', ret) /\ todo' \in Seq(Item)
    <2>1. CASE replay = <<>>
      <3>1. todo \in Seq(Item) BY <1>2 DEF Types
      <3>2. <<>> \o <<x>> = <<x>> BY TwoAre
      <3> QED BY <1>5, <1>8, <2>1, <3>2
    <2>2. CASE replay # <<>>
      <3>1. PICK a \in Address : replay = <<ReportOf(a)>> BY <1>5, <2>2 DEF Replays
      <3> DEFINE y == ReportOf(a)
      <3>2. /\ y \in Item /\ y.op = "dispatch" /\ y.ev.kind = "Report"
            /\ ItemOk(y, board, radio)
        BY ReportIs
      <3>3. todo' = <<y>> \o <<x>> \o todo BY <1>5, <3>1
      <3> HIDE DEF y
      <3>4. todo \in Seq(Item) BY <1>2 DEF Types
      <3>5. todo' = <<y>> \o s BY <1>6, <3>2, <3>3, <3>4, PrependOne
      <3>6. s # <<>> => s[1].op = "dispatch" /\ s[1].ev.kind = "Complete"
        BY <1>6, <1>8
      <3> HIDE DEF s
      <3>7. /\ TodoOk(<<y>> \o s, rt, board, radio, callbacks', ret)
            /\ <<y>> \o s \in Seq(Item)
        BY <1>8, <3>2, <3>6, PushOk
      <3> QED BY <3>5, <3>7
    <2> QED BY <2>1, <2>2
  <1>10. WakeOk(timer, rt, now, todo') BY <1>2, <1>8, WakeStays
  <1>11. timer \in TimerType /\ board \in BoardType /\ radio \in RadioType
    BY <1>2 DEF Types
  <1> QED BY <1>1, <1>2, <1>3, <1>4, <1>9, <1>10, <1>11, HandlerKeeps

LEMMA DeviceInfoKeeps == ASSUME Inv, DeviceInfo PROVE Inv'
  <1>1. PICK a \in Address : todo' = <<ReportOf(a)>> \o todo BY DEF DeviceInfo
  <1> DEFINE x == ReportOf(a)
  <1>2. /\ MayCallBack /\ UNCHANGED <<now, rt, timer, board, radio, callbacks, ret>>
        /\ todo' = <<x>> \o todo
    BY <1>1 DEF DeviceInfo
  <1>3. /\ Types
        /\ RadioOk(radio, rt, callbacks, now) /\ OffOk(board, radio)
        /\ TodoOk(todo, rt, board, radio, callbacks, ret)
        /\ WakeOk(timer, rt, now, todo)
        /\ todo # <<>> => /\ todo[1].op = "dispatch"
                          /\ todo[1].ev.kind \in {"Ready", "StartResult", "CancelResult",
                                                  "Complete", "Report"}
    BY <1>2, CallBackIs
  <1>4. /\ x \in Item /\ x.op = "dispatch" /\ x.ev.kind = "Report"
        /\ ItemOk(x, board, radio)
    BY ReportIs
  <1> HIDE DEF x
  <1>5. /\ TodoOk(<<x>> \o todo, rt, board, radio, callbacks, ret)
        /\ <<x>> \o todo \in Seq(Item) /\ NoTick(todo)
    BY <1>3, <1>4, PushOk
  <1>6. WakeOk(timer, rt, now, <<x>> \o todo) BY <1>3, <1>5, WakeStays
  <1>7. /\ timer \in TimerType /\ board \in BoardType /\ radio \in RadioType
        /\ callbacks \in CallbacksType
    BY <1>3 DEF Types
  <1> QED BY <1>2, <1>3, <1>5, <1>6, <1>7, HandlerKeeps

LEMMA LinkUpKeeps == ASSUME Inv, LinkUp PROVE Inv'
  <1> DEFINE x == EventOk("Suspend", FALSE)
  <1>1. /\ Idle /\ callbacks.links # <<>>
        /\ callbacks' = [callbacks EXCEPT !.links = Tail(@)]
        /\ board' = [board EXCEPT !.handle = TRUE]
        /\ radio' = Disabled(radio)
        /\ todo' = <<x>>
        /\ UNCHANGED <<now, rt, timer, ret>>
    BY DEF LinkUp, Start
  <1>2. /\ Types /\ RadioOk(radio, rt, callbacks, now) /\ OffOk(board, radio)
        /\ WakeOk(timer, rt, now, todo')
    BY <1>1, IdleIs
  <1>3. callbacks' \in CallbacksType /\ callbacks'.complete = callbacks.complete
    <2>1. Tail(callbacks.links) \in Seq({"up", "down"})
      BY <1>1, <1>2 DEF Types, CallbacksType
    <2> QED BY <1>1, <1>2, <2>1 DEF Types, CallbacksType
  <1>4. /\ board' \in BoardType /\ board'.mode = board.mode
        /\ board'.pending = board.pending /\ board'.pressed = board.pressed
        /\ board'.enter_shutdown = board.enter_shutdown
    BY <1>1, <1>2 DEF Types, BoardType
  <1>5. radio' \in RadioType /\ Fades(radio, radio')
    BY <1>1, <1>2, DisabledIs DEF Types
  <1>6. RadioOk(radio', rt, callbacks, now) /\ OffOk(board, radio')
    BY <1>2, <1>5, FadesIsQuiet
  <1>7. RadioOk(radio', rt, callbacks', now) BY <1>3, <1>6 DEF RadioOk
  <1>8. OffOk(board', radio') BY <1>4, <1>6 DEF OffOk
  <1>9. x \in Item /\ x.op = "dispatch" /\ x.ev.kind = "Suspend" BY EventOkIs
  <1> HIDE DEF x
  <1>10. ItemOk(x, board', radio') BY <1>9 DEF ItemOk, TellsIdle
  <1>11. TodoOk(<<x>>, rt, board', radio', callbacks', ret) /\ <<x>> \in Seq(Item)
    BY <1>9, <1>10, OneOk
  <1>12. timer' \in TimerType BY <1>1, <1>2 DEF Types
  <1> QED BY <1>1, <1>2, <1>3, <1>4, <1>5, <1>7, <1>8, <1>11, <1>12, HandlerKeeps

LEMMA LinkDownKeeps == ASSUME Inv, LinkDown PROVE Inv'
  <1> DEFINE view == Event("View")
             x == EventOk("Suspend", FALSE)
             then == IF persistent_advertising THEN SuspendThenAdvertise ELSE <<x>>
  <1>1. /\ Idle /\ callbacks.links # <<>>
        /\ callbacks' = [callbacks EXCEPT !.links = Tail(@)]
        /\ board' = [board EXCEPT !.handle = FALSE, !.streaming = FALSE]
        /\ todo' = (IF board.mode = "NORMAL" THEN <<view>> ELSE <<>>) \o then
        /\ UNCHANGED <<now, rt, timer, radio, ret>>
    BY DEF LinkDown, Start
  <1>2. /\ Types /\ RadioOk(radio, rt, callbacks, now) /\ OffOk(board, radio)
        /\ WakeOk(timer, rt, now, todo')
    BY <1>1, IdleIs
  <1>3. callbacks' \in CallbacksType /\ callbacks'.complete = callbacks.complete
    <2>1. Tail(callbacks.links) \in Seq({"up", "down"})
      BY <1>1, <1>2 DEF Types, CallbacksType
    <2> QED BY <1>1, <1>2, <2>1 DEF Types, CallbacksType
  <1>4. /\ board' \in BoardType /\ board'.mode = board.mode
        /\ board'.pending = board.pending /\ board'.pressed = board.pressed
        /\ board'.enter_shutdown = board.enter_shutdown
    BY <1>1, <1>2 DEF Types, BoardType
  <1>5. OffOk(board', radio) /\ RadioOk(radio, rt, callbacks', now)
    BY <1>2, <1>3, <1>4 DEF OffOk, RadioOk
  <1>6. x \in Item /\ x.op = "dispatch" /\ x.ev.kind = "Suspend" BY EventOkIs
  <1>7. /\ view \in Item /\ view.op = "dispatch" /\ view.ev.kind = "View"
        /\ ItemOk(view, board', radio)
    BY EventIs
  <1> HIDE DEF view, x
  <1>8. /\ TodoOk(then, rt, board', radio, callbacks', ret)
        /\ then \in Seq(Item) /\ then # <<>>
        /\ then[1].op = "dispatch" /\ then[1].ev.kind # "Tick"
    <2>1. CASE persistent_advertising
      <3>1. board'.mode # "POWER_OFF" BY <1>4, <2>1 DEF persistent_advertising
      <3> QED BY <2>1, <3>1, SuspendThenAdvertiseOk
    <2>2. CASE ~persistent_advertising
      <3>1. ItemOk(x, board', radio) BY <1>6 DEF ItemOk, TellsIdle
      <3>2. TodoOk(<<x>>, rt, board', radio, callbacks', ret) /\ <<x>> \in Seq(Item)
        BY <1>6, <3>1, OneOk
      <3>3. <<x>> # <<>> /\ <<x>>[1] = x OBVIOUS
      <3> QED BY <1>6, <2>2, <3>2, <3>3
    <2> QED BY <2>1, <2>2
  <1> HIDE DEF then
  <1>9. TodoOk(todo', rt, board', radio, callbacks', ret) /\ todo' \in Seq(Item)
    <2>1. CASE board.mode = "NORMAL"
      <3>1. todo' = <<view>> \o then BY <1>1, <2>1
      <3>2. /\ TodoOk(<<view>> \o then, rt, board', radio, callbacks', ret)
            /\ <<view>> \o then \in Seq(Item)
        BY <1>7, <1>8, ThenOk
      <3> QED BY <3>1, <3>2
    <2>2. CASE board.mode # "NORMAL"
      <3>1. todo' = <<>> \o then BY <1>1, <2>2
      <3>2. <<>> \o then = then BY <1>8
      <3> QED BY <1>8, <3>1, <3>2
    <2> QED BY <2>1, <2>2
  <1>10. timer' \in TimerType /\ radio' \in RadioType BY <1>1, <1>2 DEF Types
  <1> QED BY <1>1, <1>2, <1>3, <1>4, <1>5, <1>9, <1>10, HandlerKeeps

-----------------------------------------------------------------------------
(* ... the controller, its peers, the clock and the power switch.          *)

(* What happens aside from the running handler. *)
LEMMA AsideKeeps ==
  ASSUME Inv, On, UNCHANGED <<now, rt, timer, board, todo, ret>>,
         radio' \in RadioType, callbacks' \in CallbacksType,
         RadioOk(radio', rt, callbacks', now),
         OffOk(board, radio'),
         radio.disc = "idle" => radio'.disc = "idle",
         SilentRadio(radio) => SilentRadio(radio'),
         SilentRadio(radio) /\ callbacks.complete = "none" => callbacks'.complete = "none"
  PROVE  Inv'
  <1>1. /\ Types
        /\ TodoOk(todo, rt, board, radio, callbacks, ret)
        /\ WakeOk(timer, rt, now, todo)
    BY DEF Inv
  <1>2. TodoOk(todo, rt, board, radio', callbacks', ret) BY <1>1, AsideOk
  <1>3. Types' BY <1>1 DEF Types
  <1> QED BY <1>1, <1>2, <1>3 DEF Inv

LEMMA RadioUpKeeps == ASSUME Inv, RadioUp PROVE Inv'
  <1>1. /\ On /\ UNCHANGED <<now, rt, timer, board, todo, ret>>
        /\ \E gap \in {"up", "down"} : radio' = [radio EXCEPT !.gap = gap]
        /\ \E init \in {"ok", "fail"} : callbacks' = [callbacks EXCEPT !.init = init]
    BY DEF RadioUp
  <1>2. Types /\ RadioOk(radio, rt, callbacks, now) /\ OffOk(board, radio)
    BY <1>1 DEF Inv
  <1>3. /\ radio' \in RadioType
        /\ radio'.adv = radio.adv /\ radio'.conn = radio.conn
        /\ radio'.disc = radio.disc
    BY <1>1, <1>2 DEF Types, RadioType
  <1>4. callbacks' \in CallbacksType /\ callbacks'.complete = callbacks.complete
    BY <1>1, <1>2 DEF Types, CallbacksType
  <1>5. RadioOk(radio', rt, callbacks', now) BY <1>2, <1>3, <1>4 DEF RadioOk
  <1>6. OffOk(board, radio') BY <1>2, <1>3 DEF OffOk, SilentRadio
  <1>7. SilentRadio(radio) => SilentRadio(radio') BY <1>3 DEF SilentRadio
  <1> QED BY <1>1, <1>3, <1>4, <1>5, <1>6, <1>7, AsideKeeps

LEMMA AdvertisingStopsKeeps == ASSUME Inv, AdvertisingStops PROVE Inv'
  <1>1. /\ On /\ UNCHANGED <<now, rt, timer, board, callbacks, todo, ret>>
        /\ radio' = [radio EXCEPT !.adv = "off"]
    BY DEF AdvertisingStops
  <1>2. Types /\ RadioOk(radio, rt, callbacks, now) /\ OffOk(board, radio)
    BY <1>1 DEF Inv
  <1>3. /\ radio' \in RadioType /\ callbacks' \in CallbacksType
        /\ radio'.adv = "off" /\ radio'.conn = radio.conn
        /\ radio'.disc = radio.disc
    BY <1>1, <1>2 DEF Types, RadioType
  <1>4. Fades(radio, radio') BY <1>3 DEF Fades
  <1>5. /\ RadioOk(radio', rt, callbacks, now) /\ OffOk(board, radio')
        /\ SilentRadio(radio) => SilentRadio(radio')
    BY <1>2, <1>4, FadesIsQuiet
  <1> QED BY <1>1, <1>3, <1>5, AsideKeeps

LEMMA ConnectKeeps == ASSUME Inv, Connect PROVE Inv'
  <1>1. /\ On /\ UNCHANGED <<now, rt, timer, board, todo, ret>>
        /\ radio.adv # "off" /\ ~radio.conn
        /\ radio' = [radio EXCEPT !.conn = TRUE, !.hangup = FALSE]
        /\ callbacks' = [callbacks EXCEPT !.links = Append(@, "up")]
    BY DEF Connect
  <1>2. Types /\ RadioOk(radio, rt, callbacks, now) /\ OffOk(board, radio)
    BY <1>1 DEF Inv
  <1>3. /\ radio' \in RadioType
        /\ radio'.disc = radio.disc
    BY <1>1, <1>2 DEF Types, RadioType
  <1>4. callbacks' \in CallbacksType /\ callbacks'.complete = callbacks.complete
    <2>1. Append(callbacks.links, "up") \in Seq({"up", "down"})
      BY <1>2 DEF Types, CallbacksType
    <2> QED BY <1>1, <1>2, <2>1 DEF Types, CallbacksType
  <1>5. ~SilentRadio(radio) /\ radio.disc = "idle"
    BY <1>1, <1>2 DEF SilentRadio, RadioOk
  <1>6. RadioOk(radio', rt, callbacks', now) BY <1>2, <1>3, <1>4, <1>5 DEF RadioOk
  <1>7. OffOk(board, radio') BY <1>2, <1>5 DEF OffOk
  <1> QED BY <1>1, <1>3, <1>4, <1>5, <1>6, <1>7, AsideKeeps

LEMMA LinkDropsKeeps == ASSUME Inv, On, LinkDrops PROVE Inv'
  <1>1. /\ UNCHANGED <<now, rt, timer, board, todo, ret>>
        /\ radio' = [radio EXCEPT !.conn = FALSE, !.hangup = FALSE]
        /\ callbacks' = [callbacks EXCEPT !.links = Append(@, "down")]
    BY DEF LinkDrops
  <1>2. Types /\ RadioOk(radio, rt, callbacks, now) /\ OffOk(board, radio)
    BY <1>1 DEF Inv
  <1>3. /\ radio' \in RadioType /\ ~radio'.conn
        /\ radio'.disc = radio.disc /\ radio'.adv = radio.adv
    BY <1>1, <1>2 DEF Types, RadioType
  <1>4. callbacks' \in CallbacksType /\ callbacks'.complete = callbacks.complete
    <2>1. Append(callbacks.links, "down") \in Seq({"up", "down"})
      BY <1>2 DEF Types, CallbacksType
    <2> QED BY <1>1, <1>2, <2>1 DEF Types, CallbacksType
  <1>5. SilentRadio(radio) => SilentRadio(radio') BY <1>3 DEF SilentRadio
  <1>6. RadioOk(radio', rt, callbacks', now) BY <1>2, <1>3, <1>4 DEF RadioOk
  <1>7. OffOk(board, radio') BY <1>2, <1>5 DEF OffOk
  <1> QED BY <1>1, <1>3, <1>4, <1>5, <1>6, <1>7, AsideKeeps

(* The reducer still waits for the discovery that ends. *)
LEMMA DiscoveryEndsKeeps == ASSUME Inv, DiscoveryEnds PROVE Inv'
  <1>1. /\ On /\ UNCHANGED <<now, rt, timer, board, todo, ret>>
        /\ radio.disc # "idle"
        /\ radio' = [radio EXCEPT !.disc = "idle"]
    BY DEF DiscoveryEnds
  <1>2. PICK result \in {"ok", "fail", "none"} :
          callbacks' = [callbacks EXCEPT !.complete = result]
    BY DEF DiscoveryEnds
  <1>3. Types /\ RadioOk(radio, rt, callbacks, now) /\ OffOk(board, radio)
    BY <1>1 DEF Inv
  <1>4. /\ radio' \in RadioType /\ radio'.disc = "idle"
        /\ radio'.conn = radio.conn /\ radio'.adv = radio.adv
    BY <1>1, <1>3 DEF Types, RadioType
  <1>5. callbacks' \in CallbacksType BY <1>2, <1>3 DEF Types, CallbacksType
  <1>6. ~SilentRadio(radio) BY <1>1 DEF SilentRadio
  <1>7. RadioOk(radio', rt, callbacks', now) BY <1>1, <1>3, <1>4 DEF RadioOk
  <1>8. OffOk(board, radio') BY <1>3, <1>6 DEF OffOk
  <1> QED BY <1>1, <1>4, <1>5, <1>6, <1>7, <1>8, AsideKeeps

LEMMA AdvanceKeeps == ASSUME Inv, Advance PROVE Inv'
  <1>1. /\ Idle /\ callbacks.complete = "none" /\ ~timer.wake_event
        /\ ~board.enter_shutdown
        /\ now' = Wadd(now, 1)
        /\ timer' = IF timer.tmos = now'
                    THEN [timer EXCEPT !.polled = FALSE, !.tmos = NoTime,
                                       !.wake_event = TRUE]
                    ELSE [timer EXCEPT !.polled = FALSE]
        /\ board' = [board EXCEPT !.pressed = FALSE]
        /\ UNCHANGED <<rt, radio, callbacks, todo, ret>>
    BY DEF Advance, Settled
  <1>2. /\ Types /\ On /\ todo = <<>>
        /\ RadioOk(radio, rt, callbacks, now)
        /\ WakeOk(timer, rt, now, <<>>)
    BY <1>1, IdleIs
  <1>3. now' \in Time BY <1>1, <1>2, WaddType, ZeroIsTime DEF Types
  <1>4. /\ board' \in BoardType /\ ~board'.enter_shutdown
    BY <1>1, <1>2 DEF Types, BoardType
  <1>5. timer' \in TimerType /\ WakeOk(timer', rt, now', <<>>)
    <2>1. CASE timer.tmos = now'
      <3>1. timer' = [timer EXCEPT !.polled = FALSE, !.tmos = NoTime, !.wake_event = TRUE]
        BY <1>1, <2>1
      <3>2. timer' \in TimerType /\ timer'.wake_event
        BY <1>2, <3>1 DEF Types, TimerType, MaybeTime
      <3> QED BY <3>2 DEF WakeOk
    <2>2. CASE timer.tmos # now'
      <3>1. timer' = [timer EXCEPT !.polled = FALSE] BY <1>1, <2>2
      <3>2. /\ timer' \in TimerType
            /\ timer'.wake_armed = timer.wake_armed /\ timer'.tmos = timer.tmos
            /\ timer'.wake_at = timer.wake_at /\ timer'.wake_event = timer.wake_event
            /\ timer'.wake_retry = timer.wake_retry
        BY <1>2, <3>1 DEF Types, TimerType
      <3> QED BY <1>1, <1>2, <2>2, <3>2 DEF WakeOk
    <2> QED BY <2>1, <2>2
  <1>6. RadioOk(radio, rt, callbacks, now') BY <1>1, <1>2 DEF RadioOk
  <1>7. OffOk(board', radio) BY <1>4 DEF OffOk
  <1>8. TodoOk(<<>>, rt, board', radio, callbacks, ret) BY ChainEmpty DEF TodoOk
  <1>9. Types' BY <1>1, <1>2, <1>3, <1>4, <1>5 DEF Types
  <1> QED BY <1>1, <1>2, <1>5, <1>6, <1>7, <1>8, <1>9 DEF Inv

LEMMA BootIs ==
  ASSUME NEW always_on \in BOOLEAN, NEW t \in Time, NEW told
  PROVE  LET b == Boot(always_on)
         IN  /\ b.rt \in RuntimeType
             /\ b.rt.phase.k # "Scanning" => b.rt.counter = EmptyCounter
             /\ b.timer \in TimerType /\ b.board \in BoardType
             /\ b.radio \in RadioType /\ b.callbacks \in CallbacksType
             /\ RadioOk(b.radio, b.rt, b.callbacks, t)
             /\ OffOk(b.board, b.radio)
             /\ TodoOk(<<>>, b.rt, b.board, b.radio, b.callbacks, told)
             /\ WakeOk(b.timer, b.rt, t, <<>>)
             /\ b.board.power = "on" /\ ~b.radio.conn /\ b.radio.disc = "idle"
  <1> DEFINE b == Boot(always_on)
  <1>1. b.rt = NewRuntime(FALSE) BY DEF Boot
  <1>2. /\ b.rt \in RuntimeType /\ b.rt.counter = EmptyCounter
        /\ b.rt.phase = Stopped /\ b.rt.next_wake = NoTime
    <2> DEFINE r == NewRuntime(FALSE)
    <2>1. r \in RuntimeType /\ r.counter = EmptyCounter BY NewRuntimeType
    <2>2. r.phase = Stopped BY DEF NewRuntime
    <2>3. r.next_wake = NoTime BY DEF NewRuntime
    <2> HIDE DEF r
    <2>4. b.rt = r BY <1>1 DEF r
    <2> HIDE DEF b
    <2> QED BY <2>1, <2>2, <2>3, <2>4
  <1>3. b.timer \in TimerType /\ ~b.timer.wake_armed
    BY ZeroIsTime DEF Boot, TimerType, MaybeTime
  <1>4. b.board \in BoardType /\ b.board.power = "on" /\ ~b.board.enter_shutdown
    BY DEF Boot, BoardType
  <1>5. b.radio \in RadioType /\ ~b.radio.conn /\ b.radio.disc = "idle"
    BY DEF Boot, RadioType
  <1>6. b.callbacks \in CallbacksType /\ b.callbacks.complete = "none"
    BY DEF Boot, CallbacksType
  <1> HIDE DEF b
  <1>7. RadioOk(b.radio, b.rt, b.callbacks, t) BY <1>5, <1>6 DEF RadioOk
  <1>8. OffOk(b.board, b.radio) BY <1>4 DEF OffOk
  <1>9. TodoOk(<<>>, b.rt, b.board, b.radio, b.callbacks, told)
    BY ChainEmpty DEF TodoOk
  <1>10. WakeOk(b.timer, b.rt, t, <<>>) BY <1>2, <1>3 DEF WakeOk
  <1> QED BY <1>2, <1>3, <1>4, <1>5, <1>6, <1>7, <1>8, <1>9, <1>10 DEF b

LEMMA PowerUpKeeps == ASSUME Inv, PowerUp PROVE Inv'
  <1> DEFINE b == Boot(board.always_on)
  <1>1. /\ rt' = b.rt /\ timer' = b.timer /\ board' = b.board
        /\ radio' = b.radio /\ callbacks' = b.callbacks
        /\ todo' = <<>> /\ ret' = FALSE /\ now' = now
    BY DEF PowerUp
  <1>2. board.always_on \in BOOLEAN /\ now \in Time BY DEF Inv, Types, BoardType
  <1>3. /\ rt' \in RuntimeType
        /\ rt'.phase.k # "Scanning" => rt'.counter = EmptyCounter
        /\ timer' \in TimerType /\ board' \in BoardType
        /\ radio' \in RadioType /\ callbacks' \in CallbacksType
        /\ RadioOk(radio', rt', callbacks', now')
        /\ OffOk(board', radio')
        /\ TodoOk(todo', rt', board', radio', callbacks', ret')
        /\ WakeOk(timer', rt', now', todo')
    BY <1>1, <1>2, BootIs
  <1> HIDE DEF b
  <1>4. todo' \in Seq(Item) /\ ret' \in BOOLEAN /\ now' \in Time
    <2>1. <<>> \in Seq(Item) /\ FALSE \in BOOLEAN OBVIOUS
    <2>2. todo' = <<>> /\ ret' = FALSE /\ now' = now BY <1>1
    <2> QED BY <1>2, <2>1, <2>2
  <1>5. Types' BY <1>3, <1>4 DEF Types
  <1> QED BY <1>3, <1>5 DEF Inv

LEMMA InitInv == Init => Inv
  <1> SUFFICES ASSUME Init PROVE Inv OBVIOUS
  <1>1. PICK always_on \in AlwaysOn :
          LET b == Boot(always_on)
          IN  /\ rt = b.rt /\ timer = b.timer /\ board = b.board
              /\ radio = b.radio /\ callbacks = b.callbacks
    BY DEF Init
  <1>2. always_on \in BOOLEAN BY BadgeAssumption
  <1>3. now \in Time /\ todo = <<>> /\ ret = FALSE BY ZeroIsTime DEF Init
  <1>4. /\ rt \in RuntimeType
        /\ rt.phase.k # "Scanning" => rt.counter = EmptyCounter
        /\ timer \in TimerType /\ board \in BoardType
        /\ radio \in RadioType /\ callbacks \in CallbacksType
        /\ RadioOk(radio, rt, callbacks, now)
        /\ OffOk(board, radio)
        /\ TodoOk(todo, rt, board, radio, callbacks, ret)
        /\ WakeOk(timer, rt, now, todo)
    BY <1>1, <1>2, <1>3, BootIs
  <1>5. todo \in Seq(Item) /\ ret \in BOOLEAN
    <2>1. <<>> \in Seq(Item) /\ FALSE \in BOOLEAN OBVIOUS
    <2> QED BY <1>3, <2>1
  <1>6. Types BY <1>3, <1>4, <1>5 DEF Types
  <1> QED BY <1>4, <1>6 DEF Inv

LEMMA StutterKeeps == ASSUME Inv, UNCHANGED vars PROVE Inv'
  <1>1. UNCHANGED <<now, rt, timer, board, radio, callbacks, todo, ret>> BY DEF vars
  <1>2. Types' BY <1>1 DEF Inv, Types
  <1> QED BY <1>1, <1>2 DEF Inv, On

LEMMA NextKeeps == ASSUME Inv, [Next]_vars PROVE Inv'
  <1>1. CASE RunTodo
    BY <1>1, DispatchKeeps, ReturnKeeps, StartRoleKeeps, StopAdvertisingKeeps,
       DisconnectKeeps, StartScanKeeps, CancelScanKeeps, AdvertiseKeeps,
       HandoffKeeps, AdvertiseIfIdleKeeps, StreamingOnKeeps
       DEF RunTodo
  <1>2. CASE Handlers
    BY <1>2, StartTaskKeeps, WakeTaskKeeps, PollKeeps, EnterShutdownKeeps,
       InitDoneKeeps, DiscoveryEventKeeps, LinkUpKeeps, LinkDownKeeps
       DEF Handlers
  <1>3. CASE Owner
    BY <1>3, SystemButtonKeeps, UploadDoneKeeps, StreamingEnterKeeps,
       StreamingExitKeeps DEF Owner
  <1>4. CASE Surroundings
    BY <1>4, DeviceInfoKeeps, RadioUpKeeps, AdvertisingStopsKeeps, ConnectKeeps,
       LinkDropsKeeps, DiscoveryEndsKeeps, AdvanceKeeps, PowerUpKeeps
       DEF Surroundings, PeerLeaves, HungUp
  <1>5. CASE UNCHANGED vars BY <1>5, StutterKeeps
  <1> QED BY <1>1, <1>2, <1>3, <1>4, <1>5 DEF Next

(* In every state of every run the variables have their types, a discovery *)
(* runs alone and the reducer knows of it, a handoff finds the radio       *)
(* silent, what a handler has still to do is right when its turn comes,    *)
(* and the wake is on its way (dispatch() and its callers in               *)
(* frogalert-survey.c and main.c). *)
THEOREM Invariance == Spec => []Inv
  <1>1. Init => Inv BY InitInv
  <1>2. Inv /\ [Next]_vars => Inv' BY NextKeeps
  <1> QED BY <1>1, <1>2, PTL DEF Spec

(* Between two handlers of TMOS, the wake the reducer waits for is on its  *)
(* way: TMOS has its timer or its event, or the 200 ms poll retries it,    *)
(* however dispatches were nested and timers refused (dispatch()). *)
THEOREM WakeComes == Spec => []WakeIsOnItsWay
  <1>1. Inv => WakeIsOnItsWay
    BY DEF Inv, Idle, WakeOk, WakeIsOnItsWay
  <1> QED BY <1>1, Invariance, PTL

-----------------------------------------------------------------------------
(* The badge implements RadioArbiter.                                      *)

UsersOf(r) ==
    (IF r.adv # "off" THEN {"advertising"} ELSE {})
      \cup (IF r.conn THEN {"link"} ELSE {})
      \cup (IF r.disc # "idle" THEN {"discovery"} ELSE {})

ArbiterUsers == IF On THEN RadioUsers ELSE {}

LEMMA UsersAre ==
  /\ On => ArbiterUsers = UsersOf(radio)
  /\ ~On => ArbiterUsers = {}
  /\ On' => ArbiterUsers' = UsersOf(radio')
  /\ ~On' => ArbiterUsers' = {}
  BY DEF ArbiterUsers, RadioUsers, UsersOf

LEMMA InUsers ==
  ASSUME NEW r
  PROVE  /\ UsersOf(r) \subseteq {"advertising", "link", "discovery"}
         /\ "advertising" \in UsersOf(r) <=> r.adv # "off"
         /\ "link" \in UsersOf(r) <=> r.conn
         /\ "discovery" \in UsersOf(r) <=> r.disc # "idle"
  BY DEF UsersOf

LEMMA SameUsers ==
  ASSUME NEW r, NEW r2,
         r2.adv # "off" <=> r.adv # "off", r2.conn <=> r.conn,
         r2.disc # "idle" <=> r.disc # "idle"
  PROVE  UsersOf(r2) = UsersOf(r)
  BY InUsers

Mapped == [Arbiter!Next]_(Arbiter!vars)

LEMMA Unheard ==
  ASSUME board'.power = board.power, UsersOf(radio') = UsersOf(radio)
  PROVE  Mapped
  <1>1. On' <=> On BY DEF On
  <1>2. ArbiterUsers' = ArbiterUsers BY <1>1, UsersAre
  <1>3. (IF On THEN RadioUsers ELSE {})' = IF On THEN RadioUsers ELSE {}
    BY <1>2 DEF ArbiterUsers
  <1> QED BY <1>3 DEF Mapped, Arbiter!vars

LEMMA MappedIs ==
  \/ /\ On /\ board'.power = board.power
     /\ \/ /\ radio.disc = "idle"
           /\ UsersOf(radio') = UsersOf(radio) \cup {"advertising"}
        \/ /\ radio.adv # "off" /\ radio.disc = "idle"
           /\ UsersOf(radio') = UsersOf(radio) \cup {"link"}
        \/ /\ SilentRadio(radio)
           /\ UsersOf(radio') = UsersOf(radio) \cup {"discovery"}
        \/ \E u \in UsersOf(radio) : UsersOf(radio') = UsersOf(radio) \ {u}
  \/ On /\ SilentRadio(radio) /\ board'.power = "off"
  \/ On /\ board'.power = "reset"
  \/ ~On /\ board'.power = "on" /\ UsersOf(radio') \in {{}, {"advertising"}}
  => Mapped
  <1> DEFINE u == IF On THEN RadioUsers ELSE {}
             p == board.power
  <1>1. /\ On => u = UsersOf(radio)
        /\ ~On => u = {}
        /\ On' => u' = UsersOf(radio')
        /\ ~On' => u' = {}
    BY UsersAre DEF ArbiterUsers
  <1>2. (On <=> p = "on") /\ (On' <=> p' = "on") BY DEF On
  <1> DEFINE Use(user) == p = "on" /\ u' = u \cup {user} /\ p' = p
  <1>3. /\ ("discovery" \notin u /\ Use("advertising")) => Arbiter!Next
        /\ ("advertising" \in u /\ "discovery" \notin u /\ Use("link")) => Arbiter!Next
        /\ (u = {} /\ Use("discovery")) => Arbiter!Next
        /\ (\E user \in u : u' = u \ {user} /\ p' = p) => Arbiter!Next
        /\ (u = {} /\ p = "on" /\ p' = "off" /\ u' = u) => Arbiter!Next
        /\ (p = "on" /\ p' = "reset" /\ u' = {}) => Arbiter!Next
        /\ (p # "on" /\ p' = "on" /\ u' \in {{}, {"advertising"}}) => Arbiter!Next
    BY DEF Arbiter!Next, Arbiter!Advertise, Arbiter!Connect, Arbiter!Discover,
           Arbiter!Release, Arbiter!PowerOff, Arbiter!Reset, Arbiter!Boot,
           Arbiter!Use
  <1>4. Arbiter!Next => Mapped BY DEF Mapped
  <1>5. SilentRadio(radio) => UsersOf(radio) = {} BY InUsers DEF SilentRadio
  <1>6. /\ "advertising" \in UsersOf(radio) <=> radio.adv # "off"
        /\ "discovery" \in UsersOf(radio) <=> radio.disc # "idle"
    BY InUsers
  <1> HIDE DEF u, p
  <1>a. board.power = p /\ board'.power = p' BY DEF p
  <1>7. ASSUME On, board'.power = board.power, radio.disc = "idle",
               UsersOf(radio') = UsersOf(radio) \cup {"advertising"}
        PROVE  Mapped
    BY <1>1, <1>2, <1>3, <1>4, <1>6, <1>7, <1>a
  <1>8. ASSUME On, board'.power = board.power, radio.adv # "off", radio.disc = "idle",
               UsersOf(radio') = UsersOf(radio) \cup {"link"}
        PROVE  Mapped
    BY <1>1, <1>2, <1>3, <1>4, <1>6, <1>8, <1>a
  <1>9. ASSUME On, board'.power = board.power, SilentRadio(radio),
               UsersOf(radio') = UsersOf(radio) \cup {"discovery"}
        PROVE  Mapped
    BY <1>1, <1>2, <1>3, <1>4, <1>5, <1>9, <1>a
  <1>10. ASSUME On, board'.power = board.power,
                NEW x \in UsersOf(radio), UsersOf(radio') = UsersOf(radio) \ {x}
         PROVE  Mapped
    BY <1>1, <1>2, <1>3, <1>4, <1>10, <1>a
  <1>11. ASSUME On, SilentRadio(radio), board'.power = "off" PROVE Mapped
    BY <1>1, <1>2, <1>3, <1>4, <1>5, <1>11, <1>a
  <1>12. ASSUME On, board'.power = "reset" PROVE Mapped
    BY <1>1, <1>2, <1>3, <1>4, <1>12, <1>a
  <1>13. ASSUME ~On, board'.power = "on", UsersOf(radio') \in {{}, {"advertising"}}
         PROVE  Mapped
    BY <1>1, <1>2, <1>3, <1>4, <1>13, <1>a
  <1> QED BY <1>7, <1>8, <1>9, <1>10, <1>11, <1>12, <1>13

LEMMA DispatchMaps == ASSUME Inv, RunDispatch PROVE Mapped
  <1>1. On /\ radio' = radio BY DEF RunDispatch
  <1>2. board' = board \/ board' = [board EXCEPT !.power = "reset"]
    BY DEF RunDispatch
  <1>3. board \in BoardType BY DEF Inv, Types
  <1>4. CASE board' = board BY <1>1, <1>4, Unheard
  <1>5. CASE board' = [board EXCEPT !.power = "reset"]
    <2>1. board'.power = "reset" BY <1>3, <1>5 DEF BoardType
    <2> QED BY <1>1, <2>1, MappedIs
  <1> QED BY <1>2, <1>4, <1>5

LEMMA AdvertisesMaps ==
  ASSUME Inv, On, radio.disc = "idle", radio' = Enabled(radio), board' = board
  PROVE  Mapped
  <1>1. radio \in RadioType BY DEF Inv, Types
  <1>2. /\ radio'.adv = "on" /\ radio'.conn = radio.conn
        /\ radio'.disc = radio.disc
    BY <1>1 DEF Enabled, RadioType
  <1>3. UsersOf(radio') = UsersOf(radio) \cup {"advertising"}
    BY <1>2 DEF UsersOf
  <1> QED BY <1>3, MappedIs

LEMMA RunTodoMaps == ASSUME Inv, RunTodo PROVE Mapped
  <1>1. radio \in RadioType /\ board \in BoardType BY DEF Inv, Types
  <1>2. CASE RunDispatch BY <1>2, DispatchMaps
  <1>3. CASE RunReturn BY <1>3, Unheard DEF RunReturn
  <1>4. CASE RunStartRole
    <2>1. \E gap : radio' = [radio EXCEPT !.gap = gap]
      BY <1>4 DEF RunStartRole
    <2>2. /\ radio'.adv = radio.adv /\ radio'.conn = radio.conn
          /\ radio'.disc = radio.disc
      BY <1>1, <2>1 DEF RadioType
    <2>3. board' = board BY <1>4 DEF RunStartRole
    <2> QED BY <2>2, <2>3, SameUsers, Unheard
  <1>5. CASE RunStopAdvertising
    <2>1. board' = board /\ radio' = Disabled(radio) BY <1>5 DEF RunStopAdvertising
    <2>2. /\ radio'.adv = IF radio.adv = "on" THEN "stopping" ELSE radio.adv
          /\ radio'.conn = radio.conn /\ radio'.disc = radio.disc
      BY <1>1, <2>1 DEF Disabled, RadioType
    <2> QED BY <2>1, <2>2, SameUsers, Unheard
  <1>6. CASE RunDisconnect
    <2>1. \E h : radio' = [radio EXCEPT !.hangup = h]
      BY <1>6 DEF RunDisconnect
    <2>2. /\ radio'.adv = radio.adv /\ radio'.conn = radio.conn
          /\ radio'.disc = radio.disc
      BY <1>1, <2>1 DEF RadioType
    <2>3. board' = board BY <1>6 DEF RunDisconnect
    <2> QED BY <2>2, <2>3, SameUsers, Unheard
  <1>7. CASE RunStartScan
    <2>1. /\ board' = board
          /\ radio' = radio \/ radio' = [radio EXCEPT !.disc = "scanning"]
      BY <1>7 DEF RunStartScan
    <2>2. CASE radio' = radio BY <2>1, <2>2, Unheard
    <2>3. CASE radio' = [radio EXCEPT !.disc = "scanning"]
      <3>1. "start_scan" \in CallOp /\ Doing("start_scan")
        BY <1>7 DEF CallOp, RunStartScan
      <3>2. On /\ SilentRadio(radio) BY <3>1, TurnOf DEF HeadOk
      <3>3. /\ radio'.adv = radio.adv /\ radio'.conn = radio.conn
            /\ radio'.disc = "scanning"
        BY <1>1, <2>3 DEF RadioType
      <3>4. UsersOf(radio') = UsersOf(radio) \cup {"discovery"}
        BY <3>3 DEF UsersOf
      <3> QED BY <2>1, <3>2, <3>4, MappedIs
    <2> QED BY <2>1, <2>2, <2>3
  <1>8. CASE RunCancelScan
    <2>1. /\ board' = board
          /\ radio' = [radio EXCEPT !.disc = IF @ = "idle" THEN "idle" ELSE "cancelling"]
      BY <1>8 DEF RunCancelScan
    <2>2. /\ radio'.adv = radio.adv /\ radio'.conn = radio.conn
          /\ radio'.disc = IF radio.disc = "idle" THEN "idle" ELSE "cancelling"
      BY <1>1, <2>1 DEF RadioType
    <2>3. radio'.disc # "idle" <=> radio.disc # "idle" BY <2>2
    <2>4. UsersOf(radio') = UsersOf(radio) BY <2>2, <2>3, SameUsers
    <2> QED BY <2>1, <2>4, Unheard
  <1>9. CASE RunAdvertise
    <2>1. board' = board /\ (radio' = radio \/ radio' = Enabled(radio))
      BY <1>9 DEF RunAdvertise
    <2>2. "advertise" \in CallOp /\ Doing("advertise")
      BY <1>9 DEF CallOp, RunAdvertise
    <2>3. On /\ radio.disc = "idle" BY <2>2, TurnOf DEF HeadOk
    <2> QED BY <2>1, <2>3, AdvertisesMaps, Unheard
  <1>10. CASE RunShutdownIdle
    <2>1. radio' = radio BY <1>10 DEF RunShutdownIdle
    <2>2. \/ board' = board
          \/ \E e : board' = [board EXCEPT !.enter_shutdown = e]
      BY <1>10 DEF RunShutdownIdle, HandedOff
    <2>3. board'.power = board.power BY <1>1, <2>2 DEF BoardType
    <2> QED BY <2>1, <2>3, Unheard
  <1>11. CASE RunAdvertiseIfIdle
    <2>1. board' = board /\ radio' = IF ret THEN Enabled(radio) ELSE radio
      BY <1>11 DEF RunAdvertiseIfIdle
    <2>2. "advertise_if_idle" \in CallOp /\ Doing("advertise_if_idle")
      BY <1>11 DEF CallOp, RunAdvertiseIfIdle
    <2>3. On /\ (ret => radio.disc = "idle") BY <2>2, TurnOf DEF HeadOk
    <2>4. CASE ret BY <2>1, <2>3, <2>4, AdvertisesMaps
    <2>5. CASE ~ret BY <2>1, <2>5, Unheard
    <2> QED BY <2>4, <2>5
  <1>12. CASE RunStreamingOn
    <2>1. radio' = radio /\ board' = [board EXCEPT !.streaming = TRUE]
      BY <1>12 DEF RunStreamingOn
    <2>2. board'.power = board.power BY <1>1, <2>1 DEF BoardType
    <2> QED BY <2>1, <2>2, Unheard
  <1> QED
    BY <1>2, <1>3, <1>4, <1>5, <1>6, <1>7, <1>8, <1>9, <1>10, <1>11, <1>12
    DEF RunTodo

(* A handler changes nothing of the radio but, at most, that advertising   *)
(* has to stop. *)
LEMMA HandlersMap == ASSUME Inv, Handlers \/ Owner PROVE Mapped
  <1>1. radio \in RadioType /\ board \in BoardType BY DEF Inv, Types
  <1>2. UsersOf(Disabled(radio)) = UsersOf(radio)
    <2>1. /\ Disabled(radio).adv = IF radio.adv = "on" THEN "stopping" ELSE radio.adv
          /\ Disabled(radio).conn = radio.conn /\ Disabled(radio).disc = radio.disc
      BY <1>1 DEF Disabled, RadioType
    <2> QED BY <2>1, SameUsers
  <1>3. CASE EnterShutdown
    <2> DEFINE off == board.pending /\ board.mode = "POWER_OFF"
    <2>1. /\ Idle /\ radio' = radio /\ board.enter_shutdown
          /\ board' = [board EXCEPT
                         !.enter_shutdown = FALSE, !.pending = FALSE,
                         !.power = IF off THEN "off" ELSE "on"]
      BY <1>3 DEF EnterShutdown
    <2>2. On /\ OffOk(board, radio) BY <2>1, IdleIs
    <2>3. board'.power = IF off THEN "off" ELSE "on" BY <1>1, <2>1 DEF BoardType
    <2>4. CASE off
      <3>1. SilentRadio(radio) BY <2>1, <2>2, <2>4 DEF OffOk
      <3> QED BY <2>2, <2>3, <2>4, <3>1, MappedIs
    <2>5. CASE ~off
      <3>1. board'.power = board.power BY <2>2, <2>3, <2>5 DEF On
      <3> QED BY <2>1, <3>1, Unheard
    <2> QED BY <2>4, <2>5
  <1>4. CASE StartTask \/ WakeTask \/ Poll \/ InitDone \/ DiscoveryEvent \/ StreamingEnter
    BY <1>4, Unheard
    DEF StartTask, WakeTask, Poll, InitDone, DiscoveryEvent, StreamingEnter
  <1>5. CASE LinkUp \/ LinkDown
    <2>1. \/ board' = [board EXCEPT !.handle = TRUE]
          \/ board' = [board EXCEPT !.handle = FALSE, !.streaming = FALSE]
      BY <1>5 DEF LinkUp, LinkDown
    <2>2. board'.power = board.power BY <1>1, <2>1 DEF BoardType
    <2>3. radio' = radio \/ radio' = Disabled(radio) BY <1>5 DEF LinkUp, LinkDown
    <2> QED BY <1>2, <2>2, <2>3, Unheard
  <1>6. CASE Owner
    <2>1. radio' = radio \/ radio' = Disabled(radio)
      <3>1. board.mode \in {"NORMAL", "DOWNLOAD", "POWER_OFF"} BY <1>1 DEF BoardType
      <3> QED BY <1>6, <3>1 DEF Owner, SystemButton, UploadDone, StreamingEnter, StreamingExit,
                     SetupDownload, ScreenOff, SetupNormal
    <2>2. \/ board' = board
          \/ \E mode, pending, pressed :
               board' = [board EXCEPT !.mode = mode, !.pending = pending, !.pressed = pressed]
          \/ board' = [board EXCEPT !.mode = "DOWNLOAD", !.pressed = TRUE]
          \/ board' = [board EXCEPT !.streaming = FALSE]
      <3>1. board.mode \in {"NORMAL", "DOWNLOAD", "POWER_OFF"} BY <1>1 DEF BoardType
      <3>2. ScreenOff => \E mode, pending, pressed :
               board' = [board EXCEPT !.mode = mode, !.pending = pending, !.pressed = pressed]
        BY DEF ScreenOff
      <3>3. ASSUME NEW pressed, SetupNormal(pressed)
            PROVE  \E mode, pending, x :
               board' = [board EXCEPT !.mode = mode, !.pending = pending, !.pressed = x]
        BY <3>3 DEF SetupNormal
      <3>4. StreamingEnter => board' = board BY DEF StreamingEnter
      <3>5. StreamingExit => board' = [board EXCEPT !.streaming = FALSE] BY DEF StreamingExit
      <3>6. UploadDone => SetupNormal(board.pressed) BY DEF UploadDone
      <3>7. SystemButton =>
              \/ ScreenOff \/ SetupNormal(TRUE)
              \/ board' = [board EXCEPT !.mode = "DOWNLOAD", !.pressed = TRUE]
        BY <3>1 DEF SystemButton, SetupDownload
      <3> QED BY <1>6, <3>2, <3>3, <3>4, <3>5, <3>6, <3>7 DEF Owner
    <2>3. board'.power = board.power BY <1>1, <2>2 DEF BoardType
    <2> QED BY <1>2, <2>1, <2>3, Unheard
  <1> QED BY <1>3, <1>4, <1>5, <1>6 DEF Handlers

LEMMA SurroundingsMap == ASSUME Inv, Surroundings PROVE Mapped
  <1>1. radio \in RadioType /\ board \in BoardType BY DEF Inv, Types
  <1>2. CASE DeviceInfo BY <1>2, Unheard DEF DeviceInfo
  <1>3. CASE RadioUp
    <2>1. board' = board /\ \E gap : radio' = [radio EXCEPT !.gap = gap]
      BY <1>3 DEF RadioUp
    <2>2. /\ radio'.adv = radio.adv /\ radio'.conn = radio.conn
          /\ radio'.disc = radio.disc
      BY <1>1, <2>1 DEF RadioType
    <2> QED BY <2>1, <2>2, SameUsers, Unheard
  <1>4. CASE AdvertisingStops
    <2>1. /\ On /\ board' = board /\ radio.adv = "stopping"
          /\ radio' = [radio EXCEPT !.adv = "off"]
      BY <1>4 DEF AdvertisingStops
    <2>2. /\ radio'.adv = "off" /\ radio'.conn = radio.conn
          /\ radio'.disc = radio.disc
      BY <1>1, <2>1 DEF RadioType
    <2>3. "advertising" \in UsersOf(radio)
          /\ UsersOf(radio') = UsersOf(radio) \ {"advertising"}
      BY <2>1, <2>2 DEF UsersOf
    <2> QED BY <2>1, <2>3, MappedIs
  <1>5. CASE Connect
    <2>1. /\ On /\ board' = board /\ radio.adv # "off"
          /\ radio' = [radio EXCEPT !.conn = TRUE, !.hangup = FALSE]
      BY <1>5 DEF Connect
    <2>2. /\ radio'.adv = radio.adv /\ radio'.conn
          /\ radio'.disc = radio.disc
      BY <1>1, <2>1 DEF RadioType
    <2>3. radio.disc = "idle" BY <2>1 DEF Inv, RadioOk
    <2>4. UsersOf(radio') = UsersOf(radio) \cup {"link"} BY <2>2 DEF UsersOf
    <2> QED BY <2>1, <2>3, <2>4, MappedIs
  <1>6. CASE PeerLeaves \/ HungUp
    <2>1. /\ On /\ board' = board /\ radio.conn
          /\ radio' = [radio EXCEPT !.conn = FALSE, !.hangup = FALSE]
      BY <1>6 DEF PeerLeaves, HungUp, LinkDrops
    <2>2. /\ radio'.adv = radio.adv /\ ~radio'.conn
          /\ radio'.disc = radio.disc
      BY <1>1, <2>1 DEF RadioType
    <2>3. "link" \in UsersOf(radio) /\ UsersOf(radio') = UsersOf(radio) \ {"link"}
      BY <2>1, <2>2 DEF UsersOf
    <2> QED BY <2>1, <2>3, MappedIs
  <1>7. CASE DiscoveryEnds
    <2>1. /\ On /\ board' = board /\ radio.disc # "idle"
          /\ radio' = [radio EXCEPT !.disc = "idle"]
      BY <1>7 DEF DiscoveryEnds
    <2>2. /\ radio'.adv = radio.adv /\ radio'.conn = radio.conn
          /\ radio'.disc = "idle"
      BY <1>1, <2>1 DEF RadioType
    <2>3. "discovery" \in UsersOf(radio)
          /\ UsersOf(radio') = UsersOf(radio) \ {"discovery"}
      BY <2>1, <2>2 DEF UsersOf
    <2> QED BY <2>1, <2>3, MappedIs
  <1>8. CASE Advance
    <2>1. radio' = radio /\ board' = [board EXCEPT !.pressed = FALSE]
      BY <1>8 DEF Advance
    <2>2. board'.power = board.power BY <1>1, <2>1 DEF BoardType
    <2> QED BY <2>1, <2>2, Unheard
  <1>9. CASE PowerUp
    <2> DEFINE b == Boot(board.always_on)
    <2>1. ~On /\ board' = b.board /\ radio' = b.radio BY <1>9 DEF PowerUp
    <2>2. board.always_on \in BOOLEAN /\ now \in Time BY <1>1 DEF BoardType, Inv, Types
    <2>3. b.board.power = "on" /\ ~b.radio.conn /\ b.radio.disc = "idle"
      BY <2>2, BootIs
    <2> HIDE DEF b
    <2>4. UsersOf(radio') \in {{}, {"advertising"}} BY <2>1, <2>3 DEF UsersOf
    <2> QED BY <2>1, <2>3, <2>4, MappedIs
  <1> QED
    BY <1>2, <1>3, <1>4, <1>5, <1>6, <1>7, <1>8, <1>9 DEF Surroundings

(* Whatever callback comes inside which call, fails, hangs or gets lost,   *)
(* every step of the badge is a step of RadioArbiter or none: a discovery  *)
(* starts on a silent radio only, advertising comes back only where        *)
(* nothing discovers, and power-off is crossed with the radio idle         *)
(* (dispatch(), frogalert_survey_suspend() and FROGALERT_ENTER_SHUTDOWN). *)
THEOREM ArbiterHolds == Spec => ArbiterSpec
  <1>1. Init => Arbiter!Init
    <2> SUFFICES ASSUME Init PROVE Arbiter!Init OBVIOUS
    <2>1. PICK always_on \in AlwaysOn :
            board = Boot(always_on).board /\ radio = Boot(always_on).radio
      BY DEF Init
    <2>2. always_on \in BOOLEAN BY BadgeAssumption
    <2>3. board.power = "on" /\ ~radio.conn /\ radio.disc = "idle"
      BY <2>1, <2>2, BootIs, ZeroIsTime
    <2>4. On /\ UsersOf(radio) \in {{}, {"advertising"}} BY <2>3 DEF On, UsersOf
    <2>5. ArbiterUsers \in {{}, {"advertising"}} BY <2>4, UsersAre
    <2> QED BY <2>3, <2>5 DEF Arbiter!Init, ArbiterUsers
  <1>2. Inv /\ [Next]_vars => [Arbiter!Next]_(Arbiter!vars)
    <2> SUFFICES ASSUME Inv, [Next]_vars PROVE Mapped BY DEF Mapped
    <2>1. CASE UNCHANGED vars BY <2>1, Unheard DEF vars
    <2> QED BY <2>1, RunTodoMaps, HandlersMap, SurroundingsMap DEF Next
  <1> QED BY <1>1, <1>2, Invariance, PTL DEF Spec, ArbiterSpec, Arbiter!Spec

-----------------------------------------------------------------------------
(* Advertising comes back: what a step of the reducer owes it.             *)

(* The phases in which a badge that wants to be found may be silent, and   *)
(* the reducer's note that advertising is to come back after them.         *)
InWindow(self) == self.phase.k \in {"Quiet", "Scanning", "Cancelling"}

Debt(self) == self.restore_advertising \/ self.advertise_after

SameDebt(m, n) ==
    /\ n.self.ready = m.self.ready
    /\ n.self.shutdown = m.self.shutdown
    /\ n.self.restore_advertising = m.self.restore_advertising
    /\ n.self.advertise_after = m.self.advertise_after

LEMMA HelpersKeepDebt ==
  ASSUME NEW m \in MachineType
  PROVE  /\ SameDebt(m, Clear(m))
         /\ SameDebt(m, Publish(m))
         /\ \A c : SameDebt(m, Emit(m, c))
         /\ \A k, at : SameDebt(m, Enter(m, k, at))
  <1>1. SameDebt(m, Clear(m)) BY DEF Clear, SameDebt, MachineType, RuntimeType
  <1>2. SameDebt(m, Publish(m)) BY DEF Publish, SameDebt, MachineType, RuntimeType
  <1>3. ASSUME NEW c PROVE SameDebt(m, Emit(m, c))
    BY DEF Emit, SameDebt, MachineType
  <1>4. ASSUME NEW k, NEW at PROVE SameDebt(m, Enter(m, k, at))
    BY DEF Enter, SameDebt, MachineType, RuntimeType
  <1> QED BY <1>1, <1>2, <1>3, <1>4

(* The end of a window pays what it owes, if the badge still wants to be   *)
(* found and nobody is connected. *)
LEMMA FinishWindowPays ==
  ASSUME NEW m \in MachineType, NEW in \in AllInputs, NEW t \in Time, NEW ok \in BOOLEAN,
         m.out.actions = {}
  PROVE  LET n == FinishWindow(m, t, ok, in)
         IN  /\ n \in MachineType
             /\ SameDebt(m, n)
             /\ n.self.phase.k \in {"Waiting", "Offline"}
             /\ n.out.actions = IF Debt(m.self) /\ in.wants_advertising /\ ~in.connected
                                THEN {"advertise"} ELSE {}
  <1> DEFINE soon == Wadd(t, IF ok THEN NEXT_SCAN ELSE RETRY)
             later == Wadd(t, RETRY)
             next == IF m.self.ready THEN Enter(m, "Waiting", soon)
                     ELSE Enter(m, "Offline", later)
             pays == Debt(m.self) /\ in.wants_advertising /\ ~in.connected
             n == FinishWindow(m, t, ok, in)
  <1>1. soon \in Time /\ later \in Time BY DeadlineType
  <1>2. {"Waiting", "Offline"} \subseteq PhaseKind BY DEF PhaseKind
  <1>3. n = IF pays THEN Emit(next, {"advertise"}) ELSE next
    BY DEF FinishWindow, Debt
  <1> HIDE DEF soon, later, pays, n
  <1>4. /\ next \in MachineType /\ SameDebt(m, next) /\ next.out = m.out
        /\ next.self.phase.k \in {"Waiting", "Offline"}
    <2>1. ASSUME NEW k \in {"Waiting", "Offline"}, NEW at \in {soon, later}
          PROVE  LET x == Enter(m, k, at)
                 IN  /\ x \in MachineType /\ SameDebt(m, x) /\ x.out = m.out
                     /\ x.self.phase.k = k
      <3>1. at \in Time /\ k \in PhaseKind BY <1>1, <1>2
      <3> QED BY <3>1, EnterKeeps, HelpersKeepDebt
    <2> QED BY <2>1
  <1> HIDE DEF next
  <1>5. {"advertise"} \in SUBSET Command BY DEF Command
  <1>6. CASE pays
    <2>1. /\ n \in MachineType /\ n.self = next.self
          /\ n.out.actions = next.out.actions \cup {"advertise"}
      BY <1>3, <1>4, <1>5, <1>6, EmitSound, EmitKeeps
    <2> QED BY <1>4, <1>6, <2>1 DEF SameDebt, n, pays
  <1>7. CASE ~pays BY <1>3, <1>4, <1>7 DEF n, pays
  <1> QED BY <1>6, <1>7

LEMMA FinishPays ==
  ASSUME NEW m \in MachineType, NEW in \in AllInputs, NEW t \in Time, NEW ok \in BOOLEAN,
         m.out.actions = {}
  PROVE  LET n == Finish(m, t, ok, in)
         IN  /\ n \in MachineType
             /\ n.self.ready = m.self.ready /\ n.self.shutdown = m.self.shutdown
             /\ ~Debt(n.self)
             /\ IF m.self.shutdown
                THEN /\ n.self.phase.k \in {"Stopped", "PowerWait"}
                     /\ "advertise" \notin n.out.actions
                ELSE /\ n.self.phase.k \in {"Waiting", "Offline"}
                     /\ n.out.actions =
                          IF Debt(m.self) /\ in.wants_advertising /\ ~in.connected
                          THEN {"advertise"} ELSE {}
  <1> DEFINE told == IF ok THEN Publish(m) ELSE m
             counted == Clear(told)
             stopped == [counted EXCEPT !.self.phase = Stopped,
                                        !.self.shutdown_deadline = NoTime]
             asked == {"stop_advertising"}
                        \cup (IF in.connected THEN {"disconnect"} ELSE {})
             waiting == Enter(counted, "PowerWait", Wadd(t, QUIET))
             ended == IF m.self.shutdown THEN FinishShutdown(counted, t, in)
                      ELSE FinishWindow(counted, t, ok, in)
             n == Finish(m, t, ok, in)
  <1>1. counted \in MachineType /\ counted.out = m.out /\ SameDebt(m, counted)
    <2>1. counted \in MachineType /\ counted.out = m.out
      BY CountedKeeps DEF Empty
    <2>2. told \in MachineType /\ SameDebt(m, told)
      <3>1. SameDebt(m, m) BY DEF SameDebt
      <3> QED BY <3>1, PublishSound, HelpersKeepDebt
    <2> HIDE DEF told
    <2>3. SameDebt(told, Clear(told)) BY <2>2, HelpersKeepDebt
    <2> QED BY <2>1, <2>2, <2>3 DEF SameDebt
  <1>2. n = [ended EXCEPT !.self.restore_advertising = FALSE,
                          !.self.advertise_after = FALSE]
    BY DEF Finish, n, ended, counted
  <1> HIDE DEF counted, n
  <1>3. /\ ended \in MachineType /\ SameDebt(m, ended)
        /\ IF m.self.shutdown
           THEN /\ ended.self.phase.k \in {"Stopped", "PowerWait"}
                /\ "advertise" \notin ended.out.actions
           ELSE /\ ended.self.phase.k \in {"Waiting", "Offline"}
                /\ ended.out.actions =
                     IF Debt(m.self) /\ in.wants_advertising /\ ~in.connected
                     THEN {"advertise"} ELSE {}
    <2>1. CASE ~m.self.shutdown
      <3>1. ended = FinishWindow(counted, t, ok, in) BY <2>1
      <3>2. Debt(counted.self) <=> Debt(m.self) BY <1>1 DEF SameDebt, Debt
      <3>3. counted.out.actions = {} BY <1>1
      <3> HIDE DEF ended
      <3>4. /\ ended \in MachineType /\ SameDebt(counted, ended)
            /\ ended.self.phase.k \in {"Waiting", "Offline"}
            /\ ended.out.actions =
                 IF Debt(counted.self) /\ in.wants_advertising /\ ~in.connected
                 THEN {"advertise"} ELSE {}
        BY <1>1, <3>1, <3>3, FinishWindowPays
      <3> QED BY <1>1, <2>1, <3>2, <3>4 DEF SameDebt
    <2>2. CASE m.self.shutdown
      <3>1. ended = FinishShutdown(counted, t, in) BY <2>2
      <3>2. /\ stopped \in MachineType /\ SameDebt(counted, stopped)
            /\ stopped.self.phase.k = "Stopped" /\ stopped.out = counted.out
        BY <1>1, StoppedIsPhase DEF SameDebt, MachineType, RuntimeType, MaybeTime
      <3>3. /\ waiting \in MachineType /\ SameDebt(counted, waiting)
            /\ waiting.self.phase.k = "PowerWait" /\ waiting.out = counted.out
        <4>1. "PowerWait" \in PhaseKind /\ Wadd(t, QUIET) \in Time
          BY DeadlineType DEF PhaseKind
        <4> QED BY <1>1, <4>1, EnterKeeps, HelpersKeepDebt
      <3>4. asked \in SUBSET Command /\ {"shutdown_idle"} \in SUBSET Command
            /\ "advertise" \notin asked
        BY DEF Command
      <3>5. ended \in {Emit(stopped, {"shutdown_idle"}), Emit(waiting, asked)}
        BY <3>1 DEF FinishShutdown
      <3> HIDE DEF ended, stopped, waiting, asked
      <3>6. ASSUME NEW x \in {stopped, waiting}, NEW c \in {{"shutdown_idle"}, asked},
                   ended = Emit(x, c)
            PROVE  /\ ended \in MachineType /\ SameDebt(counted, ended)
                   /\ ended.self.phase.k \in {"Stopped", "PowerWait"}
                   /\ "advertise" \notin ended.out.actions
        <4>1. /\ ended \in MachineType /\ ended.self = x.self
              /\ ended.out.actions = x.out.actions \cup c
          BY <3>2, <3>3, <3>4, <3>6, EmitSound, EmitKeeps
        <4>2. "advertise" \notin c /\ x.out.actions = {}
          BY <1>1, <3>2, <3>3, <3>4
        <4> QED BY <3>2, <3>3, <4>1, <4>2 DEF SameDebt
      <3>7. /\ ended \in MachineType /\ SameDebt(counted, ended)
            /\ ended.self.phase.k \in {"Stopped", "PowerWait"}
            /\ "advertise" \notin ended.out.actions
        BY <3>5, <3>6
      <3> QED BY <1>1, <2>2, <3>7 DEF SameDebt
    <2> QED BY <2>1, <2>2
  <1> HIDE DEF ended
  <1>4. /\ n \in MachineType
        /\ n.self.phase = ended.self.phase /\ n.out = ended.out
        /\ n.self.ready = ended.self.ready /\ n.self.shutdown = ended.self.shutdown
        /\ n.self.restore_advertising = FALSE /\ n.self.advertise_after = FALSE
    BY <1>2, <1>3, ZenonT(60) DEF MachineType, RuntimeType
  <1> QED BY <1>3, <1>4 DEF SameDebt, Debt, n

LEMMA SuspendPays ==
  ASSUME NEW m \in MachineType, NEW in \in AllInputs, NEW t \in Time, NEW after \in BOOLEAN
  PROVE  LET n == Suspend(m, t, after, in)
         IN  /\ Busy(m) =>
                  /\ n.self.ready = m.self.ready /\ n.self.shutdown = m.self.shutdown
                  /\ n.self.phase.k = "Cancelling"
                  /\ ~n.self.restore_advertising
                  /\ n.self.advertise_after = (after /\ ~m.self.shutdown)
                  /\ n.out.actions = m.out.actions \cup {"cancel_scan"}
             /\ ~Busy(m) /\ m.out.actions = {} =>
                  /\ n.self.ready = m.self.ready /\ n.self.shutdown = m.self.shutdown
                  /\ ~Debt(n.self)
                  /\ "advertise" \notin n.out.actions
                  /\ IF m.self.shutdown THEN n.self.phase.k \in {"Stopped", "PowerWait"}
                     ELSE /\ n.self.phase.k \in {"Waiting", "Offline"}
                          /\ n.out.actions = {}
  <1> DEFINE cleared == Clear(m)
             later == after /\ ~m.self.shutdown
             wiped == [cleared EXCEPT
                         !.self.alert = NoAlert,
                         !.self.restore_advertising = FALSE,
                         !.self.advertise_after = later]
             idle == Finish(wiped, t, FALSE, in)
             cancelling == Enter(wiped, "Cancelling", Wadd(t, RETRY))
             n == Suspend(m, t, after, in)
  <1>1. /\ wiped \in MachineType
        /\ wiped.self.shutdown = m.self.shutdown /\ wiped.self.ready = m.self.ready
        /\ wiped.self.restore_advertising = FALSE /\ wiped.self.advertise_after = later
        /\ wiped.out = m.out
    <2>1. /\ cleared \in MachineType /\ cleared.out = m.out /\ SameDebt(m, cleared)
      BY ClearSound, HelpersKeepDebt DEF Empty
    <2>2. later \in BOOLEAN OBVIOUS
    <2> HIDE DEF cleared, later
    <2>3. wiped \in MachineType
      BY <2>1, <2>2, NoAlertType, ZenonT(60) DEF MachineType, RuntimeType
    <2>4. /\ wiped.self.shutdown = cleared.self.shutdown
          /\ wiped.self.ready = cleared.self.ready
          /\ wiped.self.restore_advertising = FALSE /\ wiped.self.advertise_after = later
          /\ wiped.out = cleared.out
      BY <2>1 DEF MachineType, RuntimeType
    <2> HIDE DEF wiped
    <2> QED BY <2>1, <2>3, <2>4 DEF SameDebt
  <1>2. n = IF Busy(m) THEN Emit(cancelling, {"cancel_scan"})
            ELSE [idle EXCEPT !.out.actions = @ \ {"advertise"}]
    BY DEF Suspend, n, idle, cancelling, wiped, cleared
  <1> HIDE DEF wiped, n
  <1>3. CASE Busy(m)
    <2>1. /\ cancelling \in MachineType /\ SameDebt(wiped, cancelling)
          /\ cancelling.self.phase.k = "Cancelling" /\ cancelling.out = wiped.out
      <3>1. "Cancelling" \in PhaseKind /\ Wadd(t, RETRY) \in Time
        BY DeadlineType DEF PhaseKind
      <3> QED BY <1>1, <3>1, EnterKeeps, HelpersKeepDebt
    <2> HIDE DEF cancelling
    <2>2. /\ n.self = cancelling.self
          /\ n.out.actions = cancelling.out.actions \cup {"cancel_scan"}
      BY <1>2, <1>3, <2>1, EmitKeeps
    <2> QED BY <1>1, <1>3, <2>1, <2>2 DEF SameDebt, n
  <1>4. ASSUME ~Busy(m), m.out.actions = {}
        PROVE  /\ n.self.ready = m.self.ready /\ n.self.shutdown = m.self.shutdown
               /\ ~Debt(n.self)
               /\ "advertise" \notin n.out.actions
               /\ IF m.self.shutdown THEN n.self.phase.k \in {"Stopped", "PowerWait"}
                  ELSE /\ n.self.phase.k \in {"Waiting", "Offline"}
                       /\ n.out.actions = {}
    <2>1. wiped.out.actions = {} BY <1>1, <1>4
    <2>2. /\ idle \in MachineType
          /\ idle.self.ready = wiped.self.ready /\ idle.self.shutdown = wiped.self.shutdown
          /\ ~Debt(idle.self)
          /\ IF wiped.self.shutdown
             THEN /\ idle.self.phase.k \in {"Stopped", "PowerWait"}
                  /\ "advertise" \notin idle.out.actions
             ELSE /\ idle.self.phase.k \in {"Waiting", "Offline"}
                  /\ idle.out.actions \in {{}, {"advertise"}}
      BY <1>1, <2>1, FinishPays, ZenonT(60)
    <2> HIDE DEF idle
    <2>3. n.self = idle.self /\ n.out.actions = idle.out.actions \ {"advertise"}
      BY <1>2, <1>4, <2>2 DEF MachineType, OutputType
    <2> QED BY <1>1, <2>2, <2>3
  <1> QED BY <1>3, <1>4 DEF n

-----------------------------------------------------------------------------
(* A step, seen from the advertising it owes.                              *)

Owes(self) == InWindow(self) /\ Debt(self)

FailsReady(ev) == ev.kind = "Ready" /\ ~ev.ok

AsksBack(ev) == ev.kind = "Suspend" /\ ev.ok

(* The events after which nobody but the reducer brings advertising back.  *)
Calm(ev) == ev.kind \notin {"Suspend", "Resume", "Shutdown"} /\ ~FailsReady(ev)

(* The only way into a window. *)
Opens(self, t, in, ev) ==
    /\ ev.kind = "Tick" /\ self.phase.k = "Waiting" /\ Due(t, self.phase.at)
    /\ in.advertising # "unknown"

(* What the step of a reducer `self' that ends in n does about it. *)
Pays(self, n, t, in, ev) ==
    /\ (InWindow(self) => self.ready /\ ~FailsReady(ev)) =>
         (InWindow(n.self) => n.self.ready)
    /\ InWindow(n.self) => InWindow(self) \/ Opens(self, t, in, ev)
    /\ n.self.shutdown => (self.shutdown /\ ev.kind # "Resume") \/ ev.kind = "Shutdown"
    /\ "stop_advertising" \in n.out.actions =>
         \/ n.self.shutdown
         \/ in.advertising = "on" /\ n.self.phase.k = "Quiet" /\ n.self.restore_advertising
    /\ "advertise" \in n.out.actions => Debt(self)
    /\ "start_role" \in n.out.actions => ~InWindow(n.self)
    /\ Debt(n.self) => Debt(self) \/ InWindow(self) \/ in.advertising # "unknown"
    /\ /\ Owes(self) /\ self.ready /\ ~self.shutdown
       /\ in.wants_advertising /\ ~in.connected /\ Calm(ev)
       => Owes(n.self) \/ "advertise" \in n.out.actions
    /\ AsksBack(ev) /\ ~self.shutdown =>
         \/ Owes(n.self) /\ n.self.phase.k = "Cancelling"
         \/ n.self.phase.k \in {"Waiting", "Offline"}

LEMMA PaysAlike ==
  ASSUME NEW self, NEW n, NEW p, NEW t, NEW in, NEW ev, Pays(self, n, t, in, ev),
         p.self.phase = n.self.phase, SameDebt(n, p), p.out.actions = n.out.actions
  PROVE  Pays(self, p, t, in, ev)
  <1>1. /\ InWindow(p.self) <=> InWindow(n.self)
        /\ Debt(p.self) <=> Debt(n.self)
    BY DEF SameDebt, InWindow, Debt
  <1>2. /\ p.self.ready = n.self.ready /\ p.self.shutdown = n.self.shutdown
        /\ p.self.restore_advertising = n.self.restore_advertising
    BY DEF SameDebt
  <1> QED BY <1>1, <1>2 DEF Pays, Owes

LEMMA StayingPays ==
  ASSUME NEW m \in MachineType, NEW n, NEW t, NEW in, NEW ev,
         n.self.phase = m.self.phase, SameDebt(m, n), n.out.actions = {},
         ev.kind \notin {"Suspend", "Resume"}
  PROVE  Pays(m.self, n, t, in, ev)
  <1>1. /\ InWindow(n.self) <=> InWindow(m.self)
        /\ Debt(n.self) <=> Debt(m.self)
    BY DEF SameDebt, InWindow, Debt
  <1>2. n.self.ready = m.self.ready /\ n.self.shutdown = m.self.shutdown
    BY DEF SameDebt
  <1> QED BY <1>1, <1>2 DEF Pays, Owes, AsksBack

LEMMA FinishingPays ==
  ASSUME NEW m \in MachineType, NEW in \in AllInputs, NEW t \in Time, NEW ok \in BOOLEAN,
         m.out.actions = {}, NEW ev, ev.kind \notin {"Suspend", "Resume"}
  PROVE  Pays(m.self, Finish(m, t, ok, in), t, in, ev)
  <1> DEFINE n == Finish(m, t, ok, in)
  <1>1. /\ n.self.ready = m.self.ready /\ n.self.shutdown = m.self.shutdown
        /\ ~Debt(n.self)
        /\ IF m.self.shutdown
           THEN /\ n.self.phase.k \in {"Stopped", "PowerWait"}
                /\ "advertise" \notin n.out.actions
           ELSE /\ n.self.phase.k \in {"Waiting", "Offline"}
                /\ n.out.actions =
                     IF Debt(m.self) /\ in.wants_advertising /\ ~in.connected
                     THEN {"advertise"} ELSE {}
    BY FinishPays
  <1> HIDE DEF n
  <1>2. ~InWindow(n.self) BY <1>1 DEF InWindow
  <1>3. Pays(m.self, n, t, in, ev)
    BY <1>1, <1>2 DEF Pays, Owes, AsksBack
  <1> QED BY <1>3 DEF n

(* known differs from m in fields that only matter to the caller. *)
LEMMA SuspendingPays ==
  ASSUME NEW m \in MachineType, NEW known \in MachineType, NEW in \in AllInputs,
         NEW t \in Time, NEW after \in BOOLEAN, NEW ev,
         m.out.actions = {}, known.out = m.out, known.self.phase = m.self.phase,
         known.self.shutdown = (m.self.shutdown \/ ev.kind = "Shutdown"),
         known.self.ready = m.self.ready \/ (FailsReady(ev) /\ Busy(m)),
         ~Calm(ev), ev.kind # "Resume",
         AsksBack(ev) => after
  PROVE  Pays(m.self, Suspend(known, t, after, in), t, in, ev)
  <1> DEFINE n == Suspend(known, t, after, in)
  <1>1. Busy(known) <=> Busy(m) BY DEF Busy, In
  <1>2. /\ Busy(m) =>
             /\ n.self.ready = known.self.ready /\ n.self.shutdown = known.self.shutdown
             /\ n.self.phase.k = "Cancelling"
             /\ n.self.advertise_after = (after /\ ~known.self.shutdown)
             /\ n.out.actions = {"cancel_scan"}
        /\ ~Busy(m) =>
             /\ n.self.ready = known.self.ready /\ n.self.shutdown = known.self.shutdown
             /\ ~Debt(n.self)
             /\ "advertise" \notin n.out.actions
             /\ IF known.self.shutdown THEN n.self.phase.k \in {"Stopped", "PowerWait"}
                ELSE /\ n.self.phase.k \in {"Waiting", "Offline"}
                     /\ n.out.actions = {}
    BY <1>1, SuspendPays
  <1> HIDE DEF n
  <1>3. CASE Busy(m)
    <2>1. InWindow(m.self) BY <1>3 DEF Busy, In, InWindow
    <2>2. InWindow(n.self) BY <1>2, <1>3 DEF InWindow
    <2>3. AsksBack(ev) /\ ~m.self.shutdown => Debt(n.self)
      <3>1. AsksBack(ev) => ev.kind # "Shutdown" BY DEF AsksBack
      <3> QED BY <1>2, <1>3, <3>1 DEF Debt
    <2>4. /\ "advertise" \notin n.out.actions /\ "stop_advertising" \notin n.out.actions
          /\ "start_role" \notin n.out.actions
      BY <1>2, <1>3
    <2> QED BY <1>2, <1>3, <2>1, <2>2, <2>3, <2>4 DEF Pays, Owes, n
  <1>4. CASE ~Busy(m)
    <2>1. ~InWindow(n.self) BY <1>2, <1>4 DEF InWindow
    <2>2. AsksBack(ev) /\ ~m.self.shutdown => n.self.phase.k \in {"Waiting", "Offline"}
      <3>1. AsksBack(ev) => ev.kind # "Shutdown" BY DEF AsksBack
      <3> QED BY <1>2, <1>4, <3>1
    <2> QED BY <1>2, <1>4, <2>1, <2>2 DEF Pays, Owes, n
  <1> QED BY <1>3, <1>4

LEMMA OnReadyPays ==
  ASSUME NEW m \in MachineType, NEW in \in AllInputs, NEW t \in Time, NEW ok \in BOOLEAN,
         m.out.actions = {}, NEW ev, ev.kind = "Ready", ev.ok = ok,
         InWindow(m.self) => m.self.ready
  PROVE  Pays(m.self, OnReady(m, t, in, ok), t, in, ev)
  <1> DEFINE known == [m EXCEPT !.self.ready = ok]
             n == OnReady(m, t, in, ok)
             first == Wadd(t, FIRST)
             retry == Wadd(t, RETRY)
  <1>1. /\ known \in MachineType
        /\ known.self.phase = m.self.phase /\ known.out = m.out
        /\ known.self.ready = ok /\ known.self.shutdown = m.self.shutdown
        /\ known.self.restore_advertising = m.self.restore_advertising
        /\ known.self.advertise_after = m.self.advertise_after
    BY DEF MachineType, RuntimeType
  <1>2. \/ ok /\ n = known /\ (m.self.ready \/ m.self.shutdown \/ Busy(m))
        \/ ok /\ ~m.self.ready /\ ~m.self.shutdown /\ n = Enter(known, "Waiting", first)
        \/ ~ok /\ Busy(m) /\ n = Suspend(known, t, FALSE, in)
        \/ ~ok /\ ~Busy(m) /\ m.self.shutdown /\ n = known
        \/ ~ok /\ ~Busy(m) /\ ~m.self.shutdown /\ n = Enter(known, "Offline", retry)
    BY DEF OnReady, known
  <1>3. first \in Time /\ retry \in Time BY DeadlineType
  <1>a. ~ok <=> FailsReady(ev) BY DEF FailsReady
  <1> HIDE DEF known, n, first, retry
  <1>b. /\ InWindow(known.self) <=> InWindow(m.self)
        /\ Debt(known.self) <=> Debt(m.self)
    BY <1>1 DEF InWindow, Debt
  <1>4. CASE n = known
    BY <1>1, <1>2, <1>4, <1>a, <1>b DEF Pays, Owes, AsksBack, Calm, n
  <1>5. CASE Busy(m) /\ ~ok /\ n = Suspend(known, t, FALSE, in)
    <2>1. ~Calm(ev) /\ ~AsksBack(ev) BY <1>5, <1>a DEF Calm, AsksBack
    <2>2. known.self.shutdown = (m.self.shutdown \/ ev.kind = "Shutdown")
      BY <1>1 DEF MachineType, RuntimeType
    <2> QED BY <1>1, <1>5, <1>a, <2>1, <2>2, SuspendingPays DEF n
  <1>6. ASSUME NEW k \in {"Waiting", "Offline"}, NEW at \in {first, retry},
               n = Enter(known, k, at),
               k = "Waiting" => ok /\ ~m.self.ready,
               k = "Offline" => ~ok
        PROVE  Pays(m.self, n, t, in, ev)
    <2>1. k \in PhaseKind /\ at \in Time BY <1>3 DEF PhaseKind
    <2>2. n.self.phase.k = k /\ n.out = known.out /\ SameDebt(known, n)
      BY <1>1, <1>6, <2>1, EnterKeeps, HelpersKeepDebt
    <2>3. ~InWindow(n.self) /\ (Debt(n.self) <=> Debt(m.self))
          /\ n.self.shutdown = m.self.shutdown
      BY <1>1, <2>2 DEF InWindow, SameDebt, Debt
    <2>4. n.out.actions = {} BY <1>1, <2>2
    <2> QED BY <1>6, <1>a, <2>3, <2>4 DEF Pays, Owes, AsksBack, Calm
  <1> QED BY <1>2, <1>4, <1>5, <1>6 DEF n

LEMMA OnReportPays ==
  ASSUME NEW m \in MachineType, NEW in, NEW t, NEW a, NEW found, m.out.actions = {},
         NEW ev, ev.kind = "Report"
  PROVE  Pays(m.self, OnReport(m, t, in, a, found), t, in, ev)
  <1> DEFINE seen == [m EXCEPT !.self.counter = Observe(@, a)]
             noted == [seen EXCEPT !.self.detected = found]
             raised == [seen EXCEPT !.self.detected = found,
                                    !.self.alert = [found |-> found, start |-> t]]
             n == OnReport(m, t, in, a, found)
  <1>1. n \in {m, seen, noted, raised} BY DEF OnReport, seen, noted, raised
  <1>2. seen.self.phase = m.self.phase /\ seen.out = m.out /\ SameDebt(m, seen)
    BY DEF MachineType, RuntimeType, SameDebt
  <1>3. noted.self.phase = m.self.phase /\ noted.out = m.out /\ SameDebt(m, noted)
    BY DEF MachineType, RuntimeType, SameDebt
  <1>4. raised.self.phase = m.self.phase /\ raised.out = m.out /\ SameDebt(m, raised)
    BY DEF MachineType, RuntimeType, SameDebt
  <1>5. SameDebt(m, m) BY DEF SameDebt
  <1> HIDE DEF seen, noted, raised, n
  <1>6. n.self.phase = m.self.phase /\ n.out = m.out /\ SameDebt(m, n)
    BY <1>1, <1>2, <1>3, <1>4, <1>5
  <1>7. n.out.actions = {} BY <1>6
  <1> QED BY <1>6, <1>7, StayingPays DEF n

LEMMA OnShutdownPays ==
  ASSUME NEW m \in MachineType, NEW in \in AllInputs, NEW t \in Time,
         m.out.actions = {}, NEW ev, ev.kind = "Shutdown"
  PROVE  Pays(m.self, OnShutdown(m, t, in), t, in, ev)
  <1> DEFINE deadline == IF m.self.shutdown THEN m.self.shutdown_deadline
                         ELSE Wadd(t, SHUTDOWN_LIMIT)
             told == [m EXCEPT !.self.shutdown = TRUE,
                               !.self.shutdown_deadline = deadline]
  <1>1. deadline \in MaybeTime
    BY DeadlineType DEF MaybeTime, MachineType, RuntimeType
  <1>2. OnShutdown(m, t, in) = Suspend(told, t, FALSE, in) BY DEF OnShutdown
  <1> HIDE DEF deadline
  <1>3. /\ told \in MachineType /\ told.out = m.out
        /\ told.self.phase = m.self.phase /\ told.self.ready = m.self.ready
        /\ told.self.shutdown = TRUE
    BY <1>1 DEF MachineType, RuntimeType
  <1> HIDE DEF told
  <1>4. ~Calm(ev) /\ ~AsksBack(ev) BY DEF Calm, AsksBack
  <1>5. told.self.shutdown = (m.self.shutdown \/ ev.kind = "Shutdown") BY <1>3
  <1>6. told.self.ready = m.self.ready \/ (FailsReady(ev) /\ Busy(m)) BY <1>3
  <1>7. ev.kind # "Resume" /\ FALSE \in BOOLEAN OBVIOUS
  <1>8. Pays(m.self, Suspend(told, t, FALSE, in), t, in, ev)
    BY <1>3, <1>4, <1>5, <1>6, <1>7, SuspendingPays
  <1> QED BY <1>2, <1>8

LEMMA OnResumePays ==
  ASSUME NEW m \in MachineType, NEW in, NEW t \in Time, m.out.actions = {},
         NEW ev, ev.kind = "Resume"
  PROVE  Pays(m.self, OnResume(m, t), t, in, ev)
  <1> DEFINE told == [m EXCEPT !.self.shutdown = FALSE,
                               !.self.shutdown_deadline = NoTime,
                               !.self.advertise_after = FALSE]
             soon == Wadd(t, QUIET)
             n == OnResume(m, t)
  <1>1. /\ told \in MachineType /\ told.out = m.out
        /\ told.self.phase = m.self.phase /\ told.self.ready = m.self.ready
        /\ told.self.shutdown = FALSE /\ told.self.advertise_after = FALSE
        /\ told.self.restore_advertising = m.self.restore_advertising
    BY DEF MachineType, RuntimeType, MaybeTime
  <1>2. n = told \/ n = Enter(told, "Waiting", soon) BY DEF OnResume
  <1>3. soon \in Time /\ "Waiting" \in PhaseKind BY DeadlineType DEF PhaseKind
  <1> HIDE DEF told, n, soon
  <1>a. ~Calm(ev) /\ ~AsksBack(ev) /\ ~FailsReady(ev)
    BY DEF Calm, AsksBack, FailsReady
  <1>4. /\ SameDebt(told, n) /\ n.out = told.out
        /\ n.self.phase = told.self.phase \/ n.self.phase.k = "Waiting"
    <2>1. CASE n = told BY <2>1 DEF SameDebt
    <2>2. CASE n = Enter(told, "Waiting", soon)
      BY <1>1, <1>3, <2>2, EnterKeeps, HelpersKeepDebt
    <2> QED BY <1>2, <2>1, <2>2
  <1>5. /\ InWindow(n.self) => InWindow(m.self) /\ n.self.ready = m.self.ready
        /\ Debt(n.self) => Debt(m.self)
        /\ ~n.self.shutdown
        /\ n.out.actions = {}
    BY <1>1, <1>4 DEF InWindow, Debt, SameDebt
  <1> QED BY <1>5, <1>a DEF Pays, n

LEMMA HandlePays ==
  ASSUME NEW m \in MachineType, NEW in \in AllInputs, NEW t \in Time, NEW ev \in EventType,
         m.out.actions = {}, InWindow(m.self) => m.self.ready
  PROVE  Pays(m.self, HandleEvent(m, t, in, ev), t, in, ev)
  <1> DEFINE n == HandleEvent(m, t, in, ev)
  <1>0. SameDebt(m, m) BY DEF SameDebt
  <1>1. CASE ev.kind = "Ready"
    <2>1. n = OnReady(m, t, in, ev.ok) /\ ev.ok \in BOOLEAN
      BY <1>1 DEF HandleEvent, EventType
    <2> QED BY <1>1, <2>1, OnReadyPays
  <1>2. CASE ev.kind \in {"StartResult", "CancelResult", "Complete"}
    <2>1. ev.ok \in BOOLEAN BY <1>2 DEF EventType
    <2> DEFINE counts == ev.ok /\ In(m, {"Scanning"}) /\ in.allowed /\ ~in.connected
    <2>2. counts \in BOOLEAN BY <2>1 DEF In
    <2>3. n \in {m, Finish(m, t, FALSE, in), Finish(m, t, counts, in)}
      BY <1>2 DEF HandleEvent, OnStartResult, OnCancelResult, OnComplete
    <2> HIDE DEF counts, n
    <2>4. ev.kind \notin {"Suspend", "Resume"} BY <1>2
    <2>5. CASE n = m BY <1>0, <2>4, <2>5, StayingPays DEF n
    <2>6. CASE n = Finish(m, t, FALSE, in) BY <2>4, <2>6, FinishingPays DEF n
    <2>7. CASE n = Finish(m, t, counts, in) BY <2>2, <2>4, <2>7, FinishingPays DEF n
    <2> QED BY <2>3, <2>5, <2>6, <2>7
  <1>3. CASE ev.kind = "Report"
    <2>1. n = OnReport(m, t, in, ev.address, ev.found) BY <1>3 DEF HandleEvent
    <2> QED BY <1>3, <2>1, OnReportPays
  <1>4. CASE ev.kind = "Suspend"
    <2>1. n = Suspend(m, t, ev.ok, in) /\ ev.ok \in BOOLEAN
      BY <1>4 DEF HandleEvent, EventType
    <2>2. ~Calm(ev) /\ (AsksBack(ev) => ev.ok) BY <1>4 DEF Calm, AsksBack
    <2>3. m.self.shutdown = (m.self.shutdown \/ ev.kind = "Shutdown")
      BY <1>4 DEF MachineType, RuntimeType
    <2> HIDE DEF n
    <2>4. m.self.ready = m.self.ready \/ (FailsReady(ev) /\ Busy(m)) OBVIOUS
    <2>5. ev.kind # "Resume" BY <1>4
    <2>6. Pays(m.self, Suspend(m, t, ev.ok, in), t, in, ev)
      BY <2>1, <2>2, <2>3, <2>4, <2>5, SuspendingPays
    <2> QED BY <2>1, <2>6 DEF n
  <1>5. CASE ev.kind = "Shutdown"
    BY <1>5, OnShutdownPays DEF HandleEvent
  <1>6. CASE ev.kind = "Resume"
    BY <1>6, OnResumePays DEF HandleEvent
  <1>7. CASE ev.kind = "View"
    <2>1. n = OnView(m, t) BY <1>7 DEF HandleEvent
    <2> DEFINE seen == [m EXCEPT !.self.frog_epoch = t, !.self.last_frame = NoFrame]
    <2>a. n = seen BY <2>1 DEF OnView
    <2>b. seen.self.phase = m.self.phase /\ seen.out = m.out /\ SameDebt(m, seen)
      BY DEF SameDebt, MachineType, RuntimeType
    <2>2. n.self.phase = m.self.phase /\ n.out = m.out /\ SameDebt(m, n)
      BY <2>a, <2>b
    <2> HIDE DEF n
    <2>3. n.out.actions = {} BY <2>2
    <2> QED BY <1>7, <2>2, <2>3, StayingPays DEF n
  <1>8. CASE ev.kind = "Tick"
    <2>1. n = m BY <1>8 DEF HandleEvent
    <2> QED BY <1>0, <1>8, <2>1, StayingPays
  <1> QED BY <1>1, <1>2, <1>3, <1>4, <1>5, <1>6, <1>7, <1>8 DEF EventType

(* A deadline that only moves the phase leaves the debt as it is. *)
LEMMA TickEntersPays ==
  ASSUME NEW m \in MachineType, NEW n, NEW t, NEW in, NEW ev, ev.kind = "Tick",
         SameDebt(m, n), InWindow(n.self) <=> InWindow(m.self),
         n.out.actions \subseteq {"start_role", "start_scan", "cancel_scan"},
         "start_role" \in n.out.actions => ~InWindow(n.self)
  PROVE  Pays(m.self, n, t, in, ev)
  <1>1. n.self.ready = m.self.ready /\ n.self.shutdown = m.self.shutdown
        /\ (Debt(n.self) <=> Debt(m.self))
    BY DEF SameDebt, Debt
  <1>2. "advertise" \notin n.out.actions /\ "stop_advertising" \notin n.out.actions
    OBVIOUS
  <1> QED BY <1>1, <1>2 DEF Pays, Owes, AsksBack

LEMMA EnterEmits ==
  ASSUME NEW m \in MachineType, NEW t \in Time, NEW k \in PhaseKind, NEW at \in Time,
         NEW c
  PROVE  LET n == Emit(Enter(m, k, at), c)
         IN  /\ n.self.phase.k = k
             /\ SameDebt(m, n)
             /\ n.out.actions = m.out.actions \cup c
  <1> DEFINE e == Enter(m, k, at)
             n == Emit(e, c)
  <1>1. /\ e \in MachineType /\ e.self.phase.k = k /\ e.out = m.out /\ SameDebt(m, e)
    BY EnterKeeps, HelpersKeepDebt
  <1> HIDE DEF e
  <1>2. n.self = e.self /\ n.out.actions = e.out.actions \cup c BY <1>1, EmitKeeps
  <1> HIDE DEF n
  <1>3. SameDebt(m, n) BY <1>1, <1>2 DEF SameDebt
  <1> QED BY <1>1, <1>2, <1>3 DEF n, e

LEMMA WaitingIsOverPays ==
  ASSUME NEW m \in MachineType, NEW in \in AllInputs, NEW t \in Time, m.out.actions = {},
         NEW ev, ev.kind = "Tick", m.self.phase.k = "Waiting", Due(t, m.self.phase.at)
  PROVE  Pays(m.self, WaitingIsOver(m, t, in), t, in, ev)
  <1> DEFINE on == in.advertising = "on"
             cleared == Clear(m)
             quiet == [cleared EXCEPT !.self.detected = NoDetection,
                                      !.self.alert = NoAlert,
                                      !.self.restore_advertising = on]
             soon == Wadd(t, QUIET)
             later == Wadd(t, RETRY)
             calls == IF on THEN {"stop_advertising"} ELSE {}
             n == WaitingIsOver(m, t, in)
  <1>1. /\ quiet \in MachineType /\ quiet.out = m.out
        /\ quiet.self.ready = m.self.ready /\ quiet.self.shutdown = m.self.shutdown
        /\ quiet.self.restore_advertising = on
        /\ quiet.self.advertise_after = m.self.advertise_after
    <2>1. cleared \in MachineType /\ cleared.out = m.out /\ SameDebt(m, cleared)
      BY ClearSound, HelpersKeepDebt DEF Empty
    <2>2. on \in BOOLEAN OBVIOUS
    <2> HIDE DEF cleared, on
    <2>3. quiet \in MachineType /\ quiet.out = cleared.out
      BY <2>1, <2>2, NoAlertType DEF MachineType, RuntimeType
    <2>4. /\ quiet.self.ready = cleared.self.ready
          /\ quiet.self.shutdown = cleared.self.shutdown
          /\ quiet.self.restore_advertising = on
          /\ quiet.self.advertise_after = cleared.self.advertise_after
      BY <2>1 DEF MachineType, RuntimeType
    <2> HIDE DEF quiet
    <2> QED BY <2>1, <2>3, <2>4 DEF SameDebt
  <1>2. \/ /\ m.self.ready /\ in.advertising # "unknown"
           /\ n = Emit(Enter(quiet, "Quiet", soon), calls)
        \/ n = Enter(m, "Waiting", later)
    BY DEF WaitingIsOver
  <1>3. soon \in Time /\ later \in Time BY DeadlineType
  <1>4. {"Waiting", "Quiet"} \subseteq PhaseKind BY DEF PhaseKind
  <1>5. /\ "advertise" \notin calls /\ "start_role" \notin calls
        /\ "stop_advertising" \in calls => on
    OBVIOUS
  <1>6. ~InWindow(m.self) BY DEF InWindow
  <1> HIDE DEF quiet, soon, later, calls, n
  <1>7. CASE /\ m.self.ready /\ in.advertising # "unknown"
             /\ n = Emit(Enter(quiet, "Quiet", soon), calls)
    <2>1. /\ n.self.phase.k = "Quiet" /\ SameDebt(quiet, n)
          /\ n.out.actions = quiet.out.actions \cup calls
      BY <1>1, <1>3, <1>4, <1>7, EnterEmits
    <2>2. n.out.actions = calls BY <1>1, <2>1
    <2>3. /\ n.self.ready /\ n.self.shutdown = m.self.shutdown
          /\ n.self.restore_advertising = on
      BY <1>1, <1>7, <2>1 DEF SameDebt
    <2>4. Opens(m.self, t, in, ev) BY <1>7 DEF Opens
    <2> QED BY <1>5, <1>6, <1>7, <2>1, <2>2, <2>3, <2>4 DEF Pays, Owes, AsksBack, n
  <1>8. CASE n = Enter(m, "Waiting", later)
    <2>1. n.self.phase.k = "Waiting" /\ n.out = m.out /\ SameDebt(m, n)
      BY <1>3, <1>4, <1>8, EnterKeeps, HelpersKeepDebt
    <2>2. ~InWindow(n.self) BY <2>1 DEF InWindow
    <2>3. n.out.actions = {} BY <2>1
    <2> QED BY <1>6, <2>1, <2>2, <2>3, TickEntersPays DEF n
  <1> QED BY <1>2, <1>7, <1>8 DEF n

LEMMA TickPays ==
  ASSUME NEW m \in MachineType, NEW in \in AllInputs, NEW t \in Time, m.out.actions = {},
         NEW ev, ev.kind = "Tick"
  PROVE  Pays(m.self, TickPhase(m, t, in), t, in, ev)
  <1> DEFINE n == TickPhase(m, t, in)
             retry == Wadd(t, RETRY)
  <1>1. ev.kind \notin {"Suspend", "Resume"} OBVIOUS
  <1>2. Pays(m.self, m, t, in, ev)
    <2>1. SameDebt(m, m) BY DEF SameDebt
    <2> QED BY <1>1, <2>1, StayingPays
  <1>3. retry \in Time /\ Wadd(t, WATCHDOG) \in Time
        /\ {"Offline", "Scanning", "Cancelling"} \subseteq PhaseKind
    BY DeadlineType DEF PhaseKind
  <1>4. ASSUME NEW p \in MachineType, p.out.actions = {}, SameDebt(m, p),
               p.self.phase = m.self.phase,
               In(m, {"Scanning", "Cancelling"})
        PROVE  Pays(m.self, CancelAgain(p, t), t, in, ev)
    <2> DEFINE e == CancelAgain(p, t)
    <2>1. e = Emit(Enter(p, "Cancelling", retry), {"cancel_scan"}) BY DEF CancelAgain
    <2>2. /\ e.self.phase.k = "Cancelling" /\ SameDebt(p, e)
          /\ e.out.actions = p.out.actions \cup {"cancel_scan"}
      BY <1>3, <2>1, EnterEmits
    <2> HIDE DEF e
    <2>3. SameDebt(m, e) BY <1>4, <2>2 DEF SameDebt
    <2>4. InWindow(e.self) /\ InWindow(m.self) BY <1>4, <2>2 DEF InWindow, In
    <2>5. e.out.actions \subseteq {"start_role", "start_scan", "cancel_scan"}
          /\ "start_role" \notin e.out.actions
      BY <1>4, <2>2
    <2> QED BY <2>3, <2>4, <2>5, TickEntersPays DEF e
  <1>5. CASE In(m, {"Stopped"}) \/ ~Due(t, m.self.phase.at)
    BY <1>2, <1>5 DEF TickPhase
  <1>6. CASE ~(In(m, {"Stopped"}) \/ ~Due(t, m.self.phase.at))
    <2>1. CASE In(m, {"Offline"})
      <3> DEFINE e == Emit(Enter(m, "Offline", retry), {"start_role"})
      <3>1. n \in {m, e} BY <1>6, <2>1 DEF TickPhase, In
      <3>2. /\ e.self.phase.k = "Offline" /\ SameDebt(m, e)
            /\ e.out.actions = m.out.actions \cup {"start_role"}
        BY <1>3, EnterEmits
      <3> HIDE DEF e
      <3>3. ~InWindow(e.self) /\ ~InWindow(m.self) BY <2>1, <3>2 DEF InWindow, In
      <3>4. e.out.actions \subseteq {"start_role", "start_scan", "cancel_scan"}
        BY <3>2
      <3>5. Pays(m.self, e, t, in, ev) BY <3>2, <3>3, <3>4, TickEntersPays
      <3> QED BY <1>2, <3>1, <3>5
    <2>2. CASE In(m, {"Waiting"})
      <3>1. n = m \/ n = WaitingIsOver(m, t, in) BY <1>6, <2>2 DEF TickPhase, In
      <3>2. m.self.phase.k = "Waiting" /\ Due(t, m.self.phase.at)
        BY <1>6, <2>2 DEF In
      <3>3. Pays(m.self, WaitingIsOver(m, t, in), t, in, ev)
        BY <3>2, WaitingIsOverPays
      <3> QED BY <1>2, <3>1, <3>3
    <2>3. CASE In(m, {"Quiet"})
      <3> DEFINE e == Emit(Enter(m, "Scanning", Wadd(t, WATCHDOG)), {"start_scan"})
      <3>1. n = QuietIsOver(m, t, in) BY <1>6, <2>3 DEF TickPhase, In
      <3>2. n \in {e, Finish(m, t, FALSE, in)} BY <3>1 DEF QuietIsOver
      <3>3. /\ e.self.phase.k = "Scanning" /\ SameDebt(m, e)
            /\ e.out.actions = m.out.actions \cup {"start_scan"}
        BY <1>3, EnterEmits
      <3> HIDE DEF e, n
      <3>4. InWindow(e.self) /\ InWindow(m.self) BY <2>3, <3>3 DEF InWindow, In
      <3>5. e.out.actions \subseteq {"start_role", "start_scan", "cancel_scan"}
            /\ "start_role" \notin e.out.actions
        BY <3>3
      <3>6. Pays(m.self, e, t, in, ev) BY <3>3, <3>4, <3>5, TickEntersPays
      <3>7. Pays(m.self, Finish(m, t, FALSE, in), t, in, ev) BY <1>1, FinishingPays
      <3> QED BY <3>2, <3>6, <3>7 DEF n
    <2>4. CASE In(m, {"Scanning"})
      <3>1. n = CancelAgain(Clear(m), t) BY <1>6, <2>4 DEF TickPhase, In
      <3>2. /\ Clear(m) \in MachineType /\ Clear(m).out.actions = {}
            /\ SameDebt(m, Clear(m)) /\ Clear(m).self.phase = m.self.phase
        BY ClearSound, HelpersKeepDebt DEF Empty
      <3>3. In(m, {"Scanning", "Cancelling"}) BY <2>4 DEF In
      <3> QED BY <1>4, <3>1, <3>2, <3>3
    <2>5. CASE In(m, {"Cancelling"})
      <3>1. n = CancelAgain(m, t) BY <1>6, <2>5 DEF TickPhase, In
      <3>2. SameDebt(m, m) BY DEF SameDebt
      <3>3. In(m, {"Scanning", "Cancelling"}) BY <2>5 DEF In
      <3> QED BY <1>4, <3>1, <3>2, <3>3
    <2>6. CASE In(m, {"PowerWait"})
      <3>1. n = Finish(m, t, FALSE, in) BY <1>6, <2>6 DEF TickPhase, In
      <3> QED BY <1>1, <3>1, FinishingPays
    <2>7. m.self.phase.k \in PhaseKind BY DEF MachineType, RuntimeType, Phase
    <2>8. ~In(m, {"Stopped"}) BY <1>6
    <2> QED BY <2>1, <2>2, <2>3, <2>4, <2>5, <2>6, <2>7, <2>8 DEF PhaseKind, In
  <1> QED BY <1>5, <1>6

(* A scan that must not go on notes itself what it owes. *)
LEMMA GuardPays ==
  ASSUME NEW self, NEW x \in MachineType, NEW in \in AllInputs, NEW t \in Time, NEW ev,
         Pays(self, x, t, in, ev)
  PROVE  Pays(self, Guard(x, t, in), t, in, ev)
  <1> DEFINE n == Guard(x, t, in)
  <1>1. CASE n = x BY <1>1
  <1>2. CASE n # x
    <2>1. In(x, {"Scanning"}) /\ n = Suspend(x, t, in.wants_advertising, in)
      BY <1>2 DEF Guard
    <2>2. Busy(x) /\ in.wants_advertising \in BOOLEAN
      BY <2>1 DEF In, Busy, AllInputs
    <2> HIDE DEF n
    <2>3. /\ n.self.ready = x.self.ready /\ n.self.shutdown = x.self.shutdown
          /\ n.self.phase.k = "Cancelling"
          /\ ~n.self.restore_advertising
          /\ n.self.advertise_after = (in.wants_advertising /\ ~x.self.shutdown)
          /\ n.out.actions = x.out.actions \cup {"cancel_scan"}
      BY <2>1, <2>2, SuspendPays
    <2>4. InWindow(n.self) /\ InWindow(x.self) BY <2>1, <2>3 DEF InWindow, In
    <2>5. x.self.phase.k = "Scanning" BY <2>1 DEF In
    <2>6. /\ "start_role" \in n.out.actions <=> "start_role" \in x.out.actions
          /\ "advertise" \in n.out.actions <=> "advertise" \in x.out.actions
          /\ "stop_advertising" \in n.out.actions <=> "stop_advertising" \in x.out.actions
      BY <2>3
    <2>7. in.wants_advertising /\ ~x.self.shutdown => Owes(n.self)
      BY <2>3, <2>4 DEF Owes, Debt
    <2>8. Opens(self, t, in, ev) => in.advertising # "unknown" BY DEF Opens
    <2>9. Calm(ev) => ev.kind # "Shutdown" BY DEF Calm
    <2> QED BY <2>3, <2>4, <2>5, <2>6, <2>7, <2>8, <2>9 DEF Pays, n
  <1> QED BY <1>1, <1>2

LEMMA RenderKeepsDebt ==
  ASSUME NEW m \in MachineType, NEW in, NEW t
  PROVE  SameDebt(m, Render(m, t, in))
  <1> DEFINE frame == Picture(m.self, t, in)
             wake == NextWake(m.self, t, in)
             alert == IF MayShow(m.self, in) /\ AlertLive(m.self, t)
                      THEN m.self.alert ELSE NoAlert
             view == in.counter_view
             self == [m.self EXCEPT !.alert = alert, !.last_frame = frame,
                                    !.next_wake = wake, !.counter_view = view]
  <1>1. Render(m, t, in).self = self BY DEF Render
  <1> HIDE DEF frame, wake, alert, view
  <1>2. /\ self.ready = m.self.ready /\ self.shutdown = m.self.shutdown
        /\ self.restore_advertising = m.self.restore_advertising
        /\ self.advertise_after = m.self.advertise_after
    BY DEF MachineType, RuntimeType
  <1> HIDE DEF self
  <1> QED BY <1>1, <1>2 DEF SameDebt

LEMMA StepPays ==
  ASSUME NEW self \in RuntimeType, self.phase.k # "Scanning" => self.counter = EmptyCounter,
         NEW in \in AllInputs, NEW t \in Time, NEW ev \in EventType,
         InWindow(self) => self.ready,
         "reset_off" \notin Step(self, t, in, ev).out.actions
  PROVE  LET s == Step(self, t, in, ev)
         IN  /\ Pays(self, s, t, in, ev)
             /\ AsksBack(ev) /\ ~self.shutdown => Owes(s.self) \/ s.out.radio_idle
  <1> DEFINE m == Begin(self)
             h == HandleEvent(m, t, in, ev)
             x == IF ev.kind = "Tick" THEN TickPhase(h, t, in) ELSE h
             g == Guard(x, t, in)
             s == Step(self, t, in, ev)
  <1>1. /\ Sound(m) /\ Sound(h) /\ Sound(x) /\ Sound(g)
        /\ m.self = self /\ m.out = NoOutput
        /\ \/ FastPath(self, h, t, in, ev) /\ s = KeepFrameAndWake(h, t)
           \/ ShutdownOverdue(h, t) /\ s = ResetOff(h)
           \/ ~ShutdownOverdue(h, t) /\ s = Render(g, t, in)
    BY StepEnds
  <1>a. "reset_off" \notin s.out.actions OBVIOUS
  <1> HIDE DEF m, s
  <1>2. /\ m \in MachineType /\ h \in MachineType /\ x \in MachineType /\ g \in MachineType
        /\ m.out.actions = {}
    BY <1>1 DEF Sound, NoOutput
  <1>3. Pays(self, h, t, in, ev) BY <1>1, <1>2, HandlePays
  <1>4. /\ ev.kind = "Tick" => h = m
        /\ ev.kind = "Report" => Stays(m, h)
    BY <1>1, <1>2, HandleReacts
  <1> HIDE DEF h
  <1>5. Pays(self, x, t, in, ev)
    <2>1. CASE ev.kind = "Tick" BY <1>1, <1>2, <1>4, <2>1, TickPays
    <2>2. CASE ev.kind # "Tick" BY <1>3, <2>2
    <2> QED BY <2>1, <2>2
  <1> HIDE DEF x
  <1>6. Pays(self, g, t, in, ev) BY <1>2, <1>5, GuardPays
  <1> HIDE DEF g
  <1>7. CASE FastPath(self, h, t, in, ev) /\ s = KeepFrameAndWake(h, t)
    <2>1. s.self = h.self /\ s.out.actions = {} BY <1>1, <1>7, KeepKeeps
    <2>2. ev.kind = "Report" BY <1>7 DEF FastPath
    <2>3. h.out.actions = {} BY <1>4, <2>2 DEF Stays
    <2>4. SameDebt(h, s) BY <2>1 DEF SameDebt
    <2>5. Pays(self, s, t, in, ev) BY <1>3, <2>1, <2>3, <2>4, PaysAlike
    <2> QED BY <2>2, <2>5 DEF AsksBack, s
  <1>8. CASE ShutdownOverdue(h, t) /\ s = ResetOff(h)
    <2>1. s.out.actions = {"reset_off"} BY <1>1, <1>8, ResetOffClears
    <2> QED BY <1>a, <2>1
  <1>9. CASE ~ShutdownOverdue(h, t) /\ s = Render(g, t, in)
    <2>1. /\ s.self.phase = g.self.phase
          /\ s.out.actions = g.out.actions
          /\ s.out.radio_idle = (~Busy(g) /\ ~In(g, {"PowerWait"}))
      BY <1>1, <1>9, RenderShows
    <2>2. SameDebt(g, s) BY <1>2, <1>9, RenderKeepsDebt
    <2>3. Pays(self, s, t, in, ev) BY <1>6, <2>1, <2>2, PaysAlike
    <2>4. ASSUME AsksBack(ev), ~self.shutdown
          PROVE  Owes(s.self) \/ s.out.radio_idle
      <3>1. Owes(s.self) \/ s.self.phase.k \in {"Waiting", "Offline"}
        BY <2>3, <2>4 DEF Pays
      <3>2. s.self.phase.k \in {"Waiting", "Offline"} => s.out.radio_idle
        BY <2>1 DEF Busy, In
      <3> QED BY <3>1, <3>2
    <2> QED BY <2>3, <2>4 DEF s
  <1> QED BY <1>1, <1>7, <1>8, <1>9 DEF s

-----------------------------------------------------------------------------
(* What a handler has still to do, seen from the advertising it owes.      *)

(* A badge that wants to be found and that nobody is connected to. *)
Wants(b, r, c) ==
    /\ b.power = "on" /\ b.mode # "POWER_OFF" /\ (b.always_on \/ b.mode = "DOWNLOAD")
    /\ ~r.conn /\ c.links = <<>>

Asks(x) == x.op = "dispatch" /\ AsksBack(x.ev)

(* Whatever follows it finds the dispatch result that lets it advertise. *)
Grants(x) == (x.op = "return" /\ x.idle) \/ Asks(x)

FailsRole(x) == x.op = "start_role" \/ (x.op = "dispatch" /\ FailsReady(x.ev))

AdvertisesNext(s) == s # <<>> /\ s[1].op = "advertise_if_idle"

StopsNext(s) == s # <<>> /\ s[1].op = "stop_advertising"

ResumesNext(s) == s # <<>> /\ IsEvent(s[1], "Resume")

(* Advertising that will be switched on. *)
Promised(s) ==
    \/ \E i \in 1 .. Len(s) : s[i].op = "advertise"
    \/ \E i \in 1 .. Len(s) - 1 : Grants(s[i]) /\ s[i + 1].op = "advertise_if_idle"

(* The callers know whether the badge may be found, and what the role of   *)
(* the controller is. *)
TaskOk(x, self, b, r, c) ==
    /\ IsEvent(x, "Suspend") /\ ~x.ev.ok => ~Wants(b, r, c)
    /\ IsEvent(x, "Shutdown") => b.mode = "POWER_OFF"
    /\ x.op = "advertise" => r.gap = "up"
    /\ FailsRole(x) => ~InWindow(self)

(* Only a handler, or the step that has just been done, begins with these. *)
WaitsOk(x) == x.op # "stop_advertising" /\ ~IsEvent(x, "Resume")

Tasks(s, self, b, r, c) ==
    /\ \A i \in 1 .. Len(s) : TaskOk(s[i], self, b, r, c)
    /\ \A i \in 2 .. Len(s) : WaitsOk(s[i])
    /\ \A i \in 1 .. Len(s) : Asks(s[i]) => i < Len(s) /\ s[i + 1].op = "advertise_if_idle"

LEMMA PromisedPush ==
  ASSUME NEW x \in Item, NEW s \in Seq(Item)
  PROVE  /\ Promised(s) => Promised(<<x>> \o s)
         /\ x.op = "advertise" => Promised(<<x>> \o s)
         /\ Grants(x) /\ AdvertisesNext(s) => Promised(<<x>> \o s)
  <1> DEFINE p == <<x>> \o s
  <1>1. p \in Seq(Item) /\ Len(p) = Len(s) + 1 /\ p[1] = x /\ Len(s) \in Nat OBVIOUS
  <1>2. \A i \in 1 .. Len(s) : p[i + 1] = s[i] OBVIOUS
  <1> HIDE DEF p
  <1>3. ASSUME Promised(s) PROVE Promised(p)
    <2>1. ASSUME NEW i \in 1 .. Len(s), s[i].op = "advertise" PROVE Promised(p)
      <3> DEFINE j == i + 1
      <3>1. j \in 1 .. Len(p) /\ p[j] = s[i] BY <1>1, <1>2
      <3> HIDE DEF j
      <3> QED BY <2>1, <3>1 DEF Promised
    <2>2. ASSUME NEW i \in 1 .. Len(s) - 1, Grants(s[i]),
                 s[i + 1].op = "advertise_if_idle"
          PROVE  Promised(p)
      <3> DEFINE j == i + 1
      <3>1. /\ j \in 1 .. Len(p) - 1 /\ i \in 1 .. Len(s) /\ j \in 1 .. Len(s)
        BY <1>1
      <3>2. p[j] = s[i] /\ p[j + 1] = s[j] BY <1>2, <3>1
      <3>3. s[j].op = "advertise_if_idle" BY <2>2
      <3> HIDE DEF j
      <3> QED BY <2>2, <3>1, <3>2, <3>3 DEF Promised
    <2> QED BY <1>3, <2>1, <2>2 DEF Promised
  <1>4. ASSUME x.op = "advertise" PROVE Promised(p)
    <2>1. 1 \in 1 .. Len(p) BY <1>1
    <2> QED BY <1>1, <1>4, <2>1 DEF Promised
  <1>5. ASSUME Grants(x), AdvertisesNext(s) PROVE Promised(p)
    <2>1. 1 \in 1 .. Len(s) /\ 1 \in 1 .. Len(p) - 1 BY <1>1, <1>5 DEF AdvertisesNext
    <2>2. p[1] = x /\ p[1 + 1] = s[1] BY <1>1, <1>2, <2>1
    <2> QED BY <1>5, <2>1, <2>2 DEF Promised, AdvertisesNext
  <1> QED BY <1>3, <1>4, <1>5 DEF p

LEMMA PromisedTail ==
  ASSUME NEW s \in Seq(Item), s # <<>>, Promised(s)
  PROVE  \/ Promised(Tail(s))
         \/ s[1].op = "advertise"
         \/ Grants(s[1]) /\ AdvertisesNext(Tail(s))
  <1> DEFINE p == Tail(s)
  <1>1. p \in Seq(Item) /\ Len(p) = Len(s) - 1 /\ Len(s) \in Nat \ {0} OBVIOUS
  <1>2. \A i \in 1 .. Len(s) - 1 : p[i] = s[i + 1] OBVIOUS
  <1> HIDE DEF p
  <1>3. ASSUME NEW i \in 1 .. Len(s), s[i].op = "advertise", i # 1 PROVE Promised(p)
    <2> DEFINE j == i - 1
    <2>1. j \in 1 .. Len(p) /\ j \in 1 .. Len(s) - 1 /\ i = j + 1 BY <1>1, <1>3
    <2> HIDE DEF j
    <2> QED BY <1>2, <1>3, <2>1 DEF Promised
  <1>4. ASSUME NEW i \in 1 .. Len(s) - 1, Grants(s[i]), s[i + 1].op = "advertise_if_idle"
        PROVE  Promised(p) \/ (Grants(s[1]) /\ AdvertisesNext(p))
    <2>1. CASE i = 1
      <3>1. p[1] = s[1 + 1] /\ p # <<>> BY <1>1, <1>2, <2>1
      <3> QED BY <1>4, <2>1, <3>1 DEF AdvertisesNext
    <2>2. CASE i # 1
      <3> DEFINE j == i - 1
      <3>1. j \in 1 .. Len(p) - 1 /\ j \in 1 .. Len(s) - 1 /\ i = j + 1 BY <1>1, <2>2
      <3>2. i \in 1 .. Len(s) - 1 OBVIOUS
      <3>3. p[j] = s[j + 1] BY <1>2, <3>1
      <3>4. p[i] = s[i + 1] BY <1>2, <3>2
      <3> HIDE DEF j
      <3> QED BY <1>4, <3>1, <3>3, <3>4 DEF Promised
    <2> QED BY <2>1, <2>2
  <1> QED BY <1>3, <1>4 DEF Promised, p

LEMMA TasksTail ==
  ASSUME NEW s \in Seq(Item), s # <<>>, NEW self, NEW b, NEW r, NEW c,
         Tasks(s, self, b, r, c)
  PROVE  /\ Tasks(Tail(s), self, b, r, c)
         /\ TaskOk(s[1], self, b, r, c)
         /\ Tail(s) # <<>> => WaitsOk(Tail(s)[1])
         /\ Asks(s[1]) => AdvertisesNext(Tail(s))
  <1> DEFINE p == Tail(s)
  <1>1. p \in Seq(Item) /\ Len(p) = Len(s) - 1 /\ Len(s) \in Nat \ {0} OBVIOUS
  <1>2. \A i \in 1 .. Len(s) - 1 : p[i] = s[i + 1] OBVIOUS
  <1> HIDE DEF p
  <1>3. ASSUME NEW i \in 1 .. Len(p) PROVE TaskOk(p[i], self, b, r, c) /\ WaitsOk(p[i])
    <2>1. i \in 1 .. Len(s) - 1 /\ i + 1 \in 1 .. Len(s) /\ i + 1 \in 2 .. Len(s)
      BY <1>1
    <2> QED BY <1>2, <2>1 DEF Tasks
  <1>4. ASSUME NEW i \in 1 .. Len(p), Asks(p[i])
        PROVE  i < Len(p) /\ p[i + 1].op = "advertise_if_idle"
    <2> DEFINE j == i + 1
    <2>1. i \in 1 .. Len(s) - 1 /\ j \in 1 .. Len(s) BY <1>1
    <2>2. p[i] = s[j] BY <1>2, <2>1
    <2>3. j < Len(s) /\ s[j + 1].op = "advertise_if_idle" BY <1>4, <2>1, <2>2 DEF Tasks
    <2>4. i < Len(p) /\ j \in 1 .. Len(s) - 1 BY <1>1, <2>3
    <2>5. p[j] = s[j + 1] BY <1>2, <2>4
    <2> QED BY <2>3, <2>4, <2>5
  <1>5. ASSUME NEW i \in 2 .. Len(p) PROVE WaitsOk(p[i])
    <2>1. i \in 1 .. Len(p) BY <1>1
    <2> QED BY <1>3, <2>1
  <1>6. p # <<>> => WaitsOk(p[1])
    <2>1. ASSUME p # <<>> PROVE 1 \in 1 .. Len(p) BY <1>1, <2>1
    <2> QED BY <1>3, <2>1
  <1>7. 1 \in 1 .. Len(s) BY <1>1
  <1>8. ASSUME Asks(s[1]) PROVE AdvertisesNext(p)
    <2>1. 1 < Len(s) /\ s[1 + 1].op = "advertise_if_idle" BY <1>7, <1>8 DEF Tasks
    <2>2. 1 \in 1 .. Len(s) - 1 /\ p # <<>> BY <1>1, <2>1
    <2>3. p[1] = s[1 + 1] BY <1>2, <2>2
    <2> QED BY <2>1, <2>2, <2>3 DEF AdvertisesNext
  <1>9. TaskOk(s[1], self, b, r, c) BY <1>7 DEF Tasks
  <1>10. Tasks(p, self, b, r, c) BY <1>3, <1>4, <1>5 DEF Tasks
  <1> QED BY <1>6, <1>8, <1>9, <1>10 DEF p

LEMMA TasksPush ==
  ASSUME NEW s \in Seq(Item), NEW self, NEW b, NEW r, NEW c,
         Tasks(s, self, b, r, c), s # <<>> => WaitsOk(s[1]),
         NEW x \in Item, TaskOk(x, self, b, r, c), Asks(x) => AdvertisesNext(s)
  PROVE  Tasks(<<x>> \o s, self, b, r, c)
  <1> DEFINE p == <<x>> \o s
  <1>1. p \in Seq(Item) /\ Len(p) = Len(s) + 1 /\ p[1] = x /\ Len(s) \in Nat OBVIOUS
  <1>2. \A i \in 1 .. Len(s) : p[i + 1] = s[i] OBVIOUS
  <1> HIDE DEF p
  <1>3. ASSUME NEW i \in 1 .. Len(s)
        PROVE  /\ TaskOk(s[i], self, b, r, c) /\ WaitsOk(s[i])
    <2>1. CASE i = 1
      <3>1. s # <<>> BY <1>1, <2>1
      <3> QED BY <2>1, <3>1 DEF Tasks
    <2>2. CASE i # 1
      <3>1. i \in 2 .. Len(s) BY <1>1, <2>2
      <3> QED BY <3>1 DEF Tasks
    <2> QED BY <2>1, <2>2
  <1>4. ASSUME NEW i \in 1 .. Len(p), i # 1
        PROVE  /\ TaskOk(p[i], self, b, r, c) /\ WaitsOk(p[i])
               /\ Asks(p[i]) => i < Len(p) /\ p[i + 1].op = "advertise_if_idle"
    <2> DEFINE j == i - 1
    <2>1. j \in 1 .. Len(s) /\ i = j + 1 BY <1>1, <1>4
    <2>2. p[i] = s[j] BY <1>2, <2>1
    <2>3. ASSUME Asks(s[j]) PROVE i < Len(p) /\ p[i + 1].op = "advertise_if_idle"
      <3>1. j < Len(s) /\ s[j + 1].op = "advertise_if_idle" BY <2>1, <2>3 DEF Tasks
      <3>2. i \in 1 .. Len(s) /\ i < Len(p) BY <1>1, <2>1, <3>1
      <3>3. p[i + 1] = s[i] BY <1>2, <3>2
      <3> QED BY <2>1, <3>1, <3>2, <3>3
    <2> HIDE DEF j
    <2> QED BY <1>3, <2>1, <2>2, <2>3
  <1>5. ASSUME Asks(x) PROVE 1 < Len(p) /\ p[1 + 1].op = "advertise_if_idle"
    <2>1. s # <<>> /\ s[1].op = "advertise_if_idle" BY <1>5 DEF AdvertisesNext
    <2>2. 1 \in 1 .. Len(s) /\ 1 < Len(p) BY <1>1, <2>1
    <2>3. p[1 + 1] = s[1] BY <1>2, <2>2
    <2> QED BY <2>1, <2>2, <2>3
  <1>6. \A i \in 1 .. Len(p) : TaskOk(p[i], self, b, r, c) BY <1>1, <1>4
  <1>7. \A i \in 2 .. Len(p) : WaitsOk(p[i])
    <2>1. \A i \in 2 .. Len(p) : i \in 1 .. Len(p) /\ i # 1 BY <1>1
    <2> QED BY <1>4, <2>1
  <1>8. \A i \in 1 .. Len(p) : Asks(p[i]) => i < Len(p) /\ p[i + 1].op = "advertise_if_idle"
    BY <1>1, <1>4, <1>5
  <1> QED BY <1>6, <1>7, <1>8 DEF Tasks, p

(* A change of the badge that keeps what waits right. *)
Undisturbed(self, b, r, c, self2, b2, r2, c2) ==
    /\ Wants(b2, r2, c2) => Wants(b, r, c)
    /\ b.mode = "POWER_OFF" => b2.mode = "POWER_OFF"
    /\ r.gap = "up" => r2.gap = "up"
    /\ InWindow(self2) => InWindow(self)

LEMMA TasksStay ==
  ASSUME NEW s, NEW self, NEW b, NEW r, NEW c, NEW self2, NEW b2, NEW r2, NEW c2,
         Tasks(s, self, b, r, c), Undisturbed(self, b, r, c, self2, b2, r2, c2)
  PROVE  Tasks(s, self2, b2, r2, c2)
  <1>1. ASSUME NEW x, TaskOk(x, self, b, r, c) PROVE TaskOk(x, self2, b2, r2, c2)
    BY <1>1 DEF TaskOk, Undisturbed
  <1> QED BY <1>1 DEF Tasks

-----------------------------------------------------------------------------
(* The inductive invariant of advertising.                                 *)

(* A badge that wants to be found advertises, or will when its turn comes. *)
Sought(s, self, b, r, c, told) ==
    Wants(b, r, c) =>
      \/ r.adv = "on" /\ ~StopsNext(s)
      \/ Promised(s)
      \/ told /\ AdvertisesNext(s)
      \/ Owes(self)

(* What the reducer, the radio and the mode controller know of each other. *)
RoleOk(s, self, b, r, c) ==
    /\ self.shutdown => b.mode = "POWER_OFF" \/ ResumesNext(s)
    /\ InWindow(self) \/ Debt(self) => r.gap = "up"
    /\ InWindow(self) => self.ready
    /\ c.init = "fail" => r.gap # "up"
    /\ c.links # <<>> => (r.conn <=> c.links[Len(c.links)] = "up")
    /\ Tasks(s, self, b, r, c)
    /\ ResumesNext(s) /\ Wants(b, r, c) => Promised(s)

(* Before START_EVENT the reducer has been told nothing that could be due. *)
NotYet(w, self, t) == w.start => ~InWindow(self) /\ Fresh(self, t)

AdvInv ==
    On => /\ Sought(todo, rt, board, radio, callbacks, ret)
          /\ RoleOk(todo, rt, board, radio, callbacks)
          /\ NotYet(timer, rt, now)

LEMMA SoughtTold ==
  ASSUME NEW s, NEW self, NEW b, NEW r, NEW c, NEW told
  PROVE  /\ Sought(s, self, b, r, c, FALSE) => Sought(s, self, b, r, c, told)
         /\ Sought(s, self, b, r, c, told) /\ ~AdvertisesNext(s) =>
              Sought(s, self, b, r, c, FALSE)
  BY DEF Sought

LEMMA SoughtPop ==
  ASSUME NEW s \in Seq(Item), s # <<>>, NEW self, NEW b, NEW r, NEW c, NEW told,
         Tasks(s, self, b, r, c), Sought(s, self, b, r, c, told),
         s[1].op \in CallOp \ {"advertise"},
         s[1].op = "advertise_if_idle" => ~told,
         NEW b2, NEW r2, Wants(b2, r2, c) => Wants(b, r, c),
         r2.adv = r.adv \/ s[1].op = "stop_advertising"
  PROVE  Sought(Tail(s), self, b2, r2, c, FALSE)
  <1>1. ~Grants(s[1]) BY DEF Grants, Asks, CallOp
  <1>2. ~StopsNext(Tail(s)) BY TasksTail DEF StopsNext, WaitsOk
  <1>3. Promised(s) => Promised(Tail(s)) BY <1>1, PromisedTail
  <1>4. ~(told /\ AdvertisesNext(s)) BY DEF AdvertisesNext
  <1> QED BY <1>2, <1>3, <1>4 DEF Sought, StopsNext

LEMMA RolePop ==
  ASSUME NEW s \in Seq(Item), s # <<>>, NEW self, NEW b, NEW r, NEW c,
         RoleOk(s, self, b, r, c), s[1].op \in CallOp,
         NEW b2, NEW r2, Undisturbed(self, b, r, c, self, b2, r2, c),
         r2.gap = "up" => r.gap = "up", r2.conn = r.conn
  PROVE  /\ RoleOk(Tail(s), self, b2, r2, c) /\ ~ResumesNext(Tail(s))
         /\ Tail(s) # <<>> => WaitsOk(Tail(s)[1])
         /\ Tail(s) \in Seq(Item)
  <1>1. Tasks(s, self, b2, r2, c) BY TasksStay DEF RoleOk
  <1>2. /\ Tasks(Tail(s), self, b2, r2, c)
        /\ Tail(s) # <<>> => WaitsOk(Tail(s)[1])
    BY <1>1, TasksTail
  <1>3. ~ResumesNext(Tail(s)) BY <1>2 DEF ResumesNext, WaitsOk
  <1>4. ~ResumesNext(s) BY DEF ResumesNext, IsEvent, CallOp
  <1>5. Tail(s) \in Seq(Item) OBVIOUS
  <1> QED BY <1>2, <1>3, <1>4, <1>5 DEF RoleOk, Undisturbed

LEMMA SoughtPush ==
  ASSUME NEW s \in Seq(Item), NEW self, NEW b, NEW r, NEW c,
         Sought(s, self, b, r, c, FALSE), NEW x \in Item, x.op # "stop_advertising"
  PROVE  Sought(<<x>> \o s, self, b, r, c, FALSE)
  <1>1. (<<x>> \o s)[1] = x OBVIOUS
  <1>2. Promised(s) => Promised(<<x>> \o s) BY PromisedPush
  <1> QED BY <1>1, <1>2 DEF Sought, StopsNext

LEMMA RolePush ==
  ASSUME NEW s \in Seq(Item), NEW self, NEW b, NEW r, NEW c,
         RoleOk(s, self, b, r, c), s # <<>> => WaitsOk(s[1]),
         NEW x \in Item, TaskOk(x, self, b, r, c), ~Asks(x), ~IsEvent(x, "Resume")
  PROVE  RoleOk(<<x>> \o s, self, b, r, c)
  <1>1. (<<x>> \o s)[1] = x OBVIOUS
  <1>2. ~ResumesNext(<<x>> \o s) BY <1>1 DEF ResumesNext
  <1>3. ~ResumesNext(s) BY DEF ResumesNext, WaitsOk
  <1>4. Tasks(<<x>> \o s, self, b, r, c) BY TasksPush DEF RoleOk
  <1> QED BY <1>2, <1>3, <1>4 DEF RoleOk

(* What a handler may begin with. *)
LEMMA RoleStart ==
  ASSUME NEW self, NEW b, NEW r, NEW c, RoleOk(<<>>, self, b, r, c),
         NEW s, NEW b2, NEW r2, NEW c2, Tasks(s, self, b2, r2, c2),
         b.mode = "POWER_OFF" => b2.mode = "POWER_OFF" \/ ResumesNext(s),
         r2.gap = r.gap, c2.init = "fail" => c.init = "fail",
         c2.links # <<>> => (r2.conn <=> c2.links[Len(c2.links)] = "up"),
         ResumesNext(s) /\ Wants(b2, r2, c2) => Promised(s)
  PROVE  RoleOk(s, self, b2, r2, c2)
  <1>1. ~ResumesNext(<<>>) BY DEF ResumesNext
  <1> QED BY <1>1 DEF RoleOk

LEMMA SoughtStart ==
  ASSUME NEW self, NEW b, NEW r, NEW c, NEW told, Sought(<<>>, self, b, r, c, told),
         NEW s, NEW b2, NEW r2, NEW c2, NEW told2,
         Wants(b2, r2, c2) =>
           \/ Promised(s)
           \/ Wants(b, r, c) /\ r2.adv = r.adv /\ ~StopsNext(s)
  PROVE  Sought(s, self, b2, r2, c2, told2)
  <1>1. ~AdvertisesNext(<<>>) /\ ~Promised(<<>>)
    <2>1. ~AdvertisesNext(<<>>) BY DEF AdvertisesNext
    <2>2. ~Promised(<<>>)
      <3>1. Len(<<>>) = 0 OBVIOUS
      <3> QED BY <3>1 DEF Promised
    <2> QED BY <2>1, <2>2
  <1> QED BY <1>1 DEF Sought

LEMMA TasksNone == ASSUME NEW self, NEW b, NEW r, NEW c PROVE Tasks(<<>>, self, b, r, c)
  <1>1. Len(<<>>) = 0 OBVIOUS
  <1> QED BY <1>1 DEF Tasks

LEMMA TasksOne ==
  ASSUME NEW self, NEW b, NEW r, NEW c, NEW x \in Item,
         TaskOk(x, self, b, r, c), ~Asks(x)
  PROVE  Tasks(<<x>>, self, b, r, c) /\ <<x>>[1] = x /\ <<x>> # <<>>
  <1>1. <<>> \in Seq(Item) OBVIOUS
  <1>2. Tasks(<<x>> \o <<>>, self, b, r, c) BY <1>1, TasksNone, TasksPush
  <1>3. <<x>> \o <<>> = <<x>> BY TwoAre
  <1>4. <<x>>[1] = x /\ <<x>> # <<>> OBVIOUS
  <1> QED BY <1>2, <1>3, <1>4

LEMMA TasksTwo ==
  ASSUME NEW self, NEW b, NEW r, NEW c, NEW x \in Item, NEW y \in Item,
         TaskOk(x, self, b, r, c), TaskOk(y, self, b, r, c), WaitsOk(y), ~Asks(y),
         Asks(x) => y.op = "advertise_if_idle"
  PROVE  Tasks(<<x, y>>, self, b, r, c)
  <1> DEFINE q == <<y>>
             p == <<x, y>>
  <1>1. Tasks(q, self, b, r, c) /\ q[1] = y /\ q # <<>> /\ q \in Seq(Item)
    BY TasksOne
  <1>2. p = <<x>> \o q BY TwoAre
  <1> HIDE DEF p, q
  <1>3. Tasks(<<x>> \o q, self, b, r, c) BY <1>1, TasksPush DEF AdvertisesNext
  <1>4. Tasks(p, self, b, r, c) BY <1>2, <1>3
  <1> QED BY <1>4 DEF p

(* Events that promise nothing and end nothing. *)
LEMMA PlainEvent ==
  ASSUME NEW kind \in {"Tick", "View", "Resume"}
  PROVE  LET x == Event(kind)
         IN  /\ x \in Item /\ x.op = "dispatch" /\ x.ev.kind = kind
             /\ ~Asks(x)
             /\ \A self, b, r, c : TaskOk(x, self, b, r, c)
  <1>1. Event(kind) \in Item /\ Event(kind).op = "dispatch" /\ Event(kind).ev.kind = kind
    BY EventIs
  <1> QED BY <1>1 DEF Asks, AsksBack, TaskOk, IsEvent, FailsRole, FailsReady

LEMMA AskingIs ==
  ASSUME NEW self, NEW b, NEW r, NEW c
  PROVE  /\ Tasks(SuspendThenAdvertise, self, b, r, c)
         /\ Promised(SuspendThenAdvertise)
         /\ SuspendThenAdvertise \in Seq(Item) /\ SuspendThenAdvertise # <<>>
         /\ WaitsOk(SuspendThenAdvertise[1])
         /\ ~ResumesNext(SuspendThenAdvertise)
  <1> DEFINE x == EventOk("Suspend", TRUE)
             y == Call("advertise_if_idle")
             q == <<y>>
             p == <<x, y>>
  <1>1. x \in Item /\ x.op = "dispatch" /\ x.ev.kind = "Suspend" /\ x.ev.ok
    BY EventOkIs
  <1>2. y \in Item /\ y.op = "advertise_if_idle" BY CallIs DEF CallOp
  <1>3. SuspendThenAdvertise = p BY DEF SuspendThenAdvertise
  <1> HIDE DEF x, y
  <1>a. p = <<x>> \o q BY TwoAre
  <1>b. p \in Seq(Item) /\ q \in Seq(Item) BY <1>1, <1>2
  <1>c. p # <<>> /\ p[1] = x /\ q # <<>> /\ q[1] = y OBVIOUS
  <1>4. p = <<x>> \o q /\ p \in Seq(Item) /\ p # <<>> /\ p[1] = x
        /\ q \in Seq(Item) /\ q # <<>> /\ q[1] = y
    BY <1>a, <1>b, <1>c
  <1> HIDE DEF q
  <1>5. TaskOk(x, self, b, r, c) /\ Asks(x) /\ Grants(x) /\ WaitsOk(x)
    BY <1>1 DEF TaskOk, Asks, AsksBack, Grants, IsEvent, FailsRole, FailsReady, WaitsOk
  <1>6. TaskOk(y, self, b, r, c) /\ WaitsOk(y) /\ ~Asks(y)
    BY <1>2 DEF TaskOk, WaitsOk, Asks, IsEvent, FailsRole
  <1>7. Tasks(p, self, b, r, c) BY <1>1, <1>2, <1>5, <1>6, TasksTwo
  <1> HIDE DEF p
  <1>8. Promised(p) BY <1>1, <1>2, <1>4, <1>5, PromisedPush DEF AdvertisesNext
  <1> QED BY <1>3, <1>4, <1>5, <1>7, <1>8 DEF ResumesNext, WaitsOk

LEMMA NormalOpsAre ==
  ASSUME NEW self, NEW b, NEW r, NEW c, NEW always_on \in BOOLEAN
  PROVE  /\ Tasks(NormalOps(always_on), self, b, r, c)
         /\ ResumesNext(NormalOps(always_on))
         /\ always_on => Promised(NormalOps(always_on))
  <1> DEFINE resume == Event("Resume")
             view == Event("View")
             x == EventOk("Suspend", TRUE)
             y == Call("advertise_if_idle")
             v == <<view>>
  <1>1. /\ resume \in Item /\ IsEvent(resume, "Resume") /\ ~Asks(resume)
        /\ TaskOk(resume, self, b, r, c)
        /\ view \in Item /\ view.op = "dispatch" /\ view.ev.kind = "View" /\ ~Asks(view)
        /\ TaskOk(view, self, b, r, c)
    BY PlainEvent DEF IsEvent
  <1>2. x \in Item /\ x.op = "dispatch" /\ x.ev.kind = "Suspend" /\ x.ev.ok
    BY EventOkIs
  <1>3. y \in Item /\ y.op = "advertise_if_idle" BY CallIs DEF CallOp
  <1>4. SuspendThenAdvertise = <<x, y>> BY DEF SuspendThenAdvertise
  <1>a. /\ always_on => NormalOps(always_on) = <<resume>> \o <<x, y>> \o v
        /\ ~always_on => NormalOps(always_on) = <<resume>> \o <<>> \o v
    BY <1>4 DEF NormalOps
  <1> HIDE DEF resume, view, x, y
  <1>5. /\ Tasks(v, self, b, r, c) /\ v[1] = view /\ v # <<>> /\ v \in Seq(Item)
        /\ WaitsOk(v[1])
    BY <1>1, TasksOne DEF WaitsOk, IsEvent
  <1> HIDE DEF v
  <1>6. ASSUME NEW s \in Seq(Item), Tasks(s, self, b, r, c), s # <<>> => WaitsOk(s[1])
        PROVE  /\ Tasks(<<resume>> \o s, self, b, r, c)
               /\ ResumesNext(<<resume>> \o s)
               /\ Promised(s) => Promised(<<resume>> \o s)
    <2>1. (<<resume>> \o s)[1] = resume /\ <<resume>> \o s # <<>> BY <1>1, <1>6
    <2>2. Tasks(<<resume>> \o s, self, b, r, c) BY <1>1, <1>6, TasksPush
    <2>3. Promised(s) => Promised(<<resume>> \o s) BY <1>1, <1>6, PromisedPush
    <2> QED BY <1>1, <2>1, <2>2, <2>3 DEF ResumesNext
  <1>7. CASE always_on
    <2> DEFINE later == <<y>> \o v
               last == <<x>> \o later
               p == <<x, y>>
    <2>1. /\ TaskOk(x, self, b, r, c) /\ Asks(x) /\ Grants(x) /\ WaitsOk(x)
      BY <1>2 DEF TaskOk, Asks, AsksBack, Grants, IsEvent, FailsRole, FailsReady, WaitsOk
    <2>2. TaskOk(y, self, b, r, c) /\ WaitsOk(y) /\ ~Asks(y)
      BY <1>3 DEF TaskOk, WaitsOk, Asks, IsEvent, FailsRole
    <2>3. later \in Seq(Item) /\ later[1] = y /\ later # <<>> BY <1>3, <1>5
    <2>4. Tasks(later, self, b, r, c) BY <1>3, <1>5, <2>2, TasksPush
    <2> HIDE DEF later
    <2>5. AdvertisesNext(later) BY <1>3, <2>3 DEF AdvertisesNext
    <2>6. last \in Seq(Item) /\ last[1] = x BY <1>2, <2>3
    <2>7. Tasks(last, self, b, r, c) BY <1>2, <2>1, <2>2, <2>3, <2>4, <2>5, TasksPush
    <2>8. Promised(last) BY <1>2, <2>1, <2>3, <2>5, PromisedPush
    <2> HIDE DEF last
    <2>9. NormalOps(always_on) = <<resume>> \o last
      <3> DEFINE q == <<resume>>
      <3>1. p = <<x>> \o <<y>> BY TwoAre
      <3>2. p \in Seq(Item) /\ q \in Seq(Item) BY <1>1, <1>2, <1>3
      <3>3. NormalOps(always_on) = (q \o p) \o v BY <1>7, <1>a
      <3> HIDE DEF p, q
      <3>4. p \o v = last
        <4>1. <<x>> \in Seq(Item) /\ <<y>> \in Seq(Item) BY <1>2, <1>3
        <4> QED BY <1>5, <3>1, <4>1, ConcatAssociative DEF last, later
      <3>5. (q \o p) \o v = q \o (p \o v) BY <1>5, <3>2, ConcatAssociative
      <3> QED BY <3>3, <3>4, <3>5 DEF q
    <2> QED BY <1>6, <2>1, <2>6, <2>7, <2>8, <2>9
  <1>8. CASE ~always_on
    <2>1. NormalOps(always_on) = <<resume>> \o <<>> \o v BY <1>8, <1>a
    <2>2. <<resume>> \o <<>> = <<resume>> BY TwoAre
    <2> QED BY <1>5, <1>6, <1>8, <2>1, <2>2
  <1> QED BY <1>7, <1>8

-----------------------------------------------------------------------------
(* Advertising comes back, action by action: the handlers of TMOS.         *)

LEMMA IdleSeeks ==
  ASSUME Inv, AdvInv, Idle
  PROVE  /\ Types /\ On /\ todo = <<>>
         /\ Sought(<<>>, rt, board, radio, callbacks, ret)
         /\ RoleOk(<<>>, rt, board, radio, callbacks)
         /\ NotYet(timer, rt, now)
         /\ callbacks.links # <<>> =>
              (radio.conn <=> callbacks.links[Len(callbacks.links)] = "up")
  <1>1. Types /\ On /\ todo = <<>> BY IdleIs
  <1>2. /\ Sought(<<>>, rt, board, radio, callbacks, ret)
        /\ RoleOk(<<>>, rt, board, radio, callbacks)
        /\ NotYet(timer, rt, now)
    BY <1>1 DEF AdvInv
  <1> QED BY <1>1, <1>2 DEF RoleOk

LEMMA HandlerSeeks ==
  ASSUME Inv, AdvInv, Idle, UNCHANGED <<now, rt, ret>>, timer'.start => timer.start,
         Tasks(todo', rt, board', radio', callbacks'),
         board.mode = "POWER_OFF" => board'.mode = "POWER_OFF" \/ ResumesNext(todo'),
         radio'.gap = radio.gap, callbacks'.init = callbacks.init,
         callbacks'.links # <<>> =>
           (radio'.conn <=> callbacks'.links[Len(callbacks'.links)] = "up"),
         Wants(board', radio', callbacks') =>
           \/ Promised(todo')
           \/ /\ Wants(board, radio, callbacks) /\ radio'.adv = radio.adv
              /\ ~StopsNext(todo') /\ ~ResumesNext(todo')
  PROVE  AdvInv'
  <1>1. /\ Sought(<<>>, rt, board, radio, callbacks, ret)
        /\ RoleOk(<<>>, rt, board, radio, callbacks)
        /\ NotYet(timer, rt, now)
    BY IdleSeeks
  <1>2. Sought(todo', rt, board', radio', callbacks', ret) BY <1>1, SoughtStart
  <1>3. RoleOk(todo', rt, board', radio', callbacks') BY <1>1, RoleStart
  <1>4. NotYet(timer', rt, now) BY <1>1 DEF NotYet
  <1> QED BY <1>2, <1>3, <1>4 DEF AdvInv

(* A handler that leaves the board, the radio and the callbacks alone. *)
LEMMA PlainSeeks ==
  ASSUME Inv, AdvInv, Idle, UNCHANGED <<now, rt, board, radio, callbacks, ret>>,
         timer'.start => timer.start,
         NEW x \in Item, todo' = <<x>>, TaskOk(x, rt, board, radio, callbacks),
         ~Asks(x), WaitsOk(x)
  PROVE  AdvInv'
  <1>1. callbacks.links # <<>> =>
          (radio.conn <=> callbacks.links[Len(callbacks.links)] = "up")
    BY IdleSeeks
  <1>2. Tasks(<<x>>, rt, board, radio, callbacks) /\ <<x>>[1] = x BY TasksOne
  <1>3. ~StopsNext(<<x>>) /\ ~ResumesNext(<<x>>)
    BY <1>2 DEF StopsNext, ResumesNext, WaitsOk
  <1> QED BY <1>1, <1>2, <1>3, HandlerSeeks

LEMMA StartTaskSeeks == ASSUME Inv, AdvInv, StartTask PROVE AdvInv'
  <1> DEFINE x == Call("start_role")
  <1>1. /\ Idle /\ timer.start /\ timer' = [timer EXCEPT !.start = FALSE]
        /\ todo' = <<x>>
        /\ UNCHANGED <<now, rt, board, radio, callbacks, ret>>
    BY DEF StartTask, Start
  <1>2. x \in Item /\ x.op = "start_role" BY CallIs DEF CallOp
  <1> HIDE DEF x
  <1>3. ~InWindow(rt) BY <1>1, IdleSeeks DEF NotYet
  <1>4. TaskOk(x, rt, board, radio, callbacks) /\ ~Asks(x) /\ WaitsOk(x)
    BY <1>2, <1>3 DEF TaskOk, Asks, WaitsOk, IsEvent
  <1> QED BY <1>1, <1>2, <1>4, PlainSeeks

LEMMA TickSeeks ==
  ASSUME Inv, AdvInv, Idle, todo' = <<Event("Tick")>>, timer'.start => timer.start,
         UNCHANGED <<now, rt, board, radio, callbacks, ret>>
  PROVE  AdvInv'
  <1> DEFINE x == Event("Tick")
  <1>1. /\ x \in Item /\ x.op = "dispatch" /\ x.ev.kind = "Tick" /\ ~Asks(x)
        /\ TaskOk(x, rt, board, radio, callbacks)
    BY PlainEvent
  <1>2. todo' = <<x>> OBVIOUS
  <1> HIDE DEF x
  <1>3. WaitsOk(x) BY <1>1 DEF WaitsOk, IsEvent
  <1> QED BY <1>1, <1>2, <1>3, PlainSeeks

LEMMA WakeSeeks == ASSUME Inv, AdvInv, WakeTask \/ Poll PROVE AdvInv'
  <1>1. timer \in TimerType BY DEF Inv, Types
  <1>2. CASE WakeTask
    <2>1. timer'.start => timer.start BY <1>1, <1>2 DEF WakeTask, TimerType
    <2> QED BY <1>2, <2>1, TickSeeks DEF WakeTask, Start
  <1>3. CASE Poll
    <2>1. timer'.start => timer.start BY <1>1, <1>3 DEF Poll, TimerType
    <2> QED BY <1>3, <2>1, TickSeeks DEF Poll, Start
  <1> QED BY <1>2, <1>3

(* A press or the end of an upload may leave a mode in which the badge     *)
(* wants to be found: then its handler asks for advertising. *)
LEMMA ScreenOffSeeks ==
  ASSUME Inv, AdvInv, Idle, ScreenOff, UNCHANGED <<now, rt, timer, callbacks, ret>>
  PROVE  AdvInv'
  <1> DEFINE x == Event("Shutdown")
             y == Call("handoff_if_idle")
  <1>1. /\ Types
        /\ callbacks.links # <<>> =>
             (radio.conn <=> callbacks.links[Len(callbacks.links)] = "up")
    BY IdleSeeks
  <1>2. /\ board' = [board EXCEPT !.mode = "POWER_OFF", !.pending = TRUE,
                                  !.pressed = TRUE]
        /\ radio' = Disabled(radio)
        /\ todo' = <<x, y>>
    BY DEF ScreenOff, Start
  <1>3. board'.mode = "POWER_OFF" BY <1>1, <1>2 DEF Types, BoardType
  <1>4. radio'.gap = radio.gap /\ radio'.conn = radio.conn
    BY <1>1, <1>2 DEF Disabled, Types, RadioType
  <1>5. x \in Item /\ x.op = "dispatch" /\ x.ev.kind = "Shutdown" BY EventIs
  <1>6. y \in Item /\ y.op = "handoff_if_idle" BY CallIs DEF CallOp
  <1> HIDE DEF x, y
  <1>7. /\ TaskOk(x, rt, board', radio', callbacks') /\ ~Asks(x)
        /\ TaskOk(y, rt, board', radio', callbacks') /\ ~Asks(y) /\ WaitsOk(y)
    BY <1>3, <1>5, <1>6
       DEF TaskOk, Asks, AsksBack, WaitsOk, IsEvent, FailsRole, FailsReady
  <1>8. Tasks(<<x, y>>, rt, board', radio', callbacks')
    BY <1>5, <1>6, <1>7, TasksTwo
  <1>9. ~Wants(board', radio', callbacks') BY <1>3 DEF Wants
  <1> QED BY <1>1, <1>2, <1>3, <1>4, <1>8, <1>9, HandlerSeeks

LEMMA SetupNormalSeeks ==
  ASSUME Inv, AdvInv, Idle, NEW pressed, SetupNormal(pressed),
         UNCHANGED <<now, rt, timer, callbacks, ret>>
  PROVE  AdvInv'
  <1>1. /\ Types
        /\ callbacks.links # <<>> =>
             (radio.conn <=> callbacks.links[Len(callbacks.links)] = "up")
    BY IdleSeeks
  <1>2. /\ board' = [board EXCEPT !.mode = "NORMAL", !.pending = FALSE,
                                  !.pressed = pressed]
        /\ todo' = NormalOps(board.always_on)
        /\ UNCHANGED radio
    BY DEF SetupNormal, NormalOps, Start
  <1>3. board'.mode = "NORMAL" /\ board'.always_on = board.always_on
        /\ board.always_on \in BOOLEAN
    BY <1>1, <1>2 DEF Types, BoardType
  <1>4. /\ Tasks(todo', rt, board', radio', callbacks') /\ ResumesNext(todo')
        /\ board.always_on => Promised(todo')
    BY <1>2, <1>3, NormalOpsAre
  <1>5. Wants(board', radio', callbacks') => board.always_on BY <1>3 DEF Wants
  <1> QED BY <1>1, <1>2, <1>4, <1>5, HandlerSeeks

LEMMA ButtonSeeks == ASSUME Inv, AdvInv, SystemButton PROVE AdvInv'
  <1>1. Idle /\ UNCHANGED <<now, rt, timer, callbacks, ret>> BY DEF SystemButton
  <1>2. board \in BoardType /\ board.mode \in {"NORMAL", "DOWNLOAD", "POWER_OFF"}
    BY DEF Inv, Types, BoardType
  <1>3. CASE ScreenOff BY <1>1, <1>3, ScreenOffSeeks
  <1>4. CASE SetupNormal(TRUE) BY <1>1, <1>4, SetupNormalSeeks
  <1>5. CASE board.mode = "NORMAL" /\ ~board.always_on
    <2>1. /\ board' = [board EXCEPT !.mode = "DOWNLOAD", !.pressed = TRUE]
          /\ todo' = SuspendThenAdvertise
          /\ UNCHANGED radio
      BY <1>5 DEF SystemButton, SetupDownload, Start
    <2>2. Tasks(todo', rt, board', radio', callbacks') /\ Promised(todo')
      BY <2>1, AskingIs
    <2>3. callbacks.links # <<>> =>
            (radio.conn <=> callbacks.links[Len(callbacks.links)] = "up")
      BY <1>1, IdleSeeks
    <2> QED BY <1>1, <1>5, <2>1, <2>2, <2>3, HandlerSeeks
  <1> QED BY <1>2, <1>3, <1>4, <1>5 DEF SystemButton, SetupDownload

LEMMA UploadDoneSeeks == ASSUME Inv, AdvInv, UploadDone PROVE AdvInv'
  BY SetupNormalSeeks DEF UploadDone

LEMMA StreamingEnterSeeks == ASSUME Inv, AdvInv, StreamingEnter PROVE AdvInv'
  <1> DEFINE x == EventOk("Suspend", FALSE)
             y == Call("streaming_on")
  <1>1. /\ Idle /\ radio.conn /\ todo' = <<x, y>>
        /\ UNCHANGED <<now, rt, timer, board, radio, callbacks, ret>>
    BY DEF StreamingEnter, Start
  <1>2. callbacks.links # <<>> =>
          (radio.conn <=> callbacks.links[Len(callbacks.links)] = "up")
    BY <1>1, IdleSeeks
  <1>3. x \in Item /\ x.op = "dispatch" /\ x.ev.kind = "Suspend" /\ ~x.ev.ok
    BY EventOkIs
  <1>4. y \in Item /\ y.op = "streaming_on" BY CallIs DEF CallOp
  <1> HIDE DEF x, y
  <1>5. ~Wants(board, radio, callbacks) BY <1>1 DEF Wants
  <1>6. /\ TaskOk(x, rt, board, radio, callbacks) /\ ~Asks(x)
        /\ TaskOk(y, rt, board, radio, callbacks) /\ ~Asks(y) /\ WaitsOk(y)
    BY <1>3, <1>4, <1>5
       DEF TaskOk, Asks, AsksBack, WaitsOk, IsEvent, FailsRole, FailsReady
  <1>7. Tasks(<<x, y>>, rt, board, radio, callbacks)
    BY <1>3, <1>4, <1>6, TasksTwo
  <1> QED BY <1>1, <1>2, <1>5, <1>7, HandlerSeeks

LEMMA StreamingExitSeeks == ASSUME Inv, AdvInv, StreamingExit PROVE AdvInv'
  <1> DEFINE x == Event("View")
  <1>1. /\ Idle /\ radio.conn /\ todo' = <<x>>
        /\ board' = [board EXCEPT !.streaming = FALSE]
        /\ UNCHANGED <<now, rt, timer, radio, callbacks, ret>>
    BY DEF StreamingExit, Start
  <1>2. /\ Types
        /\ callbacks.links # <<>> =>
             (radio.conn <=> callbacks.links[Len(callbacks.links)] = "up")
    BY <1>1, IdleSeeks
  <1>3. board'.mode = board.mode BY <1>1, <1>2 DEF Types, BoardType
  <1>4. /\ x \in Item /\ ~Asks(x) /\ TaskOk(x, rt, board', radio', callbacks')
    BY PlainEvent
  <1> HIDE DEF x
  <1>5. Tasks(<<x>>, rt, board', radio', callbacks') BY <1>4, TasksOne
  <1>6. ~Wants(board', radio', callbacks') BY <1>1 DEF Wants
  <1> QED BY <1>1, <1>2, <1>3, <1>5, <1>6, HandlerSeeks

LEMMA EnterShutdownSeeks == ASSUME Inv, AdvInv, EnterShutdown PROVE AdvInv'
  <1> DEFINE off == board.pending /\ board.mode = "POWER_OFF"
  <1>1. /\ Idle
        /\ board' = [board EXCEPT
                       !.enter_shutdown = FALSE, !.pending = FALSE,
                       !.power = IF off THEN "off" ELSE "on"]
        /\ UNCHANGED <<now, rt, timer, radio, callbacks, todo, ret>>
    BY DEF EnterShutdown
  <1>2. /\ Types /\ On /\ todo' = <<>>
        /\ callbacks.links # <<>> =>
             (radio.conn <=> callbacks.links[Len(callbacks.links)] = "up")
    BY <1>1, IdleSeeks
  <1>3. board'.mode = board.mode /\ board'.always_on = board.always_on
    BY <1>1, <1>2 DEF Types, BoardType
  <1>4. Wants(board', radio', callbacks') => Wants(board, radio, callbacks)
    BY <1>1, <1>2, <1>3 DEF Wants, On
  <1>5. Tasks(todo', rt, board', radio', callbacks') BY <1>2, TasksNone
  <1>6. ~StopsNext(todo') /\ ~ResumesNext(todo') BY <1>2 DEF StopsNext, ResumesNext
  <1> QED BY <1>1, <1>2, <1>3, <1>4, <1>5, <1>6, HandlerSeeks

-----------------------------------------------------------------------------
(* ... the links and the callbacks of the SDK ...                          *)

(* The last of the links reported is the one the radio is in. *)
LEMMA LinksAre ==
  ASSUME NEW q \in Seq({"up", "down"}), q # <<>>
  PROVE  /\ Head(q) = q[1] /\ Len(q) \in Nat \ {0}
         /\ Tail(q) # <<>> => Tail(q)[Len(Tail(q))] = q[Len(q)]
         /\ Tail(q) = <<>> => Head(q) = q[Len(q)]
  <1>1. Head(q) = q[1] /\ Len(q) \in Nat \ {0} /\ Len(Tail(q)) = Len(q) - 1 OBVIOUS
  <1>2. \A i \in 1 .. Len(q) - 1 : Tail(q)[i] = q[i + 1] OBVIOUS
  <1>3. Tail(q) \in Seq({"up", "down"}) OBVIOUS
  <1>4. ASSUME Tail(q) # <<>> PROVE Tail(q)[Len(Tail(q))] = q[Len(q)]
    <2> DEFINE i == Len(Tail(q))
    <2>1. i \in 1 .. Len(q) - 1 /\ i + 1 = Len(q) BY <1>1, <1>3, <1>4
    <2> HIDE DEF i
    <2>2. Tail(q)[i] = q[i + 1] BY <1>2, <2>1
    <2> QED BY <2>1, <2>2 DEF i
  <1>5. ASSUME Tail(q) = <<>> PROVE Len(q) = 1
    <2> DEFINE p == Tail(q)
    <2>1. Len(<<>>) = 0 OBVIOUS
    <2>2. p = <<>> BY <1>5
    <2>3. Len(p) = Len(q) - 1 BY <1>1
    <2> HIDE DEF p
    <2>4. Len(p) = 0 BY <2>1, <2>2
    <2>5. Len(q) \in Nat BY <1>1
    <2>6. ASSUME NEW k \in Nat, k - 1 = 0 PROVE k = 1 BY <2>6
    <2> QED BY <2>3, <2>4, <2>5, <2>6
  <1> QED BY <1>1, <1>4, <1>5

LEMMA LinkAppended ==
  ASSUME NEW q \in Seq({"up", "down"}), NEW x \in {"up", "down"}
  PROVE  /\ Append(q, x) # <<>>
         /\ Append(q, x)[Len(Append(q, x))] = x
  OBVIOUS

LEMMA LinkUpSeeks == ASSUME Inv, AdvInv, LinkUp PROVE AdvInv'
  <1> DEFINE x == EventOk("Suspend", FALSE)
             q == callbacks.links
  <1>1. /\ Idle /\ q # <<>> /\ Head(q) = "up"
        /\ callbacks' = [callbacks EXCEPT !.links = Tail(@)]
        /\ board' = [board EXCEPT !.handle = TRUE]
        /\ radio' = Disabled(radio)
        /\ todo' = <<x>>
        /\ UNCHANGED <<now, rt, timer, ret>>
    BY DEF LinkUp, Start
  <1>2. Types /\ (radio.conn <=> q[Len(q)] = "up") BY <1>1, IdleSeeks
  <1>3. /\ callbacks'.links = Tail(q) /\ callbacks'.init = callbacks.init
        /\ q \in Seq({"up", "down"})
    BY <1>1, <1>2 DEF Types, CallbacksType
  <1>4. board'.mode = board.mode BY <1>1, <1>2 DEF Types, BoardType
  <1>5. radio'.gap = radio.gap /\ radio'.conn = radio.conn
    BY <1>1, <1>2 DEF Disabled, Types, RadioType
  <1>6. x \in Item /\ x.op = "dispatch" /\ x.ev.kind = "Suspend" /\ ~x.ev.ok
    BY EventOkIs
  <1> HIDE DEF x, q
  <1>7. /\ Tail(q) # <<>> => Tail(q)[Len(Tail(q))] = q[Len(q)]
        /\ Tail(q) = <<>> => Head(q) = q[Len(q)]
    BY <1>1, <1>3, LinksAre
  <1>8. ~Wants(board', radio', callbacks') BY <1>1, <1>2, <1>3, <1>5, <1>7 DEF Wants
  <1>9. TaskOk(x, rt, board', radio', callbacks') /\ ~Asks(x)
    BY <1>6, <1>8 DEF TaskOk, Asks, AsksBack, IsEvent, FailsRole, FailsReady
  <1>10. Tasks(<<x>>, rt, board', radio', callbacks') BY <1>6, <1>9, TasksOne
  <1> QED BY <1>1, <1>2, <1>3, <1>4, <1>5, <1>7, <1>8, <1>10, HandlerSeeks

LEMMA LinkDownSeeks == ASSUME Inv, AdvInv, LinkDown PROVE AdvInv'
  <1> DEFINE view == Event("View")
             x == EventOk("Suspend", FALSE)
             q == callbacks.links
             then == IF persistent_advertising THEN SuspendThenAdvertise ELSE <<x>>
  <1>1. /\ Idle /\ q # <<>>
        /\ callbacks' = [callbacks EXCEPT !.links = Tail(@)]
        /\ board' = [board EXCEPT !.handle = FALSE, !.streaming = FALSE]
        /\ todo' = (IF board.mode = "NORMAL" THEN <<view>> ELSE <<>>) \o then
        /\ UNCHANGED <<now, rt, timer, radio, ret>>
    BY DEF LinkDown, Start
  <1>2. Types /\ (radio.conn <=> q[Len(q)] = "up") BY <1>1, IdleSeeks
  <1>3. /\ callbacks'.links = Tail(q) /\ callbacks'.init = callbacks.init
        /\ q \in Seq({"up", "down"})
    BY <1>1, <1>2 DEF Types, CallbacksType
  <1>4. board'.mode = board.mode /\ board'.always_on = board.always_on
    BY <1>1, <1>2 DEF Types, BoardType
  <1>5. Wants(board', radio', callbacks') => persistent_advertising
    BY <1>4 DEF Wants, persistent_advertising
  <1>6. x \in Item /\ x.op = "dispatch" /\ x.ev.kind = "Suspend" /\ ~x.ev.ok
    BY EventOkIs
  <1>7. /\ view \in Item /\ ~Asks(view)
        /\ TaskOk(view, rt, board', radio', callbacks')
    BY PlainEvent
  <1> HIDE DEF view, x, q
  <1>8. Tail(q) # <<>> => Tail(q)[Len(Tail(q))] = q[Len(q)]
    BY <1>1, <1>3, LinksAre
  <1>9. /\ Tasks(then, rt, board', radio', callbacks') /\ then \in Seq(Item)
        /\ then # <<>> /\ WaitsOk(then[1])
        /\ persistent_advertising => Promised(then)
    <2>1. CASE persistent_advertising BY <2>1, AskingIs
    <2>2. CASE ~persistent_advertising
      <3>1. TaskOk(x, rt, board', radio', callbacks') /\ ~Asks(x) /\ WaitsOk(x)
        BY <1>5, <1>6, <2>2
           DEF TaskOk, Asks, AsksBack, IsEvent, FailsRole, FailsReady, WaitsOk
      <3>2. then = <<x>> BY <2>2
      <3>3. Tasks(<<x>>, rt, board', radio', callbacks') /\ <<x>>[1] = x /\ <<x>> # <<>>
        BY <1>6, <3>1, TasksOne
      <3>4. <<x>> \in Seq(Item) BY <1>6
      <3> QED BY <2>2, <3>1, <3>2, <3>3, <3>4
    <2> QED BY <2>1, <2>2
  <1> HIDE DEF then
  <1>10. /\ Tasks(todo', rt, board', radio', callbacks')
         /\ Promised(then) => Promised(todo')
    <2>1. CASE board.mode = "NORMAL"
      <3>1. todo' = <<view>> \o then BY <1>1, <2>1
      <3> QED BY <1>7, <1>9, <3>1, TasksPush, PromisedPush
    <2>2. CASE board.mode # "NORMAL"
      <3>1. todo' = <<>> \o then BY <1>1, <2>2
      <3>2. <<>> \o then = then BY <1>9
      <3> QED BY <1>9, <3>1, <3>2
    <2> QED BY <2>1, <2>2
  <1> QED BY <1>1, <1>2, <1>3, <1>4, <1>5, <1>8, <1>9, <1>10, HandlerSeeks

(* A callback, between two handlers or out of an SDK call, goes first. *)
LEMMA CallBackSeeks ==
  ASSUME Inv, AdvInv, MayCallBack,
         NEW s \in Seq(Item),
         s # <<>> => s[1].op = "dispatch" /\ s[1].ev.kind \notin {"Resume", "Suspend"},
         Sought(s, rt, board, radio, callbacks, FALSE),
         RoleOk(s, rt, board, radio, callbacks),
         NEW x \in Item, x.op = "dispatch",
         x.ev.kind \in {"Ready", "Complete", "Report"},
         FailsReady(x.ev) => ~InWindow(rt)
  PROVE  /\ <<x>> \o s \in Seq(Item) /\ <<x>> \o s # <<>> /\ (<<x>> \o s)[1] = x
         /\ Sought(<<x>> \o s, rt, board, radio, callbacks, FALSE)
         /\ RoleOk(<<x>> \o s, rt, board, radio, callbacks)
  <1>1. /\ TaskOk(x, rt, board, radio, callbacks) /\ ~Asks(x)
        /\ ~IsEvent(x, "Resume")
    BY DEF TaskOk, Asks, AsksBack, IsEvent, FailsRole
  <1>2. s # <<>> => WaitsOk(s[1]) BY DEF WaitsOk, IsEvent
  <1>3. RoleOk(<<x>> \o s, rt, board, radio, callbacks) BY <1>1, <1>2, RolePush
  <1>4. Sought(<<x>> \o s, rt, board, radio, callbacks, FALSE) BY SoughtPush
  <1>5. <<x>> \o s \in Seq(Item) /\ <<x>> \o s # <<>> /\ (<<x>> \o s)[1] = x OBVIOUS
  <1> QED BY <1>3, <1>4, <1>5

LEMMA CallBackFinds ==
  ASSUME Inv, AdvInv, MayCallBack
  PROVE  /\ Types /\ On /\ todo \in Seq(Item)
         /\ Sought(todo, rt, board, radio, callbacks, FALSE)
         /\ RoleOk(todo, rt, board, radio, callbacks)
         /\ NotYet(timer, rt, now)
         /\ todo # <<>> =>
              todo[1].op = "dispatch" /\ todo[1].ev.kind \notin {"Resume", "Suspend"}
  <1>1. /\ Types /\ On
        /\ todo # <<>> =>
             todo[1].op = "dispatch" /\ todo[1].ev.kind \notin {"Resume", "Suspend"}
    BY CallBackIs
  <1>2. ~AdvertisesNext(todo) BY <1>1 DEF AdvertisesNext
  <1>3. /\ Sought(todo, rt, board, radio, callbacks, ret)
        /\ RoleOk(todo, rt, board, radio, callbacks)
        /\ NotYet(timer, rt, now)
    BY <1>1 DEF AdvInv
  <1>4. Sought(todo, rt, board, radio, callbacks, FALSE) BY <1>2, <1>3, SoughtTold
  <1>5. todo \in Seq(Item) BY <1>1 DEF Types
  <1> QED BY <1>1, <1>3, <1>4, <1>5

LEMMA InitDoneSeeks == ASSUME Inv, AdvInv, InitDone PROVE AdvInv'
  <1> DEFINE ok == callbacks.init = "ok"
             x == EventOk("Ready", ok)
  <1>1. /\ MayCallBack /\ callbacks.init # "none"
        /\ callbacks' = [callbacks EXCEPT !.init = "none"]
        /\ todo' = <<x>> \o todo
        /\ UNCHANGED <<now, rt, timer, board, radio, ret>>
    BY DEF InitDone
  <1>2. /\ Types /\ On /\ todo \in Seq(Item)
        /\ Sought(todo, rt, board, radio, callbacks, FALSE)
        /\ RoleOk(todo, rt, board, radio, callbacks)
        /\ NotYet(timer, rt, now)
        /\ todo # <<>> =>
             todo[1].op = "dispatch" /\ todo[1].ev.kind \notin {"Resume", "Suspend"}
    BY <1>1, CallBackFinds
  <1>3. callbacks'.init = "none" /\ callbacks'.links = callbacks.links
    BY <1>1, <1>2 DEF Types, CallbacksType
  <1>4. x \in Item /\ x.op = "dispatch" /\ x.ev.kind = "Ready" /\ (~x.ev.ok => ~ok)
    <2>1. ok \in BOOLEAN OBVIOUS
    <2> HIDE DEF ok
    <2> QED BY <2>1, EventOkIs
  <1>5. ~ok => ~InWindow(rt)
    <2>1. callbacks.init \in {"none", "ok", "fail"} BY <1>2 DEF Types, CallbacksType
    <2> QED BY <1>1, <1>2, <2>1 DEF RoleOk
  <1> HIDE DEF x, ok
  <1>6. FailsReady(x.ev) => ~InWindow(rt) BY <1>4, <1>5 DEF FailsReady
  <1>7. /\ Sought(<<x>> \o todo, rt, board, radio, callbacks, FALSE)
        /\ RoleOk(<<x>> \o todo, rt, board, radio, callbacks)
    BY <1>1, <1>2, <1>4, <1>6, CallBackSeeks
  <1>8. Wants(board, radio, callbacks') <=> Wants(board, radio, callbacks)
    BY <1>3 DEF Wants
  <1>9. Sought(todo', rt, board, radio, callbacks', ret)
    BY <1>1, <1>7, <1>8 DEF Sought
  <1>10. Tasks(todo', rt, board, radio, callbacks')
    BY <1>1, <1>7, <1>8, TasksStay DEF RoleOk, Undisturbed
  <1>11. RoleOk(todo', rt, board, radio, callbacks')
    BY <1>1, <1>3, <1>7, <1>8, <1>10 DEF RoleOk
  <1> QED BY <1>1, <1>2, <1>9, <1>11 DEF AdvInv

LEMMA DiscoveryEventSeeks == ASSUME Inv, AdvInv, DiscoveryEvent PROVE AdvInv'
  <1> DEFINE ok == callbacks.complete = "ok"
             x == EventOk("Complete", ok)
             s == <<x>> \o todo
  <1>1. /\ MayCallBack
        /\ callbacks' = [callbacks EXCEPT !.complete = "none"]
        /\ UNCHANGED <<now, rt, timer, board, radio, ret>>
    BY DEF DiscoveryEvent
  <1>2. /\ Types /\ On /\ todo \in Seq(Item)
        /\ Sought(todo, rt, board, radio, callbacks, FALSE)
        /\ RoleOk(todo, rt, board, radio, callbacks)
        /\ NotYet(timer, rt, now)
        /\ todo # <<>> =>
             todo[1].op = "dispatch" /\ todo[1].ev.kind \notin {"Resume", "Suspend"}
    BY <1>1, CallBackFinds
  <1>3. callbacks'.init = callbacks.init /\ callbacks'.links = callbacks.links
    BY <1>1, <1>2 DEF Types, CallbacksType
  <1>4. PICK replay \in Replays : todo' = replay \o <<x>> \o todo
    BY DEF DiscoveryEvent, Replays
  <1>5. x \in Item /\ x.op = "dispatch" /\ x.ev.kind = "Complete"
    <2>1. ok \in BOOLEAN OBVIOUS
    <2> HIDE DEF ok
    <2> QED BY <2>1, EventOkIs
  <1> HIDE DEF x
  <1>6. ~FailsReady(x.ev) BY <1>5 DEF FailsReady
  <1>7. /\ s \in Seq(Item) /\ s # <<>> /\ s[1] = x
        /\ Sought(s, rt, board, radio, callbacks, FALSE)
        /\ RoleOk(s, rt, board, radio, callbacks)
    BY <1>1, <1>2, <1>5, <1>6, CallBackSeeks
  <1>8. /\ Sought(todo', rt, board, radio, callbacks, FALSE)
        /\ RoleOk(todo', rt, board, radio, callbacks)
    <2>1. CASE replay = <<>>
      <3>1. <<>> \o <<x>> = <<x>> BY TwoAre
      <3> QED BY <1>4, <1>7, <2>1, <3>1
    <2>2. CASE replay # <<>>
      <3>1. PICK a \in Address : replay = <<ReportOf(a)>> BY <1>4, <2>2 DEF Replays
      <3> DEFINE y == ReportOf(a)
      <3>2. y \in Item /\ y.op = "dispatch" /\ y.ev.kind = "Report" BY ReportIs
      <3>3. todo' = <<y>> \o <<x>> \o todo BY <1>4, <3>1
      <3> HIDE DEF y
      <3>4. todo' = <<y>> \o s BY <1>2, <1>5, <3>2, <3>3, PrependOne
      <3>5. ~FailsReady(y.ev) BY <3>2 DEF FailsReady
      <3> HIDE DEF s
      <3>6. /\ Sought(<<y>> \o s, rt, board, radio, callbacks, FALSE)
            /\ RoleOk(<<y>> \o s, rt, board, radio, callbacks)
        BY <1>1, <1>5, <1>7, <3>2, <3>5, CallBackSeeks
      <3> QED BY <3>4, <3>6
    <2> QED BY <2>1, <2>2
  <1>9. Wants(board, radio, callbacks') <=> Wants(board, radio, callbacks)
    BY <1>3 DEF Wants
  <1>10. Sought(todo', rt, board, radio, callbacks', ret) BY <1>8, <1>9 DEF Sought
  <1>11. Tasks(todo', rt, board, radio, callbacks')
    BY <1>8, <1>9, TasksStay DEF RoleOk, Undisturbed
  <1>12. RoleOk(todo', rt, board, radio, callbacks')
    BY <1>3, <1>8, <1>9, <1>11 DEF RoleOk
  <1> QED BY <1>1, <1>2, <1>10, <1>12 DEF AdvInv

LEMMA DeviceInfoSeeks == ASSUME Inv, AdvInv, DeviceInfo PROVE AdvInv'
  <1>1. PICK a \in Address : todo' = <<ReportOf(a)>> \o todo BY DEF DeviceInfo
  <1> DEFINE x == ReportOf(a)
  <1>2. /\ MayCallBack /\ UNCHANGED <<now, rt, timer, board, radio, callbacks, ret>>
        /\ todo' = <<x>> \o todo
    BY <1>1 DEF DeviceInfo
  <1>3. /\ todo \in Seq(Item)
        /\ Sought(todo, rt, board, radio, callbacks, FALSE)
        /\ RoleOk(todo, rt, board, radio, callbacks)
        /\ NotYet(timer, rt, now)
        /\ todo # <<>> =>
             todo[1].op = "dispatch" /\ todo[1].ev.kind \notin {"Resume", "Suspend"}
    BY <1>2, CallBackFinds
  <1>4. x \in Item /\ x.op = "dispatch" /\ x.ev.kind = "Report" BY ReportIs
  <1> HIDE DEF x
  <1>5. ~FailsReady(x.ev) BY <1>4 DEF FailsReady
  <1>6. /\ Sought(<<x>> \o todo, rt, board, radio, callbacks, FALSE)
        /\ RoleOk(<<x>> \o todo, rt, board, radio, callbacks)
    BY <1>2, <1>3, <1>4, <1>5, CallBackSeeks
  <1>7. Sought(todo', rt, board, radio, callbacks, ret) BY <1>2, <1>6, SoughtTold
  <1> QED BY <1>2, <1>3, <1>6, <1>7 DEF AdvInv

-----------------------------------------------------------------------------
(* ... the controller, its peers, the clock and the power switch.          *)

(* What happens aside from the running handler. *)
LEMMA AsideSeeks ==
  ASSUME Inv, AdvInv, On, UNCHANGED <<now, rt, timer, board, todo, ret>>,
         Wants(board', radio', callbacks') =>
           /\ Wants(board, radio, callbacks)
           /\ radio.adv = "on" => radio'.adv = "on",
         radio.gap = "up" => radio'.gap = "up",
         callbacks'.init = "fail" => radio'.gap # "up",
         callbacks'.links # <<>> =>
           (radio'.conn <=> callbacks'.links[Len(callbacks'.links)] = "up")
  PROVE  AdvInv'
  <1>1. /\ Sought(todo, rt, board, radio, callbacks, ret)
        /\ RoleOk(todo, rt, board, radio, callbacks)
        /\ NotYet(timer, rt, now)
    BY DEF AdvInv
  <1>2. board' = board OBVIOUS
  <1>3. Sought(todo, rt, board', radio', callbacks', ret) BY <1>1, <1>2 DEF Sought
  <1>4. Undisturbed(rt, board, radio, callbacks, rt, board', radio', callbacks')
    BY <1>2 DEF Undisturbed
  <1>5. Tasks(todo, rt, board', radio', callbacks')
    BY <1>1, <1>4, TasksStay DEF RoleOk
  <1>6. RoleOk(todo, rt, board', radio', callbacks') BY <1>1, <1>2, <1>5 DEF RoleOk
  <1> QED BY <1>1, <1>3, <1>6 DEF AdvInv

LEMMA LinkOf ==
  ASSUME Inv, AdvInv, On
  PROVE  /\ Types
         /\ callbacks.init = "fail" => radio.gap # "up"
         /\ callbacks.links # <<>> =>
              (radio.conn <=> callbacks.links[Len(callbacks.links)] = "up")
  <1>1. Types BY DEF Inv
  <1>2. RoleOk(todo, rt, board, radio, callbacks) BY DEF AdvInv
  <1> QED BY <1>1, <1>2 DEF RoleOk

LEMMA RadioUpSeeks == ASSUME Inv, AdvInv, RadioUp PROVE AdvInv'
  <1>1. /\ On /\ UNCHANGED <<now, rt, timer, board, todo, ret>>
        /\ radio.gap = "starting"
        /\ \E gap \in {"up", "down"}, init \in {"ok", "fail"} :
             /\ radio' = [radio EXCEPT !.gap = gap]
             /\ callbacks' = [callbacks EXCEPT !.init = init]
             /\ init = "fail" => gap = "down"
    BY DEF RadioUp
  <1>2. /\ Types
        /\ callbacks.links # <<>> =>
             (radio.conn <=> callbacks.links[Len(callbacks.links)] = "up")
    BY <1>1, LinkOf
  <1>3. radio'.adv = radio.adv /\ radio'.conn = radio.conn
    BY <1>1, <1>2 DEF Types, RadioType
  <1>4. callbacks'.links = callbacks.links BY <1>1, <1>2 DEF Types, CallbacksType
  <1>5. callbacks'.init = "fail" => radio'.gap # "up"
    BY <1>1, <1>2 DEF Types, RadioType, CallbacksType
  <1>6. board' = board BY <1>1
  <1>7. Wants(board', radio', callbacks') <=> Wants(board, radio, callbacks)
    BY <1>3, <1>4, <1>6 DEF Wants
  <1> QED BY <1>1, <1>2, <1>3, <1>4, <1>5, <1>7, AsideSeeks

LEMMA AdvertisingStopsSeeks == ASSUME Inv, AdvInv, AdvertisingStops PROVE AdvInv'
  <1>1. /\ On /\ UNCHANGED <<now, rt, timer, board, callbacks, todo, ret>>
        /\ radio.adv = "stopping"
        /\ radio' = [radio EXCEPT !.adv = "off"]
    BY DEF AdvertisingStops
  <1>2. /\ Types
        /\ callbacks.init = "fail" => radio.gap # "up"
        /\ callbacks.links # <<>> =>
             (radio.conn <=> callbacks.links[Len(callbacks.links)] = "up")
    BY <1>1, LinkOf
  <1>3. radio'.gap = radio.gap /\ radio'.conn = radio.conn
    BY <1>1, <1>2 DEF Types, RadioType
  <1>4. board' = board /\ callbacks' = callbacks /\ radio.adv # "on" BY <1>1
  <1>5. Wants(board', radio', callbacks') <=> Wants(board, radio, callbacks)
    BY <1>3, <1>4 DEF Wants
  <1> QED BY <1>1, <1>2, <1>3, <1>4, <1>5, AsideSeeks

LEMMA ConnectSeeks == ASSUME Inv, AdvInv, Connect PROVE AdvInv'
  <1> DEFINE q == callbacks.links
  <1>1. /\ On /\ UNCHANGED <<now, rt, timer, board, todo, ret>>
        /\ radio' = [radio EXCEPT !.conn = TRUE, !.hangup = FALSE]
        /\ callbacks' = [callbacks EXCEPT !.links = Append(@, "up")]
    BY DEF Connect
  <1>2. Types /\ (callbacks.init = "fail" => radio.gap # "up") BY <1>1, LinkOf
  <1>3. radio'.gap = radio.gap /\ radio'.conn BY <1>1, <1>2 DEF Types, RadioType
  <1>4. /\ callbacks'.links = Append(q, "up") /\ callbacks'.init = callbacks.init
        /\ q \in Seq({"up", "down"})
    BY <1>1, <1>2 DEF Types, CallbacksType
  <1> HIDE DEF q
  <1>5. callbacks'.links # <<>> /\ callbacks'.links[Len(callbacks'.links)] = "up"
    BY <1>4, LinkAppended
  <1>6. ~Wants(board', radio', callbacks') BY <1>5 DEF Wants
  <1> QED BY <1>1, <1>2, <1>3, <1>4, <1>5, <1>6, AsideSeeks

LEMMA LinkDropsSeeks == ASSUME Inv, AdvInv, On, LinkDrops PROVE AdvInv'
  <1> DEFINE q == callbacks.links
  <1>1. /\ UNCHANGED <<now, rt, timer, board, todo, ret>>
        /\ radio' = [radio EXCEPT !.conn = FALSE, !.hangup = FALSE]
        /\ callbacks' = [callbacks EXCEPT !.links = Append(@, "down")]
    BY DEF LinkDrops
  <1>2. Types /\ (callbacks.init = "fail" => radio.gap # "up") BY LinkOf
  <1>3. radio'.gap = radio.gap /\ ~radio'.conn BY <1>1, <1>2 DEF Types, RadioType
  <1>4. /\ callbacks'.links = Append(q, "down") /\ callbacks'.init = callbacks.init
        /\ q \in Seq({"up", "down"})
    BY <1>1, <1>2 DEF Types, CallbacksType
  <1> HIDE DEF q
  <1>5. callbacks'.links # <<>> /\ callbacks'.links[Len(callbacks'.links)] = "down"
    BY <1>4, LinkAppended
  <1>6. ~Wants(board', radio', callbacks') BY <1>5 DEF Wants
  <1> QED BY <1>1, <1>2, <1>3, <1>4, <1>5, <1>6, AsideSeeks

LEMMA DiscoveryEndsSeeks == ASSUME Inv, AdvInv, DiscoveryEnds PROVE AdvInv'
  <1>1. /\ On /\ UNCHANGED <<now, rt, timer, board, todo, ret>>
        /\ radio' = [radio EXCEPT !.disc = "idle"]
        /\ \E result : callbacks' = [callbacks EXCEPT !.complete = result]
    BY DEF DiscoveryEnds
  <1>2. /\ Types
        /\ callbacks.init = "fail" => radio.gap # "up"
        /\ callbacks.links # <<>> =>
             (radio.conn <=> callbacks.links[Len(callbacks.links)] = "up")
    BY <1>1, LinkOf
  <1>3. radio'.gap = radio.gap /\ radio'.conn = radio.conn /\ radio'.adv = radio.adv
    BY <1>1, <1>2 DEF Types, RadioType
  <1>4. callbacks'.links = callbacks.links /\ callbacks'.init = callbacks.init
    BY <1>1, <1>2 DEF Types, CallbacksType
  <1>5. board' = board BY <1>1
  <1>6. Wants(board', radio', callbacks') <=> Wants(board, radio, callbacks)
    BY <1>3, <1>4, <1>5 DEF Wants
  <1> QED BY <1>1, <1>2, <1>3, <1>4, <1>6, AsideSeeks

LEMMA AdvanceSeeks == ASSUME Inv, AdvInv, Advance PROVE AdvInv'
  <1>1. /\ Idle /\ ~timer.start
        /\ \/ timer' = [timer EXCEPT !.polled = FALSE, !.tmos = NoTime,
                                     !.wake_event = TRUE]
           \/ timer' = [timer EXCEPT !.polled = FALSE]
        /\ board' = [board EXCEPT !.pressed = FALSE]
        /\ UNCHANGED <<rt, radio, callbacks, todo, ret>>
    BY DEF Advance, Settled
  <1>2. /\ Types /\ On /\ todo = <<>>
        /\ Sought(<<>>, rt, board, radio, callbacks, ret)
        /\ RoleOk(<<>>, rt, board, radio, callbacks)
    BY <1>1, IdleSeeks
  <1>3. ~timer'.start BY <1>1, <1>2 DEF Types, TimerType
  <1>4. /\ board'.power = board.power /\ board'.mode = board.mode
        /\ board'.always_on = board.always_on
    BY <1>1, <1>2 DEF Types, BoardType
  <1>5. Wants(board', radio, callbacks) <=> Wants(board, radio, callbacks)
    BY <1>4 DEF Wants
  <1>6. Sought(<<>>, rt, board', radio, callbacks, ret) BY <1>2, <1>5 DEF Sought
  <1>7. RoleOk(<<>>, rt, board', radio, callbacks)
    BY <1>2, <1>4, <1>5, TasksNone DEF RoleOk
  <1>8. NotYet(timer', rt, now') BY <1>3 DEF NotYet
  <1> QED BY <1>1, <1>2, <1>6, <1>7, <1>8 DEF AdvInv

(* RAM is new, and the BLE stack advertises if it is always on. *)
LEMMA BootSeeks ==
  ASSUME NEW always_on \in BOOLEAN, NEW t, NEW told
  PROVE  LET b == Boot(always_on)
         IN  /\ Sought(<<>>, b.rt, b.board, b.radio, b.callbacks, told)
             /\ RoleOk(<<>>, b.rt, b.board, b.radio, b.callbacks)
             /\ NotYet(b.timer, b.rt, t)
  <1> DEFINE b == Boot(always_on)
             r == NewRuntime(FALSE)
  <1>1. b.rt = r BY DEF Boot
  <1>2. r.phase = Stopped /\ ~r.shutdown /\ ~r.restore_advertising /\ ~r.advertise_after
    BY DEF NewRuntime
  <1> HIDE DEF r
  <1>3. ~InWindow(r) /\ ~Debt(r) /\ Fresh(r, t)
    BY <1>2 DEF InWindow, Debt, Fresh, Stopped
  <1>4. b.board.mode = "NORMAL" /\ b.board.always_on = always_on BY DEF Boot
  <1>5. b.radio.adv = IF always_on THEN "on" ELSE "off" BY DEF Boot
  <1>6. b.callbacks.init = "none" /\ b.callbacks.links = <<>> BY DEF Boot
  <1> HIDE DEF b
  <1>7. ~StopsNext(<<>>) /\ ~ResumesNext(<<>>) BY DEF StopsNext, ResumesNext
  <1>8. Sought(<<>>, b.rt, b.board, b.radio, b.callbacks, told)
    BY <1>4, <1>5, <1>7 DEF Sought, Wants
  <1>9. RoleOk(<<>>, b.rt, b.board, b.radio, b.callbacks)
    BY <1>1, <1>2, <1>3, <1>6, <1>7, TasksNone DEF RoleOk
  <1>10. NotYet(b.timer, b.rt, t) BY <1>1, <1>3 DEF NotYet
  <1> QED BY <1>8, <1>9, <1>10 DEF b

LEMMA PowerUpSeeks == ASSUME Inv, PowerUp PROVE AdvInv'
  <1> DEFINE b == Boot(board.always_on)
  <1>1. /\ rt' = b.rt /\ timer' = b.timer /\ board' = b.board
        /\ radio' = b.radio /\ callbacks' = b.callbacks
        /\ todo' = <<>> /\ ret' = FALSE /\ now' = now
    BY DEF PowerUp
  <1>2. board.always_on \in BOOLEAN BY DEF Inv, Types, BoardType
  <1>3. /\ Sought(<<>>, b.rt, b.board, b.radio, b.callbacks, FALSE)
        /\ RoleOk(<<>>, b.rt, b.board, b.radio, b.callbacks)
        /\ NotYet(b.timer, b.rt, now)
    BY <1>2, BootSeeks
  <1> HIDE DEF b
  <1> QED BY <1>1, <1>3 DEF AdvInv

LEMMA InitSeeks == Init => AdvInv
  <1> SUFFICES ASSUME Init PROVE AdvInv OBVIOUS
  <1>1. PICK always_on \in AlwaysOn :
          LET b == Boot(always_on)
          IN  /\ rt = b.rt /\ timer = b.timer /\ board = b.board
              /\ radio = b.radio /\ callbacks = b.callbacks
    BY DEF Init
  <1>2. always_on \in BOOLEAN BY BadgeAssumption
  <1>3. todo = <<>> BY DEF Init
  <1>4. /\ Sought(<<>>, rt, board, radio, callbacks, ret)
        /\ RoleOk(<<>>, rt, board, radio, callbacks)
        /\ NotYet(timer, rt, now)
    BY <1>1, <1>2, BootSeeks
  <1> QED BY <1>3, <1>4 DEF AdvInv

LEMMA StutterSeeks == ASSUME AdvInv, UNCHANGED vars PROVE AdvInv'
  <1>1. UNCHANGED <<now, rt, timer, board, radio, callbacks, todo, ret>> BY DEF vars
  <1> QED BY <1>1 DEF AdvInv, On

-----------------------------------------------------------------------------
(* ... what a handler has to do.                                           *)

(* What is known when something is done. *)
LEMMA TurnSeeks ==
  ASSUME Inv, AdvInv, NEW op, Doing(op)
  PROVE  /\ Types /\ On /\ todo # <<>> /\ todo \in Seq(Item)
         /\ Head(todo) = todo[1] /\ todo[1].op = op
         /\ Sought(todo, rt, board, radio, callbacks, ret)
         /\ RoleOk(todo, rt, board, radio, callbacks)
         /\ NotYet(timer, rt, now)
         /\ TaskOk(todo[1], rt, board, radio, callbacks)
  <1>1. Types /\ On /\ todo # <<>> /\ Head(todo).op = op BY DEF Inv, Doing
  <1>2. todo \in Seq(Item) BY <1>1 DEF Types
  <1>3. /\ Sought(todo, rt, board, radio, callbacks, ret)
        /\ RoleOk(todo, rt, board, radio, callbacks)
        /\ NotYet(timer, rt, now)
    BY <1>1 DEF AdvInv
  <1>4. Head(todo) = todo[1] BY <1>1, <1>2
  <1>5. Tasks(todo, rt, board, radio, callbacks) BY <1>3 DEF RoleOk
  <1>6. TaskOk(todo[1], rt, board, radio, callbacks) BY <1>1, <1>2, <1>5, TasksTail
  <1> QED BY <1>1, <1>2, <1>3, <1>4, <1>6

(* A call does not move the mode, the link or an established role. *)
SameStation(b, r, b2, r2) ==
    /\ b2.mode = b.mode /\ b2.always_on = b.always_on /\ b2.power = b.power
    /\ r2.gap = "up" <=> r.gap = "up"
    /\ r2.conn = r.conn

LEMMA CallLeaves ==
  ASSUME Inv, AdvInv, NEW op \in CallOp, Doing(op),
         NEW b2, NEW r2, SameStation(board, radio, b2, r2)
  PROVE  /\ RoleOk(Tail(todo), rt, b2, r2, callbacks)
         /\ Tail(todo) \in Seq(Item)
         /\ Tail(todo) # <<>> => WaitsOk(Tail(todo)[1])
         /\ ~StopsNext(Tail(todo))
         /\ Wants(b2, r2, callbacks) => Wants(board, radio, callbacks)
         /\ /\ op # "advertise" /\ (op = "advertise_if_idle" => ~ret)
            /\ r2.adv = radio.adv \/ op = "stop_advertising"
            => Sought(Tail(todo), rt, b2, r2, callbacks, FALSE)
  <1>1. /\ todo # <<>> /\ todo \in Seq(Item) /\ todo[1].op = op
        /\ Sought(todo, rt, board, radio, callbacks, ret)
        /\ RoleOk(todo, rt, board, radio, callbacks)
    BY TurnSeeks
  <1>2. /\ Wants(b2, r2, callbacks) => Wants(board, radio, callbacks)
        /\ Undisturbed(rt, board, radio, callbacks, rt, b2, r2, callbacks)
    BY DEF SameStation, Wants, Undisturbed
  <1>3. (r2.gap = "up" => radio.gap = "up") /\ r2.conn = radio.conn BY DEF SameStation
  <1>4. /\ RoleOk(Tail(todo), rt, b2, r2, callbacks)
        /\ Tail(todo) # <<>> => WaitsOk(Tail(todo)[1])
        /\ Tail(todo) \in Seq(Item)
    BY <1>1, <1>2, <1>3, RolePop
  <1>5. ~StopsNext(Tail(todo)) BY <1>4 DEF StopsNext, WaitsOk
  <1>6. ASSUME op # "advertise", op = "advertise_if_idle" => ~ret,
               r2.adv = radio.adv \/ op = "stop_advertising"
        PROVE  Sought(Tail(todo), rt, b2, r2, callbacks, FALSE)
    <2>1. Tasks(todo, rt, board, radio, callbacks) BY <1>1 DEF RoleOk
    <2> QED BY <1>1, <1>2, <1>6, <2>1, SoughtPop
  <1> QED BY <1>2, <1>4, <1>5, <1>6

(* A call that only acts on the radio or the board. *)
LEMMA CallSeeks ==
  ASSUME Inv, AdvInv, NEW op \in CallOp, Doing(op),
         todo' = Tail(todo), UNCHANGED <<now, rt, timer, callbacks, ret>>,
         SameStation(board, radio, board', radio'),
         \/ radio'.adv = "on"
         \/ ~Wants(board, radio, callbacks)
         \/ /\ op # "advertise" /\ (op = "advertise_if_idle" => ~ret)
            /\ radio'.adv = radio.adv \/ op = "stop_advertising"
  PROVE  AdvInv'
  <1>1. /\ RoleOk(Tail(todo), rt, board', radio', callbacks)
        /\ ~StopsNext(Tail(todo))
        /\ Wants(board', radio', callbacks) => Wants(board, radio, callbacks)
        /\ /\ op # "advertise" /\ (op = "advertise_if_idle" => ~ret)
           /\ radio'.adv = radio.adv \/ op = "stop_advertising"
           => Sought(Tail(todo), rt, board', radio', callbacks, FALSE)
    BY CallLeaves
  <1>2. NotYet(timer, rt, now) BY TurnSeeks
  <1>3. Sought(Tail(todo), rt, board', radio', callbacks, FALSE)
    BY <1>1 DEF Sought
  <1>4. Sought(Tail(todo), rt, board', radio', callbacks, ret) BY <1>3, SoughtTold
  <1> QED BY <1>1, <1>2, <1>4 DEF AdvInv

(* A call that ends in a dispatch of its own. *)
LEMMA AnswerSeeks ==
  ASSUME Inv, AdvInv, NEW op \in {"start_role", "start_scan", "cancel_scan"}, Doing(op),
         NEW kind \in {"Ready", "StartResult", "CancelResult"}, NEW ok \in BOOLEAN,
         todo' = <<EventOk(kind, ok)>> \o Tail(todo),
         kind = "Ready" => op = "start_role",
         UNCHANGED <<now, rt, timer, board, callbacks, ret>>,
         SameStation(board, radio, board, radio'), radio'.adv = radio.adv
  PROVE  AdvInv'
  <1> DEFINE x == EventOk(kind, ok)
             s == Tail(todo)
  <1>1. op \in CallOp BY DEF CallOp
  <1>2. /\ RoleOk(s, rt, board, radio', callbacks)
        /\ s \in Seq(Item) /\ (s # <<>> => WaitsOk(s[1]))
        /\ Sought(s, rt, board, radio', callbacks, FALSE)
    BY <1>1, CallLeaves
  <1>3. /\ NotYet(timer, rt, now) /\ TaskOk(todo[1], rt, board, radio, callbacks)
        /\ todo[1].op = op
    BY TurnSeeks
  <1>4. x \in Item /\ x.op = "dispatch" /\ x.ev.kind = kind BY EventOkIs
  <1>5. kind = "Ready" => ~InWindow(rt) BY <1>3 DEF TaskOk, FailsRole
  <1>6. todo' = <<x>> \o s OBVIOUS
  <1> HIDE DEF x, s
  <1>7. TaskOk(x, rt, board, radio', callbacks) /\ ~Asks(x) /\ ~IsEvent(x, "Resume")
    BY <1>4, <1>5 DEF TaskOk, Asks, AsksBack, IsEvent, FailsRole, FailsReady
  <1>8. RoleOk(<<x>> \o s, rt, board, radio', callbacks) BY <1>2, <1>4, <1>7, RolePush
  <1>9. Sought(<<x>> \o s, rt, board, radio', callbacks, FALSE)
    BY <1>2, <1>4, SoughtPush
  <1>10. Sought(<<x>> \o s, rt, board, radio', callbacks, ret) BY <1>9, SoughtTold
  <1>11. board' = board /\ callbacks' = callbacks /\ rt' = rt /\ timer' = timer
         /\ now' = now /\ ret' = ret
    OBVIOUS
  <1> QED BY <1>3, <1>6, <1>8, <1>10, <1>11 DEF AdvInv

LEMMA ReturnSeeks == ASSUME Inv, AdvInv, RunReturn PROVE AdvInv'
  <1> DEFINE p == Tail(todo)
  <1>1. /\ Doing("return") /\ ret' = Head(todo).idle /\ todo' = p
        /\ UNCHANGED <<now, rt, timer, board, radio, callbacks>>
    BY DEF RunReturn
  <1>2. /\ todo # <<>> /\ todo \in Seq(Item)
        /\ Head(todo) = todo[1] /\ todo[1].op = "return"
        /\ Sought(todo, rt, board, radio, callbacks, ret)
        /\ RoleOk(todo, rt, board, radio, callbacks)
        /\ NotYet(timer, rt, now)
    BY <1>1, TurnSeeks
  <1>3. /\ Tasks(p, rt, board, radio, callbacks)
        /\ p # <<>> => WaitsOk(p[1])
    BY <1>2, TasksTail DEF RoleOk
  <1>4. ~StopsNext(p) /\ ~ResumesNext(p) BY <1>3 DEF StopsNext, ResumesNext, WaitsOk
  <1>5. ~StopsNext(todo) /\ ~ResumesNext(todo) /\ ~AdvertisesNext(todo)
    BY <1>2 DEF StopsNext, ResumesNext, AdvertisesNext, IsEvent
  <1>6. ASSUME Promised(todo) PROVE Promised(p) \/ (ret' /\ AdvertisesNext(p))
    <2>1. \/ Promised(p)
          \/ Grants(todo[1]) /\ AdvertisesNext(p)
      BY <1>2, <1>6, PromisedTail
    <2>2. Grants(todo[1]) => ret' BY <1>1, <1>2 DEF Grants, Asks
    <2> QED BY <2>1, <2>2
  <1> HIDE DEF p
  <1>7. Sought(p, rt, board, radio, callbacks, ret') BY <1>2, <1>4, <1>5, <1>6 DEF Sought
  <1>8. RoleOk(p, rt, board, radio, callbacks) BY <1>2, <1>3, <1>4, <1>5 DEF RoleOk
  <1> QED BY <1>1, <1>2, <1>7, <1>8 DEF AdvInv

LEMMA StartRoleSeeks == ASSUME Inv, AdvInv, RunStartRole PROVE AdvInv'
  <1>1. Doing("start_role") /\ UNCHANGED <<now, rt, timer, board, callbacks, ret>>
    BY DEF RunStartRole
  <1>2. PICK ok \in {TRUE, ~RolesMayFail} :
          /\ todo' = <<EventOk("Ready", ok)>> \o Tail(todo)
          /\ radio' = [radio EXCEPT !.gap = IF ok /\ @ = "down" THEN "starting" ELSE @]
    BY DEF RunStartRole
  <1>3. Types BY <1>1, TurnSeeks
  <1>4. SameStation(board, radio, board, radio') /\ radio'.adv = radio.adv
    BY <1>2, <1>3 DEF Types, RadioType, SameStation
  <1>5. ok \in BOOLEAN BY BadgeAssumption
  <1> QED BY <1>1, <1>2, <1>4, <1>5, AnswerSeeks

LEMMA StartScanSeeks == ASSUME Inv, AdvInv, RunStartScan PROVE AdvInv'
  <1>1. Doing("start_scan") /\ UNCHANGED <<now, rt, timer, board, callbacks, ret>>
    BY DEF RunStartScan
  <1>2. Types BY <1>1, TurnSeeks
  <1>3. PICK ok \in BOOLEAN :
          /\ radio' \in {radio, [radio EXCEPT !.disc = "scanning"]}
          /\ todo' = <<EventOk("StartResult", ok)>> \o Tail(todo)
    BY DEF RunStartScan
  <1>4. SameStation(board, radio, board, radio') /\ radio'.adv = radio.adv
    BY <1>2, <1>3 DEF Types, RadioType, SameStation
  <1> QED BY <1>1, <1>3, <1>4, AnswerSeeks

LEMMA CancelScanSeeks == ASSUME Inv, AdvInv, RunCancelScan PROVE AdvInv'
  <1> DEFINE idle == radio.disc = "idle"
  <1>1. /\ Doing("cancel_scan") /\ UNCHANGED <<now, rt, timer, board, callbacks, ret>>
        /\ radio' = [radio EXCEPT !.disc = IF @ = "idle" THEN "idle" ELSE "cancelling"]
        /\ todo' = <<EventOk("CancelResult", idle)>> \o Tail(todo)
    BY DEF RunCancelScan
  <1>2. Types BY <1>1, TurnSeeks
  <1>3. SameStation(board, radio, board, radio') /\ radio'.adv = radio.adv
    BY <1>1, <1>2 DEF Types, RadioType, SameStation
  <1>4. idle \in BOOLEAN OBVIOUS
  <1> HIDE DEF idle
  <1> QED BY <1>1, <1>3, <1>4, AnswerSeeks

LEMMA StopAdvertisingSeeks == ASSUME Inv, AdvInv, RunStopAdvertising PROVE AdvInv'
  <1>1. /\ Doing("stop_advertising") /\ radio' = Disabled(radio) /\ todo' = Tail(todo)
        /\ UNCHANGED <<now, rt, timer, board, callbacks, ret>>
    BY DEF RunStopAdvertising
  <1>2. Types /\ "stop_advertising" \in CallOp BY <1>1, TurnSeeks DEF CallOp
  <1>3. radio'.gap = radio.gap /\ radio'.conn = radio.conn
    BY <1>1, <1>2 DEF Disabled, Types, RadioType
  <1>4. SameStation(board, radio, board', radio') BY <1>1, <1>3 DEF SameStation
  <1> QED BY <1>1, <1>2, <1>4, CallSeeks

LEMMA DisconnectSeeks == ASSUME Inv, AdvInv, RunDisconnect PROVE AdvInv'
  <1>1. /\ Doing("disconnect") /\ todo' = Tail(todo)
        /\ radio' = [radio EXCEPT !.hangup = @ \/ board.handle]
        /\ UNCHANGED <<now, rt, timer, board, callbacks, ret>>
    BY DEF RunDisconnect
  <1>2. Types /\ "disconnect" \in CallOp BY <1>1, TurnSeeks DEF CallOp
  <1>3. radio'.gap = radio.gap /\ radio'.conn = radio.conn /\ radio'.adv = radio.adv
    BY <1>1, <1>2 DEF Types, RadioType
  <1>4. SameStation(board, radio, board', radio') BY <1>1, <1>3 DEF SameStation
  <1> QED BY <1>1, <1>2, <1>3, <1>4, CallSeeks

(* Advertising is restored only where the role state can be read: then the *)
(* controller tells it to a badge that wants to be found. *)
LEMMA AdvertiseSeeks ==
  ASSUME ~ReadsMayFail, Inv, AdvInv, RunAdvertise PROVE AdvInv'
  <1>1. /\ Doing("advertise") /\ todo' = Tail(todo)
        /\ UNCHANGED <<now, rt, timer, board, callbacks, ret>>
    BY DEF RunAdvertise
  <1>2. /\ Types /\ todo[1].op = "advertise"
        /\ TaskOk(todo[1], rt, board, radio, callbacks)
    BY <1>1, TurnSeeks
  <1>3. radio.gap = "up" /\ "advertise" \in CallOp BY <1>2 DEF TaskOk, CallOp
  <1>4. PICK in \in inputs("Tick") :
          radio' = IF /\ persistent_advertising /\ ~in.connected
                      /\ in.advertising # "unknown"
                   THEN Enabled(radio) ELSE radio
    BY DEF RunAdvertise
  <1>5. in.connected = radio.conn /\ in.advertising \in {"on", "off"}
    BY <1>3, <1>4 DEF inputs, Reading
  <1>6. Wants(board, radio, callbacks) => radio' = Enabled(radio)
    BY <1>4, <1>5 DEF Wants, persistent_advertising
  <1>7. radio' \in {radio, Enabled(radio)} BY <1>4
  <1>8. /\ radio'.gap = radio.gap /\ radio'.conn = radio.conn
        /\ Wants(board, radio, callbacks) => radio'.adv = "on"
    BY <1>2, <1>6, <1>7 DEF Enabled, Types, RadioType
  <1>9. SameStation(board, radio, board', radio') BY <1>1, <1>8 DEF SameStation
  <1> QED BY <1>1, <1>3, <1>8, <1>9, CallSeeks

LEMMA AdvertiseIfIdleSeeks == ASSUME Inv, AdvInv, RunAdvertiseIfIdle PROVE AdvInv'
  <1>1. /\ Doing("advertise_if_idle") /\ todo' = Tail(todo)
        /\ radio' = IF ret THEN Enabled(radio) ELSE radio
        /\ UNCHANGED <<now, rt, timer, board, callbacks, ret>>
    BY DEF RunAdvertiseIfIdle
  <1>2. Types /\ "advertise_if_idle" \in CallOp BY <1>1, TurnSeeks DEF CallOp
  <1>3. /\ radio'.gap = radio.gap /\ radio'.conn = radio.conn
        /\ IF ret THEN radio'.adv = "on" ELSE radio'.adv = radio.adv
    BY <1>1, <1>2 DEF Enabled, Types, RadioType
  <1>4. SameStation(board, radio, board', radio') BY <1>1, <1>3 DEF SameStation
  <1> QED BY <1>1, <1>2, <1>3, <1>4, CallSeeks

LEMMA HandoffSeeks == ASSUME Inv, AdvInv, RunShutdownIdle PROVE AdvInv'
  <1>1. PICK op \in {"shutdown_idle", "handoff_if_idle"} :
          /\ Doing(op) /\ board' \in {board, HandedOff(board)}
    BY DEF RunShutdownIdle
  <1>2. todo' = Tail(todo) /\ UNCHANGED <<now, rt, timer, radio, callbacks, ret>>
    BY DEF RunShutdownIdle
  <1>3. Types /\ op \in CallOp BY <1>1, TurnSeeks DEF CallOp
  <1>4. /\ board'.mode = board.mode /\ board'.always_on = board.always_on
        /\ board'.power = board.power
    BY <1>1, <1>3 DEF HandedOff, Types, BoardType
  <1>5. SameStation(board, radio, board', radio') /\ radio'.adv = radio.adv
    BY <1>2, <1>4 DEF SameStation
  <1> QED BY <1>1, <1>2, <1>3, <1>5, CallSeeks

LEMMA StreamingOnSeeks == ASSUME Inv, AdvInv, RunStreamingOn PROVE AdvInv'
  <1>1. /\ Doing("streaming_on") /\ todo' = Tail(todo)
        /\ board' = [board EXCEPT !.streaming = TRUE]
        /\ UNCHANGED <<now, rt, timer, radio, callbacks, ret>>
    BY DEF RunStreamingOn
  <1>2. Types /\ "streaming_on" \in CallOp BY <1>1, TurnSeeks DEF CallOp
  <1>3. /\ board'.mode = board.mode /\ board'.always_on = board.always_on
        /\ board'.power = board.power
    BY <1>1, <1>2 DEF Types, BoardType
  <1>4. SameStation(board, radio, board', radio') /\ radio'.adv = radio.adv
    BY <1>1, <1>3 DEF SameStation
  <1> QED BY <1>1, <1>2, <1>4, CallSeeks

-----------------------------------------------------------------------------
(* ... and dispatch().                                                     *)

(* The commands a step may leave. *)
Simple(actions) ==
    \/ actions = {}
    \/ \E op \in {"start_role", "stop_advertising", "disconnect", "start_scan",
                  "cancel_scan", "advertise", "shutdown_idle"} : actions = {op}
    \/ actions = {"stop_advertising", "disconnect"}

LEMMA MovesAreSimple ==
  ASSUME NEW m, NEW n, NEW t, NEW in, NEW ev, Moves(m, n, t, in, ev)
  PROVE  Simple(n.out.actions)
  <1> DEFINE a == n.out.actions
  <1>1. \/ a = {} \/ a = {"cancel_scan"} \/ a = {"start_scan"}
        \/ a \subseteq {"stop_advertising", "disconnect"}
        \/ a \in {{"start_role"}, {"advertise"}, {"shutdown_idle"}}
    BY DEF Moves, Stays, Cancels, Rests, Starts, RestingCalls
  <1> HIDE DEF a
  <1>2. ASSUME a \subseteq {"stop_advertising", "disconnect"}
        PROVE  \/ a = {} \/ a = {"stop_advertising"} \/ a = {"disconnect"}
               \/ a = {"stop_advertising", "disconnect"}
    BY <1>2
  <1>3. Simple(a) BY <1>1, <1>2 DEF Simple
  <1> QED BY <1>3 DEF a

(* What is to do: `now' is right, and goes on with `rest'. *)
GoesOn(s, rest, self, b, r, c) ==
    /\ s \in Seq(Item) /\ s # <<>>
    /\ Tasks(s, self, b, r, c) /\ ~ResumesNext(s)
    /\ Promised(rest) => Promised(s)

LEMMA CallGoesOn ==
  ASSUME NEW self, NEW b, NEW r, NEW c, NEW q, NEW rest,
         GoesOn(q, rest, self, b, r, c), WaitsOk(q[1]),
         NEW op \in CallOp,
         op = "start_role" => ~InWindow(self), op = "advertise" => r.gap = "up"
  PROVE  LET s == <<Call(op)>> \o q
         IN  /\ GoesOn(s, rest, self, b, r, c)
             /\ Promised(q) => Promised(s)
             /\ op = "advertise" => Promised(s)
             /\ s[1].op = op
             /\ op # "stop_advertising" => WaitsOk(s[1])
  <1> DEFINE x == Call(op)
             s == <<x>> \o q
  <1>1. x \in Item /\ x.op = op BY CallIs
  <1>2. op # "dispatch" BY DEF CallOp
  <1> HIDE DEF x
  <1>3. TaskOk(x, self, b, r, c) /\ ~Asks(x) /\ ~IsEvent(x, "Resume")
    BY <1>1, <1>2 DEF TaskOk, Asks, IsEvent, FailsRole
  <1>4. q \in Seq(Item) /\ Tasks(q, self, b, r, c) BY DEF GoesOn
  <1>5. s \in Seq(Item) /\ s # <<>> /\ s[1] = x BY <1>1, <1>4
  <1>6. Tasks(s, self, b, r, c) BY <1>1, <1>3, <1>4, TasksPush
  <1>7. (Promised(q) => Promised(s)) /\ (op = "advertise" => Promised(s))
    BY <1>1, <1>4, PromisedPush
  <1> HIDE DEF s
  <1>8. ~ResumesNext(s) BY <1>3, <1>5 DEF ResumesNext
  <1>9. GoesOn(s, rest, self, b, r, c) BY <1>5, <1>6, <1>7, <1>8 DEF GoesOn
  <1>10. op # "stop_advertising" => WaitsOk(s[1]) BY <1>1, <1>3, <1>5 DEF WaitsOk
  <1> QED BY <1>1, <1>5, <1>7, <1>9, <1>10 DEF s, x

(* dispatch() leaves its commands and its result before what waited. *)
LEMMA AfterGoesOn ==
  ASSUME NEW n, NEW s \in Seq(Item), s # <<>>,
         Simple(n.out.actions), n.out.radio_idle \in BOOLEAN,
         NEW self, NEW b, NEW r, NEW c, Tasks(Tail(s), self, b, r, c),
         Tail(s) # <<>> => WaitsOk(Tail(s)[1]),
         "start_role" \in n.out.actions => ~InWindow(self),
         "advertise" \in n.out.actions => r.gap = "up"
  PROVE  /\ GoesOn(After(n, s), Tail(s), self, b, r, c)
         /\ StopsNext(After(n, s)) => "stop_advertising" \in n.out.actions
         /\ n.out.radio_idle /\ AdvertisesNext(Tail(s)) => Promised(After(n, s))
         /\ "advertise" \in n.out.actions => Promised(After(n, s))
  <1> DEFINE back == [op |-> "return", idle |-> n.out.radio_idle]
             rest == Tail(s)
             tail == <<back>> \o rest
             after == Commands(n.out.actions) \o <<back>> \o rest
  <1>1. back \in Item /\ back.op = "return" /\ back.idle = n.out.radio_idle
    BY ReturnIs
  <1>2. rest \in Seq(Item) OBVIOUS
  <1>3. After(n, s) = after BY DEF After
  <1> HIDE DEF back, rest, after
  <1>4. /\ TaskOk(back, self, b, r, c) /\ ~Asks(back) /\ ~IsEvent(back, "Resume")
        /\ WaitsOk(back) /\ (back.idle => Grants(back))
    BY <1>1 DEF TaskOk, Asks, IsEvent, FailsRole, WaitsOk, Grants
  <1>5. tail \in Seq(Item) /\ tail # <<>> /\ tail[1] = back BY <1>1, <1>2
  <1>6. Tasks(tail, self, b, r, c) BY <1>1, <1>2, <1>4, TasksPush DEF rest
  <1>7. /\ Promised(rest) => Promised(tail)
        /\ n.out.radio_idle /\ AdvertisesNext(rest) => Promised(tail)
    BY <1>1, <1>2, <1>4, PromisedPush
  <1> HIDE DEF tail
  <1>8. GoesOn(tail, rest, self, b, r, c) /\ WaitsOk(tail[1])
    BY <1>4, <1>5, <1>6, <1>7 DEF GoesOn, ResumesNext
  <1>9. CASE n.out.actions = {}
    <2>1. Commands(n.out.actions) = <<>> BY <1>9, CommandsAre
    <2>2. after = <<>> \o <<back>> \o rest BY <2>1 DEF after
    <2>3. after = tail BY <1>1, <1>2, <2>2, PrependOne DEF tail
    <2>4. ~StopsNext(after) BY <1>8, <2>3 DEF StopsNext, WaitsOk
    <2> QED BY <1>3, <1>7, <1>8, <1>9, <2>3, <2>4 DEF rest
  <1>10. ASSUME NEW op \in {"start_role", "stop_advertising", "disconnect", "start_scan",
                            "cancel_scan", "advertise", "shutdown_idle"},
                n.out.actions = {op}
         PROVE  /\ GoesOn(after, rest, self, b, r, c)
                /\ Promised(tail) => Promised(after)
                /\ op = "advertise" => Promised(after)
                /\ StopsNext(after) => op = "stop_advertising"
    <2>1. Commands(n.out.actions) = <<Call(op)>> BY <1>10, CommandsAre
    <2>2. after = <<Call(op)>> \o <<back>> \o rest BY <2>1 DEF after
    <2>3. op \in CallOp /\ Call(op) \in Item BY CallIs DEF CallOp
    <2>4. after = <<Call(op)>> \o tail BY <1>1, <1>2, <2>2, <2>3, PrependOne DEF tail
    <2>5. /\ op = "start_role" => ~InWindow(self)
          /\ op = "advertise" => r.gap = "up"
      BY <1>10
    <2> QED BY <1>8, <2>3, <2>4, <2>5, CallGoesOn DEF StopsNext
  <1>11. ASSUME n.out.actions = {"stop_advertising", "disconnect"}
         PROVE  /\ GoesOn(after, rest, self, b, r, c)
                /\ Promised(tail) => Promised(after)
    <2> DEFINE x == Call("stop_advertising")
               y == Call("disconnect")
               later == <<y>> \o tail
               p == <<x, y>>
    <2>1. /\ x \in Item /\ y \in Item
          /\ "stop_advertising" \in CallOp /\ "disconnect" \in CallOp
      BY CallIs DEF CallOp
    <2>2. Commands(n.out.actions) = p BY <1>11, CommandsAre
    <2>3. after = p \o <<back>> \o rest BY <2>2 DEF after
    <2>4. p = <<x>> \o <<y>> BY TwoAre
    <2>5. /\ GoesOn(later, rest, self, b, r, c) /\ WaitsOk(later[1])
          /\ Promised(tail) => Promised(later)
      BY <1>8, <2>1, CallGoesOn
    <2> HIDE DEF later, p
    <2>6. /\ GoesOn(<<x>> \o later, rest, self, b, r, c)
          /\ Promised(later) => Promised(<<x>> \o later)
      BY <2>1, <2>5, CallGoesOn
    <2> HIDE DEF x, y
    <2>7. after = <<x>> \o later
      BY <1>1, <1>2, <2>1, <2>3, <2>4, PrependTwo DEF tail, later
    <2> QED BY <2>5, <2>6, <2>7
  <1> QED BY <1>3, <1>7, <1>9, <1>10, <1>11 DEF Simple, rest

(* The inputs of a controller whose state can be read. *)
LEMMA InputsTell ==
  ASSUME ~ReadsMayFail, NEW kind, NEW in \in inputs(kind), Types
  PROVE  /\ in.connected = radio.conn
         /\ in.wants_advertising = persistent_advertising
         /\ in.advertising # "unknown" => radio.gap = "up"
  <1> DEFINE advertising == IF kind = "Report" \/ radio.gap # "up" THEN "unknown"
                            ELSE IF radio.adv = "off" THEN "off" ELSE "on"
  <1>1. in = Reading(radio.conn, advertising) BY DEF inputs
  <1>2. advertising # "unknown" => radio.gap = "up" OBVIOUS
  <1> HIDE DEF advertising
  <1>3. in.connected = radio.conn /\ in.advertising = advertising
        /\ in.wants_advertising = persistent_advertising
    BY <1>1 DEF Reading
  <1> QED BY <1>2, <1>3

(* A dispatch whose turn has come, and what its step has done. *)
Turns(self, n, t, in, s, b, r, c, told, w) ==
    /\ s \in Seq(Item) /\ s # <<>> /\ s[1].op = "dispatch"
    /\ s[1].ev.kind = "Tick" => Tail(s) = <<>>
    /\ Sought(s, self, b, r, c, told) /\ RoleOk(s, self, b, r, c)
    /\ NotYet(w, self, t)
    /\ in.connected = r.conn /\ (in.advertising # "unknown" => r.gap = "up")
    /\ Wants(b, r, c) => in.wants_advertising
    /\ Moves(Begin(self), n, t, in, s[1].ev)
    /\ Pays(self, n, t, in, s[1].ev)
    /\ AsksBack(s[1].ev) /\ ~self.shutdown => Owes(n.self) \/ n.out.radio_idle
    /\ n.out.radio_idle \in BOOLEAN

LEMMA TurnsNotYet ==
  ASSUME NEW self, NEW n, NEW t, NEW in, NEW s, NEW b, NEW r, NEW c, NEW told, NEW w,
         Turns(self, n, t, in, s, b, r, c, told, w),
         NEW w2, w2.start = w.start
  PROVE  NotYet(w2, n.self, t)
  <1> DEFINE ev == s[1].ev
  <1>1. /\ NotYet(w, self, t) /\ Moves(Begin(self), n, t, in, ev)
        /\ Pays(self, n, t, in, ev)
    BY DEF Turns
  <1>2. Begin(self).self = self BY DEF Begin
  <1> HIDE DEF ev
  <1>3. SUFFICES ASSUME w.start PROVE ~InWindow(n.self) /\ Fresh(n.self, t)
    BY DEF NotYet
  <1>4. ~InWindow(self) /\ Fresh(self, t) BY <1>1, <1>3 DEF NotYet
  <1>5. ~Opens(self, t, in, ev) BY <1>4 DEF Opens, Fresh
  <1>6. ~InWindow(n.self) BY <1>1, <1>4, <1>5 DEF Pays
  <1>7. Fresh(n.self, t)
    <2>1. CASE Stays(Begin(self), n)
      <3>1. n.self.phase = self.phase BY <1>2, <2>1 DEF Stays
      <3> QED BY <1>4, <3>1 DEF Fresh
    <2>2. CASE Cancels(n) BY <1>6, <2>2 DEF Cancels, InWindow
    <2>3. CASE Rests(n, t, in) BY <2>3 DEF Rests
    <2>4. CASE Starts(Begin(self), n, t, in) BY <1>6, <2>4 DEF Starts, InWindow
    <2> QED BY <1>1, <2>1, <2>2, <2>3, <2>4 DEF Moves
  <1> QED BY <1>6, <1>7

LEMMA TurnsGoOn ==
  ASSUME NEW self, NEW n, NEW t, NEW in, NEW s, NEW b, NEW r, NEW c, NEW told, NEW w,
         Turns(self, n, t, in, s, b, r, c, told, w)
  PROVE  /\ RoleOk(After(n, s), n.self, b, r, c)
         /\ GoesOn(After(n, s), Tail(s), n.self, b, r, c)
         /\ StopsNext(After(n, s)) => "stop_advertising" \in n.out.actions
         /\ n.out.radio_idle /\ AdvertisesNext(Tail(s)) => Promised(After(n, s))
         /\ "advertise" \in n.out.actions => Promised(After(n, s))
         /\ Asks(s[1]) => AdvertisesNext(Tail(s))
         /\ TaskOk(s[1], self, b, r, c)
         /\ ResumesNext(s) <=> s[1].ev.kind = "Resume"
  <1> DEFINE ev == s[1].ev
             rest == Tail(s)
             after == After(n, s)
  <1>1. /\ s \in Seq(Item) /\ s # <<>> /\ s[1].op = "dispatch"
        /\ ev.kind = "Tick" => rest = <<>>
        /\ RoleOk(s, self, b, r, c)
        /\ in.advertising # "unknown" => r.gap = "up"
        /\ Moves(Begin(self), n, t, in, ev)
        /\ Pays(self, n, t, in, ev)
        /\ n.out.radio_idle \in BOOLEAN
    BY DEF Turns
  <1>2. /\ self.shutdown => b.mode = "POWER_OFF" \/ ResumesNext(s)
        /\ InWindow(self) \/ Debt(self) => r.gap = "up"
        /\ InWindow(self) => self.ready
        /\ c.init = "fail" => r.gap # "up"
        /\ c.links # <<>> => (r.conn <=> c.links[Len(c.links)] = "up")
        /\ Tasks(s, self, b, r, c)
    BY <1>1 DEF RoleOk
  <1>3. /\ Tasks(rest, self, b, r, c)
        /\ TaskOk(s[1], self, b, r, c)
        /\ rest # <<>> => WaitsOk(rest[1])
        /\ Asks(s[1]) => AdvertisesNext(rest)
    BY <1>1, <1>2, TasksTail
  <1>4. ResumesNext(s) <=> ev.kind = "Resume" BY <1>1 DEF ResumesNext, IsEvent
  <1>5. ev.kind = "Shutdown" => b.mode = "POWER_OFF"
    BY <1>1, <1>3 DEF TaskOk, IsEvent
  <1>6. FailsReady(ev) => ~InWindow(self) BY <1>1, <1>3 DEF TaskOk, FailsRole
  <1> HIDE DEF ev, after
  <1>7. n.self.shutdown => b.mode = "POWER_OFF" BY <1>1, <1>2, <1>4, <1>5 DEF Pays
  <1>8. InWindow(n.self) => n.self.ready BY <1>1, <1>2, <1>6 DEF Pays
  <1>9. InWindow(n.self) \/ Debt(n.self) => r.gap = "up"
    BY <1>1, <1>2 DEF Pays, Opens
  <1>10. Tasks(rest, n.self, b, r, c)
    <2>1. CASE InWindow(n.self) => InWindow(self)
      <3>1. Undisturbed(self, b, r, c, n.self, b, r, c) BY <2>1 DEF Undisturbed
      <3> QED BY <1>3, <3>1, TasksStay
    <2>2. CASE ~(InWindow(n.self) => InWindow(self))
      <3>1. ev.kind = "Tick" BY <1>1, <2>2 DEF Pays, Opens
      <3> QED BY <1>1, <3>1, TasksNone
    <2> QED BY <2>1, <2>2
  <1>11. Simple(n.out.actions) BY <1>1, MovesAreSimple
  <1>12. /\ "start_role" \in n.out.actions => ~InWindow(n.self)
         /\ "advertise" \in n.out.actions => r.gap = "up"
    BY <1>1, <1>2 DEF Pays
  <1>13. /\ GoesOn(after, rest, n.self, b, r, c)
         /\ StopsNext(after) => "stop_advertising" \in n.out.actions
         /\ n.out.radio_idle /\ AdvertisesNext(rest) => Promised(after)
         /\ "advertise" \in n.out.actions => Promised(after)
    BY <1>1, <1>3, <1>10, <1>11, <1>12, AfterGoesOn DEF after
  <1>14. RoleOk(after, n.self, b, r, c)
    BY <1>2, <1>7, <1>8, <1>9, <1>13 DEF RoleOk, GoesOn
  <1> QED BY <1>3, <1>4, <1>13, <1>14 DEF after, ev

(* What a badge that wants to be found is owed, it is still owed after the *)
(* step, or the step's own commands and its caller pay it. *)
LEMMA TurnsSeek ==
  ASSUME NEW self, NEW n, NEW t, NEW in, NEW s, NEW b, NEW r, NEW c, NEW told, NEW w,
         Turns(self, n, t, in, s, b, r, c, told, w)
  PROVE  Sought(After(n, s), n.self, b, r, c, told)
  <1> DEFINE ev == s[1].ev
             rest == Tail(s)
             after == After(n, s)
  <1>1. /\ s \in Seq(Item) /\ s # <<>> /\ s[1].op = "dispatch"
        /\ Sought(s, self, b, r, c, told) /\ RoleOk(s, self, b, r, c)
        /\ in.connected = r.conn
        /\ Wants(b, r, c) => in.wants_advertising
        /\ Pays(self, n, t, in, ev)
        /\ AsksBack(ev) /\ ~self.shutdown => Owes(n.self) \/ n.out.radio_idle
    BY DEF Turns
  <1>2. /\ RoleOk(after, n.self, b, r, c)
        /\ GoesOn(after, rest, n.self, b, r, c)
        /\ StopsNext(after) => "stop_advertising" \in n.out.actions
        /\ n.out.radio_idle /\ AdvertisesNext(rest) => Promised(after)
        /\ "advertise" \in n.out.actions => Promised(after)
        /\ Asks(s[1]) => AdvertisesNext(rest)
        /\ TaskOk(s[1], self, b, r, c)
        /\ ResumesNext(s) <=> ev.kind = "Resume"
    BY TurnsGoOn
  <1>3. /\ Asks(s[1]) <=> AsksBack(ev)
        /\ ev.kind = "Suspend" /\ ~ev.ok => ~Wants(b, r, c)
        /\ ev.kind = "Shutdown" => b.mode = "POWER_OFF"
        /\ FailsReady(ev) => ~InWindow(self)
        /\ ~AdvertisesNext(s)
    BY <1>1, <1>2 DEF Asks, TaskOk, IsEvent, FailsRole, AdvertisesNext
  <1> HIDE DEF ev, after
  <1>4. SUFFICES ASSUME Wants(b, r, c)
                 PROVE  \/ r.adv = "on" /\ ~StopsNext(after)
                        \/ Promised(after) \/ Owes(n.self)
    BY DEF Sought, after
  <1>5. b.mode # "POWER_OFF" /\ in.wants_advertising /\ ~in.connected
    BY <1>1, <1>4 DEF Wants
  <1>6. ~n.self.shutdown BY <1>2, <1>5 DEF RoleOk, GoesOn
  <1>7. ~self.shutdown \/ ev.kind = "Resume" BY <1>1, <1>2, <1>5 DEF RoleOk
  <1>8. Promised(rest) => Promised(after) BY <1>2 DEF GoesOn
  <1>9. CASE AsksBack(ev)
    <2>1. ev.kind # "Resume" BY <1>9 DEF AsksBack
    <2> QED BY <1>1, <1>2, <1>3, <1>7, <1>9, <2>1
  <1>10. CASE Promised(s) /\ ~AsksBack(ev)
    <2>1. ~Grants(s[1]) BY <1>1, <1>3, <1>10 DEF Grants
    <2>2. Promised(rest) BY <1>1, <1>10, <2>1, PromisedTail
    <2> QED BY <1>8, <2>2
  <1>11. CASE r.adv = "on"
    <2>1. "stop_advertising" \in n.out.actions => Owes(n.self)
      BY <1>1, <1>6 DEF Pays, Owes, InWindow, Debt
    <2> QED BY <1>2, <1>11, <2>1
  <1>12. CASE Owes(self) /\ ~AsksBack(ev)
    <2>1. self.ready /\ InWindow(self) BY <1>1, <1>12 DEF RoleOk, Owes
    <2>2. CASE ev.kind = "Resume" BY <1>1, <1>2, <1>4, <1>10, <1>12, <2>2 DEF RoleOk
    <2>3. CASE ev.kind # "Resume"
      <3>1. Calm(ev) BY <1>3, <1>4, <1>5, <1>12, <2>1, <2>3 DEF Calm, AsksBack
      <3>2. Owes(n.self) \/ "advertise" \in n.out.actions
        BY <1>1, <1>5, <1>7, <1>12, <2>1, <2>3, <3>1 DEF Pays
      <3> QED BY <1>2, <3>2
    <2> QED BY <2>2, <2>3
  <1> QED BY <1>1, <1>3, <1>4, <1>9, <1>10, <1>11, <1>12 DEF Sought

LEMMA DispatchSeeks ==
  ASSUME ~ReadsMayFail, Inv, AdvInv, RunDispatch PROVE AdvInv'
  <1> DEFINE ev == Head(todo).ev
  <1>1. Doing("dispatch") BY DEF RunDispatch, Doing
  <1>2. /\ Types /\ On /\ todo # <<>> /\ todo \in Seq(Item)
        /\ Head(todo) = todo[1] /\ todo[1].op = "dispatch"
        /\ Sought(todo, rt, board, radio, callbacks, ret)
        /\ RoleOk(todo, rt, board, radio, callbacks)
        /\ NotYet(timer, rt, now)
    BY <1>1, TurnSeeks
  <1>3. /\ rt \in RuntimeType /\ now \in Time
        /\ rt.phase.k # "Scanning" => rt.counter = EmptyCounter
        /\ ev \in EventType
        /\ IsEvent(todo[1], "Tick") => Len(todo) = 1
    <2>1. /\ TodoOk(todo, rt, board, radio, callbacks, ret)
      BY <1>2 DEF Inv
    <2>2. /\ Head(todo) \in Item
          /\ HeadOk(todo, rt, board, radio, callbacks, ret)
      BY <1>2, <2>1, ChainTail DEF TodoOk
    <2>3. ev \in EventType BY <1>2, <2>2 DEF Item, CallOp
    <2> QED BY <1>2, <2>2, <2>3 DEF Types, HeadOk
  <1>4. PICK in \in inputs(ev.kind) :
          LET m == Step(rt, now, in, ev)
          IN  /\ rt' = m.self
              /\ IF "reset_off" \in m.out.actions
                 THEN /\ board' = [board EXCEPT !.power = "reset"]
                      /\ todo' = <<>>
                      /\ UNCHANGED timer
                 ELSE /\ timer' \in Rearmed(ev.kind, m.out.wake_after)
                      /\ todo' = Commands(m.out.actions)
                                   \o <<[op |-> "return", idle |-> m.out.radio_idle]>>
                                   \o Tail(todo)
                      /\ UNCHANGED board
    BY DEF RunDispatch
  <1> DEFINE n == Step(rt, now, in, ev)
  <1>5. UNCHANGED <<now, radio, callbacks, ret>> /\ rt' = n.self
    BY <1>4 DEF RunDispatch
  <1>6. CASE "reset_off" \in n.out.actions
    <2>1. board' = [board EXCEPT !.power = "reset"] BY <1>4, <1>6
    <2>2. board'.power = "reset" BY <1>2, <2>1 DEF Types, BoardType
    <2> QED BY <2>2 DEF AdvInv, On
  <1>7. CASE "reset_off" \notin n.out.actions
    <2>1. /\ timer' \in Rearmed(ev.kind, n.out.wake_after)
          /\ todo' = After(n, todo) /\ board' = board
      BY <1>4, <1>7 DEF After
    <2>2. in \in AllInputs BY <1>2, InputsAre
    <2>3. /\ in.connected = radio.conn
          /\ in.wants_advertising = persistent_advertising
          /\ in.advertising # "unknown" => radio.gap = "up"
      BY <1>2, InputsTell
    <2>4. Wants(board, radio, callbacks) => persistent_advertising
      BY DEF Wants, persistent_advertising
    <2>5. InWindow(rt) => rt.ready BY <1>2 DEF RoleOk
    <2>6. /\ Pays(rt, n, now, in, ev)
          /\ AsksBack(ev) /\ ~rt.shutdown => Owes(n.self) \/ n.out.radio_idle
      BY <1>3, <1>7, <2>2, <2>5, StepPays
    <2>7. Moves(Begin(rt), n, now, in, ev)
      BY <1>3, <1>7, <2>2, StepMoves DEF StepIs
    <2>8. n.out.radio_idle \in BOOLEAN
      BY <1>3, <2>2, StepSound DEF Sound, MachineType, OutputType
    <2>9. timer'.start = timer.start
      <3>1. timer \in TimerType BY <1>2 DEF Types
      <3> QED BY <2>1, <3>1 DEF Rearmed, Armed, TimerType
    <2>10. ev.kind = "Tick" => Tail(todo) = <<>>
      <3> DEFINE p == Tail(todo)
      <3>1. p \in Seq(Item) /\ Len(p) = Len(todo) - 1 BY <1>2
      <3>2. ev.kind = "Tick" => Len(todo) = 1 BY <1>2, <1>3 DEF IsEvent
      <3> HIDE DEF p
      <3>3. ASSUME Len(p) = 0 PROVE p = <<>> BY <3>1, <3>3
      <3>4. ev.kind = "Tick" => p = <<>> BY <3>1, <3>2, <3>3
      <3> QED BY <3>4 DEF p
    <2> HIDE DEF n
    <2>11. Turns(rt, n, now, in, todo, board, radio, callbacks, ret, timer)
      BY <1>2, <2>3, <2>4, <2>6, <2>7, <2>8, <2>10 DEF Turns
    <2>12. NotYet(timer', n.self, now) BY <2>9, <2>11, TurnsNotYet
    <2>13. RoleOk(After(n, todo), n.self, board, radio, callbacks)
      BY <2>11, TurnsGoOn
    <2>14. Sought(After(n, todo), n.self, board, radio, callbacks, ret)
      BY <2>11, TurnsSeek
    <2> QED BY <1>5, <2>1, <2>12, <2>13, <2>14 DEF AdvInv
  <1> QED BY <1>6, <1>7

LEMMA NextSeeks ==
  ASSUME ~ReadsMayFail, Inv, AdvInv, [Next]_vars PROVE AdvInv'
  <1>1. CASE RunTodo
    BY <1>1, DispatchSeeks, ReturnSeeks, StartRoleSeeks, StopAdvertisingSeeks,
       DisconnectSeeks, StartScanSeeks, CancelScanSeeks, AdvertiseSeeks,
       HandoffSeeks, AdvertiseIfIdleSeeks, StreamingOnSeeks
       DEF RunTodo
  <1>2. CASE Handlers
    BY <1>2, StartTaskSeeks, WakeSeeks, EnterShutdownSeeks,
       InitDoneSeeks, DiscoveryEventSeeks, LinkUpSeeks, LinkDownSeeks
       DEF Handlers
  <1>3. CASE Owner
    BY <1>3, ButtonSeeks, UploadDoneSeeks, StreamingEnterSeeks,
       StreamingExitSeeks DEF Owner
  <1>4. CASE Surroundings
    BY <1>4, DeviceInfoSeeks, RadioUpSeeks, AdvertisingStopsSeeks, ConnectSeeks,
       LinkDropsSeeks, DiscoveryEndsSeeks, AdvanceSeeks, PowerUpSeeks
       DEF Surroundings, PeerLeaves, HungUp
  <1>5. CASE UNCHANGED vars BY <1>5, StutterSeeks
  <1> QED BY <1>1, <1>2, <1>3, <1>4, <1>5 DEF Next

(* A badge that wants to be found is found again after every scan,         *)
(* connection or aborted window: when TMOS rests, nobody is connected and  *)
(* no scan is under way, it advertises, whatever was refused, lost, nested *)
(* or suspended before, as long as the controller's state can be read      *)
(* (finish, FA_ADVERTISE and the callers of suspend). *)
THEOREM AdvertisingReturns ==
  ~ReadsMayFail => (Spec => []AdvertisingComesBack)
  <1> SUFFICES ASSUME ~ReadsMayFail PROVE Spec => []AdvertisingComesBack
    OBVIOUS
  <1>1. Init => Inv /\ AdvInv BY InitInv, InitSeeks
  <1>2. (Inv /\ AdvInv) /\ [Next]_vars => (Inv /\ AdvInv)' BY NextKeeps, NextSeeks
  <1>3. Inv /\ AdvInv => AdvertisingComesBack
    <2> SUFFICES ASSUME Inv, AdvInv, Settled, persistent_advertising, ~radio.conn,
                        rt.phase.k \in {"Waiting", "Offline"}
                 PROVE  radio.adv = "on"
      BY DEF AdvertisingComesBack
    <2>1. Idle /\ callbacks.links = <<>> BY DEF Settled
    <2>2. On /\ Sought(<<>>, rt, board, radio, callbacks, ret) BY <2>1, IdleSeeks
    <2>3. Wants(board, radio, callbacks)
      BY <2>1, <2>2 DEF Wants, On, persistent_advertising
    <2>4. ~Owes(rt) BY DEF Owes, InWindow
    <2>5. ~Promised(<<>>) /\ ~AdvertisesNext(<<>>)
      <3>1. Len(<<>>) = 0 OBVIOUS
      <3> QED BY <3>1 DEF Promised, AdvertisesNext
    <2> QED BY <2>2, <2>3, <2>4, <2>5 DEF Sought
  <1> QED BY <1>1, <1>2, <1>3, PTL DEF Spec
=============================================================================
