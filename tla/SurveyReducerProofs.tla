------------------------ MODULE SurveyReducerProofs ------------------------
(***************************************************************************)
(* What the survey reducer does under any events, for every value of the   *)
(* constants.  A step is a pipeline of operators over m = [self, out].     *)
(* SurveyRuntimeProofs takes its types through all stages (Sound); the     *)
(* parts below do so with                                                  *)
(*   Gathered  what a scan has heard survives, or the scan is over;        *)
(*   Drains    under a shutdown nothing puts the radio to work;            *)
(*   Near      deadlines lie less than half a turn of the clock ahead.     *)
(* A whole step is then described by Survey, StepShows, StepDrains and     *)
(* StepTimes, from which the theorems follow.                              *)
(***************************************************************************)
EXTENDS SurveyReducer, SurveyRuntimeProofs

-----------------------------------------------------------------------------
(* The specification steps by steps of the reducer.                        *)

(* Every event action is one Do, of an input and an event of the interface. *)
LEMMA DoIsTheStep ==
  ASSUME \/ Tick \/ Ready \/ StartResult \/ CancelResult \/ Complete \/ Report
         \/ SuspendRequest \/ Shutdown \/ Resume \/ View
  PROVE  \E in \in AllInputs, ev \in EventType : Do(in, ev)
  <1>1. Inputs \subseteq AllInputs BY ReducerAssumption
  <1>2. CASE Tick BY <1>1, <1>2 DEF Tick, EventType
  <1>3. CASE Ready BY <1>1, <1>3 DEF Ready, EventType
  <1>4. CASE StartResult BY <1>1, <1>4 DEF StartResult, EventType
  <1>5. CASE CancelResult BY <1>1, <1>5 DEF CancelResult, EventType
  <1>6. CASE Complete BY <1>1, <1>6 DEF Complete, EventType
  <1>7. CASE Report BY <1>1, <1>7 DEF Report, EventType
  <1>8. CASE SuspendRequest BY <1>1, <1>8 DEF SuspendRequest, EventType
  <1>9. CASE Shutdown BY <1>1, <1>9 DEF Shutdown, EventType
  <1>10. CASE Resume BY <1>1, <1>10 DEF Resume, EventType
  <1>11. CASE View BY <1>1, <1>11 DEF View, EventType
  <1> QED BY <1>2, <1>3, <1>4, <1>5, <1>6, <1>7, <1>8, <1>9, <1>10, <1>11

Inv == TypeOK /\ WipedOutsideScan

LEMMA InitInv == Init => Inv
  BY NewRuntimeType, NoOutputType, NoFrameType, ReducerAssumption
     DEF Init, Inv, TypeOK, WipedOutsideScan

LEMMA DoInv ==
  ASSUME Inv, NEW in \in AllInputs, NEW ev \in EventType, Do(in, ev)
  PROVE  Inv'
  <1> DEFINE m == Step(rt, now, in, ev)
  <1>1. Sound(m) BY StepSound DEF Inv, TypeOK, WipedOutsideScan
  <1> HIDE DEF m
  <1>2. /\ rt' = m.self /\ out' = m.out /\ now' = now
        /\ screen' = Displayed(screen, m.out)
        /\ heard' \in {heard \cup Accepted(in, ev), {}}
    BY DEF Do, m
  <1>3. m.self \in RuntimeType /\ m.out \in OutputType BY <1>1 DEF Sound, MachineType
  <1>4. screen' \in Frame
    BY <1>2, <1>3, NoFrameType DEF Displayed, OutputType, Inv, TypeOK
  <1>5. heard' \subseteq Address \X (Detection \cup {NoDetection})
    <2>1. Accepted(in, ev) \subseteq Address \X (Detection \cup {NoDetection})
      BY DEF Accepted, EventType
    <2> QED BY <1>2, <2>1 DEF Inv, TypeOK
  <1>6. WipedOutsideScan' BY <1>1, <1>2 DEF Sound, Wiped, WipedOutsideScan
  <1>7. turned' \in BOOLEAN BY DEF Do
  <1> QED BY <1>2, <1>3, <1>4, <1>5, <1>6, <1>7 DEF Inv, TypeOK

LEMMA NextInv == Inv /\ [Next]_vars => Inv'
  <1> SUFFICES ASSUME Inv, [Next]_vars PROVE Inv'
    OBVIOUS
  <1>1. CASE \/ Tick \/ Ready \/ StartResult \/ CancelResult \/ Complete \/ Report
             \/ SuspendRequest \/ Shutdown \/ Resume \/ View
    BY <1>1, DoIsTheStep, DoInv
  <1>2. CASE Advance
    <2>1. now' \in Time
      <3>1. PICK d \in 1 .. STRIDE : now' = Wadd(now, d) BY <1>2 DEF Advance
      <3> QED BY <3>1, WaddType, ZeroIsTime, ReducerAssumption DEF Inv, TypeOK
    <2> QED BY <1>2, <2>1 DEF Advance, Inv, TypeOK, WipedOutsideScan
  <1>3. CASE Reboot
    <2>1. rt.frogs \in BOOLEAN BY DEF Inv, TypeOK, RuntimeType
    <2> QED BY <1>3, <2>1, NewRuntimeType, NoOutputType, NoFrameType
            DEF Reboot, Inv, TypeOK, WipedOutsideScan
  <1>4. CASE UNCHANGED vars
    BY <1>4 DEF vars, Inv, TypeOK, WipedOutsideScan
  <1> QED BY <1>1, <1>2, <1>3, <1>4 DEF Next

(* Whatever the events, their order and their times, every variable of the *)
(* reducer and everything it returns keeps its type: no deadline leaves    *)
(* the clock, no frame or command is made up (Runtime::step).              *)
THEOREM TypeCorrect == Spec => []TypeOK
  <1>1. Inv => TypeOK BY DEF Inv
  <1> QED BY <1>1, InitInv, NextInv, PTL DEF Spec

(* Whatever the events, their order and their times, the address table is  *)
(* empty outside a scan, with any number of addresses and slots            *)
(* (ScanCounter::clear and all its callers in Runtime::step).              *)
THEOREM AddressesAreWiped == Spec => []WipedOutsideScan
  <1>1. Inv => WipedOutsideScan BY DEF Inv
  <1> QED BY <1>1, InitInv, NextInv, PTL DEF Spec

-----------------------------------------------------------------------------
(* The events.                                                             *)

(* What a scan has gathered survives a stage, or the scan is over; and a   *)
(* stage that is no report raises no alert.                                *)
Gathered(m, n) ==
    /\ n.self.phase.k = "Scanning" => /\ m.self.phase.k = "Scanning"
                                      /\ n.self.counter = m.self.counter
    /\ n.self.detected = m.self.detected
    /\ n.self.alert \in {m.self.alert, NoAlert}

(* The display is left alone. *)
KeepsScreen(m, n) == n.self.last_frame = m.self.last_frame

LEMMA NotScanning == "Scanning" \notin Idling \cup {"Cancelling"}
  BY DEF Idling

LEMMA FinishGathers ==
  ASSUME NEW m \in MachineType, NEW in \in AllInputs, NEW t \in Time, NEW ok \in BOOLEAN
  PROVE  /\ Gathered(m, Finish(m, t, ok, in))
         /\ Finish(m, t, ok, in).self.phase.k # "Scanning"
         /\ KeepsScreen(m, Finish(m, t, ok, in))
  BY FinishKeeps, NotScanning DEF Gathered, KeepsScreen, Kept

LEMMA SuspendGathers ==
  ASSUME NEW m \in MachineType, NEW in \in AllInputs, NEW t \in Time, NEW after \in BOOLEAN
  PROVE  /\ Gathered(m, Suspend(m, t, after, in))
         /\ Suspend(m, t, after, in).self.phase.k # "Scanning"
         /\ KeepsScreen(m, Suspend(m, t, after, in))
  BY SuspendKeeps, NotScanning DEF Gathered, KeepsScreen, Kept

LEMMA OnReadyGathers ==
  ASSUME NEW m \in MachineType, NEW in \in AllInputs, NEW t \in Time, NEW ok \in BOOLEAN
  PROVE  LET n == OnReady(m, t, in, ok)
         IN  /\ Gathered(m, n) /\ KeepsScreen(m, n)
             /\ n.self.completed = m.self.completed
             /\ n.self.shutdown = m.self.shutdown
  <1> DEFINE known == [m EXCEPT !.self.ready = ok]
             n == OnReady(m, t, in, ok)
  <1>1. /\ known \in MachineType
        /\ Kept(m, known)
        /\ known.self.alert = m.self.alert
        /\ known.self.counter = m.self.counter
        /\ known.self.completed = m.self.completed
        /\ known.self.phase = m.self.phase
    BY DEF Kept, MachineType, RuntimeType
  <1>2. Wadd(t, FIRST) \in Time /\ Wadd(t, RETRY) \in Time BY DeadlineType
  <1>3. n \in {known, Suspend(known, t, FALSE, in), Enter(known, "Waiting", Wadd(t, FIRST)),
               Enter(known, "Offline", Wadd(t, RETRY))}
    BY DEF OnReady
  <1> HIDE DEF known, n
  <1>4. CASE n = known
    BY <1>1, <1>4 DEF Gathered, KeepsScreen, Kept, n
  <1>5. CASE n = Suspend(known, t, FALSE, in)
    <2>1. n.self.phase.k # "Scanning" /\ Kept(known, n) /\ n.self.alert = NoAlert
      BY <1>1, <1>5, SuspendKeeps, NotScanning
    <2>2. n.self.completed = m.self.completed BY <1>1, <1>5, SuspendKeeps
    <2> QED BY <1>1, <2>1, <2>2 DEF Gathered, KeepsScreen, Kept, n
  <1>6. ASSUME NEW k \in {"Waiting", "Offline"}, NEW at \in Time, n = Enter(known, k, at)
        PROVE  /\ Gathered(m, n) /\ KeepsScreen(m, n)
               /\ n.self.completed = m.self.completed
               /\ n.self.shutdown = m.self.shutdown
    <2>1. k \in PhaseKind /\ k # "Scanning" BY DEF PhaseKind
    <2>2. n.self.phase.k = k BY <1>1, <1>6, <2>1, EnterKeeps
    <2>3. Kept(known, n) /\ n.self.alert = m.self.alert /\ n.self.completed = m.self.completed
      BY <1>1, <1>6, <2>1, EnterKeeps
    <2> QED BY <1>1, <2>1, <2>2, <2>3 DEF Gathered, KeepsScreen, Kept
  <1> QED BY <1>2, <1>3, <1>4, <1>5, <1>6 DEF n

LEMMA OnShutdownGathers ==
  ASSUME NEW m \in MachineType, NEW in \in AllInputs, NEW t \in Time
  PROVE  LET n == OnShutdown(m, t, in)
         IN  /\ Gathered(m, n) /\ KeepsScreen(m, n)
             /\ n.self.completed = m.self.completed
             /\ n.self.shutdown /\ n.self.alert = NoAlert
             /\ n.self.phase.k # "Scanning"
  <1> DEFINE deadline == IF m.self.shutdown THEN m.self.shutdown_deadline
                         ELSE Wadd(t, SHUTDOWN_LIMIT)
             told == [m EXCEPT !.self.shutdown = TRUE,
                               !.self.shutdown_deadline = deadline]
             n == OnShutdown(m, t, in)
  <1>1. deadline \in MaybeTime
    BY DeadlineType DEF MaybeTime, MachineType, RuntimeType
  <1>2. n = Suspend(told, t, FALSE, in) BY DEF OnShutdown
  <1> HIDE DEF deadline, n
  <1>3. /\ told \in MachineType
        /\ told.self.last_frame = m.self.last_frame
        /\ told.self.detected = m.self.detected
        /\ told.self.completed = m.self.completed
        /\ told.self.shutdown
    BY <1>1 DEF MachineType, RuntimeType
  <1> HIDE DEF told
  <1>4. /\ n.self.phase.k # "Scanning"
        /\ Kept(told, n)
        /\ n.self.alert = NoAlert
        /\ n.self.completed = told.self.completed
    BY <1>2, <1>3, SuspendKeeps, NotScanning
  <1> QED BY <1>3, <1>4 DEF Gathered, KeepsScreen, Kept, n

LEMMA OnResumeGathers ==
  ASSUME NEW m \in MachineType, NEW t \in Time
  PROVE  LET n == OnResume(m, t)
         IN  /\ Gathered(m, n) /\ KeepsScreen(m, n)
             /\ n.self.completed = m.self.completed
             /\ ~n.self.shutdown
  <1> DEFINE told == [m EXCEPT !.self.shutdown = FALSE,
                               !.self.shutdown_deadline = NoTime,
                               !.self.advertise_after = FALSE]
             n == OnResume(m, t)
  <1>1. /\ told \in MachineType
        /\ told.self.last_frame = m.self.last_frame
        /\ told.self.detected = m.self.detected
        /\ told.self.alert = m.self.alert
        /\ told.self.counter = m.self.counter
        /\ told.self.completed = m.self.completed
        /\ told.self.phase = m.self.phase
        /\ ~told.self.shutdown
    BY DEF MachineType, RuntimeType, MaybeTime
  <1>2. Wadd(t, QUIET) \in Time BY DeadlineType
  <1>3. n \in {told, Enter(told, "Waiting", Wadd(t, QUIET))} BY DEF OnResume
  <1> HIDE DEF told, n
  <1>4. CASE n = told
    BY <1>1, <1>4 DEF Gathered, KeepsScreen, n
  <1>5. CASE n = Enter(told, "Waiting", Wadd(t, QUIET))
    <2>1. "Waiting" \in PhaseKind BY DEF PhaseKind
    <2>2. n.self.phase.k = "Waiting" BY <1>1, <1>2, <1>5, <2>1, EnterKeeps
    <2>3. Kept(told, n) /\ n.self.alert = m.self.alert /\ n.self.completed = m.self.completed
      BY <1>1, <1>2, <1>5, <2>1, EnterKeeps
    <2> QED BY <1>1, <2>2, <2>3 DEF Gathered, KeepsScreen, Kept, n
  <1> QED BY <1>3, <1>4, <1>5

LEMMA OnViewGathers ==
  ASSUME NEW m \in MachineType, NEW t \in Time
  PROVE  LET n == OnView(m, t)
         IN  /\ Gathered(m, n) /\ n.self.last_frame = NoFrame
             /\ n.self.completed = m.self.completed
             /\ n.self.shutdown = m.self.shutdown
  BY DEF OnView, Gathered, MachineType, RuntimeType

(* A valid completion publishes its window; no other event publishes. *)
Publishes(m, n, valid) ==
    IF valid
    THEN n.self.completed = Tally(m.self.counter) /\ n.self.phase.k # "Scanning"
    ELSE n.self.completed = m.self.completed

LEMMA OnResultsGather ==
  ASSUME NEW m \in MachineType, NEW in \in AllInputs, NEW t \in Time, NEW ok \in BOOLEAN
  PROVE  /\ Gathered(m, OnStartResult(m, t, in, ok))
         /\ KeepsScreen(m, OnStartResult(m, t, in, ok))
         /\ OnStartResult(m, t, in, ok).self.completed = m.self.completed
         /\ OnStartResult(m, t, in, ok).self.shutdown = m.self.shutdown
         /\ Gathered(m, OnCancelResult(m, t, in, ok))
         /\ KeepsScreen(m, OnCancelResult(m, t, in, ok))
         /\ OnCancelResult(m, t, in, ok).self.completed = m.self.completed
         /\ OnCancelResult(m, t, in, ok).self.shutdown = m.self.shutdown
         /\ Gathered(m, OnComplete(m, t, in, ok)) /\ KeepsScreen(m, OnComplete(m, t, in, ok))
         /\ Publishes(m, OnComplete(m, t, in, ok),
                      ok /\ m.self.phase.k = "Scanning" /\ in.allowed /\ ~in.connected)
         /\ OnComplete(m, t, in, ok).self.shutdown = m.self.shutdown
  <1> DEFINE failed == Finish(m, t, FALSE, in)
             valid == ok /\ In(m, {"Scanning"}) /\ in.allowed /\ ~in.connected
             done == Finish(m, t, valid, in)
             complete == OnComplete(m, t, in, ok)
  <1>1. Gathered(m, m) /\ KeepsScreen(m, m)
    BY DEF Gathered, KeepsScreen
  <1>2. /\ Gathered(m, failed) /\ KeepsScreen(m, failed)
        /\ failed.self.completed = m.self.completed
        /\ failed.self.shutdown = m.self.shutdown
    <2>1. Kept(m, failed) /\ failed.self.completed = m.self.completed BY FinishKeeps
    <2> QED BY <2>1, FinishGathers DEF Kept
  <1>3. /\ Gathered(m, done) /\ KeepsScreen(m, done) /\ Publishes(m, done, valid)
        /\ done.self.shutdown = m.self.shutdown
    <2>0. valid \in BOOLEAN BY DEF In
    <2> HIDE DEF valid
    <2>2. Kept(m, done) BY <2>0, FinishKeeps
    <2>3. done.self.completed = IF valid THEN Tally(m.self.counter) ELSE m.self.completed
      BY <2>0, FinishKeeps
    <2>4. Gathered(m, done) /\ KeepsScreen(m, done) /\ done.self.phase.k # "Scanning"
      BY <2>0, FinishGathers
    <2> QED BY <2>2, <2>3, <2>4 DEF Publishes, Kept
  <1>4. OnStartResult(m, t, in, ok) \in {m, failed} BY DEF OnStartResult
  <1>5. OnCancelResult(m, t, in, ok) \in {m, failed} BY DEF OnCancelResult
  <1>6. complete = done \/ (complete = m /\ ~valid)
    BY DEF OnComplete, Busy, In
  <1>7. valid <=> (ok /\ m.self.phase.k = "Scanning" /\ in.allowed /\ ~in.connected)
    BY DEF In
  <1> HIDE DEF failed, done, valid, complete
  <1>8. Publishes(m, complete, valid) BY <1>3, <1>6 DEF Publishes
  <1>9. Publishes(m, complete, ok /\ m.self.phase.k = "Scanning" /\ in.allowed /\ ~in.connected)
    BY <1>7, <1>8 DEF Publishes
  <1>10. /\ Gathered(m, complete) /\ KeepsScreen(m, complete)
         /\ complete.self.shutdown = m.self.shutdown
    BY <1>1, <1>3, <1>6
  <1> QED BY <1>1, <1>2, <1>4, <1>5, <1>9, <1>10 DEF complete

(* What a report does, and to what it heard.  A report that is not heard   *)
(* does nothing. *)
Hears(m, n, in, t, a, found) ==
    /\ n.self.phase = m.self.phase
    /\ n.self.counter = IF Listening(m, in) THEN Observe(m.self.counter, a)
                        ELSE m.self.counter
    /\ n.self.detected = IF Listening(m, in) /\ Outranks(m.self, found) THEN found
                         ELSE m.self.detected
    /\ \/ n.self.alert = m.self.alert /\ (n.self.detected = m.self.detected
                                           \/ PageCount[found] = 0)
       \/ n.self.alert.found = found /\ n.self.detected = found /\ found \in Detection
            /\ Listening(m, in)
    /\ n.self.last_frame = m.self.last_frame
    /\ n.self.completed = m.self.completed
    /\ n.self.shutdown = m.self.shutdown
    /\ n.self.shutdown_deadline = m.self.shutdown_deadline
    /\ n.self.next_wake = m.self.next_wake
    /\ n.self.frog_epoch = m.self.frog_epoch
    /\ n.self.counter_view = m.self.counter_view
    /\ n.out = m.out

LEMMA OnReportHears ==
  ASSUME NEW m \in MachineType, NEW in \in AllInputs, NEW t \in Time,
         NEW a \in Address, NEW found \in Detection \cup {NoDetection}
  PROVE  Hears(m, OnReport(m, t, in, a, found), in, t, a, found)
  <1> DEFINE seen == [m EXCEPT !.self.counter = Observe(@, a)]
             noted == [seen EXCEPT !.self.detected = found]
             raised == [seen EXCEPT !.self.detected = found,
                                    !.self.alert = [found |-> found, start |-> t]]
             n == OnReport(m, t, in, a, found)
  <1>1. CASE ~Listening(m, in)
    BY <1>1 DEF OnReport, Hears
  <1>2. CASE Listening(m, in)
    <2>1. /\ seen \in MachineType
          /\ seen.self.counter = Observe(m.self.counter, a)
          /\ seen.self.detected = m.self.detected
          /\ seen.self.alert = m.self.alert
          /\ seen.self.phase = m.self.phase
          /\ seen.self.last_frame = m.self.last_frame
          /\ seen.self.completed = m.self.completed
          /\ seen.self.shutdown = m.self.shutdown
          /\ seen.self.shutdown_deadline = m.self.shutdown_deadline
          /\ seen.self.next_wake = m.self.next_wake
          /\ seen.self.frog_epoch = m.self.frog_epoch
          /\ seen.self.counter_view = m.self.counter_view
          /\ seen.out = m.out
      BY ObserveType DEF MachineType, RuntimeType
    <2>2. n = IF ~Outranks(m.self, found) THEN seen
              ELSE IF PageCount[found] = 0 THEN noted ELSE raised
      BY <1>2 DEF OnReport
    <2> HIDE DEF seen, n
    <2>3. CASE ~Outranks(m.self, found)
      BY <1>2, <2>1, <2>2, <2>3 DEF Hears, n
    <2>4. CASE Outranks(m.self, found) /\ PageCount[found] = 0
      <3>1. /\ noted.self.detected = found
            /\ noted.self.counter = seen.self.counter
            /\ noted.self.alert = seen.self.alert
            /\ noted.self.phase = seen.self.phase
            /\ noted.self.last_frame = seen.self.last_frame
            /\ noted.self.completed = seen.self.completed
            /\ noted.self.shutdown = seen.self.shutdown
            /\ noted.self.shutdown_deadline = seen.self.shutdown_deadline
            /\ noted.self.next_wake = seen.self.next_wake
            /\ noted.self.frog_epoch = seen.self.frog_epoch
            /\ noted.self.counter_view = seen.self.counter_view
            /\ noted.out = seen.out
        BY <2>1 DEF MachineType, RuntimeType
      <3> HIDE DEF noted
      <3> QED BY <1>2, <2>1, <2>2, <2>4, <3>1 DEF Hears, n
    <2>5. CASE Outranks(m.self, found) /\ PageCount[found] # 0
      <3>1. /\ raised.self.detected = found
            /\ raised.self.counter = seen.self.counter
            /\ raised.self.alert.found = found
            /\ raised.self.phase = seen.self.phase
            /\ raised.self.last_frame = seen.self.last_frame
            /\ raised.self.completed = seen.self.completed
            /\ raised.self.shutdown = seen.self.shutdown
            /\ raised.self.shutdown_deadline = seen.self.shutdown_deadline
            /\ raised.self.next_wake = seen.self.next_wake
            /\ raised.self.frog_epoch = seen.self.frog_epoch
            /\ raised.self.counter_view = seen.self.counter_view
            /\ raised.out = seen.out
        BY <2>1 DEF MachineType, RuntimeType
      <3>2. found \in Detection BY <2>5 DEF Outranks
      <3> HIDE DEF raised
      <3> QED BY <1>2, <2>1, <2>2, <2>5, <3>1, <3>2 DEF Hears, n
    <2> QED BY <2>3, <2>4, <2>5
  <1> QED BY <1>1, <1>2

(* Any other event than a report. *)
LEMMA EventGathers ==
  ASSUME NEW m, Sound(m), NEW in \in AllInputs, NEW t \in Time, NEW ev \in EventType,
         ev.kind # "Report"
  PROVE  LET n == HandleEvent(m, t, in, ev)
         IN  /\ Gathered(m, n) /\ Publishes(m, n, EndsWindow(m.self, in, ev))
             /\ n.self.last_frame = IF ev.kind = "View" THEN NoFrame ELSE m.self.last_frame
             /\ ev.kind # "Complete" => n.self.completed = m.self.completed
             /\ n.self.shutdown = (ev.kind = "Shutdown"
                                     \/ (m.self.shutdown /\ ev.kind # "Resume"))
             /\ ev.kind \in {"Suspend", "Shutdown"} =>
                  n.self.alert = NoAlert /\ n.self.phase.k # "Scanning"
  <1> DEFINE n == HandleEvent(m, t, in, ev)
  <1>0. m \in MachineType /\ m.self.shutdown \in BOOLEAN
    BY DEF Sound, MachineType, RuntimeType
  <1>8. n.self.shutdown \in BOOLEAN
    BY HandleEventSound DEF Sound, MachineType, RuntimeType
  <1>9. ASSUME ev.kind # "Complete", n.self.completed = m.self.completed
        PROVE  Publishes(m, n, EndsWindow(m.self, in, ev))
    <2> HIDE DEF n
    <2>1. ~EndsWindow(m.self, in, ev) BY <1>9 DEF EndsWindow
    <2> QED BY <1>9, <2>1 DEF Publishes, n
  <1>1. CASE ev.kind = "Ready"
    <2>1. n = OnReady(m, t, in, ev.ok) /\ ev.ok \in BOOLEAN
      BY <1>1 DEF HandleEvent, EventType
    <2> HIDE DEF n
    <2> QED BY <1>0, <1>1, <1>9, <2>1, OnReadyGathers DEF KeepsScreen, n
  <1>2. CASE ev.kind \in {"StartResult", "CancelResult", "Complete"}
    <2>1. /\ ev.kind = "StartResult" => n = OnStartResult(m, t, in, ev.ok)
          /\ ev.kind = "CancelResult" => n = OnCancelResult(m, t, in, ev.ok)
          /\ ev.kind = "Complete" => n = OnComplete(m, t, in, ev.ok)
          /\ ev.ok \in BOOLEAN
      BY <1>2 DEF HandleEvent, EventType
    <2> HIDE DEF n
    <2>2. CASE ev.kind = "Complete"
      <3>1. EndsWindow(m.self, in, ev) <=>
              (ev.ok /\ m.self.phase.k = "Scanning" /\ in.allowed /\ ~in.connected)
        BY <2>2 DEF EndsWindow
      <3>2. Publishes(m, n, EndsWindow(m.self, in, ev))
        BY <1>0, <2>1, <2>2, <3>1, OnResultsGather DEF Publishes
      <3> QED BY <1>0, <2>1, <2>2, <3>2, OnResultsGather DEF KeepsScreen, n
    <2>3. CASE ev.kind # "Complete"
      BY <1>0, <1>2, <1>9, <2>1, <2>3, OnResultsGather DEF KeepsScreen, n
    <2> QED BY <2>2, <2>3
  <1>3. CASE ev.kind = "Suspend"
    <2>1. n = Suspend(m, t, ev.ok, in) /\ ev.ok \in BOOLEAN
      BY <1>3 DEF HandleEvent, EventType
    <2> HIDE DEF n
    <2>2. Kept(m, n) /\ n.self.completed = m.self.completed /\ n.self.alert = NoAlert
      BY <1>0, <2>1, SuspendKeeps
    <2>3. Gathered(m, n) /\ KeepsScreen(m, n) /\ n.self.phase.k # "Scanning"
      BY <1>0, <2>1, SuspendGathers
    <2> QED BY <1>0, <1>3, <1>9, <2>2, <2>3 DEF KeepsScreen, Kept, n
  <1>4. CASE ev.kind = "Shutdown"
    <2>1. n = OnShutdown(m, t, in) BY <1>4 DEF HandleEvent
    <2> HIDE DEF n
    <2> QED BY <1>0, <1>4, <1>8, <1>9, <2>1, OnShutdownGathers DEF KeepsScreen, n
  <1>5. CASE ev.kind = "Resume"
    <2>1. n = OnResume(m, t) BY <1>5 DEF HandleEvent
    <2> HIDE DEF n
    <2> QED BY <1>0, <1>5, <1>8, <1>9, <2>1, OnResumeGathers DEF KeepsScreen, n
  <1>6. CASE ev.kind = "View"
    <2>1. n = OnView(m, t) BY <1>6 DEF HandleEvent
    <2> HIDE DEF n
    <2> QED BY <1>0, <1>6, <1>9, <2>1, OnViewGathers DEF KeepsScreen, n
  <1>7. CASE ev.kind = "Tick"
    <2>1. n = m BY <1>7 DEF HandleEvent
    <2> HIDE DEF n
    <2> QED BY <1>0, <1>7, <1>9, <2>1 DEF Gathered, n
  <1> QED BY <1>1, <1>2, <1>3, <1>4, <1>5, <1>6, <1>7 DEF EventType

LEMMA ReportHears ==
  ASSUME NEW m, Sound(m), NEW in \in AllInputs, NEW t \in Time, NEW ev \in EventType,
         ev.kind = "Report"
  PROVE  /\ Hears(m, HandleEvent(m, t, in, ev), in, t, ev.address, ev.found)
         /\ ev.address \in Address /\ ev.found \in Detection \cup {NoDetection}
  <1>1. ev.address \in Address /\ ev.found \in Detection \cup {NoDetection}
    BY DEF EventType
  <1>2. HandleEvent(m, t, in, ev) = OnReport(m, t, in, ev.address, ev.found)
    BY DEF HandleEvent
  <1> QED BY <1>1, <1>2, OnReportHears DEF Sound

-----------------------------------------------------------------------------
(* The deadlines: a scan begins with what the quiet left, which is nothing. *)

Ticks(m, n) ==
    /\ n.self.phase.k = "Scanning" => /\ m.self.phase.k \in {"Scanning", "Quiet"}
                                      /\ n.self.counter = m.self.counter
                                      /\ n.self.detected = m.self.detected
    /\ n.self.alert \in {m.self.alert, NoAlert}
    /\ \/ n.self.detected = m.self.detected
       \/ n.self.detected = NoDetection /\ n.self.alert = NoAlert
    /\ n.self.last_frame = m.self.last_frame
    /\ n.self.completed = m.self.completed
    /\ n.self.shutdown = m.self.shutdown

LEMMA FinishTicks ==
  ASSUME NEW m \in MachineType, NEW in \in AllInputs, NEW t \in Time
  PROVE  Ticks(m, Finish(m, t, FALSE, in))
  <1>1. /\ Kept(m, Finish(m, t, FALSE, in))
        /\ Finish(m, t, FALSE, in).self.alert = m.self.alert
        /\ Finish(m, t, FALSE, in).self.completed = m.self.completed
    BY FinishKeeps
  <1>2. Finish(m, t, FALSE, in).self.phase.k # "Scanning" BY FinishGathers
  <1> QED BY <1>1, <1>2 DEF Ticks, Kept

(* Entering a phase and asking for something. *)
LEMMA EnterTicks ==
  ASSUME NEW m \in MachineType, NEW k \in PhaseKind, NEW at \in Time, NEW c \in SUBSET Command,
         k = "Scanning" => m.self.phase.k \in {"Scanning", "Quiet"}
  PROVE  /\ Ticks(m, Enter(m, k, at))
         /\ Ticks(m, Emit(Enter(m, k, at), c))
         /\ Enter(m, k, at).self.phase.k = k
         /\ Emit(Enter(m, k, at), c).self.phase.k = k
         /\ Enter(m, k, at).out = m.out
         /\ Emit(Enter(m, k, at), c).out.actions = m.out.actions \cup c
         /\ Enter(m, k, at).self.shutdown_deadline = m.self.shutdown_deadline
         /\ Emit(Enter(m, k, at), c).self.shutdown_deadline = m.self.shutdown_deadline
  <1> DEFINE n == Enter(m, k, at)
  <1>1. /\ n \in MachineType /\ Kept(m, n)
        /\ n.self.alert = m.self.alert
        /\ n.self.completed = m.self.completed
        /\ n.self.counter = m.self.counter
        /\ n.self.phase.k = k
        /\ n.self.shutdown_deadline = m.self.shutdown_deadline
        /\ n.out = m.out
    BY EnterKeeps
  <1> HIDE DEF n
  <1>2. Emit(n, c).self = n.self /\ Emit(n, c).out.actions = m.out.actions \cup c
    BY <1>1, EmitKeeps
  <1>3. Ticks(m, n) /\ Ticks(m, Emit(n, c)) BY <1>1, <1>2 DEF Ticks, Kept
  <1> QED BY <1>1, <1>2, <1>3 DEF n

LEMMA WaitingIsOverTicks ==
  ASSUME NEW m \in MachineType, NEW in \in AllInputs, NEW t \in Time
  PROVE  Ticks(m, WaitingIsOver(m, t, in))
  <1> DEFINE on == in.advertising = "on"
             cleared == Clear(m)
             quiet == [cleared EXCEPT !.self.detected = NoDetection,
                                      !.self.alert = NoAlert,
                                      !.self.restore_advertising = on]
             asked == IF on THEN {"stop_advertising"} ELSE {}
             n == WaitingIsOver(m, t, in)
  <1>1. /\ quiet \in MachineType
        /\ quiet.self.detected = NoDetection
        /\ quiet.self.alert = NoAlert
        /\ quiet.self.last_frame = m.self.last_frame
        /\ quiet.self.completed = m.self.completed
        /\ quiet.self.shutdown = m.self.shutdown
    <2>1. /\ cleared \in MachineType /\ Kept(m, cleared)
          /\ cleared.self.completed = m.self.completed
      BY ClearSound, ClearKeeps DEF Empty
    <2> HIDE DEF cleared
    <2> QED BY <2>1, NoAlertType, ZenonT(60) DEF Kept, MachineType, RuntimeType
  <1>2. {"Quiet", "Waiting"} \subseteq PhaseKind BY DEF PhaseKind
  <1>3. Wadd(t, QUIET) \in Time /\ Wadd(t, RETRY) \in Time BY DeadlineType
  <1>4. asked \in SUBSET Command BY DEF Command
  <1>5. n \in {Emit(Enter(quiet, "Quiet", Wadd(t, QUIET)), asked),
               Enter(m, "Waiting", Wadd(t, RETRY))}
    BY DEF WaitingIsOver
  <1> HIDE DEF quiet, asked, n
  <1>6. CASE n = Emit(Enter(quiet, "Quiet", Wadd(t, QUIET)), asked)
    <2>1. Ticks(quiet, n) /\ n.self.phase.k = "Quiet"
      BY <1>1, <1>2, <1>3, <1>4, <1>6, EnterTicks
    <2> QED BY <1>1, <2>1 DEF Ticks, n
  <1>7. CASE n = Enter(m, "Waiting", Wadd(t, RETRY))
    <2>1. Ticks(m, Enter(m, "Waiting", Wadd(t, RETRY)))
      BY <1>2, <1>3, <1>4, EnterTicks
    <2> QED BY <1>7, <2>1 DEF n
  <1> QED BY <1>5, <1>6, <1>7

LEMMA TickPhaseTicks ==
  ASSUME NEW m, Sound(m), NEW in \in AllInputs, NEW t \in Time
  PROVE  Ticks(m, TickPhase(m, t, in))
  <1> DEFINE n == TickPhase(m, t, in)
             cleared == Clear(m)
  <1>0. m \in MachineType BY DEF Sound
  <1>1. Ticks(m, m) BY DEF Ticks
  <1>2. PhaseKind = {"Offline", "Waiting", "Quiet", "Scanning", "Cancelling",
                     "PowerWait", "Stopped"} BY DEF PhaseKind
  <1>3. /\ Wadd(t, RETRY) \in Time /\ Wadd(t, WATCHDOG) \in Time BY DeadlineType
  <1>4. {"start_role"} \in SUBSET Command /\ {"start_scan"} \in SUBSET Command
        /\ {"cancel_scan"} \in SUBSET Command BY DEF Command
  <1>5. Ticks(m, Emit(Enter(m, "Offline", Wadd(t, RETRY)), {"start_role"}))
    BY <1>0, <1>2, <1>3, <1>4, EnterTicks
  <1>6. ASSUME In(m, {"Quiet"}) PROVE Ticks(m, QuietIsOver(m, t, in))
    <2>1. Ticks(m, Emit(Enter(m, "Scanning", Wadd(t, WATCHDOG)), {"start_scan"}))
      <3>1. m.self.phase.k = "Quiet" BY <1>6 DEF In
      <3> QED BY <1>0, <1>2, <1>3, <1>4, <3>1, EnterTicks
    <2> QED BY <1>0, <2>1, FinishTicks DEF QuietIsOver
  <1>7. Ticks(m, CancelAgain(m, t))
    BY <1>0, <1>2, <1>3, <1>4, EnterTicks DEF CancelAgain
  <1>8. Ticks(m, CancelAgain(cleared, t))
    <2>1. /\ cleared \in MachineType /\ Kept(m, cleared)
          /\ cleared.self.alert = m.self.alert
          /\ cleared.self.completed = m.self.completed
      BY <1>0, ClearSound, ClearKeeps DEF Empty
    <2> HIDE DEF cleared
    <2>2. Ticks(cleared, CancelAgain(cleared, t))
      BY <2>1, <1>2, <1>3, <1>4, EnterTicks DEF CancelAgain
    <2>3. CancelAgain(cleared, t).self.phase.k = "Cancelling"
      BY <2>1, <1>2, <1>3, <1>4, EnterTicks DEF CancelAgain
    <2> QED BY <2>1, <2>2, <2>3 DEF Ticks, Kept
  <1>9. \/ n = m
        \/ n = Emit(Enter(m, "Offline", Wadd(t, RETRY)), {"start_role"})
        \/ n = WaitingIsOver(m, t, in)
        \/ In(m, {"Quiet"}) /\ n = QuietIsOver(m, t, in)
        \/ n = CancelAgain(cleared, t)
        \/ n = CancelAgain(m, t)
        \/ n = Finish(m, t, FALSE, in)
    <2>1. CASE In(m, {"Stopped"}) \/ ~Due(t, m.self.phase.at)
      BY <2>1 DEF TickPhase
    <2>2. CASE ~(In(m, {"Stopped"}) \/ ~Due(t, m.self.phase.at))
      <3> USE <2>2
      <3>1. CASE In(m, {"Offline"}) BY <3>1 DEF TickPhase, In
      <3>2. CASE In(m, {"Waiting"}) BY <3>2 DEF TickPhase, In
      <3>3. CASE In(m, {"Quiet"}) BY <3>3 DEF TickPhase, In
      <3>4. CASE In(m, {"Scanning"}) BY <3>4 DEF TickPhase, In
      <3>5. CASE In(m, {"Cancelling"}) BY <3>5 DEF TickPhase, In
      <3>6. CASE In(m, {"PowerWait"}) BY <3>6 DEF TickPhase, In
      <3> QED BY <3>1, <3>2, <3>3, <3>4, <3>5, <3>6 DEF TickPhase, In
    <2> QED BY <2>1, <2>2
  <1> HIDE DEF n, cleared
  <1>10. Ticks(m, WaitingIsOver(m, t, in)) BY <1>0, WaitingIsOverTicks
  <1>11. Ticks(m, Finish(m, t, FALSE, in)) BY <1>0, FinishTicks
  <1> QED BY <1>1, <1>5, <1>6, <1>7, <1>8, <1>9, <1>10, <1>11 DEF n

LEMMA GuardGathers ==
  ASSUME NEW m, Sound(m), NEW in \in AllInputs, NEW t \in Time
  PROVE  /\ Gathered(m, Guard(m, t, in))
         /\ Kept(m, Guard(m, t, in))
         /\ Guard(m, t, in).self.completed = m.self.completed
  <1>1. in.wants_advertising \in BOOLEAN BY DEF AllInputs
  <1>2. Guard(m, t, in) \in {m, Suspend(m, t, in.wants_advertising, in)}
    BY DEF Guard
  <1>3. /\ Kept(m, m) /\ Gathered(m, m) BY DEF Kept, Gathered
  <1> QED BY <1>1, <1>2, <1>3, SuspendKeeps, SuspendGathers DEF Sound

(* The display shows what the step says, if it showed what the runtime     *)
(* remembers. *)
LEMMA StepShows ==
  ASSUME NEW self \in RuntimeType, self.phase.k # "Scanning" => self.counter = EmptyCounter,
         NEW in \in AllInputs, NEW t \in Time, NEW ev \in EventType
  PROVE  LET s == Step(self, t, in, ev)
         IN  Displayed(self.last_frame, s.out) = s.self.last_frame
  <1> DEFINE m == Begin(self)
             h == HandleEvent(m, t, in, ev)
             x == IF ev.kind = "Tick" THEN TickPhase(h, t, in) ELSE h
             g == Guard(x, t, in)
             s == Step(self, t, in, ev)
  <1>1. /\ Sound(m) /\ Sound(h) /\ Sound(x) /\ Sound(g) /\ m.self = self
        /\ \/ FastPath(self, h, t, in, ev) /\ s = KeepFrameAndWake(h, t)
           \/ s = ResetOff(h)
           \/ s = Render(g, t, in)
    BY StepEnds
  <1>2. /\ h.self.last_frame \in {self.last_frame, NoFrame}
        /\ ev.kind = "Report" => h.self.last_frame = self.last_frame
    <2>1. CASE ev.kind = "Report"
      BY <1>1, <2>1, ReportHears DEF Hears
    <2>2. CASE ev.kind # "Report"
      BY <1>1, <2>2, EventGathers
    <2> QED BY <2>1, <2>2
  <1> HIDE DEF m, h, s
  <1>3. x.self.last_frame = h.self.last_frame BY <1>1, TickPhaseTicks DEF Ticks
  <1> HIDE DEF x
  <1>4. g.self.last_frame = x.self.last_frame BY <1>1, GuardGathers DEF Kept
  <1> HIDE DEF g
  <1>5. CASE FastPath(self, h, t, in, ev) /\ s = KeepFrameAndWake(h, t)
    <2>1. h.self.last_frame = self.last_frame BY <1>2, <1>5 DEF FastPath
    <2>2. /\ s.self = h.self
          /\ s.out.owned = (h.self.last_frame # NoFrame)
          /\ s.out.frame = NoFrame
      BY <1>1, <1>5, KeepKeeps
    <2> QED BY <2>1, <2>2 DEF Displayed, s
  <1>6. CASE s = ResetOff(h)
    BY <1>1, <1>6, ResetOffClears DEF Displayed, s
  <1>7. CASE s = Render(g, t, in)
    <2> DEFINE frame == Picture(g.self, t, in)
    <2>1. /\ s.self.last_frame = frame
          /\ s.out.owned = (frame # NoFrame)
          /\ s.out.frame = IF frame = g.self.last_frame THEN NoFrame ELSE frame
      BY <1>1, <1>7, RenderShows
    <2>2. g.self.last_frame \in {self.last_frame, NoFrame}
      BY <1>2, <1>3, <1>4
    <2> HIDE DEF frame
    <2> QED BY <2>1, <2>2 DEF Displayed, s
  <1> QED BY <1>1, <1>5, <1>6, <1>7

(* Whether a report with these inputs is heard in this state. *)
Hearing(self, in, ev) ==
    /\ ev.kind = "Report"
    /\ self.phase.k = "Scanning"
    /\ in.allowed /\ ~in.connected

(* A scan holds what it held and, if a report is heard, that; one that has *)
(* just begun holds nothing.  The alert is that of the strongest report.   *)
(* The count changes only by a scan that ends whole.                       *)
Survey(self, s, in, ev) ==
    /\ s.phase.k = "Scanning" =>
          /\ self.phase.k \in {"Scanning", "Quiet"}
          /\ s.counter = IF Hearing(self, in, ev) THEN Observe(self.counter, ev.address)
                         ELSE self.counter
          /\ s.detected = IF Hearing(self, in, ev) /\ Outranks(self, ev.found) THEN ev.found
                          ELSE self.detected
    /\ \/ s.alert = NoAlert
       \/ s.alert = self.alert
            /\ (s.detected = self.detected \/ PageCount[s.detected] = 0)
       \/ s.alert.found = s.detected /\ s.detected \in Detection
    /\ IF EndsWindow(self, in, ev)
       THEN s.phase.k # "Scanning" /\ s.completed = Tally(self.counter)
       ELSE s.completed = self.completed

(* The picture keeps a survey. *)
LEMMA GuardAndRenderSurvey ==
  ASSUME NEW self, NEW m, Sound(m), NEW in \in AllInputs, NEW t \in Time, NEW ev,
         Survey(self, m.self, in, ev)
  PROVE  Survey(self, Render(Guard(m, t, in), t, in).self, in, ev)
  <1> DEFINE g == Guard(m, t, in)
             s == Render(g, t, in)
  <1>1. Sound(g) BY GuardSound
  <1>2. Gathered(m, g) /\ Kept(m, g) /\ g.self.completed = m.self.completed
    BY GuardGathers
  <1> HIDE DEF g
  <1>3. /\ s.self.phase = g.self.phase
        /\ s.self.counter = g.self.counter
        /\ s.self.completed = g.self.completed
        /\ s.self.detected = g.self.detected
        /\ s.self.alert \in {g.self.alert, NoAlert}
    BY <1>1, RenderShows
  <1> HIDE DEF s
  <1>4. (s.self.phase.k = "Scanning" => m.self.phase.k = "Scanning")
    BY <1>2, <1>3 DEF Gathered
  <1>5. s.self.completed = m.self.completed /\ s.self.detected = m.self.detected
        /\ s.self.alert \in {m.self.alert, NoAlert}
    BY <1>2, <1>3 DEF Gathered
  <1>6. s.self.phase.k = "Scanning" => s.self.counter = m.self.counter
    BY <1>2, <1>3 DEF Gathered
  <1>7. Survey(self, s.self, in, ev)
    BY <1>4, <1>5, <1>6 DEF Survey
  <1> QED BY <1>7 DEF s, g

LEMMA StepSurveys ==
  ASSUME NEW self \in RuntimeType, self.phase.k # "Scanning" => self.counter = EmptyCounter,
         NEW in \in AllInputs, NEW t \in Time, NEW ev \in EventType
  PROVE  Survey(self, Step(self, t, in, ev).self, in, ev)
  <1> DEFINE m == Begin(self)
             h == HandleEvent(m, t, in, ev)
             x == IF ev.kind = "Tick" THEN TickPhase(h, t, in) ELSE h
             s == Step(self, t, in, ev)
  <1>1. /\ Sound(m) /\ Sound(h) /\ Sound(x) /\ m.self = self
        /\ \/ s = KeepFrameAndWake(h, t)
           \/ s = ResetOff(h)
           \/ s = Render(Guard(x, t, in), t, in)
    BY StepEnds
  <1>2. Survey(self, h.self, in, ev)
    <2>1. CASE ev.kind = "Report"
      <3>1. Hears(m, h, in, t, ev.address, ev.found) BY <1>1, <2>1, ReportHears
      <3>2. Listening(m, in) <=> Hearing(self, in, ev)
        BY <1>1, <2>1 DEF Listening, Hearing, In
      <3>3. ~EndsWindow(self, in, ev) BY <2>1 DEF EndsWindow
      <3> HIDE DEF m, h
      <3> QED BY <1>1, <3>1, <3>2, <3>3 DEF Hears, Survey
    <2>2. CASE ev.kind # "Report"
      <3>1. Gathered(m, h) /\ Publishes(m, h, EndsWindow(self, in, ev))
        BY <1>1, <2>2, EventGathers
      <3>2. ~Hearing(self, in, ev) BY <2>2 DEF Hearing
      <3> HIDE DEF m, h
      <3> QED BY <1>1, <3>1, <3>2 DEF Gathered, Publishes, Survey
    <2> QED BY <2>1, <2>2
  <1>3. Survey(self, x.self, in, ev)
    <2>1. CASE ev.kind = "Tick"
      <3>1. h = m BY <2>1 DEF HandleEvent
      <3>2. Ticks(m, x) BY <1>1, <2>1, <3>1, TickPhaseTicks
      <3>3. ~Hearing(self, in, ev) /\ ~EndsWindow(self, in, ev)
        BY <2>1 DEF Hearing, EndsWindow
      <3> HIDE DEF m, h, x
      <3> QED BY <1>1, <3>2, <3>3 DEF Ticks, Survey
    <2>2. CASE ev.kind # "Tick" BY <1>2, <2>2
    <2> QED BY <2>1, <2>2
  <1> HIDE DEF m, h, x, s
  <1>4. CASE s = KeepFrameAndWake(h, t)
    <2>1. s.self = h.self BY <1>1, <1>4, KeepKeeps
    <2> QED BY <1>2, <2>1 DEF s
  <1>5. CASE s = ResetOff(h)
    <2>1. /\ s.self.phase.k = "Stopped" /\ s.self.alert = NoAlert
          /\ s.self.completed = h.self.completed
      BY <1>1, <1>5, ResetOffClears, StoppedIsPhase
    <2>2. Survey(self, s.self, in, ev) BY <1>2, <2>1 DEF Survey
    <2> QED BY <2>2 DEF s
  <1>6. CASE s = Render(Guard(x, t, in), t, in)
    BY <1>1, <1>3, <1>6, GuardAndRenderSurvey DEF s
  <1> QED BY <1>1, <1>4, <1>5, <1>6

-----------------------------------------------------------------------------
(* The window.  In every state the table, the detection and the alert      *)
(* agree with the reports that were heard since the scan began.            *)

WindowInv ==
    /\ rt.phase.k # "Scanning" => heard = {}
    /\ CounterIsWindow
    /\ HighestPriorityWins
    /\ rt.alert # NoAlert => rt.alert.found \in Detection

(* A table c agrees with the addresses it was offered. *)
Agrees(c, addresses) ==
    /\ Cardinality(c.seen) <= CAPACITY
    /\ c.seen \subseteq addresses
    /\ IF c.saturated
       THEN Cardinality(c.seen) = CAPACITY /\ Cardinality(addresses) > CAPACITY
       ELSE c.seen = addresses

LEMMA SomeAddresses ==
  ASSUME NEW A \in SUBSET Address
  PROVE  IsFiniteSet(A) /\ Cardinality(A) \in Nat
  BY CapacityAssumption, FS_Subset, FS_CardinalityType

LEMMA EmptyAgrees == Agrees(EmptyCounter, {})
  BY FS_EmptySet, CapacityAssumption DEF Agrees, EmptyCounter

LEMMA ObserveAgrees ==
  ASSUME NEW c \in [seen : SUBSET Address, saturated : BOOLEAN],
         NEW A \in SUBSET Address, NEW a \in Address, Agrees(c, A)
  PROVE  Agrees(Observe(c, a), A \cup {a})
  <1> DEFINE n == Observe(c, a)
             B == A \cup {a}
  <1>1. /\ Cardinality(c.seen) \in Nat /\ Cardinality(A) \in Nat /\ Cardinality(B) \in Nat
        /\ IsFiniteSet(c.seen) /\ IsFiniteSet(A)
    BY SomeAddresses
  <1>2. Cardinality(B) = IF a \in A THEN Cardinality(A) ELSE Cardinality(A) + 1
    BY <1>1, FS_AddElement
  <1>3. CASE a \in c.seen
    <2>1. n = c /\ B = A BY <1>3 DEF Observe, Agrees
    <2> QED BY <2>1
  <1>4. CASE a \notin c.seen /\ Cardinality(c.seen) = CAPACITY
    <2>1. n = [c EXCEPT !.saturated = TRUE] BY <1>4 DEF Observe
    <2>2. n.seen = c.seen /\ n.saturated BY <2>1
    <2> HIDE DEF n
    <2>3. Cardinality(B) > CAPACITY
      BY <1>1, <1>2, <1>4, CapacityAssumption DEF Agrees
    <2> QED BY <1>4, <2>2, <2>3, CapacityAssumption DEF Agrees, n
  <1>5. CASE a \notin c.seen /\ Cardinality(c.seen) # CAPACITY
    <2>1. n = [c EXCEPT !.seen = @ \cup {a}] BY <1>5 DEF Observe
    <2>2. n.seen = c.seen \cup {a} /\ n.saturated = c.saturated BY <2>1
    <2>3. Cardinality(c.seen \cup {a}) = Cardinality(c.seen) + 1
      BY <1>1, <1>5, FS_AddElement
    <2> HIDE DEF n
    <2>4. ~c.saturated /\ c.seen = A BY <1>5 DEF Agrees
    <2>5. Cardinality(n.seen) <= CAPACITY
      BY <1>1, <1>5, <2>2, <2>3, CapacityAssumption DEF Agrees
    <2> QED BY <2>2, <2>4, <2>5 DEF Agrees, n
  <1> QED BY <1>3, <1>4, <1>5

LEMMA HeardType ==
  ASSUME TypeOK
  PROVE  /\ HeardAddresses \in SUBSET Address
         /\ heard = {} => HeardAddresses = {}
  BY DEF TypeOK, HeardAddresses

LEMMA InitWindow == Init => WindowInv
  <1> SUFFICES ASSUME Init PROVE WindowInv
    OBVIOUS
  <1>1. PICK frogs \in Builds : rt = NewRuntime(frogs) BY DEF Init
  <1>2. rt.counter = EmptyCounter /\ rt.alert = NoAlert
    BY <1>1 DEF NewRuntime
  <1>3. heard = {} /\ HeardAddresses = {} BY DEF Init, HeardAddresses
  <1>4. CounterIsWindow BY <1>2, <1>3, EmptyAgrees DEF Agrees, CounterIsWindow
  <1> QED BY <1>2, <1>3, <1>4 DEF WindowInv, HighestPriorityWins

LEMMA DoWindow ==
  ASSUME Inv, WindowInv, NEW in \in AllInputs, NEW ev \in EventType, Do(in, ev)
  PROVE  WindowInv'
  <1> DEFINE s == Step(rt, now, in, ev)
             hears == Hearing(rt, in, ev)
             report == <<ev.address, ev.found>>
  <1>1. Survey(rt, s.self, in, ev) /\ Sound(s)
    BY StepSurveys, StepSound DEF Inv, TypeOK, WipedOutsideScan
  <1>2. /\ rt' = s.self
        /\ heard' = IF s.self.phase.k = "Scanning"
                    THEN heard \cup (IF hears THEN {report} ELSE {}) ELSE {}
    BY DEF Do, Accepted, Hearing
  <1>3. hears => ev.address \in Address /\ ev.found \in Detection \cup {NoDetection}
    BY DEF Hearing, EventType
  <1> HIDE DEF s
  <1>4. Survey(rt, rt', in, ev) BY <1>1, <1>2
  <1>5. rt'.phase.k # "Scanning" => heard' = {} BY <1>2
  <1>6. CounterIsWindow'
    <2>1. Agrees(rt'.counter, HeardAddresses')
      <3>1. CASE rt'.phase.k # "Scanning"
        <4>1. rt'.counter = EmptyCounter BY <1>1, <1>2, <3>1 DEF Sound, Wiped
        <4>2. HeardAddresses' = {} BY <1>5, <3>1 DEF HeardAddresses
        <4> QED BY <4>1, <4>2, EmptyAgrees
      <3>2. CASE rt'.phase.k = "Scanning"
        <4>1. Agrees(rt.counter, HeardAddresses)
          BY DEF WindowInv, CounterIsWindow, Agrees
        <4>2. CASE hears
          <5>1. heard' = heard \cup {report} BY <1>2, <3>2, <4>2
          <5>2. HeardAddresses' = HeardAddresses \cup {ev.address}
            <6>1. HeardAddresses' = {h[1] : h \in heard \cup {report}}
              BY <5>1 DEF HeardAddresses
            <6>2. report[1] = ev.address OBVIOUS
            <6> HIDE DEF report
            <6>3. ASSUME NEW a
                  PROVE  a \in HeardAddresses' <=> a \in HeardAddresses \cup {ev.address}
              BY <6>1, <6>2 DEF HeardAddresses
            <6> QED BY <6>3
          <5>3. rt'.counter = Observe(rt.counter, ev.address)
            BY <1>4, <3>2, <4>2 DEF Survey
          <5>4. rt.counter \in [seen : SUBSET Address, saturated : BOOLEAN]
            BY DEF Inv, TypeOK, RuntimeType
          <5>5. HeardAddresses \in SUBSET Address BY HeardType DEF Inv
          <5> HIDE DEF hears
          <5> QED BY <1>3, <4>1, <4>2, <5>2, <5>3, <5>4, <5>5, ObserveAgrees
        <4>3. CASE ~hears
          <5>1. heard' = heard BY <1>2, <3>2, <4>3
          <5>2. HeardAddresses' = HeardAddresses BY <5>1 DEF HeardAddresses
          <5>3. rt'.counter = rt.counter BY <1>4, <3>2, <4>3 DEF Survey
          <5> QED BY <4>1, <5>2, <5>3
        <4> QED BY <4>2, <4>3
      <3> QED BY <3>1, <3>2
    <2> QED BY <2>1 DEF Agrees, CounterIsWindow
  <1>7. HighestPriorityWins'
    <2>1. ASSUME NEW h \in heard', h[2] # NoDetection
          PROVE  rt'.detected # NoDetection /\ Priority[rt'.detected] >= Priority[h[2]]
      <3>1. rt'.phase.k = "Scanning" BY <1>5, <2>1
      <3>2. rt'.detected = IF hears /\ Outranks(rt, ev.found) THEN ev.found
                           ELSE rt.detected
        BY <1>4, <3>1 DEF Survey
      <3>3. h \in heard \/ (hears /\ h = report) BY <1>2, <2>1, <3>1
      <3>4. /\ rt.detected \in Detection \cup {NoDetection}
            /\ \A d \in Detection : Priority[d] \in Nat
        BY DetectionAssumption DEF Inv, TypeOK, RuntimeType
      <3>5. CASE h \in heard
        <4>1. h[2] \in Detection \cup {NoDetection} BY <3>5 DEF Inv, TypeOK
        <4>2. rt.detected # NoDetection /\ Priority[rt.detected] >= Priority[h[2]]
          BY <2>1, <3>5 DEF WindowInv, HighestPriorityWins
        <4> QED BY <1>3, <2>1, <3>2, <3>4, <4>1, <4>2 DEF Outranks
      <3>6. CASE hears /\ h = report
        <4>1. h[2] = ev.found BY <3>6
        <4> QED BY <1>3, <2>1, <3>2, <3>4, <3>6, <4>1 DEF Outranks
      <3> QED BY <3>3, <3>5, <3>6
    <2>2. ASSUME rt'.alert # NoAlert
          PROVE  rt'.alert.found = rt'.detected \/ PageCount[rt'.detected] = 0
      <3>1. \/ rt'.alert = rt.alert
                 /\ (rt'.detected = rt.detected \/ PageCount[rt'.detected] = 0)
            \/ rt'.alert.found = rt'.detected /\ rt'.detected \in Detection
        BY <1>4, <2>2 DEF Survey
      <3> QED BY <2>2, <3>1 DEF WindowInv, HighestPriorityWins
    <2> QED BY <2>1, <2>2 DEF HighestPriorityWins
  <1>8. rt'.alert # NoAlert => rt'.alert.found \in Detection
    BY <1>4 DEF Survey, WindowInv
  <1> QED BY <1>5, <1>6, <1>7, <1>8 DEF WindowInv

LEMMA RebootWindow ==
  ASSUME Inv, Reboot
  PROVE  WindowInv'
  <1>1. rt' = NewRuntime(rt.frogs) /\ heard' = {} BY DEF Reboot
  <1>2. rt'.counter = EmptyCounter /\ rt'.alert = NoAlert BY <1>1 DEF NewRuntime
  <1>3. HeardAddresses' = {} BY <1>1 DEF HeardAddresses
  <1>4. CounterIsWindow' BY <1>2, <1>3, EmptyAgrees DEF Agrees, CounterIsWindow
  <1> QED BY <1>1, <1>2, <1>4 DEF WindowInv, HighestPriorityWins

LEMMA NextWindow == Inv /\ WindowInv /\ [Next]_vars => WindowInv'
  <1> SUFFICES ASSUME Inv, WindowInv, [Next]_vars PROVE WindowInv'
    OBVIOUS
  <1>1. CASE \/ Tick \/ Ready \/ StartResult \/ CancelResult \/ Complete \/ Report
             \/ SuspendRequest \/ Shutdown \/ Resume \/ View
    BY <1>1, DoIsTheStep, DoWindow
  <1>2. CASE UNCHANGED <<rt, heard>>
    BY <1>2 DEF WindowInv, CounterIsWindow, HighestPriorityWins, HeardAddresses
  <1>3. CASE Reboot BY <1>3, RebootWindow
  <1> QED BY <1>1, <1>2, <1>3 DEF Next, Advance, vars

(* The count that a completion publishes is that of the window it ends. *)
LEMMA WindowCounts ==
  ASSUME Inv, WindowInv, NEW in \in AllInputs, NEW ev \in EventType
  PROVE  LET next == Step(rt, now, in, ev).self
             n == Cardinality(HeardAddresses)
         IN  IF EndsWindow(rt, in, ev)
             THEN /\ next.phase.k # "Scanning"
                  /\ next.completed.saturated = (n > CAPACITY)
                  /\ next.completed.n = IF n > CAPACITY THEN CAPACITY ELSE n
             ELSE next.completed = rt.completed
  <1> DEFINE next == Step(rt, now, in, ev).self
  <1>1. Survey(rt, next, in, ev)
    BY StepSurveys DEF Inv, TypeOK, WipedOutsideScan
  <1> HIDE DEF next
  <1>2. CASE ~EndsWindow(rt, in, ev)
    BY <1>1, <1>2 DEF Survey, next
  <1>3. CASE EndsWindow(rt, in, ev)
    <2>1. next.phase.k # "Scanning" /\ next.completed = Tally(rt.counter)
      BY <1>1, <1>3 DEF Survey
    <2>2. /\ next.completed.n = Cardinality(rt.counter.seen)
          /\ next.completed.saturated = rt.counter.saturated
      BY <2>1 DEF Tally
    <2>3. Agrees(rt.counter, HeardAddresses)
      BY DEF WindowInv, CounterIsWindow, Agrees
    <2>4. rt.counter.saturated \in BOOLEAN
      BY DEF Inv, TypeOK, RuntimeType
    <2>5. Cardinality(HeardAddresses) \in Nat BY HeardType, SomeAddresses DEF Inv
    <2>6. LET n == Cardinality(HeardAddresses)
          IN  /\ next.completed.saturated = (n > CAPACITY)
              /\ next.completed.n = IF n > CAPACITY THEN CAPACITY ELSE n
      BY <2>2, <2>3, <2>4, <2>5, CapacityAssumption DEF Agrees
    <2> QED BY <1>3, <2>1, <2>6 DEF next
  <1> QED BY <1>2, <1>3

(* The number of addresses is that of the reports of the running window,   *)
(* whatever came before it and however many the table has room for         *)
(* (ScanCounter::observe_typed, Event::Report, ScanCounter::clear).        *)
THEOREM CounterMatchesWindow == Spec => []CounterIsWindow
  <1>1. Inv /\ WindowInv => CounterIsWindow BY DEF WindowInv
  <1> QED BY <1>1, InitInv, NextInv, InitWindow, NextWindow, PTL DEF Spec

(* Whatever the order of the reports and whatever their priorities, no     *)
(* alert is outranked by what its own window has heard (Event::Report).    *)
THEOREM StrongestAlertWins == Spec => []HighestPriorityWins
  <1>1. Inv /\ WindowInv => HighestPriorityWins BY DEF WindowInv
  <1> QED BY <1>1, InitInv, NextInv, InitWindow, NextWindow, PTL DEF Spec

(* The number on the badge is that of one whole window, capped and marked  *)
(* if it overflowed: only the successful completion of a running scan that *)
(* is still permitted changes it, and always (finish, Event::Complete).    *)
THEOREM CountsOneWindow == Spec => []CountIsOfOneWindow
  <1>1. Inv /\ WindowInv => CountIsOfOneWindow
    <2> SUFFICES ASSUME Inv, WindowInv, NEW in \in Inputs, NEW ev \in EventType
                 PROVE  LET next == Step(rt, now, in, ev).self
                            n == Cardinality(HeardAddresses)
                        IN  IF EndsWindow(rt, in, ev)
                            THEN /\ next.phase.k # "Scanning"
                                 /\ next.completed.saturated = (n > CAPACITY)
                                 /\ next.completed.n = IF n > CAPACITY THEN CAPACITY ELSE n
                            ELSE next.completed = rt.completed
      BY Zenon DEF CountIsOfOneWindow
    <2>1. in \in AllInputs BY ReducerAssumption
    <2> QED BY <2>1, WindowCounts
  <1> QED BY <1>1, InitInv, NextInv, InitWindow, NextWindow, PTL DEF Spec

-----------------------------------------------------------------------------
(* The display.                                                            *)

LEMMA NextShows == Inv /\ ScreenIsLastFrame /\ [Next]_vars => ScreenIsLastFrame'
  <1> SUFFICES ASSUME Inv, ScreenIsLastFrame, [Next]_vars PROVE ScreenIsLastFrame'
    OBVIOUS
  <1>1. ASSUME NEW in \in AllInputs, NEW ev \in EventType, Do(in, ev)
        PROVE  ScreenIsLastFrame'
    <2> DEFINE s == Step(rt, now, in, ev)
    <2>1. Displayed(rt.last_frame, s.out) = s.self.last_frame
      BY StepShows DEF Inv, TypeOK, WipedOutsideScan
    <2>2. rt' = s.self /\ screen' = Displayed(screen, s.out) BY <1>1 DEF Do
    <2> HIDE DEF s
    <2> QED BY <2>1, <2>2 DEF ScreenIsLastFrame
  <1>2. CASE \/ Tick \/ Ready \/ StartResult \/ CancelResult \/ Complete \/ Report
             \/ SuspendRequest \/ Shutdown \/ Resume \/ View
    BY <1>1, <1>2, DoIsTheStep
  <1>3. CASE UNCHANGED <<rt, screen>>
    BY <1>3 DEF ScreenIsLastFrame
  <1>4. CASE Reboot
    BY <1>4 DEF Reboot, ScreenIsLastFrame, NewRuntime
  <1> QED BY <1>2, <1>3, <1>4 DEF Next, Advance, vars

(* What is on the display is what the reducer remembers to have shown,     *)
(* through view changes, the report fast path, alerts that end and the     *)
(* frames that are not presented again (Output::frame, last_frame).        *)
THEOREM ScreenIsRemembered == Spec => []ScreenIsLastFrame
  <1>1. Init => ScreenIsLastFrame
    BY DEF Init, ScreenIsLastFrame, NewRuntime
  <1> QED BY <1>1, InitInv, NextInv, NextShows, PTL DEF Spec

-----------------------------------------------------------------------------
(* The shutdown.                                                           *)

Drains(m) ==
    m.self.shutdown =>
        /\ m.self.phase.k \in {"Cancelling", "PowerWait", "Stopped"}
        /\ m.self.phase.k = "Cancelling" => m.self.shutdown_deadline # NoTime
        /\ m.out.actions \cap Working = {}

LEMMA FinishDrains ==
  ASSUME NEW m \in MachineType, NEW in \in AllInputs, NEW t \in Time, NEW ok \in BOOLEAN,
         Drains(m)
  PROVE  Drains(Finish(m, t, ok, in))
  <1> DEFINE n == Finish(m, t, ok, in)
  <1>1. /\ Kept(m, n)
        /\ m.self.shutdown => /\ n.self.phase.k \in {"Stopped", "PowerWait"}
                              /\ n.out.actions \cap Working \subseteq m.out.actions
    BY FinishKeeps
  <1> HIDE DEF n
  <1>2. Drains(n) BY <1>1 DEF Drains, Kept
  <1> QED BY <1>2 DEF n

(* A suspension drains even what was not draining, if it did not work and  *)
(* a cancellation would be watched. *)
LEMMA SuspendDrains ==
  ASSUME NEW m \in MachineType, NEW in \in AllInputs, NEW t \in Time, NEW after \in BOOLEAN,
         m.self.shutdown => /\ Busy(m) => m.self.shutdown_deadline # NoTime
                            /\ m.out.actions \cap Working = {}
  PROVE  Drains(Suspend(m, t, after, in))
  <1> DEFINE n == Suspend(m, t, after, in)
  <1>1. /\ Kept(m, n)
        /\ m.self.shutdown =>
             /\ n.self.phase.k \in {"Stopped", "PowerWait", "Cancelling"}
             /\ n.self.phase.k = "Cancelling" =>
                  /\ Busy(m)
                  /\ n.self.shutdown_deadline = m.self.shutdown_deadline
             /\ n.out.actions \cap Working \subseteq m.out.actions
    BY SuspendKeeps
  <1> HIDE DEF n
  <1>2. Drains(n) BY <1>1 DEF Drains, Kept
  <1> QED BY <1>2 DEF n

LEMMA DrainingIsWatched ==
  ASSUME NEW m, Drains(m)
  PROVE  m.self.shutdown => /\ Busy(m) => m.self.shutdown_deadline # NoTime
                            /\ m.out.actions \cap Working = {}
  BY DEF Drains, Busy, In

LEMMA OnReadyDrains ==
  ASSUME NEW m, Sound(m), Drains(m), NEW in \in AllInputs, NEW t \in Time, NEW ok \in BOOLEAN
  PROVE  Drains(OnReady(m, t, in, ok))
  <1> DEFINE known == [m EXCEPT !.self.ready = ok]
             n == OnReady(m, t, in, ok)
  <1>1. /\ known \in MachineType
        /\ known.self.phase = m.self.phase
        /\ known.self.shutdown = m.self.shutdown
        /\ known.self.shutdown_deadline = m.self.shutdown_deadline
        /\ known.out = m.out
    BY DEF Sound, MachineType, RuntimeType
  <1>2. /\ n \in {known, Suspend(known, t, FALSE, in)}
        \/ ~m.self.shutdown
    BY DEF OnReady
  <1>3. Drains(known) BY <1>1 DEF Drains
  <1>4. Drains(Suspend(known, t, FALSE, in))
    BY <1>1, <1>3, DrainingIsWatched, SuspendDrains
  <1>5. n.self.shutdown = m.self.shutdown
    BY OnReadyGathers DEF Sound
  <1> HIDE DEF known, n
  <1>6. Drains(n) BY <1>2, <1>3, <1>4, <1>5 DEF Drains
  <1> QED BY <1>6 DEF n

LEMMA OnShutdownDrains ==
  ASSUME NEW m, Sound(m), Drains(m), m.out.actions = {}, NEW in \in AllInputs, NEW t \in Time
  PROVE  Drains(OnShutdown(m, t, in))
  <1> DEFINE deadline == IF m.self.shutdown THEN m.self.shutdown_deadline
                         ELSE Wadd(t, SHUTDOWN_LIMIT)
             told == [m EXCEPT !.self.shutdown = TRUE,
                               !.self.shutdown_deadline = deadline]
  <1>1. deadline \in MaybeTime /\ (~m.self.shutdown => deadline # NoTime)
    <2>1. Wadd(t, SHUTDOWN_LIMIT) \in Time BY DeadlineType
    <2>2. NoTime \notin Time BY DEF NoTime, Time
    <2>3. m.self.shutdown_deadline \in MaybeTime BY DEF Sound, MachineType, RuntimeType
    <2> QED BY <2>1, <2>2, <2>3 DEF MaybeTime
  <1>2. m.self.shutdown => (Busy(m) => deadline # NoTime) BY DrainingIsWatched
  <1>3. OnShutdown(m, t, in) = Suspend(told, t, FALSE, in) BY DEF OnShutdown
  <1> HIDE DEF deadline
  <1>4. /\ told \in MachineType
        /\ told.self.phase = m.self.phase
        /\ told.self.shutdown_deadline = deadline
        /\ told.out = m.out
    BY <1>1 DEF Sound, MachineType, RuntimeType
  <1> HIDE DEF told
  <1>5. Busy(told) <=> Busy(m) BY <1>4 DEF Busy, In
  <1> QED BY <1>1, <1>2, <1>3, <1>4, <1>5, SuspendDrains

LEMMA HandleDrains ==
  ASSUME NEW m, Sound(m), Drains(m), m.out.actions = {},
         NEW in \in AllInputs, NEW t \in Time, NEW ev \in EventType
  PROVE  Drains(HandleEvent(m, t, in, ev))
  <1> DEFINE n == HandleEvent(m, t, in, ev)
  <1>0. m \in MachineType BY DEF Sound
  <1>1. CASE ev.kind = "Ready"
    BY <1>1, OnReadyDrains DEF HandleEvent, EventType
  <1>2. CASE ev.kind \in {"StartResult", "CancelResult", "Complete"}
    <2> DEFINE valid == ev.ok /\ In(m, {"Scanning"}) /\ in.allowed /\ ~in.connected
    <2>1. n \in {m, Finish(m, t, FALSE, in), Finish(m, t, valid, in)}
      BY <1>2 DEF HandleEvent, OnStartResult, OnCancelResult, OnComplete
    <2>2. valid \in BOOLEAN BY <1>2 DEF In, EventType
    <2> HIDE DEF valid, n
    <2>3. Drains(n) BY <1>0, <2>1, <2>2, FinishDrains
    <2> QED BY <2>3 DEF n
  <1>3. CASE ev.kind = "Report"
    <2>1. Hears(m, n, in, t, ev.address, ev.found) BY <1>3, ReportHears
    <2> HIDE DEF n
    <2>2. Drains(n) BY <2>1 DEF Hears, Drains
    <2> QED BY <2>2 DEF n
  <1>4. CASE ev.kind = "Suspend"
    BY <1>0, <1>4, DrainingIsWatched, SuspendDrains DEF HandleEvent, EventType
  <1>5. CASE ev.kind = "Shutdown"
    BY <1>5, OnShutdownDrains DEF HandleEvent
  <1>6. CASE ev.kind = "Resume"
    <2>1. n = OnResume(m, t) BY <1>6 DEF HandleEvent
    <2>2. ~n.self.shutdown BY <1>0, <2>1, OnResumeGathers
    <2> QED BY <2>2 DEF Drains
  <1>7. CASE ev.kind = "View"
    <2>1. n = OnView(m, t) BY <1>7 DEF HandleEvent
    <2>2. /\ OnView(m, t).self.phase = m.self.phase
          /\ OnView(m, t).self.shutdown = m.self.shutdown
          /\ OnView(m, t).self.shutdown_deadline = m.self.shutdown_deadline
          /\ OnView(m, t).out = m.out
      BY <1>0 DEF OnView, MachineType, RuntimeType
    <2> QED BY <2>1, <2>2 DEF Drains
  <1>8. CASE ev.kind = "Tick"
    BY <1>8 DEF HandleEvent
  <1> QED BY <1>1, <1>2, <1>3, <1>4, <1>5, <1>6, <1>7, <1>8 DEF EventType

LEMMA TickPhaseDrains ==
  ASSUME NEW m, Sound(m), Drains(m), NEW in \in AllInputs, NEW t \in Time
  PROVE  Drains(TickPhase(m, t, in))
  <1> DEFINE n == TickPhase(m, t, in)
  <1>0. m \in MachineType BY DEF Sound
  <1>1. CASE ~m.self.shutdown
    <2>1. n.self.shutdown = m.self.shutdown BY TickPhaseTicks DEF Ticks
    <2> QED BY <1>1, <2>1 DEF Drains
  <1>2. CASE m.self.shutdown
    <2>1. m.self.phase.k \in {"Cancelling", "PowerWait", "Stopped"}
      BY <1>2 DEF Drains
    <2>2. \/ n = m
          \/ m.self.phase.k = "Cancelling" /\ n = CancelAgain(m, t)
          \/ n = Finish(m, t, FALSE, in)
      <3>1. CASE m.self.phase.k = "Cancelling" BY <3>1 DEF TickPhase, In
      <3>2. CASE m.self.phase.k = "PowerWait" BY <3>2 DEF TickPhase, In
      <3>3. CASE m.self.phase.k = "Stopped" BY <3>3 DEF TickPhase, In
      <3> QED BY <2>1, <3>1, <3>2, <3>3
    <2> HIDE DEF n
    <2>3. CASE m.self.phase.k = "Cancelling" /\ n = CancelAgain(m, t)
      <3>1. "Cancelling" \in PhaseKind BY DEF PhaseKind
      <3>2. Wadd(t, RETRY) \in Time BY DeadlineType
      <3>3. {"cancel_scan"} \in SUBSET Command /\ {"cancel_scan"} \cap Working = {}
        BY DEF Command, Working
      <3>4. /\ n.self.phase.k = "Cancelling"
            /\ n.out.actions = m.out.actions \cup {"cancel_scan"}
            /\ n.self.shutdown_deadline = m.self.shutdown_deadline
        BY <1>0, <2>3, <3>1, <3>2, <3>3, EnterTicks DEF CancelAgain
      <3>5. Drains(n) BY <1>2, <2>3, <3>3, <3>4 DEF Drains
      <3> QED BY <3>5 DEF n
    <2>4. CASE n = Finish(m, t, FALSE, in)
      BY <1>0, <2>4, FinishDrains DEF n
    <2> QED BY <2>2, <2>3, <2>4 DEF n
  <1> QED BY <1>1, <1>2

LEMMA StepDrains ==
  ASSUME NEW self \in RuntimeType, self.phase.k # "Scanning" => self.counter = EmptyCounter,
         Drains(Begin(self)), NEW in \in AllInputs, NEW t \in Time, NEW ev \in EventType
  PROVE  Drains(Step(self, t, in, ev))
  <1> DEFINE m == Begin(self)
             h == HandleEvent(m, t, in, ev)
             x == IF ev.kind = "Tick" THEN TickPhase(h, t, in) ELSE h
             g == Guard(x, t, in)
             s == Step(self, t, in, ev)
  <1>1. /\ Sound(m) /\ Sound(h) /\ Sound(x) /\ Sound(g) /\ m.out = NoOutput
        /\ \/ FastPath(self, h, t, in, ev) /\ s = KeepFrameAndWake(h, t)
           \/ s = ResetOff(h)
           \/ s = Render(g, t, in)
    BY StepEnds
  <1>2. Drains(h)
    <2>1. m.out.actions = {} BY <1>1 DEF NoOutput
    <2> QED BY <1>1, <2>1, HandleDrains
  <1> HIDE DEF m, h, s
  <1>3. Drains(x) BY <1>1, <1>2, TickPhaseDrains
  <1> HIDE DEF x
  <1>4. Drains(g)
    <2>1. in.wants_advertising \in BOOLEAN BY DEF AllInputs
    <2>2. g \in {x, Suspend(x, t, in.wants_advertising, in)} BY DEF Guard
    <2>3. x \in MachineType BY <1>1 DEF Sound
    <2> QED BY <1>3, <2>1, <2>2, <2>3, DrainingIsWatched, SuspendDrains
  <1> HIDE DEF g
  <1>5. CASE FastPath(self, h, t, in, ev) /\ s = KeepFrameAndWake(h, t)
    <2>1. ~h.self.shutdown /\ s.self = h.self BY <1>1, <1>5, KeepKeeps DEF FastPath
    <2> QED BY <2>1 DEF Drains, s
  <1>6. CASE s = ResetOff(h)
    <2>1. s.self.phase.k = "Stopped" /\ s.out.actions = {"reset_off"}
      BY <1>1, <1>6, ResetOffClears, StoppedIsPhase
    <2>2. Drains(s) BY <2>1 DEF Drains, Working
    <2> QED BY <2>2 DEF s
  <1>7. CASE s = Render(g, t, in)
    <2>1. /\ s.self.phase = g.self.phase
          /\ s.self.shutdown = g.self.shutdown
          /\ s.self.shutdown_deadline = g.self.shutdown_deadline
          /\ s.out.actions = g.out.actions
      BY <1>1, <1>7, RenderShows
    <2>2. Drains(s) BY <1>4, <2>1 DEF Drains
    <2> QED BY <2>2 DEF s
  <1> QED BY <1>1, <1>5, <1>6, <1>7

LEMMA NextDrains == Inv /\ ShutdownOnlyDrains /\ [Next]_vars => ShutdownOnlyDrains'
  <1> SUFFICES ASSUME Inv, ShutdownOnlyDrains, [Next]_vars PROVE ShutdownOnlyDrains'
    OBVIOUS
  <1>1. ASSUME NEW in \in AllInputs, NEW ev \in EventType, Do(in, ev)
        PROVE  ShutdownOnlyDrains'
    <2> DEFINE s == Step(rt, now, in, ev)
    <2>1. Drains(Begin(rt))
      BY DEF ShutdownOnlyDrains, Drains, Begin, NoOutput
    <2>2. Drains(s)
      BY <2>1, StepDrains DEF Inv, TypeOK, WipedOutsideScan
    <2>3. rt' = s.self /\ out' = s.out BY <1>1 DEF Do
    <2> HIDE DEF s
    <2> QED BY <2>2, <2>3 DEF Drains, ShutdownOnlyDrains, Working
  <1>2. CASE \/ Tick \/ Ready \/ StartResult \/ CancelResult \/ Complete \/ Report
             \/ SuspendRequest \/ Shutdown \/ Resume \/ View
    BY <1>1, <1>2, DoIsTheStep
  <1>3. CASE UNCHANGED <<rt, out>>
    BY <1>3 DEF ShutdownOnlyDrains
  <1>4. CASE Reboot
    <2>1. rt'.shutdown = FALSE BY <1>4 DEF Reboot, NewRuntime
    <2> QED BY <2>1 DEF ShutdownOnlyDrains
  <1> QED BY <1>2, <1>3, <1>4 DEF Next, Advance, vars

(* From the request to power off until the mode controller resumes, no     *)
(* event, however late or repeated, starts the radio again, and a          *)
(* cancellation under way is watched (suspend, finish, Event::Ready).      *)
THEOREM ShutdownDrains == Spec => []ShutdownOnlyDrains
  <1>1. Init => ShutdownOnlyDrains
    BY DEF Init, ShutdownOnlyDrains, NewRuntime
  <1> QED BY <1>1, InitInv, NextInv, NextDrains, PTL DEF Spec

LEMMA EnterNear ==
  ASSUME NEW m \in MachineType, NEW t \in Time, Near(m, t), NEW k \in PhaseKind,
         NEW d \in {FIRST, RETRY, QUIET, NEXT_SCAN, WATCHDOG, SHUTDOWN_LIMIT},
         NEW c \in SUBSET Command
  PROVE  /\ Near(Enter(m, k, Wadd(t, d)), t)
         /\ Near(Emit(Enter(m, k, Wadd(t, d)), c), t)
         /\ Enter(m, k, Wadd(t, d)) \in MachineType
  <1> DEFINE at == Wadd(t, d)
             n == Enter(m, k, at)
  <1>1. at \in Time /\ Ahead(t, at) BY FreshDeadline
  <1> HIDE DEF at
  <1>2. n \in MachineType /\ n.self.phase.at = at
        /\ n.self.shutdown_deadline = m.self.shutdown_deadline
    BY <1>1, EnterKeeps
  <1> HIDE DEF n
  <1>3. Near(n, t) BY <1>1, <1>2 DEF Near
  <1>4. Emit(n, c).self = n.self BY <1>2, EmitKeeps
  <1>5. Near(Emit(n, c), t) BY <1>3, <1>4 DEF Near
  <1> QED BY <1>2, <1>3, <1>5 DEF n, at

(* Changing neither the phase nor the shutdown's deadline, or taking them  *)
(* away, keeps deadlines near. *)
LEMMA SameNear ==
  ASSUME NEW m, NEW n, NEW t, Near(m, t),
         n.self.phase = m.self.phase \/ n.self.phase = Stopped,
         n.self.shutdown_deadline \in {m.self.shutdown_deadline, NoTime}
  PROVE  Near(n, t)
  <1>1. n.self.phase.k # "Stopped" => n.self.phase = m.self.phase
    BY StoppedIsPhase
  <1> QED BY <1>1 DEF Near

LEMMA FinishNear ==
  ASSUME NEW m \in MachineType, NEW in \in AllInputs, NEW t \in Time, NEW ok \in BOOLEAN,
         Near(m, t)
  PROVE  Near(Finish(m, t, ok, in), t)
  <1> DEFINE counted == Clear(IF ok THEN Publish(m) ELSE m)
             stopped == [counted EXCEPT !.self.phase = Stopped,
                                        !.self.shutdown_deadline = NoTime]
             asked == {"stop_advertising"}
                        \cup (IF in.connected THEN {"disconnect"} ELSE {})
             ended == IF m.self.shutdown THEN FinishShutdown(counted, t, in)
                      ELSE FinishWindow(counted, t, ok, in)
  <1>1. counted \in MachineType /\ Near(counted, t)
    <2> DEFINE told == IF ok THEN Publish(m) ELSE m
    <2>1. told \in MachineType BY PublishSound
    <2>2. /\ told.self.phase = m.self.phase
          /\ told.self.shutdown_deadline = m.self.shutdown_deadline
      BY DEF Publish, MachineType, RuntimeType
    <2> HIDE DEF told
    <2>3. /\ Clear(told) \in MachineType
          /\ Clear(told).self.phase = m.self.phase
          /\ Clear(told).self.shutdown_deadline = m.self.shutdown_deadline
      BY <2>1, <2>2, ClearKeeps, ClearSound DEF Empty
    <2>4. Near(Clear(told), t) BY <2>3, SameNear
    <2> QED BY <2>3, <2>4 DEF told
  <1> HIDE DEF counted
  <1>2. /\ {"Waiting", "Offline", "PowerWait"} \subseteq PhaseKind
        /\ asked \in SUBSET Command /\ {"advertise"} \in SUBSET Command
        /\ {"shutdown_idle"} \in SUBSET Command
    BY DEF PhaseKind, Command
  <1>3. stopped \in MachineType /\ Near(Emit(stopped, {"shutdown_idle"}), t)
    <2>1. /\ stopped \in MachineType
          /\ stopped.self.phase = Stopped
          /\ stopped.self.shutdown_deadline = NoTime
      BY <1>1, StoppedIsPhase DEF MachineType, RuntimeType, MaybeTime
    <2> HIDE DEF stopped
    <2>2. Emit(stopped, {"shutdown_idle"}).self = stopped.self BY <2>1, EmitKeeps
    <2> QED BY <1>1, <2>1, <2>2, SameNear
  <1>4. Near(Emit(Enter(counted, "PowerWait", Wadd(t, QUIET)), asked), t)
    BY <1>1, <1>2, EnterNear
  <1>5. FinishShutdown(counted, t, in) \in
          {Emit(stopped, {"shutdown_idle"}),
           Emit(Enter(counted, "PowerWait", Wadd(t, QUIET)), asked)}
    BY DEF FinishShutdown
  <1>6. ASSUME NEW k \in {"Waiting", "Offline"}, NEW d \in {NEXT_SCAN, RETRY}
        PROVE  /\ Near(Enter(counted, k, Wadd(t, d)), t)
               /\ Near(Emit(Enter(counted, k, Wadd(t, d)), {"advertise"}), t)
    BY <1>1, <1>2, EnterNear
  <1>7. \E k \in {"Waiting", "Offline"}, d \in {NEXT_SCAN, RETRY} :
          FinishWindow(counted, t, ok, in) \in
            {Enter(counted, k, Wadd(t, d)),
             Emit(Enter(counted, k, Wadd(t, d)), {"advertise"})}
    BY DEF FinishWindow
  <1> HIDE DEF stopped, asked
  <1>8. Near(ended, t) BY <1>3, <1>4, <1>5, <1>6, <1>7
  <1>9. ended \in MachineType
    <2>1. Empty(counted) BY PublishSound, ClearSound DEF counted
    <2> QED BY <2>1, FinishShutdownSound, FinishWindowSound DEF Empty
  <1>10. Finish(m, t, ok, in) = [ended EXCEPT !.self.restore_advertising = FALSE,
                                              !.self.advertise_after = FALSE]
    BY DEF Finish, counted
  <1> HIDE DEF ended
  <1> DEFINE n == [ended EXCEPT !.self.restore_advertising = FALSE,
                                !.self.advertise_after = FALSE]
  <1>11. /\ n.self.phase = ended.self.phase
         /\ n.self.shutdown_deadline = ended.self.shutdown_deadline
    BY <1>9 DEF MachineType, RuntimeType
  <1> HIDE DEF n
  <1>12. Near(n, t) BY <1>8, <1>11, SameNear
  <1> QED BY <1>10, <1>12 DEF n

LEMMA SuspendNear ==
  ASSUME NEW m \in MachineType, NEW in \in AllInputs, NEW t \in Time, NEW after \in BOOLEAN,
         Near(m, t)
  PROVE  Near(Suspend(m, t, after, in), t)
  <1> DEFINE cleared == Clear(m)
             wiped == [cleared EXCEPT
                         !.self.alert = NoAlert,
                         !.self.restore_advertising = FALSE,
                         !.self.advertise_after = after /\ ~m.self.shutdown]
             idle == Finish(wiped, t, FALSE, in)
             quietly == [idle EXCEPT !.out.actions = @ \ {"advertise"}]
             n == Suspend(m, t, after, in)
  <1>1. wiped \in MachineType /\ Near(wiped, t)
    <2>1. /\ cleared \in MachineType
          /\ cleared.self.phase = m.self.phase
          /\ cleared.self.shutdown_deadline = m.self.shutdown_deadline
      BY ClearSound, ClearKeeps DEF Empty
    <2>2. (after /\ ~m.self.shutdown) \in BOOLEAN OBVIOUS
    <2> HIDE DEF cleared
    <2>3. /\ wiped \in MachineType
          /\ wiped.self.phase = m.self.phase
          /\ wiped.self.shutdown_deadline = m.self.shutdown_deadline
      BY <2>1, <2>2, NoAlertType, ZenonT(60) DEF MachineType, RuntimeType
    <2> HIDE DEF wiped
    <2> QED BY <2>3, SameNear
  <1>2. n \in {Emit(Enter(wiped, "Cancelling", Wadd(t, RETRY)), {"cancel_scan"}), quietly}
    BY DEF Suspend
  <1> HIDE DEF wiped
  <1>3. idle \in MachineType /\ Near(idle, t) BY <1>1, FinishSound, FinishNear DEF Empty
  <1> HIDE DEF idle
  <1>4. Near(quietly, t)
    <2>1. quietly.self = idle.self BY <1>3 DEF MachineType
    <2> HIDE DEF quietly
    <2> QED BY <1>3, <2>1, SameNear
  <1>5. Near(Emit(Enter(wiped, "Cancelling", Wadd(t, RETRY)), {"cancel_scan"}), t)
    <2>1. "Cancelling" \in PhaseKind /\ {"cancel_scan"} \in SUBSET Command
      BY DEF PhaseKind, Command
    <2> QED BY <1>1, <2>1, EnterNear
  <1> HIDE DEF n, quietly
  <1>6. Near(n, t) BY <1>2, <1>4, <1>5
  <1> QED BY <1>6 DEF n

LEMMA OnReadyNear ==
  ASSUME NEW m \in MachineType, NEW in \in AllInputs, NEW t \in Time, NEW ok \in BOOLEAN,
         Near(m, t)
  PROVE  Near(OnReady(m, t, in, ok), t)
  <1> DEFINE known == [m EXCEPT !.self.ready = ok]
             n == OnReady(m, t, in, ok)
  <1>1. known \in MachineType /\ Near(known, t)
    <2>1. /\ known \in MachineType
          /\ known.self.phase = m.self.phase
          /\ known.self.shutdown_deadline = m.self.shutdown_deadline
      BY DEF MachineType, RuntimeType
    <2> HIDE DEF known
    <2> QED BY <2>1, SameNear
  <1>2. n \in {known, Suspend(known, t, FALSE, in), Enter(known, "Waiting", Wadd(t, FIRST)),
               Enter(known, "Offline", Wadd(t, RETRY))}
    BY DEF OnReady
  <1>3. {"Waiting", "Offline"} \subseteq PhaseKind /\ {} \in SUBSET Command
    BY DEF PhaseKind
  <1> HIDE DEF known, n
  <1>4. Near(Suspend(known, t, FALSE, in), t) BY <1>1, SuspendNear
  <1>5. /\ Near(Enter(known, "Waiting", Wadd(t, FIRST)), t)
        /\ Near(Enter(known, "Offline", Wadd(t, RETRY)), t)
    BY <1>1, <1>3, EnterNear
  <1>6. Near(n, t) BY <1>1, <1>2, <1>4, <1>5
  <1> QED BY <1>6 DEF n

LEMMA OnShutdownNear ==
  ASSUME NEW m \in MachineType, NEW in \in AllInputs, NEW t \in Time, Near(m, t)
  PROVE  Near(OnShutdown(m, t, in), t)
  <1> DEFINE deadline == IF m.self.shutdown THEN m.self.shutdown_deadline
                         ELSE Wadd(t, SHUTDOWN_LIMIT)
             told == [m EXCEPT !.self.shutdown = TRUE,
                               !.self.shutdown_deadline = deadline]
  <1>1. deadline \in MaybeTime /\ (deadline # NoTime => Ahead(t, deadline))
    <2>1. m.self.shutdown_deadline \in MaybeTime BY DEF MachineType, RuntimeType
    <2> QED BY <2>1, FreshDeadline DEF Near, MaybeTime
  <1>2. OnShutdown(m, t, in) = Suspend(told, t, FALSE, in) BY DEF OnShutdown
  <1> HIDE DEF deadline
  <1>3. /\ told \in MachineType
        /\ told.self.phase = m.self.phase
        /\ told.self.shutdown_deadline = deadline
    BY <1>1 DEF MachineType, RuntimeType
  <1> HIDE DEF told
  <1>4. Near(told, t) BY <1>1, <1>3 DEF Near
  <1> QED BY <1>2, <1>3, <1>4, SuspendNear

LEMMA OnResumeNear ==
  ASSUME NEW m \in MachineType, NEW t \in Time, Near(m, t)
  PROVE  Near(OnResume(m, t), t)
  <1> DEFINE told == [m EXCEPT !.self.shutdown = FALSE,
                               !.self.shutdown_deadline = NoTime,
                               !.self.advertise_after = FALSE]
             n == OnResume(m, t)
  <1>1. /\ told \in MachineType
        /\ told.self.phase = m.self.phase
        /\ told.self.shutdown_deadline = NoTime
    BY DEF MachineType, RuntimeType, MaybeTime
  <1>2. n \in {told, Enter(told, "Waiting", Wadd(t, QUIET))} BY DEF OnResume
  <1> HIDE DEF told, n
  <1>3. Near(told, t) BY <1>1, SameNear
  <1>4. "Waiting" \in PhaseKind /\ {} \in SUBSET Command BY DEF PhaseKind
  <1>5. Near(Enter(told, "Waiting", Wadd(t, QUIET)), t) BY <1>1, <1>3, <1>4, EnterNear
  <1>6. Near(n, t) BY <1>2, <1>3, <1>5
  <1> QED BY <1>6 DEF n

LEMMA HandleNear ==
  ASSUME NEW m, Sound(m), NEW in \in AllInputs, NEW t \in Time, Near(m, t), NEW ev \in EventType
  PROVE  Near(HandleEvent(m, t, in, ev), t)
  <1> DEFINE n == HandleEvent(m, t, in, ev)
  <1>0. m \in MachineType BY DEF Sound
  <1>1. CASE ev.kind = "Ready"
    BY <1>0, <1>1, OnReadyNear DEF HandleEvent, EventType
  <1>2. CASE ev.kind \in {"StartResult", "CancelResult", "Complete"}
    <2> DEFINE valid == ev.ok /\ In(m, {"Scanning"}) /\ in.allowed /\ ~in.connected
    <2>1. n \in {m, Finish(m, t, FALSE, in), Finish(m, t, valid, in)}
      BY <1>2 DEF HandleEvent, OnStartResult, OnCancelResult, OnComplete
    <2>2. valid \in BOOLEAN BY <1>2 DEF In, EventType
    <2> HIDE DEF valid, n
    <2>3. Near(n, t) BY <1>0, <2>1, <2>2, FinishNear
    <2> QED BY <2>3 DEF n
  <1>3. CASE ev.kind = "Report"
    <2>1. Hears(m, n, in, t, ev.address, ev.found) BY <1>3, ReportHears
    <2> HIDE DEF n
    <2>2. Near(n, t) BY <2>1, SameNear DEF Hears
    <2> QED BY <2>2 DEF n
  <1>4. CASE ev.kind = "Suspend"
    BY <1>0, <1>4, SuspendNear DEF HandleEvent, EventType
  <1>5. CASE ev.kind = "Shutdown"
    BY <1>0, <1>5, OnShutdownNear DEF HandleEvent
  <1>6. CASE ev.kind = "Resume"
    BY <1>0, <1>6, OnResumeNear DEF HandleEvent
  <1>7. CASE ev.kind = "View"
    <2>1. n = OnView(m, t) BY <1>7 DEF HandleEvent
    <2>2. /\ OnView(m, t).self.phase = m.self.phase
          /\ OnView(m, t).self.shutdown_deadline = m.self.shutdown_deadline
      BY <1>0 DEF OnView, MachineType, RuntimeType
    <2> HIDE DEF n
    <2>3. Near(n, t) BY <2>1, <2>2, SameNear
    <2> QED BY <2>3 DEF n
  <1>8. CASE ev.kind = "Tick"
    BY <1>8 DEF HandleEvent
  <1> QED BY <1>1, <1>2, <1>3, <1>4, <1>5, <1>6, <1>7, <1>8 DEF EventType

LEMMA WaitingIsOverNear ==
  ASSUME NEW m \in MachineType, NEW in \in AllInputs, NEW t \in Time, Near(m, t)
  PROVE  Near(WaitingIsOver(m, t, in), t)
  <1> DEFINE on == in.advertising = "on"
             cleared == Clear(m)
             quiet == [cleared EXCEPT !.self.detected = NoDetection,
                                      !.self.alert = NoAlert,
                                      !.self.restore_advertising = on]
             asked == IF on THEN {"stop_advertising"} ELSE {}
             n == WaitingIsOver(m, t, in)
  <1>1. quiet \in MachineType /\ Near(quiet, t)
    <2>1. /\ cleared \in MachineType
          /\ cleared.self.phase = m.self.phase
          /\ cleared.self.shutdown_deadline = m.self.shutdown_deadline
      BY ClearSound, ClearKeeps DEF Empty
    <2> HIDE DEF cleared
    <2>2. /\ quiet \in MachineType
          /\ quiet.self.phase = m.self.phase
          /\ quiet.self.shutdown_deadline = m.self.shutdown_deadline
      BY <2>1, NoAlertType, ZenonT(60) DEF MachineType, RuntimeType
    <2> HIDE DEF quiet
    <2> QED BY <2>2, SameNear
  <1>2. {"Quiet", "Waiting"} \subseteq PhaseKind BY DEF PhaseKind
  <1>3. asked \in SUBSET Command BY DEF Command
  <1>4. n \in {Emit(Enter(quiet, "Quiet", Wadd(t, QUIET)), asked),
               Enter(m, "Waiting", Wadd(t, RETRY))}
    BY DEF WaitingIsOver
  <1> HIDE DEF quiet, asked, n
  <1>5. Near(Emit(Enter(quiet, "Quiet", Wadd(t, QUIET)), asked), t)
    BY <1>1, <1>2, <1>3, EnterNear
  <1>6. Near(Enter(m, "Waiting", Wadd(t, RETRY)), t)
    BY <1>2, <1>3, EnterNear
  <1>7. Near(n, t) BY <1>4, <1>5, <1>6
  <1> QED BY <1>7 DEF n

LEMMA TickPhaseNear ==
  ASSUME NEW m, Sound(m), NEW in \in AllInputs, NEW t \in Time, Near(m, t)
  PROVE  Near(TickPhase(m, t, in), t)
  <1> DEFINE n == TickPhase(m, t, in)
             cleared == Clear(m)
  <1>0. m \in MachineType BY DEF Sound
  <1>1. {"Offline", "Scanning", "Cancelling"} \subseteq PhaseKind BY DEF PhaseKind
  <1>2. {"start_role"} \in SUBSET Command /\ {"start_scan"} \in SUBSET Command
        /\ {"cancel_scan"} \in SUBSET Command BY DEF Command
  <1>3. cleared \in MachineType /\ Near(cleared, t)
    <2>1. /\ cleared \in MachineType
          /\ cleared.self.phase = m.self.phase
          /\ cleared.self.shutdown_deadline = m.self.shutdown_deadline
      BY <1>0, ClearSound, ClearKeeps DEF Empty
    <2> HIDE DEF cleared
    <2> QED BY <2>1, SameNear
  <1>4. \/ n = m
        \/ n = Emit(Enter(m, "Offline", Wadd(t, RETRY)), {"start_role"})
        \/ n = WaitingIsOver(m, t, in)
        \/ n = Emit(Enter(m, "Scanning", Wadd(t, WATCHDOG)), {"start_scan"})
        \/ n = Emit(Enter(cleared, "Cancelling", Wadd(t, RETRY)), {"cancel_scan"})
        \/ n = Emit(Enter(m, "Cancelling", Wadd(t, RETRY)), {"cancel_scan"})
        \/ n = Finish(m, t, FALSE, in)
    <2>1. CASE In(m, {"Stopped"}) \/ ~Due(t, m.self.phase.at)
      BY <2>1 DEF TickPhase
    <2>2. CASE ~(In(m, {"Stopped"}) \/ ~Due(t, m.self.phase.at))
      <3> USE <2>2
      <3>1. CASE In(m, {"Offline"}) BY <3>1 DEF TickPhase, In
      <3>2. CASE In(m, {"Waiting"}) BY <3>2 DEF TickPhase, In
      <3>3. CASE In(m, {"Quiet"})
        <4>1. n = QuietIsOver(m, t, in) BY <3>3 DEF TickPhase, In
        <4> QED BY <4>1 DEF QuietIsOver
      <3>4. CASE In(m, {"Scanning"}) BY <3>4 DEF TickPhase, In, CancelAgain
      <3>5. CASE In(m, {"Cancelling"}) BY <3>5 DEF TickPhase, In, CancelAgain
      <3>6. CASE In(m, {"PowerWait"}) BY <3>6 DEF TickPhase, In
      <3> QED BY <3>1, <3>2, <3>3, <3>4, <3>5, <3>6 DEF TickPhase, In
    <2> QED BY <2>1, <2>2
  <1> HIDE DEF n, cleared
  <1>5. /\ Near(Emit(Enter(m, "Offline", Wadd(t, RETRY)), {"start_role"}), t)
        /\ Near(Emit(Enter(m, "Scanning", Wadd(t, WATCHDOG)), {"start_scan"}), t)
        /\ Near(Emit(Enter(cleared, "Cancelling", Wadd(t, RETRY)), {"cancel_scan"}), t)
        /\ Near(Emit(Enter(m, "Cancelling", Wadd(t, RETRY)), {"cancel_scan"}), t)
    BY <1>0, <1>1, <1>2, <1>3, EnterNear
  <1>6. Near(WaitingIsOver(m, t, in), t) BY <1>0, WaitingIsOverNear
  <1>7. Near(Finish(m, t, FALSE, in), t) BY <1>0, FinishNear
  <1>8. Near(n, t) BY <1>4, <1>5, <1>6, <1>7
  <1> QED BY <1>8 DEF n

LEMMA GuardNear ==
  ASSUME NEW m, Sound(m), NEW in \in AllInputs, NEW t \in Time, Near(m, t)
  PROVE  Near(Guard(m, t, in), t)
  <1>1. in.wants_advertising \in BOOLEAN BY DEF AllInputs
  <1>2. Guard(m, t, in) \in {m, Suspend(m, t, in.wants_advertising, in)} BY DEF Guard
  <1> QED BY <1>1, <1>2, SuspendNear DEF Sound

-----------------------------------------------------------------------------
(* A whole step, seen from the clock: it either keeps the picture, the     *)
(* deadlines and the wake, or stops everything, or chooses the picture and *)
(* the wake anew, for deadlines that lie ahead.                            *)

LEMMA StepTimes ==
  ASSUME NEW self \in RuntimeType, self.phase.k # "Scanning" => self.counter = EmptyCounter,
         NEW in \in AllInputs, NEW t \in Time, NEW ev \in EventType
  PROVE  LET s == Step(self, t, in, ev)
         IN  \/ /\ s.self.phase = self.phase
                /\ s.self.shutdown_deadline = self.shutdown_deadline
                /\ s.self.next_wake = self.next_wake
                /\ s.self.frog_epoch = self.frog_epoch /\ ev.kind = "Report"
                /\ s.self.last_frame = self.last_frame
                /\ s.self.alert = self.alert
             \/ s.self.phase = Stopped /\ s.self.shutdown_deadline = NoTime
                  /\ s.self.last_frame = NoFrame
             \/ \E g : /\ Sound(g) /\ s = Render(g, t, in)
                       /\ Near(Begin(self), t) => Near(g, t)
  <1> DEFINE m == Begin(self)
             h == HandleEvent(m, t, in, ev)
             x == IF ev.kind = "Tick" THEN TickPhase(h, t, in) ELSE h
             g == Guard(x, t, in)
             s == Step(self, t, in, ev)
  <1>1. /\ Sound(m) /\ Sound(h) /\ Sound(x) /\ Sound(g) /\ m.self = self
        /\ \/ FastPath(self, h, t, in, ev) /\ s = KeepFrameAndWake(h, t)
           \/ s = ResetOff(h)
           \/ s = Render(g, t, in)
    BY StepEnds
  <1>2. Near(m, t) => Near(h, t) BY <1>1, HandleNear
  <1>3. Near(m, t) => Near(x, t) BY <1>1, <1>2, TickPhaseNear
  <1>4. Near(m, t) => Near(g, t) BY <1>1, <1>3, GuardNear
  <1>5. FastPath(self, h, t, in, ev) =>
          /\ Hears(m, h, in, t, ev.address, ev.found)
          /\ h.self.alert = self.alert /\ ev.kind = "Report"
    BY <1>1, ReportHears DEF FastPath
  <1>6. ResetOff(h).self.shutdown_deadline = NoTime
    <2> DEFINE cleared == Clear(h)
               off == [cleared EXCEPT !.self.alert = NoAlert,
                                      !.self.last_frame = NoFrame,
                                      !.self.shutdown_deadline = NoTime,
                                      !.self.phase = Stopped]
    <2>1. cleared \in MachineType BY <1>1, ClearSound DEF Sound, Empty
    <2>2. ResetOff(h) = [off EXCEPT !.out = [NoOutput EXCEPT !.actions = {"reset_off"}]]
      BY DEF ResetOff
    <2> HIDE DEF cleared
    <2>3. off \in MachineType /\ off.self.shutdown_deadline = NoTime
      BY <2>1, NoAlertType, NoFrameType, StoppedIsPhase
         DEF MachineType, RuntimeType, MaybeTime
    <2> HIDE DEF off
    <2> QED BY <2>2, <2>3 DEF MachineType
  <1> HIDE DEF m, h, x, g, s
  <1>7. CASE FastPath(self, h, t, in, ev) /\ s = KeepFrameAndWake(h, t)
    <2>1. s.self = h.self BY <1>1, <1>7, KeepKeeps
    <2> QED BY <1>1, <1>5, <1>7, <2>1 DEF Hears, s
  <1>8. CASE s = ResetOff(h)
    BY <1>1, <1>6, <1>8, ResetOffClears DEF s
  <1>9. CASE s = Render(g, t, in)
    BY <1>1, <1>4, <1>9 DEF s, m
  <1> QED BY <1>1, <1>7, <1>8, <1>9

(* While deadlines wait, the wake lies between now and the nearest, and    *)
(* they all lie less than half a turn ahead. *)
Watched ==
    \A at \in Pending :
        /\ rt.next_wake \in Time
        /\ Wsub(rt.next_wake, now) <= Wsub(at, now)
        /\ Ahead(now, at)

LEMMA PendingType == TypeOK => Pending \subseteq Time
  BY DEF TypeOK, Pending, PhaseDeadline, RuntimeType, Phase, MaybeTime

LEMMA WatchedIsNear == ASSUME TypeOK, Watched PROVE Near(Begin(rt), now)
  <1>1. Begin(rt).self = rt BY DEF Begin
  <1>2. rt.phase.at # NoTime
    <2>1. rt.phase.at \in Time BY DEF TypeOK, RuntimeType, Phase
    <2> QED BY <2>1 DEF Time, NoTime
  <1>3. rt.phase.k # "Stopped" => rt.phase.at \in Pending
    BY <1>2 DEF Pending, PhaseDeadline
  <1>4. rt.shutdown_deadline # NoTime => rt.shutdown_deadline \in Pending
    BY DEF Pending
  <1> QED BY <1>1, <1>3, <1>4 DEF Near, Watched

LEMMA DoWatched ==
  ASSUME Inv, Watched, NEW in \in AllInputs, NEW ev \in EventType, Do(in, ev)
  PROVE  Watched'
  <1> DEFINE s == Step(rt, now, in, ev)
  <1>1. /\ rt' = s.self /\ now' = now /\ now \in Time
        /\ rt \in RuntimeType /\ Sound(s)
    BY StepSound DEF Do, Inv, TypeOK, WipedOutsideScan
  <1>2. \/ /\ rt'.phase = rt.phase
           /\ rt'.shutdown_deadline = rt.shutdown_deadline
           /\ rt'.next_wake = rt.next_wake
        \/ rt'.phase = Stopped /\ rt'.shutdown_deadline = NoTime
        \/ \E g : Sound(g) /\ Near(g, now) /\ s = Render(g, now, in)
    BY <1>1, WatchedIsNear, StepTimes DEF Inv, WipedOutsideScan
  <1> HIDE DEF s
  <1>3. CASE /\ rt'.phase = rt.phase
             /\ rt'.shutdown_deadline = rt.shutdown_deadline
             /\ rt'.next_wake = rt.next_wake
    <2>1. Pending' = Pending BY <1>3 DEF Pending, PhaseDeadline
    <2> QED BY <1>1, <1>3, <2>1 DEF Watched, Ahead
  <1>4. CASE rt'.phase = Stopped /\ rt'.shutdown_deadline = NoTime
    <2>1. Pending' = {} BY <1>4, StoppedIsPhase DEF Pending, PhaseDeadline
    <2> QED BY <2>1 DEF Watched
  <1>5. CASE \E g : Sound(g) /\ Near(g, now) /\ s = Render(g, now, in)
    <2>1. PICK g : Sound(g) /\ Near(g, now) /\ s = Render(g, now, in) BY <1>5
    <2>2. /\ rt'.phase = g.self.phase
          /\ rt'.shutdown_deadline = g.self.shutdown_deadline
          /\ rt'.next_wake = NextWake(g.self, now, in)
      BY <1>1, <2>1, RenderShows
    <2>3. g.self \in RuntimeType BY <2>1 DEF Sound, MachineType
    <2>4. /\ Covers(now, rt'.next_wake, PhaseDeadline(g.self))
          /\ Covers(now, rt'.next_wake, g.self.shutdown_deadline)
      BY <1>1, <2>2, <2>3, NextWakeCovers
    <2>5. Pending' = {PhaseDeadline(g.self), g.self.shutdown_deadline} \ {NoTime}
      BY <2>2 DEF Pending, PhaseDeadline
    <2>6. ASSUME NEW at \in Pending'
          PROVE  /\ rt'.next_wake \in Time
                 /\ Wsub(rt'.next_wake, now) <= Wsub(at, now)
                 /\ Ahead(now, at)
      <3>1. at # NoTime BY <2>5
      <3>2. CASE at = PhaseDeadline(g.self)
        <4>1. g.self.phase.k # "Stopped" /\ at = g.self.phase.at
          BY <3>1, <3>2 DEF PhaseDeadline
        <4> QED BY <2>1, <2>4, <3>1, <3>2, <4>1 DEF Covers, Near
      <3>3. CASE at = g.self.shutdown_deadline
        BY <2>1, <2>4, <3>1, <3>3 DEF Covers, Near
      <3> QED BY <2>5, <3>2, <3>3
    <2> QED BY <1>1, <2>6 DEF Watched, Ahead
  <1> QED BY <1>2, <1>3, <1>4, <1>5

(* A wake that is served on time is never passed. *)
LEMMA AdvanceWatched ==
  ASSUME MaxLag = 0, Inv, Watched, Advance
  PROVE  Watched'
  <1>1. PICK d \in 1 .. STRIDE : ~Overtaken(Wadd(now, d)) /\ now' = Wadd(now, d)
    BY DEF Advance
  <1>2. rt' = rt /\ Pending' = Pending BY DEF Advance, Pending, PhaseDeadline
  <1>3. /\ d \in Nat /\ d < HalfTurn /\ d < W /\ now \in Time
        /\ HalfTurn \in Nat /\ W = 2 * HalfTurn
    <2>1. d \in Nat /\ d <= STRIDE /\ STRIDE \in Nat BY ReducerAssumption
    <2>2. STRIDE < HalfTurn BY LagAssumption, ReducerAssumption, <2>1, HalfTurnIs DEF HalfTurn
    <2> QED BY <2>1, <2>2, HalfTurnIs DEF Inv, TypeOK
  <1>4. ASSUME NEW at \in Pending
        PROVE  /\ rt.next_wake \in Time
               /\ Wsub(rt.next_wake, now') <= Wsub(at, now')
               /\ Ahead(now', at)
    <2> DEFINE a == Wsub(at, now)
               w == Wsub(rt.next_wake, now)
    <2>1. at \in Time BY PendingType DEF Inv
    <2>2. rt.next_wake \in Time /\ w <= a /\ a < HalfTurn BY DEF Watched, Ahead
    <2>3. a \in Nat /\ w \in Nat BY <1>3, <2>1, <2>2, WsubType, ZeroIsTime
    <2>4. now' \in Time BY <1>1, <1>3, WsubOfWadd
    <2>5. Wsub(now', rt.next_wake) =
            IF d <= w THEN (IF d = w THEN 0 ELSE W - (w - d)) ELSE d - w
      <3>1. Wsub(rt.next_wake, now') = IF d <= w THEN w - d ELSE w - d + W
        BY <1>1, <1>3, <2>2, WsubAdvances
      <3>2. Wsub(now', rt.next_wake) = IF Wsub(rt.next_wake, now') = 0 THEN 0
                                       ELSE W - Wsub(rt.next_wake, now')
        BY <2>2, <2>4, WsubTurns
      <3> HIDE DEF w
      <3> QED BY <1>3, <2>3, <3>1, <3>2
    <2>6. d <= w
      <3>1. rt.next_wake # NoTime BY <2>2 DEF Time, NoTime
      <3>2. ~(Wsub(now', rt.next_wake) < HalfTurn /\ Wsub(now', rt.next_wake) > 0)
        BY <1>1, <3>1 DEF Overtaken, Due, HalfTurn
      <3> HIDE DEF w, a
      <3> QED BY <1>3, <2>2, <2>3, <2>5, <3>2
    <2>7. /\ Wsub(rt.next_wake, now') = w - d
          /\ Wsub(at, now') = a - d
      <3>1. Wsub(rt.next_wake, now') = w - d BY <1>1, <1>3, <2>2, <2>6, WsubAdvances
      <3>2. d <= a BY <1>3, <2>2, <2>3, <2>6
      <3>3. Wsub(at, now') = a - d BY <1>1, <1>3, <2>1, <3>2, WsubAdvances
      <3> QED BY <3>1, <3>3
    <2> HIDE DEF a, w
    <2> QED BY <1>3, <2>2, <2>3, <2>7 DEF Ahead
  <1> QED BY <1>2, <1>4 DEF Watched, Ahead

LEMMA NextWatched ==
  ASSUME MaxLag = 0
  PROVE  Inv /\ Watched /\ [Next]_vars => Watched'
  <1> SUFFICES ASSUME Inv, Watched, [Next]_vars PROVE Watched'
    OBVIOUS
  <1>1. CASE \/ Tick \/ Ready \/ StartResult \/ CancelResult \/ Complete \/ Report
             \/ SuspendRequest \/ Shutdown \/ Resume \/ View
    BY <1>1, DoIsTheStep, DoWatched
  <1>2. CASE Advance BY <1>2, AdvanceWatched
  <1>3. CASE Reboot
    <2>1. rt'.phase = Stopped /\ rt'.shutdown_deadline = NoTime
      BY <1>3 DEF Reboot, NewRuntime
    <2>2. Pending' = {} BY <2>1, StoppedIsPhase DEF Pending, PhaseDeadline
    <2> QED BY <2>2 DEF Watched
  <1>4. CASE UNCHANGED vars
    BY <1>4 DEF vars, Watched, Pending, PhaseDeadline, Ahead
  <1> QED BY <1>1, <1>2, <1>3, <1>4 DEF Next

(* No deadline of the lifecycle or of the shutdown is slept through, with  *)
(* any delays and across the wrap of the clock, as long as wakes are       *)
(* served when they are due (`earlier', next_wake, the report fast path).  *)
THEOREM NoDeadlineSleptThrough ==
  MaxLag = 0 => (Spec => []WakeCoversDeadlines)
  <1> SUFFICES ASSUME MaxLag = 0 PROVE Spec => []WakeCoversDeadlines
    OBVIOUS
  <1>1. Init => Watched
    <2> SUFFICES ASSUME Init PROVE Watched
      OBVIOUS
    <2>1. rt.phase = Stopped /\ rt.shutdown_deadline = NoTime
      BY DEF Init, NewRuntime
    <2>2. Pending = {} BY <2>1, StoppedIsPhase DEF Pending, PhaseDeadline
    <2> QED BY <2>2 DEF Watched
  <1>2. Inv /\ Watched /\ [Next]_vars => Watched' BY NextWatched
  <1>3. Inv /\ Watched => WakeCoversDeadlines
    <2> SUFFICES ASSUME Inv, Watched, NEW at \in Pending
                 PROVE  rt.next_wake # NoTime /\ Wsub(at, rt.next_wake) < W \div 2
      BY DEF WakeCoversDeadlines
    <2>1. at \in Time /\ now \in Time BY PendingType DEF Inv, TypeOK
    <2>2. /\ rt.next_wake \in Time /\ Wsub(rt.next_wake, now) <= Wsub(at, now)
          /\ Wsub(at, now) < HalfTurn
      BY DEF Watched, Ahead
    <2>3. Wsub(at, rt.next_wake) = Wsub(at, now) - Wsub(rt.next_wake, now)
      BY <2>1, <2>2, WsubSplits
    <2>4. Wsub(at, now) \in Nat /\ Wsub(rt.next_wake, now) \in Nat /\ HalfTurn \in Nat
      BY <2>1, <2>2, WsubType, ZeroIsTime, HalfTurnIs
    <2>5. Wsub(at, rt.next_wake) < HalfTurn BY <2>2, <2>3, <2>4
    <2>6. rt.next_wake # NoTime BY <2>2 DEF Time, NoTime
    <2> QED BY <2>5, <2>6 DEF HalfTurn
  <1> QED BY <1>1, <1>2, <1>3, InitInv, NextInv, PTL DEF Spec

(* The times at which an alert page begins and ends. *)
PageBegin(page) == page * SECOND
PageEnd(page) == (page + 1) * SECOND

(* While a page is on the display, the alert is that page's, its time has  *)
(* come, the wake is no later than the end of the page, and the clock has  *)
(* not passed the wake by more than it may. *)
PageKept ==
    screen[1] = "page" =>
        /\ rt.alert.found = screen[3]
        /\ screen[2] \in 0 .. 1
        /\ rt.next_wake \in Time
        /\ Wsub(rt.next_wake, rt.alert.start) <= PageEnd(screen[2])
        /\ PageBegin(screen[2]) <= Wsub(now, rt.alert.start)
        /\ Wsub(now, rt.alert.start) <= Wsub(rt.next_wake, rt.alert.start) + MaxLag

LEMMA PageEndIs ==
  /\ PageEnd(0) = SECOND /\ PageEnd(1) = 2 * SECOND
  /\ SECOND \in Nat /\ SECOND > 0
  /\ PageBegin(0) = 0 /\ PageBegin(1) = SECOND
  /\ \A page \in 0 .. 1 : /\ PageBegin(page) \in Nat
                          /\ PageEnd(page) \in Nat /\ PageEnd(page) <= 2 * SECOND
  <1>1. SECOND \in Nat /\ SECOND > 0 BY DelayAssumption DEF Delay
  <1>2. /\ PageEnd(0) = SECOND /\ PageEnd(1) = 2 * SECOND
        /\ PageBegin(0) = 0 /\ PageBegin(1) = SECOND
    BY <1>1 DEF PageEnd, PageBegin
  <1>3. ASSUME NEW page \in 0 .. 1 PROVE page = 0 \/ page = 1 OBVIOUS
  <1> QED BY <1>1, <1>2, <1>3

(* The page that an elapsed time is on, and when that ends. *)
LEMMA PageOf ==
  ASSUME NEW e \in Nat, e \div SECOND < 2
  PROVE  /\ e \div SECOND \in 0 .. 1
         /\ PageBegin(e \div SECOND) <= e
         /\ e < PageEnd(e \div SECOND)
         /\ PageEnd(e \div SECOND) - e <= SECOND
  <1>1. SECOND \in Nat /\ SECOND > 0 BY DelayAssumption DEF Delay
  <1>2. e \div SECOND \in 0 .. 1 BY <1>1
  <1>3. CASE e \div SECOND = 0
    <2>1. e < SECOND BY <1>1, <1>3
    <2> QED BY <1>1, <1>2, <1>3, <2>1, PageEndIs
  <1>4. CASE e \div SECOND = 1
    <2>1. SECOND <= e /\ e < 2 * SECOND BY <1>1, <1>4
    <2> QED BY <1>1, <1>2, <1>4, <2>1, PageEndIs
  <1> QED BY <1>2, <1>3, <1>4

LEMMA PicturePage ==
  ASSUME NEW self \in RuntimeType, NEW in \in AllInputs, NEW t \in Time,
         self.alert # NoAlert => self.alert.found \in Detection,
         Picture(self, t, in)[1] = "page"
  PROVE  LET e == Wsub(t, self.alert.start)
         IN  /\ MayShow(self, in) /\ AlertLive(self, t)
             /\ e \div SECOND < 2
             /\ Picture(self, t, in)[2] = e \div SECOND
             /\ Picture(self, t, in)[3] = self.alert.found
             /\ PictureUntil(self, t, in) = Wadd(self.alert.start, PageEnd(e \div SECOND))
  <1> DEFINE e == Wsub(t, self.alert.start)
  <1>1. /\ MayShow(self, in) /\ AlertLive(self, t)
        /\ self.alert.found \notin FrogDance
        /\ Picture(self, t, in) = PageFrame(self.alert.found, AlertPage(self, t))
    BY DEF Picture, NoFrame, FrogFrame, CountFrame, PageFrame
  <1>2. AlertPage(self, t) = e \div SECOND BY DEF AlertPage
  <1>3. self.alert.found \in Detection BY <1>1 DEF AlertLive
  <1>4. AlertPage(self, t) < PageCount[self.alert.found]
    BY <1>1 DEF AlertLive, AlertPages
  <1>5. PageCount[self.alert.found] \in 0 .. 2 BY <1>3, DetectionAssumption
  <1>6. AlertPage(self, t) \in Nat BY AlertPageType
  <1>7. e \div SECOND < 2 BY <1>2, <1>4, <1>5, <1>6
  <1>8. /\ Picture(self, t, in)[2] = e \div SECOND
        /\ Picture(self, t, in)[3] = self.alert.found
    BY <1>1, <1>2 DEF PageFrame
  <1>9. PictureUntil(self, t, in) = Wadd(self.alert.start, PageEnd(e \div SECOND))
    BY <1>1, <1>2 DEF PictureUntil, PageEnd
  <1> QED BY <1>1, <1>7, <1>8, <1>9

LEMMA PageRendered ==
  ASSUME NEW m, Sound(m), NEW in \in AllInputs, NEW t \in Time,
         Render(m, t, in).self.alert # NoAlert =>
           Render(m, t, in).self.alert.found \in Detection,
         Render(m, t, in).self.last_frame[1] = "page"
  PROVE  LET n == Render(m, t, in).self
         IN  /\ n.alert.found = n.last_frame[3]
             /\ n.last_frame[2] \in 0 .. 1
             /\ n.next_wake \in Time
             /\ Wsub(n.next_wake, n.alert.start) <= PageEnd(n.last_frame[2])
             /\ PageBegin(n.last_frame[2]) <= Wsub(t, n.alert.start)
             /\ Wsub(t, n.alert.start) <= Wsub(n.next_wake, n.alert.start)
  <1> DEFINE n == Render(m, t, in).self
             frame == Picture(m.self, t, in)
             start == m.self.alert.start
             e == Wsub(t, start)
             page == e \div SECOND
             until == PictureUntil(m.self, t, in)
  <1>1. /\ n.last_frame = frame
        /\ n.next_wake = NextWake(m.self, t, in)
        /\ n.alert = IF MayShow(m.self, in) /\ AlertLive(m.self, t)
                     THEN m.self.alert ELSE NoAlert
    BY RenderShows
  <1>2. m.self \in RuntimeType /\ start \in Time BY DEF Sound, MachineType, RuntimeType
  <1>3. m.self.alert # NoAlert => m.self.alert.found \in Detection
    <2>1. MayShow(m.self, in) /\ AlertLive(m.self, t)
      BY <1>1 DEF Picture, NoFrame, FrogFrame, CountFrame
    <2> QED BY <1>1, <2>1
  <1>4. /\ MayShow(m.self, in) /\ AlertLive(m.self, t)
        /\ page < 2
        /\ frame[2] = page
        /\ frame[3] = m.self.alert.found
        /\ until = Wadd(start, PageEnd(page))
    BY <1>1, <1>2, <1>3, PicturePage
  <1>5. n.alert = m.self.alert BY <1>1, <1>4
  <1>6. e \in Nat /\ e < W
    <2>1. e \in Time BY <1>2, WsubType, ZeroIsTime
    <2> QED BY <2>1, WAssumption DEF Time
  <1>7. Covers(t, n.next_wake, until) BY <1>1, <1>2, NextWakeCovers
  <1> HIDE DEF n, frame, e, until
  <1>8. /\ page \in 0 .. 1 /\ e < PageEnd(page) /\ PageBegin(page) <= e
        /\ PageEnd(page) \in Nat /\ PageEnd(page) <= 2 * SECOND
    BY <1>4, <1>6, PageOf, PageEndIs
  <1> HIDE DEF page
  <1>9. PageEnd(page) < W
    BY <1>8, LagAssumption, ReducerAssumption, PageEndIs, WAssumption
  <1>10. /\ until \in Time /\ until # NoTime
         /\ Wsub(until, start) = PageEnd(page)
    BY <1>2, <1>4, <1>8, <1>9, WsubOfWadd DEF Time, NoTime
  <1>11. Wsub(until, t) = PageEnd(page) - e
    <2>1. Wsub(t, start) <= Wsub(until, start) BY <1>6, <1>8, <1>10 DEF e
    <2>2. Wsub(until, t) = Wsub(until, start) - Wsub(t, start)
      BY <1>2, <1>10, <2>1, WsubSplits
    <2> QED BY <1>10, <2>2 DEF e
  <1>12. n.next_wake \in Time /\ Wsub(n.next_wake, t) <= PageEnd(page) - e
    BY <1>7, <1>10, <1>11 DEF Covers
  <1>13. Wsub(n.next_wake, start) = e + Wsub(n.next_wake, t)
    <2>1. Wsub(n.next_wake, t) \in Nat BY <1>12, WsubType, ZeroIsTime
    <2>2. e + Wsub(n.next_wake, t) < W BY <1>6, <1>8, <1>9, <1>12, <2>1, WAssumption
    <2> QED BY <1>2, <1>12, <2>1, <2>2, WsubAdds DEF e
  <1>14. Wsub(n.next_wake, t) \in Nat BY <1>12, WsubType, ZeroIsTime
  <1>15. /\ Wsub(n.next_wake, start) <= PageEnd(page)
         /\ e <= Wsub(n.next_wake, start)
    BY <1>6, <1>8, <1>12, <1>13, <1>14
  <1> QED BY <1>1, <1>4, <1>5, <1>8, <1>12, <1>15 DEF n, e

LEMMA DoPage ==
  ASSUME Inv, WindowInv', ScreenIsLastFrame, ScreenIsLastFrame', PageKept,
         NEW in \in AllInputs, NEW ev \in EventType, Do(in, ev)
  PROVE  PageKept'
  <1> DEFINE s == Step(rt, now, in, ev)
  <1>1. rt' = s.self /\ now' = now /\ now \in Time /\ rt \in RuntimeType
    BY DEF Do, Inv, TypeOK
  <1>2. screen = rt.last_frame /\ screen' = rt'.last_frame BY DEF ScreenIsLastFrame
  <1>3. \/ /\ rt'.next_wake = rt.next_wake
           /\ rt'.last_frame = rt.last_frame
           /\ rt'.alert = rt.alert
        \/ rt'.last_frame = NoFrame
        \/ \E g : Sound(g) /\ s = Render(g, now, in)
    BY <1>1, StepTimes DEF Inv, WipedOutsideScan
  <1> HIDE DEF s
  <1>4. CASE /\ rt'.next_wake = rt.next_wake
             /\ rt'.last_frame = rt.last_frame
             /\ rt'.alert = rt.alert
    BY <1>1, <1>2, <1>4 DEF PageKept
  <1>5. CASE rt'.last_frame = NoFrame
    BY <1>2, <1>5 DEF PageKept, NoFrame
  <1>6. CASE \E g : Sound(g) /\ s = Render(g, now, in)
    <2>1. PICK g : Sound(g) /\ s = Render(g, now, in) BY <1>6
    <2>2. rt'.alert # NoAlert => rt'.alert.found \in Detection BY DEF WindowInv
    <2> SUFFICES ASSUME screen'[1] = "page"
                 PROVE  /\ rt'.alert.found = screen'[3]
                        /\ screen'[2] \in 0 .. 1
                        /\ rt'.next_wake \in Time
                        /\ Wsub(rt'.next_wake, rt'.alert.start) <= PageEnd(screen'[2])
                        /\ PageBegin(screen'[2]) <= Wsub(now', rt'.alert.start)
                        /\ Wsub(now', rt'.alert.start)
                             <= Wsub(rt'.next_wake, rt'.alert.start) + MaxLag
      BY DEF PageKept
    <2> DEFINE n == Render(g, now, in).self
    <2>3. rt' = n BY <1>1, <2>1
    <2>4. /\ n.alert.found = n.last_frame[3]
          /\ n.last_frame[2] \in 0 .. 1
          /\ n.next_wake \in Time
          /\ Wsub(n.next_wake, n.alert.start) <= PageEnd(n.last_frame[2])
          /\ PageBegin(n.last_frame[2]) <= Wsub(now, n.alert.start)
          /\ Wsub(now, n.alert.start) <= Wsub(n.next_wake, n.alert.start)
      BY <1>1, <1>2, <2>1, <2>2, <2>3, PageRendered
    <2> HIDE DEF n
    <2>5. Wsub(now, n.alert.start) \in Nat /\ Wsub(n.next_wake, n.alert.start) \in Nat
      <3>1. n \in RuntimeType BY <1>1, <2>1, RenderSound DEF Sound, MachineType, n
      <3>2. n.alert.start \in Time BY <3>1 DEF RuntimeType
      <3> QED BY <1>1, <2>4, <3>2, WsubType, ZeroIsTime
    <2>6. Wsub(now, n.alert.start) <= Wsub(n.next_wake, n.alert.start) + MaxLag
      BY <2>4, <2>5, ReducerAssumption
    <2> QED BY <1>1, <1>2, <2>3, <2>4, <2>6
  <1> QED BY <1>3, <1>4, <1>5, <1>6

LEMMA AdvancePage ==
  ASSUME Inv, PageKept, Advance
  PROVE  PageKept'
  <1>1. PICK d \in 1 .. STRIDE : ~Overtaken(Wadd(now, d)) /\ now' = Wadd(now, d)
    BY DEF Advance
  <1>2. rt' = rt /\ screen' = screen BY DEF Advance
  <1> SUFFICES ASSUME screen[1] = "page"
               PROVE  /\ PageBegin(screen[2]) <= Wsub(now', rt.alert.start)
                      /\ Wsub(now', rt.alert.start)
                           <= Wsub(rt.next_wake, rt.alert.start) + MaxLag
    BY <1>2 DEF PageKept
  <1> DEFINE start == rt.alert.start
             e == Wsub(now, start)
             k == Wsub(rt.next_wake, start)
  <1>3. /\ screen[2] \in 0 .. 1 /\ rt.next_wake \in Time
        /\ k <= PageEnd(screen[2]) /\ e <= k + MaxLag
        /\ PageBegin(screen[2]) <= e
    BY DEF PageKept
  <1>4. start \in Time /\ now \in Time BY DEF Inv, TypeOK, RuntimeType
  <1>5. k \in Nat /\ e \in Nat BY <1>3, <1>4, WsubType, ZeroIsTime
  <1>6. /\ d \in Nat /\ d <= STRIDE /\ STRIDE \in Nat /\ MaxLag \in Nat
        /\ HalfTurn \in Nat /\ W = 2 * HalfTurn
        /\ STRIDE + MaxLag < HalfTurn
    BY ReducerAssumption, LagAssumption, HalfTurnIs DEF HalfTurn
  <1>7. /\ SECOND \in Nat /\ k <= 2 * SECOND /\ 2 * SECOND + STRIDE + MaxLag < W
    <2>1. PageEnd(screen[2]) \in Nat /\ PageEnd(screen[2]) <= 2 * SECOND /\ SECOND \in Nat
      BY <1>3, PageEndIs
    <2> HIDE DEF k
    <2> QED BY <1>3, <1>5, <2>1, LagAssumption
  <1> HIDE DEF e, k
  <1>8. d < W /\ e + d < W BY <1>3, <1>5, <1>6, <1>7
  <1>9. now' \in Time /\ Wsub(now', start) = e + d
    BY <1>1, <1>4, <1>6, <1>8, WsubOfWadd, WsubFallsBack DEF e
  <1>10. ASSUME e + d > k + MaxLag PROVE FALSE
    <2>1. Wsub(now', rt.next_wake) = e + d - k
      <3>1. Wsub(rt.next_wake, start) <= Wsub(now', start)
        BY <1>5, <1>6, <1>9, <1>10 DEF k
      <3>2. Wsub(now', rt.next_wake) = Wsub(now', start) - Wsub(rt.next_wake, start)
        BY <1>3, <1>4, <1>9, <3>1, WsubSplits
      <3> QED BY <1>5, <1>6, <1>9, <3>2 DEF k
    <2>2. e + d - k < HalfTurn /\ e + d - k > MaxLag
      BY <1>3, <1>5, <1>6, <1>10
    <2>3. rt.next_wake # NoTime BY <1>3 DEF Time, NoTime
    <2>4. Overtaken(now') BY <2>1, <2>2, <2>3 DEF Overtaken, Due, HalfTurn
    <2> QED BY <1>1, <2>4
  <1>11. PageBegin(screen[2]) <= e + d
    <2>1. PageBegin(screen[2]) \in Nat BY <1>3, PageEndIs
    <2> QED BY <1>3, <1>5, <1>6, <2>1
  <1> QED BY <1>5, <1>6, <1>9, <1>10, <1>11 DEF k, start

LEMMA NextPage ==
  Inv /\ WindowInv' /\ ScreenIsLastFrame /\ ScreenIsLastFrame' /\ PageKept /\ [Next]_vars
    => PageKept'
  <1> SUFFICES ASSUME Inv, WindowInv', ScreenIsLastFrame, ScreenIsLastFrame', PageKept,
                      [Next]_vars
               PROVE  PageKept'
    OBVIOUS
  <1>1. CASE \/ Tick \/ Ready \/ StartResult \/ CancelResult \/ Complete \/ Report
             \/ SuspendRequest \/ Shutdown \/ Resume \/ View
    BY <1>1, DoIsTheStep, DoPage
  <1>2. CASE Advance BY <1>2, AdvancePage
  <1>3. CASE Reboot
    BY <1>3 DEF Reboot, PageKept, NoFrame
  <1>4. CASE UNCHANGED vars BY <1>4 DEF vars, PageKept
  <1> QED BY <1>1, <1>2, <1>3, <1>4 DEF Next

(* A page of an alert is shown in its own second and no longer than that   *)
(* and the lateness of the wake, however late that may be, with any events *)
(* in between (the page and its deadline in step, `earlier', the report    *)
(* fast path).                                                             *)
THEOREM PagesKeepTime == Spec => []PageOnTime
  <1>1. Init => ScreenIsLastFrame /\ PageKept
    <2>1. Init => ScreenIsLastFrame BY DEF Init, ScreenIsLastFrame, NewRuntime
    <2>2. Init => PageKept BY DEF Init, PageKept, NoFrame
    <2> QED BY <2>1, <2>2
  <1>2. Inv /\ PageKept => PageOnTime
    <2> SUFFICES ASSUME Inv, PageKept, screen[1] = "page"
                 PROVE  /\ rt.alert.found = screen[3]
                        /\ screen[2] * SECOND <= Wsub(now, rt.alert.start)
                        /\ Wsub(now, rt.alert.start) <= (screen[2] + 1) * SECOND + MaxLag
      BY DEF PageOnTime
    <2>1. /\ rt.alert.found = screen[3]
          /\ screen[2] \in 0 .. 1
          /\ rt.next_wake \in Time
          /\ Wsub(rt.next_wake, rt.alert.start) <= PageEnd(screen[2])
          /\ PageBegin(screen[2]) <= Wsub(now, rt.alert.start)
          /\ Wsub(now, rt.alert.start) <= Wsub(rt.next_wake, rt.alert.start) + MaxLag
      BY DEF PageKept
    <2>2. rt.alert.start \in Time /\ now \in Time BY DEF Inv, TypeOK, RuntimeType
    <2>3. /\ Wsub(now, rt.alert.start) \in Nat /\ Wsub(rt.next_wake, rt.alert.start) \in Nat
          /\ PageEnd(screen[2]) \in Nat
      BY <2>1, <2>2, WsubType, ZeroIsTime, PageEndIs
    <2>4. Wsub(now, rt.alert.start) <= PageEnd(screen[2]) + MaxLag
      BY <2>1, <2>3, ReducerAssumption
    <2>5. screen[2] * SECOND <= Wsub(now, rt.alert.start)
      BY <2>1 DEF PageBegin
    <2> QED BY <2>1, <2>4, <2>5 DEF PageEnd
  <1> QED BY <1>1, <1>2, InitInv, NextInv, InitWindow, NextWindow, NextShows, NextPage, PTL
       DEF Spec

(* ----------------------------------------------------------------------- *)
(* While the frogs dance, the latest picture was drawn at some time t0.    *)

LEMMA HalfIs == HALF \in Nat /\ HALF > 0 /\ HALF < W
  <1>1. HALF \in Nat /\ HALF > 0 BY DelayAssumption DEF Delay
  <1> QED BY <1>1, LagAssumption, ReducerAssumption, WAssumption

(* The pose that an elapsed time is in, and when that ends. *)
LEMMA PoseOf ==
  ASSUME NEW e \in Nat
  PROVE  /\ e \div HALF \in Nat /\ e % HALF \in 0 .. (HALF - 1)
         /\ e = (e \div HALF) * HALF + (e % HALF)
         /\ (e \div HALF + 1) * HALF = e + HALF - (e % HALF)
  <1>1. HALF \in Nat /\ HALF > 0 BY HalfIs
  <1>2. e \div HALF \in Nat /\ e % HALF \in 0 .. (HALF - 1) BY <1>1
  <1>3. e = HALF * (e \div HALF) + (e % HALF) BY <1>1
  <1> QED BY <1>1, <1>2, <1>3

(* The pose of t0 is shown; the wake is no later than its end; the clock   *)
(* has not passed the wake by more than it may, and has come round to the  *)
(* selection if the pose is from before.                                   *)
Drawn(t0) ==
    LET e == Wsub(t0, rt.frog_epoch)
        k == Wsub(rt.next_wake, t0)
        s == Wsub(now, t0)
    IN  /\ screen = FrogFrame(e \div HALF)
        /\ k <= HALF - (e % HALF)
        /\ s <= k + MaxLag
        /\ W <= e + s => turned

PoseKept ==
    screen[1] = "frogs" /\ rt.alert = NoAlert =>
        rt.next_wake \in Time /\ \E t0 \in Time : Drawn(t0)

LEMMA RenderKeepsEpoch ==
  ASSUME NEW m, Sound(m), NEW in, NEW t
  PROVE  Render(m, t, in).self.frog_epoch = m.self.frog_epoch
  BY DEF Render, Sound, MachineType, RuntimeType

LEMMA PoseRendered ==
  ASSUME NEW m, Sound(m), NEW in \in AllInputs, NEW t \in Time,
         Render(m, t, in).self.last_frame[1] = "frogs",
         Render(m, t, in).self.alert = NoAlert
  PROVE  LET n == Render(m, t, in).self
             e == Wsub(t, n.frog_epoch)
         IN  /\ n.last_frame = FrogFrame(e \div HALF)
             /\ n.next_wake \in Time
             /\ Wsub(n.next_wake, t) <= HALF - (e % HALF)
  <1> DEFINE n == Render(m, t, in).self
             e == Wsub(t, m.self.frog_epoch)
             left == HALF - (e % HALF)
             until == PictureUntil(m.self, t, in)
  <1>1. /\ n.last_frame = Picture(m.self, t, in)
        /\ n.next_wake = NextWake(m.self, t, in)
        /\ n.alert = IF MayShow(m.self, in) /\ AlertLive(m.self, t)
                     THEN m.self.alert ELSE NoAlert
    BY RenderShows
  <1>2. n.frog_epoch = m.self.frog_epoch BY RenderKeepsEpoch
  <1>3. m.self \in RuntimeType BY DEF Sound, MachineType
  <1>4. /\ MayShow(m.self, in) /\ ~AlertLive(m.self, t)
        /\ in.counter_view /\ m.self.frogs
        /\ Picture(m.self, t, in) = FrogFrame(e \div HALF)
    <2>1. Picture(m.self, t, in)[1] = "frogs" /\ n.alert = NoAlert BY <1>1
    <2>2. MayShow(m.self, in) BY <2>1 DEF Picture, NoFrame
    <2>3. ~AlertLive(m.self, t) BY <1>1, <2>1, <2>2 DEF AlertLive
    <2> QED BY <2>1, <2>2, <2>3 DEF Picture, NoFrame, CountFrame
  <1>5. until = Wadd(t, left) BY <1>4 DEF PictureUntil
  <1>6. e \in Nat
    <2>1. m.self.frog_epoch \in Time BY <1>3 DEF RuntimeType
    <2> QED BY <2>1, WsubType, ZeroIsTime
  <1>7. Covers(t, n.next_wake, until) BY <1>1, <1>3, NextWakeCovers
  <1> HIDE DEF n, e, until
  <1>8. e % HALF \in 0 .. (HALF - 1) BY <1>6, PoseOf
  <1>9. left \in Nat /\ left < W
    <2> DEFINE r == e % HALF
    <2> HIDE DEF r
    <2>1. HALF - r \in Nat /\ HALF - r < W BY <1>8, HalfIs, WAssumption DEF r
    <2> QED BY <2>1 DEF r
  <1> HIDE DEF left
  <1>10. until \in Time /\ until # NoTime /\ Wsub(until, t) = left
    BY <1>5, <1>9, WsubOfWadd DEF Time, NoTime
  <1>11. n.next_wake \in Time /\ Wsub(n.next_wake, t) <= left
    BY <1>7, <1>10 DEF Covers
  <1> QED BY <1>1, <1>2, <1>4, <1>11 DEF n, e, left

LEMMA DoPose ==
  ASSUME Inv, ScreenIsLastFrame, ScreenIsLastFrame', PoseKept,
         NEW in \in AllInputs, NEW ev \in EventType, Do(in, ev)
  PROVE  PoseKept'
  <1> DEFINE s == Step(rt, now, in, ev)
  <1>1. rt' = s.self /\ now' = now /\ now \in Time /\ rt \in RuntimeType
    BY DEF Do, Inv, TypeOK
  <1>2. screen = rt.last_frame /\ screen' = rt'.last_frame BY DEF ScreenIsLastFrame
  <1>3. \/ /\ rt'.next_wake = rt.next_wake
           /\ rt'.frog_epoch = rt.frog_epoch /\ ev.kind = "Report"
           /\ rt'.last_frame = rt.last_frame
           /\ rt'.alert = rt.alert
        \/ rt'.last_frame = NoFrame
        \/ \E g : Sound(g) /\ s = Render(g, now, in)
    BY <1>1, StepTimes DEF Inv, WipedOutsideScan
  <1> HIDE DEF s
  <1>4. CASE /\ rt'.next_wake = rt.next_wake
             /\ rt'.frog_epoch = rt.frog_epoch /\ ev.kind = "Report"
             /\ rt'.last_frame = rt.last_frame
             /\ rt'.alert = rt.alert
    <2>1. turned => turned' BY <1>4 DEF Do
    <2>2. screen' = screen BY <1>2, <1>4
    <2>3. \A t0 \in Time : Drawn(t0) => Drawn(t0)'
      BY <1>1, <1>4, <2>1, <2>2 DEF Drawn
    <2> QED BY <1>4, <2>2, <2>3 DEF PoseKept
  <1>5. CASE rt'.last_frame = NoFrame
    BY <1>2, <1>5 DEF PoseKept, NoFrame
  <1>6. CASE \E g : Sound(g) /\ s = Render(g, now, in)
    <2>1. PICK g : Sound(g) /\ s = Render(g, now, in) BY <1>6
    <2> SUFFICES ASSUME screen'[1] = "frogs", rt'.alert = NoAlert
                 PROVE  rt'.next_wake \in Time /\ Drawn(now)'
      BY <1>1 DEF PoseKept
    <2> DEFINE n == Render(g, now, in).self
               e == Wsub(now, n.frog_epoch)
               k == Wsub(n.next_wake, now)
    <2>2. rt' = n BY <1>1, <2>1
    <2>3. /\ n.last_frame = FrogFrame(e \div HALF)
          /\ n.next_wake \in Time
          /\ k <= HALF - (e % HALF)
      BY <1>1, <1>2, <2>1, <2>2, PoseRendered
    <2>4. n \in RuntimeType BY <1>1, <2>1, RenderSound DEF Sound, MachineType
    <2> HIDE DEF n
    <2>5. Wsub(now, now) = 0 BY <1>1, WsubIs, WAssumption DEF Time
    <2>6. e \in Nat /\ e < W /\ k \in Nat
      <3>1. n.frog_epoch \in Time BY <2>4 DEF RuntimeType
      <3>2. e \in Time /\ k \in Time BY <1>1, <2>3, <3>1, WsubType, ZeroIsTime
      <3> HIDE DEF e, k
      <3> QED BY <3>2, WAssumption DEF Time
    <2> HIDE DEF e, k
    <2>7. 0 <= k + MaxLag /\ ~(W <= e + 0) BY <2>6, ReducerAssumption, WAssumption
    <2>8. /\ screen' = FrogFrame(e \div HALF)
          /\ k <= HALF - (e % HALF)
          /\ Wsub(now, now) <= k + MaxLag
          /\ W <= e + Wsub(now, now) => turned'
      BY <1>2, <2>2, <2>3, <2>5, <2>7
    <2>9. Drawn(now)' BY <1>1, <2>2, <2>8 DEF Drawn, e, k
    <2> QED BY <2>2, <2>3, <2>9
  <1> QED BY <1>3, <1>4, <1>5, <1>6

LEMMA AdvancePose ==
  ASSUME Inv, PoseKept, Advance
  PROVE  PoseKept'
  <1>1. PICK d \in 1 .. STRIDE : ~Overtaken(Wadd(now, d)) /\ now' = Wadd(now, d)
    BY DEF Advance
  <1>2. /\ rt' = rt /\ screen' = screen
        /\ turned' = (turned \/ Wsub(now', rt.frog_epoch) < Wsub(now, rt.frog_epoch))
    BY DEF Advance
  <1> SUFFICES ASSUME screen[1] = "frogs", rt.alert = NoAlert
               PROVE  rt.next_wake \in Time /\ \E t0 \in Time : Drawn(t0)'
    BY <1>2 DEF PoseKept
  <1>3. PICK t0 \in Time : Drawn(t0) BY DEF PoseKept
  <1>4. rt.next_wake \in Time BY DEF PoseKept
  <1> DEFINE epoch == rt.frog_epoch
             e == Wsub(t0, epoch)
             k == Wsub(rt.next_wake, t0)
             s == Wsub(now, t0)
             left == HALF - (e % HALF)
  <1>5. /\ screen = FrogFrame(e \div HALF) /\ k <= left
        /\ s <= k + MaxLag /\ (W <= e + s => turned)
    BY <1>3 DEF Drawn
  <1>6. epoch \in Time /\ now \in Time BY DEF Inv, TypeOK, RuntimeType
  <1>7. e \in Nat /\ k \in Nat /\ s \in Nat BY <1>3, <1>4, <1>6, WsubType, ZeroIsTime
  <1>8. /\ d \in Nat /\ d > 0 /\ d <= STRIDE /\ STRIDE \in Nat /\ MaxLag \in Nat
        /\ HalfTurn \in Nat /\ W = 2 * HalfTurn
        /\ STRIDE + MaxLag < HalfTurn /\ HALF + STRIDE + MaxLag < W
    BY ReducerAssumption, LagAssumption, HalfTurnIs DEF HalfTurn
  <1>9. left \in Nat /\ left <= HALF /\ HALF \in Nat
    <2> DEFINE r == e % HALF
    <2>1. r \in 0 .. (HALF - 1) BY <1>7, PoseOf
    <2> HIDE DEF r
    <2>2. HALF - r \in Nat /\ HALF - r <= HALF BY <2>1, HalfIs
    <2> QED BY <2>2, HalfIs DEF r
  <1> HIDE DEF e, k, s, left, epoch
  <1>10. d < W /\ s + d < W BY <1>5, <1>7, <1>8, <1>9
  <1>11. now' \in Time /\ Wsub(now', t0) = s + d
    BY <1>1, <1>3, <1>6, <1>8, <1>10, WsubOfWadd, WsubFallsBack DEF s
  <1>12. s + d <= k + MaxLag
    <2> SUFFICES ASSUME s + d > k + MaxLag PROVE FALSE BY <1>7, <1>8
    <2>1. Wsub(now', rt.next_wake) = s + d - k
      <3>1. k = Wsub(rt.next_wake, t0) BY DEF k
      <3>2. k <= s + d BY <1>7, <1>8
      <3>3. Wsub(now', rt.next_wake) = Wsub(now', t0) - Wsub(rt.next_wake, t0)
        BY <1>3, <1>4, <1>11, <3>1, <3>2, WsubSplits
      <3> QED BY <1>7, <1>8, <1>11, <3>1, <3>3
    <2>2. s + d - k < HalfTurn /\ s + d - k > MaxLag BY <1>5, <1>7, <1>8
    <2>3. rt.next_wake # NoTime BY <1>4 DEF Time, NoTime
    <2>4. Overtaken(now') BY <2>1, <2>2, <2>3 DEF Overtaken, Due, HalfTurn
    <2> QED BY <1>1, <2>4
  <1>13. ASSUME W <= e + (s + d) PROVE turned'
    <2>1. CASE W <= e + s BY <1>2, <1>5, <2>1
    <2>2. CASE e + s < W
      <3>1. Wsub(now, epoch) = e + s
        BY <1>3, <1>6, <2>2, WsubAdds DEF e, s
      <3>2. Wsub(now', epoch) = e + s + d - W
        BY <1>1, <1>6, <1>7, <1>8, <1>10, <1>13, <3>1, WsubFallsBack
      <3>3. Wsub(now', epoch) < Wsub(now, epoch)
        BY <1>7, <1>8, <1>10, <3>1, <3>2
      <3> QED BY <1>2, <3>3 DEF epoch
    <2> QED BY <1>7, <1>8, <2>1, <2>2
  <1>14. Drawn(t0)'
    BY <1>2, <1>5, <1>11, <1>12, <1>13 DEF Drawn, e, k, left, epoch
  <1> QED BY <1>4, <1>14

LEMMA NextPose ==
  Inv /\ ScreenIsLastFrame /\ ScreenIsLastFrame' /\ PoseKept /\ [Next]_vars => PoseKept'
  <1> SUFFICES ASSUME Inv, ScreenIsLastFrame, ScreenIsLastFrame', PoseKept, [Next]_vars
               PROVE  PoseKept'
    OBVIOUS
  <1>1. CASE \/ Tick \/ Ready \/ StartResult \/ CancelResult \/ Complete \/ Report
             \/ SuspendRequest \/ Shutdown \/ Resume \/ View
    BY <1>1, DoIsTheStep, DoPose
  <1>2. CASE Advance BY <1>2, AdvancePose
  <1>3. CASE Reboot
    BY <1>3 DEF Reboot, PoseKept, NoFrame
  <1>4. CASE UNCHANGED vars BY <1>4 DEF vars, PoseKept, Drawn
  <1> QED BY <1>1, <1>2, <1>3, <1>4 DEF Next

(* Distances that make more than a turn. *)
LEMMA WsubComesRound ==
  ASSUME NEW a \in Time, NEW b \in Time, NEW t \in Time,
         W <= Wsub(b, t) + Wsub(a, b)
  PROVE  Wsub(a, t) = Wsub(b, t) + Wsub(a, b) - W
  <1>1. a \in Nat /\ b \in Nat /\ t \in Nat /\ a < W /\ b < W /\ t < W /\ W \in Nat
    BY WAssumption DEF Time
  <1> QED BY <1>1, WsubIs

LEMMA PosesOfATurn ==
  ASSUME NEW e \in Nat, e < W
  PROVE  e \div HALF \in 0 .. (W \div HALF)
  <1>1. HALF \in Nat /\ HALF > 0 /\ W \in Nat BY HalfIs, WAssumption
  <1> QED BY <1>1

LEMMA PoseKeptIsOnTime ==
  ASSUME Inv, PoseKept
  PROVE  PoseOnTime
  <1> SUFFICES ASSUME screen[1] = "frogs", rt.alert = NoAlert
               PROVE  \E pose \in 0 .. (W \div HALF) :
                        \/ Timely(pose, Wsub(now, rt.frog_epoch))
                        \/ turned /\ Timely(pose, Wsub(now, rt.frog_epoch) + W)
    BY DEF PoseOnTime
  <1>1. PICK t0 \in Time : Drawn(t0) BY DEF PoseKept
  <1>2. rt.next_wake \in Time BY DEF PoseKept
  <1> DEFINE epoch == rt.frog_epoch
             e == Wsub(t0, epoch)
             k == Wsub(rt.next_wake, t0)
             s == Wsub(now, t0)
             p == e \div HALF
             r == e % HALF
  <1>3. /\ screen = FrogFrame(p) /\ k <= HALF - r
        /\ s <= k + MaxLag /\ (W <= e + s => turned)
    BY <1>1 DEF Drawn
  <1>4. epoch \in Time /\ now \in Time BY DEF Inv, TypeOK, RuntimeType
  <1>5. e \in Nat /\ e < W /\ k \in Nat /\ s \in Nat
    <2>1. e \in Time /\ k \in Time /\ s \in Time
      BY <1>1, <1>2, <1>4, WsubType, ZeroIsTime
    <2> HIDE DEF e, k, s
    <2> QED BY <2>1, WAssumption DEF Time
  <1> HIDE DEF e, k, s, epoch
  <1>6. p \in 0 .. (W \div HALF) BY <1>5, PosesOfATurn
  <1>7. /\ r \in 0 .. (HALF - 1) /\ e = p * HALF + r
        /\ (p + 1) * HALF = e + HALF - r
    BY <1>5, PoseOf
  <1>8. p \in Nat /\ p * HALF \in Nat /\ (p + 1) * HALF \in Nat /\ HALF \in Nat
    <2>1. p \in Nat BY <1>5, PoseOf
    <2> HIDE DEF p
    <2> QED BY <2>1, HalfIs
  <1> DEFINE begins == p * HALF
             ends == (p + 1) * HALF
  <1> HIDE DEF r
  <1>9. begins <= e + s /\ e + s <= ends + MaxLag
    <2> HIDE DEF p
    <2>1. begins \in Nat /\ ends \in Nat /\ e = begins + r /\ ends = e + HALF - r
      BY <1>7, <1>8
    <2> HIDE DEF begins, ends
    <2> QED BY <1>3, <1>5, <1>7, <1>8, <2>1, ReducerAssumption
  <1> HIDE DEF p
  <1>10. CASE e + s < W
    <2>1. Wsub(now, epoch) = e + s BY <1>1, <1>4, <1>10, WsubAdds DEF e, s
    <2>2. Timely(p, Wsub(now, epoch)) BY <1>3, <1>9, <2>1 DEF Timely
    <2> QED BY <1>6, <2>2 DEF epoch
  <1>11. CASE W <= e + s
    <2>1. Wsub(now, epoch) = e + s - W
      BY <1>1, <1>4, <1>11, WsubComesRound DEF e, s
    <2>2. Wsub(now, epoch) + W = e + s BY <1>5, <2>1, WAssumption
    <2>3. Timely(p, Wsub(now, epoch) + W) BY <1>3, <1>9, <2>2 DEF Timely
    <2> QED BY <1>3, <1>6, <1>11, <2>3 DEF epoch
  <1> QED BY <1>5, <1>10, <1>11, WAssumption

(* The frogs change pose every half second from the moment the view was    *)
(* selected, at most the lateness of a wake late, with any alerts, reports *)
(* and pauses in between and with any width of the clock; only the pose in *)
(* which the clock comes round to that moment is followed by a short one   *)
(* (the pose deadline of step, runtime.rs line 377). *)
THEOREM PosesKeepTime == Spec => []PoseOnTime
  <1>1. Init => ScreenIsLastFrame /\ PoseKept
    <2>1. Init => ScreenIsLastFrame BY DEF Init, ScreenIsLastFrame, NewRuntime
    <2>2. Init => PoseKept BY DEF Init, PoseKept, NoFrame
    <2> QED BY <2>1, <2>2
  <1>2. Inv /\ PoseKept => PoseOnTime BY PoseKeptIsOnTime
  <1> QED BY <1>1, <1>2, InitInv, NextInv, NextShows, NextPose, PTL DEF Spec

-----------------------------------------------------------------------------
(* What Display takes for granted of the reducer.                          *)

(* What the event, the deadline and the guard leave for the picture, seen  *)
(* as Display sees it. *)
Prepared(self, g, in, kind) ==
    /\ g.self.shutdown = Pictures!ShutdownAfter(Watching(self), kind)
    /\ g.self.last_frame = Pictures!LastFrameAfter(Watching(self), kind)
    /\ g.self.alert # NoAlert =>
          /\ kind \notin {"Suspend", "Shutdown"}
          /\ self.alert # NoAlert \/ Pictures!MayAlert(Watching(self), in, kind)
    /\ g.self.phase.k = "Scanning" =>
          /\ kind \notin {"Suspend", "Shutdown"}
          /\ self.phase.k = "Scanning" \/ kind = "Tick"
          /\ in.allowed /\ ~in.connected /\ ~g.self.shutdown

LEMMA StagesPrepare ==
  ASSUME NEW self \in RuntimeType, self.phase.k # "Scanning" => self.counter = EmptyCounter,
         NEW in \in AllInputs, NEW t \in Time, NEW ev \in EventType
  PROVE  LET h == HandleEvent(Begin(self), t, in, ev)
             x == IF ev.kind = "Tick" THEN TickPhase(h, t, in) ELSE h
         IN  Prepared(self, Guard(x, t, in), in, ev.kind)
  <1> DEFINE m == Begin(self)
             h == HandleEvent(m, t, in, ev)
             x == IF ev.kind = "Tick" THEN TickPhase(h, t, in) ELSE h
             g == Guard(x, t, in)
  <1>1. Sound(m) /\ Sound(h) /\ Sound(x) /\ Sound(g) /\ m.self = self
    BY StepEnds
  <1>2. self.shutdown \in BOOLEAN BY DEF RuntimeType
  <1>3. /\ h.self.shutdown = (ev.kind = "Shutdown" \/ (self.shutdown /\ ev.kind # "Resume"))
        /\ h.self.last_frame = IF ev.kind = "View" THEN NoFrame ELSE self.last_frame
        /\ h.self.alert # NoAlert =>
              /\ ev.kind \notin {"Suspend", "Shutdown"}
              /\ self.alert # NoAlert \/ Hearing(self, in, ev)
        /\ h.self.phase.k = "Scanning" =>
              self.phase.k = "Scanning" /\ ev.kind \notin {"Suspend", "Shutdown"}
    <2>1. CASE ev.kind = "Report"
      <3>1. Hears(m, h, in, t, ev.address, ev.found) BY <1>1, <2>1, ReportHears
      <3> HIDE DEF h, m
      <3> QED BY <1>1, <1>2, <2>1, <3>1 DEF Hears, Hearing, Listening, In
    <2>2. CASE ev.kind # "Report"
      <3>1. /\ Gathered(m, h)
            /\ h.self.last_frame = IF ev.kind = "View" THEN NoFrame ELSE m.self.last_frame
            /\ h.self.shutdown = (ev.kind = "Shutdown"
                                   \/ (m.self.shutdown /\ ev.kind # "Resume"))
            /\ ev.kind \in {"Suspend", "Shutdown"} =>
                  h.self.alert = NoAlert /\ h.self.phase.k # "Scanning"
        BY <1>1, <2>2, EventGathers
      <3> HIDE DEF h, m
      <3> QED BY <1>1, <3>1 DEF Gathered
    <2> QED BY <2>1, <2>2
  <1> HIDE DEF m, h
  <1>4. /\ x.self.shutdown = h.self.shutdown
        /\ x.self.last_frame = h.self.last_frame
        /\ x.self.alert \in {h.self.alert, NoAlert}
        /\ x.self.phase.k = "Scanning" => h.self.phase.k = "Scanning" \/ ev.kind = "Tick"
    BY <1>1, TickPhaseTicks DEF Ticks
  <1> HIDE DEF x
  <1>5. /\ g.self.shutdown = x.self.shutdown
        /\ g.self.last_frame = x.self.last_frame
        /\ g.self.alert \in {x.self.alert, NoAlert}
        /\ g.self.phase.k = "Scanning" => x.self.phase.k = "Scanning"
    BY <1>1, GuardGathers DEF Kept, Gathered
  <1>6. g.self.phase.k = "Scanning" => in.allowed /\ ~in.connected /\ ~x.self.shutdown
    <2>1. in.wants_advertising \in BOOLEAN /\ x \in MachineType
      BY <1>1 DEF AllInputs, Sound
    <2>2. Suspend(x, t, in.wants_advertising, in).self.phase.k # "Scanning"
      BY <2>1, SuspendGathers
    <2>3. CASE In(x, {"Scanning"}) /\ (~in.allowed \/ in.connected \/ x.self.shutdown)
      BY <2>2, <2>3 DEF Guard
    <2>4. CASE ~(In(x, {"Scanning"}) /\ (~in.allowed \/ in.connected \/ x.self.shutdown))
      BY <2>4 DEF Guard, In
    <2> QED BY <2>3, <2>4
  <1> HIDE DEF g
  <1>7. Prepared(self, g, in, ev.kind)
    BY <1>2, <1>3, <1>4, <1>5, <1>6
       DEF Prepared, Watching, Hearing, Pictures!ShutdownAfter, Pictures!LastFrameAfter,
           Pictures!MayAlert
  <1> QED BY <1>7 DEF m, h, x, g

(* A picture is shown exactly when an alert is live or the view is open. *)
LEMMA PictureIsAsked ==
  ASSUME NEW self, NEW in, NEW t
  PROVE  (Picture(self, t, in) # NoFrame) =
            (MayShow(self, in) /\ (AlertLive(self, t) \/ in.counter_view))
  <1> DEFINE page == AlertPage(self, t)
             pose == Wsub(t, self.frog_epoch) \div HALF
  <1>1. /\ \A p : FrogFrame(p) # NoFrame
        /\ \A d, p : PageFrame(d, p) # NoFrame
        /\ \A n, sat : CountFrame(n, sat) # NoFrame
    BY DEF FrogFrame, PageFrame, CountFrame, NoFrame
  <1>2. Picture(self, t, in) =
          IF ~MayShow(self, in) THEN NoFrame
          ELSE IF AlertLive(self, t)
          THEN IF self.alert.found \in FrogDance THEN FrogFrame(page)
               ELSE PageFrame(self.alert.found, page)
          ELSE IF ~in.counter_view THEN NoFrame
          ELSE IF self.frogs THEN FrogFrame(pose)
          ELSE CountFrame(self.completed.n, self.completed.saturated)
    BY DEF Picture
  <1> HIDE DEF page, pose
  <1> QED BY <1>1, <1>2

LEMMA StepAnswers ==
  ASSUME NEW self \in RuntimeType, self.phase.k # "Scanning" => self.counter = EmptyCounter,
         NEW in \in AllInputs, NEW t \in Time, NEW ev \in EventType
  PROVE  LET s == Step(self, t, in, ev)
         IN  \/ "reset_off" \in s.out.actions
             \/ Pictures!Answers(Watching(self), in, ev.kind, Watching(s.self),
                                 s.out.owned, s.out.frame)
  <1> DEFINE h == HandleEvent(Begin(self), t, in, ev)
             x == IF ev.kind = "Tick" THEN TickPhase(h, t, in) ELSE h
             g == Guard(x, t, in)
             s == Step(self, t, in, ev)
  <1>1. /\ Sound(Begin(self)) /\ Sound(h) /\ Sound(g) /\ Begin(self).self = self
        /\ \/ FastPath(self, h, t, in, ev) /\ s = KeepFrameAndWake(h, t)
           \/ s = ResetOff(h)
           \/ s = Render(g, t, in)
    BY StepEnds
  <1>2. Prepared(self, g, in, ev.kind) BY StagesPrepare
  <1>3. ev.kind = "Report" =>
          Hears(Begin(self), h, in, t, ev.address, ev.found)
    BY <1>1, ReportHears
  <1> HIDE DEF h, g, s
  <1>4. CASE FastPath(self, h, t, in, ev) /\ s = KeepFrameAndWake(h, t)
    <2>1. /\ s.self = h.self
          /\ s.out.owned = (h.self.last_frame # NoFrame)
          /\ s.out.frame = NoFrame
      BY <1>1, <1>4, KeepKeeps
    <2>2. /\ ev.kind = "Report" /\ in.allowed /\ ~in.connected /\ ~h.self.shutdown
          /\ h.self.phase.k = "Scanning"
          /\ h.self.alert = self.alert
          /\ in.counter_view = h.self.counter_view
      BY <1>4 DEF FastPath, Listening, In
    <2>3. /\ h.self.phase = self.phase /\ h.self.shutdown = self.shutdown
          /\ h.self.last_frame = self.last_frame
          /\ h.self.counter_view = self.counter_view
      BY <1>1, <1>3, <2>2 DEF Hears
    <2>4. Watching(s.self) = Watching(self) BY <2>1, <2>2, <2>3 DEF Watching
    <2>5. Pictures!Kept(Watching(self), in, ev.kind, Watching(s.self),
                        s.out.owned, s.out.frame)
      BY <2>1, <2>2, <2>3, <2>4 DEF Pictures!Kept, Pictures!MayAlert, Watching
    <2> QED BY <2>5 DEF Pictures!Answers, s
  <1>5. CASE s = ResetOff(h)
    BY <1>1, <1>5, ResetOffClears DEF s
  <1>6. CASE s = Render(g, t, in)
    <2> DEFINE frame == Picture(g.self, t, in)
    <2>1. /\ s.self.phase = g.self.phase
          /\ s.self.shutdown = g.self.shutdown
          /\ s.self.counter_view = in.counter_view
          /\ s.self.alert = IF MayShow(g.self, in) /\ AlertLive(g.self, t)
                            THEN g.self.alert ELSE NoAlert
          /\ s.self.last_frame = frame
          /\ s.out.owned = (frame # NoFrame)
          /\ s.out.frame = IF frame = g.self.last_frame THEN NoFrame ELSE frame
      BY <1>1, <1>6, RenderShows
    <2>2. (frame # NoFrame) =
            (MayShow(g.self, in) /\ (AlertLive(g.self, t) \/ in.counter_view))
      BY PictureIsAsked
    <2> HIDE DEF frame
    <2>3. (s.self.alert # NoAlert) = (MayShow(g.self, in) /\ AlertLive(g.self, t))
      BY <2>1 DEF AlertLive
    <2>4. s.self.alert # NoAlert => g.self.alert # NoAlert BY <2>1
    <2>5. MayShow(g.self, in) = (in.allowed /\ ~g.self.shutdown) BY DEF MayShow
    <2>6. Pictures!Rendered(Watching(self), in, ev.kind, Watching(s.self),
                            s.out.owned, s.out.frame)
      BY <1>2, <2>1, <2>2, <2>3, <2>4, <2>5
         DEF Prepared, Watching, Pictures!Rendered
    <2> QED BY <2>6 DEF Pictures!Answers, s
  <1> QED BY <1>1, <1>4, <1>5, <1>6

(* Whatever the state and the event, the reducer answers as Display takes  *)
(* for granted, for every value of the constants: which pictures, when,    *)
(* and by whose leave (Runtime::step).                                     *)
THEOREM ReducerAnswersThePanel == Spec => []AnswersThePanel
  <1>1. Inv => AnswersThePanel
    <2> SUFFICES ASSUME Inv, NEW in \in Inputs, NEW ev \in EventType
                 PROVE  LET m == Step(rt, now, in, ev)
                        IN  \/ "reset_off" \in m.out.actions
                            \/ Pictures!Answers(Watching(rt), in, ev.kind,
                                                Watching(m.self), m.out.owned, m.out.frame)
      BY DEF AnswersThePanel
    <2>1. in \in AllInputs BY ReducerAssumption
    <2>2. /\ rt \in RuntimeType /\ now \in Time
          /\ rt.phase.k # "Scanning" => rt.counter = EmptyCounter
      BY DEF Inv, TypeOK, WipedOutsideScan
    <2> QED BY <2>1, <2>2, StepAnswers
  <1> QED BY <1>1, InitInv, NextInv, PTL DEF Spec
=============================================================================
