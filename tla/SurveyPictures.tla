--------------------------- MODULE SurveyPictures ---------------------------
(***************************************************************************)
(* What the display may expect of Runtime::step: the abstract reducer, as  *)
(* far as a picture depends on it.  It forgets the clock, the table and    *)
(* the deadlines.  Which alert is heard, how long it lasts and what number *)
(* is counted are left open.                                               *)
(***************************************************************************)

CONSTANTS Frame,     \* whole pictures
          NoFrame    \* none

ASSUME FrameAssumption == NoFrame \notin Frame

Watch == [alert : BOOLEAN, scanning : BOOLEAN, shutdown : BOOLEAN,
          counter_view : BOOLEAN, last_frame : Frame \cup {NoFrame}]

NewWatch == [alert |-> FALSE, scanning |-> FALSE, shutdown |-> FALSE,
             counter_view |-> FALSE, last_frame |-> NoFrame]

(* A report is looked at in a scan that is still permitted. *)
MayAlert(rt, in, kind) ==
    kind = "Report" /\ rt.scanning /\ in.allowed /\ ~in.connected

ShutdownAfter(rt, kind) == kind = "Shutdown" \/ (rt.shutdown /\ kind # "Resume")

LastFrameAfter(rt, kind) == IF kind = "View" THEN NoFrame ELSE rt.last_frame

(* The whole step: an alert comes from a report and does not survive a     *)
(* suspension, nor the permission to show it; without an alert the counter *)
(* view has a picture and the name has none.  Only a picture that changed  *)
(* is handed out.                                                          *)
Rendered(rt, in, kind, next, owned, frame) ==
    LET may_show == in.allowed /\ ~next.shutdown
    IN  /\ next.shutdown = ShutdownAfter(rt, kind)
        /\ next.counter_view = in.counter_view
        /\ next.alert => /\ may_show /\ kind \notin {"Suspend", "Shutdown"}
                         /\ rt.alert \/ MayAlert(rt, in, kind)
        /\ next.scanning => /\ may_show /\ ~in.connected
                            /\ kind \notin {"Suspend", "Shutdown"}
                            /\ rt.scanning \/ kind = "Tick"
        /\ (next.last_frame # NoFrame) =
              (may_show /\ (next.alert \/ in.counter_view))
        /\ owned = (next.last_frame # NoFrame)
        /\ frame = IF next.last_frame = LastFrameAfter(rt, kind)
                   THEN NoFrame ELSE next.last_frame

(* The fast path of ordinary reports keeps picture and wake. *)
Kept(rt, in, kind, next, owned, frame) ==
    /\ MayAlert(rt, in, kind) /\ ~rt.shutdown /\ in.counter_view = rt.counter_view
    /\ next = rt
    /\ owned = (rt.last_frame # NoFrame)
    /\ frame = NoFrame

Answers(rt, in, kind, next, owned, frame) ==
    \/ Rendered(rt, in, kind, next, owned, frame)
    \/ Kept(rt, in, kind, next, owned, frame)
=============================================================================
