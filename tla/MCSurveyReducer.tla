-------------------------- MODULE MCSurveyReducer --------------------------
(***************************************************************************)
(* Small instances of SurveyReducer.  The durations keep the order of the  *)
(* real ones, QUIET < scan < WATCHDOG < RETRY < FIRST < NEXT_SCAN <        *)
(* SHUTDOWN_LIMIT (where pictures are checked, RETRY = FIRST), and W is    *)
(* more than twice the longest, as 2^32 is.                                *)
(***************************************************************************)
EXTENDS SurveyReducer

Board(allowed, connected, advertising, wants, view) ==
    [allowed |-> allowed, connected |-> connected, advertising |-> advertising,
     wants_advertising |-> wants, counter_view |-> view]

(* Every input but the selected view, which only the picture reads. *)
LifecycleInputs == {in \in AllInputs : ~in.counter_view}

(* What the picture reads: both views, a mode that hides it, a connection. *)
PictureInputs ==
    {Board(TRUE, FALSE, "off", FALSE, TRUE), Board(TRUE, FALSE, "off", FALSE, FALSE),
     Board(FALSE, FALSE, "off", FALSE, TRUE), Board(TRUE, TRUE, "unknown", FALSE, TRUE)}

NothingToDetect == [d \in {} |-> 0]

(* A frog dance outranks an alert of two pages.                            *)
Ranks == [d \in Detection |-> IF d = "dance" THEN 5 ELSE 3]
PagesOf == [d \in Detection |-> IF d = "dance" THEN 1 ELSE 2]

(* The clock starts shortly before it wraps, so that deadlines are set     *)
(* before the wrap and reached after it. *)
InitNearWrap == Init /\ now = W - FIRST

NearWrap == InitNearWrap /\ [][Next]_vars

(* The reducer reads the clock only through differences, so two states     *)
(* that differ by a shift of time have the same future: TLC keeps one.     *)
Ahead(t) == IF t = NoTime THEN NoTime ELSE Wsub(t, now)

(* 2 * HALF divides W here: the dance repeats every two poses, except that *)
(* nothing comes before its first one.                                     *)
Danced ==
    LET elapsed == Wsub(now, rt.frog_epoch)
    IN  IF turned \/ elapsed >= 2 * HALF THEN 2 * HALF + (elapsed % (2 * HALF))
        ELSE elapsed

Shifted ==
    [rt EXCEPT !.phase.at = IF rt.phase = Stopped THEN 0 ELSE Ahead(@),
               !.next_wake = Ahead(@),
               !.shutdown_deadline = Ahead(@),
               !.alert.start = IF rt.alert = NoAlert THEN 0 ELSE Ahead(@),
               !.frog_epoch = IF rt.frogs THEN Danced ELSE 0]

TimeView == <<Shifted, out, heard, screen>>

(* Of the latest output the next step reads only whether it was a reset,   *)
(* and the properties of the picture nothing else; of what was heard they  *)
(* read the matches alone.                                                 *)
PictureView == <<Shifted, Running, {h[2] : h \in heard} \ {NoDetection}, screen>>
=============================================================================
