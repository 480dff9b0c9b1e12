------------------------------ MODULE Display ------------------------------
(***************************************************************************)
(* The panel of the badge and who draws on it.  FOSSASIA's animations draw *)
(* into their framebuffer; the survey takes the panel over with a frame of *)
(* its own in one of two buffers; an interrupt scans out, column pair by   *)
(* column pair, whichever is on, between any two statements of the handler *)
(* that is running.  The mode controller, an app that streams and the end  *)
(* of its link decide who may draw.  The reducer is SurveyPictures.        *)
(***************************************************************************)
EXTENDS SurveyPictures, Naturals, Sequences

CONSTANTS
    LED_COLS,       \* the columns of the panel
    AlwaysOn,       \* the values of badge_cfg.ble_always_on to consider
    BADGE, DARK     \* what a column shows: FOSSASIA's framebuffer, or nothing

ASSUME DisplayAssumption ==
    /\ LED_COLS \in Nat \ {0} /\ LED_COLS % 2 = 0
    /\ AlwaysOn \subseteq BOOLEAN
    /\ BADGE # DARK /\ {BADGE, DARK} \cap Frame = {}

VARIABLES
    board,           \* mode controller, link, display timer
    rt,              \* what the reducer knows of pictures
    display_active,  \* the adapter: the reducer wants the panel
    overlay,         \* the two buffers, the one that is on, and whether it is
    tasks,           \* FOSSASIA's animation steps: timers and queued events
    panel,           \* what each column shows; the pair that is next
    call,            \* how far a dispatch() is with the panel
    todo             \* what the running handler has still to do

display_vars == <<board, rt, display_active, overlay, tasks, panel, call, todo>>

LedColumns == 0 .. (LED_COLS - 1)
LedPairs == 0 .. (LED_COLS \div 2 - 1)
Whole(f) == [c \in LedColumns |-> f]

Idle == call.at = "none" /\ todo = <<>>     \* TMOS is between two handlers

survey_allowed == board.mode = "NORMAL" /\ ~board.streaming

(* frogalert_survey_display_active(). *)
overlay_wanted == survey_allowed /\ display_active

-----------------------------------------------------------------------------
(* dispatch() as far as the panel goes.                                    *)

At(place) == [at |-> place, frame |-> NoFrame, x |-> 0]
Column(f, x) == [at |-> "column", frame |-> f, x |-> x]

Callbacks == {"Ready", "StartResult", "CancelResult", "Complete", "Report"}

(* What dispatch() is told: what the running handler comes to, or, in one  *)
(* of its SDK calls, what the SDK calls back.                              *)
Dispatched(kind) ==
    \/ /\ call.at = "none" /\ todo # <<>> /\ Head(todo) = kind
       /\ todo' = Tail(todo)
    \/ call.at = "sdk" /\ kind \in Callbacks /\ UNCHANGED todo

Kinds == {"Tick", "Suspend", "Shutdown", "Resume", "View"} \cup Callbacks

(* inputs(): an unreadable role state counts as a connection. *)
inputs == {[allowed |-> survey_allowed, connected |-> connected,
            counter_view |-> board.mode = "NORMAL" /\ board.counter_view]
             : connected \in {board.conn, TRUE}}

(* frogalert_display_present(), called with display_active just set: who   *)
(* has no overlay yet stops the animations first.                          *)
Present(frame) ==
    IF ~survey_allowed THEN At("sdk")
    ELSE IF overlay.owned THEN Column(frame, 0)
    ELSE [Column(frame, 0) EXCEPT !.at = "stop"]

(* The step of the reducer; then the panel is given back, or shows a       *)
(* picture that changed; the SDK calls come last.                          *)
RunDispatch ==
    /\ \E kind \in Kinds :
        /\ Dispatched(kind)
        /\ \E in \in inputs, next \in Watch, owned \in BOOLEAN,
              frame \in Frame \cup {NoFrame} :
            /\ Answers(rt, in, kind, next, owned, frame)
            /\ rt' = next
            /\ display_active' = owned
            /\ call' = IF ~owned THEN At("release")
                       ELSE IF frame # NoFrame THEN Present(frame) ELSE At("sdk")
    /\ UNCHANGED <<board, overlay, tasks, panel>>

(* The SDK calls are over, and the caller goes on. *)
RunReturn ==
    /\ call.at = "sdk"
    /\ call' = At("none")
    /\ UNCHANGED <<board, rt, display_active, overlay, tasks, panel, todo>>

(* Mutant: the panel is given back to nobody. *)
RunReleaseToNobody ==
    /\ call.at = "release"
    /\ overlay' = [overlay EXCEPT !.owned = FALSE]
    /\ call' = At("sdk")
    /\ UNCHANGED <<board, rt, display_active, tasks, panel, todo>>

(* frogalert_display_survey_release(). *)
RunRelease ==
    /\ call.at = "release"
    /\ overlay' = [overlay EXCEPT !.owned = FALSE]
    /\ call' = At(IF overlay.owned /\ survey_allowed THEN "restart" ELSE "sdk")
    /\ UNCHANGED <<board, rt, display_active, tasks, panel, todo>>

(* A stopped timer does not take back an event that is already queued. *)
Stopped == [tasks EXCEPT !.timers = {}]
Started(step) == [tasks EXCEPT !.timers = {step}]

RunAnimation ==
    /\ \/ call.at = "restart" /\ tasks' = Started("ANI_NEXT_STEP") /\ call' = At("sdk")
       \/ call.at = "stop" /\ tasks' = Stopped /\ call' = Column(call.frame, 0)
    /\ UNCHANGED <<board, rt, display_active, overlay, panel, todo>>

(* Mutant: a picture is written where the interrupt reads. *)
Active == overlay.index

Inactive == 1 - overlay.index

(* One column after the other, then the index, then the owner. *)
RunColumn ==
    /\ call.at = "column"
    /\ overlay' = [overlay EXCEPT !.fb[Inactive][call.x] = call.frame]
    /\ call' = IF call.x + 1 < LED_COLS THEN Column(call.frame, call.x + 1)
               ELSE [call EXCEPT !.at = "commit"]
    /\ UNCHANGED <<board, rt, display_active, tasks, panel, todo>>

RunCommit ==
    /\ \/ /\ call.at = "commit"
          /\ overlay' = [overlay EXCEPT !.index = Inactive]
          /\ call' = [call EXCEPT !.at = "own"]
       \/ /\ call.at = "own"
          /\ overlay' = [overlay EXCEPT !.owned = TRUE]
          /\ call' = At("sdk")
    /\ UNCHANGED <<board, rt, display_active, tasks, panel, todo>>

RunCall ==
    RunReturn \/ RunRelease \/ RunAnimation \/ RunColumn \/ RunCommit

-----------------------------------------------------------------------------
(* The other statements of a handler.                                      *)

Doing(op) ==
    call.at = "none" /\ todo # <<>> /\ Head(todo) = op /\ todo' = Tail(todo)

(* frogalert_display_survey_relinquish(). *)
RunRelinquish ==
    /\ Doing("relinquish")
    /\ overlay' = [overlay EXCEPT !.owned = FALSE]
    /\ UNCHANGED <<board, rt, display_active, tasks, panel, call>>

RunTasks ==
    /\ \/ Doing("stop_all_animation") /\ tasks' = Stopped
       \/ Doing("start_normal_animation") /\ tasks' = Started("ANI_NEXT_STEP")
       \/ Doing("start_ble_animation") /\ tasks' = Started("BLE_NEXT_STEP")
    /\ UNCHANGED <<board, rt, display_active, overlay, panel, call>>

RunBoard ==
    /\ \/ Doing("timer_off") /\ board' = [board EXCEPT !.tmr0 = FALSE]
       \/ Doing("timer_on") /\ board' = [board EXCEPT !.tmr0 = TRUE]
       \/ Doing("name_view") /\ board' = [board EXCEPT !.counter_view = FALSE]
       \/ Doing("streaming_on") /\ board' = [board EXCEPT !.streaming = TRUE]
    /\ UNCHANGED <<rt, display_active, overlay, tasks, panel, call>>

RunReleaseLeds ==
    /\ Doing("leds_releaseall")
    /\ panel' = [panel EXCEPT !.shows = Whole(DARK)]
    /\ UNCHANGED <<board, rt, display_active, overlay, tasks, call>>

RunTodo == RunDispatch \/ RunRelinquish \/ RunTasks \/ RunBoard \/ RunReleaseLeds

-----------------------------------------------------------------------------
(* TMR0's interrupt: it reads the index, the owner and two adjacent        *)
(* columns, and nothing runs in between.                                   *)

Refresh ==
    /\ board.tmr0
    /\ LET Shown(c) == IF overlay.owned THEN overlay.fb[overlay.index][c] ELSE BADGE
           first == 2 * panel.pair
       IN  panel' = [shows |-> [panel.shows EXCEPT ![first] = Shown(first),
                                                   ![first + 1] = Shown(first + 1)],
                     pair  |-> (panel.pair + 1) % (LED_COLS \div 2)]
    /\ UNCHANGED <<board, rt, display_active, overlay, tasks, call, todo>>

-----------------------------------------------------------------------------
(* Handlers.  Each starts between two others.                              *)

Begin(ops) == Idle /\ todo' = ops /\ UNCHANGED call

(* survey_task, frogalert_survey_poll() and central_event(). *)
SurveyTask ==
    /\ \E kind \in {"Tick"} \cup Callbacks : Begin(<<kind>>)
    /\ UNCHANGED <<board, rt, display_active, overlay, tasks, panel>>

AnimationTimer ==
    /\ \E step \in tasks.timers :
        tasks' = [timers |-> tasks.timers \ {step}, events |-> tasks.events \cup {step}]
    /\ UNCHANGED <<board, rt, display_active, overlay, panel, call, todo>>

(* A step that is due draws and sets its timer again, unless the overlay   *)
(* has the panel: then it ends there.                                      *)
AnimationStep ==
    /\ Idle
    /\ \E step \in tasks.events :
        tasks' = [timers |-> IF overlay_wanted THEN tasks.timers
                             ELSE tasks.timers \cup {step},
                  events |-> tasks.events \ {step}]
    /\ UNCHANGED <<board, rt, display_active, overlay, panel, call, todo>>

(* Mutant: the LEDs are released while the interrupt still drives them. *)
ScreenOffLedsFirst ==
    /\ board' = [board EXCEPT !.mode = "POWER_OFF"]
    /\ Begin(<<"relinquish", "stop_all_animation", "leds_releaseall", "timer_off",
               "Shutdown">>)

(* mode_setup_screen_off(). *)
ScreenOff ==
    /\ board' = [board EXCEPT !.mode = "POWER_OFF"]
    /\ Begin(<<"relinquish", "stop_all_animation", "timer_off", "leds_releaseall",
               "Shutdown">>)

(* mode_setup_normal(). *)
SetupNormal ==
    /\ board' = [board EXCEPT !.mode = "NORMAL"]
    /\ Begin(IF board.always_on
             THEN <<"Resume", "timer_on", "name_view", "relinquish", "Suspend",
                    "start_normal_animation", "View">>
             ELSE <<"Resume", "timer_on", "name_view", "relinquish",
                    "start_normal_animation", "View">>)

(* mode_setup_download(): always-on BLE skips the mode. *)
SetupDownload ==
    IF board.always_on THEN ScreenOff
    ELSE /\ board' = [board EXCEPT !.mode = "DOWNLOAD"]
         /\ Begin(<<"Suspend", "relinquish", "start_ble_animation">>)

(* frogalert_change_mode(). *)
SystemButton ==
    /\ CASE board.mode = "NORMAL"    -> SetupDownload
         [] board.mode = "DOWNLOAD"  -> ScreenOff
         [] board.mode = "POWER_OFF" -> SetupNormal
    /\ UNCHANGED <<rt, display_active, overlay, tasks, panel>>

(* frogalert_view_transition(), in normal mode only. *)
ViewButton ==
    /\ board.mode = "NORMAL"
    /\ board' = [board EXCEPT !.counter_view = ~@]
    /\ Begin(<<"View">>)
    /\ UNCHANGED <<rt, display_active, overlay, tasks, panel>>

Linked == board.handle /\ board.conn

(* handle_after_rx(). *)
UploadDone ==
    /\ Linked /\ SetupNormal
    /\ UNCHANGED <<rt, display_active, overlay, tasks, panel>>

StreamingEnter ==
    /\ Linked
    /\ Begin(<<"stop_all_animation", "Suspend", "relinquish", "streaming_on">>)
    /\ UNCHANGED <<board, rt, display_active, overlay, tasks, panel>>

(* Mutant: the reducer is not told that its picture is gone. *)
StreamingExitUntold ==
    /\ Linked
    /\ board' = [board EXCEPT !.streaming = FALSE]
    /\ Begin(IF board.mode = "NORMAL" THEN <<"start_normal_animation">>
             ELSE <<"start_ble_animation">>)
    /\ UNCHANGED <<rt, display_active, overlay, tasks, panel>>

(* resume_from_streaming() is FOSSASIA's: back to the animation of the mode. *)
StreamingExit ==
    /\ Linked
    /\ board' = [board EXCEPT !.streaming = FALSE]
    /\ Begin(IF board.mode = "NORMAL" THEN <<"start_normal_animation", "View">>
             ELSE <<"start_ble_animation", "View">>)
    /\ UNCHANGED <<rt, display_active, overlay, tasks, panel>>

(* link_onEstablished(). *)
LinkUp ==
    /\ board.conn /\ ~board.handle
    /\ board' = [board EXCEPT !.handle = TRUE]
    /\ Begin(<<"Suspend">>)
    /\ UNCHANGED <<rt, display_active, overlay, tasks, panel>>

(* link_onTerminated() and frogalert_survey_on_disconnect(). *)
LinkDown ==
    /\ board.handle /\ ~board.conn
    /\ board' = [board EXCEPT !.handle = FALSE, !.streaming = FALSE]
    /\ Begin(IF board.mode = "NORMAL" THEN <<"start_normal_animation", "View", "Suspend">>
             ELSE IF board.streaming THEN <<"start_ble_animation", "Suspend">>
             ELSE <<"Suspend">>)
    /\ UNCHANGED <<rt, display_active, overlay, tasks, panel>>

(* The controller knows of a link before, and of its end after, the shell  *)
(* is told.                                                                *)
Peer ==
    /\ board.conn = board.handle
    /\ board' = [board EXCEPT !.conn = ~@]
    /\ UNCHANGED <<rt, display_active, overlay, tasks, panel, call, todo>>

DisplayInit ==
    /\ \E always_on \in AlwaysOn :
        board = [mode |-> "NORMAL", streaming |-> FALSE, counter_view |-> FALSE,
                 always_on |-> always_on, conn |-> FALSE, handle |-> FALSE,
                 tmr0 |-> TRUE]
    /\ rt = NewWatch
    /\ display_active = FALSE
    /\ overlay = [fb |-> [i \in 0 .. 1 |-> Whole(DARK)], index |-> 0, owned |-> FALSE]
    /\ tasks = [timers |-> {"ANI_NEXT_STEP"}, events |-> {}]
    /\ panel = [shows |-> Whole(BADGE), pair |-> 0]
    /\ call = At("none") /\ todo = <<>>

Handlers ==
    \/ SurveyTask \/ AnimationStep \/ SystemButton \/ ViewButton \/ UploadDone
    \/ StreamingEnter \/ StreamingExit \/ LinkUp \/ LinkDown

DisplayNext ==
    RunTodo \/ RunCall \/ Refresh \/ AnimationTimer \/ Handlers \/ Peer

DisplaySpec == DisplayInit /\ [][DisplayNext]_display_vars

-----------------------------------------------------------------------------
Statements ==
    Kinds \cup {"relinquish", "stop_all_animation", "start_normal_animation",
                "start_ble_animation", "timer_off", "timer_on", "name_view",
                "streaming_on", "leds_releaseall"}

CallType ==
    [at : {"none", "sdk", "release", "restart"}, frame : {NoFrame}, x : {0}]
      \cup [at : {"stop", "column", "commit", "own"}, frame : Frame, x : LedColumns]

Animations == {"ANI_NEXT_STEP", "BLE_NEXT_STEP"}

DisplayTypeOK ==
    /\ board \in [mode : {"NORMAL", "DOWNLOAD", "POWER_OFF"}, streaming : BOOLEAN,
                  counter_view : BOOLEAN, always_on : BOOLEAN, conn : BOOLEAN,
                  handle : BOOLEAN, tmr0 : BOOLEAN]
    /\ rt \in Watch
    /\ display_active \in BOOLEAN
    /\ overlay \in [fb : [0 .. 1 -> [LedColumns -> Frame \cup {DARK}]],
                    index : 0 .. 1, owned : BOOLEAN]
    /\ tasks \in [timers : SUBSET Animations, events : SUBSET Animations]
    /\ panel \in [shows : [LedColumns -> Frame \cup {BADGE, DARK}], pair : LedPairs]
    /\ call \in CallType
    /\ todo \in Seq(Statements)

(* No torn picture: whenever the interrupt comes, between any two          *)
(* statements, the overlay it may read is one frame from the first column  *)
(* to the last (the order of writes in frogalert_display_present).         *)
OverlayIsWhole ==
    overlay.owned => \E f \in Frame : overlay.fb[overlay.index] = Whole(f)

(* What the reducer believes to have shown is what the overlay holds, even *)
(* after a stream, an upload or a mode that took the panel away in between:*)
(* it presents changed frames only, so an error here would last.  And where *)
(* it may not draw, in download mode and under a stream, there is none.    *)
OverlayIsLastFrame ==
    Idle => IF survey_allowed
            THEN /\ display_active = overlay.owned
                 /\ overlay.owned = (rt.last_frame # NoFrame)
                 /\ overlay.owned => overlay.fb[overlay.index] = Whole(rt.last_frame)
            ELSE ~overlay.owned

(* The badge never freezes: when neither the overlay nor a stream has the  *)
(* panel, the animation of the mode goes on; a step that found the overlay *)
(* in its place ended, and whoever takes the overlay away starts it again. *)
NeverFrozen ==
    Idle /\ board.mode # "POWER_OFF" /\ ~board.streaming /\ ~overlay.owned =>
        (IF board.mode = "NORMAL" THEN "ANI_NEXT_STEP" ELSE "BLE_NEXT_STEP")
            \in tasks.timers \cup tasks.events

(* A badge that is switched off is dark while it waits for its radio: no   *)
(* interrupt lights a column after the LEDs were released, and nothing but *)
(* the way back to normal mode turns it on again (mode_setup_screen_off).  *)
ScreenOffIsDark ==
    Idle /\ board.mode = "POWER_OFF" => panel.shows = Whole(DARK)
=============================================================================
