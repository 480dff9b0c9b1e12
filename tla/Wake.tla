--------------------------------- MODULE Wake ---------------------------------
(***************************************************************************)
(* How the badge goes dark and comes back.  Switched off, it waits for its *)
(* buttons to be released, marks the retained byte and shuts down; a press *)
(* resets it, and at every reset the marker sends it to the wake qualifier *)
(* (power.rs), which samples the two buttons every 20 ms and decides: boot *)
(* the application, enter the bootloader, or go dark again.  Buttons       *)
(* bounce, stick, and are pressed together; resets come at any time.       *)
(*                                                                         *)
(* Profile 1 is the 250901 board, which KEY1 switches on, and profile 2    *)
(* the 260404 board, which KEY2 switches on.                               *)
(***************************************************************************)
EXTENDS Integers

CONSTANTS
    QUALIFIED,   \* samples that a button is held to switch the badge on
    RELEASED,    \* samples that it is let go after that
    RECOVERY,    \* samples that KEY2 is held for the bootloader
    SETTLE,      \* the most that shutdown waits for the buttons
    U8_MAX

ASSUME WakeAssumption ==
    /\ {QUALIFIED, RELEASED, RECOVERY, SETTLE, U8_MAX} \subseteq Nat \ {0}
    /\ QUALIFIED <= RECOVERY /\ RECOVERY <= U8_MAX

VARIABLES
    profile,   \* the board, for which its firmware was built
    keys,      \* [1 .. 2 -> is the button's contact closed?]
    phase,     \* where the processor is
    power_on,  \* was the last reset a genuine power-on?
    marker,    \* does the retained byte say that the badge is off?
    wake,      \* the state of the qualifier
    settle,    \* the loop that waits for the release: its two counters
    seen       \* history: what the samples of this qualification showed

vars == <<profile, keys, phase, power_on, marker, wake, settle, seen>>
hardware == <<profile, keys, power_on>>

Least(a, b) == IF a < b THEN a ELSE b

NoWake == [key |-> 0, held |-> 0, released |-> 0, qualified |-> FALSE]
NoSettle == [tick |-> 0, released |-> 0]
NothingSeen == [first2 |-> FALSE, key2 |-> 0, own |-> 0, held_long |-> FALSE, let_go |-> 0]

Init ==
    /\ profile \in 1 .. 2
    /\ keys = [k \in 1 .. 2 |-> FALSE]
    /\ phase = "starting" /\ power_on = TRUE /\ marker \in BOOLEAN
    /\ wake = NoWake /\ settle = NoSettle /\ seen = NothingSeen

(* The button that switches the board on, and those that end its shutdown. *)
Own == profile
Armed == IF profile = 1 THEN {1, 2} ELSE {2}

Reach(p) ==
    /\ phase' = p
    /\ wake' = NoWake /\ settle' = NoSettle /\ seen' = NothingSeen

-----------------------------------------------------------------------------
(* The application switches off: by a deferred shutdown, or by the reset   *)
(* that stands in for it when the radio does not get idle.                 *)
SwitchOff ==
    /\ phase = "running"
    /\ Reach("settling")
    /\ UNCHANGED <<hardware, marker>>

frogalert_reset_off ==
    /\ phase = "running"
    /\ marker' = TRUE /\ power_on' = FALSE
    /\ Reach("starting")
    /\ UNCHANGED <<profile, keys>>

(* KEY2 held while the application runs: reset_jump(). *)
HoldForBootloader ==
    /\ phase = "running" /\ keys[2]
    /\ Reach("bootloader")
    /\ UNCHANGED <<hardware, marker>>

-----------------------------------------------------------------------------
(* poweroff() *)
Settled == settle.released = RELEASED

(* Mutant: shutdown waits for the buttons as long as they are held. *)
WaitsUntilReleased == ~Settled

WaitsForRelease == ~Settled /\ settle.tick < SETTLE

SettleTick ==
    /\ phase = "settling" /\ WaitsForRelease
    /\ settle' = [tick |-> Least(settle.tick + 1, SETTLE),
                  released |-> IF \E k \in Armed : keys[k] THEN 0 ELSE settle.released + 1]
    /\ UNCHANGED <<hardware, phase, marker, wake, seen>>

(* The flags are cleared, the marker is set, and the buttons are armed. *)
Arm ==
    /\ phase = "settling" /\ ~WaitsForRelease
    /\ marker' = TRUE
    /\ Reach("armed")
    /\ UNCHANGED hardware

LowPower_Shutdown ==
    /\ phase = "armed"
    /\ Reach("shutdown")
    /\ UNCHANGED <<hardware, marker>>

-----------------------------------------------------------------------------
(* The world.  The pressed edge of an armed button resets the badge,       *)
(* through its interrupt or out of shutdown; letting go does not.          *)
MoveKey ==
    /\ \E k \in 1 .. 2 :
          /\ keys' = [keys EXCEPT ![k] = ~@]
          /\ IF phase \in {"armed", "shutdown"} /\ k \in Armed /\ ~keys[k]
             THEN Reach("starting") /\ power_on' = FALSE
             ELSE UNCHANGED <<phase, power_on, wake, settle, seen>>
    /\ UNCHANGED <<profile, marker>>

(* A watchdog, a pin or the bootloader resets the processor. *)
Reset ==
    /\ power_on' = FALSE
    /\ Reach("starting")
    /\ UNCHANGED <<profile, keys, marker>>

(* The supply failed: the retained byte can hold anything. *)
PowerCycle ==
    /\ power_on' = TRUE /\ marker' \in BOOLEAN
    /\ Reach("starting")
    /\ UNCHANGED <<profile, keys>>

-----------------------------------------------------------------------------
(* Mutant: KEY1 wins when both are pressed. *)
NewFirstKey(k) ==
    [NoWake EXCEPT !.key = IF k[1] THEN 1 ELSE IF k[2] THEN 2 ELSE 0]

(* Wake::new() *)
New(k) == [NoWake EXCEPT !.key = IF k[2] THEN 2 ELSE IF k[1] THEN 1 ELSE 0]

(* frogalert_consume_screen_off_wake() and frogalert_wake_init(). *)
Classify ==
    /\ phase = "starting"
    /\ IF marker /\ ~power_on
       THEN /\ phase' = "qualifying" /\ marker' = marker
            /\ wake' = New(keys)
            /\ seen' = [NothingSeen EXCEPT !.first2 = keys[2]]
            /\ UNCHANGED settle
       ELSE /\ marker' = FALSE
            /\ Reach("running")
    /\ UNCHANGED hardware

(* Mutant: a release does not start the count of the samples again. *)
LetGoBouncing(w) == [w EXCEPT !.released = Least(@ + 1, U8_MAX)]

LetGo(w) == [w EXCEPT !.held = 0, !.released = Least(@ + 1, U8_MAX)]

Held(w) ==
    LET held == Least(w.held + 1, U8_MAX)
    IN  [w EXCEPT !.released = 0, !.held = held, !.qualified = @ \/ held >= QUALIFIED]

(* Wake::sample(): the new state, and the decision. *)
HasKey == wake.key # 0 /\ ~(profile = 2 /\ wake.key = 1)

Sampled == IF ~HasKey THEN wake ELSE IF keys[wake.key] THEN Held(wake) ELSE LetGo(wake)

Action(w) ==
    CASE ~HasKey -> "Sleep"
      [] HasKey /\ keys[w.key] -> IF w.key = 2 /\ w.held >= RECOVERY THEN "Isp" ELSE "Wait"
      [] OTHER -> IF w.released < RELEASED THEN "Wait"
                  ELSE IF w.qualified /\ w.key = Own THEN "Boot" ELSE "Sleep"

(* History: runs of samples, of the buttons themselves. *)
Run(n, bound, goes_on) == IF goes_on THEN Least(n + 1, bound) ELSE 0

SeenNow ==
    [seen EXCEPT !.key2 = Run(@, RECOVERY, keys[2]),
                 !.own = Run(@, QUALIFIED, keys[Own]),
                 !.held_long = @ \/ (keys[Own] /\ seen.own + 1 >= QUALIFIED),
                 !.let_go = Run(@, RELEASED, ~keys[Own])]

(* Only a qualified wake clears the marker. *)
Forget(action) == marker' = (marker /\ action \notin {"Boot", "Isp"})

SampleKeys ==
    /\ phase = "qualifying"
    /\ wake' = Sampled /\ seen' = SeenNow /\ settle' = NoSettle
    /\ phase' = CASE Action(Sampled) = "Wait" -> phase
                  [] Action(Sampled) = "Sleep" -> "settling"
                  [] Action(Sampled) = "Boot" -> "running"
                  [] Action(Sampled) = "Isp" -> "bootloader"
    /\ Forget(Action(Sampled))
    /\ UNCHANGED hardware

-----------------------------------------------------------------------------
Firmware == Classify \/ SampleKeys \/ SettleTick \/ Arm \/ LowPower_Shutdown

Next ==
    \/ Classify \/ SampleKeys \/ SettleTick \/ Arm \/ LowPower_Shutdown
    \/ SwitchOff \/ frogalert_reset_off \/ HoldForBootloader
    \/ MoveKey \/ Reset \/ PowerCycle

(* The processor goes on; the buttons and the owner need not. *)
Spec == Init /\ [][Next]_vars /\ WF_vars(Firmware)

-----------------------------------------------------------------------------
Phases == {"starting", "running", "settling", "armed", "shutdown", "qualifying", "bootloader"}

(* The types; a running badge and its bootloader have forgotten that it was *)
(* off, so that the next reset starts the application; a dark one has not.  *)
TypeOK ==
    /\ profile \in 1 .. 2 /\ keys \in [1 .. 2 -> BOOLEAN]
    /\ phase \in Phases /\ power_on \in BOOLEAN /\ marker \in BOOLEAN
    /\ wake \in [key : 0 .. 2, held : 0 .. U8_MAX, released : 0 .. RELEASED, qualified : BOOLEAN]
    /\ settle \in [tick : 0 .. SETTLE, released : 0 .. RELEASED]
    /\ phase \in {"running", "bootloader"} => ~marker
    /\ phase \in {"armed", "shutdown", "qualifying"} => marker

(* Once the marker is set, no reset, no bounce, no stuck or wrong button    *)
(* and no length of shutdown brings the badge back: the application starts  *)
(* after a power-on, or after the board's own button was held for 100 ms    *)
(* and then let go for 60 ms; the bootloader after 2.2 s of KEY2.           *)
OffUntilAsked ==
    [][marker =>
          /\ phase' = "running" =>
                power_on \/ (seen'.held_long /\ seen'.let_go = RELEASED)
          /\ phase' = "bootloader" => seen'.key2 = RECOVERY]_vars

(* Whatever KEY1 does, KEY2 pressed at a wake and held for 2.2 s enters the *)
(* bootloader: the badge neither starts its application then, nor goes dark *)
(* again, nor waits on (Wake::new and Wake::sample).                        *)
RecoveryWins ==
    seen.first2 /\ seen.key2 = RECOVERY => phase = "bootloader"

(* If resets end, the contacts come to rest and KEY1 is not stuck, the badge *)
(* does not keep the processor awake over a decision: it runs, is in its    *)
(* bootloader, or reaches shutdown, even if KEY2 is stuck.                  *)
Resting == phase \in {"running", "bootloader", "shutdown"}

WakeDecides ==
    <>[][Firmware]_vars /\ <>[](~keys[1]) => <>[]Resting
=============================================================================
