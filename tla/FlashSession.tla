---------------------------- MODULE FlashSession ----------------------------
(***************************************************************************)
(* One programming session of the web flasher: the commands that the page  *)
(* sends to the bootloader of a badge, one at a time, and what the badge,  *)
(* the cable and the timeouts make of each of them.  A transfer is a write *)
(* followed by a read; while it is under way `wire' holds it.  The page    *)
(* may give up a transfer whose packet still reaches the badge later.      *)
(*                                                                         *)
(* The bootloader is external: what it does with a command is what the     *)
(* page's use of the command supposes, and what the page checks for it may *)
(* get wrong.                                                              *)
(***************************************************************************)
EXTENDS Integers

CONSTANTS
    Badge,       \* badges in ISP mode that may be attached to the computer
    Image,       \* firmware images
    Length,      \* [Image -> Nat]: sectors of an image, padded
    SECTOR,      \* units of flash in a sector
    CHUNK,       \* units of flash in a program or verify packet
    MIN_ERASE,   \* the sectors that are erased at least
    FLASH,       \* sectors of code flash
    None         \* no badge, no image, no packet

ASSUME FlashSessionAssumption ==
    /\ SECTOR \in Nat \ {0} /\ CHUNK \in Nat \ {0}
    /\ MIN_ERASE \in Nat \ {0} /\ FLASH \in Nat /\ MIN_ERASE <= FLASH
    /\ Length \in [Image -> Nat \ {0}]
    /\ \A i \in Image : Length[i] + 1 <= FLASH
    /\ None \notin Badge \cup Image

Unit == 0 .. FLASH * SECTOR - 1
Other == "other"     \* what was there before, or a byte that did not take
Blank == "blank"

VARIABLES
    session,     \* what the page programs, into what, and where it stands
    wire,        \* the command under way between the page and the badge
    device,      \* state.usbDevice: the badge adopted by the page, or None
    attached,    \* badges plugged in, their bootloader running
    flash,       \* [Badge -> [Unit -> Image \cup {Other, Blank}]]
    config       \* [Badge -> the class of its CH58x configuration]

sessionVars == <<session, wire, device, attached, flash, config>>

-----------------------------------------------------------------------------
(* The plan of a session.                                                  *)

Units(i) == Length[i] * SECTOR
Chunks(i) == (Units(i) + CHUNK - 1) \div CHUNK

EraseSectors(i) == IF MIN_ERASE > Length[i] + 1 THEN MIN_ERASE ELSE Length[i] + 1

(* The units that chunk n, counted from 0, covers: the last may be short. *)
ChunkUnits(i, n) == {u \in n * CHUNK .. (n + 1) * CHUNK - 1 : u < Units(i)}

Config == {"accepted", "foreign"}     \* one of the two accepted readbacks, or not

Steps == {"config-reset", "config-read", "erase", "program-key", "program",
          "finalize", "verify-key", "verify", "reset"}

NoSession == [step |-> "none", index |-> 0, badge |-> None, image |-> None]
NoTransfer == [command |-> None, at |-> "none", good |-> FALSE]

Working == session.step \in Steps

(* Mutant: the last chunk is not compared. *)
AfterChunkEarly(s, again, next) ==
    IF s.index + 2 < Chunks(s.image) THEN [s EXCEPT !.step = again, !.index = @ + 1]
                                     ELSE [s EXCEPT !.step = next, !.index = 0]

AfterChunk(s, again, next) ==
    IF s.index + 1 < Chunks(s.image) THEN [s EXCEPT !.step = again, !.index = @ + 1]
                                     ELSE [s EXCEPT !.step = next, !.index = 0]

(* Mutant: the configuration is not read back. *)
AfterResetBlind(s) == [s EXCEPT !.step = "erase"]

AfterReset(s) == [s EXCEPT !.step = "config-read"]

(* programAndVerifyFirmware: the step that follows a good answer. *)
After(s) ==
    CASE s.step = "config-reset" -> AfterReset(s)
      [] s.step = "config-read"  -> [s EXCEPT !.step = "erase"]
      [] s.step = "erase"        -> [s EXCEPT !.step = "program-key"]
      [] s.step = "program-key"  -> [s EXCEPT !.step = "program"]
      [] s.step = "program"      -> AfterChunk(s, "program", "finalize")
      [] s.step = "finalize"     -> [s EXCEPT !.step = "verify-key"]
      [] s.step = "verify-key"   -> [s EXCEPT !.step = "verify"]
      [] s.step = "verify"       -> AfterChunk(s, "verify", "reset")
      [] s.step = "reset"        -> [s EXCEPT !.step = "done"]

-----------------------------------------------------------------------------
(* usbTransfer() and sendReset(), between the page and the wire.           *)

Fail == session' = [session EXCEPT !.step = "failed"]

(* The guard of a transfer: the badge captured by the session is still the *)
(* one the page has adopted (activeFlashDevice is set for all of it).      *)
MaySend == device = session.badge

Send ==
    /\ Working /\ wire = NoTransfer
    /\ IF MaySend
       THEN /\ wire' = [command |-> session.step, good |-> FALSE,
                        at |-> IF session.badge \in attached THEN "badge" ELSE "lost"]
            /\ UNCHANGED session
       ELSE Fail /\ UNCHANGED wire
    /\ UNCHANGED <<device, attached, flash, config>>

(* parseResponse and the check of the payload that follows it. *)
Answer ==
    /\ Working /\ wire.at = "page"
    /\ wire' = NoTransfer
    /\ IF wire.good \/ session.step = "reset"
       THEN session' = After(session) ELSE Fail
    /\ UNCHANGED <<device, attached, flash, config>>

(* The write or the read is refused, or an answer is malformed.  An error  *)
(* in the answer to the reset only leaves the reset unacknowledged.        *)
TransferError ==
    /\ Working /\ wire # NoTransfer
    /\ wire' = NoTransfer
    /\ \/ Fail
       \/ session.step = "reset" /\ session' = After(session)
    /\ UNCHANGED <<device, attached, flash, config>>

(* Mutant: only the reset is given a time limit. *)
TimeOutOfReset ==
    /\ session.step = "reset" /\ wire.at \in {"badge", "lost"}
    /\ \/ Fail
       \/ session' = After(session)
    /\ UNCHANGED <<wire, device, attached, flash, config>>

(* withTimeout(): the page goes on without the transfer, which stays with  *)
(* the browser until the device is closed.                                 *)
TimeOut ==
    /\ Working /\ wire.at \in {"badge", "lost"}
    /\ \/ Fail
       \/ session.step = "reset" /\ session' = After(session)
    /\ UNCHANGED <<wire, device, attached, flash, config>>

-----------------------------------------------------------------------------
(* The bootloader executes the command it finds on the wire, also one that *)
(* the page no longer waits for.                                           *)

Sector(n) == 0 .. n * SECTOR - 1

(* An answer that the page no longer waits for is dropped. *)
Answered(good) ==
    wire' = IF Working THEN [wire EXCEPT !.at = "page", !.good = good] ELSE NoTransfer

(* A reset may be ignored in silence. *)
BadgeResetsConfig(b) ==
    /\ wire.command = "config-reset"
    /\ \E c \in {"accepted", config[b]} : config' = [config EXCEPT ![b] = c]
    /\ Answered(TRUE)
    /\ UNCHANGED <<flash, attached>>

(* isResetConfig of the answer to 0xA7. *)
BadgeReadsConfig(b) ==
    /\ wire.command = "config-read"
    /\ Answered(config[b] = "accepted")
    /\ UNCHANGED <<flash, config, attached>>

(* An erase takes, or leaves the flash alone. *)
BadgeErases(b) ==
    /\ wire.command = "erase"
    /\ \/ flash' = [flash EXCEPT ![b] =
                      [u \in Unit |-> IF u \in Sector(EraseSectors(session.image))
                                      THEN Blank ELSE @[u]]]
       \/ UNCHANGED flash
    /\ Answered(TRUE)
    /\ UNCHANGED <<config, attached>>

(* beginKeySession compares a checksum of the key. *)
BadgeTakesKey(b) ==
    /\ wire.command \in {"program-key", "verify-key"}
    /\ \E good \in BOOLEAN : Answered(good)
    /\ UNCHANGED <<flash, config, attached>>

Burnt(old, new) == IF old = Blank THEN new ELSE Other

(* A chunk is written on blank flash only, and may not take. *)
BadgeProgramsChunk(b) ==
    /\ wire.command = "program"
    /\ \E new \in {session.image, Other} :
         flash' = [flash EXCEPT ![b] =
                     [u \in Unit |-> IF u \in ChunkUnits(session.image, session.index)
                                     THEN Burnt(@[u], new) ELSE @[u]]]
    /\ Answered(TRUE)
    /\ UNCHANGED <<config, attached>>

BadgeFinalizes(b) ==
    /\ wire.command = "finalize"
    /\ Answered(TRUE)
    /\ UNCHANGED <<flash, config, attached>>

BadgeComparesChunk(b) ==
    /\ wire.command = "verify"
    /\ Answered(\A u \in ChunkUnits(session.image, session.index) :
                    flash[b][u] = session.image)
    /\ UNCHANGED <<flash, config, attached>>

(* The badge starts its application: its bootloader leaves the bus. *)
BadgeRestarts(b) ==
    /\ wire.command = "reset"
    /\ Answered(TRUE)
    /\ attached' = attached \ {b}
    /\ UNCHANGED <<flash, config>>

BadgeExecutes ==
    /\ wire.at = "badge" /\ session.badge \in attached
    /\ \/ BadgeResetsConfig(session.badge) \/ BadgeReadsConfig(session.badge)
       \/ BadgeErases(session.badge) \/ BadgeTakesKey(session.badge)
       \/ BadgeProgramsChunk(session.badge) \/ BadgeFinalizes(session.badge)
       \/ BadgeComparesChunk(session.badge) \/ BadgeRestarts(session.badge)
    /\ UNCHANGED <<session, device>>
=============================================================================
