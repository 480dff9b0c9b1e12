-------------------------- MODULE FlasherPageProofs --------------------------
(***************************************************************************)
(* The flashing page, for any number of badges, any images and sizes of    *)
(* sectors and packets: a badge is erased only after its own configuration *)
(* was read back, nothing lands once the page is idle, and the page        *)
(* implements AbstractFlash.  The invariant ties the session to the click  *)
(* it serves, the command on the wire to the step of the session, and the  *)
(* step to what the badge has already answered.                            *)
(***************************************************************************)
EXTENDS FlasherPage, FiniteSetTheorems, TLAPS

(* The steps of a session after its configuration was read back. *)
Later == (Steps \ {"config-reset", "config-read"}) \cup {"done"}

Serving == {"running", "stopping", "finished"}

(* The page: who holds it, and what it is still waiting for.               *)
PageInv ==
    /\ flashing <=> choice.at \in {"wake"} \cup Serving
    /\ choice.at # "none" =>
          /\ catalog = "ready" /\ choice.badge \in Badge
          /\ choice.info \in Info /\ choice.image \in Image
    /\ detecting => catalog = "ready"
    /\ request.at = "none" => request = NoRequest
    /\ request.at # "none" => catalog = "ready"
    /\ info # None => request = NoRequest /\ ~detecting /\ catalog = "ready"
    /\ flashing => request = NoRequest /\ ~detecting
    /\ choice.at = "wake" => sessions < MaxSessions
    /\ closing["flash"] # Idle <=> choice.at \in {"stopping", "finished"}
    /\ closing["flash"] # Idle => device = None

(* The session serves the click, and its command on the wire is its step.  *)
SessionInv ==
    /\ session.step = "none" => session = NoSession /\ wire = NoTransfer
    /\ session.step # "none" =>
          /\ choice.at \in Serving
          /\ session.badge = choice.badge /\ session.image = choice.image
    /\ choice.at = "running" => session.step # "none"
    /\ Working => choice.at = "running"
    /\ choice.at = "finished" => session.step = "done"
    /\ wire.at = "none" <=> wire = NoTransfer
    /\ Working /\ wire.at # "none" => wire.command = session.step
    /\ wire.at = "page" => Working
    /\ session.step = "done" => wire.command \in {None, "reset"}
    /\ wire.at = "badge" => /\ session.badge \in attached
                            /\ session.badge \in {device, closing["flash"]}

(* Accepted is what the badge has answered, or what it keeps.              *)
AcceptedInv ==
    \/ session.step \in Later \/ wire.command \in Later
    \/ wire.command = "config-read" /\ wire.at = "page" /\ wire.good
    => config[session.badge] = "accepted"

(* The units below the chunk being compared hold the image, and this chunk *)
(* too once the badge has said so.                                         *)
VerifiedUpTo(n) ==
    \A u \in 0 .. Units(session.image) - 1 :
        u < n * CHUNK => flash[session.badge][u] = session.image

ComparedInv ==
    /\ session.step \in {"finalize", "verify-key"} => session.index = 0
    /\ session.step = "verify" => VerifiedUpTo(session.index)
    /\ session.step = "verify" /\ wire.at = "page" /\ wire.good
          => VerifiedUpTo(session.index + 1)
    /\ session.step \in {"reset", "done"}
          => \A u \in 0 .. Units(session.image) - 1 :
                flash[session.badge][u] = session.image

(* The types of TypeOK, by name. *)
SessionType == [step : Steps \cup {"none", "failed", "done"}, index : Nat,
                badge : Badge \cup {None}, image : Image \cup {None}]
WireType == [command : Steps \cup {None}, at : {"none", "badge", "page", "lost"},
             good : BOOLEAN]
RequestType == [at : {"none", "chooser", "open", "identify", "closing"},
                badge : Badge \cup {None}, automatic : BOOLEAN]
ChoiceType == [at : {"none", "loading", "wake", "running", "stopping", "finished"},
               badge : Badge \cup {None}, info : Info \cup {None},
               image : Image \cup {None}]

SessionTyped ==
    /\ session \in SessionType /\ wire \in WireType
    /\ device \in Badge \cup {None} /\ attached \subseteq Badge
    /\ flash \in [Badge -> [Unit -> Image \cup {Other, Blank}]]
    /\ config \in [Badge -> Config]

PageTyped ==
    /\ catalog \in {"loading", "ready", "failed"} /\ detecting \in BOOLEAN
    /\ request \in RequestType /\ choice \in ChoiceType
    /\ info \in Info \cup {None} /\ (info # None => device # None)
    /\ flashing \in BOOLEAN
    /\ closing \in [Caller -> Badge \cup {None, Idle}]
    /\ wizard \in {"connect", "firmware", "flash", "success"}
    /\ sessions \in 0 .. MaxSessions

Inv == /\ SessionTyped /\ PageTyped
       /\ PageInv /\ SessionInv /\ AcceptedInv /\ ComparedInv

-----------------------------------------------------------------------------
LEMMA Names ==
  /\ None \notin Badge /\ None \notin Image /\ None \notin Info
  /\ None \notin Steps /\ None \notin Later /\ Idle \notin Badge /\ Idle # None
  /\ NoTransfer.at = "none" /\ NoTransfer.command = None
  /\ NoSession.step = "none" /\ NoSession.badge = None
  /\ NoRequest.at = "none" /\ NoRequest.badge = None
  /\ NoChoice.at = "none"
  <1>1. /\ None \notin Badge /\ None \notin Image /\ None \notin Info
        /\ None \notin Steps /\ Idle \notin Badge /\ Idle # None
    BY FlashSessionAssumption, FlasherPageAssumption
  <1>2. None # "done" BY FlasherPageAssumption
  <1>3. None \notin Later BY <1>1, <1>2 DEF Later
  <1> QED BY <1>1, <1>3 DEF NoTransfer, NoSession, NoRequest, NoChoice

LEMMA FreshInfo ==
  ASSUME NEW a, NEW b
  PROVE  (CHOOSE i \in Info : i \notin {a, b}) \in Info
  <1>1. IsFiniteSet(Info) /\ Cardinality(Info) > 2 BY FlasherPageAssumption
  <1>2. IsFiniteSet({a, b}) /\ Cardinality({a, b}) <= 2
    <2>1. IsFiniteSet({a}) /\ Cardinality({a}) = 1 BY FS_Singleton
    <2>2. /\ IsFiniteSet({a} \cup {b})
          /\ Cardinality({a} \cup {b}) = IF b \in {a} THEN 1 ELSE 2
      BY <2>1, FS_AddElement
    <2>3. {a} \cup {b} = {a, b} OBVIOUS
    <2> QED BY <2>2, <2>3
  <1>3. \E i \in Info : i \notin {a, b}
    <2> SUFFICES ASSUME Info \subseteq {a, b} PROVE FALSE OBVIOUS
    <2>1. Cardinality(Info) <= Cardinality({a, b}) BY <1>2, FS_Subset
    <2>2. Cardinality(Info) \in Nat /\ Cardinality({a, b}) \in Nat
      BY <1>1, <1>2, FS_CardinalityType
    <2> QED BY <1>1, <1>2, <2>1, <2>2
  <1> QED BY <1>3

LEMMA InitInv == Init => Inv
  <1> SUFFICES ASSUME Init PROVE Inv OBVIOUS
  <1> USE DEF Init
  <1>1. NoSession \in SessionType /\ NoTransfer \in WireType /\ ~Working
    BY DEF NoSession, NoTransfer, SessionType, WireType, Working, Steps
  <1>2. NoRequest \in RequestType /\ NoChoice \in ChoiceType
    BY DEF NoRequest, NoChoice, RequestType, ChoiceType
  <1>3. SessionTyped BY <1>1 DEF SessionTyped, Config
  <1>4. PageTyped
    <2>1. /\ closing \in [Caller -> Badge \cup {None, Idle}]
          /\ sessions \in 0 .. MaxSessions
      BY FlasherPageAssumption
    <2> QED BY <1>2, <2>1 DEF PageTyped
  <1>6. PageInv BY Names DEF PageInv, Serving, Caller, Idle
  <1>7. SessionInv BY <1>1, Names DEF SessionInv, Serving
  <1>8. AcceptedInv
    <2>1. session.step = "none" /\ wire.command = None BY Names
    <2>2. session.step \notin Later BY <2>1 DEF Later, Steps
    <2>3. None # "config-read" BY Names DEF Steps
    <2> QED BY <2>1, <2>2, <2>3, Names DEF AcceptedInv
  <1>9. ComparedInv BY DEF ComparedInv, NoSession
  <1> QED BY <1>3, <1>4, <1>6, <1>7, <1>8, <1>9 DEF Inv

-----------------------------------------------------------------------------
(* The events of the page that leave the session and the badges alone.     *)

(* What is known of a request and of a choice, field by field. *)
LEMMA RequestFields ==
  ASSUME NEW r \in RequestType
  PROVE  /\ r.at \in {"none", "chooser", "open", "identify", "closing"}
         /\ r.badge \in Badge \cup {None} /\ r.automatic \in BOOLEAN
         /\ \A x \in {"none", "chooser", "open", "identify", "closing"} :
              LET s == [r EXCEPT !.at = x]
              IN  s \in RequestType /\ s.at = x /\ s.badge = r.badge
         /\ \A b \in Badge :
              LET s == [r EXCEPT !.at = "open", !.badge = b]
              IN  s \in RequestType /\ s.at = "open" /\ s.badge = b
  BY DEF RequestType

LEMMA ChoiceFields ==
  ASSUME NEW c \in ChoiceType
  PROVE  /\ c.at \in {"none", "loading", "wake", "running", "stopping", "finished"}
         /\ c.badge \in Badge \cup {None} /\ c.info \in Info \cup {None}
         /\ c.image \in Image \cup {None}
         /\ \A x \in {"none", "loading", "wake", "running", "stopping", "finished"} :
              LET d == [c EXCEPT !.at = x]
              IN  /\ d \in ChoiceType /\ d.at = x /\ d.badge = c.badge
                  /\ d.info = c.info /\ d.image = c.image
  BY DEF ChoiceType

LEMMA NoneTyped == NoRequest \in RequestType /\ NoChoice \in ChoiceType
  BY DEF NoRequest, NoChoice, RequestType, ChoiceType

(* The session is unchanged, and so is what the page holds of it. *)
LEMMA SessionStays ==
  ASSUME Inv, UNCHANGED sessionVars,
         UNCHANGED <<choice, closing>>
  PROVE  SessionTyped' /\ SessionInv' /\ AcceptedInv' /\ ComparedInv'
  BY DEF Inv, sessionVars, SessionTyped, SessionInv, AcceptedInv, ComparedInv,
         VerifiedUpTo, Working

LEMMA CatalogInv ==
  ASSUME Inv, CatalogReady \/ CatalogFails, UNCHANGED sessions
  PROVE  Inv'
  <1> USE DEF CatalogReady, CatalogFails
  <1>1. SessionTyped' /\ SessionInv' /\ AcceptedInv' /\ ComparedInv'
    BY SessionStays
  <1>2. PageTyped' BY DEF Inv, PageTyped, sessionVars
  <1>3. PageInv'
    <2>1. CASE CatalogReady
      BY <2>1 DEF Inv, PageInv, PageTyped, Serving, sessionVars
    <2>2. CASE CatalogFails BY <2>2 DEF Inv, PageInv, PageTyped, sessionVars
    <2> QED BY <2>1, <2>2
  <1> QED BY <1>1, <1>2, <1>3 DEF Inv

(* A request begins, for a badge or with the chooser. *)
LEMMA RequestBegins ==
  ASSUME Inv, NEW b \in Badge \cup {None}, NEW a \in BOOLEAN,
         StartConnect(b, a), info = None
  PROVE  /\ request' \in RequestType /\ request'.at \in {"chooser", "open"}
         /\ ~flashing /\ catalog = "ready"
  BY DEF StartConnect, RequestType

LEMMA DetectInv ==
  ASSUME Inv, DetectNone \/ (\E b \in Badge : DetectOne(b)), UNCHANGED sessions
  PROVE  Inv'
  <1> USE DEF DetectNone, DetectOne
  <1>1. SessionTyped' /\ SessionInv' /\ AcceptedInv' /\ ComparedInv'
    BY SessionStays
  <1>2. CASE DetectNone
    <2>1. PageTyped' BY <1>2 DEF Inv, PageTyped, sessionVars
    <2>2. PageInv' BY <1>2, Names DEF Inv, PageInv, PageTyped, sessionVars
    <2> QED BY <1>1, <2>1, <2>2 DEF Inv
  <1>3. ASSUME NEW b \in Badge, DetectOne(b) PROVE Inv'
    <2>1. info = None BY <1>3 DEF Inv, PageInv
    <2>2. /\ request' \in RequestType /\ request'.at \in {"chooser", "open"}
          /\ ~flashing /\ catalog = "ready"
      BY <1>3, <2>1, RequestBegins
    <2>3. PageTyped' BY <1>3, <2>2 DEF Inv, PageTyped, sessionVars
    <2>4. PageInv' BY <1>3, <2>1, <2>2 DEF Inv, PageInv, PageTyped, sessionVars
    <2> QED BY <1>1, <2>3, <2>4 DEF Inv
  <1> QED BY <1>2, <1>3

LEMMA WatchInv ==
  ASSUME Inv, StartWatching \/ (\E b \in Badge : ChooserPicks(b)), UNCHANGED sessions
  PROVE  Inv'
  <1> USE DEF StartWatching, ChooserPicks
  <1>1. SessionTyped' /\ SessionInv' /\ AcceptedInv' /\ ComparedInv'
    BY SessionStays
  <1>2. CASE StartWatching
    <2>1. info = None BY <1>2 DEF Inv, PageTyped
    <2>2. /\ request' \in RequestType /\ request'.at \in {"chooser", "open"}
          /\ ~flashing /\ catalog = "ready"
      BY <1>2, <2>1, RequestBegins
    <2>3. PageTyped' BY <1>2, <2>2 DEF Inv, PageTyped, sessionVars
    <2>4. PageInv' BY <1>2, <2>1, <2>2 DEF Inv, PageInv, PageTyped, sessionVars
    <2> QED BY <1>1, <2>3, <2>4 DEF Inv
  <1>3. ASSUME NEW b \in Badge, ChooserPicks(b) PROVE Inv'
    <2>1. request' \in RequestType /\ request'.at = "open"
      BY <1>3 DEF Inv, PageTyped, RequestType
    <2>2. PageTyped' BY <1>3, <2>1 DEF Inv, PageTyped, sessionVars
    <2>3. PageInv' BY <1>3, <2>1, Names DEF Inv, PageInv, PageTyped, sessionVars
    <2> QED BY <1>1, <2>2, <2>3 DEF Inv
  <1> QED BY <1>2, <1>3

LEMMA WizardTyped ==
  ASSUME wizard \in {"connect", "firmware", "flash", "success"},
         NEW step \in {"connect", "firmware", "flash", "success"}, Show(step)
  PROVE  wizard' \in {"connect", "firmware", "flash", "success"}
  BY DEF Show

LEMMA IdentifiedInv ==
  ASSUME Inv, Identified, UNCHANGED sessions
  PROVE  Inv'
  <1> USE DEF Identified
  <1>1. SessionTyped' /\ SessionInv' /\ AcceptedInv' /\ ComparedInv'
    BY SessionStays
  <1>2. info' \in Info BY FreshInfo
  <1>3. wizard' \in {"connect", "firmware", "flash", "success"}
    BY WizardTyped DEF Inv, PageTyped
  <1>4. device # None BY Names DEF Inv, SessionTyped
  <1>5. PageTyped' BY <1>2, <1>3, <1>4, NoneTyped DEF Inv, PageTyped, sessionVars
  <1>6. PageInv'
    BY <1>2, Names DEF Inv, PageInv, PageTyped, sessionVars
  <1> QED BY <1>1, <1>5, <1>6 DEF Inv

LEMMA ChooseInv ==
  ASSUME Inv, NEW i \in Image, Choose(i), UNCHANGED sessions
  PROVE  Inv'
  <1> USE DEF Choose
  <1>1. /\ choice' \in ChoiceType /\ choice'.at = "loading"
        /\ choice'.badge \in Badge /\ choice'.info \in Info /\ choice'.image \in Image
    BY Names DEF Inv, SessionTyped, PageTyped, ChoiceType
  <1>2. PageTyped' BY <1>1 DEF Inv, PageTyped, sessionVars
  <1>3. PageInv' BY <1>1, Names DEF Inv, PageInv, PageTyped, Serving, sessionVars
  <1>4. session.step = "none" /\ ~Working
    BY Names DEF Inv, SessionInv, Serving
  <1>5. SessionInv'
    BY <1>1, <1>4, Names DEF Inv, SessionInv, Serving, sessionVars, Working
  <1>6. SessionTyped' /\ AcceptedInv' /\ ComparedInv'
    BY DEF Inv, SessionTyped, AcceptedInv, ComparedInv, VerifiedUpTo, sessionVars
  <1> QED BY <1>2, <1>3, <1>5, <1>6 DEF Inv

LEMMA RefusedInv ==
  ASSUME Inv, ChoiceRefused, UNCHANGED sessions
  PROVE  Inv'
  <1> USE DEF ChoiceRefused, Refused
  <1>1. choice' \in ChoiceType /\ choice'.at = "none" BY NoneTyped, Names
  <1>2. PageTyped' BY <1>1 DEF Inv, PageTyped, sessionVars
  <1>3. PageInv' BY <1>1, Names DEF Inv, PageInv, PageTyped, Serving, sessionVars
  <1>4. session.step = "none" /\ ~Working
    BY Names DEF Inv, SessionInv, Serving, Working, Steps
  <1>5. SessionInv'
    BY <1>1, <1>4, Names DEF Inv, SessionInv, Serving, sessionVars, Working
  <1>6. SessionTyped' /\ AcceptedInv' /\ ComparedInv'
    BY DEF Inv, SessionTyped, AcceptedInv, ComparedInv, VerifiedUpTo, sessionVars
  <1> QED BY <1>2, <1>3, <1>5, <1>6 DEF Inv

LEMMA LockInv ==
  ASSUME Inv, LockGranted, UNCHANGED sessions
  PROVE  Inv'
  <1> USE DEF LockGranted
  <1>1. /\ choice' \in ChoiceType /\ choice'.at = "wake"
        /\ choice'.badge \in Badge /\ choice'.info \in Info /\ choice'.image \in Image
    BY DEF Inv, PageTyped, PageInv, ChoiceType
  <1>2. wizard' \in {"connect", "firmware", "flash", "success"}
    BY WizardTyped DEF Inv, PageTyped
  <1>3. info # None BY Names DEF Inv, PageInv, SameCapture
  <1>4. PageTyped' BY <1>1, <1>2 DEF Inv, PageTyped, sessionVars
  <1>5. PageInv'
    BY <1>1, <1>3, Names DEF Inv, PageInv, PageTyped, Serving, sessionVars
  <1>6. session.step = "none" /\ ~Working
    BY Names DEF Inv, SessionInv, Serving, Working, Steps
  <1>7. SessionInv'
    BY <1>1, <1>6, Names DEF Inv, SessionInv, Serving, sessionVars, Working
  <1>8. SessionTyped' /\ AcceptedInv' /\ ComparedInv'
    BY DEF Inv, SessionTyped, AcceptedInv, ComparedInv, VerifiedUpTo, sessionVars
  <1> QED BY <1>4, <1>5, <1>7, <1>8 DEF Inv

-----------------------------------------------------------------------------
(* Badges are plugged in and unplugged.                                    *)

(* Everything of the session but `attached' and the wire stays. *)
LEMMA PlugSession ==
  ASSUME Inv, NEW b \in Badge, Plug(b),
         UNCHANGED <<session, wire, device, flash, config, choice, closing>>
  PROVE  SessionTyped' /\ SessionInv' /\ AcceptedInv' /\ ComparedInv'
  <1> USE DEF Plug
  <1>1. SessionTyped' BY DEF Inv, SessionTyped
  <1>2. SessionInv' BY DEF Inv, SessionInv, Working
  <1>3. AcceptedInv' /\ ComparedInv'
    BY DEF Inv, AcceptedInv, ComparedInv, VerifiedUpTo
  <1> QED BY <1>1, <1>2, <1>3

LEMMA PlugInv ==
  ASSUME Inv, NEW b \in Badge, PlugUnknown(b) \/ PlugAuthorized(b), UNCHANGED sessions
  PROVE  Inv'
  <1>1. SessionTyped' /\ SessionInv' /\ AcceptedInv' /\ ComparedInv'
    BY PlugSession DEF PlugUnknown, PlugAuthorized, pageVars
  <1>2. CASE PlugUnknown(b)
    <2>1. PageTyped' BY <1>2 DEF Inv, PageTyped, PlugUnknown, pageVars
    <2>2. PageInv' BY <1>2 DEF Inv, PageInv, PlugUnknown, pageVars
    <2> QED BY <1>1, <2>1, <2>2 DEF Inv
  <1>3. CASE PlugAuthorized(b)
    <2> USE <1>3 DEF PlugAuthorized
    <2>1. info = None BY DEF Inv, PageTyped
    <2>2. /\ request' \in RequestType /\ request'.at \in {"chooser", "open"}
          /\ ~flashing /\ catalog = "ready"
      BY <2>1, RequestBegins
    <2>3. PageTyped' BY <2>2 DEF Inv, PageTyped
    <2>4. PageInv' BY <2>1, <2>2 DEF Inv, PageInv, PageTyped
    <2> QED BY <1>1, <2>3, <2>4 DEF Inv
  <1> QED BY <1>2, <1>3

LEMMA UnplugInv ==
  ASSUME Inv, NEW b \in Badge, Unplug(b), UNCHANGED sessions
  PROVE  Inv'
  <1> USE DEF Unplug
  <1>1. PageTyped' BY DEF Inv, PageTyped, pageVars
  <1>2. PageInv' BY DEF Inv, PageInv, pageVars
  <1>3. /\ wire' \in WireType /\ wire'.command = wire.command /\ wire'.good = wire.good
        /\ \/ wire' = wire /\ (wire.at = "badge" => session.badge # b)
           \/ wire.at = "badge" /\ wire'.at = "lost"
    BY DEF Inv, SessionTyped, WireType
  <1>4. SessionTyped' BY <1>3 DEF Inv, SessionTyped
  <1>5. AcceptedInv' BY <1>3 DEF Inv, AcceptedInv
  <1>6. ComparedInv' BY <1>3 DEF Inv, ComparedInv, VerifiedUpTo
  <1>7. SessionInv'
    <2>1. CASE wire' = wire
      BY <1>3, <2>1, Names DEF Inv, SessionInv, Working, pageVars
    <2>2. CASE wire.at = "badge" /\ wire'.at = "lost"
      BY <1>3, <2>2, Names DEF Inv, SessionInv, Working, pageVars
    <2> QED BY <1>3, <2>1, <2>2
  <1> QED BY <1>1, <1>2, <1>4, <1>5, <1>6, <1>7 DEF Inv

-----------------------------------------------------------------------------
(* closeUsb(): up to its await, and after it.                              *)

LEMMA ClosingTyped ==
  ASSUME Inv, NEW caller \in Caller, CloseUsb(caller)
  PROVE  /\ closing' \in [Caller -> Badge \cup {None, Idle}]
         /\ closing'[caller] = device /\ device # Idle
         /\ \A c \in Caller : c # caller => closing'[c] = closing[c]
         /\ device' = None /\ info' = None
  BY Names DEF Inv, SessionTyped, PageTyped, CloseUsb

(* A close that is not the end of a session. *)
LEMMA CloseSession ==
  ASSUME Inv, NEW caller \in {"user", "unplug", "connect"}, CloseUsb(caller),
         UNCHANGED <<session, wire, badgeVars, choice, flashing>>,
         flashing => device # session.badge \/ session.badge \notin attached
  PROVE  SessionTyped' /\ SessionInv' /\ AcceptedInv' /\ ComparedInv'
  <1>1. /\ closing'["flash"] = closing["flash"] /\ device' = None
    BY ClosingTyped DEF Caller
  <1>2. SessionTyped' BY <1>1 DEF Inv, SessionTyped, badgeVars
  <1>3. AcceptedInv' /\ ComparedInv'
    BY DEF Inv, AcceptedInv, ComparedInv, VerifiedUpTo, badgeVars
  <1>4. wire.at = "badge" => session.badge = closing["flash"]
    <2> SUFFICES ASSUME wire.at = "badge" PROVE session.badge = closing["flash"]
      OBVIOUS
    <2>1. session.step # "none" BY Names DEF Inv, SessionInv
    <2>2. flashing BY <2>1 DEF Inv, SessionInv, PageInv
    <2> QED BY <2>2 DEF Inv, SessionInv
  <1>5. SessionInv' BY <1>1, <1>4 DEF Inv, SessionInv, Working, badgeVars
  <1> QED BY <1>2, <1>3, <1>5

LEMMA DisconnectInv ==
  ASSUME Inv, DisconnectEvent, UNCHANGED sessions
  PROVE  Inv'
  <1> USE DEF DisconnectEvent
  <1>1. SessionTyped' /\ SessionInv' /\ AcceptedInv' /\ ComparedInv'
    BY CloseSession
  <1>2. /\ closing' \in [Caller -> Badge \cup {None, Idle}]
        /\ closing'["flash"] = closing["flash"] /\ device' = None /\ info' = None
    BY ClosingTyped DEF Caller
  <1>3. PageTyped' BY <1>2 DEF Inv, PageTyped
  <1>4. PageInv' BY <1>2 DEF Inv, PageInv
  <1> QED BY <1>1, <1>3, <1>4 DEF Inv

LEMMA ConnectFailsInv ==
  ASSUME Inv, ConnectFails, UNCHANGED sessions
  PROVE  Inv'
  <1> USE DEF ConnectFails
  <1>0. ~flashing /\ catalog = "ready" BY Names DEF Inv, PageInv
  <1>1. SessionTyped' /\ SessionInv' /\ AcceptedInv' /\ ComparedInv'
    BY <1>0, CloseSession
  <1>2. /\ closing' \in [Caller -> Badge \cup {None, Idle}]
        /\ closing'["flash"] = closing["flash"] /\ device' = None /\ info' = None
    BY ClosingTyped DEF Caller
  <1>3. request' \in RequestType /\ request'.at = "closing"
    BY DEF Inv, PageTyped, RequestType
  <1>4. PageTyped' BY <1>2, <1>3 DEF Inv, PageTyped
  <1>5. PageInv' BY <1>0, <1>2, <1>3 DEF Inv, PageInv
  <1> QED BY <1>1, <1>4, <1>5 DEF Inv

LEMMA UserDisconnectsInv ==
  ASSUME Inv, UserDisconnects, UNCHANGED sessions
  PROVE  Inv'
  <1> USE DEF UserDisconnects
  <1>1. SessionTyped' /\ SessionInv' /\ AcceptedInv' /\ ComparedInv'
    BY CloseSession
  <1>2. /\ closing' \in [Caller -> Badge \cup {None, Idle}]
        /\ closing'["flash"] = closing["flash"] /\ device' = None /\ info' = None
    BY ClosingTyped DEF Caller
  <1>3. PageTyped' BY <1>2 DEF Inv, PageTyped
  <1>4. PageInv' BY <1>2 DEF Inv, PageInv
  <1> QED BY <1>1, <1>3, <1>4 DEF Inv

LEMMA ClosedTyped ==
  ASSUME Inv, NEW caller \in Caller, Closed(caller)
  PROVE  /\ closing' \in [Caller -> Badge \cup {None, Idle}]
         /\ closing'[caller] = Idle
         /\ \A c \in Caller : c # caller => closing'[c] = closing[c]
         /\ wire' \in WireType /\ (wire' = wire \/ wire' = NoTransfer)
  <1>1. NoTransfer \in WireType BY DEF NoTransfer, WireType
  <1> QED BY <1>1 DEF Inv, SessionTyped, PageTyped, Closed

(* What was under way is dropped, or not; the session goes on. *)
LEMMA ClosedSession ==
  ASSUME Inv, NEW caller \in {"user", "unplug", "connect"}, Closed(caller),
         UNCHANGED <<session, choice>>
  PROVE  SessionTyped' /\ SessionInv' /\ AcceptedInv' /\ ComparedInv'
  <1>1. /\ closing'["flash"] = closing["flash"]
        /\ wire' \in WireType /\ (wire' = wire \/ wire' = NoTransfer)
    BY ClosedTyped DEF Caller
  <1>2. UNCHANGED <<device, attached, flash, config>> BY DEF Closed
  <1>3. SessionTyped' BY <1>1, <1>2 DEF Inv, SessionTyped
  <1>4. CASE wire' = wire
    <2>1. SessionInv' BY <1>1, <1>2, <1>4 DEF Inv, SessionInv, Working
    <2>2. AcceptedInv' /\ ComparedInv'
      BY <1>2, <1>4 DEF Inv, AcceptedInv, ComparedInv, VerifiedUpTo
    <2> QED BY <1>3, <2>1, <2>2
  <1>5. CASE wire' = NoTransfer
    <2>1. SessionInv' BY <1>1, <1>2, <1>5, Names DEF Inv, SessionInv, Working
    <2>2. wire'.command = None /\ wire'.at = "none" BY <1>5, Names
    <2>3. AcceptedInv' BY <1>2, <2>2, Names DEF Inv, AcceptedInv
    <2>4. ComparedInv' BY <1>2, <2>2 DEF Inv, ComparedInv, VerifiedUpTo
    <2> QED BY <1>3, <2>1, <2>3, <2>4
  <1> QED BY <1>1, <1>4, <1>5

LEMMA ClosedInv ==
  ASSUME Inv, DisconnectClosed \/ ConnectClosed \/ UserDisconnected,
         UNCHANGED sessions
  PROVE  Inv'
  <1>1. PICK caller \in {"user", "unplug", "connect"} : Closed(caller)
    BY DEF DisconnectClosed, ConnectClosed, UserDisconnected
  <1>2. UNCHANGED <<session, catalog, detecting, choice, flashing>>
    BY DEF DisconnectClosed, ConnectClosed, UserDisconnected
  <1>3. SessionTyped' /\ SessionInv' /\ AcceptedInv' /\ ComparedInv'
    BY <1>1, <1>2, ClosedSession
  <1>4. /\ closing' \in [Caller -> Badge \cup {None, Idle}]
        /\ closing'["flash"] = closing["flash"]
    BY <1>1, ClosedTyped DEF Caller
  <1>5. UNCHANGED <<device, info>> BY <1>1 DEF Closed
  <1>6. wizard' \in {"connect", "firmware", "flash", "success"}
    BY WizardTyped DEF Inv, PageTyped, DisconnectClosed, ConnectClosed, UserDisconnected
  <1>7. request' \in RequestType /\ (request' = request \/ request' = NoRequest)
    BY NoneTyped
    DEF Inv, PageTyped, DisconnectClosed, ConnectClosed, UserDisconnected
  <1>8. PageTyped' BY <1>2, <1>4, <1>5, <1>6, <1>7 DEF Inv, PageTyped
  <1>9. PageInv' BY <1>2, <1>4, <1>5, <1>7, Names DEF Inv, PageInv
  <1> QED BY <1>3, <1>8, <1>9 DEF Inv

LEMMA OpenedInv ==
  ASSUME Inv, Opened, UNCHANGED sessions
  PROVE  Inv'
  <1> USE DEF Opened
  <1>0. ~flashing /\ info = None /\ closing["flash"] = Idle /\ device' \in Badge
    BY Names DEF Inv, PageInv, SessionTyped, Serving
  <1>1. request' \in RequestType /\ request'.at = "identify"
    BY DEF Inv, PageTyped, RequestType
  <1>2. SessionTyped' BY <1>0 DEF Inv, SessionTyped, badgeVars
  <1>3. AcceptedInv' /\ ComparedInv'
    BY DEF Inv, AcceptedInv, ComparedInv, VerifiedUpTo, badgeVars
  <1>4. session.step = "none" BY <1>0 DEF Inv, SessionInv, PageInv
  <1>5. wire.at = "none" BY <1>4, Names DEF Inv, SessionInv
  <1>6. SessionInv' BY <1>4, <1>5 DEF Inv, SessionInv, Working, badgeVars
  <1>7. PageTyped' BY <1>0, <1>1 DEF Inv, PageTyped
  <1>8. PageInv' BY <1>0, <1>1 DEF Inv, PageInv
  <1> QED BY <1>2, <1>3, <1>6, <1>7, <1>8 DEF Inv

-----------------------------------------------------------------------------
(* A session starts, stops and ends.                                       *)

LEMMA StartsInv ==
  ASSUME Inv, SessionStarts
  PROVE  Inv'
  <1> USE DEF SessionStarts
  <1>1. /\ choice' \in ChoiceType /\ choice'.at = "running"
        /\ choice'.badge = choice.badge /\ choice'.info = choice.info
        /\ choice'.image = choice.image
        /\ choice.badge \in Badge /\ choice.info \in Info /\ choice.image \in Image
    BY DEF Inv, PageTyped, PageInv, ChoiceType
  <1>2. /\ session' \in SessionType /\ session'.step = "config-reset"
        /\ session'.badge = choice.badge /\ session'.image = choice.image
    BY <1>1 DEF SessionType, Steps
  <1>3. session.step = "none" /\ wire = NoTransfer
    BY Names DEF Inv, SessionInv, Serving
  <1>4. sessions' \in 0 .. MaxSessions
    BY FlasherPageAssumption DEF Inv, PageTyped, PageInv
  <1>5. SessionTyped' BY <1>2 DEF Inv, SessionTyped, badgeVars
  <1>6. PageTyped' BY <1>1, <1>4 DEF Inv, PageTyped
  <1>7. PageInv' BY <1>1 DEF Inv, PageInv, Serving
  <1>8. SessionInv'
    BY <1>1, <1>2, <1>3, Names DEF Inv, SessionInv, Working, Serving, badgeVars
  <1>9. AcceptedInv'
    <2>1. "config-reset" \notin Later BY DEF Later, Steps
    <2>2. None # "config-read" BY Names DEF Steps
    <2> QED BY <1>2, <1>3, <2>1, <2>2, Names DEF AcceptedInv
  <1>10. ComparedInv' BY <1>2 DEF ComparedInv
  <1> QED BY <1>5, <1>6, <1>7, <1>8, <1>9, <1>10 DEF Inv

LEMMA StopsInv ==
  ASSUME Inv, CaptureLost \/ SessionFailed \/ SessionDone, UNCHANGED sessions
  PROVE  Inv'
  <1> USE DEF CaptureLost, SessionFailed, SessionDone, FlashStops
  <1>1. /\ CloseUsb("flash") /\ closing["flash"] = Idle
        /\ UNCHANGED <<session, wire, badgeVars, catalog, detecting, request, flashing>>
        /\ wizard' \in {"connect", "firmware", "flash", "success"}
    BY DEF Inv, PageTyped, PageInv
  <1>2. /\ closing' \in [Caller -> Badge \cup {None, Idle}]
        /\ closing'["flash"] = device /\ device # Idle
        /\ device' = None /\ info' = None
    BY <1>1, ClosingTyped DEF Caller
  <1>3. /\ choice' \in ChoiceType
        /\ choice'.badge = choice.badge /\ choice'.info = choice.info
        /\ choice'.image = choice.image
        /\ \/ choice'.at = "stopping" /\ choice.at \in {"wake", "running"}
           \/ choice'.at = "finished" /\ choice.at = "running" /\ session.step = "done"
    BY DEF Inv, PageTyped, ChoiceType
  <1>4. ~Working BY <1>3 DEF Inv, SessionInv, Serving, Working, Steps
  <1>5. SessionTyped' BY <1>1, <1>2 DEF Inv, SessionTyped, badgeVars
  <1>6. PageTyped' BY <1>1, <1>2, <1>3 DEF Inv, PageTyped
  <1>7. PageInv' BY <1>1, <1>2, <1>3 DEF Inv, PageInv, Serving
  <1>8. SessionInv'
    <2>1. wire.at = "badge" => session.badge = closing'["flash"]
      <3>1. wire.at = "badge" => session.step # "none"
        BY Names DEF Inv, SessionInv
      <3>2. session.step # "none" => session.badge \in Badge
        BY DEF Inv, SessionInv, PageInv, Serving
      <3> QED BY <1>1, <1>2, <3>1, <3>2, Names DEF Inv, SessionInv
    <2>2. ~Working' BY <1>1, <1>4 DEF Working
    <2>3. session.step # "none" => choice'.at \in Serving
      BY <1>3 DEF Serving
    <2> QED BY <1>1, <1>3, <1>4, <2>1, <2>2, <2>3 DEF Inv, SessionInv, badgeVars
  <1>9. AcceptedInv' /\ ComparedInv'
    BY <1>1 DEF Inv, AcceptedInv, ComparedInv, VerifiedUpTo, badgeVars
  <1> QED BY <1>5, <1>6, <1>7, <1>8, <1>9 DEF Inv

(* No session: nothing is on the wire. *)
LEMMA NoSessionInv ==
  ASSUME session' = NoSession, wire' = NoTransfer,
         choice'.at = "none"
  PROVE  /\ SessionInv' /\ AcceptedInv' /\ ComparedInv'
         /\ session' \in SessionType /\ wire' \in WireType
  <1>1. ~Working' BY DEF Working, NoSession, Steps
  <1>2. SessionInv' BY <1>1, Names DEF SessionInv, Serving
  <1>3. AcceptedInv'
    <2>1. session'.step = "none" /\ wire'.command = None BY Names
    <2>2. "none" \notin Later BY DEF Later, Steps
    <2>3. None # "config-read" BY Names DEF Steps
    <2> QED BY <2>1, <2>2, <2>3, Names DEF AcceptedInv
  <1>4. ComparedInv' BY Names DEF ComparedInv
  <1>5. session' \in SessionType /\ wire' \in WireType
    BY DEF NoSession, NoTransfer, SessionType, WireType, Steps
  <1> QED BY <1>2, <1>3, <1>4, <1>5

LEMMA EndsInv ==
  ASSUME Inv, FlashFinished \/ FlashStopped, UNCHANGED sessions
  PROVE  Inv'
  <1> USE DEF FlashFinished, FlashStopped, FlashEnded
  <1>1. Closed("flash") BY DEF FlashFinished, FlashStopped
  <1>2. /\ closing' \in [Caller -> Badge \cup {None, Idle}]
        /\ closing'["flash"] = Idle
    BY <1>1, ClosedTyped DEF Caller
  <1>3. UNCHANGED <<device, info, attached, flash, config>> BY <1>1 DEF Closed
  <1>4. wire.at \in {"none", "badge", "lost"}
    <2>1. ~Working BY DEF Inv, SessionInv
    <2>2. wire.at \in {"none", "badge", "page", "lost"}
      BY DEF Inv, SessionTyped, WireType
    <2> QED BY <2>1, <2>2 DEF Inv, SessionInv
  <1>5. wire' = NoTransfer
    <2>1. CASE wire.at = "badge"
      <3>1. session.step # "none" BY <2>1, Names DEF Inv, SessionInv
      <3>2. session.badge \in Badge BY <3>1 DEF Inv, SessionInv, PageInv, Serving
      <3>3. device = None BY <1>1 DEF Closed, Inv, PageInv
      <3>4. session.badge = closing["flash"]
        BY <2>1, <3>2, <3>3, Names DEF Inv, SessionInv
      <3> QED BY <1>1, <3>4 DEF Closed
    <2>2. CASE wire.at = "lost" BY <1>1, <2>2 DEF Closed
    <2>3. CASE wire.at = "none" BY <1>1, <2>3 DEF Closed, Inv, SessionInv
    <2> QED BY <1>4, <2>1, <2>2, <2>3
  <1>6. choice' = NoChoice /\ session' = NoSession /\ choice'.at = "none" BY Names
  <1>7. SessionInv' /\ AcceptedInv' /\ ComparedInv' /\ SessionTyped'
    BY <1>3, <1>5, <1>6, NoSessionInv DEF Inv, SessionTyped
  <1>8. wizard' \in {"connect", "firmware", "flash", "success"}
    BY DEF Inv, PageTyped
  <1>9. PageTyped' BY <1>2, <1>3, <1>8, NoneTyped DEF Inv, PageTyped
  <1>10. PageInv' BY <1>2, <1>3, <1>6, Names DEF Inv, PageInv, Serving
  <1> QED BY <1>7, <1>9, <1>10 DEF Inv

LEMMA ReloadInv ==
  ASSUME Inv, Reload, UNCHANGED sessions
  PROVE  Inv'
  <1> USE DEF Reload
  <1>1. choice'.at = "none" BY Names
  <1>2. SessionInv' /\ AcceptedInv' /\ ComparedInv' /\ SessionTyped'
    BY <1>1, NoSessionInv DEF Inv, SessionTyped, badgeVars
  <1>3. PageTyped' BY NoneTyped DEF Inv, PageTyped
  <1>4. PageInv' BY <1>1, Names DEF PageInv, Serving, Caller
  <1> QED BY <1>2, <1>3, <1>4 DEF Inv

-----------------------------------------------------------------------------
(* The transfers of a session.                                             *)

(* Nothing of the page is touched by a transfer. *)
LEMMA PageStays ==
  ASSUME Inv, UNCHANGED pageVars, UNCHANGED <<device, sessions>>
  PROVE  PageTyped' /\ PageInv'
  BY DEF Inv, PageTyped, PageInv, pageVars

LEMMA SessionFields ==
  ASSUME NEW s \in SessionType
  PROVE  /\ s.step \in Steps \cup {"none", "failed", "done"} /\ s.index \in Nat
         /\ s.badge \in Badge \cup {None} /\ s.image \in Image \cup {None}
  BY DEF SessionType

LEMMA FailFields ==
  ASSUME Inv, Fail
  PROVE  /\ session' \in SessionType /\ session'.step = "failed"
         /\ session'.badge = session.badge /\ session'.image = session.image
  BY DEF Inv, SessionTyped, SessionType, Fail

LEMMA FailedIsOver == "failed" \notin Steps /\ "failed" \notin Later /\ "done" \notin Steps
  BY DEF Later, Steps

(* The session has failed, and what it had sent stays where it is or not. *)
LEMMA FailInv ==
  ASSUME Inv, Working, Fail, wire' = NoTransfer \/ (wire' = wire /\ wire.at # "page"),
         UNCHANGED <<device, attached, flash, config>>,
         UNCHANGED pageVars, UNCHANGED sessions
  PROVE  Inv'
  <1>1. /\ session' \in SessionType /\ session'.step = "failed"
        /\ session'.badge = session.badge /\ session'.image = session.image
    BY FailFields
  <1>2. PageTyped' /\ PageInv' BY PageStays
  <1>3. ~Working' BY <1>1, FailedIsOver DEF Working
  <1>4. NoTransfer \in WireType BY DEF NoTransfer, WireType
  <1>5. SessionTyped' BY <1>1, <1>4 DEF Inv, SessionTyped
  <1>6. choice.at = "running" /\ choice' = choice /\ closing' = closing
    BY DEF Inv, SessionInv, pageVars
  <1>7. session.step # "none" BY DEF Working, Steps
  <1>8. SessionInv'
    BY <1>1, <1>3, <1>6, <1>7, Names DEF Inv, SessionInv, Serving
  <1>9. AcceptedInv'
    <2>1. session'.step \notin Later BY <1>1, FailedIsOver
    <2>2. None # "config-read" BY Names DEF Steps
    <2> QED BY <1>1, <2>1, <2>2, Names DEF Inv, AcceptedInv
  <1>10. ComparedInv' BY <1>1 DEF ComparedInv
  <1> QED BY <1>2, <1>5, <1>8, <1>9, <1>10 DEF Inv

(* What a chunk leads to. *)
LEMMA AfterChunkFields ==
  ASSUME NEW s, s \in SessionType, NEW again \in Steps, NEW next \in Steps
  PROVE  LET t == AfterChunk(s, again, next)
         IN  /\ t \in SessionType /\ t.badge = s.badge /\ t.image = s.image
             /\ \/ t.step = again /\ t.index = s.index + 1
                \/ /\ t.step = next /\ t.index = 0
                   /\ ~(s.index + 1 < Chunks(s.image))
  <1>1. CASE s.index + 1 < Chunks(s.image)
    <2>1. AfterChunk(s, again, next) = [s EXCEPT !.step = again, !.index = s.index + 1]
      BY <1>1 DEF AfterChunk
    <2>2. ASSUME NEW t, t = [s EXCEPT !.step = again, !.index = s.index + 1]
          PROVE  t = [step |-> again, index |-> s.index + 1,
                      badge |-> s.badge, image |-> s.image]
      BY <2>2 DEF SessionType
    <2>3. s.index + 1 \in Nat BY SessionFields
    <2> QED BY <2>1, <2>2, <2>3, SessionFields DEF SessionType
  <1>2. CASE ~(s.index + 1 < Chunks(s.image))
    <2>1. AfterChunk(s, again, next) = [s EXCEPT !.step = next, !.index = 0]
      BY <1>2 DEF AfterChunk
    <2>2. ASSUME NEW t, t = [s EXCEPT !.step = next, !.index = 0]
          PROVE  t = [step |-> next, index |-> 0, badge |-> s.badge, image |-> s.image]
      BY <2>2 DEF SessionType
    <2> QED BY <1>2, <2>1, <2>2, SessionFields DEF SessionType
  <1> QED BY <1>1, <1>2

(* The step that follows, and what it takes over from the one before. *)
LEMMA AfterFields ==
  ASSUME NEW s \in SessionType, s.step \in Steps
  PROVE  LET t == After(s)
         IN  /\ t \in SessionType /\ t.badge = s.badge /\ t.image = s.image
             /\ t.step \in Steps \cup {"done"}
             /\ t.step \in Later => s.step \in Later \cup {"config-read"}
             /\ t.step = "finalize" => t.index = 0
             /\ t.step = "verify-key" => s.step = "finalize" /\ t.index = s.index
             /\ t.step = "verify" =>
                  \/ s.step = "verify-key" /\ t.index = s.index
                  \/ s.step = "verify" /\ t.index = s.index + 1
             /\ t.step = "reset" =>
                  s.step = "verify" /\ ~(s.index + 1 < Chunks(s.image))
             /\ t.step = "done" <=> s.step = "reset"
  <1> DEFINE Goes(t) ==
        /\ t \in SessionType /\ t.badge = s.badge /\ t.image = s.image
        /\ t.step \in Steps \cup {"done"}
        /\ t.step \in Later => s.step \in Later \cup {"config-read"}
        /\ t.step = "finalize" => t.index = 0
        /\ t.step = "verify-key" => s.step = "finalize" /\ t.index = s.index
        /\ t.step = "verify" =>
             \/ s.step = "verify-key" /\ t.index = s.index
             \/ s.step = "verify" /\ t.index = s.index + 1
        /\ t.step = "reset" =>
             s.step = "verify" /\ ~(s.index + 1 < Chunks(s.image))
        /\ t.step = "done" <=> s.step = "reset"
  <1> SUFFICES Goes(After(s)) OBVIOUS
  <1>1. ASSUME NEW x \in (Steps \cup {"done"}) \ {"config-read", "finalize", "verify", "reset"},
               s.step = "config-read" \/ s.step = "erase" \/ s.step = "program-key"
                 \/ s.step = "finalize" \/ s.step = "reset",
               x = "verify-key" => s.step = "finalize",
               x = "done" <=> s.step = "reset"
        PROVE  Goes([s EXCEPT !.step = x])
    BY <1>1 DEF SessionType, Steps, Later
  <1>2. CASE s.step = "config-reset"
    <2>1. After(s) = [s EXCEPT !.step = "config-read"] BY <1>2 DEF After, AfterReset
    <2> QED BY <1>2, <2>1 DEF SessionType, Steps, Later
  <1>3. CASE s.step = "config-read"
    <2>1. After(s) = [s EXCEPT !.step = "erase"] BY <1>3 DEF After
    <2> QED BY <1>1, <1>3, <2>1 DEF Steps
  <1>4. CASE s.step = "erase"
    <2>1. After(s) = [s EXCEPT !.step = "program-key"] BY <1>4 DEF After
    <2> QED BY <1>1, <1>4, <2>1 DEF Steps
  <1>5. CASE s.step = "program-key"
    <2>1. After(s) = [s EXCEPT !.step = "program"] BY <1>5 DEF After
    <2> QED BY <1>1, <1>5, <2>1 DEF Steps
  <1>6. CASE s.step = "program"
    <2> DEFINE t == AfterChunk(s, "program", "finalize")
    <2>1. After(s) = t BY <1>6 DEF After
    <2>2. /\ t \in SessionType /\ t.badge = s.badge /\ t.image = s.image
          /\ t.step = "program" \/ (t.step = "finalize" /\ t.index = 0)
      BY AfterChunkFields DEF Steps
    <2> HIDE DEF t
    <2>3. Goes(t) BY <1>6, <2>2 DEF Steps, Later
    <2> QED BY <2>1, <2>3
  <1>7. CASE s.step = "finalize"
    <2>1. After(s) = [s EXCEPT !.step = "verify-key"] BY <1>7 DEF After
    <2> QED BY <1>1, <1>7, <2>1 DEF Steps
  <1>8. CASE s.step = "verify-key"
    <2>1. After(s) = [s EXCEPT !.step = "verify"] BY <1>8 DEF After
    <2> QED BY <1>8, <2>1 DEF SessionType, Steps, Later
  <1>9. CASE s.step = "verify"
    <2> DEFINE t == AfterChunk(s, "verify", "reset")
    <2>1. After(s) = t BY <1>9 DEF After
    <2>2. /\ t \in SessionType /\ t.badge = s.badge /\ t.image = s.image
          /\ \/ t.step = "verify" /\ t.index = s.index + 1
             \/ t.step = "reset" /\ ~(s.index + 1 < Chunks(s.image))
      BY AfterChunkFields DEF Steps
    <2> HIDE DEF t
    <2>3. Goes(t) BY <1>9, <2>2 DEF Steps, Later
    <2> QED BY <2>1, <2>3
  <1>10. CASE s.step = "reset"
    <2>1. After(s) = [s EXCEPT !.step = "done"] BY <1>10 DEF After
    <2> QED BY <1>1, <1>10, <2>1 DEF Steps
  <1> QED BY <1>2, <1>3, <1>4, <1>5, <1>6, <1>7, <1>8, <1>9, <1>10 DEF Steps

(* Enough chunks cover the whole image. *)
LEMMA ChunksCover ==
  ASSUME NEW i \in Image, NEW n \in Nat, ~(n < Chunks(i))
  PROVE  Units(i) \in Nat \ {0} /\ n * CHUNK >= Units(i)
  <1> DEFINE q == Chunks(i)
             m == Units(i)
  <1>1. CHUNK \in Nat \ {0} /\ SECTOR \in Nat \ {0} /\ Length[i] \in Nat \ {0}
    BY FlashSessionAssumption
  <1>2. m \in Nat \ {0}
    <2> DEFINE a == Length[i]
    <2>1. a \in Nat \ {0} BY <1>1
    <2> HIDE DEF a
    <2>2. a * SECTOR \in Nat \ {0} BY <1>1, <2>1
    <2> QED BY <2>2 DEF a, Units
  <1>3. q = (m + CHUNK - 1) \div CHUNK BY DEF Chunks
  <1> HIDE DEF q, m
  <1>4. q \in Nat /\ q * CHUNK >= m BY <1>1, <1>2, <1>3
  <1>5. n >= q BY <1>4 DEF q
  <1>6. n * CHUNK >= q * CHUNK BY <1>1, <1>4, <1>5
  <1> QED BY <1>1, <1>2, <1>4, <1>6 DEF m

(* The session goes on after a good answer, or without one to the reset. *)
LEMMA AdvanceInv ==
  ASSUME Inv, Working, session' = After(session),
         \/ /\ wire' = NoTransfer
            /\ (wire.at = "page" /\ wire.good) \/ session.step = "reset"
         \/ wire' = wire /\ session.step = "reset" /\ wire.at \in {"badge", "lost"},
         UNCHANGED <<device, attached, flash, config>>,
         UNCHANGED pageVars, UNCHANGED sessions
  PROVE  Inv'
  <1>1. PageTyped' /\ PageInv' BY PageStays
  <1>2. session \in SessionType /\ session.step \in Steps
    BY DEF Inv, SessionTyped, Working
  <1>3. /\ session' \in SessionType
        /\ session'.badge = session.badge /\ session'.image = session.image
        /\ session'.step \in Steps \cup {"done"}
        /\ session'.step \in Later => session.step \in Later \cup {"config-read"}
        /\ session'.step = "finalize" => session'.index = 0
        /\ session'.step = "verify-key" =>
             session.step = "finalize" /\ session'.index = session.index
        /\ session'.step = "verify" =>
             \/ session.step = "verify-key" /\ session'.index = session.index
             \/ session.step = "verify" /\ session'.index = session.index + 1
        /\ session'.step = "reset" =>
             session.step = "verify" /\ ~(session.index + 1 < Chunks(session.image))
        /\ session'.step = "done" <=> session.step = "reset"
    BY <1>2, AfterFields
  <1>4. NoTransfer \in WireType BY DEF NoTransfer, WireType
  <1>5. SessionTyped' BY <1>3, <1>4 DEF Inv, SessionTyped
  <1>6. /\ choice.at = "running" /\ choice' = choice /\ closing' = closing
        /\ choice.image \in Image /\ session.image = choice.image
        /\ session.badge = choice.badge
    BY Names, <1>2 DEF Inv, SessionInv, PageInv, pageVars, Steps
  <1>7. session'.step # "none" BY <1>3 DEF Steps
  <1>8. SessionInv'
    <2>1. CASE wire' = NoTransfer
      BY <1>3, <1>6, <1>7, <2>1, Names DEF SessionInv, Serving, Working
    <2>2. CASE wire' = wire /\ session.step = "reset" /\ wire.at \in {"badge", "lost"}
      <3>1. wire.command = "reset" /\ ~(wire = NoTransfer)
        BY <2>2, Names DEF Inv, SessionInv
      <3>2. session'.step = "done" BY <1>3, <2>2
      <3>3. ~Working' BY <3>2, FailedIsOver DEF Working
      <3> QED BY <1>3, <1>6, <2>2, <3>1, <3>2, <3>3 DEF Inv, SessionInv, Serving
    <2> QED BY <2>1, <2>2
  <1>9. AcceptedInv'
    <2>1. CASE session.step \in Later \/ wire.command \in Later
      BY <1>3, <2>1 DEF Inv, AcceptedInv
    <2>2. CASE session.step \notin Later /\ wire.command \notin Later
      <3>1. session.step # "reset" BY <2>2 DEF Later, Steps
      <3>2. wire' = NoTransfer /\ wire.at = "page" /\ wire.good BY <3>1
      <3>3. wire.command = session.step BY <3>2 DEF Inv, SessionInv
      <3>4. session.step = "config-read" => config[session.badge] = "accepted"
        BY <3>2, <3>3 DEF Inv, AcceptedInv
      <3>5. None # "config-read" BY Names DEF Steps
      <3> QED BY <1>3, <2>2, <3>2, <3>4, <3>5, Names DEF AcceptedInv
    <2> QED BY <2>1, <2>2
  <1>10. ComparedInv'
    <2>1. session'.step \in {"finalize", "verify-key"} => session'.index = 0
      BY <1>3 DEF Inv, ComparedInv
    <2>2. session.step = "verify" => VerifiedUpTo(session.index + 1)
      BY DEF Inv, ComparedInv
    <2>3. session'.step = "verify" =>
            \/ session'.index = 0
            \/ session'.index = session.index + 1 /\ VerifiedUpTo(session.index + 1)
      BY <1>3, <2>2 DEF Inv, ComparedInv
    <2>4. session'.step = "verify" =>
            \A u \in 0 .. Units(session.image) - 1 :
              u < session'.index * CHUNK => flash[session.badge][u] = session.image
      BY <2>3, FlashSessionAssumption DEF VerifiedUpTo
    <2>5. ASSUME session'.step = "reset"
          PROVE  \A u \in 0 .. Units(session.image) - 1 :
                   flash[session.badge][u] = session.image
      <3>1. VerifiedUpTo(session.index + 1) BY <1>3, <2>2, <2>5
      <3>2. ~(session.index + 1 < Chunks(session.image)) BY <1>3, <2>5
      <3>3. session.index + 1 \in Nat BY <1>2, SessionFields
      <3>4. /\ Units(session.image) \in Nat \ {0}
            /\ (session.index + 1) * CHUNK >= Units(session.image)
        BY <1>6, <3>2, <3>3, ChunksCover
      <3> QED BY <3>1, <3>3, <3>4, FlashSessionAssumption DEF VerifiedUpTo
    <2>6. wire'.at # "page" BY Names
    <2>7. session'.step = "done" =>
            \A u \in 0 .. Units(session.image) - 1 :
              flash[session.badge][u] = session.image
      BY <1>3 DEF Inv, ComparedInv
    <2> QED BY <1>3, <2>1, <2>4, <2>5, <2>6, <2>7 DEF ComparedInv, VerifiedUpTo
  <1> QED BY <1>1, <1>5, <1>8, <1>9, <1>10 DEF Inv

LEMMA TransferInv ==
  ASSUME Inv, Transfer \/ Receive \/ GiveUp, UNCHANGED sessions
  PROVE  Inv'
  <1>1. CASE Transfer
    <2> USE <1>1 DEF Transfer, Send
    <2>1. CASE ~MaySend
      <3>1. Fail /\ wire' = wire /\ wire.at # "page" BY <2>1, Names
      <3> QED BY <3>1, FailInv
    <2>2. CASE MaySend
      <3>1. /\ wire' = [command |-> session.step, good |-> FALSE,
                        at |-> IF session.badge \in attached THEN "badge" ELSE "lost"]
            /\ session' = session /\ device = session.badge
        BY <2>2 DEF MaySend
      <3>2. session.step \in Steps BY DEF Working
      <3>3. /\ wire' \in WireType /\ wire'.command = session.step
            /\ \/ wire'.at = "badge" /\ session.badge \in attached
               \/ wire'.at = "lost"
        BY <3>1, <3>2 DEF WireType
      <3>4. PageTyped' /\ PageInv' BY PageStays
      <3>5. SessionTyped' BY <3>1, <3>3 DEF Inv, SessionTyped
      <3>6. SessionInv'
        BY <3>1, <3>2, <3>3, Names, FailedIsOver
        DEF Inv, SessionInv, Working, pageVars, Steps
      <3>7. AcceptedInv' BY <3>1, <3>3 DEF Inv, AcceptedInv
      <3>8. ComparedInv' BY <3>1, <3>3 DEF Inv, ComparedInv, VerifiedUpTo
      <3> QED BY <3>4, <3>5, <3>6, <3>7, <3>8 DEF Inv
    <2> QED BY <2>1, <2>2
  <1>2. CASE Receive
    <2>1. CASE Answer
      <3> USE <1>2, <2>1 DEF Receive, Answer
      <3>1. CASE wire.good \/ session.step = "reset" BY <3>1, AdvanceInv
      <3>2. CASE ~(wire.good \/ session.step = "reset") BY <3>2, FailInv
      <3> QED BY <3>1, <3>2
    <2>2. CASE TransferError
      <3> USE <1>2, <2>2 DEF Receive, TransferError
      <3>1. CASE Fail BY <3>1, FailInv
      <3>2. CASE session.step = "reset" /\ session' = After(session)
        BY <3>2, AdvanceInv
      <3> QED BY <3>1, <3>2
    <2> QED BY <1>2, <2>1, <2>2 DEF Receive
  <1>3. CASE GiveUp
    <2> USE <1>3 DEF GiveUp, TimeOut
    <2>1. CASE Fail BY <2>1, FailInv
    <2>2. CASE session.step = "reset" /\ session' = After(session)
      BY <2>2, AdvanceInv
    <2> QED BY <2>1, <2>2
  <1> QED BY <1>1, <1>2, <1>3

-----------------------------------------------------------------------------
(* The badge executes what it finds on the wire.                           *)

(* The answer reaches the page that still waits for it. *)
LEMMA AnsweredIs ==
  ASSUME Inv, NEW good, good \in BOOLEAN, Answered(good), wire.at = "badge",
         UNCHANGED session
  PROVE  /\ wire' \in WireType
         /\ \/ Working /\ wire'.at = "page" /\ wire'.command = wire.command
                       /\ wire'.good = good
            \/ ~Working /\ wire' = NoTransfer
  <1>1. NoTransfer \in WireType BY DEF NoTransfer, WireType
  <1>2. CASE Working
    <2>1. wire' = [wire EXCEPT !.at = "page", !.good = good] BY <1>2 DEF Answered
    <2> QED BY <1>2, <2>1 DEF Inv, SessionTyped, WireType
  <1>3. CASE ~Working BY <1>1, <1>3 DEF Answered
  <1> QED BY <1>2, <1>3

(* An accepted configuration stays accepted, and only an erase or a program *)
(* command changes the flash, that of the session's badge.                 *)
LEMMA ExecutesFields ==
  ASSUME Inv, BadgeExecutes
  PROVE  /\ wire.at = "badge" /\ session.badge \in attached /\ session.badge \in Badge
         /\ UNCHANGED <<session, device>>
         /\ attached' \subseteq Badge
         /\ config' \in [Badge -> Config]
         /\ \A b \in Badge : config[b] = "accepted" => config'[b] = "accepted"
         /\ flash' \in [Badge -> [Unit -> Image \cup {Other, Blank}]]
         /\ \A b \in Badge : flash'[b] # flash[b] =>
              b = session.badge /\ wire.command \in {"erase", "program"}
         /\ wire.command \in Steps /\ wire' \in WireType
         /\ \/ /\ Working /\ wire'.at = "page" /\ wire'.command = wire.command
               /\ wire.command = "config-read" /\ wire'.good =>
                    config[session.badge] = "accepted"
               /\ wire.command = "verify" /\ wire'.good =>
                    \A u \in ChunkUnits(session.image, session.index) :
                       flash[session.badge][u] = session.image
            \/ ~Working /\ wire' = NoTransfer
  <1> DEFINE b == session.badge
  <1> USE DEF BadgeExecutes
  <1>1. /\ wire.at = "badge" /\ b \in attached /\ b \in Badge
        /\ UNCHANGED <<session, device>> /\ attached \subseteq Badge
        /\ config \in [Badge -> Config]
        /\ flash \in [Badge -> [Unit -> Image \cup {Other, Blank}]]
    BY DEF Inv, SessionTyped
  <1>2. session.step # "none" /\ session.image \in Image
    BY <1>1, Names DEF Inv, SessionInv, PageInv, Serving
  <1> HIDE DEF b
  <1> DEFINE Heard ==
        /\ wire' \in WireType
        /\ \/ Working /\ wire'.at = "page" /\ wire'.command = wire.command
           \/ ~Working /\ wire' = NoTransfer
  <1>3. ASSUME \E good \in BOOLEAN : Answered(good) PROVE Heard
    BY <1>1, <1>3, AnsweredIs
  <1>4. CASE BadgeResetsConfig(b)
    <2> USE <1>4 DEF BadgeResetsConfig
    <2>1. Heard BY <1>3
    <2>2. /\ config' \in [Badge -> Config]
          /\ \A x \in Badge : config[x] = "accepted" => config'[x] = "accepted"
      BY <1>1 DEF Config
    <2> QED BY <1>1, <2>1, <2>2 DEF b, Steps
  <1>5. CASE BadgeReadsConfig(b)
    <2> USE <1>5 DEF BadgeReadsConfig
    <2> DEFINE good == config[b] = "accepted"
    <2>1. good \in BOOLEAN OBVIOUS
    <2>2. Answered(good) OBVIOUS
    <2> HIDE DEF good
    <2>3. /\ wire' \in WireType
          /\ \/ Working /\ wire'.at = "page" /\ wire'.command = wire.command
                        /\ wire'.good = good
             \/ ~Working /\ wire' = NoTransfer
      BY <1>1, <2>1, <2>2, AnsweredIs
    <2>4. Working /\ wire'.good = good /\ wire'.good => config[b] = "accepted"
      BY <2>1 DEF good
    <2> QED BY <1>1, <2>3, <2>4 DEF b, Steps
  <1>6. CASE BadgeErases(b)
    <2> USE <1>6 DEF BadgeErases
    <2>1. Heard BY <1>3
    <2>2. /\ flash' \in [Badge -> [Unit -> Image \cup {Other, Blank}]]
          /\ \A x \in Badge : flash'[x] # flash[x] => x = b
      <3>1. CASE UNCHANGED flash BY <1>1, <3>1
      <3>2. CASE flash' = [flash EXCEPT ![b] =
                      [u \in Unit |-> IF u \in Sector(EraseSectors(session.image))
                                      THEN Blank ELSE @[u]]]
        <4> DEFINE f == [u \in Unit |-> IF u \in Sector(EraseSectors(session.image))
                                        THEN Blank ELSE flash[b][u]]
        <4>1. f \in [Unit -> Image \cup {Other, Blank}] BY <1>1
        <4>2. flash' = [flash EXCEPT ![b] = f] BY <3>2
        <4> HIDE DEF f
        <4> QED BY <1>1, <4>1, <4>2
      <3> QED BY <3>1, <3>2
    <2> QED BY <1>1, <2>1, <2>2 DEF b, Steps
  <1>7. CASE BadgeTakesKey(b)
    <2> USE <1>7 DEF BadgeTakesKey
    <2>1. Heard BY <1>3
    <2> QED BY <1>1, <2>1 DEF b, Steps
  <1>8. CASE BadgeProgramsChunk(b)
    <2> USE <1>8 DEF BadgeProgramsChunk
    <2>1. Heard BY <1>3
    <2>2. PICK new \in {session.image, Other} :
            flash' = [flash EXCEPT ![b] =
                        [u \in Unit |-> IF u \in ChunkUnits(session.image, session.index)
                                        THEN Burnt(@[u], new) ELSE @[u]]]
      OBVIOUS
    <2> DEFINE f == [u \in Unit |-> IF u \in ChunkUnits(session.image, session.index)
                                    THEN Burnt(flash[b][u], new) ELSE flash[b][u]]
    <2>3. f \in [Unit -> Image \cup {Other, Blank}] BY <1>1, <1>2 DEF Burnt
    <2>4. flash' = [flash EXCEPT ![b] = f] BY <2>2
    <2> HIDE DEF f
    <2>5. /\ flash' \in [Badge -> [Unit -> Image \cup {Other, Blank}]]
          /\ \A x \in Badge : flash'[x] # flash[x] => x = b
      BY <1>1, <2>3, <2>4
    <2> QED BY <1>1, <2>1, <2>5 DEF b, Steps
  <1>9. CASE BadgeFinalizes(b)
    <2> USE <1>9 DEF BadgeFinalizes
    <2>1. Heard BY <1>3
    <2> QED BY <1>1, <2>1 DEF b, Steps
  <1>10. CASE BadgeComparesChunk(b)
    <2> USE <1>10 DEF BadgeComparesChunk
    <2> DEFINE good == \A u \in ChunkUnits(session.image, session.index) :
                          flash[b][u] = session.image
    <2>1. good \in BOOLEAN OBVIOUS
    <2>2. Answered(good) OBVIOUS
    <2> HIDE DEF good
    <2>3. /\ wire' \in WireType
          /\ \/ Working /\ wire'.at = "page" /\ wire'.command = wire.command
                        /\ wire'.good = good
             \/ ~Working /\ wire' = NoTransfer
      BY <1>1, <2>1, <2>2, AnsweredIs
    <2>4. good => \A u \in ChunkUnits(session.image, session.index) :
                     flash[b][u] = session.image
      BY DEF good
    <2> QED BY <1>1, <2>1, <2>3, <2>4 DEF b, Steps
  <1>11. CASE BadgeRestarts(b)
    <2> USE <1>11 DEF BadgeRestarts
    <2>1. Heard BY <1>3
    <2> QED BY <1>1, <2>1 DEF b, Steps
  <1> QED BY <1>4, <1>5, <1>6, <1>7, <1>8, <1>9, <1>10, <1>11 DEF b

LEMMA ExecuteInv ==
  ASSUME Inv, Execute, UNCHANGED sessions
  PROVE  Inv'
  <1> USE DEF Execute
  <1>1. /\ wire.at = "badge" /\ session.badge \in attached /\ session.badge \in Badge
        /\ UNCHANGED <<session, device>>
        /\ attached' \subseteq Badge
        /\ config' \in [Badge -> Config]
        /\ \A b \in Badge : config[b] = "accepted" => config'[b] = "accepted"
        /\ flash' \in [Badge -> [Unit -> Image \cup {Other, Blank}]]
        /\ \A b \in Badge : flash'[b] # flash[b] =>
             b = session.badge /\ wire.command \in {"erase", "program"}
        /\ wire.command \in Steps /\ wire' \in WireType
    BY ExecutesFields
  <1>2. \/ /\ Working /\ wire'.at = "page" /\ wire'.command = wire.command
           /\ wire.command = "config-read" /\ wire'.good =>
                config[session.badge] = "accepted"
           /\ wire.command = "verify" /\ wire'.good =>
                \A u \in ChunkUnits(session.image, session.index) :
                   flash[session.badge][u] = session.image
        \/ ~Working /\ wire' = NoTransfer
    BY ExecutesFields
  <1>3. PageTyped' /\ PageInv' BY <1>1, PageStays
  <1>4. SessionTyped' BY <1>1 DEF Inv, SessionTyped
  <1>5. choice' = choice /\ closing' = closing BY DEF pageVars
  <1>6. session.step # "none" BY <1>1, Names DEF Inv, SessionInv
  <1>7. Working => wire.command = session.step
    BY <1>1 DEF Inv, SessionInv
  <1>8. session.step \in {"verify", "reset"} => Working BY DEF Working, Steps
  <1>9. session.step \in {"verify", "reset", "done"} =>
          flash'[session.badge] = flash[session.badge]
    <2>1. session.step = "done" => wire.command = "reset"
      BY <1>1, Names DEF Inv, SessionInv
    <2> QED BY <1>1, <1>7, <1>8, <2>1
  <1>10. SessionInv'
    <2>1. CASE Working
      BY <1>1, <1>2, <1>5, <1>6, <1>7, <2>1, Names DEF Inv, SessionInv, Working
    <2>2. CASE ~Working
      BY <1>1, <1>2, <1>5, <1>6, <2>2, Names DEF Inv, SessionInv, Working
    <2> QED BY <2>1, <2>2
  <1>11. AcceptedInv'
    <2>1. session.step \in Later \/ wire.command \in Later =>
            config'[session.badge] = "accepted"
      BY <1>1 DEF Inv, AcceptedInv
    <2>2. wire'.command = wire.command \/ wire'.command = None
      BY <1>2, Names
    <2>3. wire'.command = "config-read" /\ wire'.at = "page" /\ wire'.good =>
            config'[session.badge] = "accepted"
      BY <1>1, <1>2, Names
    <2> QED BY <1>1, <2>1, <2>2, <2>3, Names DEF AcceptedInv
  <1>12. ComparedInv'
    <2>1. session.step = "verify" /\ wire'.good =>
            \A u \in ChunkUnits(session.image, session.index) :
              flash[session.badge][u] = session.image
      BY <1>2, <1>7, <1>8
    <2>2. ASSUME session.step = "verify", wire'.good
          PROVE  VerifiedUpTo(session.index + 1)
      <3>1. SUFFICES ASSUME NEW u \in 0 .. Units(session.image) - 1,
                            u < (session.index + 1) * CHUNK
                     PROVE  flash[session.badge][u] = session.image
        BY DEF VerifiedUpTo
      <3>2. session.index \in Nat BY SessionFields DEF Inv, SessionTyped
      <3>3. session.image \in Image
        BY <1>6 DEF Inv, SessionInv, PageInv, Serving
      <3>4. Units(session.image) \in Nat
        <4> DEFINE a == Length[session.image]
        <4>1. a \in Nat /\ SECTOR \in Nat BY <3>3, FlashSessionAssumption
        <4> HIDE DEF a
        <4>2. a * SECTOR \in Nat BY <4>1
        <4> QED BY <4>2 DEF a, Units
      <3>5. CASE u < session.index * CHUNK
        BY <2>2, <3>5 DEF Inv, ComparedInv, VerifiedUpTo
      <3>6. CASE ~(u < session.index * CHUNK)
        <4> DEFINE low == session.index * CHUNK
                   high == (session.index + 1) * CHUNK
        <4>1. low \in Nat /\ high \in Nat BY <3>2, FlashSessionAssumption
        <4> HIDE DEF low, high
        <4>2. u \in low .. high - 1 /\ u < Units(session.image)
          BY <3>1, <3>4, <3>6, <4>1 DEF low, high
        <4>3. u \in ChunkUnits(session.image, session.index)
          BY <4>2 DEF ChunkUnits, low, high
        <4> QED BY <2>1, <2>2, <4>3
      <3> QED BY <3>5, <3>6
    <2> QED BY <1>1, <1>9, <2>2 DEF Inv, ComparedInv, VerifiedUpTo
  <1> QED BY <1>3, <1>4, <1>10, <1>11, <1>12 DEF Inv

-----------------------------------------------------------------------------
(* Every step.                                                             *)

LEMMA StepInv ==
  ASSUME Inv, [Next]_vars
  PROVE  Inv'
  <1>1. CASE UNCHANGED vars
    <2>1. SessionTyped' /\ SessionInv' /\ AcceptedInv' /\ ComparedInv'
      BY <1>1, SessionStays DEF vars, pageVars
    <2>2. UNCHANGED pageVars /\ UNCHANGED <<device, sessions>>
      BY <1>1 DEF vars, sessionVars
    <2> QED BY <2>1, <2>2, PageStays DEF Inv
  <1>2. CASE FlashStep
    <2>1. CASE SessionStarts BY <2>1, StartsInv
    <2>2. CASE UNCHANGED sessions
               /\ (CaptureLost \/ SessionFailed \/ SessionDone)
      BY <2>2, StopsInv
    <2>3. CASE UNCHANGED sessions /\ (FlashFinished \/ FlashStopped)
      BY <2>3, EndsInv
    <2>4. CASE UNCHANGED sessions
               /\ (Transfer \/ (Answer /\ UNCHANGED pageVars) \/ GiveUp)
      BY <2>4, TransferInv DEF Receive
    <2> QED BY <1>2, <2>1, <2>2, <2>3, <2>4 DEF FlashStep
  <1>3. CASE PageStep /\ UNCHANGED sessions
    <2>1. CASE CatalogReady \/ CatalogFails BY <1>3, <2>1, CatalogInv
    <2>2. CASE DetectNone \/ (\E b \in Badge : DetectOne(b)) BY <1>3, <2>2, DetectInv
    <2>3. CASE DisconnectEvent BY <1>3, <2>3, DisconnectInv
    <2>4. CASE DisconnectClosed \/ ConnectClosed \/ UserDisconnected
      BY <1>3, <2>4, ClosedInv
    <2>5. CASE \E b \in Badge : PlugUnknown(b) \/ PlugAuthorized(b)
      BY <1>3, <2>5, PlugInv
    <2>6. CASE \E b \in Badge : Unplug(b) BY <1>3, <2>6, UnplugInv
    <2>7. CASE StartWatching \/ (\E b \in Badge : ChooserPicks(b))
      BY <1>3, <2>7, WatchInv
    <2>8. CASE ConnectFails BY <1>3, <2>8, ConnectFailsInv
    <2>9. CASE Opened BY <1>3, <2>9, OpenedInv
    <2>10. CASE Identified BY <1>3, <2>10, IdentifiedInv
    <2>11. CASE UserDisconnects BY <1>3, <2>11, UserDisconnectsInv
    <2>12. CASE \E i \in Image : Choose(i) BY <1>3, <2>12, ChooseInv
    <2>13. CASE ChoiceRefused BY <1>3, <2>13, RefusedInv
    <2>14. CASE LockGranted BY <1>3, <2>14, LockInv
    <2>15. CASE Receive BY <1>3, <2>15, TransferInv
    <2>16. CASE Execute BY <1>3, <2>16, ExecuteInv
    <2>17. CASE Reload BY <1>3, <2>17, ReloadInv
    <2> QED
      BY <1>3, <2>1, <2>2, <2>3, <2>4, <2>5, <2>6, <2>7, <2>8, <2>9, <2>10, <2>11,
         <2>12, <2>13, <2>14, <2>15, <2>16, <2>17
      DEF PageStep
  <1> QED BY <1>1, <1>2, <1>3 DEF Next

LEMMA Invariant == Spec => []Inv
  BY InitInv, StepInv, PTL DEF Spec

(* The invariant gives the types.  In particular a session runs only while *)
(* the page is marked as flashing.                                         *)
LEMMA InvTyped == Inv => TypeOK
  <1> SUFFICES ASSUME Inv PROVE TypeOK OBVIOUS
  <1>1. SessionTyped /\ PageTyped BY DEF Inv
  <1>2. Working => flashing BY DEF Inv, SessionInv, PageInv, Serving
  <1> QED
    BY <1>1, <1>2
    DEF TypeOK, SessionTyped, PageTyped, SessionType, WireType, RequestType, ChoiceType

(* The variables of the flashing page keep their types: an identification  *)
(* of a badge is remembered only together with the badge, and a session    *)
(* runs only while the page is marked as flashing (closeUsb and            *)
(* flashFirmware of app.js), for any badges, images and sizes.             *)
THEOREM PageTypeCorrect == Spec => []TypeOK
  BY Invariant, InvTyped, PTL

-----------------------------------------------------------------------------
(* What changes a badge.                                                   *)

LEMMA OnlyTheBadgeItself ==
  ASSUME [Next]_vars
  PROVE  Execute \/ UNCHANGED <<flash, config>>
  <1>1. CASE UNCHANGED vars BY <1>1 DEF vars, sessionVars
  <1>2. CASE FlashStep
    BY <1>2
    DEF FlashStep, SessionStarts, CaptureLost, SessionFailed, SessionDone, FlashStops,
        FlashFinished, FlashStopped, Closed, Transfer, Send, Answer, GiveUp, TimeOut,
        badgeVars
  <1>3. CASE PageStep
    <2>1. CASE CatalogReady \/ CatalogFails \/ DetectNone \/ (\E b \in Badge : DetectOne(b))
      BY <2>1 DEF CatalogReady, CatalogFails, DetectNone, DetectOne, sessionVars
    <2>2. CASE DisconnectEvent \/ DisconnectClosed \/ ConnectFails \/ ConnectClosed
                 \/ UserDisconnects \/ UserDisconnected
      BY <2>2
      DEF DisconnectEvent, DisconnectClosed, ConnectFails, ConnectClosed,
          UserDisconnects, UserDisconnected, Closed, badgeVars
    <2>3. CASE \E b \in Badge : PlugUnknown(b) \/ PlugAuthorized(b) \/ Unplug(b)
      BY <2>3 DEF PlugUnknown, PlugAuthorized, Unplug
    <2>4. CASE StartWatching \/ (\E b \in Badge : ChooserPicks(b)) \/ Opened \/ Identified
      BY <2>4 DEF StartWatching, ChooserPicks, Opened, Identified, sessionVars, badgeVars
    <2>5. CASE (\E i \in Image : Choose(i)) \/ ChoiceRefused \/ LockGranted
      BY <2>5 DEF Choose, ChoiceRefused, Refused, LockGranted, sessionVars
    <2>6. CASE Receive \/ Reload
      BY <2>6 DEF Receive, Answer, TransferError, Reload, badgeVars
    <2> QED BY <1>3, <2>1, <2>2, <2>3, <2>4, <2>5, <2>6 DEF PageStep
  <1> QED BY <1>1, <1>2, <1>3 DEF Next

(* No badge is erased or programmed before its own configuration was reset *)
(* and read back as accepted (the order in programAndVerifyFirmware),      *)
(* whatever was plugged in, given up or reloaded in between.               *)
THEOREM ErasedAfterReadback == Spec => EraseAfterReadback
  <1>1. Inv /\ [Next]_vars =>
          [\A b \in Badge : flash'[b] # flash[b] => config[b] = "accepted"]_vars
    <2> SUFFICES ASSUME Inv, [Next]_vars, NEW b \in Badge, flash'[b] # flash[b]
                 PROVE  config[b] = "accepted"
      OBVIOUS
    <2>1. Execute BY OnlyTheBadgeItself
    <2>2. b = session.badge /\ wire.command \in {"erase", "program"}
      BY <2>1, ExecutesFields DEF Execute
    <2>3. wire.command \in Later BY <2>2 DEF Later, Steps
    <2> QED BY <2>2, <2>3 DEF Inv, AcceptedInv
  <1> QED BY <1>1, Invariant, PTL DEF Spec, EraseAfterReadback

(* Once the page is idle again, after a failure or a timeout in particular, *)
(* nothing that it has sent still reaches a badge: flashFirmware closes the *)
(* device before it ends the operation.                                    *)
THEOREM IdlePageIsSilent == Spec => NothingLandsLater
  <1>1. Inv /\ [Next]_vars => [PageIdle => UNCHANGED <<flash, config>>]_vars
    <2> SUFFICES ASSUME Inv, [Next]_vars, PageIdle
                 PROVE  UNCHANGED <<flash, config>>
      OBVIOUS
    <2>1. ~flashing BY DEF PageIdle
    <2>2. session.step = "none" BY <2>1 DEF Inv, SessionInv, PageInv
    <2>3. wire.at # "badge" BY <2>2, Names DEF Inv, SessionInv
    <2>4. ~Execute BY <2>3 DEF Execute, BadgeExecutes
    <2> QED BY <2>4, OnlyTheBadgeItself
  <1> QED BY <1>1, Invariant, PTL DEF Spec, NothingLandsLater

-----------------------------------------------------------------------------
(* The page implements AbstractFlash: a session that starts accepts the    *)
(* order, what the badge executes changes it, a session that is done       *)
(* completes the order, one that stops and a reload abandon it.            *)

LEMMA HoldsTyped == \A b \in Badge : Holds(b) \in Image \cup {Other}
  BY DEF Holds

(* A badge whose units are those of an image holds this image and no other. *)
LEMMA HoldsIt ==
  ASSUME NEW b \in Badge, NEW i \in Image,
         \A u \in 0 .. Units(i) - 1 : flash[b][u] = i
  PROVE  Holds(b) = i
  <1>1. \A j \in Image : Units(j) \in Nat \ {0}
    <2> SUFFICES ASSUME NEW j \in Image PROVE Units(j) \in Nat \ {0} OBVIOUS
    <2> DEFINE a == Length[j]
    <2>1. a \in Nat \ {0} /\ SECTOR \in Nat \ {0} BY FlashSessionAssumption
    <2> HIDE DEF a
    <2>2. a * SECTOR \in Nat \ {0} BY <2>1
    <2> QED BY <2>2 DEF a, Units
  <1>2. ASSUME NEW j \in Image, \A u \in 0 .. Units(j) - 1 : flash[b][u] = j
        PROVE  j = i
    <2>1. 0 \in 0 .. Units(i) - 1 /\ 0 \in 0 .. Units(j) - 1 BY <1>1
    <2> QED BY <1>2, <2>1
  <1> QED BY <1>2 DEF Holds

Ordered == choice.at \in {"running", "stopping"} /\ session.badge = choice.badge

LEMMA OrderIs ==
  /\ Ordered => Order = [badge |-> choice.badge, image |-> choice.image]
  /\ ~Ordered => Order = Flash!NoOrder
  BY DEF Ordered, Order, Flash!NoOrder

LEMMA InitOrder == Init => Flash!Init
  <1> SUFFICES ASSUME Init PROVE Flash!Init OBVIOUS
  <1>1. ~Ordered BY Names DEF Init, Ordered
  <1>2. [b \in Badge |-> Holds(b)] \in [Badge -> Image \cup {Other}] BY HoldsTyped
  <1>3. (wizard = "success") = FALSE BY DEF Init
  <1> QED BY <1>1, <1>2, <1>3, OrderIs DEF Flash!Init

(* The owner of the badge sees no difference. *)
LEMMA OrderStays ==
  ASSUME UNCHANGED flash, wizard' = "success" <=> wizard = "success",
         \/ UNCHANGED <<choice, session>>
         \/ ~Ordered /\ ~Ordered'
  PROVE  UNCHANGED Flash!vars
  <1>1. [b \in Badge |-> Holds(b)]' = [b \in Badge |-> Holds(b)] BY DEF Holds
  <1>2. (wizard = "success")' = (wizard = "success") OBVIOUS
  <1>3. Order' = Order
    <2>1. CASE ~Ordered /\ ~Ordered' BY <2>1, OrderIs DEF Ordered, Order, Flash!NoOrder
    <2>2. CASE UNCHANGED <<choice, session>> BY <2>2 DEF Order
    <2> QED BY <2>1, <2>2
  <1> QED BY <1>1, <1>2, <1>3 DEF Flash!vars

LEMMA OrderKept ==
  ASSUME UNCHANGED <<flash, choice, wizard>>, session'.badge = session.badge
  PROVE  UNCHANGED Flash!vars
  <1>1. [b \in Badge |-> Holds(b)]' = [b \in Badge |-> Holds(b)] BY DEF Holds
  <1>2. (wizard = "success")' = (wizard = "success") OBVIOUS
  <1>3. Order' = Order BY DEF Order
  <1> QED BY <1>1, <1>2, <1>3 DEF Flash!vars

LEMMA SessionAccepts ==
  ASSUME Inv, SessionStarts
  PROVE  Flash!Next
  <1> USE DEF SessionStarts
  <1>1. /\ choice.badge \in Badge /\ choice.image \in Image
        /\ choice'.at = "running" /\ choice'.badge = choice.badge
        /\ choice'.image = choice.image
    BY DEF Inv, PageTyped, PageInv, ChoiceType
  <1>2. session'.badge = choice.badge OBVIOUS
  <1>3. Order = Flash!NoOrder BY OrderIs DEF Ordered
  <1>4. Order' = [badge |-> choice.badge, image |-> choice.image]
    BY <1>1, <1>2 DEF Order
  <1>5. [b \in Badge |-> Holds(b)]' = [b \in Badge |-> Holds(b)]
    BY DEF Holds, badgeVars
  <1>6. (wizard = "success")' = (wizard = "success") OBVIOUS
  <1>7. Flash!Accept(choice.badge, choice.image)
    BY <1>3, <1>4, <1>5, <1>6 DEF Flash!Accept
  <1> QED BY <1>1, <1>7 DEF Flash!Next

LEMMA ExecuteChanges ==
  ASSUME Inv, Execute
  PROVE  [Flash!Next]_(Flash!vars)
  <1> USE DEF Execute
  <1>1. /\ wire.at = "badge" /\ session.badge \in Badge /\ session' = session
        /\ \A b \in Badge : flash'[b] # flash[b] =>
             b = session.badge /\ wire.command \in {"erase", "program"}
    BY ExecutesFields
  <1>2. UNCHANGED <<choice, wizard>> BY DEF pageVars
  <1>3. CASE \A b \in Badge : flash'[b] = flash[b]
    <2>1. [b \in Badge |-> Holds(b)]' = [b \in Badge |-> Holds(b)] BY <1>3, ZenonT(60) DEF Holds
    <2>2. Order' = Order BY <1>1, <1>2 DEF Order
    <2>3. (wizard = "success")' = (wizard = "success") BY <1>2
    <2> QED BY <2>1, <2>2, <2>3 DEF Flash!vars
  <1>4. CASE \E b \in Badge : flash'[b] # flash[b]
    <2> DEFINE b == session.badge
    <2>1. wire.command \in {"erase", "program"} /\ flash'[b] # flash[b]
      BY <1>1, <1>4
    <2>2. session.step # "none" BY <1>1, Names DEF Inv, SessionInv
    <2>3. session.step # "done" BY <2>1, Names DEF Inv, SessionInv, Steps
    <2>4. /\ choice.at \in {"running", "stopping"} /\ session.badge = choice.badge
      BY <2>2, <2>3 DEF Inv, SessionInv, Serving
    <2>5. Order.badge = b /\ Order' = Order BY <1>1, <1>2, <2>4 DEF Order
    <2>6. Holds(b)' \in Image \cup {Other} BY <1>1 DEF Holds
    <2>7. \A x \in Badge : x # b => Holds(x)' = Holds(x) BY <1>1 DEF Holds
    <2>8. (wizard = "success")' = (wizard = "success") BY <1>2
    <2>9. [x \in Badge |-> Holds(x)]'
            = [[x \in Badge |-> Holds(x)] EXCEPT ![b] = Holds(b)']
      BY <1>1, <2>7
    <2>10. Flash!Change(session.badge, Holds(session.badge)')
      BY <2>5, <2>8, <2>9 DEF Flash!Change
    <2> QED BY <1>1, <2>6, <2>10 DEF Flash!Next
  <1> QED BY <1>3, <1>4

(* Success is shown only when the whole image was compared. *)
LEMMA DoneCompletes ==
  ASSUME Inv, SessionDone
  PROVE  Flash!Next
  <1> USE DEF SessionDone
  <1>1. /\ choice.badge \in Badge /\ choice.image \in Image
        /\ session.badge = choice.badge /\ session.image = choice.image
    BY DEF Inv, PageInv, SessionInv
  <1>2. Order = [badge |-> choice.badge, image |-> choice.image]
    BY <1>1, OrderIs DEF Ordered
  <1>3. Order # Flash!NoOrder BY <1>1, <1>2, Names DEF Flash!NoOrder
  <1>4. Holds(choice.badge) = choice.image
    BY <1>1, HoldsIt DEF Inv, ComparedInv
  <1>5. choice'.at = "finished" BY DEF Inv, PageTyped, ChoiceType
  <1>6. Order' = Flash!NoOrder BY <1>5 DEF Order, Flash!NoOrder
  <1>7. [b \in Badge |-> Holds(b)]' = [b \in Badge |-> Holds(b)]
    BY DEF Holds, badgeVars
  <1>8. (wizard = "success")' = TRUE OBVIOUS
  <1>9. [b \in Badge |-> Holds(b)][Order.badge] = Order.image BY <1>1, <1>2, <1>4
  <1>10. Flash!Complete BY <1>3, <1>6, <1>7, <1>8, <1>9 DEF Flash!Complete
  <1> QED BY <1>10 DEF Flash!Next

LEMMA StopAbandons ==
  ASSUME FlashStopped \/ Reload
  PROVE  Flash!Next
  <1>1. choice' = NoChoice /\ wizard' = "connect" /\ flash' = flash
    BY DEF FlashStopped, FlashEnded, Closed, Reload, badgeVars
  <1>2. Order' = Flash!NoOrder BY <1>1, Names DEF Order, Flash!NoOrder
  <1>3. [b \in Badge |-> Holds(b)]' = [b \in Badge |-> Holds(b)] BY <1>1 DEF Holds
  <1>4. (wizard = "success")' = FALSE BY <1>1
  <1>5. Flash!Abandon BY <1>2, <1>3, <1>4 DEF Flash!Abandon
  <1> QED BY <1>5 DEF Flash!Next

(* A transfer leaves the session with its badge. *)
LEMMA ReceiveKeeps ==
  ASSUME Inv, Transfer \/ Receive \/ GiveUp
  PROVE  session'.badge = session.badge
  <1>1. session \in SessionType BY DEF Inv, SessionTyped
  <1>2. Working BY DEF Transfer, Receive, GiveUp, Send, Answer, TransferError, TimeOut
  <1>3. Fail \/ session' = After(session) \/ session' = session
    BY DEF Transfer, Receive, GiveUp, Send, Answer, TransferError, TimeOut
  <1>4. session' = After(session) => session'.badge = session.badge
    BY <1>1, <1>2, AfterFields DEF Working
  <1> QED BY <1>3, <1>4, FailFields

(* The page between two sessions, and the transfers within one. *)
LEMMA PageStutters ==
  ASSUME Inv, PageStep, ~Execute, ~Reload
  PROVE  UNCHANGED Flash!vars
  <1> USE DEF Show
  <1>1. CASE CatalogReady \/ CatalogFails \/ DetectNone \/ (\E b \in Badge : DetectOne(b))
               \/ StartWatching \/ (\E b \in Badge : ChooserPicks(b)) \/ Identified
    <2>1. UNCHANGED <<flash, choice, session>>
          /\ (wizard' = "success" <=> wizard = "success")
      BY <1>1
      DEF CatalogReady, CatalogFails, DetectNone, DetectOne, StartWatching,
          ChooserPicks, Identified, sessionVars
    <2> QED BY <2>1, OrderStays
  <1>2. CASE DisconnectEvent \/ DisconnectClosed \/ ConnectFails \/ ConnectClosed
               \/ UserDisconnects \/ UserDisconnected \/ Opened
    <2>1. UNCHANGED <<flash, choice, session>>
          /\ (wizard' = "success" <=> wizard = "success")
      BY <1>2
      DEF DisconnectEvent, DisconnectClosed, ConnectFails, ConnectClosed,
          UserDisconnects, UserDisconnected, Opened, Closed, badgeVars
    <2> QED BY <2>1, OrderStays
  <1>3. CASE \E b \in Badge : PlugUnknown(b) \/ PlugAuthorized(b) \/ Unplug(b)
    <2>1. UNCHANGED <<flash, choice, session, wizard>>
      BY <1>3 DEF PlugUnknown, PlugAuthorized, Unplug, pageVars
    <2> QED BY <2>1, OrderStays
  <1>4. CASE (\E i \in Image : Choose(i)) \/ ChoiceRefused \/ LockGranted
    <2>1. UNCHANGED <<flash, session>> /\ (wizard' = "success" <=> wizard = "success")
      BY <1>4 DEF Choose, ChoiceRefused, Refused, LockGranted, sessionVars
    <2>2. ~Ordered BY <1>4, Names DEF Choose, ChoiceRefused, LockGranted, Ordered
    <2>3. choice'.at \in {"none", "loading", "wake"}
      BY <1>4, Names
      DEF Choose, ChoiceRefused, Refused, LockGranted, Inv, PageTyped, ChoiceType
    <2>4. ~Ordered' BY <2>3 DEF Ordered
    <2> QED BY <2>1, <2>2, <2>4, OrderStays
  <1>5. CASE Receive
    <2>1. session'.badge = session.badge BY <1>5, ReceiveKeeps
    <2>2. UNCHANGED <<flash, choice, wizard>>
      BY <1>5 DEF Receive, Answer, TransferError, pageVars
    <2> QED BY <2>1, <2>2, OrderKept
  <1> QED BY <1>1, <1>2, <1>3, <1>4, <1>5 DEF PageStep

LEMMA FlashStutters ==
  ASSUME Inv, CaptureLost \/ Transfer \/ (Answer /\ UNCHANGED pageVars) \/ GiveUp
                \/ SessionFailed \/ FlashFinished
  PROVE  UNCHANGED Flash!vars
  <1>1. CASE Transfer \/ (Answer /\ UNCHANGED pageVars) \/ GiveUp
    <2>1. session'.badge = session.badge BY <1>1, ReceiveKeeps DEF Receive
    <2>2. UNCHANGED <<flash, choice, wizard>>
      BY <1>1 DEF Transfer, Send, Answer, GiveUp, TimeOut, pageVars
    <2> QED BY <2>1, <2>2, OrderKept
  <1>2. CASE CaptureLost
    <2> USE <1>2 DEF CaptureLost, FlashStops
    <2>1. session.badge = None /\ choice.badge \in Badge
      BY Names DEF Inv, SessionInv, PageInv, Serving
    <2>2. UNCHANGED <<flash, session, wizard>> BY DEF badgeVars
    <2>3. choice'.badge = choice.badge BY DEF Inv, PageTyped, ChoiceType
    <2> QED BY <2>1, <2>2, <2>3, Names, OrderStays DEF Ordered
  <1>3. CASE SessionFailed
    <2> USE <1>3 DEF SessionFailed, FlashStops
    <2>1. /\ choice'.at = "stopping" /\ choice'.badge = choice.badge
          /\ choice'.image = choice.image
      BY DEF Inv, PageTyped, ChoiceType
    <2>2. UNCHANGED <<flash, session, wizard>> BY DEF badgeVars
    <2>3. Order' = Order BY <2>1, <2>2 DEF Order
    <2>4. [b \in Badge |-> Holds(b)]' = [b \in Badge |-> Holds(b)] BY <2>2 DEF Holds
    <2>5. (wizard = "success")' = (wizard = "success") BY <2>2
    <2> QED BY <2>3, <2>4, <2>5 DEF Flash!vars
  <1>4. CASE FlashFinished
    <2> USE <1>4 DEF FlashFinished, FlashEnded
    <2>1. choice'.at = "none" BY Names
    <2>2. UNCHANGED <<flash, wizard>> BY DEF Closed
    <2> QED BY <2>1, <2>2, OrderStays DEF Ordered
  <1> QED BY <1>1, <1>2, <1>3, <1>4

(* The badge named by the click is the only one that changes, only while   *)
(* its order stands, and success is shown only when it holds the whole     *)
(* image of the button that was chosen: every step of the page is a step   *)
(* of AbstractFlash or none.                                               *)
THEOREM ImplementsAbstractFlash == Spec => FlashesAsOrdered
  <1>1. ASSUME Inv, [Next]_vars PROVE [Flash!Next]_(Flash!vars)
    <2>1. CASE UNCHANGED vars
      BY <2>1, OrderStays DEF vars, sessionVars, pageVars
    <2>2. CASE FlashStep
      BY <1>1, <2>2, SessionAccepts, DoneCompletes, StopAbandons, FlashStutters
      DEF FlashStep
    <2>3. CASE PageStep
      BY <1>1, <2>3, ExecuteChanges, StopAbandons, PageStutters
    <2> QED BY <1>1, <2>1, <2>2, <2>3 DEF Next
  <1> QED BY <1>1, InitOrder, Invariant, PTL DEF Spec, FlashesAsOrdered, Flash!Spec
=============================================================================
