----------------------------- MODULE WakeProofs -----------------------------
(***************************************************************************)
(* The wake qualifier, for every count of samples and every width of its   *)
(* counters.  The counters of power.rs say something about the buttons     *)
(* only through what the samples showed: the invariant ties each of them   *)
(* to the history variable that counts the samples themselves.             *)
(***************************************************************************)
EXTENDS Wake, TLAPS

SeenType ==
    [first2 : BOOLEAN, key2 : 0 .. RECOVERY, own : 0 .. QUALIFIED,
     held_long : BOOLEAN, let_go : 0 .. RELEASED]

(* What Wake::sample() has counted, told by the samples. *)
CountsSamples ==
    /\ wake.released < RELEASED
    /\ seen.first2 => wake.key = 2
    /\ wake.key = 2 => wake.held < RECOVERY /\ seen.key2 = wake.held
    /\ wake.key = Own =>
          /\ seen.own = Least(wake.held, QUALIFIED)
          /\ wake.qualified => seen.held_long
          /\ wake.released <= seen.let_go

Inv ==
    /\ TypeOK
    /\ seen \in SeenType
    /\ phase = "qualifying" => CountsSamples
    /\ RecoveryWins

-----------------------------------------------------------------------------
(* The counters of one sample.                                             *)

LEMMA CountsAreNat ==
  /\ QUALIFIED \in Nat \ {0} /\ RELEASED \in Nat \ {0} /\ RECOVERY \in Nat \ {0}
  /\ SETTLE \in Nat \ {0} /\ U8_MAX \in Nat \ {0}
  /\ QUALIFIED <= RECOVERY /\ RECOVERY <= U8_MAX
  BY WakeAssumption

(* A state in which all the counters are at rest. *)
LEMMA ReachInv ==
  ASSUME NEW p \in Phases \ {"qualifying"}, Reach(p),
         profile' \in 1 .. 2, keys' \in [1 .. 2 -> BOOLEAN],
         power_on' \in BOOLEAN, marker' \in BOOLEAN,
         p \in {"running", "bootloader"} => ~marker',
         p \in {"armed", "shutdown"} => marker'
  PROVE  Inv'
  <1>1. wake' \in [key : 0 .. 2, held : 0 .. U8_MAX, released : 0 .. RELEASED,
                   qualified : BOOLEAN]
    BY CountsAreNat DEF Reach, NoWake
  <1>2. settle' \in [tick : 0 .. SETTLE, released : 0 .. RELEASED]
    BY CountsAreNat DEF Reach, NoSettle
  <1>3. seen' \in SeenType
    BY CountsAreNat DEF Reach, NothingSeen, SeenType
  <1>4. phase' = p BY DEF Reach
  <1>5. RecoveryWins' BY DEF Reach, NothingSeen, RecoveryWins
  <1> QED BY <1>1, <1>2, <1>3, <1>4, <1>5 DEF Inv, TypeOK

LEMMA InitInv == Init => Inv
  <1> SUFFICES ASSUME Init PROVE Inv OBVIOUS
  <1>1. wake \in [key : 0 .. 2, held : 0 .. U8_MAX, released : 0 .. RELEASED,
                  qualified : BOOLEAN]
    BY CountsAreNat DEF Init, NoWake
  <1>2. settle \in [tick : 0 .. SETTLE, released : 0 .. RELEASED]
    BY CountsAreNat DEF Init, NoSettle
  <1>3. seen \in SeenType
    BY CountsAreNat DEF Init, NothingSeen, SeenType
  <1>4. keys \in [1 .. 2 -> BOOLEAN] BY DEF Init
  <1>5. RecoveryWins BY DEF Init, NothingSeen, RecoveryWins
  <1> QED BY <1>1, <1>2, <1>3, <1>4, <1>5 DEF Init, Inv, TypeOK, Phases

(* Boolean components of the state, one at a time. *)
LEMMA TypesOfState ==
  ASSUME Inv
  PROVE  /\ profile \in 1 .. 2 /\ Own \in 1 .. 2
         /\ keys[1] \in BOOLEAN /\ keys[2] \in BOOLEAN /\ keys[Own] \in BOOLEAN
         /\ wake.key \in 0 .. 2 /\ wake.held \in 0 .. U8_MAX
         /\ wake.released \in 0 .. RELEASED /\ wake.qualified \in BOOLEAN
         /\ seen.first2 \in BOOLEAN /\ seen.key2 \in 0 .. RECOVERY
         /\ seen.own \in 0 .. QUALIFIED /\ seen.held_long \in BOOLEAN
         /\ seen.let_go \in 0 .. RELEASED
  BY DEF Inv, TypeOK, SeenType, Own

-----------------------------------------------------------------------------
(* One sample: the qualifier and the history move together.                *)

(* The history after a sample, component by component. *)
LEMMA SeenNowIs ==
  ASSUME Inv
  PROVE  /\ SeenNow \in SeenType
         /\ SeenNow.first2 = seen.first2
         /\ SeenNow.key2 = IF keys[2] THEN Least(seen.key2 + 1, RECOVERY) ELSE 0
         /\ SeenNow.own = IF keys[Own] THEN Least(seen.own + 1, QUALIFIED) ELSE 0
         /\ SeenNow.held_long =
               (seen.held_long \/ (keys[Own] /\ seen.own + 1 >= QUALIFIED))
         /\ SeenNow.let_go = IF ~keys[Own] THEN Least(seen.let_go + 1, RELEASED) ELSE 0
  <1> USE CountsAreNat, TypesOfState
  <1> DEFINE long == seen.held_long \/ (keys[Own] /\ seen.own + 1 >= QUALIFIED)
             up == ~keys[Own]
  <1>0. long \in BOOLEAN OBVIOUS
  <1>u. SeenNow = [seen EXCEPT !.key2 = Run(seen.key2, RECOVERY, keys[2]),
                               !.own = Run(seen.own, QUALIFIED, keys[Own]),
                               !.held_long = long,
                               !.let_go = Run(seen.let_go, RELEASED, up)]
    BY Zenon DEF SeenNow
  <1> HIDE DEF long, up
  <1>1. /\ SeenNow.first2 = seen.first2
        /\ SeenNow.key2 = Run(seen.key2, RECOVERY, keys[2])
        /\ SeenNow.own = Run(seen.own, QUALIFIED, keys[Own])
        /\ SeenNow.held_long = long
        /\ SeenNow.let_go = Run(seen.let_go, RELEASED, up)
        /\ SeenNow = [first2 |-> SeenNow.first2, key2 |-> SeenNow.key2, own |-> SeenNow.own,
                      held_long |-> SeenNow.held_long, let_go |-> SeenNow.let_go]
    BY <1>u DEF Inv, SeenType
  <1> USE DEF up
  <1>2. /\ Run(seen.key2, RECOVERY, keys[2]) \in 0 .. RECOVERY
        /\ Run(seen.own, QUALIFIED, keys[Own]) \in 0 .. QUALIFIED
        /\ Run(seen.let_go, RELEASED, ~keys[Own]) \in 0 .. RELEASED
    BY DEF Run, Least
  <1>3. SeenNow.held_long \in BOOLEAN
    BY <1>0, <1>1
  <1>4. SeenNow \in SeenType
    BY <1>1, <1>2, <1>3 DEF SeenType
  <1> QED BY <1>1, <1>4 DEF Run, long

(* The qualifier after a sample of a button that is held, or let go. *)
LEMMA QualifierType ==
  ASSUME NEW K, NEW H, NEW R,
         NEW w \in [key : K, held : H, released : R, qualified : BOOLEAN],
         NEW h \in H, NEW r \in R, NEW q \in BOOLEAN
  PROVE  /\ [w EXCEPT !.released = r, !.held = h, !.qualified = q] \in
               [key : K, held : H, released : R, qualified : BOOLEAN]
         /\ [w EXCEPT !.held = h, !.released = r] \in
               [key : K, held : H, released : R, qualified : BOOLEAN]
  OBVIOUS

LEMMA HeldIs ==
  ASSUME Inv
  PROVE  LET w == Held(wake)
         IN  /\ w.key = wake.key /\ w.released = 0
             /\ w.held = Least(wake.held + 1, U8_MAX)
             /\ w.qualified = (wake.qualified \/ Least(wake.held + 1, U8_MAX) >= QUALIFIED)
             /\ w \in [key : 0 .. 2, held : 0 .. U8_MAX, released : 0 .. RELEASED,
                       qualified : BOOLEAN]
  <1> USE CountsAreNat, TypesOfState
  <1> DEFINE held == Least(wake.held + 1, U8_MAX)
             enough == wake.qualified \/ held >= QUALIFIED
  <1>1. held \in 0 .. U8_MAX BY DEF Least
  <1>2. enough \in BOOLEAN OBVIOUS
  <1>3. Held(wake) = [wake EXCEPT !.released = 0, !.held = held, !.qualified = enough]
    BY Zenon DEF Held
  <1> HIDE DEF held, enough
  <1>w. wake \in [key : 0 .. 2, held : 0 .. U8_MAX, released : 0 .. RELEASED,
                  qualified : BOOLEAN]
    BY DEF Inv, TypeOK
  <1>4. /\ Held(wake).key = wake.key /\ Held(wake).released = 0
        /\ Held(wake).held = held /\ Held(wake).qualified = enough
    BY ONLY <1>3, <1>w
  <1>5. Held(wake) \in [key : 0 .. 2, held : 0 .. U8_MAX, released : 0 .. RELEASED,
                        qualified : BOOLEAN]
    <2>1. 0 \in 0 .. RELEASED BY CountsAreNat
    <2>2. [wake EXCEPT !.released = 0, !.held = held, !.qualified = enough] \in
            [key : 0 .. 2, held : 0 .. U8_MAX, released : 0 .. RELEASED,
             qualified : BOOLEAN]
      BY ONLY <2>1, <1>1, <1>2, <1>w, QualifierType, Zenon
    <2> QED BY ONLY <2>2, <1>3, Zenon
  <1> QED BY <1>4, <1>5, Zenon DEF held, enough

LEMMA LetGoIs ==
  ASSUME Inv, wake.released < RELEASED
  PROVE  LET w == LetGo(wake)
         IN  /\ w.key = wake.key /\ w.held = 0 /\ w.qualified = wake.qualified
             /\ w.released = Least(wake.released + 1, U8_MAX)
             /\ w \in [key : 0 .. 2, held : 0 .. U8_MAX, released : 0 .. RELEASED,
                       qualified : BOOLEAN]
  <1> USE CountsAreNat, TypesOfState
  <1> DEFINE released == Least(wake.released + 1, U8_MAX)
  <1>1. released \in 0 .. RELEASED BY DEF Least
  <1>2. LetGo(wake) = [wake EXCEPT !.held = 0, !.released = released]
    BY DEF LetGo
  <1> HIDE DEF released
  <1>w. wake \in [key : 0 .. 2, held : 0 .. U8_MAX, released : 0 .. RELEASED,
                  qualified : BOOLEAN]
    BY DEF Inv, TypeOK
  <1>3. /\ LetGo(wake).key = wake.key /\ LetGo(wake).released = released
        /\ LetGo(wake).held = 0 /\ LetGo(wake).qualified = wake.qualified
    BY ONLY <1>2, <1>w
  <1>4. LetGo(wake) \in [key : 0 .. 2, held : 0 .. U8_MAX, released : 0 .. RELEASED,
                         qualified : BOOLEAN]
    <2>1. 0 \in 0 .. U8_MAX BY CountsAreNat
    <2>2. [wake EXCEPT !.held = 0, !.released = released] \in
            [key : 0 .. 2, held : 0 .. U8_MAX, released : 0 .. RELEASED,
             qualified : BOOLEAN]
      BY ONLY <2>1, <1>1, <1>w, QualifierType, Zenon
    <2> QED BY ONLY <2>2, <1>2, Zenon
  <1> QED BY <1>3, <1>4, Zenon DEF released

(* A sample keeps the types, keeps counting while it waits, and decides by *)
(* what the samples showed.                                                *)
LEMMA SampleCounts ==
  ASSUME Inv, phase = "qualifying"
  PROVE  LET action == Action(Sampled)
         IN  /\ Sampled \in [key : 0 .. 2, held : 0 .. U8_MAX, released : 0 .. RELEASED,
                             qualified : BOOLEAN]
             /\ action \in {"Wait", "Sleep", "Boot", "Isp"}
             /\ action = "Wait" =>
                   /\ Sampled.released < RELEASED
                   /\ SeenNow.first2 => Sampled.key = 2
                   /\ Sampled.key = 2 =>
                         Sampled.held < RECOVERY /\ SeenNow.key2 = Sampled.held
                   /\ Sampled.key = Own =>
                         /\ SeenNow.own = Least(Sampled.held, QUALIFIED)
                         /\ Sampled.qualified => SeenNow.held_long
                         /\ Sampled.released <= SeenNow.let_go
             /\ action = "Boot" => SeenNow.held_long /\ SeenNow.let_go = RELEASED
             /\ action = "Isp" => SeenNow.key2 = RECOVERY
             /\ SeenNow.first2 /\ SeenNow.key2 = RECOVERY => action = "Isp"
  <1> USE CountsAreNat, TypesOfState, SeenNowIs
  <1>c. /\ wake.released < RELEASED
        /\ seen.first2 => wake.key = 2
        /\ wake.key = 2 => wake.held < RECOVERY /\ seen.key2 = wake.held
        /\ wake.key = Own =>
              /\ seen.own = Least(wake.held, QUALIFIED)
              /\ wake.qualified => seen.held_long
              /\ wake.released <= seen.let_go
    BY DEF Inv, CountsSamples
  <1>t. wake \in [key : 0 .. 2, held : 0 .. U8_MAX, released : 0 .. RELEASED,
                  qualified : BOOLEAN]
    BY DEF Inv, TypeOK
  <1>1. CASE ~HasKey
    <2>1. Sampled = wake /\ Action(Sampled) = "Sleep"
      BY <1>1 DEF Sampled, Action
    <2>2. ~SeenNow.first2
      BY <1>1, <1>c DEF HasKey
    <2> QED BY <2>1, <2>2, <1>t
  <1>2. CASE HasKey /\ keys[wake.key]
    <2>1. Sampled = Held(wake) BY <1>2 DEF Sampled
    <2>2. /\ Sampled.key = wake.key /\ Sampled.released = 0
          /\ Sampled.held = Least(wake.held + 1, U8_MAX)
          /\ Sampled.qualified =
                (wake.qualified \/ Least(wake.held + 1, U8_MAX) >= QUALIFIED)
      BY <2>1, HeldIs
    <2>3. Action(Sampled) =
             IF Sampled.key = 2 /\ Sampled.held >= RECOVERY THEN "Isp" ELSE "Wait"
      BY <1>2, <2>2 DEF Action
    <2>4. Sampled.key = 2 => SeenNow.key2 = Least(seen.key2 + 1, RECOVERY)
      BY <1>2, <2>2
    <2>5. Sampled.key = Own =>
             /\ SeenNow.own = Least(seen.own + 1, QUALIFIED)
             /\ SeenNow.held_long = (seen.held_long \/ seen.own + 1 >= QUALIFIED)
      BY <1>2, <2>2
    <2>6. Action(Sampled) = "Wait" /\ Sampled.key = 2 =>
             Sampled.held < RECOVERY /\ SeenNow.key2 = Sampled.held
      BY <2>2, <2>3, <2>4, <1>c DEF Least
    <2>7. Sampled.key = Own =>
             /\ SeenNow.own = Least(Sampled.held, QUALIFIED)
             /\ Sampled.qualified => SeenNow.held_long
      BY <2>2, <2>5, <1>c DEF Least
    <2>8. Action(Sampled) = "Isp" => SeenNow.key2 = RECOVERY
      BY <2>2, <2>3, <2>4, <1>c DEF Least
    <2>9. Sampled \in [key : 0 .. 2, held : 0 .. U8_MAX, released : 0 .. RELEASED,
                       qualified : BOOLEAN]
      BY <2>1, HeldIs
    <2>10. /\ Action(Sampled) \in {"Wait", "Isp"}
           /\ Sampled.released < RELEASED /\ Sampled.released <= SeenNow.let_go
           /\ SeenNow.first2 => Sampled.key = 2
      BY <2>2, <2>3, <1>c DEF SeenType
    <2>11. SeenNow.first2 /\ SeenNow.key2 = RECOVERY => Action(Sampled) = "Isp"
      BY <2>6, <2>10
    <2> QED BY ONLY <2>6, <2>7, <2>8, <2>9, <2>10, <2>11
  <1>3. CASE HasKey /\ ~keys[wake.key]
    <2>1. Sampled = LetGo(wake) BY <1>3 DEF Sampled
    <2>2. /\ Sampled.key = wake.key /\ Sampled.held = 0
          /\ Sampled.qualified = wake.qualified
          /\ Sampled.released = Least(wake.released + 1, U8_MAX)
      BY <2>1, <1>c, LetGoIs
    <2>3. Action(Sampled) =
             IF Sampled.released < RELEASED THEN "Wait"
             ELSE IF Sampled.qualified /\ Sampled.key = Own THEN "Boot" ELSE "Sleep"
      BY <1>3, <2>2 DEF Action
    <2>4. Sampled.key = 2 => SeenNow.key2 = 0
      BY <1>3, <2>2
    <2>5. Sampled.key = Own =>
             /\ SeenNow.own = 0 /\ SeenNow.held_long = seen.held_long
             /\ SeenNow.let_go = Least(seen.let_go + 1, RELEASED)
             /\ Sampled.released <= SeenNow.let_go
      BY <1>3, <2>2, <1>c DEF Least
    <2>6. Action(Sampled) = "Boot" => SeenNow.held_long /\ SeenNow.let_go = RELEASED
      BY <2>2, <2>3, <2>5, <1>c DEF Least
    <2>7. Sampled \in [key : 0 .. 2, held : 0 .. U8_MAX, released : 0 .. RELEASED,
                       qualified : BOOLEAN]
      BY <2>1, <1>c, LetGoIs
    <2>8. ~(SeenNow.first2 /\ SeenNow.key2 = RECOVERY)
      BY <2>2, <2>4, <1>c
    <2> QED BY <2>2, <2>3, <2>4, <2>5, <2>6, <2>7, <2>8, <1>c DEF Least
  <1> QED BY <1>1, <1>2, <1>3

LEMMA SampleKeysInv ==
  ASSUME Inv, SampleKeys PROVE Inv'
  <1> DEFINE action == Action(Sampled)
  <1>1. /\ phase = "qualifying" /\ wake' = Sampled /\ seen' = SeenNow
        /\ settle' = NoSettle
        /\ phase' = CASE action = "Wait" -> phase [] action = "Sleep" -> "settling"
                      [] action = "Boot" -> "running" [] action = "Isp" -> "bootloader"
        /\ marker' = (marker /\ action \notin {"Boot", "Isp"})
        /\ profile' = profile /\ keys' = keys /\ power_on' = power_on
    BY DEF SampleKeys, Forget, hardware
  <1>2. action \in {"Wait", "Sleep", "Boot", "Isp"}
    BY <1>1, SampleCounts
  <1> HIDE DEF action
  <1>3. /\ action = "Wait" => phase' = "qualifying"
        /\ action = "Sleep" => phase' = "settling"
        /\ action = "Boot" => phase' = "running" /\ ~marker'
        /\ action = "Isp" => phase' = "bootloader" /\ ~marker'
    BY <1>1, <1>2
  <1>4. marker /\ marker' \in BOOLEAN /\ (action = "Wait" => marker')
    BY <1>1 DEF Inv, TypeOK
  <1>5. settle' \in [tick : 0 .. SETTLE, released : 0 .. RELEASED]
    BY <1>1, CountsAreNat DEF NoSettle
  <1>6. /\ wake' \in [key : 0 .. 2, held : 0 .. U8_MAX, released : 0 .. RELEASED,
                     qualified : BOOLEAN]
        /\ seen' \in SeenType
    BY <1>1, SampleCounts, SeenNowIs
  <1>7. action = "Wait" => CountsSamples'
    BY <1>1, SampleCounts DEF CountsSamples, action, Own
  <1>8. RecoveryWins'
    <2>1. SeenNow.first2 /\ SeenNow.key2 = RECOVERY => action = "Isp"
      BY <1>1, SampleCounts DEF action
    <2> QED BY <1>1, <1>3, <2>1 DEF RecoveryWins
  <1> QED BY <1>1, <1>2, <1>3, <1>4, <1>5, <1>6, <1>7, <1>8 DEF Inv, TypeOK, Phases

-----------------------------------------------------------------------------
(* The other steps.                                                        *)

LEMMA ClassifyInv ==
  ASSUME Inv, Classify PROVE Inv'
  <1>1. CASE marker /\ ~power_on
    <2>1. /\ phase' = "qualifying" /\ marker' = marker /\ wake' = New(keys)
          /\ seen' = [NothingSeen EXCEPT !.first2 = keys[2]]
          /\ settle' = settle /\ profile' = profile /\ keys' = keys /\ power_on' = power_on
      BY <1>1 DEF Classify, hardware
    <2> DEFINE key == IF keys[2] THEN 2 ELSE IF keys[1] THEN 1 ELSE 0
               first2 == keys[2]
    <2>a. key \in 0 .. 2 /\ (first2 => key = 2) /\ first2 \in BOOLEAN
      BY TypesOfState
    <2>b. /\ wake' = [NoWake EXCEPT !.key = key]
          /\ seen' = [NothingSeen EXCEPT !.first2 = first2]
      BY <2>1 DEF New
    <2> HIDE DEF key, first2
    <2>c. wake' = [key |-> key, held |-> 0, released |-> 0, qualified |-> FALSE]
      BY <2>b DEF NoWake
    <2>d. seen' = [first2 |-> first2, key2 |-> 0, own |-> 0, held_long |-> FALSE,
                   let_go |-> 0]
      BY <2>b DEF NothingSeen
    <2>2. /\ wake'.key = key
          /\ wake'.held = 0 /\ wake'.released = 0 /\ wake'.qualified = FALSE
          /\ wake' \in [key : 0 .. 2, held : 0 .. U8_MAX, released : 0 .. RELEASED,
                        qualified : BOOLEAN]
      BY <2>a, <2>c, CountsAreNat
    <2>3. /\ seen'.first2 = first2 /\ seen'.key2 = 0 /\ seen'.own = 0
          /\ seen'.let_go = 0 /\ seen' \in SeenType
      BY <2>a, <2>d, CountsAreNat DEF SeenType
    <2>4. CountsSamples'
      BY <2>1, <2>a, <2>2, <2>3, CountsAreNat, TypesOfState DEF CountsSamples, Own, Least
    <2>5. RecoveryWins'
      BY <2>3, CountsAreNat DEF RecoveryWins
    <2> QED BY <1>1, <2>1, <2>2, <2>3, <2>4, <2>5 DEF Inv, TypeOK, Phases
  <1>2. CASE ~(marker /\ ~power_on)
    <2>1. Reach("running") /\ marker' = FALSE /\ UNCHANGED hardware
      BY <1>2 DEF Classify
    <2> QED BY <2>1, ReachInv DEF Inv, TypeOK, Phases, hardware
  <1> QED BY <1>1, <1>2

LEMMA SettleTickInv ==
  ASSUME Inv, SettleTick PROVE Inv'
  <1>1. /\ phase = "settling" /\ settle.released # RELEASED /\ settle.tick < SETTLE
        /\ settle' = [tick |-> Least(settle.tick + 1, SETTLE),
                      released |-> IF \E k \in Armed : keys[k] THEN 0
                                   ELSE settle.released + 1]
        /\ UNCHANGED <<profile, keys, power_on, phase, marker, wake, seen>>
    BY DEF SettleTick, WaitsForRelease, Settled, hardware
  <1>2. settle.tick \in 0 .. SETTLE /\ settle.released \in 0 .. RELEASED
    BY DEF Inv, TypeOK
  <1>3. settle' \in [tick : 0 .. SETTLE, released : 0 .. RELEASED]
    BY <1>1, <1>2, CountsAreNat DEF Least
  <1> QED BY <1>1, <1>3 DEF Inv, TypeOK, RecoveryWins

LEMMA MoveKeyInv ==
  ASSUME Inv, MoveKey PROVE Inv'
  <1>1. PICK k \in 1 .. 2 :
           /\ keys' = [keys EXCEPT ![k] = ~@]
           /\ \/ Reach("starting") /\ power_on' = FALSE
              \/ UNCHANGED <<phase, power_on, wake, settle, seen>>
    BY DEF MoveKey
  <1>2. keys' \in [1 .. 2 -> BOOLEAN] /\ profile' = profile /\ marker' = marker
    BY <1>1 DEF Inv, TypeOK, MoveKey
  <1>3. CASE Reach("starting") /\ power_on' = FALSE
    BY <1>2, <1>3, ReachInv DEF Inv, TypeOK, Phases
  <1>4. CASE UNCHANGED <<phase, power_on, wake, settle, seen>>
    BY <1>2, <1>4 DEF Inv, TypeOK, CountsSamples, Own, RecoveryWins
  <1> QED BY <1>1, <1>3, <1>4

(* The steps that leave all the counters at rest. *)
LEMMA RestInv ==
  ASSUME Inv,
         SwitchOff \/ frogalert_reset_off \/ HoldForBootloader \/ Arm
           \/ LowPower_Shutdown \/ Reset \/ PowerCycle
  PROVE  Inv'
  <1> USE ReachInv DEF Inv, TypeOK, Phases, hardware
  <1>1. CASE SwitchOff BY <1>1 DEF SwitchOff
  <1>2. CASE frogalert_reset_off BY <1>2 DEF frogalert_reset_off
  <1>3. CASE HoldForBootloader BY <1>3 DEF HoldForBootloader
  <1>4. CASE Arm BY <1>4 DEF Arm
  <1>5. CASE LowPower_Shutdown BY <1>5 DEF LowPower_Shutdown
  <1>6. CASE Reset BY <1>6 DEF Reset
  <1>7. CASE PowerCycle BY <1>7 DEF PowerCycle
  <1> QED BY <1>1, <1>2, <1>3, <1>4, <1>5, <1>6, <1>7

LEMMA NextInv == Inv /\ [Next]_vars => Inv'
  <1> SUFFICES ASSUME Inv, [Next]_vars PROVE Inv' OBVIOUS
  <1>1. CASE UNCHANGED vars
    BY <1>1 DEF vars, Inv, TypeOK, CountsSamples, Own, RecoveryWins
  <1> QED BY <1>1, ClassifyInv, SampleKeysInv, SettleTickInv, MoveKeyInv, RestInv DEF Next

LEMMA SpecInv == Spec => []Inv
  BY InitInv, NextInv, PTL DEF Spec

-----------------------------------------------------------------------------
(* A badge that is off, or deciding, remembers that it was switched off,   *)
(* and one that runs has forgotten it; no counter of the qualifier leaves  *)
(* its range (power.rs, Wake; frogalert_consume_screen_off_wake).          *)
THEOREM WakeTypeCorrect == Spec => []TypeOK
  <1>1. Inv => TypeOK BY DEF Inv
  <1> QED BY <1>1, SpecInv, PTL

(* KEY2 pressed at a wake and held through the recovery time enters the    *)
(* bootloader, and nothing else, whatever KEY1 does (Wake::new, sample).   *)
THEOREM KEY2Recovers == Spec => []RecoveryWins
  <1>1. Inv => RecoveryWins BY DEF Inv
  <1> QED BY <1>1, SpecInv, PTL

(* With the marker set, the application starts only after a power-on or a  *)
(* held and released press of the board's own button, and the bootloader   *)
(* only after the recovery hold (Wake::sample, and the marker).            *)
THEOREM StaysOffUntilAsked == Spec => OffUntilAsked
  <1> DEFINE Asked ==
        marker =>
          /\ phase' = "running" =>
                power_on \/ (seen'.held_long /\ seen'.let_go = RELEASED)
          /\ phase' = "bootloader" => seen'.key2 = RECOVERY
  <1>1. ASSUME Inv, [Next]_vars, marker PROVE Asked
    <2>1. phase \notin {"running", "bootloader"}
      BY <1>1 DEF Inv, TypeOK
    <2>2. CASE SampleKeys
      <3> DEFINE action == Action(Sampled)
      <3>1. /\ action = "Boot" => SeenNow.held_long /\ SeenNow.let_go = RELEASED
            /\ action = "Isp" => SeenNow.key2 = RECOVERY
            /\ action \in {"Wait", "Sleep", "Boot", "Isp"}
        BY <1>1, <2>2, SampleCounts DEF SampleKeys
      <3> HIDE DEF action
      <3>2. /\ seen' = SeenNow /\ phase = "qualifying"
            /\ phase' = CASE action = "Wait" -> phase [] action = "Sleep" -> "settling"
                          [] action = "Boot" -> "running" [] action = "Isp" -> "bootloader"
        BY <2>2 DEF SampleKeys, action
      <3> QED BY <3>1, <3>2
    <2>3. CASE Classify BY <1>1, <2>1, <2>3 DEF Classify, Reach
    <2>4. CASE MoveKey BY <1>1, <2>1, <2>4 DEF MoveKey, Reach
    <2>5. CASE UNCHANGED vars BY <2>1, <2>5 DEF vars
    <2>6. CASE \/ SwitchOff \/ frogalert_reset_off \/ HoldForBootloader \/ Arm
               \/ LowPower_Shutdown \/ Reset \/ PowerCycle \/ SettleTick
      BY <2>1, <2>6 DEF SwitchOff, frogalert_reset_off, HoldForBootloader, Arm,
                        LowPower_Shutdown, Reset, PowerCycle, SettleTick, Reach
    <2> QED BY <1>1, <2>2, <2>3, <2>4, <2>5, <2>6 DEF Next
  <1>2. Inv /\ [Next]_vars => [Asked]_vars
    BY <1>1
  <1> QED BY <1>2, SpecInv, PTL DEF Spec, OffUntilAsked
=============================================================================
