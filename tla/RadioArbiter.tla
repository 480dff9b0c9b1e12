---------------------------- MODULE RadioArbiter ----------------------------
(***************************************************************************)
(* What the badge promises about its one radio, whatever the survey, the   *)
(* buttons and the BadgeMagic app do: a discovery runs alone, nothing but  *)
(* an advertising badge is connected to, and the badge powers off with an  *)
(* idle radio.  The only way out for a radio that never becomes idle is a  *)
(* reset.                                                                  *)
(***************************************************************************)
EXTENDS FiniteSets

User == {"advertising", "link", "discovery"}

VARIABLES users, power

vars == <<users, power>>

Init == users \in {{}, {"advertising"}} /\ power = "on"

Use(user) == power = "on" /\ users' = users \cup {user} /\ UNCHANGED power

Advertise == "discovery" \notin users /\ Use("advertising")

Connect == "advertising" \in users /\ "discovery" \notin users /\ Use("link")

Discover == users = {} /\ Use("discovery")

Release == \E user \in users : users' = users \ {user} /\ UNCHANGED power

PowerOff == users = {} /\ power = "on" /\ power' = "off" /\ UNCHANGED users

Reset == power = "on" /\ power' = "reset" /\ users' = {}

Boot == power # "on" /\ power' = "on" /\ users' \in {{}, {"advertising"}}

Next ==
    \/ Advertise \/ Connect \/ Discover \/ Release
    \/ PowerOff \/ Reset \/ Boot

Spec == Init /\ [][Next]_vars
=============================================================================
