--------------------------- MODULE AbstractReleases ---------------------------
(***************************************************************************)
(* What the release pipeline promises to whoever downloads a firmware: a   *)
(* release appears whole, with one build's image for every board, is never *)
(* changed afterwards, and the sites offer released images only.           *)
(***************************************************************************)
CONSTANTS Version, Profile, Build, Place, None

VARIABLES
    released,   \* [Version -> [Profile -> Build] or None]
    offered     \* [Place -> the <<version, profile, build>> it offers]

vars == <<released, offered>>

Whole(b) == [p \in Profile |-> b]

Genuine(offer) ==
    \A o \in offer : released[o[1]] # None /\ released[o[1]][o[2]] = o[3]

Init ==
    /\ released \in [Version -> {Whole(b) : b \in Build} \cup {None}]
    /\ offered = [s \in Place |-> {}]

Release(v, b) ==
    /\ released[v] = None
    /\ released' = [released EXCEPT ![v] = Whole(b)]
    /\ UNCHANGED offered

Offer(s) ==
    /\ offered'[s] \in SUBSET (Version \X Profile \X Build)
    /\ Genuine(offered'[s])
    /\ \A t \in Place \ {s} : offered'[t] = offered[t]
    /\ UNCHANGED released

Next ==
    \/ \E v \in Version, b \in Build : Release(v, b)
    \/ \E s \in Place : Offer(s)

Spec == Init /\ [][Next]_vars
=============================================================================
