---------------------------- MODULE AbstractFlash ----------------------------
(***************************************************************************)
(* What the web flasher promises to the owner of a badge: a badge changes  *)
(* only under the order given for it, and the page reports a success only  *)
(* if the badge then holds the whole image that was ordered.               *)
(***************************************************************************)
CONSTANTS Badge, Image, Other, None

VARIABLES
    order,      \* the badge and the image being programmed, or NoOrder
    content,    \* [Badge -> Image \cup {Other}]: Other is anything else
    success     \* the page shows that it has programmed the badge

vars == <<order, content, success>>

NoOrder == [badge |-> None, image |-> None]

Init ==
    /\ order = NoOrder
    /\ content \in [Badge -> Image \cup {Other}]
    /\ success = FALSE

Accept(b, i) ==
    /\ order = NoOrder
    /\ order' = [badge |-> b, image |-> i]
    /\ UNCHANGED <<content, success>>

Change(b, c) ==
    /\ order.badge = b
    /\ content' = [content EXCEPT ![b] = c]
    /\ UNCHANGED <<order, success>>

Complete ==
    /\ order # NoOrder /\ content[order.badge] = order.image
    /\ success' = TRUE
    /\ order' = NoOrder
    /\ UNCHANGED content

Abandon ==
    /\ order' = NoOrder
    /\ success' \in {success, FALSE}
    /\ UNCHANGED content

Next ==
    \/ \E b \in Badge, i \in Image : Accept(b, i)
    \/ \E b \in Badge, c \in Image \cup {Other} : Change(b, c)
    \/ Complete
    \/ Abandon

Spec == Init /\ [][Next]_vars
=============================================================================
