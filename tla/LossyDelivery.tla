----------------------------- MODULE LossyDelivery -----------------------------
(***************************************************************************)
(* What the receive side still promises on a bus that loses frames and is  *)
(* shared with other nodes: images go on show in the order they were sent, *)
(* whole unless something touched them, and one is skipped only if         *)
(* something touched it or the one before it.                              *)
(***************************************************************************)
EXTENDS Naturals

CONSTANT Images

VARIABLES sent,     \* images the camera is done with
          shown,    \* the image on show, 0 before the first
          whole,    \* all of it is on show
          touched   \* images that met a fault or another node's frame

Init == sent = 0 /\ shown = 0 /\ whole = TRUE /\ touched = {}

\* Something happens to the image the camera is at.
Touch == touched' = touched \cup {sent + 1} /\ UNCHANGED <<sent, shown, whole>>

\* An image newer than the one on show replaces it.  Only one that was touched
\* may be shown in part, or once more.
Show ==
  /\ shown' \in shown .. Images /\ shown' <= sent + 1
  /\ whole' \in BOOLEAN
  /\ (shown' > shown /\ whole') \/ shown' \in touched
  /\ UNCHANGED <<sent, touched>>

\* The camera goes on to the next image: this one is on show, or excused.
Send ==
  /\ sent < Images
  /\ (shown = sent + 1 /\ whole) \/ {sent, sent + 1} \cap touched # {}
  /\ sent' = sent + 1 /\ UNCHANGED <<shown, whole, touched>>

Next == Touch \/ Show \/ Send

Spec == Init /\ [][Next]_<<sent, shown, whole, touched>>
===============================================================================
