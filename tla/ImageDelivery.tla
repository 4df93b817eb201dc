---------------------------- MODULE ImageDelivery -----------------------------
(***************************************************************************)
(* What the receive side promises to the classifier, without CAN frames,   *)
(* queues or tasks: the image on show is the newest one completely sent,   *)
(* an image may be skipped, and none is shown twice or after a newer one.  *)
(***************************************************************************)
EXTENDS Naturals

CONSTANT Images

VARIABLES sent,   \* images completely sent so far
          shown   \* the image on show, 0 before the first

Init == sent = 0 /\ shown = 0

\* The camera completes the next image.
Send == sent < Images /\ sent' = sent + 1 /\ UNCHANGED shown

\* The image just completed goes on show.
Show == shown < sent /\ shown' = sent /\ UNCHANGED sent

Next == Send \/ Show

Spec == Init /\ [][Next]_<<sent, shown>>
===============================================================================
