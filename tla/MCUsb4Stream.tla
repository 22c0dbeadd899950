--------------------------- MODULE MCUsb4Stream ---------------------------
(* One first-light run and one harness retry, at a ring of two frames.     *)
EXTENDS Usb4Stream, TLC

CONSTANTS d0, d1, wA, wB

MCRttFrames == <<1, 2>>
MCExchangeFrames == <<1, 2>>

\* The coordinator's numbering fixes the names; the worker's may agree, cross,
\* or hold the label on the other cable.
Numbering(label, first, second) ==
  [present |-> TRUE, attach |-> (d0 :> first @@ d1 :> second), label |-> label]

MCCabling ==
  { [s \in Side |-> IF s = "C" THEN Numbering(d0, wA, wB) ELSE h] :
      h \in { Numbering(d0, wA, wB), Numbering(d0, wB, wA),
              Numbering(d1, wA, wB), Numbering(d1, wB, wA) } }
=============================================================================
