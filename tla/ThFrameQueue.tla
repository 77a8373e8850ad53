----------------------------- MODULE ThFrameQueue -----------------------------
(***************************************************************************)
(* What the send buffer of a WebSocket promises to th_ws.c, with no bytes  *)
(* and no chunks: frames leave whole and in the order they were queued,    *)
(* some of the oldest with each send, and one send at a time.              *)
(***************************************************************************)
EXTENDS Integers, Sequences, SequencesExt

CONSTANT Frames

VARIABLES
  ring,     \* the frames that were queued and not sent
  inFlight  \* how many of them the send in flight covers, 0 if there is none

Init == ring = <<>> /\ inFlight = 0

Queue ==
  /\ ring' # <<>> /\ Front(ring') = ring /\ Last(ring') \in Frames
  /\ inFlight' \in IF inFlight = 0 THEN 1 .. Len(ring') ELSE {inFlight}

Sent ==
  /\ inFlight > 0
  /\ ring' = SubSeq(ring, inFlight + 1, Len(ring))
  /\ inFlight' \in IF ring' = <<>> THEN {0} ELSE 1 .. Len(ring')

Next == Queue \/ Sent

Spec == Init /\ [][Next]_<<ring, inFlight>>
=============================================================================
