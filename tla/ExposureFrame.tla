--------------------------- MODULE ExposureFrame ---------------------------
(* Exposure implements Frame: the line numbers, the commands and the polls *)
(* are forgotten, and the last verdict told is the verdict.                *)
EXTENDS Exposure

Lengths(frame) == [c \in Colors |-> Len(frame[c])]
Films(frames) == [n \in 1..Len(frames) |-> Lengths(frames[n])]
Last(told) == IF told = << >> THEN "none" ELSE told[Len(told)]

Contract == INSTANCE Frame WITH
  Orders  <- Channels,
  order   <- job.channels,
  open    <- dev.phase # "idle",
  lit     <- Lengths(dev.got),
  film    <- Films(dev.film),
  verdict <- Last(verdicts)

(* Every behaviour of the call, with its faults, aborts and power cycles,  *)
(* is one the caller was promised (run_exposure as a whole).               *)
ContractSpec == Contract!Spec
=============================================================================
