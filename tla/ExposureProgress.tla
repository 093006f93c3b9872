-------------------------- MODULE ExposureProgress --------------------------
(* How far a call of Exposure is from its end: numbers that its steps      *)
(* lower.  What a count of steps cannot say, that the next step is taken,  *)
(* is the fairness of RunningSpec.                                         *)
EXTENDS ExposureInvariant

(* The steps a call may still take once the event is set.                  *)
StepsAfterAbort ==
  CASE pc \in Ends                                    -> 0
    [] pc \in Reports                                 -> 1
    [] pc \in {"err_term", "exc_stop"}                -> 2
    [] pc \in {"abort_term", "err_stop"}              -> 3
    [] pc \in {"abort_stop", "complete"}              -> 4
    [] pc \in CheckPoints \cup {"terminate"}          -> 5
    [] pc \in {"mode", "start", "cal_status", "drain",
               "wheel", "wheel_status"}               -> 6
    [] pc = "tabs"                                    -> 6 + (BLUE - i)
    [] pc = "print"                                   -> 6 + (Burst - line_y)
    [] pc = "status"                                  -> 7 + BURST_SIZE

(* Without one: the stage of the call, ...                                 *)
PassesLeft == Len(job.channels) - pass
Stage ==
  CASE pc \in Handlers \cup Ends          -> 0
    [] pc \in {"terminate", "complete"}   -> 1
    [] pc \in Turning                     -> 2 + 2 * PassesLeft
    [] pc \in Sending \cup {"print"}      -> 3 + 2 * PassesLeft
    [] pc \in Calibrating                 -> 4 + 2 * PassesLeft
    [] pc \in Setup                       -> 5 + 2 * PassesLeft

(* ... in it the commands, seconds, lines or polls that are left, ...      *)
Units ==
  CASE pc \in Handlers \cup Ends \cup {"complete"} -> StepsAfterAbort
    [] pc = "terminate"                            -> 5
    [] pc \in {"chk_wheel", "wheel_status"}        -> PassPolls - i
    [] pc = "wheel"                                -> PassPolls + 1
    [] pc \in Sending \cup {"print"}               -> Height - y
    [] pc \in {"chk_settled", "chk_calibrated"}    -> 0
    [] pc \in {"chk_cal", "cal_status"}            -> CALIBRATION_WAIT_S - i
    [] pc = "start"                                -> 1
    [] pc = "chk_start"                            -> 2
    [] pc = "tabs"                                 -> 3 + (BLUE - i)
    [] pc = "chk_tabs"                             -> 6
    [] pc = "mode"                                 -> 7

(* ... and in a unit the steps that are left: before a burst, with room    *)
(* for it or without.                                                      *)
Room == dev.free >= MIN_FREE_KB
Micro ==
  CASE pc = "print"                    -> Burst - line_y
    [] pc = "status" /\ Room           -> BURST_SIZE + 1
    [] pc = "chk_burst" /\ Room        -> BURST_SIZE + 2
    [] pc = "drain"                    -> BURST_SIZE + 3
    [] pc = "chk_drain"                -> BURST_SIZE + 4
    [] pc = "status" /\ ~Room          -> BURST_SIZE + 5
    [] pc = "chk_burst" /\ ~Room       -> BURST_SIZE + 6
    [] pc \in {"chk_cal", "chk_wheel"} -> 1
    [] OTHER                           -> 0

Fewer == \/ Stage' < Stage
         \/ Stage' = Stage /\ Units' < Units
         \/ Stage' = Stage /\ Units' = Units /\ Micro' < Micro

(* The only step back: a poll that finds too little room once more.        *)
Waiting == /\ pc = "drain" /\ pc' = "chk_drain"
           /\ dev.free < MIN_FREE_KB + DrainMarginKB

Counts == /\ StepsAfterAbort \in 0..BURST_SIZE + 7
          /\ Stage \in Nat /\ Units \in Nat /\ Micro \in Nat

(* No step of a call is ever taken in vain, whatever fails, whatever a     *)
(* callback raises and whatever the recorder does in between: each uses up *)
(* one of finitely many, except while the call waits for the buffer, and   *)
(* after the event is set without exception, so that BURST_SIZE + 7        *)
(* commands and checks later the call is over (the loops of exposure.py    *)
(* 218-281 and the handlers at 291-310).                                   *)
NoStepInVain ==
  [][/\ Driver => /\ Fewer \/ Waiting
                  /\ abort => StepsAfterAbort' < StepsAfterAbort
     /\ ~Driver => /\ Stage' = Stage /\ Units' = Units /\ Micro' =< Micro
                   /\ StepsAfterAbort' = StepsAfterAbort
     /\ Counts']_vars
=============================================================================
