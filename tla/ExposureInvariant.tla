------------------------- MODULE ExposureInvariant -------------------------
(* The inductive invariant of Exposure, in named parts: what is known at   *)
(* each place the call can be.  The properties of Exposure follow from it. *)
EXTENDS ExposureFrame

Setup       == {"mode", "chk_tabs", "tabs", "chk_start", "start"}
Calibrating == {"chk_settled", "chk_cal", "cal_status", "chk_calibrated"}
Sending     == {"chk_burst", "status", "chk_drain", "drain"}
Turning     == {"wheel", "chk_wheel", "wheel_status"}
Aborting    == {"abort_stop", "abort_term", "abort_emit"}
Failing     == {"err_stop", "err_term", "err_emit", "exc_stop", "exc_emit"}

(* Where the loop counters stand.                                          *)
LoopInv ==
  /\ pc \in Setup \cup Calibrating => pass = 1 /\ y = 0 /\ line_y = 0
  /\ pc \in Setup \ {"tabs"} => i = 0
  /\ pc = "tabs" => i \in Colors
  /\ pc \in {"chk_cal", "cal_status"} =>
       i \in 0..CALIBRATION_WAIT_S - 1 /\ waited = i + 1
  /\ pc \in Sending => y < Height /\ line_y = y
  /\ pc = "print" => y < Height /\ y =< line_y /\ line_y < Burst
  /\ pc \in Turning => line_y = Height /\ MorePasses
  /\ pc \in {"chk_wheel", "wheel_status"} => i \in 0..PassPolls - 1
  /\ pc = "terminate" => line_y = Height /\ ~MorePasses

(* The recorder is idle before START and after the film has advanced, and  *)
(* an idle recorder holds no lines.                                        *)
PhaseInv ==
  /\ pc \in Setup => dev.phase = "idle"
  /\ pc \in Body => dev.phase # "stopped"
  /\ pc \in Body \ {"complete"} => dev.film = << >>
  /\ dev.film # << >> => dev.phase = "idle"
  /\ dev.phase = "idle" => dev.got = Blank
  /\ dev.attention => dev.phase = "idle"

(* Unless the recorder is about to refuse a command, what was set so far   *)
(* is in force.                                                            *)
SettingsInv ==
  /\ OwnSettings
  /\ pc \in {"chk_tabs", "tabs", "chk_start", "start"} /\ ~dev.attention
       => dev.mode = JobMode
  /\ pc = "tabs" /\ ~dev.attention => 0..i - 1 \subseteq dev.tabs
  /\ pc \in {"chk_start", "start"} /\ ~dev.attention => dev.tabs = Colors

(* What an exposing recorder has received while the body runs: the colours *)
(* before the one being sent in full, of that one the lines up to line_y.  *)
Sent(c) == IF c = Color THEN line_y
           ELSE IF c < Color /\ c \in JobColors THEN Height ELSE 0
SentRows == [c \in Colors |-> Rows(Sent(c))]
LaidInv ==
  pc \in Body \ {"complete"} /\ dev.phase = "exposing" => dev.got = SentRows

(* The rest of the burst has room.                                         *)
RoomInv == pc = "print" => dev.free >= (Burst - line_y) * LineKB

(* The event is seen before every wait and every burst.                    *)
LateInv ==
  /\ ~abort => late = 0
  /\ pc \in {"tabs", "start", "cal_status", "status", "drain", "wheel_status"}
       => late = 0
  /\ pc = "print" => late =< line_y - y
  /\ AbortBound

WaitInv ==
  /\ SettledOrTimedOut
  /\ pc = "chk_settled" => job.noCal
  /\ pc \in {"chk_calibrated", "print", "terminate"} \cup Sending \cup Turning
       /\ ~job.noCal =>
         /\ waited > CALIBRATION_MIN_S
         /\ dev.phase = "exposing" => dev.calibrated \/ waited = CALIBRATION_WAIT_S

(* What has been told, and of which film.                                  *)
ToldInv ==
  /\ pc \in Body \cup Aborting => verdicts = << >>
  /\ pc \in Failing =>
       \/ verdicts = << >>
       \/ verdicts = <<"complete">> /\ CallbackFaults \cap Errors # {}
  /\ pc = "quit_emit" =>
       /\ verdicts \in {<< >>, <<"complete">>}
       /\ job.listens /\ "aborted" \in CallbackFaults
  /\ pc \in Ends =>
       \/ verdicts \in {<<v>> : v \in Verdicts}
       \/ verdicts = << >> /\ (job.listens => pc = "raised")
       \/ verdicts = <<"complete", "error">> /\ CallbackFaults \cap Errors # {}
       \/ verdicts = <<"complete", "aborted">> /\ "aborted" \in CallbackFaults

FilmInv ==
  /\ pc = "complete" => dev.film = <<Whole>>
  /\ CompleteMeansWholeFrame
  /\ AbortedMeansUnfinished
  /\ pc \in Aborting =>
       /\ \A n \in 1..Len(dev.film) : dev.film[n] # Whole
       /\ dev.phase # "idle" => dev.got # Whole
  /\ pc = "quit_emit" /\ verdicts = << >> => dev.film = << >>

CleanInv ==
  pc \in {"complete", "abort_emit", "err_emit", "returned"} /\ ~unclean /\ ~quit
    => dev.phase = "idle"

IInv ==
  /\ TypeOK /\ LoopInv /\ PhaseInv /\ SettingsInv /\ LaidInv /\ LinesInOrder
  /\ RoomInv /\ LateInv /\ WaitInv /\ ToldInv /\ FilmInv /\ CleanInv
=============================================================================
