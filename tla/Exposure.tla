------------------------------ MODULE Exposure ------------------------------
(***************************************************************************)
(* run_exposure (exposure.py): one blocking call that puts one frame on    *)
(* film.  An action is one SCSI command, or one look at the abort event,   *)
(* together with the code up to the next one; between two of them another  *)
(* thread may set the event and the recorder may calibrate, drain or lose  *)
(* power.                                                                  *)
(***************************************************************************)
EXTENDS Recorder, FiniteSets

CONSTANTS
  Height,          \* scanlines of a channel: len(red_lines)
  BURST_SIZE, MIN_FREE_KB,
  DrainMarginKB,   \* the 200 of `MIN_FREE_KB + 200`
  PassFreeKB,      \* the 1000 of the wait between two passes
  PassPolls,       \* the 30 polls of that wait
  CALIBRATION_WAIT_S, CALIBRATION_MIN_S,
  CommandFaults,   \* how a command may fail by itself
  CallbackFaults,  \* what on_progress may raise
  MaxPowerCycles   \* bound on the recorder's power cycles during the call

(* Exceptions by the handler that catches them: SCSIError, OSError, other, *)
(* and ExposureAbortedError ("aborted"), which is public, so that a        *)
(* callback may raise it too; no command does.  KeyboardInterrupt, which   *)
(* no handler catches, is Session's.                                       *)
Errors     == {"scsi", "os", "other"}
Exceptions == Errors \cup {"aborted"}

ASSUME ExposureAssumption ==
  /\ {Height, BURST_SIZE, PassPolls, CALIBRATION_WAIT_S} \subseteq Nat \ {0}
  /\ {MIN_FREE_KB, DrainMarginKB, PassFreeKB, MaxPowerCycles} \subseteq Nat
  /\ CALIBRATION_MIN_S \in 0..CALIBRATION_WAIT_S - 1
  /\ CommandFaults \subseteq Errors /\ CallbackFaults \subseteq Exceptions

(* A burst fits in the space the driver insists on (50 lines of at most    *)
(* 8 KB in 500 KB), and that space can become free.                        *)
ASSUME BurstAssumption == BURST_SIZE * LineKB =< MIN_FREE_KB
ASSUME DrainAssumption == MIN_FREE_KB + DrainMarginKB =< BufferKB

(* The arguments: the passes of a colour or a black-and-white frame,       *)
(* whether calibration_control is CAL_NO_CAL, whether mode_select accepts  *)
(* the tuning values, and whether there is an on_progress.                 *)
Channels == {<<RED, GREEN, BLUE>>} \cup {<<c>> : c \in Colors}
Jobs == [channels : Channels, noCal : BOOLEAN, valid : BOOLEAN,
         listens : BOOLEAN]
JobMode == "job"
Devices == Recorders({NoMode, JobMode})

(* Where the call can be: checks of the abort event, commands of the body, *)
(* the three handlers, and the two ways out.  abort_emit and quit_emit are *)
(* one handler: after _check_abort's clean-up, and from on_progress.       *)
AfterCheck ==
  [chk_tabs        |-> "tabs",       chk_start  |-> "start",
   chk_settled     |-> "chk_burst",  chk_cal    |-> "cal_status",
   chk_calibrated  |-> "chk_burst",  chk_burst  |-> "status",
   chk_drain       |-> "drain",      chk_wheel  |-> "wheel_status"]
CheckPoints == DOMAIN AfterCheck
Body     == CheckPoints \cup
            {"mode", "tabs", "start", "cal_status", "status", "drain",
             "print", "wheel", "wheel_status", "terminate", "complete"}
Handlers == {"abort_stop", "abort_term", "abort_emit", "quit_emit",
             "err_stop", "err_term", "err_emit", "exc_stop", "exc_emit"}
Ends     == {"returned", "raised"}

Verdicts == {"complete", "aborted", "error"}

VARIABLES
  pc,          \* the next command or check of the call
  job,         \* the arguments
  pass,        \* index of the channel being sent
  i,           \* counter of the for loop over tables, seconds or polls
  y, line_y,   \* first line of the burst, and the line to send next
  lines_sent,
  dev,         \* the recorder
  abort,       \* the threading.Event, or FALSE for ever if there is none
  verdicts,    \* complete/aborted/error events on_progress was given
  waited,      \* history: seconds waited for the calibration
  late,        \* history: lines sent since the event was set
  unclean,     \* history: a command of a handler failed by itself
  quit,        \* history: ExposureAbortedError came from on_progress
  cycles       \* power cycles so far

loop   == <<pass, i, y, line_y, lines_sent>>
hist   == <<waited, late, unclean, quit>>
vars   == <<pc, job, loop, dev, abort, verdicts, hist, cycles>>

TypeOK ==
  /\ pc \in Body \cup Handlers \cup Ends
  /\ job \in Jobs
  /\ pass \in 1..Len(job.channels)
  /\ i \in Nat
  /\ y \in 0..Height /\ line_y \in 0..Height
  /\ lines_sent \in Nat
  /\ dev \in Devices
  /\ abort \in BOOLEAN
  /\ verdicts \in Seq(Verdicts)
  /\ waited \in 0..CALIBRATION_WAIT_S
  /\ late \in Nat
  /\ unclean \in BOOLEAN /\ quit \in BOOLEAN
  /\ cycles \in 0..MaxPowerCycles

Init ==
  /\ pc = "mode"
  /\ job \in Jobs
  /\ pass = 1 /\ i = 0 /\ y = 0 /\ line_y = 0 /\ lines_sent = 0
  /\ dev = Ready
  /\ abort = FALSE
  /\ verdicts = << >>
  /\ waited = 0 /\ late = 0 /\ unclean = FALSE /\ quit = FALSE
  /\ cycles = 0

-----------------------------------------------------------------------------
(* What can come back from a command the recorder accepts or not, `done`   *)
(* being the recorder that carried it out: the recorder's own answer, or a *)
(* failure of the transport before or after the recorder acted.            *)
Outcomes(accepts, done) ==
  LET answer == IF dev.attention
                THEN [out |-> "scsi", dev |-> [dev EXCEPT !.attention = FALSE]]
                ELSE IF accepts THEN [out |-> "ok", dev |-> done]
                                ELSE [out |-> "scsi", dev |-> dev]
  IN  {answer} \cup
      [out : CommandFaults, dev : {dev, answer.dev}]

(* _emit of a phase that is not a verdict: the exceptions it lets out, or  *)
(* "ok".                                                                   *)
Emit == {"ok"} \cup IF job.listens THEN CallbackFaults ELSE {}

(* An exception in the body goes to the handler that catches it.  The one  *)
(* of ExposureAbortedError takes it for _check_abort's, which has cleaned  *)
(* up already.                                                             *)
Raise(k) == pc' = CASE k = "aborted" -> "quit_emit"
                    [] k = "other"   -> "exc_stop"
                    [] OTHER         -> "err_stop"

(* Mutants: the last line of the burst inclusive; the end not clipped.     *)
BurstOneMore == IF y + BURST_SIZE + 1 < Height THEN y + BURST_SIZE + 1 ELSE Height
BurstUnclipped == y + BURST_SIZE

Burst == IF y + BURST_SIZE < Height THEN y + BURST_SIZE ELSE Height
Color == job.channels[pass]
(* Mutant: the loop ends a colour early.                                   *)
MorePassesShort == Len(job.channels) > 1 /\ Color < GREEN

MorePasses == Len(job.channels) > 1 /\ Color < BLUE

-----------------------------------------------------------------------------
(* Steps 1 to 3 of run_exposure.  mode_select raises ValueError before it  *)
(* sends anything.                                                         *)
ModeSelect ==
  /\ pc = "mode"
  /\ \/ \E k \in Emit \ {"ok"} : Raise(k) /\ UNCHANGED dev
     \/ ~job.valid /\ Raise("other") /\ UNCHANGED dev
     \/ /\ job.valid
        /\ \E r \in Outcomes(TRUE, AfterModeSelect(dev, JobMode)) :
             /\ dev' = r.dev
             /\ IF r.out = "ok" THEN pc' = "chk_tabs" ELSE Raise(r.out)
  /\ UNCHANGED <<job, loop, abort, verdicts, hist, cycles>>

(* Mutant: a failed table is skipped.                                      *)
SetColorTabCarryingOn ==
  /\ pc = "tabs"
  /\ \E r \in Outcomes(TRUE, AfterSetColorTab(dev, i)) : dev' = r.dev
  /\ IF i < BLUE THEN pc' = "tabs" /\ i' = i + 1 ELSE pc' = "chk_start" /\ i' = 0
  /\ UNCHANGED <<job, pass, y, line_y, lines_sent, abort, verdicts, hist, cycles>>

SetColorTab ==
  /\ pc = "tabs"
  /\ \E r \in Outcomes(TRUE, AfterSetColorTab(dev, i)) :
       /\ dev' = r.dev
       /\ IF r.out # "ok" THEN Raise(r.out) /\ UNCHANGED i
          ELSE IF i < BLUE THEN pc' = "tabs" /\ i' = i + 1
          ELSE pc' = "chk_start" /\ i' = 0
  /\ UNCHANGED <<job, pass, y, line_y, lines_sent, abort, verdicts, hist,
                 cycles>>

StartExposure ==
  /\ pc = "start"
  /\ \/ \E k \in Emit \ {"ok"} : Raise(k) /\ UNCHANGED <<dev, waited>>
     \/ \E r \in Outcomes(AcceptsStart(dev), AfterStart(dev, job.noCal)) :
          /\ dev' = r.dev
          /\ IF r.out # "ok" THEN Raise(r.out) /\ UNCHANGED waited
             ELSE IF job.noCal THEN pc' = "chk_settled" /\ UNCHANGED waited
             ELSE pc' = "chk_cal" /\ waited' = 1
  /\ UNCHANGED <<job, loop, abort, verdicts, late, unclean, quit, cycles>>

(* Mutant: the wait for the buffer does not look at the event.             *)
CheckAbortButDraining ==
  /\ pc \in CheckPoints
  /\ pc' = IF abort /\ pc # "chk_drain" THEN "abort_stop" ELSE AfterCheck[pc]
  /\ UNCHANGED <<job, loop, dev, abort, verdicts, hist, cycles>>

(* _check_abort.                                                           *)
CheckAbort ==
  /\ pc \in CheckPoints
  /\ pc' = IF abort THEN "abort_stop" ELSE AfterCheck[pc]
  /\ UNCHANGED <<job, loop, dev, abort, verdicts, hist, cycles>>

-----------------------------------------------------------------------------
(* Step 4: a poll a second.  SCSIError is swallowed, from the command and  *)
(* from the callback alike, and after the last poll the call goes on       *)
(* whatever the recorder said.                                             *)
(* Mutants: giving up after the minimum; never giving up.                  *)
NextSecondImpatient ==
  IF i + 1 =< CALIBRATION_MIN_S
  THEN pc' = "chk_cal" /\ i' = i + 1 /\ waited' = waited + 1
  ELSE pc' = "chk_calibrated" /\ i' = 0 /\ UNCHANGED waited
NextSecondForEver == pc' = "chk_cal" /\ UNCHANGED <<i, waited>>

NextSecond ==
  IF i + 1 < CALIBRATION_WAIT_S
  THEN pc' = "chk_cal" /\ i' = i + 1 /\ waited' = waited + 1
  ELSE pc' = "chk_calibrated" /\ i' = 0 /\ UNCHANGED waited

CalibrationStatus ==
  /\ pc = "cal_status"
  /\ \E r \in Outcomes(TRUE, dev), e \in Emit, active \in ExposureStates(dev) :
       LET k == IF r.out = "ok" THEN e ELSE r.out
       IN  /\ dev' = r.dev
           /\ IF k \notin {"ok", "scsi"} THEN Raise(k) /\ UNCHANGED <<i, waited>>
              ELSE IF k = "ok" /\ i >= CALIBRATION_MIN_S /\ active
              THEN pc' = "chk_calibrated" /\ i' = 0 /\ UNCHANGED waited
              ELSE NextSecond
  /\ UNCHANGED <<job, pass, y, line_y, lines_sent, abort, verdicts, late,
                 unclean, quit, cycles>>

-----------------------------------------------------------------------------
(* Step 5: the head of the while loop, ...                                 *)
SendStatus ==
  /\ pc = "status"
  /\ \E r \in Outcomes(TRUE, dev), e \in Emit :
       /\ dev' = r.dev
       /\ IF r.out # "ok" THEN Raise(r.out)
          ELSE IF dev.free >= MIN_FREE_KB THEN pc' = "print"
          ELSE IF e # "ok" THEN Raise(e) ELSE pc' = "chk_drain"
  /\ UNCHANGED <<job, loop, abort, verdicts, hist, cycles>>

(* ... the wait for the buffer to drain, which only the recorder, an error *)
(* or an abort can end, ...                                                *)
DrainStatus ==
  /\ pc = "drain"
  /\ \E r \in Outcomes(TRUE, dev) :
       /\ dev' = r.dev
       /\ IF r.out # "ok" THEN Raise(r.out)
          ELSE pc' = IF dev.free < MIN_FREE_KB + DrainMarginKB
                     THEN "chk_drain" ELSE "chk_burst"
  /\ UNCHANGED <<job, loop, abort, verdicts, hist, cycles>>

(* ... and the burst.  The progress event after its last line comes with   *)
(* that line.                                                              *)
PrintLine ==
  /\ pc = "print"
  /\ late' = IF abort THEN late + 1 ELSE late
  /\ \E r \in Outcomes(AcceptsPrint(dev), AfterPrint(dev, Color, line_y)),
        e \in Emit :
       /\ dev' = r.dev
       /\ IF r.out # "ok" THEN Raise(r.out) /\ UNCHANGED <<y, line_y, lines_sent>>
          ELSE /\ line_y' = line_y + 1 /\ lines_sent' = lines_sent + 1
               /\ IF line_y + 1 < Burst THEN pc' = "print" /\ UNCHANGED y
                  ELSE /\ y' = Burst
                       /\ IF e # "ok" THEN Raise(e)
                          ELSE pc' = IF Burst < Height THEN "chk_burst"
                                     ELSE IF MorePasses THEN "wheel"
                                     ELSE "terminate"
  /\ UNCHANGED <<job, pass, i, abort, verdicts, waited, unclean, quit, cycles>>

-----------------------------------------------------------------------------
(* Between two colours the filter wheel turns: at most PassPolls polls,    *)
(* and then the next pass whatever the recorder said.                      *)
TurnWheel ==
  /\ pc = "wheel"
  /\ i' = 0
  /\ \E e \in Emit : IF e = "ok" THEN pc' = "chk_wheel" ELSE Raise(e)
  /\ UNCHANGED <<job, pass, y, line_y, lines_sent, dev, abort, verdicts, hist,
                 cycles>>

(* Mutant: the colour is not advanced.                                     *)
NextPassSameColor ==
  pc' = "chk_burst" /\ pass' = pass /\ i' = 0 /\ y' = 0 /\ line_y' = 0

NextPass ==
  pc' = "chk_burst" /\ pass' = pass + 1 /\ i' = 0 /\ y' = 0 /\ line_y' = 0

WheelStatus ==
  /\ pc = "wheel_status"
  /\ \E r \in Outcomes(TRUE, dev) :
       /\ dev' = r.dev
       /\ \/ r.out \in {"os", "other"} /\ Raise(r.out)
             /\ UNCHANGED <<pass, i, y, line_y>>
          \/ (r.out = "ok" /\ dev.free > PassFreeKB) /\ NextPass
          \/ /\ r.out = "scsi" \/ (r.out = "ok" /\ dev.free =< PassFreeKB)
             /\ IF i + 1 < PassPolls
                THEN pc' = "chk_wheel" /\ i' = i + 1 /\ UNCHANGED <<pass, y, line_y>>
                ELSE NextPass
  /\ UNCHANGED <<job, lines_sent, abort, verdicts, hist, cycles>>

-----------------------------------------------------------------------------
(* Step 6.                                                                 *)
(* Mutant: a refused TERMINATE is swallowed, as STOP PRINT's errors are.   *)
TerminateCarryingOn ==
  /\ pc = "terminate"
  /\ \E r \in Outcomes(AcceptsTerminate(dev), AfterTerminate(dev)) : dev' = r.dev
  /\ pc' = "complete"
  /\ UNCHANGED <<job, loop, abort, verdicts, hist, cycles>>

Terminate ==
  /\ pc = "terminate"
  /\ \/ \E k \in Emit \ {"ok"} : Raise(k) /\ UNCHANGED dev
     \/ \E r \in Outcomes(AcceptsTerminate(dev), AfterTerminate(dev)) :
          /\ dev' = r.dev
          /\ IF r.out = "ok" THEN pc' = "complete" ELSE Raise(r.out)
  /\ UNCHANGED <<job, loop, abort, verdicts, hist, cycles>>

Deliver(v) == verdicts' = IF job.listens THEN Append(verdicts, v) ELSE verdicts

(* Mutant: one more look at the event after TERMINATE.                     *)
CompleteUnlessAborted ==
  /\ pc = "complete"
  /\ IF abort THEN pc' = "abort_stop" /\ UNCHANGED verdicts
     ELSE pc' = "returned" /\ Deliver("complete")
  /\ UNCHANGED <<job, loop, dev, abort, hist, cycles>>

(* The last event of the body is still inside the try: a callback that     *)
(* raises here sends the call to a handler, which delivers a second one.   *)
Complete ==
  /\ pc = "complete"
  /\ Deliver("complete")
  /\ \E e \in Emit : IF e = "ok" THEN pc' = "returned" ELSE Raise(e)
  /\ UNCHANGED <<job, loop, dev, abort, hist, cycles>>

-----------------------------------------------------------------------------
(* The handlers: _check_abort's own clean-up, `except (SCSIError, OSError)` *)
(* and `except Exception`.  commands.stop_print swallows SCSIError; an     *)
(* exception outside the inner `except` leaves the first handler for the   *)
(* third and the other two for the caller.                                 *)
StopPrint ==
  /\ pc \in {"abort_stop", "err_stop", "exc_stop"}
  /\ \E r \in Outcomes(TRUE, AfterStop(dev)) :
       /\ dev' = r.dev
       /\ unclean' = (unclean \/ r.out \in {"os", "other"})
       /\ pc' = CASE r.out = "other" /\ pc = "abort_stop" -> "exc_stop"
                  [] r.out = "other" /\ pc # "abort_stop" -> "raised"
                  [] pc = "abort_stop" /\ r.out # "other" ->
                       IF r.out = "os" THEN "abort_emit" ELSE "abort_term"
                  [] pc = "err_stop" /\ r.out # "other" ->
                       IF r.out = "os" THEN "err_emit" ELSE "err_term"
                  [] pc = "exc_stop" /\ r.out # "other" -> "exc_emit"
  /\ UNCHANGED <<job, loop, abort, verdicts, waited, late, quit, cycles>>

(* Mutant: the clean-up ends with STOP PRINT.                              *)
TerminateSkipped ==
  /\ pc \in {"abort_term", "err_term"}
  /\ pc' = IF pc = "abort_term" THEN "abort_emit" ELSE "err_emit"
  /\ UNCHANGED <<job, loop, dev, abort, verdicts, hist, cycles>>

TerminateStopped ==
  /\ pc \in {"abort_term", "err_term"}
  /\ \E r \in Outcomes(AcceptsTerminate(dev), AfterTerminate(dev)) :
       /\ dev' = r.dev
       /\ unclean' = (unclean \/ (r.out # "ok" /\ AcceptsTerminate(dev)))
       /\ pc' = IF pc = "abort_term"
                THEN IF r.out = "other" THEN "exc_stop" ELSE "abort_emit"
                ELSE IF r.out = "other" THEN "raised" ELSE "err_emit"
  /\ UNCHANGED <<job, loop, abort, verdicts, waited, late, quit, cycles>>

Reports == {"abort_emit", "quit_emit", "err_emit", "exc_emit"}
Verdict == IF pc \in {"abort_emit", "quit_emit"} THEN "aborted" ELSE "error"

(* Mutant: a callback that raises on "aborted" is handled as an error.     *)
ReportGuarded ==
  /\ pc \in Reports
  /\ Deliver(Verdict)
  /\ quit' = (quit \/ pc = "quit_emit")
  /\ \E e \in Emit :
       pc' = IF e # "ok" /\ pc = "abort_emit" THEN "exc_stop"
             ELSE IF pc = "exc_emit" \/ e # "ok" THEN "raised" ELSE "returned"
  /\ UNCHANGED <<job, loop, dev, abort, waited, late, unclean, cycles>>

(* The first two handlers swallow the exception and return, the third      *)
(* raises it again; so does the callback's own exception in any of them.   *)
Report ==
  /\ pc \in Reports
  /\ Deliver(Verdict)
  /\ quit' = (quit \/ pc = "quit_emit")
  /\ \E e \in Emit :
       pc' = IF pc = "exc_emit" \/ e # "ok" THEN "raised" ELSE "returned"
  /\ UNCHANGED <<job, loop, dev, abort, waited, late, unclean, cycles>>

-----------------------------------------------------------------------------
(* Another thread, and the recorder.                                       *)
RequestAbort ==
  /\ ~abort /\ pc \notin Ends
  /\ abort' = TRUE
  /\ UNCHANGED <<pc, job, loop, dev, verdicts, hist, cycles>>

Environment(d) ==
  /\ dev' = d
  /\ UNCHANGED <<pc, job, loop, abort, verdicts, hist>>

Calibrate == CanCalibrate(dev) /\ Environment(Calibrated(dev)) /\ UNCHANGED cycles
Drain     == CanDrain(dev) /\ Environment(Drained(dev)) /\ UNCHANGED cycles
PowerCycle ==
  /\ cycles < MaxPowerCycles
  /\ cycles' = cycles + 1
  /\ Environment(PowerCycled(dev))

(* The call is over; TLC must not take that for a deadlock.                *)
Over == pc \in Ends /\ UNCHANGED vars

Driver ==
  \/ ModeSelect \/ SetColorTab \/ StartExposure \/ CheckAbort
  \/ CalibrationStatus \/ SendStatus \/ DrainStatus \/ PrintLine
  \/ TurnWheel \/ WheelStatus \/ Terminate \/ Complete
  \/ StopPrint \/ TerminateStopped \/ Report

Next == Driver \/ RequestAbort \/ Calibrate \/ Drain \/ PowerCycle \/ Over

Spec == Init /\ [][Next]_vars

(* The thread that runs the call is scheduled, and its transport has a     *)
(* time limit on every command.                                            *)
RunningSpec == Spec /\ WF_vars(Driver)
-----------------------------------------------------------------------------
Has(v) == \E n \in 1..Len(verdicts) : verdicts[n] = v
Rows(n) == [k \in 1..n |-> k - 1]
InOrder(frame) == \A c \in Colors : frame[c] = Rows(Len(frame[c]))
JobColors == {job.channels[p] : p \in 1..Len(job.channels)}
Whole == [c \in Colors |-> Rows(IF c \in JobColors THEN Height ELSE 0)]

(* Flow control: the free space read before a burst is enough for every    *)
(* line of it, so the recorder never drops one (exposure.py 245-262).      *)
RoomForLine == pc = "print" => dev.free >= LineKB

(* Whatever fails, the frame in the gate and those advanced have each      *)
(* channel's scanlines from the top, each once (the burst arithmetic, the  *)
(* re-check after a drain, and print_line's explicit line numbers).        *)
LinesInOrder ==
  /\ InOrder(dev.got)
  /\ \A n \in 1..Len(dev.film) : InOrder(dev.film[n])

(* "complete" is said only of one advanced frame with every line of every  *)
(* channel of the job and nothing else, power cycles swallowed by the      *)
(* polling loops included.                                                 *)
CompleteMeansWholeFrame == Has("complete") => dev.film = <<Whole>>

(* "aborted" is never said of a frame that was in fact finished, unless    *)
(* the listener heard "complete" before and raised ExposureAbortedError.   *)
AbortedMeansUnfinished ==
  Has("aborted") => \/ verdicts = <<"complete", "aborted">>
                    \/ \A n \in 1..Len(dev.film) : dev.film[n] # Whole

(* After the event is set, at most the burst in progress still goes out.   *)
AbortBound == late =< BURST_SIZE

(* A call that returns, rather than raises, leaves the recorder idle,      *)
(* unless a clean-up command was itself lost, or there was none because    *)
(* the listener, and not _check_abort, raised ExposureAbortedError.        *)
CleanReturn ==
  pc = "returned" /\ ~unclean /\ ~quit => dev.phase = "idle"

(* No frame is exposed with settings other than this call's: MODE SELECT   *)
(* and the three tables hold from START to TERMINATE, although a power     *)
(* cycle between them wipes them.                                          *)
OwnSettings ==
  dev.phase # "idle" => dev.mode = JobMode /\ dev.tabs = Colors

(* With calibration on, a line reaches a recorder that is still            *)
(* calibrating only after the whole CALIBRATION_WAIT_S, and none before    *)
(* CALIBRATION_MIN_S.                                                      *)
SettledOrTimedOut ==
  (\E c \in Colors : dev.got[c] # << >>) /\ ~job.noCal
    => /\ waited > CALIBRATION_MIN_S
       /\ dev.calibrated \/ waited = CALIBRATION_WAIT_S

(* A listener is told how a call that returns ended, and told twice only   *)
(* when it raised on being told "complete": then of its error, or, of an   *)
(* ExposureAbortedError, that the call is aborted.                         *)
VerdictTold ==
  /\ pc = "returned" /\ job.listens => verdicts # << >>
  /\ Len(verdicts) > 1 =>
       \/ verdicts = <<"complete", "error">> /\ CallbackFaults \cap Errors # {}
       \/ verdicts = <<"complete", "aborted">> /\ "aborted" \in CallbackFaults

(* Every call ends, if the recorder calibrates and drains its buffer.      *)
Termination == WF_vars(Calibrate) /\ WF_vars(Drain) => <>(pc \in Ends)

(* An abort ends the call even if the recorder stalls: every loop looks at *)
(* the event.                                                              *)
AbortEnds == abort ~> pc \in Ends

-----------------------------------------------------------------------------
(* What documents say and the code does not do.                            *)

(* Device.expose raises "ExposureAbortedError: If abort was requested" and *)
(* "DeviceError: On SCSI communication failure".                           *)
OutcomeReachesCaller == pc = "returned" => ~Has("aborted") /\ ~Has("error")
=============================================================================
