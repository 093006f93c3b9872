------------------------------- MODULE DryRun -------------------------------
(***************************************************************************)
(* Exposures on the mock (Device.expose of pp8k.mock()): an image becomes  *)
(* scanlines, and run_exposure sends them in time with a buffer that the   *)
(* mock only counts.  Beside it runs the buffer that it stands for, which  *)
(* drains all the time, whether or not somebody asks.                      *)
(***************************************************************************)
EXTENDS Imaging, MockDevice

CONSTANTS
  HresValues, Aspects, Images,   \* what there is to expose
  Height,                        \* bound: taller frames are not exposed
  BURST_SIZE, MIN_FREE_KB, DrainMarginKB, PassFreeKB, PassPolls,
  CalPolls,                      \* polls before the calibration may be over
  PrintTicks, SecondTicks,       \* sleeps of 0.5 ms and of 1 s
  Late,                          \* a sleep may last this much longer
  MaxAsked                       \* bound: asked is counted up to here

ASSUME DryRunAssumption ==
  /\ {Height, BURST_SIZE, PassPolls, CalPolls} \subseteq Nat \ {0}
  /\ {MIN_FREE_KB, DrainMarginKB, PassFreeKB, Late, MaxAsked} \subseteq Nat
  /\ {PrintTicks, SecondTicks} \subseteq Nat \ {0} /\ SecondTicks >= TicksPerKB
  /\ BURST_SIZE * LineKB + LineKB =< MIN_FREE_KB
  /\ MIN_FREE_KB + DrainMarginKB =< HARDWARE_BUFFER_KB

ASSUME SizesAssumption ==
  /\ HresValues \subseteq Nat \ {0}
  /\ \A image \in Images : image = [w |-> image.w, h |-> image.h]
  /\ \A image \in Images : {image.w, image.h} \subseteq Nat \ {0}

(* No print is later than the line before it takes to drain: 2 ms.         *)
ASSUME LateAssumption == PrintTicks + Late =< LineKB * TicksPerKB

SCRATCH_SLOT == 19

VARIABLES
  pc,        \* where the call is: the next command, or idle
  shot,      \* the conversion of this call, until the recorder is set up
  job,       \* height and number of passes, calibration, settings
  pass, y, line_y, polls,   \* counters of the loops
  dev,       \* the mock
  used,      \* what the buffer still has to drain, in ticks
  asked      \* history: polls since the mock has shown an empty buffer

counters == <<pass, y, line_y, polls>>
vars == <<pc, shot, job, counters, dev, used, asked>>

Jobs == [height : 1..Height, passes : {1, 3}, noCal : BOOLEAN, valid : BOOLEAN,
         film : Slots]

NoJob == [height |-> 1, passes |-> 1, noCal |-> FALSE, valid |-> TRUE,
          film |-> SCRATCH_SLOT]

Init ==
  /\ pc = "idle" /\ shot = {} /\ job = NoJob
  /\ pass = 1 /\ y = 0 /\ line_y = 0 /\ polls = 0
  /\ dev = NewMock /\ used = 0 /\ asked = 0

(* A film table, which is uploaded to the scratch slot, or a slot with its *)
(* aspect ratio.  A call with an empty slot or an image too thin does      *)
(* nothing.                                                                *)
Convert ==
  /\ pc = "idle"
  /\ \E hres \in HresValues, aspect \in Aspects, image \in Images,
        rotation \in Rotations, transform \in Transforms, j \in Jobs :
       LET frame == [w |-> hres, h |-> j.height]
           turned == Turned(image, rotation)
       IN  /\ \/ /\ j.film = SCRATCH_SLOT
                 /\ dev' = UploadFilmTable(dev, SCRATCH_SLOT)
              \/ dev.aspects[j.film] = aspect /\ dev' = dev
           /\ j.height = FrameHeight(hres, aspect[1], aspect[2])
           /\ \E p \in Placements(turned, frame, transform) :
                shot' = {[image |-> turned, frame |-> frame,
                          transform |-> transform, place |-> p]}
           /\ job' = j
  /\ pc' = "mode"
  /\ UNCHANGED <<counters, used, asked>>

(* install and reset, between two exposures.                               *)
Install ==
  /\ pc = "idle"
  /\ \E slot \in Slots : dev' = UploadFilmTable(dev, slot)
  /\ UNCHANGED <<pc, shot, job, counters, used, asked>>
ResetDevice ==
  /\ pc = "idle" /\ dev' = Reset(dev)
  /\ UNCHANGED <<pc, shot, job, counters, used, asked>>

-----------------------------------------------------------------------------
(* mode_select, whose ValueError the handler answers with stop_print.      *)
Mode ==
  /\ pc = "mode" /\ shot' = {}
  /\ IF job.valid
     THEN pc' = "start" /\ dev' = ModeSelect(dev, job.film, job.height)
     ELSE pc' = "idle" /\ dev' = Stop(dev)
  /\ job' = IF job.valid THEN job ELSE NoJob
  /\ UNCHANGED <<counters, used, asked>>

Start ==
  /\ pc = "start" /\ dev' = StartExposure(dev)
  /\ used' = 0 /\ asked' = 0
  /\ pass' = 1 /\ y' = 0 /\ line_y' = 0 /\ polls' = 0
  /\ pc' = IF job.noCal THEN "status" ELSE "calibrate"
  /\ UNCHANGED <<shot, job>>

(* What the buffer still holds some ticks later.                           *)
DrainedBy(ticks) == Max({0, used - ticks})

(* The call sleeps, or works, and asks for the status; then it sleeps for  *)
(* another while.                                                          *)
Polls(ticks, then) ==
  \E late \in 0..Late :
    LET d == CurrentStatus(Later(dev, ticks + late))
    IN  /\ dev' = Later(d, then)
        /\ used' = DrainedBy(ticks + late + then)
        /\ asked' = IF d.free = HARDWARE_BUFFER_KB THEN 0 ELSE Min({asked + 1, MaxAsked})

Calibrate ==
  /\ pc = "calibrate" /\ polls' = polls + 1
  /\ LET over == polls >= CalPolls /\ dev.state # 0
     IN  /\ Polls(SecondTicks, IF over THEN 3 * SecondTicks ELSE 0)
         /\ pc' = IF over THEN "status" ELSE pc
  /\ UNCHANGED <<shot, job, pass, y, line_y>>

(* Mutant: the lines are not sent in bursts.                               *)
BurstIsPass == job.height
Burst == Min({y + BURST_SIZE, job.height})

Status ==
  /\ pc = "status" /\ Polls(0, 0)
  /\ pc' = IF dev'.free < MIN_FREE_KB THEN "drain" ELSE "print"
  /\ line_y' = y
  /\ UNCHANGED <<shot, job, pass, y, polls>>

(* Mutant: the wait for the buffer does not sleep.                         *)
DrainBusily ==
  /\ pc = "drain" /\ Polls(0, 0)
  /\ pc' = IF dev'.free < MIN_FREE_KB + DrainMarginKB THEN pc ELSE "status"
  /\ UNCHANGED <<shot, job, pass, y, line_y, polls>>

Drain ==
  /\ pc = "drain" /\ Polls(SecondTicks, 0)
  /\ pc' = IF dev'.free < MIN_FREE_KB + DrainMarginKB THEN pc ELSE "status"
  /\ UNCHANGED <<shot, job, pass, y, line_y, polls>>

(* A line takes its time and then its room in the buffer.                  *)
SendLine ==
  /\ pc = "print"
  /\ \E late \in 0..Late :
       /\ dev' = PrintLine(Later(dev, PrintTicks + late), line_y)
       /\ used' = DrainedBy(PrintTicks + late) + LineKB * TicksPerKB
  /\ line_y' = line_y + 1
  /\ y' = IF line_y' = Burst THEN Burst ELSE y
  /\ pc' = CASE y' = y -> pc
             [] y' # y /\ y' < job.height -> "status"
             [] y' = job.height -> IF pass < job.passes THEN "wheel" ELSE "terminate"
  /\ UNCHANGED <<shot, job, pass, polls, asked>>

TurnWheel ==
  /\ pc = "wheel" /\ pc' = "wheel_status" /\ polls' = 0
  /\ dev' = Later(dev, 5 * SecondTicks) /\ used' = DrainedBy(5 * SecondTicks)
  /\ UNCHANGED <<shot, job, pass, y, line_y, asked>>

WheelStatus ==
  /\ pc = "wheel_status"
  /\ \/ Polls(0, 0) /\ dev'.free > PassFreeKB /\ polls' = PassPolls
     \/ /\ Polls(0, SecondTicks) /\ dev'.free =< PassFreeKB
        /\ polls' = polls + 1
  /\ IF polls' = PassPolls
     THEN pc' = "status" /\ pass' = pass + 1 /\ y' = 0
     ELSE UNCHANGED <<pc, pass, y>>
  /\ UNCHANGED <<shot, job, line_y>>

(* "complete"; START sets the buffer afresh for the next call.             *)
Terminate ==
  /\ pc = "terminate" /\ pc' = "idle" /\ job' = NoJob
  /\ dev' = [Stop(dev) EXCEPT !.since = 0] /\ used' = 0 /\ asked' = 0
  /\ pass' = 1 /\ y' = 0 /\ line_y' = 0 /\ polls' = 0
  /\ UNCHANGED shot

Run == \/ Mode \/ Start \/ Calibrate \/ Status \/ Drain \/ SendLine
       \/ TurnWheel \/ WheelStatus \/ Terminate
Next == Convert \/ Install \/ ResetDevice \/ Run

(* Nobody but its own thread stops a run.                                  *)
Spec == Init /\ [][Next]_vars /\ WF_vars(Run)
-----------------------------------------------------------------------------
(* Every way to scale an image puts it where the documentation says: "fit" *)
(* loses nothing of it, "fill" leaves nothing bare (imaging.py:74-80).     *)
ImagePlaced ==
  \A s \in shot : Placed(s.image, s.frame, s.transform, s.place)

(* A line is printed only when there is room for it, in the mock and in    *)
(* the buffer it stands for: what keeps pace on the mock keeps pace        *)
(* (mock.py:7-9).                                                          *)
NothingOverflows ==
  /\ used =< HARDWARE_BUFFER_KB * TicksPerKB
  /\ pc = "print" => dev.free >= LineKB

(* The mock counts kilobytes, and only when it is asked.  What it says of  *)
(* an exposure is never too much by more than the time of one print, and   *)
(* never too little by more than a fraction of a kilobyte for each poll.   *)
MockIsFaithful ==
  LET free == HARDWARE_BUFFER_KB * TicksPerKB - used
      told == CurrentStatus(dev).free * TicksPerKB
  IN  dev.state = 1 => /\ told - free =< PrintTicks + Late
                       /\ asked < MaxAsked =>
                            free - told =< (asked + 1) * (TicksPerKB - 1)

(* Every run on the mock ends: whatever is forgotten at a poll, a second   *)
(* drains at least a kilobyte.                                             *)
RunEnds == pc # "idle" ~> pc = "idle"
=============================================================================
