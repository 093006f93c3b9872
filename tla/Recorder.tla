------------------------------ MODULE Recorder ------------------------------
(***************************************************************************)
(* The film recorder at the other end of the SCSI cable.  It is not part   *)
(* of the repository: this module is the least recorder that the commands, *)
(* the constants and the sense codes of the driver describe.  A recorder   *)
(* is a record; each command has an operator saying whether the recorder   *)
(* accepts it (Accepts...) and one giving the recorder after it.           *)
(***************************************************************************)
EXTENDS Integers, Sequences

CONSTANTS BufferKB,     \* HARDWARE_BUFFER_KB: size of the scanline buffer
          LineKB        \* what one scanline takes of it (4 at 4k, 8 at 8k)

ASSUME BufferAssumption == /\ BufferKB \in Nat
                           /\ LineKB \in Nat \ {0}
                           /\ LineKB =< BufferKB

RED   == 0
GREEN == 1
BLUE  == 2
Colors == {RED, GREEN, BLUE}

(* What a frame of film has been lit with: for each colour the scanline    *)
(* numbers that reached the CRT, in the order they were received.          *)
Blank == [c \in Colors |-> << >>]

(***************************************************************************)
(* phase       idle, exposing, or stopped: STOP PRINT without TERMINATE    *)
(* calibrated  the CRT calibration of this exposure is over                *)
(* attention   the next command is answered with Unit Attention            *)
(* mode, tabs  whose MODE SELECT is in force; the colour tables loaded     *)
(* free        free kilobytes of the buffer                                *)
(* got         the scanlines of the frame now in the gate                  *)
(* film        the frames finished and advanced so far                     *)
(***************************************************************************)
Phases == {"idle", "exposing", "stopped"}
Recorders(modes) ==
  [phase : Phases, calibrated : BOOLEAN, attention : BOOLEAN, mode : modes,
   tabs : SUBSET Colors, free : 0..BufferKB,
   got : [Colors -> Seq(Nat)], film : Seq([Colors -> Seq(Nat)])]

NoMode == "power-on defaults"

(* A recorder switched on and already identified by INQUIRY.               *)
Ready ==
  [phase |-> "idle", calibrated |-> FALSE, attention |-> FALSE,
   mode |-> NoMode, tabs |-> {}, free |-> BufferKB,
   got |-> Blank, film |-> << >>]

(* Switched off and on: only the film keeps what it had, and the first     *)
(* command afterwards is refused with Unit Attention.                      *)
PowerCycled(d) == [Ready EXCEPT !.attention = TRUE, !.film = d.film]

AfterModeSelect(d, mode) == [d EXCEPT !.mode = mode]

AfterSetColorTab(d, c) == [d EXCEPT !.tabs = @ \cup {c}]

(* ASC 0x256D: START EXPOSURE while an exposure is in process.             *)
AcceptsStart(d) == d.phase = "idle"
AfterStart(d, skipCalibration) ==
  [d EXCEPT !.phase = "exposing", !.calibrated = skipCalibration,
            !.free = BufferKB, !.got = Blank]

(* ASC 0x2507: PRINT without START EXPOSURE.  A line that finds no room in *)
(* the buffer is dropped and nobody is told.                               *)
AcceptsPrint(d) == d.phase = "exposing"
AfterPrint(d, c, line) ==
  IF d.free >= LineKB
  THEN [d EXCEPT !.free = @ - LineKB, !.got[c] = Append(@, line)]
  ELSE d

(* ASC 0x2509: TERMINATE EXPOSURE without START EXPOSURE.  What is left in *)
(* the buffer is written out, and the film moves on to the next frame.     *)
AcceptsTerminate(d) == d.phase # "idle"
AfterTerminate(d) ==
  [d EXCEPT !.phase = "idle", !.calibrated = FALSE, !.free = BufferKB,
            !.got = Blank, !.film = Append(@, d.got)]

AfterStop(d) ==
  [d EXCEPT !.phase = IF @ = "exposing" THEN "stopped" ELSE @]

(* What the recorder does by itself: finish the calibration, and write     *)
(* buffered lines to the CRT, a kilobyte at a time.                        *)
CanCalibrate(d) == d.phase = "exposing" /\ ~d.calibrated
Calibrated(d)   == [d EXCEPT !.calibrated = TRUE]
CanDrain(d)     == d.phase = "exposing" /\ d.calibrated /\ d.free < BufferKB
Drained(d)      == [d EXCEPT !.free = @ + 1]

(* exposure_state of CURRENT STATUS.  The flag may stay 0 after the        *)
(* calibration, as the driver's authors observed on firmware 568.          *)
ExposureStates(d) == {FALSE, d.phase = "exposing" /\ d.calibrated}
=============================================================================
