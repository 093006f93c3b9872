--------------------------- MODULE ExposureProof ---------------------------
(* Theorems about Exposure, for every height, burst, buffer and fault set  *)
(* its assumptions allow.                                                  *)
EXTENDS ExposureProgress, TLAPS, SequenceTheorems

USE BufferAssumption

(* The first n line numbers, as a sequence.                                *)
LEMMA RowsFacts ==
  ASSUME NEW n \in Nat
  PROVE  /\ Rows(n) \in Seq(Nat)
         /\ Len(Rows(n)) = n
         /\ Append(Rows(n), n) = Rows(n + 1)
         /\ Rows(0) = << >>
<1>1. Rows(n) \in Seq(Nat) /\ Len(Rows(n)) = n
  <2>1. Rows(n) \in [1..n -> Nat]  BY DEF Rows
  <2> QED  BY <2>1
<1>2. Append(Rows(n), n) = Rows(n + 1)
  BY <1>1 DEF Rows
<1>3. Rows(0) = << >>
  BY DEF Rows
<1> QED  BY <1>1, <1>2, <1>3

(* Two verdicts in a row.                                                  *)
LEMMA AppendPair ==
  ASSUME NEW S, NEW a \in S, NEW b \in S
  PROVE  Append(<<a>>, b) = <<a, b>>
<1>1. /\ Append(<<a>>, b) \in Seq(S) /\ Len(Append(<<a>>, b)) = 2
      /\ Append(<<a>>, b)[1] = a /\ Append(<<a>>, b)[2] = b
  OBVIOUS
<1>2. /\ <<a, b>> \in Seq(S) /\ Len(<<a, b>>) = 2
      /\ <<a, b>>[1] = a /\ <<a, b>>[2] = b
  OBVIOUS
<1>3. \A k \in 1..Len(Append(<<a>>, b)) : Append(<<a>>, b)[k] = <<a, b>>[k]
  <2>1. TAKE k \in 1..Len(Append(<<a>>, b))
  <2>2. CASE k = 1  BY <2>2, <1>1, <1>2
  <2>3. CASE k = 2  BY <2>3, <1>1, <1>2
  <2> QED  BY <2>2, <2>3, <1>1
<1> QED  BY <1>1, <1>2, <1>3, SeqEqual

LEMMA AppendFacts ==
  ASSUME NEW T, NEW s \in Seq(T), NEW e \in T,
         NEW n \in 1..Len(Append(s, e))
  PROVE  Append(s, e)[n] = e \/ (n \in 1..Len(s) /\ Append(s, e)[n] = s[n])
  OBVIOUS

(* The channel sequences: colours in the order of the wheel.               *)
LEMMA ChannelFacts ==
  ASSUME job \in Jobs, pass \in 1..Len(job.channels)
  PROVE  /\ Color \in Colors /\ Color \in JobColors
         /\ MorePasses => /\ pass + 1 \in 1..Len(job.channels)
                          /\ job.channels[pass + 1] = Color + 1
                          /\ JobColors = Colors
         /\ ~MorePasses => \A c \in JobColors : c =< Color
         /\ pass = 1 => \A c \in JobColors : Color =< c
<1>1. CASE job.channels = <<RED, GREEN, BLUE>>
  <2>1. Len(job.channels) = 3  BY <1>1
  <2>2. pass \in {1, 2, 3}  BY <2>1
  <2>3. JobColors = Colors
    BY <1>1, <2>1 DEF JobColors, Colors, RED, GREEN, BLUE
  <2>4. Color = pass - 1
    BY <1>1, <2>2 DEF Color, RED, GREEN, BLUE
  <2> QED  BY <1>1, <2>1, <2>2, <2>3, <2>4 DEF MorePasses, Colors, RED, GREEN, BLUE
<1>2. CASE \E c \in Colors : job.channels = <<c>>
  BY <1>2 DEF JobColors, Color, MorePasses, Colors, RED, GREEN, BLUE
<1> QED  BY <1>1, <1>2 DEF Jobs, Channels

(* What a command can bring back.                                          *)
LEMMA OutcomeFacts ==
  ASSUME NEW accepts \in BOOLEAN, NEW done, NEW r \in Outcomes(accepts, done)
  PROVE  /\ r.out \in {"ok"} \cup Errors
         /\ r.out = "ok" => accepts /\ ~dev.attention /\ r.dev = done
         /\ \/ r.dev = dev
            \/ dev.attention /\ r.dev = [dev EXCEPT !.attention = FALSE]
            \/ accepts /\ ~dev.attention /\ r.dev = done
<1> DEFINE answer == IF dev.attention
                     THEN [out |-> "scsi", dev |-> [dev EXCEPT !.attention = FALSE]]
                     ELSE IF accepts THEN [out |-> "ok", dev |-> done]
                                     ELSE [out |-> "scsi", dev |-> dev]
<1>1. r = answer \/ r \in [out : CommandFaults, dev : {dev, answer.dev}]
  BY DEF Outcomes
<1>2. CASE r = answer
  BY <1>2 DEF Errors
<1>3. CASE r \in [out : CommandFaults, dev : {dev, answer.dev}]
  <2>1. r.out \in Errors /\ r.dev \in {dev, answer.dev}
    BY <1>3, ExposureAssumption
  <2>2. r.out # "ok"  BY <2>1 DEF Errors
  <2> QED  BY <2>1, <2>2
<1> QED  BY <1>1, <1>2, <1>3

(* Commands keep a recorder a recorder.                                    *)
LEMMA RecorderTyped ==
  ASSUME NEW M, NEW d \in Recorders(M), NoMode \in M
  PROVE  /\ [d EXCEPT !.attention = FALSE] \in Recorders(M)
         /\ Ready \in Recorders(M)
         /\ PowerCycled(d) \in Recorders(M)
         /\ \A m \in M : AfterModeSelect(d, m) \in Recorders(M)
         /\ \A c \in Colors : AfterSetColorTab(d, c) \in Recorders(M)
         /\ \A b \in BOOLEAN : AfterStart(d, b) \in Recorders(M)
         /\ \A c \in Colors, n \in Nat : AfterPrint(d, c, n) \in Recorders(M)
         /\ AfterTerminate(d) \in Recorders(M)
         /\ AfterStop(d) \in Recorders(M)
         /\ CanCalibrate(d) => Calibrated(d) \in Recorders(M)
         /\ CanDrain(d) => Drained(d) \in Recorders(M)
<1> USE DEF Recorders, Phases
<1>1. Blank \in [Colors -> Seq(Nat)]  BY DEF Blank
<1>2. Ready \in Recorders(M) /\ PowerCycled(d) \in Recorders(M)
  <2>1. Ready \in Recorders(M)
    <3>1. << >> \in Seq([Colors -> Seq(Nat)])  OBVIOUS
    <3>2. BufferKB \in 0..BufferKB  OBVIOUS
    <3> QED  BY <1>1, <3>1, <3>2 DEF Ready
  <2> QED  BY <2>1 DEF PowerCycled
<1>3. \A m \in M : AfterModeSelect(d, m) \in Recorders(M)  BY DEF AfterModeSelect
<1>4. \A c \in Colors : AfterSetColorTab(d, c) \in Recorders(M)
  BY DEF AfterSetColorTab
<1>5. \A b \in BOOLEAN : AfterStart(d, b) \in Recorders(M)  
  <2>1. BufferKB \in 0..BufferKB  OBVIOUS
  <2> QED  BY <1>1, <2>1 DEF AfterStart
<1>6. ASSUME NEW c \in Colors, NEW n \in Nat
      PROVE  AfterPrint(d, c, n) \in Recorders(M)
  <2>1. Append(d.got[c], n) \in Seq(Nat)  OBVIOUS
  <2>2. [d.got EXCEPT ![c] = Append(@, n)] \in [Colors -> Seq(Nat)]  BY <2>1
  <2>3. d.free >= LineKB => d.free - LineKB \in 0..BufferKB  OBVIOUS
  <2> QED  BY <2>2, <2>3 DEF AfterPrint
<1>7. AfterTerminate(d) \in Recorders(M)
  <2>1. Append(d.film, d.got) \in Seq([Colors -> Seq(Nat)])  OBVIOUS
  <2>2. BufferKB \in 0..BufferKB  OBVIOUS
  <2> QED  BY <2>1, <2>2, <1>1 DEF AfterTerminate
<1>8. AfterStop(d) \in Recorders(M)  BY DEF AfterStop
<1>9. CanCalibrate(d) => Calibrated(d) \in Recorders(M)  BY DEF Calibrated
<1>10. CanDrain(d) => Drained(d) \in Recorders(M)
  <2>1. CanDrain(d) => d.free + 1 \in 0..BufferKB  BY DEF CanDrain
  <2> QED  BY <2>1 DEF Drained
<1> QED  BY <1>2, <1>3, <1>4, <1>5, <1>6, <1>7, <1>8, <1>9, <1>10

(* The assumptions on numbers, one by one.                                 *)
LEMMA NumberFacts ==
  /\ Height \in Nat /\ Height > 0 /\ BURST_SIZE \in Nat /\ BURST_SIZE > 0
  /\ PassPolls \in Nat /\ PassPolls > 0
  /\ CALIBRATION_WAIT_S \in Nat /\ CALIBRATION_MIN_S \in Nat
  /\ CALIBRATION_MIN_S < CALIBRATION_WAIT_S
  /\ MIN_FREE_KB \in Nat /\ DrainMarginKB \in Nat /\ PassFreeKB \in Nat
  /\ MaxPowerCycles \in Nat
  BY ExposureAssumption

(* Products with the size of a line, which the provers need spelt out.     *)
LEMMA Monotone ==
  ASSUME NEW a \in Nat, NEW b \in Nat, NEW k \in Nat, a =< b
  PROVE  a * k =< b * k
<1>1. b * k = a * k + (b - a) * k  OBVIOUS
<1>2. (b - a) * k >= 0  OBVIOUS
<1> QED  BY <1>1, <1>2

LEMMA RoomFacts ==
  ASSUME NEW n \in 1..BURST_SIZE
  PROVE  /\ n * LineKB \in Nat /\ n * LineKB =< MIN_FREE_KB
         /\ (n - 1) * LineKB \in Nat /\ (n - 1) * LineKB = n * LineKB - LineKB
         /\ LineKB =< n * LineKB /\ MIN_FREE_KB =< BufferKB
<1>1. n * LineKB =< BURST_SIZE * LineKB  BY Monotone, NumberFacts
<1>2. LineKB =< n * LineKB  BY Monotone
<1> QED  BY <1>1, <1>2, BurstAssumption, DrainAssumption, NumberFacts

(* Places are told apart by their names.                                   *)
LEMMA CheckPlaces ==
  CheckPoints = {"chk_tabs", "chk_start", "chk_settled", "chk_cal",
                 "chk_calibrated", "chk_burst", "chk_drain", "chk_wheel"}
  BY DEF CheckPoints, AfterCheck

LEMMA CheckFacts ==
  ASSUME pc \in CheckPoints
  PROVE  /\ AfterCheck[pc] \in {"tabs", "start", "chk_burst", "cal_status",
                                "status", "drain", "wheel_status"}
         /\ pc = "chk_tabs" => AfterCheck[pc] = "tabs"
         /\ pc = "chk_start" => AfterCheck[pc] = "start"
         /\ pc = "chk_settled" => AfterCheck[pc] = "chk_burst"
         /\ pc = "chk_cal" => AfterCheck[pc] = "cal_status"
         /\ pc = "chk_calibrated" => AfterCheck[pc] = "chk_burst"
         /\ pc = "chk_burst" => AfterCheck[pc] = "status"
         /\ pc = "chk_drain" => AfterCheck[pc] = "drain"
         /\ pc = "chk_wheel" => AfterCheck[pc] = "wheel_status"
  BY CheckPlaces DEF AfterCheck

LEMMA DeviceTyped ==
  ASSUME dev \in Devices
  PROVE  /\ Ready \in Devices
         /\ PowerCycled(dev) \in Devices
         /\ AfterModeSelect(dev, JobMode) \in Devices
         /\ \A c \in Colors : AfterSetColorTab(dev, c) \in Devices
         /\ \A b \in BOOLEAN : AfterStart(dev, b) \in Devices
         /\ \A c \in Colors, n \in Nat : AfterPrint(dev, c, n) \in Devices
         /\ AfterTerminate(dev) \in Devices
         /\ AfterStop(dev) \in Devices
         /\ CanCalibrate(dev) => Calibrated(dev) \in Devices
         /\ CanDrain(dev) => Drained(dev) \in Devices
<1> DEFINE M == {NoMode, JobMode}
<1> HIDE DEF M
<1>1. NoMode \in M /\ JobMode \in M  BY DEF M
<1>2. Devices = Recorders(M)  BY DEF Devices, M
<1> QED  BY <1>1, <1>2, RecorderTyped

LEMMA CommandTyped ==
  ASSUME dev \in Devices, NEW accepts \in BOOLEAN, NEW done \in Devices,
         NEW r \in Outcomes(accepts, done)
  PROVE  r.dev \in Devices
<1>1. [dev EXCEPT !.attention = FALSE] \in Devices
  BY RecorderTyped DEF Devices
<1> QED  BY <1>1, OutcomeFacts

(* The body's commands keep the recorder a recorder.                       *)
LEMMA DeviceStep ==
  ASSUME TypeOK, LoopInv, [Next]_vars
  PROVE  dev' \in Devices
<1> USE CommandTyped, DeviceTyped DEF TypeOK
<1>1. CASE ModeSelect
  BY <1>1 DEF ModeSelect
<1>2. CASE SetColorTab
  <2>1. i \in Colors  BY <1>2 DEF SetColorTab, LoopInv
  <2> QED  BY <1>2, <2>1 DEF SetColorTab
<1>3. CASE StartExposure
  <2>1. job.noCal \in BOOLEAN /\ AcceptsStart(dev) \in BOOLEAN
    BY DEF Jobs, AcceptsStart
  <2> QED  BY <1>3, <2>1 DEF StartExposure
<1>4. CASE CheckAbort
  BY <1>4 DEF CheckAbort
<1>5. CASE CalibrationStatus \/ SendStatus \/ DrainStatus \/ WheelStatus
  BY <1>5 DEF CalibrationStatus, SendStatus, DrainStatus, WheelStatus
<1>6. CASE PrintLine
  <2>1. Color \in Colors  BY ChannelFacts
  <2>2. AcceptsPrint(dev) \in BOOLEAN  BY DEF AcceptsPrint
  <2> QED  BY <1>6, <2>1, <2>2 DEF PrintLine
<1>7. CASE Terminate \/ TerminateStopped
  <2>1. AcceptsTerminate(dev) \in BOOLEAN  BY DEF AcceptsTerminate
  <2> QED  BY <1>7, <2>1 DEF Terminate, TerminateStopped
<1>8. CASE StopPrint
  BY <1>8 DEF StopPrint
<1>9. CASE TurnWheel \/ Complete \/ Report \/ RequestAbort \/ Over
  BY <1>9 DEF TurnWheel, Complete, Report, RequestAbort, Over, vars
<1>10. CASE Calibrate \/ Drain \/ PowerCycle
  BY <1>10 DEF Calibrate, Drain, PowerCycle, Environment
<1>11. CASE UNCHANGED vars
  BY <1>11 DEF vars
<1> QED
  BY <1>1, <1>2, <1>3, <1>4, <1>5, <1>6, <1>7, <1>8, <1>9, <1>10, <1>11
     DEF Next, Driver

(* Wherever an exception leads, it is a handler.                           *)
LEMMA RaiseFacts ==
  ASSUME NEW k, Raise(k)
  PROVE  pc' \in {"err_stop", "exc_stop", "quit_emit"}
  BY DEF Raise

(* ... and its loop counters where its place in the call puts them.        *)
LEMMA LoopStep ==
  ASSUME TypeOK, LoopInv, [Next]_vars
  PROVE  TypeOK' /\ LoopInv'
<1> USE NumberFacts, CheckPlaces, RaiseFacts
        DEF Setup, Calibrating, Sending, Turning, Body, Handlers, Ends,
            loop, hist
<1>0. dev' \in Devices  BY DeviceStep
<1>1. CASE ModeSelect
  <2>1. TypeOK'  BY <1>0, <1>1 DEF ModeSelect, TypeOK, LoopInv
  <2>2. LoopInv'  BY <1>1 DEF ModeSelect, TypeOK, LoopInv, Burst, MorePasses, Color
  <2> QED  BY <2>1, <2>2
<1>2. CASE SetColorTab
  <2>1. TypeOK'  BY <1>0, <1>2 DEF SetColorTab, TypeOK, LoopInv
  <2>2. i \in 0..2 /\ (i < BLUE => i + 1 \in Colors)
    BY <1>2 DEF SetColorTab, LoopInv, Colors, RED, GREEN, BLUE
  <2>3. LoopInv'
    BY <1>2, <2>2 DEF SetColorTab, TypeOK, LoopInv
  <2> QED  BY <2>1, <2>3
<1>3. CASE StartExposure
  <2>1. TypeOK'  BY <1>0, <1>3 DEF StartExposure, TypeOK, LoopInv
  <2>2. LoopInv'  BY <1>3 DEF StartExposure, TypeOK, LoopInv, Burst, MorePasses, Color
  <2> QED  BY <2>1, <2>2
<1>4. CASE CheckAbort
  <2>1. TypeOK'
    BY <1>0, <1>4, CheckFacts DEF CheckAbort, TypeOK
  <2>2. pc' = IF abort THEN "abort_stop" ELSE AfterCheck[pc]
    BY <1>4 DEF CheckAbort
  <2>3. UNCHANGED <<job, pass, i, y, line_y, waited>>
    BY <1>4 DEF CheckAbort
  <2>4. LoopInv'
    BY <1>4, <2>2, <2>3, CheckFacts DEF CheckAbort, LoopInv, MorePasses, Color,
                                    Colors, RED, GREEN, BLUE
  <2> QED  BY <2>1, <2>4
<1>5. CASE CalibrationStatus
  <2>1. UNCHANGED <<job, pass, y, line_y, lines_sent, abort, verdicts, late,
                    unclean, quit, cycles>>
    BY <1>5 DEF CalibrationStatus
  <2>2. pc = "cal_status" /\ pass = 1 /\ y = 0 /\ line_y = 0
        /\ i \in 0..CALIBRATION_WAIT_S - 1 /\ waited = i + 1
    BY <1>5 DEF CalibrationStatus, LoopInv
  <2>3. \/ pc' \in {"err_stop", "exc_stop", "quit_emit"} /\ UNCHANGED <<i, waited>>
        \/ pc' = "chk_calibrated" /\ i' = 0 /\ UNCHANGED waited
        \/ i + 1 < CALIBRATION_WAIT_S /\ pc' = "chk_cal" /\ i' = i + 1
           /\ waited' = waited + 1
    BY <1>5 DEF CalibrationStatus, NextSecond
  <2>4. TypeOK'  BY <1>0, <2>1, <2>2, <2>3 DEF TypeOK
  <2>5. LoopInv'  BY <2>1, <2>2, <2>3 DEF LoopInv
  <2> QED  BY <2>4, <2>5
<1>6. CASE SendStatus
  <2>1. TypeOK'  BY <1>0, <1>6 DEF SendStatus, TypeOK, LoopInv
  <2>2. LoopInv'  BY <1>6 DEF SendStatus, TypeOK, LoopInv, Burst, MorePasses, Color
  <2> QED  BY <2>1, <2>2
<1>7. CASE DrainStatus
  <2>1. TypeOK'  BY <1>0, <1>7 DEF DrainStatus, TypeOK, LoopInv
  <2>2. LoopInv'  BY <1>7 DEF DrainStatus, TypeOK, LoopInv, Burst, MorePasses, Color
  <2> QED  BY <2>1, <2>2
<1>8. CASE PrintLine
  <2>1. UNCHANGED <<job, pass, i, abort, verdicts, waited, unclean, quit, cycles>>
    BY <1>8 DEF PrintLine
  <2>2. pc = "print" /\ y < Height /\ y =< line_y /\ line_y < Burst
    BY <1>8 DEF PrintLine, LoopInv
  <2>3. Burst \in y + 1..Height
    BY <2>2 DEF Burst, TypeOK
  <2>4. late' \in Nat
    BY <1>8 DEF PrintLine, TypeOK
  <2>5. \/ pc' \in {"err_stop", "exc_stop", "quit_emit"}
           /\ UNCHANGED <<y, line_y, lines_sent>>
        \/ /\ line_y' = line_y + 1 /\ lines_sent' = lines_sent + 1
           /\ \/ line_y + 1 < Burst /\ pc' = "print" /\ UNCHANGED y
              \/ /\ line_y + 1 >= Burst /\ y' = Burst
                 /\ \/ pc' \in {"err_stop", "exc_stop", "quit_emit"}
                    \/ Burst < Height /\ pc' = "chk_burst"
                    \/ Burst >= Height /\ MorePasses /\ pc' = "wheel"
                    \/ Burst >= Height /\ ~MorePasses /\ pc' = "terminate"
    BY <1>8, <2>2, <2>3 DEF PrintLine, TypeOK
  <2>6. TypeOK'  BY <1>0, <2>1, <2>2, <2>3, <2>4, <2>5 DEF TypeOK
  <2>7. MorePasses' = MorePasses  BY <2>1 DEF MorePasses, Color
  <2>8. LoopInv'
    BY <2>1, <2>2, <2>3, <2>5, <2>7 DEF LoopInv, TypeOK, Burst
  <2> QED  BY <2>6, <2>8
<1>9. CASE TurnWheel
  <2>1. TypeOK'  BY <1>0, <1>9 DEF TurnWheel, TypeOK, LoopInv
  <2>2. LoopInv'  BY <1>9 DEF TurnWheel, TypeOK, LoopInv, Burst, MorePasses, Color
  <2> QED  BY <2>1, <2>2
<1>10. CASE WheelStatus
  <2>1. UNCHANGED <<job, lines_sent, abort, verdicts, waited, late, unclean,
                    quit, cycles>>
    BY <1>10 DEF WheelStatus
  <2>2. pc = "wheel_status" /\ line_y = Height /\ MorePasses
    BY <1>10 DEF WheelStatus, LoopInv
  <2>3. pass + 1 \in 1..Len(job.channels)
    BY <2>2, ChannelFacts DEF TypeOK
  <2>4. \/ pc' \in {"err_stop", "exc_stop", "quit_emit"} /\ UNCHANGED <<pass, i, y, line_y>>
        \/ /\ pc' = "chk_wheel" /\ i' = i + 1 /\ i + 1 < PassPolls
           /\ UNCHANGED <<pass, y, line_y>>
        \/ NextPass
    BY <1>10 DEF WheelStatus
  <2>5. TypeOK'  BY <1>0, <2>1, <2>3, <2>4 DEF TypeOK, NextPass
  <2>6. LoopInv'
    BY <2>1, <2>2, <2>4, NumberFacts DEF LoopInv, TypeOK, NextPass, MorePasses, Color
  <2> QED  BY <2>5, <2>6
<1>11. CASE Terminate
  <2>1. TypeOK'  BY <1>0, <1>11 DEF Terminate, TypeOK, LoopInv
  <2>2. LoopInv'  BY <1>11 DEF Terminate, TypeOK, LoopInv, Burst, MorePasses, Color
  <2> QED  BY <2>1, <2>2
<1>12. CASE Complete
  <2>1. verdicts' \in Seq(Verdicts)
    BY <1>12 DEF Complete, Deliver, TypeOK, Verdicts
  <2>2. TypeOK'  BY <1>0, <1>12, <2>1 DEF Complete, TypeOK
  <2>3. LoopInv'  BY <1>12 DEF Complete, TypeOK, LoopInv, Burst, MorePasses, Color
  <2> QED  BY <2>2, <2>3
<1>13. CASE StopPrint
  <2>1. TypeOK'  BY <1>0, <1>13 DEF StopPrint, TypeOK, LoopInv
  <2>2. LoopInv'  BY <1>13 DEF StopPrint, TypeOK, LoopInv, Burst, MorePasses, Color
  <2> QED  BY <2>1, <2>2
<1>14. CASE TerminateStopped
  <2>1. TypeOK'  BY <1>0, <1>14 DEF TerminateStopped, TypeOK, LoopInv
  <2>2. LoopInv'  BY <1>14 DEF TerminateStopped, TypeOK, LoopInv, Burst, MorePasses, Color
  <2> QED  BY <2>1, <2>2
<1>15. CASE Report
  <2>1. verdicts' \in Seq(Verdicts)
    BY <1>15 DEF Report, Verdict, Deliver, TypeOK, Verdicts
  <2>2. TypeOK'  BY <1>0, <1>15, <2>1 DEF Report, TypeOK
  <2>3. LoopInv'  BY <1>15 DEF Report, TypeOK, LoopInv, Burst, MorePasses, Color
  <2> QED  BY <2>2, <2>3
<1>16. CASE RequestAbort \/ Over \/ UNCHANGED vars
  <2>1. TypeOK'  BY <1>0, <1>16 DEF RequestAbort, Over, vars, TypeOK
  <2>2. LoopInv'
    BY <1>16 DEF RequestAbort, Over, vars, LoopInv, Burst, MorePasses, Color
  <2> QED  BY <2>1, <2>2
<1>17. CASE Calibrate \/ Drain \/ PowerCycle
  <2>1. TypeOK'
    BY SMTT(20), <1>0, <1>17 DEF Calibrate, Drain, PowerCycle, Environment, TypeOK
  <2>2. LoopInv'
    BY <1>17 DEF Calibrate, Drain, PowerCycle, Environment, LoopInv, Burst,
                 MorePasses, Color
  <2> QED  BY <2>1, <2>2
<1> QED
  BY <1>1, <1>2, <1>3, <1>4, <1>5, <1>6, <1>7, <1>8, <1>9, <1>10, <1>11,
     <1>12, <1>13, <1>14, <1>15, <1>16, <1>17
     DEF Next, Driver

-----------------------------------------------------------------------------
(* What each action comes to, with the faults summed up: a command was     *)
(* carried out (Ran), or something went wrong before, during or after it   *)
(* (Tried), which the body answers by entering a handler.                  *)
Ran(accepts, done) == accepts /\ ~dev.attention /\ dev' = done
Refused == dev.attention /\ dev' = [dev EXCEPT !.attention = FALSE]
Tried(accepts, done) == dev' = dev \/ Refused \/ Ran(accepts, done)
Fails == pc' \in {"err_stop", "exc_stop", "quit_emit"}

LEMMA ModeSelectFacts ==
  ASSUME TypeOK, ModeSelect
  PROVE  /\ pc = "mode" /\ UNCHANGED <<job, loop, abort, verdicts, hist, cycles>>
         /\ \/ Fails /\ Tried(TRUE, AfterModeSelect(dev, JobMode))
            \/ pc' = "chk_tabs" /\ Ran(TRUE, AfterModeSelect(dev, JobMode))
  BY OutcomeFacts, RaiseFacts DEF ModeSelect, Fails, Tried, Refused, Ran

LEMMA SetColorTabFacts ==
  ASSUME TypeOK, SetColorTab
  PROVE  /\ pc = "tabs"
         /\ UNCHANGED <<job, pass, y, line_y, lines_sent, abort, verdicts,
                        hist, cycles>>
         /\ \/ Fails /\ Tried(TRUE, AfterSetColorTab(dev, i)) /\ UNCHANGED i
            \/ /\ Ran(TRUE, AfterSetColorTab(dev, i))
               /\ \/ i < BLUE /\ pc' = "tabs" /\ i' = i + 1
                  \/ ~(i < BLUE) /\ pc' = "chk_start" /\ i' = 0
  BY OutcomeFacts, RaiseFacts DEF SetColorTab, Fails, Tried, Refused, Ran

LEMMA StartFacts ==
  ASSUME TypeOK, StartExposure
  PROVE  /\ pc = "start"
         /\ UNCHANGED <<job, loop, abort, verdicts, late, unclean, quit, cycles>>
         /\ \/ /\ Fails /\ UNCHANGED waited
               /\ Tried(AcceptsStart(dev), AfterStart(dev, job.noCal))
            \/ /\ Ran(AcceptsStart(dev), AfterStart(dev, job.noCal))
               /\ \/ job.noCal /\ pc' = "chk_settled" /\ UNCHANGED waited
                  \/ ~job.noCal /\ pc' = "chk_cal" /\ waited' = 1
<1>1. AcceptsStart(dev) \in BOOLEAN  BY DEF AcceptsStart
<1> QED
  BY <1>1, OutcomeFacts, RaiseFacts DEF StartExposure, Fails, Tried, Refused, Ran

LEMMA StatusFacts ==
  ASSUME TypeOK, CalibrationStatus \/ SendStatus \/ DrainStatus \/ WheelStatus
  PROVE  dev' = dev \/ Refused
  BY OutcomeFacts DEF CalibrationStatus, SendStatus, DrainStatus, WheelStatus,
                      Refused

LEMMA CalibrationFacts ==
  ASSUME TypeOK, LoopInv, CalibrationStatus
  PROVE  /\ pc = "cal_status"
         /\ UNCHANGED <<job, pass, y, line_y, lines_sent, abort, verdicts,
                        late, unclean, quit, cycles>>
         /\ waited = i + 1
         /\ \/ Fails /\ UNCHANGED <<i, waited>>
            \/ /\ pc' = "chk_calibrated" /\ i' = 0 /\ UNCHANGED waited
               /\ waited > CALIBRATION_MIN_S
               /\ \/ waited = CALIBRATION_WAIT_S
                  \/ dev.phase = "exposing" /\ dev.calibrated
            \/ pc' = "chk_cal" /\ i' = i + 1 /\ waited' = waited + 1
<1>1. pc = "cal_status" /\ waited = i + 1 /\ i \in 0..CALIBRATION_WAIT_S - 1
  BY DEF CalibrationStatus, LoopInv
<1>2. \A active \in ExposureStates(dev) :
         active => dev.phase = "exposing" /\ dev.calibrated
  BY Zenon DEF ExposureStates
<1>3. \/ Fails /\ UNCHANGED <<i, waited>>
      \/ /\ pc' = "chk_calibrated" /\ i' = 0 /\ UNCHANGED waited
         /\ i >= CALIBRATION_MIN_S
         /\ \E active \in ExposureStates(dev) : active
      \/ NextSecond
  BY RaiseFacts DEF CalibrationStatus, Fails
<1> QED
  BY <1>1, <1>2, <1>3, NumberFacts DEF CalibrationStatus, NextSecond, TypeOK

LEMMA SendFacts ==
  ASSUME TypeOK, SendStatus
  PROVE  /\ pc = "status"
         /\ UNCHANGED <<job, loop, abort, verdicts, hist, cycles>>
         /\ \/ Fails
            \/ pc' = "chk_drain" /\ dev.free < MIN_FREE_KB /\ dev' = dev
            \/ pc' = "print" /\ dev.free >= MIN_FREE_KB /\ dev' = dev
<1>1. \A r \in Outcomes(TRUE, dev) : r.out = "ok" => r.dev = dev
  BY OutcomeFacts
<1>2. dev.free \in Nat  BY DEF TypeOK, Devices, Recorders
<1>3. PICK r \in Outcomes(TRUE, dev), e \in Emit :
        /\ dev' = r.dev
        /\ IF r.out # "ok" THEN Raise(r.out)
           ELSE IF dev.free >= MIN_FREE_KB THEN pc' = "print"
           ELSE IF e # "ok" THEN Raise(e) ELSE pc' = "chk_drain"
  BY DEF SendStatus
<1>4. \/ Fails
      \/ pc' = "chk_drain" /\ dev.free < MIN_FREE_KB /\ r.out = "ok"
      \/ pc' = "print" /\ dev.free >= MIN_FREE_KB /\ r.out = "ok"
  BY <1>2, <1>3, NumberFacts, RaiseFacts DEF Fails
<1> QED  BY <1>1, <1>3, <1>4 DEF SendStatus

LEMMA DrainFacts ==
  ASSUME TypeOK, DrainStatus
  PROVE  /\ pc = "drain"
         /\ UNCHANGED <<job, loop, abort, verdicts, hist, cycles>>
         /\ \/ Fails
            \/ pc' = "chk_drain" /\ dev.free < MIN_FREE_KB + DrainMarginKB
            \/ /\ pc' = "chk_burst" /\ dev' = dev
               /\ dev.free >= MIN_FREE_KB + DrainMarginKB
<1>1. \A r \in Outcomes(TRUE, dev) : r.out = "ok" => r.dev = dev
  BY OutcomeFacts
<1>2. dev.free \in Nat  BY DEF TypeOK, Devices, Recorders
<1>3. PICK r \in Outcomes(TRUE, dev) :
        /\ dev' = r.dev
        /\ IF r.out # "ok" THEN Raise(r.out)
           ELSE pc' = IF dev.free < MIN_FREE_KB + DrainMarginKB
                      THEN "chk_drain" ELSE "chk_burst"
  BY DEF DrainStatus
<1>4. \/ Fails
      \/ pc' = "chk_drain" /\ dev.free < MIN_FREE_KB + DrainMarginKB
      \/ /\ pc' = "chk_burst" /\ r.out = "ok"
         /\ dev.free >= MIN_FREE_KB + DrainMarginKB
  BY <1>2, <1>3, NumberFacts, RaiseFacts DEF Fails
<1> QED  BY <1>1, <1>3, <1>4 DEF DrainStatus

LEMMA PrintFacts ==
  ASSUME TypeOK, LoopInv, PrintLine
  PROVE  /\ pc = "print" /\ y < Height /\ y =< line_y /\ line_y < Burst
         /\ Burst \in y + 1..Height /\ Burst =< y + BURST_SIZE
         /\ UNCHANGED <<job, pass, i, abort, verdicts, waited, unclean, quit, cycles>>
         /\ late' = IF abort THEN late + 1 ELSE late
         /\ \/ /\ Fails /\ UNCHANGED <<y, line_y, lines_sent>>
               /\ Tried(AcceptsPrint(dev), AfterPrint(dev, Color, line_y))
            \/ /\ Ran(AcceptsPrint(dev), AfterPrint(dev, Color, line_y))
               /\ line_y' = line_y + 1 /\ lines_sent' = lines_sent + 1
               /\ \/ line_y + 1 < Burst /\ pc' = "print" /\ UNCHANGED y
                  \/ /\ line_y + 1 = Burst /\ y' = Burst
                     /\ \/ Fails
                        \/ Burst < Height /\ pc' = "chk_burst"
                        \/ Burst = Height /\ MorePasses /\ pc' = "wheel"
                        \/ Burst = Height /\ ~MorePasses /\ pc' = "terminate"
<1>1. /\ pc = "print" /\ y < Height /\ y =< line_y /\ line_y < Burst
      /\ UNCHANGED <<job, pass, i, abort, verdicts, waited, unclean, quit, cycles>>
      /\ late' = IF abort THEN late + 1 ELSE late
  BY DEF PrintLine, LoopInv
<1>2. Burst \in y + 1..Height /\ Burst =< y + BURST_SIZE
  BY <1>1, NumberFacts DEF Burst, TypeOK
<1>3. PICK r \in Outcomes(AcceptsPrint(dev), AfterPrint(dev, Color, line_y)),
           e \in Emit :
        /\ dev' = r.dev
        /\ IF r.out # "ok" THEN Raise(r.out) /\ UNCHANGED <<y, line_y, lines_sent>>
           ELSE /\ line_y' = line_y + 1 /\ lines_sent' = lines_sent + 1
                /\ IF line_y + 1 < Burst THEN pc' = "print" /\ UNCHANGED y
                   ELSE /\ y' = Burst
                        /\ IF e # "ok" THEN Raise(e)
                           ELSE pc' = IF Burst < Height THEN "chk_burst"
                                      ELSE IF MorePasses THEN "wheel"
                                      ELSE "terminate"
  BY DEF PrintLine
<1>4. AcceptsPrint(dev) \in BOOLEAN  BY DEF AcceptsPrint
<1>5. CASE r.out # "ok"
  BY <1>1, <1>2, <1>3, <1>4, <1>5, OutcomeFacts, RaiseFacts DEF Fails, Tried, Refused, Ran
<1>6. CASE r.out = "ok"
  <2>1. Ran(AcceptsPrint(dev), AfterPrint(dev, Color, line_y))
    BY <1>3, <1>4, <1>6, OutcomeFacts DEF Ran
  <2> QED  BY <1>1, <1>2, <1>3, <1>6, <2>1, NumberFacts, RaiseFacts DEF Fails, TypeOK
<1> QED  BY <1>5, <1>6

LEMMA WheelFacts ==
  ASSUME TypeOK, LoopInv, WheelStatus
  PROVE  /\ pc = "wheel_status" /\ line_y = Height /\ MorePasses
         /\ UNCHANGED <<job, lines_sent, abort, verdicts, hist, cycles>>
         /\ \/ Fails /\ UNCHANGED <<pass, i, y, line_y>>
            \/ pc' = "chk_wheel" /\ i' = i + 1 /\ UNCHANGED <<pass, y, line_y>>
            \/ pc' = "chk_burst" /\ pass' = pass + 1 /\ y' = 0 /\ line_y' = 0
  BY RaiseFacts DEF WheelStatus, LoopInv, Turning, NextPass, Fails

LEMMA TerminateFacts ==
  ASSUME TypeOK, Terminate
  PROVE  /\ pc = "terminate"
         /\ UNCHANGED <<job, loop, abort, verdicts, hist, cycles>>
         /\ \/ Fails /\ Tried(AcceptsTerminate(dev), AfterTerminate(dev))
            \/ pc' = "complete" /\ Ran(AcceptsTerminate(dev), AfterTerminate(dev))
<1>1. AcceptsTerminate(dev) \in BOOLEAN  BY DEF AcceptsTerminate
<1> QED
  BY <1>1, OutcomeFacts, RaiseFacts DEF Terminate, Fails, Tried, Refused, Ran

LEMMA StopFacts ==
  ASSUME TypeOK, StopPrint
  PROVE  /\ Tried(TRUE, AfterStop(dev))
         /\ UNCHANGED <<job, loop, abort, verdicts, waited, late, quit, cycles>>
         /\ \/ pc = "abort_stop" /\ pc' \in {"abort_term", "exc_stop"}
            \/ pc = "abort_stop" /\ pc' = "abort_emit" /\ unclean'
            \/ pc = "err_stop" /\ pc' \in {"err_term", "raised"}
            \/ pc = "err_stop" /\ pc' = "err_emit" /\ unclean'
            \/ pc = "exc_stop" /\ pc' \in {"exc_emit", "raised"}
<1>1. Tried(TRUE, AfterStop(dev))
  BY OutcomeFacts DEF StopPrint, Tried, Refused, Ran
<1> QED  BY <1>1 DEF StopPrint, TypeOK

LEMMA TerminateStoppedFacts ==
  ASSUME TypeOK, TerminateStopped
  PROVE  /\ UNCHANGED <<job, loop, abort, verdicts, waited, late, quit, cycles>>
         /\ Tried(AcceptsTerminate(dev), AfterTerminate(dev))
         /\ \/ pc = "abort_term" /\ pc' \in {"exc_stop", "abort_emit"}
            \/ pc = "err_term" /\ pc' \in {"raised", "err_emit"}
         /\ ~unclean' => ~unclean /\ dev'.phase = "idle"
<1>1. AcceptsTerminate(dev) \in BOOLEAN  BY DEF AcceptsTerminate
<1>2. PICK r \in Outcomes(AcceptsTerminate(dev), AfterTerminate(dev)) :
        /\ dev' = r.dev
        /\ unclean' = (unclean \/ (r.out # "ok" /\ AcceptsTerminate(dev)))
  BY DEF TerminateStopped
<1>3. Tried(AcceptsTerminate(dev), AfterTerminate(dev))
  BY <1>1, <1>2, OutcomeFacts DEF Tried, Refused, Ran
<1>4. ~unclean' => ~unclean /\ dev'.phase = "idle"
  <2>1. AfterTerminate(dev).phase = "idle"
    BY DEF AfterTerminate, TypeOK, Devices, Recorders
  <2>2. [dev EXCEPT !.attention = FALSE].phase = dev.phase
    BY DEF TypeOK, Devices, Recorders
  <2>3. r.out = "ok" => dev'.phase = "idle"
    BY <1>1, <1>2, <2>1, OutcomeFacts
  <2>4. ~AcceptsTerminate(dev) => dev'.phase = "idle"
    BY <1>3, <2>2 DEF Tried, Refused, Ran, AcceptsTerminate
  <2>5. ~unclean' => ~unclean /\ (r.out = "ok" \/ ~AcceptsTerminate(dev))
    BY <1>2
  <2> QED  BY <2>3, <2>4, <2>5
<1> QED  BY <1>3, <1>4 DEF TerminateStopped

(* The actions that send nothing.                                          *)
Quiet == CheckAbort \/ TurnWheel \/ Complete \/ Report \/ RequestAbort
         \/ Over \/ UNCHANGED vars

LEMMA QuietFacts ==
  ASSUME TypeOK, Quiet
  PROVE  /\ dev' = dev
         /\ UNCHANGED <<job, pass, y, line_y, lines_sent, waited, late,
                        unclean, cycles>>
         /\ quit => quit'
         /\ \/ pc' = pc /\ UNCHANGED <<i, verdicts>>
               /\ (abort' = abort \/ ~abort)
            \/ /\ UNCHANGED <<i, verdicts, abort>>
               /\ pc \in CheckPoints
               /\ \/ abort /\ pc' = "abort_stop"
                  \/ ~abort /\ pc' = AfterCheck[pc]
            \/ /\ UNCHANGED <<verdicts, abort>>
               /\ pc = "wheel" /\ (Fails \/ pc' = "chk_wheel")
            \/ /\ UNCHANGED <<i, abort>> /\ Deliver("complete")
               /\ pc = "complete"
               /\ \/ /\ pc' \in {"err_stop", "exc_stop"} /\ job.listens
                     /\ CallbackFaults \cap Errors # {}
                  \/ /\ pc' = "quit_emit" /\ job.listens
                     /\ "aborted" \in CallbackFaults
                  \/ pc' = "returned"
            \/ /\ UNCHANGED <<i, abort>> /\ Deliver("aborted")
               /\ pc = "abort_emit" \/ (pc = "quit_emit" /\ quit')
               /\ \/ pc' = "raised" /\ job.listens
                  \/ pc' = "returned"
            \/ /\ UNCHANGED <<i, abort>> /\ Deliver("error")
               /\ \/ pc = "err_emit" /\ (pc' = "raised" \/ pc' = "returned")
                  \/ pc = "exc_emit" /\ pc' = "raised"
<1> USE DEF loop, hist
<1>1. CASE CheckAbort  BY <1>1 DEF CheckAbort, TypeOK
<1>2. CASE TurnWheel  BY <1>2, RaiseFacts DEF TurnWheel, Fails
<1>3. CASE Complete
  <2>1. PICK e \in Emit : IF e = "ok" THEN pc' = "returned" ELSE Raise(e)
    BY <1>3 DEF Complete
  <2>2. e # "ok" => e \in CallbackFaults /\ job.listens
                    /\ (e \in Errors \/ e = "aborted")
    BY <2>1, ExposureAssumption DEF Emit, Exceptions
  <2> QED  BY <1>3, <2>1, <2>2 DEF Complete, Raise, Errors
<1>4. CASE Report  BY <1>4 DEF Report, Reports, Verdict, Emit
<1>5. CASE RequestAbort \/ Over \/ UNCHANGED vars
  BY <1>5 DEF RequestAbort, Over, vars
<1> QED  BY <1>1, <1>2, <1>3, <1>4, <1>5 DEF Quiet

(* Only a callback leads to quit_emit: no command raises                   *)
(* ExposureAbortedError, and "finishing" is told before TERMINATE.         *)
LEMMA QuitFacts ==
  ASSUME TypeOK, LoopInv, [Next]_vars, pc # "quit_emit", pc' = "quit_emit"
  PROVE  /\ pc \in Body /\ job.listens /\ "aborted" \in CallbackFaults
         /\ pc = "terminate" => dev' = dev
<1>1. ASSUME NEW k, Raise(k)  PROVE  k = "aborted"
  BY <1>1 DEF Raise
<1>2. ASSUME "aborted" \in Emit
      PROVE  job.listens /\ "aborted" \in CallbackFaults
  BY <1>2 DEF Emit
<1>3. ASSUME NEW a \in BOOLEAN, NEW d, NEW r \in Outcomes(a, d)
      PROVE  r.out # "aborted"
  BY <1>3, OutcomeFacts DEF Errors
<1>4. /\ AcceptsStart(dev) \in BOOLEAN /\ AcceptsPrint(dev) \in BOOLEAN
      /\ AcceptsTerminate(dev) \in BOOLEAN
  BY DEF AcceptsStart, AcceptsPrint, AcceptsTerminate
<1> USE DEF Body
<1>5. CASE ModeSelect
  BY <1>1, <1>2, <1>3, <1>5 DEF ModeSelect
<1>6. CASE SetColorTab
  BY <1>1, <1>3, <1>6 DEF SetColorTab
<1>7. CASE StartExposure
  BY <1>1, <1>2, <1>3, <1>4, <1>7 DEF StartExposure
<1>8. CASE CalibrationStatus
  BY <1>1, <1>2, <1>3, <1>8 DEF CalibrationStatus, NextSecond
<1>9. CASE SendStatus
  BY <1>1, <1>2, <1>3, <1>9 DEF SendStatus
<1>10. CASE DrainStatus
  BY <1>1, <1>3, <1>10 DEF DrainStatus
<1>11. CASE PrintLine
  BY <1>1, <1>2, <1>3, <1>4, <1>11 DEF PrintLine
<1>12. CASE TurnWheel
  BY <1>1, <1>2, <1>12 DEF TurnWheel
<1>13. CASE WheelStatus
  BY <1>1, <1>3, <1>13 DEF WheelStatus, NextPass
<1>14. CASE Terminate
  BY <1>1, <1>2, <1>3, <1>4, <1>14 DEF Terminate
<1>15. CASE Complete
  BY <1>1, <1>2, <1>15 DEF Complete
<1>16. CASE StopPrint \/ TerminateStopped
  BY <1>16, StopFacts, TerminateStoppedFacts
<1>17. CASE CheckAbort
  BY <1>17, CheckFacts DEF CheckAbort
<1>18. CASE Report
  BY <1>18 DEF Report
<1>19. CASE RequestAbort \/ Calibrate \/ Drain \/ PowerCycle \/ Over
            \/ UNCHANGED vars
  BY <1>19 DEF RequestAbort, Calibrate, Drain, PowerCycle, Environment, Over, vars
<1> QED
  BY <1>5, <1>6, <1>7, <1>8, <1>9, <1>10, <1>11, <1>12, <1>13, <1>14, <1>15,
     <1>16, <1>17, <1>18, <1>19 DEF Next, Driver

(* The recorder's own steps.                                               *)
Ambient == Calibrate \/ Drain \/ PowerCycle

LEMMA AmbientFacts ==
  ASSUME TypeOK, Ambient
  PROVE  /\ UNCHANGED <<pc, job, loop, abort, verdicts, hist>>
         /\ \/ CanCalibrate(dev) /\ dev' = Calibrated(dev)
            \/ CanDrain(dev) /\ dev' = Drained(dev)
            \/ dev' = PowerCycled(dev)
  BY DEF Ambient, Calibrate, Drain, PowerCycle, Environment

LEMMA NextCases ==
  ASSUME [Next]_vars
  PROVE  \/ ModeSelect \/ SetColorTab \/ StartExposure \/ CalibrationStatus
         \/ SendStatus \/ DrainStatus \/ PrintLine \/ WheelStatus \/ Terminate
         \/ StopPrint \/ TerminateStopped \/ Quiet \/ Ambient
  BY DEF Next, Driver, Quiet, Ambient

-----------------------------------------------------------------------------
(* START comes after everything else and TERMINATE after START.            *)
LEMMA PhaseStep ==
  ASSUME TypeOK, LoopInv, PhaseInv, [Next]_vars
  PROVE  PhaseInv'
<1> USE CheckPlaces
        DEF Setup, Calibrating, Sending, Turning, Body, Ends, Fails, Tried, Ran,
            Refused, TypeOK, Devices, Recorders, Phases
<1>0. dev' \in Devices  BY DeviceStep
<1>1. CASE ModeSelect
  BY <1>0, <1>1, ModeSelectFacts DEF PhaseInv, AfterModeSelect
<1>2. CASE SetColorTab
  BY <1>0, <1>2, SetColorTabFacts DEF PhaseInv, AfterSetColorTab
<1>3. CASE StartExposure
  BY <1>0, <1>3, StartFacts DEF PhaseInv, AfterStart, AcceptsStart
<1>4. CASE CalibrationStatus
  BY <1>0, <1>4, StatusFacts, CalibrationFacts DEF PhaseInv
<1>5. CASE SendStatus
  BY <1>0, <1>5, StatusFacts, SendFacts DEF PhaseInv
<1>6. CASE DrainStatus
  BY <1>0, <1>6, StatusFacts, DrainFacts DEF PhaseInv
<1>7. CASE PrintLine
  BY <1>0, <1>7, PrintFacts DEF PhaseInv, AfterPrint, AcceptsPrint
<1>8. CASE WheelStatus
  BY <1>0, <1>8, StatusFacts, WheelFacts DEF PhaseInv
<1>9. CASE Terminate
  BY ZenonT(60), <1>0, <1>9, TerminateFacts DEF PhaseInv, AfterTerminate
<1>10. CASE StopPrint
  BY <1>0, <1>10, StopFacts DEF PhaseInv, AfterStop
<1>11. CASE TerminateStopped
  BY <1>0, <1>11, TerminateStoppedFacts DEF PhaseInv, AfterTerminate
<1>12. CASE Quiet
  BY <1>0, <1>12, QuietFacts, CheckFacts DEF PhaseInv
<1>13. CASE Ambient
  BY ZenonT(60), <1>0, <1>13, AmbientFacts
     DEF PhaseInv, CanCalibrate, Calibrated, CanDrain, Drained, PowerCycled, Ready
<1> QED
  BY <1>1, <1>2, <1>3, <1>4, <1>5, <1>6, <1>7, <1>8, <1>9, <1>10, <1>11,
     <1>12, <1>13, NextCases

(* What MODE SELECT and SET COLOR TAB set is in force or the next command  *)
(* fails.                                                                  *)
LEMMA SettingsStep ==
  ASSUME TypeOK, LoopInv, PhaseInv, SettingsInv, [Next]_vars
  PROVE  SettingsInv'
<1> USE CheckPlaces, NumberFacts
        DEF Setup, Calibrating, Sending, Turning, Body, Ends, Fails, Tried, Ran,
            Refused, TypeOK, Devices, Recorders, Phases
<1>0. dev' \in Devices  BY DeviceStep
<1>1. CASE ModeSelect
  BY <1>0, <1>1, ModeSelectFacts
     DEF PhaseInv, SettingsInv, OwnSettings, LoopInv, loop, Colors, RED,
         GREEN, BLUE, AfterModeSelect
<1>2. CASE SetColorTab
  <2>1. pc = "tabs" /\ dev.phase = "idle" /\ dev'.phase = "idle"
    BY <1>0, <1>2, SetColorTabFacts DEF PhaseInv, AfterSetColorTab
  <2>2. CASE Fails
    BY <2>1, <2>2 DEF SettingsInv, OwnSettings
  <2>3. CASE Ran(TRUE, AfterSetColorTab(dev, i))
    <3>1. dev'.mode = JobMode /\ dev'.tabs = dev.tabs \cup {i}
      BY <2>1, <2>3 DEF AfterSetColorTab, SettingsInv
    <3>2. i \in 0..2 /\ 0..i - 1 \subseteq dev.tabs
      BY <2>1, <2>3 DEF SettingsInv, LoopInv, Colors, RED, GREEN, BLUE
    <3>3. 0..i \subseteq dev'.tabs
      BY <3>1, <3>2
    <3>4. \/ Fails
          \/ pc' = "tabs" /\ i' = i + 1
          \/ pc' = "chk_start" /\ i = 2
      <4>1. \/ Fails
            \/ pc' = "tabs" /\ i' = i + 1
            \/ pc' = "chk_start" /\ ~(i < BLUE)
        BY <1>2, SetColorTabFacts
      <4> QED  BY <4>1, <3>2 DEF BLUE
    <3>5. i = 2 => dev'.tabs = Colors
      BY <1>0, <3>3 DEF Colors, RED, GREEN, BLUE
    <3> QED  BY <2>1, <3>1, <3>2, <3>3, <3>4, <3>5 DEF SettingsInv, OwnSettings
  <2> QED  BY <1>2, <2>2, <2>3, SetColorTabFacts
<1>3. CASE StartExposure
  BY <1>0, <1>3, StartFacts
     DEF PhaseInv, SettingsInv, OwnSettings, LoopInv, loop, Colors, RED,
         GREEN, BLUE, AfterStart, AcceptsStart
<1>4. CASE CalibrationStatus
  BY <1>0, <1>4, StatusFacts, CalibrationFacts
     DEF PhaseInv, SettingsInv, OwnSettings, LoopInv, loop, Colors, RED,
         GREEN, BLUE
<1>5. CASE SendStatus
  BY <1>0, <1>5, StatusFacts, SendFacts
     DEF PhaseInv, SettingsInv, OwnSettings, LoopInv, loop, Colors, RED,
         GREEN, BLUE
<1>6. CASE DrainStatus
  BY <1>0, <1>6, StatusFacts, DrainFacts
     DEF PhaseInv, SettingsInv, OwnSettings, LoopInv, loop, Colors, RED,
         GREEN, BLUE
<1>7. CASE PrintLine
  BY <1>0, <1>7, PrintFacts
     DEF PhaseInv, SettingsInv, OwnSettings, LoopInv, loop, Colors, RED,
         GREEN, BLUE, AfterPrint, AcceptsPrint
<1>8. CASE WheelStatus
  BY <1>0, <1>8, StatusFacts, WheelFacts
     DEF PhaseInv, SettingsInv, OwnSettings, LoopInv, loop, Colors, RED,
         GREEN, BLUE
<1>9. CASE Terminate
  BY ZenonT(60), <1>0, <1>9, TerminateFacts
     DEF PhaseInv, SettingsInv, OwnSettings, LoopInv, loop, Colors, RED,
         GREEN, BLUE, AfterTerminate
<1>10. CASE StopPrint
  BY <1>0, <1>10, StopFacts
     DEF PhaseInv, SettingsInv, OwnSettings, LoopInv, loop, Colors, RED,
         GREEN, BLUE, AfterStop
<1>11. CASE TerminateStopped
  BY ZenonT(60), <1>0, <1>11, TerminateStoppedFacts
     DEF PhaseInv, SettingsInv, OwnSettings, LoopInv, loop, Colors, RED,
         GREEN, BLUE, AfterTerminate
<1>12. CASE Quiet
  <2>1. dev' = dev  BY <1>12, QuietFacts
  <2>2. pc' \in {"chk_tabs", "chk_start"} => pc' = pc
    BY <1>12, QuietFacts, CheckFacts
  <2>3. pc' = "tabs" => \/ pc = "tabs" /\ i' = i
                        \/ pc = "chk_tabs" /\ i' = 0
    BY <1>12, QuietFacts, CheckFacts DEF LoopInv
  <2>4. pc' = "start" => pc \in {"chk_start", "start"}
    BY <1>12, QuietFacts, CheckFacts
  <2>5. 0..0 - 1 \subseteq dev.tabs  OBVIOUS
  <2> QED
    BY <2>1, <2>2, <2>3, <2>4, <2>5 DEF SettingsInv, OwnSettings
<1>13. CASE Ambient
  BY <1>0, <1>13, AmbientFacts
     DEF PhaseInv, SettingsInv, OwnSettings, LoopInv, loop, Colors, RED,
         GREEN, BLUE, CanCalibrate, Calibrated, CanDrain, Drained,
         PowerCycled, Ready
<1> QED
  BY <1>1, <1>2, <1>3, <1>4, <1>5, <1>6, <1>7, <1>8, <1>9, <1>10, <1>11,
     <1>12, <1>13, NextCases

(* The room checked before a burst is there for each of its lines.         *)
LEMMA RoomStep ==
  ASSUME TypeOK, LoopInv, PhaseInv, RoomInv, [Next]_vars
  PROVE  RoomInv'
<1> USE CheckPlaces, NumberFacts
        DEF Setup, Calibrating, Sending, Turning, Body, Ends, Fails, Tried, Ran,
            Refused, TypeOK, Devices, Recorders, Phases
<1>0. dev' \in Devices  BY DeviceStep
<1>1. CASE ModeSelect
  BY <1>0, <1>1, ModeSelectFacts
     DEF RoomInv, Burst, loop, AfterModeSelect
<1>2. CASE SetColorTab
  BY <1>0, <1>2, SetColorTabFacts
     DEF RoomInv, Burst, loop, AfterSetColorTab
<1>3. CASE StartExposure
  BY <1>0, <1>3, StartFacts
     DEF RoomInv, Burst, loop, AfterStart, AcceptsStart
<1>4. CASE CalibrationStatus
  BY <1>0, <1>4, StatusFacts, CalibrationFacts
     DEF RoomInv, Burst, loop
<1>5. CASE SendStatus
  <2>1. Burst' = Burst /\ line_y' = line_y  BY <1>5, SendFacts DEF Burst, loop
  <2>2. pc' = "print" => Burst - line_y \in 1..BURST_SIZE
    BY <1>5, SendFacts DEF LoopInv, Burst
  <2>3. pc' = "print" => dev'.free >= MIN_FREE_KB
    BY <1>0, <1>5, SendFacts
  <2>4. SUFFICES ASSUME pc' = "print"
                 PROVE  dev'.free >= (Burst - line_y) * LineKB
    BY <2>1 DEF RoomInv
  <2> DEFINE n == Burst - line_y
  <2>5. n \in 1..BURST_SIZE  BY <2>2, <2>4
  <2>6. dev'.free \in Nat  BY <1>0
  <2> HIDE DEF n
  <2>7. dev'.free >= n * LineKB  BY <2>3, <2>4, <2>5, <2>6, RoomFacts
  <2> QED  BY <2>7 DEF n
<1>6. CASE DrainStatus
  BY <1>0, <1>6, StatusFacts, DrainFacts
     DEF RoomInv, Burst, loop
<1>7. CASE PrintLine
  <2> HIDE DEF TypeOK, Devices, Recorders
  <2>1. SUFFICES ASSUME pc' = "print"
                 PROVE  dev'.free >= (Burst' - line_y') * LineKB
    BY DEF RoomInv
  <2>2. /\ pc = "print" /\ y =< line_y /\ line_y < Burst
        /\ Burst \in y + 1..Height /\ Burst =< y + BURST_SIZE
        /\ dev' = AfterPrint(dev, Color, line_y)
        /\ line_y' = line_y + 1 /\ y' = y
    BY <1>7, <2>1, PrintFacts
  <2>3. y \in Nat /\ line_y \in Nat /\ dev.free \in Nat
    BY DEF TypeOK, Devices, Recorders
  <2>4. Burst' = Burst  BY <2>2 DEF Burst
  <2> DEFINE n == Burst - line_y
  <2>5. dev.free >= n * LineKB  BY <2>2 DEF RoomInv
  <2>6. n \in 1..BURST_SIZE  BY <2>2, <2>3
  <2>7. Burst' - line_y' = n - 1  BY <2>2, <2>3, <2>4, <2>6
  <2> HIDE DEF n
  <2>8. /\ n * LineKB \in Nat /\ (n - 1) * LineKB = n * LineKB - LineKB
        /\ LineKB =< n * LineKB
    BY <2>6, RoomFacts
  <2>9. dev.free >= LineKB  BY <2>3, <2>5, <2>8
  <2>10. dev'.free = dev.free - LineKB
    BY <2>2, <2>9 DEF AfterPrint, TypeOK, Devices, Recorders
  <2> QED  BY <2>3, <2>5, <2>7, <2>8, <2>10
<1>8. CASE WheelStatus
  BY <1>0, <1>8, StatusFacts, WheelFacts
     DEF RoomInv, Burst, loop
<1>9. CASE Terminate
  BY <1>0, <1>9, TerminateFacts
     DEF RoomInv, Burst, loop, AfterTerminate
<1>10. CASE StopPrint
  BY <1>0, <1>10, StopFacts
     DEF RoomInv, Burst, loop, AfterStop
<1>11. CASE TerminateStopped
  BY <1>0, <1>11, TerminateStoppedFacts
     DEF RoomInv, Burst, loop, AfterTerminate
<1>12. CASE Quiet
  <2>1. pc' = "print" => pc = "print"
    BY <1>12, QuietFacts, CheckFacts
  <2> QED  BY <1>12, <2>1, QuietFacts DEF RoomInv, Burst
<1>13. CASE Ambient
  <2>1. SUFFICES ASSUME pc = "print"
                 PROVE  dev'.free >= (Burst - line_y) * LineKB
    BY <1>13, AmbientFacts DEF RoomInv, Burst, loop
  <2>2. Burst - line_y \in 1..BURST_SIZE  BY <2>1 DEF LoopInv, Burst
  <2>3. dev.free >= (Burst - line_y) * LineKB  BY <2>1 DEF RoomInv
  <2>4. dev'.free >= dev.free
    <3>1. Calibrated(dev).free = dev.free  BY DEF Calibrated
    <3>2. Drained(dev).free = dev.free + 1  BY DEF Drained
    <3>3. PowerCycled(dev).free = BufferKB  BY DEF PowerCycled, Ready
    <3> QED  BY <1>13, <3>1, <3>2, <3>3, AmbientFacts
  <2>5. (Burst - line_y) * LineKB \in Nat  BY <2>2, RoomFacts
  <2> QED  BY <1>0, <2>3, <2>4, <2>5
<1> QED
  BY <1>1, <1>2, <1>3, <1>4, <1>5, <1>6, <1>7, <1>8, <1>9, <1>10, <1>11,
     <1>12, <1>13, NextCases

(* No more than a burst goes out after the event is set.                   *)
LEMMA LateStep ==
  ASSUME TypeOK, LoopInv, LateInv, [Next]_vars
  PROVE  LateInv'
<1> USE CheckPlaces, NumberFacts
        DEF Setup, Calibrating, Sending, Turning, Aborting, Failing, Body, Ends,
            Fails, loop, hist
<1>1. CASE ModeSelect
  BY <1>1, ModeSelectFacts
     DEF LateInv, AbortBound, TypeOK
<1>2. CASE SetColorTab
  BY <1>2, SetColorTabFacts
     DEF LateInv, AbortBound, TypeOK
<1>3. CASE StartExposure
  BY <1>3, StartFacts
     DEF LateInv, AbortBound, TypeOK
<1>4. CASE CalibrationStatus
  BY <1>4, StatusFacts, CalibrationFacts
     DEF LateInv, AbortBound, TypeOK
<1>5. CASE SendStatus
  <2>1. late = 0 /\ late' = late /\ abort' = abort
    BY <1>5, SendFacts DEF LateInv
  <2>2. line_y' - y' = 0
    BY <1>5, SendFacts DEF LoopInv, TypeOK
  <2> QED  BY <2>1, <2>2 DEF LateInv, AbortBound
<1>6. CASE DrainStatus
  BY <1>6, StatusFacts, DrainFacts
     DEF LateInv, AbortBound, TypeOK
<1>7. CASE PrintLine
  <2>1. late \in Nat /\ late =< line_y - y /\ (~abort => late = 0)
    BY <1>7, PrintFacts DEF LateInv, TypeOK
  <2>2. late' =< line_y + 1 - y /\ (~abort' => late' = 0) /\ late' =< late + 1
        /\ late' \in Nat
    BY <1>7, <2>1, PrintFacts, SMTT(30) DEF TypeOK
  <2>3. line_y + 1 - y =< BURST_SIZE  BY <1>7, PrintFacts DEF TypeOK
  <2>4. late' =< BURST_SIZE
    BY <1>7, <2>2, <2>3, PrintFacts DEF TypeOK
  <2>5. pc' = "print" => line_y' = line_y + 1 /\ y' = y
    BY <1>7, PrintFacts
  <2>6. pc' \notin {"tabs", "start", "cal_status", "status", "drain",
                    "wheel_status"}
    BY <1>7, PrintFacts
  <2> QED  BY <2>2, <2>4, <2>5, <2>6 DEF LateInv, AbortBound, TypeOK
<1>8. CASE WheelStatus
  BY <1>8, StatusFacts, WheelFacts
     DEF LateInv, AbortBound, TypeOK
<1>9. CASE Terminate
  BY <1>9, TerminateFacts
     DEF LateInv, AbortBound, TypeOK
<1>10. CASE StopPrint
  BY <1>10, StopFacts
     DEF LateInv, AbortBound, TypeOK
<1>11. CASE TerminateStopped
  BY <1>11, TerminateStoppedFacts
     DEF LateInv, AbortBound, TypeOK
<1>12. CASE Quiet
  BY <1>12, QuietFacts, CheckFacts
     DEF LateInv, AbortBound, TypeOK
<1>13. CASE Ambient
  BY <1>13, AmbientFacts
     DEF LateInv, AbortBound, TypeOK
<1> QED
  BY <1>1, <1>2, <1>3, <1>4, <1>5, <1>6, <1>7, <1>8, <1>9, <1>10, <1>11,
     <1>12, <1>13, NextCases

-----------------------------------------------------------------------------
(* What the body has sent does not depend on the recorder.                 *)
LEMMA SentSame ==
  ASSUME UNCHANGED <<job, pass, line_y>>
  PROVE  SentRows' = SentRows /\ JobColors' = JobColors /\ Color' = Color
         /\ Whole' = Whole
  BY DEF SentRows, Sent, Color, JobColors, Whole

(* The next line extends what was sent, the next pass does not change it,  *)
(* and at the end of the last pass it is the whole frame.                  *)
LEMMA SentGrows ==
  ASSUME TypeOK, UNCHANGED <<job, pass>>, line_y' = line_y + 1
  PROVE  SentRows' = [SentRows EXCEPT ![Color] = Append(@, line_y)]
<1>1. Color \in Colors  BY ChannelFacts DEF TypeOK
<1>2. Color' = Color /\ JobColors' = JobColors  BY DEF Color, JobColors
<1>3. SentRows[Color] = Rows(line_y)  BY <1>1 DEF SentRows, Sent
<1>4. Append(SentRows[Color], line_y) = Rows(line_y + 1)
  <2>1. line_y \in Nat  BY DEF TypeOK
  <2> QED  BY <1>3, <2>1, RowsFacts
<1>5. ASSUME NEW c \in Colors
      PROVE  Rows(Sent(c)') = IF c = Color THEN Append(SentRows[Color], line_y)
                              ELSE SentRows[c]
  <2>1. CASE c = Color
    <3>1. Sent(c) = line_y /\ Sent(c)' = line_y + 1
      BY <1>2, <2>1 DEF Sent
    <3> QED  BY <1>4, <2>1, <3>1
  <2>2. CASE c # Color
    <3>1. Sent(c)' = Sent(c)  BY <1>2, <2>2 DEF Sent
    <3> QED  BY <2>2, <3>1 DEF SentRows
  <2> QED  BY <2>1, <2>2
<1>6. SentRows' = [c \in Colors |-> Rows(Sent(c)')]  BY DEF SentRows, Rows
<1> QED  BY <1>1, <1>5, <1>6 DEF SentRows

LEMMA SentKept ==
  ASSUME TypeOK, MorePasses, line_y = Height, UNCHANGED job,
         pass' = pass + 1, line_y' = 0
  PROVE  SentRows' = SentRows
<1>1. Color \in Colors /\ JobColors = Colors /\ Color' = Color + 1
      /\ JobColors' = JobColors
  BY ChannelFacts DEF TypeOK, Color, JobColors
<1>2. ASSUME NEW c \in Colors  PROVE  Sent(c)' = Sent(c)
  BY <1>1 DEF Sent, Colors, RED, GREEN, BLUE
<1> QED  BY <1>2 DEF SentRows, Rows

LEMMA SentNothing ==
  ASSUME TypeOK, pass = 1, line_y = 0
  PROVE  SentRows = Blank
<1>1. Color \in Colors /\ \A c \in JobColors : Color =< c
  BY ChannelFacts DEF TypeOK
<1>2. ASSUME NEW c \in Colors  PROVE  Sent(c) = 0
  BY <1>1 DEF Sent, Colors, RED, GREEN, BLUE
<1>3. Rows(0) = << >>  BY RowsFacts
<1> QED  BY <1>2, <1>3 DEF SentRows, Blank

LEMMA SentAll ==
  ASSUME TypeOK, ~MorePasses, line_y = Height
  PROVE  SentRows = Whole
<1>1. Color \in Colors /\ Color \in JobColors /\ \A c \in JobColors : c =< Color
  BY ChannelFacts DEF TypeOK
<1>2. ASSUME NEW c \in Colors
      PROVE  Sent(c) = IF c \in JobColors THEN Height ELSE 0
  BY <1>1 DEF Sent, Colors, RED, GREEN, BLUE
<1> QED  BY <1>2 DEF SentRows, Whole

(* Before that it is not.                                                  *)
LEMMA SentPart ==
  ASSUME TypeOK, line_y < Height \/ MorePasses
  PROVE  SentRows # Whole
<1>1. Color \in Colors /\ Color \in JobColors  BY ChannelFacts DEF TypeOK
<1>2. ASSUME NEW c \in Colors, c \in JobColors, Sent(c) \in Nat, Sent(c) < Height
      PROVE  SentRows # Whole
  <2>1. Len(SentRows[c]) = Sent(c)  BY <1>2, RowsFacts DEF SentRows
  <2>2. Len(Whole[c]) = Height  BY <1>2, RowsFacts, NumberFacts DEF Whole
  <2> QED  BY <1>2, <2>1, <2>2, NumberFacts
<1>3. CASE line_y < Height
  <2>1. Sent(Color) = line_y  BY DEF Sent
  <2> QED  BY <1>1, <1>2, <1>3, <2>1 DEF TypeOK
<1>4. CASE MorePasses
  <2>1. Color + 1 \in Colors /\ JobColors = Colors
    BY <1>1, <1>4, ChannelFacts DEF TypeOK, MorePasses, Colors, RED, GREEN, BLUE
  <2>2. Sent(Color + 1) = 0
    BY <1>1, <2>1 DEF Sent, Colors, RED, GREEN, BLUE
  <2> QED  BY <1>2, <2>1, <2>2, NumberFacts
<1> QED  BY <1>3, <1>4

(* What a recorder holds follows the commands it carried out.              *)
LEMMA DeviceFields ==
  ASSUME TypeOK
  PROVE  /\ [dev EXCEPT !.attention = FALSE].phase = dev.phase
         /\ [dev EXCEPT !.attention = FALSE].got = dev.got
         /\ [dev EXCEPT !.attention = FALSE].film = dev.film
         /\ AfterModeSelect(dev, JobMode).phase = dev.phase
         /\ AfterModeSelect(dev, JobMode).got = dev.got
         /\ AfterModeSelect(dev, JobMode).film = dev.film
         /\ \A c \in Colors :
              /\ AfterSetColorTab(dev, c).phase = dev.phase
              /\ AfterSetColorTab(dev, c).got = dev.got
              /\ AfterSetColorTab(dev, c).film = dev.film
         /\ AfterStart(dev, job.noCal).phase = "exposing"
         /\ AfterStart(dev, job.noCal).got = Blank
         /\ AfterStart(dev, job.noCal).film = dev.film
         /\ AfterPrint(dev, Color, line_y).phase = dev.phase
         /\ AfterPrint(dev, Color, line_y).film = dev.film
         /\ dev.free >= LineKB =>
              AfterPrint(dev, Color, line_y).got =
                [dev.got EXCEPT ![Color] = Append(@, line_y)]
         /\ dev.free < LineKB => AfterPrint(dev, Color, line_y).got = dev.got
         /\ AfterTerminate(dev).phase = "idle"
         /\ AfterTerminate(dev).got = Blank
         /\ AfterTerminate(dev).film = Append(dev.film, dev.got)
         /\ AfterStop(dev).phase \in {dev.phase, "stopped"}
         /\ (AfterStop(dev).phase = "idle") = (dev.phase = "idle")
         /\ AfterStop(dev).got = dev.got
         /\ AfterStop(dev).film = dev.film
         /\ Calibrated(dev).phase = dev.phase /\ Calibrated(dev).got = dev.got
         /\ Calibrated(dev).film = dev.film
         /\ Drained(dev).phase = dev.phase /\ Drained(dev).got = dev.got
         /\ Drained(dev).film = dev.film
         /\ PowerCycled(dev).phase = "idle" /\ PowerCycled(dev).got = Blank
         /\ PowerCycled(dev).film = dev.film
<1> USE DEF TypeOK, Devices, Recorders, Phases
<1>1. /\ [dev EXCEPT !.attention = FALSE].phase = dev.phase
      /\ [dev EXCEPT !.attention = FALSE].got = dev.got
      /\ [dev EXCEPT !.attention = FALSE].film = dev.film
  OBVIOUS
<1>2. /\ AfterModeSelect(dev, JobMode).phase = dev.phase
      /\ AfterModeSelect(dev, JobMode).got = dev.got
      /\ AfterModeSelect(dev, JobMode).film = dev.film
  BY DEF AfterModeSelect
<1>3. \A c \in Colors :
        /\ AfterSetColorTab(dev, c).phase = dev.phase
        /\ AfterSetColorTab(dev, c).got = dev.got
        /\ AfterSetColorTab(dev, c).film = dev.film
  BY DEF AfterSetColorTab
<1>4. /\ AfterStart(dev, job.noCal).phase = "exposing"
      /\ AfterStart(dev, job.noCal).got = Blank
      /\ AfterStart(dev, job.noCal).film = dev.film
  BY DEF AfterStart
<1>5. /\ AfterPrint(dev, Color, line_y).phase = dev.phase
      /\ AfterPrint(dev, Color, line_y).film = dev.film
      /\ dev.free >= LineKB =>
           AfterPrint(dev, Color, line_y).got =
             [dev.got EXCEPT ![Color] = Append(@, line_y)]
      /\ dev.free < LineKB => AfterPrint(dev, Color, line_y).got = dev.got
  BY DEF AfterPrint
<1>6. /\ AfterTerminate(dev).phase = "idle"
      /\ AfterTerminate(dev).got = Blank
      /\ AfterTerminate(dev).film = Append(dev.film, dev.got)
  BY DEF AfterTerminate
<1>7. /\ AfterStop(dev).phase \in {dev.phase, "stopped"}
      /\ (AfterStop(dev).phase = "idle") = (dev.phase = "idle")
      /\ AfterStop(dev).got = dev.got
      /\ AfterStop(dev).film = dev.film
  BY DEF AfterStop
<1>8. /\ Calibrated(dev).phase = dev.phase /\ Calibrated(dev).got = dev.got
      /\ Calibrated(dev).film = dev.film
  BY DEF Calibrated
<1>9. /\ Drained(dev).phase = dev.phase /\ Drained(dev).got = dev.got
      /\ Drained(dev).film = dev.film
  BY DEF Drained
<1>10. /\ PowerCycled(dev).phase = "idle" /\ PowerCycled(dev).got = Blank
       /\ PowerCycled(dev).film = dev.film
  BY DEF PowerCycled, Ready
<1> QED  BY <1>1, <1>2, <1>3, <1>4, <1>5, <1>6, <1>7, <1>8, <1>9, <1>10

-----------------------------------------------------------------------------
(* An exposing recorder has what the body has sent, line by line.          *)
LEMMA LaidStep ==
  ASSUME TypeOK, LoopInv, PhaseInv, RoomInv, LaidInv, [Next]_vars
  PROVE  LaidInv'
<1> USE CheckPlaces, DeviceFields
        DEF Setup, Calibrating, Sending, Turning, Body, Fails, Tried, Ran,
            Refused, loop
<1>0. PhaseInv'  BY PhaseStep
<1>1. CASE ModeSelect \/ SetColorTab
  <2>1. pc' \notin Body \/ pc' \in Setup
    BY <1>1, ModeSelectFacts, SetColorTabFacts
  <2> QED  BY <1>0, <2>1 DEF PhaseInv, LaidInv
<1>2. CASE StartExposure
  <2>1. UNCHANGED <<job, pass, line_y>> /\ pass = 1 /\ line_y = 0
    BY <1>2, StartFacts DEF LoopInv
  <2>2. SentRows' = Blank  BY <2>1, SentSame, SentNothing
  <2>3. Fails \/ dev'.got = Blank  BY <1>2, StartFacts
  <2> QED  BY <2>2, <2>3 DEF LaidInv
<1>3. CASE CalibrationStatus \/ SendStatus \/ DrainStatus
  <2>1. UNCHANGED <<job, pass, line_y>>
    BY <1>3, CalibrationFacts, SendFacts, DrainFacts
  <2>2. dev'.got = dev.got /\ dev'.phase = dev.phase
    BY <1>3, StatusFacts
  <2>3. pc \in Body \ {"complete"}
    BY <1>3, CalibrationFacts, SendFacts, DrainFacts
  <2> QED  BY <2>1, <2>2, <2>3, SentSame DEF LaidInv
<1>4. CASE PrintLine
  <2>1. SUFFICES ASSUME pc' \in Body, dev'.phase = "exposing"
                 PROVE  dev'.got = SentRows'
    BY DEF LaidInv
  <2>2. /\ pc = "print" /\ UNCHANGED <<job, pass>> /\ line_y' = line_y + 1
        /\ dev' = AfterPrint(dev, Color, line_y) /\ AcceptsPrint(dev)
    BY <1>4, <2>1, PrintFacts
  <2>3. dev.got = SentRows  BY <2>2 DEF LaidInv, AcceptsPrint
  <2>4. Burst - line_y \in 1..BURST_SIZE
    <3>1. /\ y =< line_y /\ line_y < Burst
          /\ Burst \in y + 1..Height /\ Burst =< y + BURST_SIZE
      BY <1>4, PrintFacts
    <3>2. y \in Nat /\ line_y \in Nat  BY DEF TypeOK
    <3>3. Height \in Nat /\ BURST_SIZE \in Nat  BY NumberFacts
    <3> QED  BY ONLY <3>1, <3>2, <3>3
  <2>5. dev.free >= (Burst - line_y) * LineKB  BY <2>2 DEF RoomInv
  <2>6. dev.free >= LineKB
    <3> DEFINE n == Burst - line_y
    <3>1. n * LineKB \in Nat /\ LineKB =< n * LineKB  BY <2>4, RoomFacts
    <3>2. dev.free >= n * LineKB /\ dev.free \in Nat
      BY <2>5 DEF TypeOK, Devices, Recorders
    <3> HIDE DEF n
    <3> QED  BY <3>1, <3>2
  <2>7. dev'.got = [dev.got EXCEPT ![Color] = Append(@, line_y)]
    BY <2>2, <2>6
  <2> QED  BY <2>2, <2>3, <2>7, SentGrows
<1>5. CASE WheelStatus
  <2>1. dev'.got = dev.got /\ dev'.phase = dev.phase /\ pc = "wheel_status"
    BY <1>5, StatusFacts, WheelFacts
  <2>2. Fails \/ SentRows' = SentRows
    BY <1>5, WheelFacts, SentSame, SentKept
  <2> QED  BY <2>1, <2>2 DEF LaidInv
<1>6. CASE Terminate \/ StopPrint \/ TerminateStopped
  BY <1>6, TerminateFacts, StopFacts, TerminateStoppedFacts DEF LaidInv
<1>7. CASE Quiet
  <2>1. dev' = dev /\ UNCHANGED <<job, pass, line_y>>
    BY <1>7, QuietFacts
  <2>2. pc' \in Body \ {"complete"} => pc \in Body \ {"complete"}
    BY <1>7, QuietFacts, CheckFacts DEF Ends
  <2> QED  BY <2>1, <2>2, SentSame DEF LaidInv
<1>8. CASE Ambient
  <2>1. UNCHANGED <<pc, job, pass, line_y>>  BY <1>8, AmbientFacts
  <2>2. \/ dev'.got = dev.got /\ dev'.phase = dev.phase
        \/ dev'.phase = "idle"
    BY <1>8, AmbientFacts
  <2> QED  BY <2>1, <2>2, SentSame DEF LaidInv
<1> QED
  BY <1>1, <1>2, <1>3, <1>4, <1>5, <1>6, <1>7, <1>8, NextCases

(* Rows of what was sent are in order, the line being sent included.       *)
LEMMA SentInOrder ==
  ASSUME TypeOK
  PROVE  /\ InOrder(SentRows) /\ InOrder(Blank)
         /\ InOrder([SentRows EXCEPT ![Color] = Append(@, line_y)])
<1>1. Color \in Colors /\ line_y \in Nat  BY ChannelFacts DEF TypeOK
<1>2. ASSUME NEW c \in Colors
      PROVE  Sent(c) \in Nat /\ Len(Rows(Sent(c))) = Sent(c)
  <2>1. Sent(c) \in Nat  BY <1>1, NumberFacts DEF Sent
  <2> QED  BY <2>1, RowsFacts
<1>3. InOrder(SentRows)  BY <1>2 DEF InOrder, SentRows
<1>4. InOrder(Blank)
  <2>1. Rows(0) = << >>  BY RowsFacts
  <2> QED  BY <2>1 DEF InOrder, Blank
<1>5. Append(Rows(line_y), line_y) = Rows(Len(Append(Rows(line_y), line_y)))
  <2>1. Append(Rows(line_y), line_y) = Rows(line_y + 1)  BY <1>1, RowsFacts
  <2>2. Len(Rows(line_y + 1)) = line_y + 1  BY <1>1, RowsFacts
  <2> QED  BY <2>1, <2>2
<1>6. SentRows[Color] = Rows(line_y)  BY <1>1 DEF SentRows, Sent
<1>7. InOrder([SentRows EXCEPT ![Color] = Append(@, line_y)])
  BY <1>1, <1>3, <1>5, <1>6 DEF InOrder, SentRows
<1> QED  BY <1>3, <1>4, <1>7

LEMMA OrderStep ==
  ASSUME TypeOK, LoopInv, PhaseInv, RoomInv, LaidInv, LinesInOrder,
         [Next]_vars
  PROVE  LinesInOrder'
<1> USE DeviceFields DEF Tried, Ran, Refused
<1>1. ASSUME dev'.film = dev.film, dev'.got = dev.got \/ dev'.got = Blank
      PROVE  LinesInOrder'
  BY <1>1, SentInOrder DEF LinesInOrder
<1>2. ASSUME dev' = AfterTerminate(dev)
      PROVE  LinesInOrder'
  <2>1. dev'.film = Append(dev.film, dev.got) /\ dev'.got = Blank  BY <1>2
  <2>2. dev.film \in Seq([Colors -> Seq(Nat)]) /\ dev.got \in [Colors -> Seq(Nat)]
    BY DEF TypeOK, Devices, Recorders
  <2>3. \A n \in 1..Len(dev'.film) :
           \/ dev'.film[n] = dev.got
           \/ n \in 1..Len(dev.film) /\ dev'.film[n] = dev.film[n]
    BY <2>1, <2>2, AppendFacts
  <2> QED  BY <2>1, <2>3, SentInOrder DEF LinesInOrder
<1>3. CASE ModeSelect  BY <1>1, <1>3, ModeSelectFacts
<1>4. CASE SetColorTab
  <2>1. i \in Colors  BY <1>4, SetColorTabFacts DEF LoopInv
  <2> QED  BY <1>1, <1>4, <2>1, SetColorTabFacts
<1>5. CASE StartExposure  BY <1>1, <1>5, StartFacts
<1>6. CASE CalibrationStatus \/ SendStatus \/ DrainStatus \/ WheelStatus
  BY <1>1, <1>6, StatusFacts
<1>7. CASE PrintLine
  <2>1. CASE dev'.got = dev.got /\ dev'.film = dev.film  BY <1>1, <2>1
  <2>2. CASE Ran(AcceptsPrint(dev), AfterPrint(dev, Color, line_y))
    <3>1. dev.got = SentRows
      BY <1>7, <2>2, PrintFacts DEF LaidInv, AcceptsPrint, Body
    <3>2. dev'.film = dev.film
          /\ (dev'.got = dev.got
              \/ dev'.got = [SentRows EXCEPT ![Color] = Append(@, line_y)])
      BY <2>2, <3>1 DEF TypeOK, Devices, Recorders
    <3> QED  BY <3>1, <3>2, SentInOrder DEF LinesInOrder
  <2> QED  BY <1>7, <2>1, <2>2, PrintFacts
<1>8. CASE Terminate  BY <1>1, <1>2, <1>8, TerminateFacts
<1>9. CASE StopPrint  BY <1>1, <1>9, StopFacts
<1>10. CASE TerminateStopped  BY <1>1, <1>2, <1>10, TerminateStoppedFacts
<1>11. CASE Quiet  BY <1>1, <1>11, QuietFacts
<1>12. CASE Ambient  BY <1>1, <1>12, AmbientFacts
<1> QED
  BY <1>3, <1>4, <1>5, <1>6, <1>7, <1>8, <1>9, <1>10, <1>11, <1>12, NextCases

-----------------------------------------------------------------------------
LEMMA CalibratedFields ==
  ASSUME TypeOK
  PROVE  /\ [dev EXCEPT !.attention = FALSE].calibrated = dev.calibrated
         /\ AfterModeSelect(dev, JobMode).calibrated = dev.calibrated
         /\ \A c \in Colors :
              AfterSetColorTab(dev, c).calibrated = dev.calibrated
         /\ AfterPrint(dev, Color, line_y).calibrated = dev.calibrated
         /\ AfterStop(dev).calibrated = dev.calibrated
         /\ Calibrated(dev).calibrated
         /\ Drained(dev).calibrated = dev.calibrated
<1> USE DEF TypeOK, Devices, Recorders
<1>1. /\ [dev EXCEPT !.attention = FALSE].calibrated = dev.calibrated
      /\ AfterModeSelect(dev, JobMode).calibrated = dev.calibrated
      /\ \A c \in Colors :
           AfterSetColorTab(dev, c).calibrated = dev.calibrated
  BY DEF AfterModeSelect, AfterSetColorTab
<1>2. /\ AfterPrint(dev, Color, line_y).calibrated = dev.calibrated
      /\ AfterStop(dev).calibrated = dev.calibrated
  BY DEF AfterPrint, AfterStop
<1>3. /\ Calibrated(dev).calibrated
      /\ Drained(dev).calibrated = dev.calibrated
  BY DEF Calibrated, Drained
<1> QED  BY <1>1, <1>2, <1>3

(* A line follows the wait for the calibration.                            *)
LEMMA WaitStep ==
  ASSUME TypeOK, LoopInv, PhaseInv, WaitInv, [Next]_vars
  PROVE  WaitInv'
<1> USE CheckPlaces, NumberFacts, DeviceFields, CalibratedFields
        DEF Setup, Calibrating, Sending, Turning, Body, Ends, Fails, Tried,
            Ran, Refused, loop, hist
<1> DEFINE Sure == {"chk_calibrated", "print", "terminate"} \cup Sending
                   \cup Turning
           Dark(got) == \A c \in Colors : got[c] = << >>
<1>1. /\ ~Dark(dev.got) /\ ~job.noCal =>
           /\ waited > CALIBRATION_MIN_S
           /\ dev.calibrated \/ waited = CALIBRATION_WAIT_S
      /\ pc \in Sure /\ ~job.noCal =>
           /\ waited > CALIBRATION_MIN_S
           /\ dev.phase = "exposing" => dev.calibrated \/ waited = CALIBRATION_WAIT_S
      /\ pc = "chk_settled" => job.noCal
  BY DEF WaitInv, SettledOrTimedOut
<1>2. SUFFICES /\ ~Dark(dev'.got) /\ ~job'.noCal =>
                    /\ waited' > CALIBRATION_MIN_S
                    /\ dev'.calibrated \/ waited' = CALIBRATION_WAIT_S
               /\ pc' \in Sure /\ ~job'.noCal =>
                    /\ waited' > CALIBRATION_MIN_S
                    /\ dev'.phase = "exposing" =>
                         dev'.calibrated \/ waited' = CALIBRATION_WAIT_S
               /\ pc' = "chk_settled" => job'.noCal
  BY DEF WaitInv, SettledOrTimedOut
<1>3. Dark(Blank)  BY DEF Blank
<1>4. CASE ModeSelect \/ SetColorTab
  <2>1. pc = "tabs" => i \in Colors  BY DEF LoopInv
  <2>2. dev'.got = dev.got /\ dev'.calibrated = dev.calibrated
        /\ UNCHANGED <<job, waited>>
    BY <1>4, <2>1, ModeSelectFacts, SetColorTabFacts
  <2>3. pc' \in {"err_stop", "exc_stop", "quit_emit", "chk_tabs", "tabs", "chk_start"}
    BY <1>4, ModeSelectFacts, SetColorTabFacts
  <2> QED  BY <1>1, <2>2, <2>3
<1>5. CASE StartExposure
  <2>1. \/ dev'.got = Blank
        \/ /\ dev'.got = dev.got /\ dev'.calibrated = dev.calibrated
           /\ UNCHANGED waited
    BY <1>5, StartFacts
  <2>2. /\ pc' \in {"err_stop", "exc_stop", "quit_emit", "chk_settled", "chk_cal"}
        /\ UNCHANGED job /\ (pc' = "chk_settled" => job.noCal)
    BY <1>5, StartFacts
  <2> QED  BY <1>1, <1>3, <2>1, <2>2
<1>6. CASE CalibrationStatus
  <2>1. dev'.got = dev.got /\ dev'.calibrated = dev.calibrated
        /\ dev'.phase = dev.phase
    BY <1>6, StatusFacts
  <2>2. UNCHANGED job /\ waited \in 0..CALIBRATION_WAIT_S
        /\ waited' \in 0..CALIBRATION_WAIT_S
    BY <1>6, CalibrationFacts, LoopStep DEF TypeOK
  <2>3. \/ Fails /\ UNCHANGED waited
        \/ /\ pc' = "chk_calibrated" /\ UNCHANGED waited
           /\ waited > CALIBRATION_MIN_S
           /\ \/ waited = CALIBRATION_WAIT_S
              \/ dev.phase = "exposing" /\ dev.calibrated
        \/ pc' = "chk_cal" /\ waited' = waited + 1
    BY <1>6, CalibrationFacts
  <2> QED  BY SMTT(20), <1>1, <2>1, <2>2, <2>3
<1>7. CASE SendStatus \/ DrainStatus \/ WheelStatus
  <2>1. dev'.got = dev.got /\ dev'.calibrated = dev.calibrated
        /\ dev'.phase = dev.phase
    BY <1>7, StatusFacts
  <2>2. UNCHANGED <<job, waited>> /\ pc \in Sure /\ pc' # "chk_settled"
    BY <1>7, SendFacts, DrainFacts, WheelFacts
  <2> QED  BY <1>1, <2>1, <2>2
<1>8. CASE PrintLine
  <2>1. UNCHANGED <<job, waited>> /\ pc = "print" /\ pc' # "chk_settled"
    BY <1>8, PrintFacts
  <2>2. dev'.phase = dev.phase /\ dev'.calibrated = dev.calibrated
        /\ (dev'.got = dev.got \/ dev.phase = "exposing")
    BY <1>8, PrintFacts DEF AcceptsPrint
  <2> QED  BY <1>1, <2>1, <2>2
<1>9. CASE Terminate \/ StopPrint \/ TerminateStopped
  <2>1. \/ dev'.got = Blank
        \/ dev'.got = dev.got /\ dev'.calibrated = dev.calibrated
    BY <1>9, TerminateFacts, StopFacts, TerminateStoppedFacts
  <2>2. UNCHANGED <<job, waited>> /\ pc' \notin Sure /\ pc' # "chk_settled"
    BY <1>9, TerminateFacts, StopFacts, TerminateStoppedFacts
  <2> QED  BY <1>1, <1>3, <2>1, <2>2
<1>10. CASE Quiet
  <2>1. UNCHANGED <<dev, job, waited>>  BY <1>10, QuietFacts
  <2>2. /\ pc' = "chk_settled" => pc = "chk_settled"
        /\ pc' \in Sure => pc \in Sure \cup {"chk_settled"}
    BY <1>10, QuietFacts, CheckFacts
  <2> QED  BY <1>1, <2>1, <2>2
<1>11. CASE Ambient
  <2>1. UNCHANGED <<pc, job, waited>>  BY <1>11, AmbientFacts
  <2>2. \/ /\ dev'.got = dev.got /\ dev'.phase = dev.phase
           /\ dev'.calibrated = dev.calibrated \/ dev'.calibrated
        \/ dev'.got = Blank /\ dev'.phase = "idle"
    BY <1>11, AmbientFacts
  <2> QED  BY <1>1, <1>3, <2>1, <2>2
<1> QED
  BY <1>4, <1>5, <1>6, <1>7, <1>8, <1>9, <1>10, <1>11, NextCases

-----------------------------------------------------------------------------
(* A clean-up that was not lost leaves the recorder idle.                  *)
LEMMA CleanStep ==
  ASSUME TypeOK, LoopInv, PhaseInv, CleanInv, [Next]_vars
  PROVE  CleanInv'
<1> USE CheckPlaces, DeviceFields DEF Fails, Tried, Ran, Refused, loop, hist
<1> DEFINE Ended == {"complete", "abort_emit", "err_emit", "returned"}
<1>1. CASE ModeSelect \/ SetColorTab \/ StartExposure \/ CalibrationStatus
           \/ SendStatus \/ DrainStatus \/ PrintLine \/ WheelStatus
  <2>1. pc' \notin Ended
    BY <1>1, ModeSelectFacts, SetColorTabFacts, StartFacts, CalibrationFacts,
       SendFacts, DrainFacts, PrintFacts, WheelFacts
  <2> QED  BY <2>1 DEF CleanInv
<1>2. CASE Terminate
  BY <1>2, TerminateFacts DEF CleanInv
<1>3. CASE StopPrint
  <2>1. pc' \notin Ended \/ unclean'  BY <1>3, StopFacts
  <2> QED  BY <2>1 DEF CleanInv
<1>4. CASE TerminateStopped
  BY <1>4, TerminateStoppedFacts DEF CleanInv
<1>5. CASE Quiet
  <2>1. dev' = dev /\ unclean' = unclean /\ (quit => quit')
    BY <1>5, QuietFacts
  <2>2. pc' \in Ended => pc \in Ended \/ quit'
    BY <1>5, QuietFacts, CheckFacts
  <2> QED  BY <2>1, <2>2 DEF CleanInv
<1>6. CASE Ambient
  <2>1. UNCHANGED <<pc, unclean, quit>>
        /\ (dev'.phase = dev.phase \/ dev'.phase = "idle")
    BY <1>6, AmbientFacts
  <2> QED  BY <2>1 DEF CleanInv
<1> QED  BY <1>1, <1>2, <1>3, <1>4, <1>5, <1>6, NextCases

(* What the listener is told, and when.                                    *)
LEMMA ToldStep ==
  ASSUME TypeOK, LoopInv, ToldInv, [Next]_vars
  PROVE  ToldInv'
<1> USE CheckPlaces DEF Body, Aborting, Failing, Ends, Fails, loop, hist
<1>1. \/ pc # "quit_emit" /\ pc' = "quit_emit"
         /\ job.listens /\ "aborted" \in CallbackFaults
      \/ pc = "quit_emit" \/ pc' # "quit_emit"
  BY QuitFacts
<1>2. CASE ModeSelect \/ SetColorTab \/ StartExposure \/ CalibrationStatus
           \/ SendStatus \/ DrainStatus \/ PrintLine \/ WheelStatus
           \/ Terminate
  <2>1. UNCHANGED <<verdicts, job>> /\ pc \in Body
        /\ pc' \in Body \cup Failing \cup {"quit_emit"}
    BY <1>2, ModeSelectFacts, SetColorTabFacts, StartFacts, CalibrationFacts,
       SendFacts, DrainFacts, PrintFacts, WheelFacts, TerminateFacts
  <2> QED  BY <1>1, <2>1 DEF ToldInv
<1>3. CASE StopPrint
  <2>1. UNCHANGED <<verdicts, job>>  BY <1>3, StopFacts
  <2>2. \/ pc \in Aborting /\ pc' \in Aborting \cup Failing
        \/ pc \in Failing /\ pc' \in Failing \cup {"raised"}
    BY <1>3, StopFacts
  <2> QED  BY <2>1, <2>2 DEF ToldInv, Verdicts
<1>4. CASE TerminateStopped
  <2>1. UNCHANGED <<verdicts, job>>  BY <1>4, TerminateStoppedFacts
  <2>2. \/ pc \in Aborting /\ pc' \in Aborting \cup Failing
        \/ pc \in Failing /\ pc' \in Failing \cup {"raised"}
    BY <1>4, TerminateStoppedFacts
  <2> QED  BY <2>1, <2>2 DEF ToldInv, Verdicts
<1>5. CASE Quiet
  <2>0. UNCHANGED job  BY <1>5, QuietFacts
  <2>1. CASE UNCHANGED <<pc, verdicts>>
    BY <2>0, <2>1 DEF ToldInv
  <2>2. CASE pc \in CheckPoints \cup {"wheel"} /\ UNCHANGED verdicts
    <3>1. pc' \in Body \cup {"abort_stop", "err_stop", "exc_stop", "quit_emit"}
      BY <1>5, <2>2, QuietFacts, CheckFacts
    <3> QED  BY <1>1, <2>0, <2>2, <3>1 DEF ToldInv
  <2>3. CASE /\ pc = "complete" /\ Deliver("complete")
             /\ \/ /\ pc' \in {"err_stop", "exc_stop"} /\ job.listens
                   /\ CallbackFaults \cap Errors # {}
                \/ /\ pc' = "quit_emit" /\ job.listens
                   /\ "aborted" \in CallbackFaults
                \/ pc' = "returned"
    <3>1. verdicts = << >>  BY <2>3 DEF ToldInv
    <3>2. verdicts' = IF job.listens THEN <<"complete">> ELSE << >>
      BY <2>3, <3>1 DEF Deliver
    <3> QED  BY <2>0, <2>3, <3>2 DEF ToldInv, Verdicts
  <2>4. CASE /\ pc \in {"abort_emit", "quit_emit"} /\ Deliver("aborted")
             /\ pc' = "raised" \/ pc' = "returned"
    <3>1. CASE verdicts = << >>
      <4>1. verdicts' = IF job.listens THEN <<"aborted">> ELSE << >>
        BY <2>4, <3>1 DEF Deliver
      <4> QED  BY <2>0, <2>4, <4>1 DEF ToldInv, Verdicts
    <3>2. CASE /\ verdicts = <<"complete">> /\ job.listens
               /\ "aborted" \in CallbackFaults
      <4>1. verdicts' = <<"complete", "aborted">>
        <5>1. Append(<<"complete">>, "aborted") = <<"complete", "aborted">>
          <6>1. "complete" \in Verdicts /\ "aborted" \in Verdicts
            BY DEF Verdicts
          <6> QED  BY ONLY <6>1, AppendPair
        <5>2. verdicts' = Append(verdicts, "aborted")
          BY <2>4, <3>2 DEF Deliver
        <5> QED  BY <3>2, <5>1, <5>2
      <4> QED  BY <2>0, <2>4, <3>2, <4>1 DEF ToldInv, Verdicts
    <3> QED  BY <2>4, <3>1, <3>2 DEF ToldInv
  <2>5. CASE /\ pc \in {"err_emit", "exc_emit"} /\ Deliver("error")
             /\ pc' \in Ends
    <3>1. CASE verdicts = << >>
      <4>1. verdicts' = IF job.listens THEN <<"error">> ELSE << >>
        BY <2>5, <3>1 DEF Deliver
      <4> QED  BY <2>0, <2>5, <4>1 DEF ToldInv, Verdicts
    <3>2. CASE verdicts = <<"complete">> /\ CallbackFaults \cap Errors # {}
      <4>1. verdicts' = IF job.listens THEN <<"complete", "error">>
                                       ELSE <<"complete">>
        <5>1. Append(<<"complete">>, "error") = <<"complete", "error">>
          <6>1. "complete" \in Verdicts /\ "error" \in Verdicts
            BY DEF Verdicts
          <6> QED  BY ONLY <6>1, AppendPair
        <5>2. verdicts' = IF job.listens THEN Append(verdicts, "error")
                                         ELSE verdicts
          BY <2>5 DEF Deliver
        <5> QED  BY <3>2, <5>1, <5>2
      <4> QED  BY <2>0, <2>5, <3>2, <4>1 DEF ToldInv, Verdicts
    <3> QED  BY <2>5, <3>1, <3>2 DEF ToldInv
  <2> QED  BY <1>5, <2>1, <2>2, <2>3, <2>4, <2>5, QuietFacts
<1>6. CASE Ambient
  <2>1. UNCHANGED <<pc, verdicts, job>>  BY <1>6, AmbientFacts
  <2> QED  BY <2>1 DEF ToldInv
<1> QED  BY <1>2, <1>3, <1>4, <1>5, <1>6, NextCases

LEMMA HasFacts ==
  /\ verdicts = << >> => ~Has("complete") /\ ~Has("aborted")
  /\ \A v \in Verdicts : verdicts = <<v>> =>
       (Has("complete") => v = "complete") /\ (Has("aborted") => v = "aborted")
  /\ verdicts = <<"complete", "error">> => ~Has("aborted")
  BY DEF Has, Verdicts

(* ... of a frame on film.                                                 *)
LEMMA FilmStep ==
  ASSUME TypeOK, LoopInv, PhaseInv, LaidInv, ToldInv, FilmInv, [Next]_vars
  PROVE  FilmInv'
<1> USE CheckPlaces, DeviceFields
        DEF Setup, Calibrating, Sending, Turning, Body, Aborting, Failing,
            Ends, Fails, Tried, Ran, Refused, loop, hist
<1>0. PhaseInv' /\ ToldInv'  BY PhaseStep, ToldStep
<1> DEFINE Unfinished == \A n \in 1..Len(dev.film) : dev.film[n] # Whole
<1>1. ASSUME UNCHANGED job
      PROVE  Whole' = Whole
  BY <1>1 DEF Whole, JobColors
<1>2. CASE ModeSelect \/ SetColorTab \/ StartExposure \/ CalibrationStatus
           \/ SendStatus \/ DrainStatus \/ PrintLine \/ WheelStatus
  <2>1. UNCHANGED verdicts /\ pc \in Body /\ pc' \notin Aborting
        /\ pc' # "complete"
    BY <1>2, ModeSelectFacts, SetColorTabFacts, StartFacts, CalibrationFacts,
       SendFacts, DrainFacts, PrintFacts, WheelFacts
  <2>2. ~Has("complete")' /\ ~Has("aborted")'
    BY <2>1, HasFacts DEF ToldInv, Has
  <2>3. dev'.film = << >>
    <3>1. pc = "tabs" => i \in Colors  BY DEF LoopInv
    <3>2. dev.film = << >>
      BY <1>2, ModeSelectFacts, SetColorTabFacts, StartFacts, CalibrationFacts,
         SendFacts, DrainFacts, PrintFacts, WheelFacts DEF PhaseInv
    <3>3. dev'.film = dev.film
      BY <1>2, <3>1, StatusFacts, ModeSelectFacts, SetColorTabFacts, StartFacts,
         PrintFacts
    <3> QED  BY <3>2, <3>3
  <2> QED
    BY <2>1, <2>2, <2>3
       DEF FilmInv, CompleteMeansWholeFrame, AbortedMeansUnfinished
<1>3. CASE Terminate
  <2>1. UNCHANGED <<verdicts, job>> /\ pc = "terminate" /\ pc' \notin Aborting
        /\ (pc' = "quit_emit" => dev' = dev) /\ dev.film = << >>
    BY <1>3, QuitFacts, TerminateFacts DEF PhaseInv
  <2>2. ~Has("complete")' /\ ~Has("aborted")'
    BY <2>1, HasFacts DEF ToldInv, Has
  <2>3. pc' = "complete" => dev'.film = <<Whole>>
    <3>1. SUFFICES ASSUME pc' = "complete"
                   PROVE  dev'.film = <<Whole>>
      OBVIOUS
    <3>2. dev' = AfterTerminate(dev) /\ AcceptsTerminate(dev)
      BY <1>3, <3>1, TerminateFacts
    <3>3. dev.phase = "exposing" /\ dev.film = << >>
      BY <2>1, <3>2 DEF PhaseInv, AcceptsTerminate, TypeOK, Devices, Recorders,
                        Phases
    <3>4. dev.got = SentRows  BY <2>1, <3>3 DEF LaidInv
    <3>5. SentRows = Whole  BY <2>1, SentAll DEF LoopInv
    <3> QED  BY <3>2, <3>3, <3>4, <3>5
  <2> QED
    BY <1>1, <2>1, <2>2, <2>3
       DEF FilmInv, CompleteMeansWholeFrame, AbortedMeansUnfinished
<1>4. CASE StopPrint
  <2>1. UNCHANGED <<verdicts, job>> /\ pc' \notin {"complete", "quit_emit"}
        /\ (pc' \in Aborting => pc \in Aborting)
        /\ pc \in {"abort_stop", "err_stop", "exc_stop"}
    BY <1>4, StopFacts
  <2>2. dev'.film = dev.film /\ dev'.got = dev.got
        /\ (dev'.phase # "idle" => dev.phase # "idle")
    BY <1>4, StopFacts
  <2> QED
    BY <1>1, <2>1, <2>2
       DEF FilmInv, CompleteMeansWholeFrame, AbortedMeansUnfinished, Has
<1>5. CASE TerminateStopped
  <2>1. UNCHANGED <<verdicts, job>> /\ pc' \notin {"complete", "quit_emit"}
        /\ (pc' \in Aborting => pc = "abort_term")
        /\ pc \in {"abort_term", "err_term"}
    BY <1>5, TerminateStoppedFacts
  <2>2. \/ dev'.film = dev.film /\ dev'.got = dev.got /\ dev'.phase = dev.phase
        \/ /\ dev'.film = Append(dev.film, dev.got) /\ dev'.phase = "idle"
           /\ dev.phase # "idle"
    BY <1>5, TerminateStoppedFacts DEF AcceptsTerminate
  <2>3. CASE dev'.film = dev.film /\ dev'.got = dev.got /\ dev'.phase = dev.phase
    BY <1>1, <2>1, <2>3
       DEF FilmInv, CompleteMeansWholeFrame, AbortedMeansUnfinished, Has
  <2>4. CASE /\ dev'.film = Append(dev.film, dev.got) /\ dev'.phase = "idle"
             /\ dev.phase # "idle"
    <3>1. dev.film = << >> /\ dev'.film = <<dev.got>>
      <4>1. dev.film = << >>  BY <2>4 DEF PhaseInv
      <4>2. Append(<< >>, dev.got) = <<dev.got>>  OBVIOUS
      <4> QED  BY <2>4, <4>1, <4>2
    <3>2. pc = "abort_term" => dev.got # Whole  BY <2>4 DEF FilmInv
    <3>3. ~Has("complete")' /\ ~Has("aborted")'
      <4>1. ~Has("complete")
        BY <3>1 DEF FilmInv, CompleteMeansWholeFrame
      <4>2. ~Has("aborted")  BY <2>1, HasFacts DEF ToldInv, Verdicts
      <4> QED  BY <2>1, <4>1, <4>2 DEF Has
    <3> QED
      BY <1>1, <2>1, <2>4, <3>1, <3>2, <3>3
         DEF FilmInv, CompleteMeansWholeFrame, AbortedMeansUnfinished
  <2> QED  BY <2>2, <2>3, <2>4
<1>6. CASE Quiet
  <2>0. UNCHANGED <<job, dev>>  BY <1>6, QuietFacts
  <2>1. CASE UNCHANGED <<pc, verdicts>>
    BY <1>1, <2>0, <2>1
       DEF FilmInv, CompleteMeansWholeFrame, AbortedMeansUnfinished, Has
  <2>2. CASE pc \in CheckPoints /\ UNCHANGED verdicts /\ pc' = "abort_stop"
    <3>1. dev.film = << >>  BY <2>2 DEF PhaseInv
    <3>2. dev.phase # "idle" => dev.got # Whole
      <4>1. SUFFICES ASSUME dev.phase # "idle"  PROVE  dev.got # Whole
        OBVIOUS
      <4>2. dev.phase = "exposing"
        BY <2>2, <4>1 DEF PhaseInv, TypeOK, Devices, Recorders, Phases
      <4>3. dev.got = SentRows  BY <2>2, <4>2 DEF LaidInv
      <4>4. line_y < Height \/ MorePasses
        BY <2>2, <4>1, NumberFacts DEF PhaseInv, LoopInv
      <4> QED  BY <4>3, <4>4, SentPart
    <3>3. ~Has("complete")' /\ ~Has("aborted")'
      BY <2>2, HasFacts DEF ToldInv, Has
    <3> QED
      BY <1>1, <2>0, <2>2, <3>1, <3>2, <3>3
         DEF FilmInv, CompleteMeansWholeFrame, AbortedMeansUnfinished
  <2>3. CASE pc \in CheckPoints \cup {"wheel"} /\ UNCHANGED verdicts
             /\ pc' # "abort_stop"
    <3>1. pc' \in (Body \cup Failing \cup {"quit_emit"}) \ {"complete"}
      BY <1>6, <2>3, QuietFacts, CheckFacts
    <3>2. ~Has("complete")' /\ ~Has("aborted")'
      BY <2>3, HasFacts DEF ToldInv, Has
    <3>3. dev'.film = << >>  BY <2>0, <2>3 DEF PhaseInv
    <3> QED
      BY <3>1, <3>2, <3>3
         DEF FilmInv, CompleteMeansWholeFrame, AbortedMeansUnfinished
  <2>4. CASE /\ pc = "complete" /\ Deliver("complete")
             /\ \/ pc' \in {"err_stop", "exc_stop", "returned"}
                \/ pc' = "quit_emit" /\ job.listens
    <3>1. dev.film = <<Whole>> /\ verdicts = << >>
      BY <2>4 DEF FilmInv, ToldInv
    <3>2. ~Has("aborted")'
      BY <2>4, <3>1 DEF Deliver, Has
    <3>3. pc' = "quit_emit" => verdicts' # << >>
      BY <2>4, <3>1 DEF Deliver
    <3> QED
      BY <1>1, <2>0, <2>4, <3>1, <3>2, <3>3
         DEF FilmInv, CompleteMeansWholeFrame, AbortedMeansUnfinished
  <2>5. CASE /\ pc \in {"abort_emit", "quit_emit"} /\ Deliver("aborted")
             /\ pc' \in Ends
    <3>1. CASE verdicts = << >>
      <4>1. \A n \in 1..Len(dev.film) : dev.film[n] # Whole
        <5>1. dev.film = << >> => 1..Len(dev.film) = {}  OBVIOUS
        <5> QED  BY <2>5, <3>1, <5>1 DEF FilmInv
      <4>2. ~Has("complete")'
        BY <2>5, <3>1 DEF Deliver, Has
      <4> QED
        BY <1>1, <2>0, <2>5, <4>1, <4>2
           DEF FilmInv, CompleteMeansWholeFrame, AbortedMeansUnfinished
    <3>2. CASE verdicts = <<"complete">>
      <4>1. Has("complete")  BY <3>2 DEF Has
      <4>2. dev.film = <<Whole>>
        BY <4>1 DEF FilmInv, CompleteMeansWholeFrame
      <4>3. verdicts' = <<"complete", "aborted">>
        <5>1. pc = "quit_emit" /\ job.listens
          BY <2>5, <3>2 DEF ToldInv
        <5>2. Append(<<"complete">>, "aborted") = <<"complete", "aborted">>
          <6>1. "complete" \in Verdicts /\ "aborted" \in Verdicts
            BY DEF Verdicts
          <6> QED  BY ONLY <6>1, AppendPair
        <5> QED  BY <2>5, <3>2, <5>1, <5>2 DEF Deliver
      <4> QED
        BY <1>1, <2>0, <2>5, <4>2, <4>3
           DEF FilmInv, CompleteMeansWholeFrame, AbortedMeansUnfinished
    <3> QED  BY <2>5, <3>1, <3>2 DEF ToldInv
  <2>6. CASE pc \in {"err_emit", "exc_emit"} /\ Deliver("error") /\ pc' \in Ends
    <3>1. verdicts = << >> \/ verdicts = <<"complete">>
      BY <2>6 DEF ToldInv
    <3>2. ~Has("aborted")'
      BY <2>6, <3>1 DEF Deliver, Has
    <3>3. Has("complete")' => Has("complete")
      BY <2>6, <3>1 DEF Deliver, Has
    <3> QED
      BY <1>1, <2>0, <2>6, <3>2, <3>3
         DEF FilmInv, CompleteMeansWholeFrame, AbortedMeansUnfinished
  <2> QED  BY <1>6, <2>1, <2>2, <2>3, <2>4, <2>5, <2>6, QuietFacts
<1>7. CASE Ambient
  <2>1. UNCHANGED <<pc, verdicts, job>> /\ dev'.film = dev.film
        /\ \/ dev'.phase = "idle"
           \/ dev'.phase = dev.phase /\ dev'.got = dev.got
    BY <1>7, AmbientFacts
  <2> QED
    BY <1>1, <2>1
       DEF FilmInv, CompleteMeansWholeFrame, AbortedMeansUnfinished, Has
<1> QED  BY <1>2, <1>3, <1>4, <1>5, <1>6, <1>7, NextCases

-----------------------------------------------------------------------------
(* Lifting the steps to behaviours.                                        *)
LEMMA Initially == Init => IInv
<1> SUFFICES ASSUME Init  PROVE  IInv
  OBVIOUS
<1> USE NumberFacts DEF Init, Ready
<1>0. 1 \in 1..Len(job.channels)
  <2>1. CASE job.channels = <<RED, GREEN, BLUE>>  BY <2>1
  <2>2. CASE \E c \in Colors : job.channels = <<c>>  BY <2>2
  <2> QED  BY <2>1, <2>2 DEF Jobs, Channels
<1>1. TypeOK
  <2>1. Ready \in Devices
    <3>1. Blank \in [Colors -> Seq(Nat)]  BY DEF Blank
    <3>2. BufferKB \in 0..BufferKB  OBVIOUS
    <3> QED  BY <3>1, <3>2 DEF Devices, Recorders, Phases
  <2>2. verdicts \in Seq(Verdicts)  OBVIOUS
  <2>3. 0 \in 0..Height /\ 0 \in 0..CALIBRATION_WAIT_S /\ 0 \in 0..MaxPowerCycles
    OBVIOUS
  <2>4. pc \in Body  BY DEF Body
  <2> QED  BY <1>0, <2>1, <2>2, <2>3, <2>4 DEF TypeOK
<1>2. LoopInv
  BY DEF LoopInv, Setup, Calibrating, Sending, Turning
<1>3. PhaseInv
  BY DEF PhaseInv, Setup, Body
<1>4. SettingsInv
  BY DEF SettingsInv, OwnSettings
<1>5. LaidInv /\ RoomInv /\ LateInv /\ CleanInv
  BY DEF LaidInv, RoomInv, LateInv, CleanInv, AbortBound
<1>6. LinesInOrder
  BY <1>1, SentInOrder DEF LinesInOrder
<1>7. WaitInv
  BY DEF WaitInv, SettledOrTimedOut, Blank, Sending, Turning
<1>8. ToldInv /\ FilmInv
  BY HasFacts DEF ToldInv, FilmInv, CompleteMeansWholeFrame,
                  AbortedMeansUnfinished, Body, Aborting, Failing, Ends
<1> QED  BY <1>1, <1>2, <1>3, <1>4, <1>5, <1>6, <1>7, <1>8 DEF IInv

(* The inductive invariant holds throughout.                               *)
THEOREM Invariance == Spec => []IInv
<1>1. IInv /\ [Next]_vars => IInv'
  <2> SUFFICES ASSUME IInv, [Next]_vars  PROVE  IInv'
    OBVIOUS
  <2>1. TypeOK' /\ LoopInv'  BY LoopStep DEF IInv
  <2>2. PhaseInv' /\ SettingsInv'  BY PhaseStep, SettingsStep DEF IInv
  <2>3. RoomInv' /\ LateInv'  BY RoomStep, LateStep DEF IInv
  <2>4. LaidInv' /\ LinesInOrder'  BY LaidStep, OrderStep DEF IInv
  <2>5. WaitInv' /\ CleanInv'  BY WaitStep, CleanStep DEF IInv
  <2>6. ToldInv' /\ FilmInv'  BY ToldStep, FilmStep DEF IInv
  <2> QED  BY <2>1, <2>2, <2>3, <2>4, <2>5, <2>6 DEF IInv
<1> QED  BY <1>1, Initially, PTL DEF Spec

(* Every variable keeps its type: the loop counters never leave the arrays *)
(* they index, whatever fails.                                             *)
THEOREM TypeCorrect == Spec => []TypeOK
<1>1. IInv => TypeOK  BY DEF IInv
<1> QED  BY <1>1, Invariance, PTL

(* Flow control: no scanline is dropped for want of buffer space.          *)
THEOREM FlowControl == Spec => []RoomForLine
<1>1. IInv => RoomForLine
  <2> SUFFICES ASSUME IInv, pc = "print"  PROVE  dev.free >= LineKB
    BY DEF RoomForLine
  <2>1. y =< line_y /\ line_y < Burst  BY DEF IInv, LoopInv
  <2>2. y \in Nat /\ line_y \in Nat /\ dev.free \in Nat
    BY DEF IInv, TypeOK, Devices, Recorders
  <2>3. dev.free >= (Burst - line_y) * LineKB  BY DEF IInv, RoomInv
  <2>4. Burst - line_y \in 1..BURST_SIZE
    BY <2>1, <2>2, NumberFacts DEF Burst
  <2> DEFINE n == Burst - line_y
  <2>5. n * LineKB \in Nat /\ LineKB =< n * LineKB  BY <2>4, RoomFacts
  <2>6. dev.free >= n * LineKB  BY <2>3
  <2> HIDE DEF n
  <2> QED  BY <2>2, <2>5, <2>6
<1> QED  BY <1>1, Invariance, PTL

(* Scanlines arrive from the top of each channel, each once.               *)
THEOREM InOrderTheorem == Spec => []LinesInOrder
<1>1. IInv => LinesInOrder  BY DEF IInv
<1> QED  BY <1>1, Invariance, PTL

(* "complete" is told of whole frames only.                                *)
THEOREM CompleteVerdict == Spec => []CompleteMeansWholeFrame
<1>1. IInv => CompleteMeansWholeFrame  BY DEF IInv, FilmInv
<1> QED  BY <1>1, Invariance, PTL

(* "aborted" is told of unfinished frames only, but for a listener that    *)
(* made up an ExposureAbortedError of its own on "complete".               *)
THEOREM AbortVerdict == Spec => []AbortedMeansUnfinished
<1>1. IInv => AbortedMeansUnfinished  BY DEF IInv, FilmInv
<1> QED  BY <1>1, Invariance, PTL

(* At most one burst goes out after an abort request.                      *)
THEOREM AbortIsPrompt == Spec => []AbortBound
<1>1. IInv => AbortBound  BY DEF IInv, LateInv
<1> QED  BY <1>1, Invariance, PTL

(* A call that returns leaves the recorder idle, clean-up permitting and   *)
(* the listener not claiming the clean-up was done.                        *)
THEOREM Clean == Spec => []CleanReturn
<1>1. IInv => CleanReturn  BY DEF IInv, CleanInv, CleanReturn
<1> QED  BY <1>1, Invariance, PTL

(* A frame is exposed with this call's settings.                           *)
THEOREM SettingsTheorem == Spec => []OwnSettings
<1>1. IInv => OwnSettings  BY DEF IInv, SettingsInv
<1> QED  BY <1>1, Invariance, PTL

(* No line goes out before the wait for the calibration.                   *)
THEOREM Settled == Spec => []SettledOrTimedOut
<1>1. IInv => SettledOrTimedOut  BY DEF IInv, WaitInv
<1> QED  BY <1>1, Invariance, PTL

(* The listener of a call that returns is told how it ended, and twice     *)
(* only if it raised on "complete".                                        *)
THEOREM VerdictTheorem == Spec => []VerdictTold
<1>1. IInv => VerdictTold
  <2> SUFFICES ASSUME IInv  PROVE  VerdictTold
    OBVIOUS
  <2>1. pc \in Body \cup Aborting \cup Failing \cup {"quit_emit"} \cup Ends
    BY DEF IInv, TypeOK, Handlers, Aborting, Failing
  <2>2. ToldInv  BY DEF IInv
  <2>3. Len(<< >>) = 0 /\ \A v \in Verdicts : Len(<<v>>) = 1 /\ <<v>> # << >>
    OBVIOUS
  <2>4. /\ <<"complete", "error">> # << >>
        /\ <<"complete", "aborted">> # << >>
    OBVIOUS
  <2>5. CASE pc \in Body \cup Aborting
    BY <2>2, <2>3, <2>5 DEF ToldInv, VerdictTold, Body, CheckPoints,
                            AfterCheck, Aborting
  <2>6. CASE pc \in Failing \cup {"quit_emit"}
    <3>1. pc # "returned"  BY <2>6 DEF Failing
    <3>2. verdicts = << >> \/ verdicts = <<"complete">>
      BY <2>2, <2>6 DEF ToldInv
    <3>3. Len(verdicts) =< 1
      <4>1. CASE verdicts = << >>  BY ONLY <4>1
      <4>2. CASE verdicts = <<"complete">>  BY ONLY <4>2
      <4> QED  BY ONLY <3>2, <4>1, <4>2
    <3> QED  BY <3>1, <3>3 DEF VerdictTold
  <2>7. CASE pc \in Ends
    <3>1. CASE verdicts \in {<<v>> : v \in Verdicts}
      <4>1. PICK v \in Verdicts : verdicts = <<v>>  BY <3>1
      <4>2. Len(verdicts) = 1 /\ verdicts # << >>  BY <2>3, <4>1
      <4> QED  BY <4>2 DEF VerdictTold
    <3>2. CASE verdicts = << >> /\ (job.listens => pc = "raised")
      BY <2>3, <3>2 DEF VerdictTold
    <3>3. CASE verdicts = <<"complete", "error">> /\ CallbackFaults \cap Errors # {}
      BY <2>4, <3>3 DEF VerdictTold
    <3>4. CASE verdicts = <<"complete", "aborted">> /\ "aborted" \in CallbackFaults
      BY <2>4, <3>4 DEF VerdictTold
    <3> QED  BY <2>2, <2>7, <3>1, <3>2, <3>3, <3>4 DEF ToldInv
  <2> QED  BY <2>1, <2>5, <2>6, <2>7
<1> QED  BY <1>1, Invariance, PTL

-----------------------------------------------------------------------------
(* No step in vain.  The measures, place by place.                         *)
Measured(n, s, u, m) ==
  StepsAfterAbort = n /\ Stage = s /\ Units = u /\ Micro = m

PlaceFacts ==
  /\ pc \in Ends => Measured(0, 0, 0, 0)
  /\ pc \in Reports => Measured(1, 0, 1, 0)
  /\ pc \in {"err_term", "exc_stop"} => Measured(2, 0, 2, 0)
  /\ pc \in {"abort_term", "err_stop"} => Measured(3, 0, 3, 0)
  /\ pc = "abort_stop" => Measured(4, 0, 4, 0)
  /\ pc = "complete" => Measured(4, 1, 4, 0)
  /\ pc = "terminate" => Measured(5, 1, 5, 0)
  /\ pc = "wheel" => Measured(6, 2 + 2 * PassesLeft, PassPolls + 1, 0)
  /\ pc = "chk_wheel" => Measured(5, 2 + 2 * PassesLeft, PassPolls - i, 1)
  /\ pc = "wheel_status" => Measured(6, 2 + 2 * PassesLeft, PassPolls - i, 0)
  /\ pc = "print" =>
       Measured(6 + (Burst - line_y), 3 + 2 * PassesLeft, Height - y, Burst - line_y)
  /\ pc = "status" =>
       Measured(7 + BURST_SIZE, 3 + 2 * PassesLeft, Height - y,
                IF Room THEN BURST_SIZE + 1 ELSE BURST_SIZE + 5)
  /\ pc = "chk_burst" =>
       Measured(5, 3 + 2 * PassesLeft, Height - y,
                IF Room THEN BURST_SIZE + 2 ELSE BURST_SIZE + 6)
  /\ pc = "drain" => Measured(6, 3 + 2 * PassesLeft, Height - y, BURST_SIZE + 3)
  /\ pc = "chk_drain" => Measured(5, 3 + 2 * PassesLeft, Height - y, BURST_SIZE + 4)
  /\ pc \in {"chk_settled", "chk_calibrated"} => Measured(5, 4 + 2 * PassesLeft, 0, 0)
  /\ pc = "chk_cal" => Measured(5, 4 + 2 * PassesLeft, CALIBRATION_WAIT_S - i, 1)
  /\ pc = "cal_status" => Measured(6, 4 + 2 * PassesLeft, CALIBRATION_WAIT_S - i, 0)
  /\ pc = "start" => Measured(6, 5 + 2 * PassesLeft, 1, 0)
  /\ pc = "chk_start" => Measured(5, 5 + 2 * PassesLeft, 2, 0)
  /\ pc = "tabs" => Measured(6 + (BLUE - i), 5 + 2 * PassesLeft, 3 + (BLUE - i), 0)
  /\ pc = "chk_tabs" => Measured(5, 5 + 2 * PassesLeft, 6, 0)
  /\ pc = "mode" => Measured(6, 5 + 2 * PassesLeft, 7, 0)

LEMMA Places == PlaceFacts
<1> USE CheckPlaces DEF Ends, Handlers, Setup, Calibrating, Sending, Turning,
        PassesLeft, Measured, Reports
<1>1. pc \in Ends \cup Handlers \cup {"complete", "terminate"} => PlaceFacts
  BY DEF PlaceFacts, StepsAfterAbort, Stage, Units, Micro
<1>2. pc \in Turning => PlaceFacts
  BY DEF PlaceFacts, StepsAfterAbort, Stage, Units, Micro
<1>3. pc \in Sending \cup {"print"} => PlaceFacts
  BY DEF PlaceFacts, StepsAfterAbort, Stage, Units, Micro
<1>4. pc \in Calibrating => PlaceFacts
  BY DEF PlaceFacts, StepsAfterAbort, Stage, Units, Micro
<1>5. pc \in Setup => PlaceFacts
  BY DEF PlaceFacts, StepsAfterAbort, Stage, Units, Micro
<1>6. pc \notin Ends \cup Handlers \cup {"complete", "terminate"} \cup Turning
              \cup Sending \cup {"print"} \cup Calibrating \cup Setup => PlaceFacts
  BY DEF PlaceFacts
<1> QED  BY <1>1, <1>2, <1>3, <1>4, <1>5, <1>6

LEMMA PlacesNext == PlaceFacts'
BY Places, PTL

(* What the measures are made of: numbers.                                 *)
LEMMA CounterFacts ==
  ASSUME TypeOK, LoopInv
  PROVE  /\ i \in Nat /\ y \in 0..Height /\ line_y \in 0..Height
         /\ PassesLeft \in Nat /\ dev.free \in Nat
         /\ pc \in CheckPoints \cup Ends \cup Handlers
              \cup {"mode", "tabs", "start", "cal_status", "status", "drain",
                    "print", "wheel", "wheel_status", "terminate", "complete"}
         /\ MorePasses => PassesLeft >= 1
         /\ pc = "tabs" => i \in 0..2
         /\ pc \in {"chk_cal", "cal_status"} => i < CALIBRATION_WAIT_S
         /\ pc \in {"chk_wheel", "wheel_status"} => i < PassPolls
         /\ pc \in Sending \cup {"print"} => y < Height
         /\ pc = "print" => Burst - line_y \in 1..BURST_SIZE
<1>1. i \in Nat /\ y \in 0..Height /\ line_y \in 0..Height /\ dev.free \in Nat
  BY DEF TypeOK, Devices, Recorders
<1>2. Len(job.channels) \in Nat
  BY DEF TypeOK, Jobs, Channels, Colors
<1>3. PassesLeft \in Nat
  BY <1>2 DEF TypeOK, PassesLeft
<1>4. MorePasses => PassesLeft >= 1
  BY <1>2, ChannelFacts DEF TypeOK, PassesLeft
<1>5. pc \in CheckPoints \cup Ends \cup Handlers
        \cup {"mode", "tabs", "start", "cal_status", "status", "drain",
              "print", "wheel", "wheel_status", "terminate", "complete"}
  BY DEF TypeOK, Body
<1>6. pc = "print" => Burst - line_y \in 1..BURST_SIZE
  BY <1>1, NumberFacts DEF LoopInv, Burst
<1>7. /\ pc = "tabs" => i \in 0..2
      /\ pc \in {"chk_cal", "cal_status"} => i < CALIBRATION_WAIT_S
      /\ pc \in {"chk_wheel", "wheel_status"} => i < PassPolls
      /\ pc \in Sending \cup {"print"} => y < Height
  BY <1>1, NumberFacts DEF LoopInv, Colors, RED, GREEN, BLUE
<1> QED  BY <1>1, <1>3, <1>4, <1>5, <1>6, <1>7

LEMMA CountsHold ==
  ASSUME TypeOK, LoopInv
  PROVE  Counts
<1> USE CounterFacts, NumberFacts, Places DEF PlaceFacts, Measured, Counts, Reports
<1>1. CASE pc \in Ends \cup Handlers \cup {"complete", "terminate"}
  BY <1>1 DEF Handlers
<1>2. CASE pc \in Turning
  BY <1>2 DEF Turning
<1>3. CASE pc \in {"print", "status", "drain"}
  BY <1>3 DEF Sending, Room
<1>4. CASE pc \in CheckPoints
  BY <1>4, CheckPlaces DEF Sending, Room
<1>5. CASE pc \in {"mode", "tabs", "start", "cal_status"}
  BY <1>5 DEF BLUE
<1> QED  BY <1>1, <1>2, <1>3, <1>4, <1>5 DEF Turning

(* Entering a handler of errors ends the stage.                            *)
LEMMA FailsDown ==
  ASSUME TypeOK, LoopInv, Fails, pc \in Body, pc \notin CheckPoints
  PROVE  Fewer /\ StepsAfterAbort' < StepsAfterAbort
<1>1. Stage' = 0 /\ StepsAfterAbort' \in 0..3
  BY PlacesNext DEF PlaceFacts, Measured, Fails, Reports
<1>2. Stage > 0 /\ StepsAfterAbort > 3
  BY CounterFacts, NumberFacts, Places DEF PlaceFacts, Measured, Body, BLUE
<1>3. Stage \in Nat /\ StepsAfterAbort \in Nat
  BY CountsHold, NumberFacts DEF Counts
<1> QED  BY <1>1, <1>2, <1>3 DEF Fewer

(* One step of the call.  A check leads to the handler or to the command.  *)
LEMMA CheckDown ==
  ASSUME TypeOK, LoopInv, CheckAbort
  PROVE  Fewer /\ (abort => StepsAfterAbort' < StepsAfterAbort)
<1>1. pc \in CheckPoints /\ UNCHANGED <<job, pass, i, y, line_y, dev>>
      /\ pc' = IF abort THEN "abort_stop" ELSE AfterCheck[pc]
  BY DEF CheckAbort, loop
<1>2. Counts
  BY CountsHold
<1>3. CASE abort
  <2>1. Stage' = 0 /\ StepsAfterAbort' = 4
    BY <1>1, <1>3, PlacesNext DEF PlaceFacts, Measured
  <2>2. Stage > 0 /\ StepsAfterAbort = 5
    BY <1>1, CheckPlaces, CounterFacts, Places DEF PlaceFacts, Measured
  <2> QED  BY <1>2, <2>1, <2>2 DEF Fewer, Counts
<1>4. CASE ~abort
  <2> USE <1>1, <1>2, <1>4, CheckFacts, CounterFacts, NumberFacts, Places, PlacesNext
      DEF PlaceFacts, Measured, PassesLeft, Room, Fewer
  <2>1. CASE pc \in {"chk_tabs", "chk_start"}
    BY <2>1 DEF LoopInv, Setup, BLUE
  <2>2. CASE pc \in {"chk_cal", "chk_wheel"}
    BY <2>2
  <2>3. CASE pc \in {"chk_settled", "chk_calibrated"}
    BY <2>3
  <2>4. CASE pc \in {"chk_burst", "chk_drain"}
    BY <2>4
  <2> QED  BY <2>1, <2>2, <2>3, <2>4, CheckPlaces
<1> QED  BY <1>3, <1>4

LEMMA CountsHoldNext == TypeOK' /\ LoopInv' => Counts'
<1>1. TypeOK /\ LoopInv => Counts
  BY CountsHold
<1> QED  BY <1>1, PTL

LEMMA SetupDown ==
  ASSUME TypeOK, LoopInv, ModeSelect \/ SetColorTab \/ StartExposure
  PROVE  Fewer /\ StepsAfterAbort' < StepsAfterAbort
<1>1. pc \in {"mode", "tabs", "start"} /\ PassesLeft' = PassesLeft
  BY ModeSelectFacts, SetColorTabFacts, StartFacts DEF loop, PassesLeft
<1>2. \/ Fails
      \/ pc = "mode" /\ pc' = "chk_tabs"
      \/ pc = "tabs" /\ i < BLUE /\ pc' = "tabs" /\ i' = i + 1
      \/ pc = "tabs" /\ pc' = "chk_start"
      \/ pc = "start" /\ pc' = "chk_settled"
      \/ pc = "start" /\ pc' = "chk_cal"
  BY ModeSelectFacts, SetColorTabFacts, StartFacts
<1>3. CASE Fails
  BY <1>1, <1>3, FailsDown, CheckPlaces DEF Body
<1> USE <1>1, CounterFacts, Places, PlacesNext DEF PlaceFacts, Measured, Fewer, BLUE
<1>4. CASE pc = "mode" /\ pc' = "chk_tabs"
  BY <1>4
<1>5. CASE pc = "tabs" /\ i < BLUE /\ pc' = "tabs" /\ i' = i + 1
  BY <1>5
<1>6. CASE pc = "tabs" /\ pc' = "chk_start"
  BY <1>6
<1>7. CASE pc = "start" /\ pc' \in {"chk_settled", "chk_cal"}
  BY <1>7
<1> QED  BY <1>2, <1>3, <1>4, <1>5, <1>6, <1>7

LEMMA CalibrationDown ==
  ASSUME TypeOK, LoopInv, CalibrationStatus
  PROVE  Fewer /\ StepsAfterAbort' < StepsAfterAbort
<1>1. CASE Fails
  BY <1>1, CalibrationFacts, FailsDown, CheckPlaces DEF Body
<1>2. CASE ~Fails
  BY <1>2, CalibrationFacts, CounterFacts, NumberFacts, Places, PlacesNext,
     SMTT(30)
     DEF PlaceFacts, Measured, PassesLeft, Fewer
<1> QED  BY <1>1, <1>2

LEMMA StatusDown ==
  ASSUME TypeOK, LoopInv, SendStatus \/ DrainStatus
  PROVE  /\ Fewer \/ Waiting
         /\ StepsAfterAbort' < StepsAfterAbort
<1>1. /\ pc \in {"status", "drain"} /\ UNCHANGED <<y, line_y>>
      /\ PassesLeft' = PassesLeft
  BY SendFacts, DrainFacts DEF loop, PassesLeft
<1>2. \/ Fails
      \/ pc = "status" /\ pc' = "print" /\ Room
      \/ pc = "status" /\ pc' = "chk_drain" /\ ~Room
      \/ pc = "drain" /\ pc' = "chk_drain" /\ Waiting
      \/ pc = "drain" /\ pc' = "chk_burst" /\ Room'
  BY SendFacts, DrainFacts, CounterFacts, NumberFacts DEF Room, Waiting
<1>3. CASE Fails
  BY <1>1, <1>3, FailsDown, CheckPlaces DEF Body
<1>4. CASE pc = "status" /\ pc' = "print" /\ Room
  <2>1. line_y = y /\ y < Height
    BY <1>4 DEF LoopInv, Sending
  <2>2. Burst' - line_y' \in 1..BURST_SIZE
    BY <1>1, <2>1, CounterFacts, NumberFacts DEF Burst
  <2> QED  BY <1>1, <1>4, <2>2, CounterFacts, NumberFacts, Places, PlacesNext
           DEF PlaceFacts, Measured, Fewer
<1> USE <1>1, CounterFacts, NumberFacts, Places, PlacesNext DEF PlaceFacts, Measured, Fewer
<1>5. CASE pc = "status" /\ pc' = "chk_drain" /\ ~Room
  BY <1>5
<1>6. CASE pc = "drain" /\ pc' = "chk_drain" /\ Waiting
  BY <1>6
<1>7. CASE pc = "drain" /\ pc' = "chk_burst" /\ Room'
  BY <1>7
<1> QED  BY <1>2, <1>3, <1>4, <1>5, <1>6, <1>7

LEMMA PrintDown ==
  ASSUME TypeOK, LoopInv, PrintLine
  PROVE  Fewer /\ StepsAfterAbort' < StepsAfterAbort
<1>1. CASE Fails
  BY <1>1, PrintFacts, FailsDown, CheckPlaces DEF Body
<1>2. PassesLeft' = PassesLeft
  BY PrintFacts DEF PassesLeft
<1>3. CASE ~Fails /\ line_y + 1 < Burst /\ pc' = "print"
  <2>1. y' = y /\ line_y' = line_y + 1 /\ pc = "print"
    BY <1>3, PrintFacts
  <2>2. Burst' = Burst
    BY <2>1 DEF Burst
  <2>3. Burst - line_y \in Nat /\ Burst' - line_y' = (Burst - line_y) - 1
    BY <2>1, <2>2, CounterFacts, NumberFacts DEF Burst
  <2>4. /\ StepsAfterAbort = 6 + (Burst - line_y) /\ StepsAfterAbort' = 6 + (Burst' - line_y')
        /\ Micro = Burst - line_y /\ Micro' = Burst' - line_y'
        /\ Units' = Units /\ Stage' = Stage
    BY <1>2, <1>3, <2>1, Places, PlacesNext DEF PlaceFacts, Measured
  <2> QED  BY <2>3, <2>4 DEF Fewer
<1>4. \/ Fails
      \/ ~Fails /\ line_y + 1 < Burst /\ pc' = "print"
      \/ pc' = "chk_burst"
      \/ MorePasses /\ pc' = "wheel"
      \/ pc' = "terminate"
  BY PrintFacts
<1> USE <1>2, CounterFacts, NumberFacts, Places, PlacesNext DEF PlaceFacts, Measured, Fewer
<1>5. CASE pc' = "chk_burst"
  <2>1. y' = Burst /\ Burst \in y + 1..Height /\ pc = "print"
    BY <1>5, PrintFacts DEF Fails
  <2>2. Units = Height - y /\ Units' = Height - Burst /\ Stage' = Stage
    BY <1>5, <2>1
  <2>3. Units' < Units
    BY <2>1, <2>2
  <2>4. StepsAfterAbort' < StepsAfterAbort
    BY <1>5, <2>1
  <2> QED  BY <2>2, <2>3, <2>4
<1>6. CASE MorePasses /\ pc' = "wheel"
  BY <1>6, PrintFacts
<1>7. CASE pc' = "terminate"
  BY <1>7, PrintFacts
<1> QED  BY <1>1, <1>3, <1>5, <1>6, <1>7, <1>4

LEMMA WheelDown ==
  ASSUME TypeOK, LoopInv, TurnWheel \/ WheelStatus
  PROVE  Fewer /\ StepsAfterAbort' < StepsAfterAbort
<1>1. \/ pc \in {"wheel", "wheel_status"} /\ Fails
      \/ pc = "wheel" /\ pc' = "chk_wheel" /\ i' = 0 /\ UNCHANGED <<job, pass>>
      \/ pc = "wheel_status" /\ pc' = "chk_wheel" /\ i' = i + 1 /\ UNCHANGED <<job, pass>>
      \/ pc = "wheel_status" /\ pc' = "chk_burst" /\ job' = job /\ pass' = pass + 1 /\ MorePasses
  <2>1. CASE TurnWheel
    BY <2>1, RaiseFacts DEF TurnWheel, Fails
  <2>2. CASE WheelStatus
    BY <2>2, WheelFacts
  <2> QED  BY <2>1, <2>2
<1>2. CASE pc \in {"wheel", "wheel_status"} /\ Fails
  BY <1>2, FailsDown, CheckPlaces DEF Body
<1> USE CounterFacts, NumberFacts, Places, PlacesNext DEF PlaceFacts, Measured, Fewer
<1>3. CASE pc = "wheel" /\ pc' = "chk_wheel" /\ i' = 0 /\ UNCHANGED <<job, pass>>
  <2>1. PassesLeft' = PassesLeft
    BY <1>3 DEF PassesLeft
  <2> QED  BY <1>3, <2>1
<1>4. CASE pc = "wheel_status" /\ pc' = "chk_wheel" /\ i' = i + 1 /\ UNCHANGED <<job, pass>>
  <2>1. PassesLeft' = PassesLeft
    BY <1>4 DEF PassesLeft
  <2> QED  BY <1>4, <2>1
<1>5. CASE pc = "wheel_status" /\ pc' = "chk_burst" /\ job' = job /\ pass' = pass + 1 /\ MorePasses
  <2>1. pass \in Nat /\ Len(job.channels) \in Nat
    BY DEF TypeOK, Jobs, Channels, Colors
  <2>2. PassesLeft' = PassesLeft - 1
    BY <1>5, <2>1 DEF PassesLeft
  <2> QED  BY <1>5, <2>2
<1> QED  BY <1>1, <1>2, <1>3, <1>4, <1>5

LEMMA EndDown ==
  ASSUME TypeOK, LoopInv,
         Terminate \/ Complete \/ StopPrint \/ TerminateStopped \/ Report
  PROVE  Fewer /\ StepsAfterAbort' < StepsAfterAbort
<1> USE PlacesNext, Places DEF PlaceFacts, Measured, Fewer, Reports
<1>1. CASE Terminate
  <2>1. Fails \/ pc' = "complete"
    BY <1>1, TerminateFacts
  <2>2. pc = "terminate"
    BY <1>1, TerminateFacts
  <2>3. Fails => Fewer /\ StepsAfterAbort' < StepsAfterAbort
    BY <2>2, FailsDown, CheckPlaces DEF Body
  <2> QED  BY <2>1, <2>2, <2>3
<1>2. CASE Complete
  BY <1>2, RaiseFacts DEF Complete, Ends
<1>3. CASE StopPrint
  BY <1>3, StopFacts DEF Ends
<1>4. CASE TerminateStopped
  BY <1>4, TerminateStoppedFacts DEF Ends
<1>5. CASE Report
  BY <1>5 DEF Report, Ends
<1> QED  BY <1>1, <1>2, <1>3, <1>4, <1>5

LEMMA DriverDown ==
  ASSUME TypeOK, LoopInv, Driver
  PROVE  (Fewer \/ Waiting) /\ (abort => StepsAfterAbort' < StepsAfterAbort)
BY SetupDown, CheckDown, CalibrationDown, StatusDown, PrintDown, WheelDown, EndDown
   DEF Driver

(* The other steps leave the call where it is, and at most give it room.   *)
LEMMA OthersKeep ==
  ASSUME TypeOK, LoopInv, PhaseInv, [Next]_vars, ~Driver
  PROVE  /\ Stage' = Stage /\ Units' = Units /\ Micro' =< Micro
         /\ StepsAfterAbort' = StepsAfterAbort
<1>1. UNCHANGED <<pc, job, pass, i, y, line_y>> /\ (dev.free >= MIN_FREE_KB => dev'.free >= MIN_FREE_KB)
  <2>1. CASE RequestAbort \/ Over \/ UNCHANGED vars
    BY <2>1 DEF RequestAbort, Over, vars, loop
  <2>2. CASE Ambient
    <3>1. UNCHANGED <<pc, job, pass, i, y, line_y>>
      BY <2>2, AmbientFacts DEF loop
    <3>2. dev'.free >= dev.free
      <4>1. dev.free \in 0..BufferKB /\ dev \in Devices
        BY DEF TypeOK, Devices, Recorders
      <4>2. /\ Calibrated(dev).free = dev.free /\ PowerCycled(dev).free = BufferKB
            /\ CanDrain(dev) => Drained(dev).free = dev.free + 1
        BY <4>1 DEF Calibrated, Drained, PowerCycled, Ready, Devices, Recorders
      <4> QED  BY <2>2, <4>1, <4>2, AmbientFacts
    <3>3. dev.free \in Nat /\ dev'.free \in Nat
      <4>1. TypeOK'  BY LoopStep
      <4> QED  BY <4>1 DEF TypeOK, Devices, Recorders
    <3> QED  BY <3>1, <3>2, <3>3, NumberFacts
  <2> QED  BY <2>1, <2>2 DEF Next, Ambient
<1>2. Burst' = Burst /\ PassesLeft' = PassesLeft
  BY <1>1 DEF Burst, PassesLeft
<1>3. Micro \in Nat
  BY CountsHold DEF Counts
<1>4. CASE pc \in Ends \cup Handlers \cup {"complete", "terminate"}
  BY <1>1, <1>4, Places, PlacesNext DEF PlaceFacts, Measured, Handlers, Reports
<1>5. CASE pc \in Turning \cup {"print", "drain", "chk_drain"}
  BY <1>1, <1>2, <1>3, <1>5, Places, PlacesNext DEF PlaceFacts, Measured, Turning
<1>6. CASE pc \in {"status", "chk_burst"}
  BY <1>1, <1>2, <1>6, NumberFacts, Places, PlacesNext DEF PlaceFacts, Measured, Room
<1>7. CASE pc \in Setup \cup Calibrating
  BY <1>1, <1>2, <1>7, Places, PlacesNext DEF PlaceFacts, Measured, Setup, Calibrating
<1> QED  BY <1>4, <1>5, <1>6, <1>7, CounterFacts, CheckPlaces
         DEF Setup, Calibrating, Turning

(* What Termination and AbortEnds rest on besides fairness: every step of  *)
(* the call uses up one of finitely many, but for the wait for the buffer  *)
(* (exposure.py 251-259), and that wait ends with an abort as well.        *)
THEOREM StepsCount == Spec => NoStepInVain
<1> DEFINE A == /\ Driver => /\ Fewer \/ Waiting
                             /\ abort => StepsAfterAbort' < StepsAfterAbort
                /\ ~Driver => /\ Stage' = Stage /\ Units' = Units /\ Micro' =< Micro
                              /\ StepsAfterAbort' = StepsAfterAbort
                /\ Counts'
<1>1. IInv /\ [Next]_vars => A
  <2> SUFFICES ASSUME IInv, [Next]_vars  PROVE  A
    OBVIOUS
  <2>1. TypeOK /\ LoopInv /\ PhaseInv
    BY DEF IInv
  <2>2. TypeOK' /\ LoopInv'
    BY <2>1, LoopStep
  <2>3. Counts'
    BY <2>2, CountsHoldNext
  <2> QED  BY <2>1, <2>3, DriverDown, OthersKeep
<1>2. IInv /\ [Next]_vars => [A]_vars
  BY <1>1
<1> QED  BY <1>2, Invariance, PTL DEF Spec, NoStepInVain
=============================================================================
