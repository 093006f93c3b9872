---------------------------- MODULE DryRunProof ----------------------------
(***************************************************************************)
(* Exposures on the mock, for every image, frame, buffer and pace that the *)
(* assumptions of DryRun allow.                                            *)
(***************************************************************************)
EXTENDS DryRun, ImagingProof

LEMMA MinOfTwo ==
  ASSUME NEW a \in Int, NEW b \in Int
  PROVE  Min({a, b}) = IF a =< b THEN a ELSE b
<1>1. (IF a =< b THEN a ELSE b) \in {x \in {a, b} : \A z \in {a, b} : x =< z}
    OBVIOUS
<1> QED BY <1>1 DEF Min

LEMMA MaxOfTwo ==
  ASSUME NEW a \in Int, NEW b \in Int
  PROVE  Max({a, b}) = IF a =< b THEN b ELSE a
<1>1. (IF a =< b THEN b ELSE a) \in {x \in {a, b} : \A z \in {a, b} : z =< x}
    OBVIOUS
<1> QED BY <1>1 DEF Max

(* n kilobytes of a whole are the whole's ticks at most.                   *)
LEMMA Times ==
  ASSUME NEW a \in Nat, NEW b \in Nat, NEW c \in Nat, a =< b
  PROVE  a * c =< b * c /\ a * c \in Nat
<1>1. PICK n \in Nat : b = a + n
  <2>1. b - a \in Nat /\ b = a + (b - a)
      OBVIOUS
  <2> QED BY <2>1
<1>2. n * c >= 0 /\ a * c \in Nat
    OBVIOUS
<1>3. b * c = a * c + n * c
    BY <1>1
<1> QED BY <1>2, <1>3

LEMMA Quotient ==
  ASSUME NEW n \in Nat, NEW d \in Positive
  PROVE  /\ n \div d \in Nat
         /\ (n \div d) * d =< n /\ n - (n \div d) * d =< d - 1
BY DEF Positive

-----------------------------------------------------------------------------
Full  == HARDWARE_BUFFER_KB * TicksPerKB
Waits == PrintTicks + Late
Running ==
  {"calibrate", "status", "drain", "print", "wheel", "wheel_status", "terminate"}

Devices ==
  [state : {0, 1}, free : 0..HARDWARE_BUFFER_KB, since : Nat, line : Nat,
   film : Slots \cup {4, SCRATCH_SLOT}, vres : Nat, aspects : [Slots -> Nat \X Nat]]

Types ==
  /\ pc \in {"idle", "mode", "start"} \cup Running
  /\ job \in [height : Positive, passes : {1, 3}, noCal : BOOLEAN, valid : BOOLEAN,
             film : Slots \cup {SCRATCH_SLOT}]
  /\ pass \in Nat /\ y \in Nat /\ line_y \in Nat /\ polls \in Nat
  /\ dev \in Devices /\ used \in Nat /\ asked \in 0..MaxAsked

(* The mock thinks of more room than there is, by a print's wait at most:  *)
(* the first print's, which began with nothing left to drain.  It thinks   *)
(* of less, by a fraction of a kilobyte for each poll.                     *)
Ahead  == used = 0 \/ dev.free * TicksPerKB + dev.since + used =< Full + Waits
Behind ==
  asked < MaxAsked =>
    Full - used - dev.free * TicksPerKB - dev.since =< asked * (TicksPerKB - 1)

(* In a burst: the room that the poll before it has found is not used up.  *)
InBurst ==
  /\ y =< line_y /\ line_y < Burst
  /\ MIN_FREE_KB =< dev.free + (line_y - y) * LineKB
  /\ dev.free * TicksPerKB + dev.since =< Full

DInv ==
  /\ Types
  /\ dev.state = 1 <=> pc \in Running
  /\ pc \in Running => Ahead /\ Behind
  /\ used =< Full
  /\ pc \in {"calibrate", "status", "drain"} => y < job.height
  /\ pc = "print" => InBurst

LEMMA Numbers ==
  /\ HARDWARE_BUFFER_KB \in Nat /\ TicksPerKB \in Positive
  /\ Height \in Positive /\ BURST_SIZE \in Positive
  /\ MIN_FREE_KB \in Nat /\ DrainMarginKB \in Nat
  /\ Late \in Nat /\ MaxAsked \in Nat
  /\ PrintTicks \in Positive /\ SecondTicks \in Positive
  /\ BURST_SIZE * LineKB + LineKB =< MIN_FREE_KB
  /\ MIN_FREE_KB =< HARDWARE_BUFFER_KB
  /\ Full \in Nat /\ Waits \in Nat /\ LineKB = 4
  /\ Waits =< LineKB * TicksPerKB
<1>1. HARDWARE_BUFFER_KB \in Nat /\ TicksPerKB \in Positive
    BY MockAssumption DEF Positive
<1>2. /\ Height \in Positive /\ BURST_SIZE \in Positive
      /\ MIN_FREE_KB \in Nat /\ DrainMarginKB \in Nat
      /\ Late \in Nat /\ MaxAsked \in Nat
      /\ PrintTicks \in Positive /\ SecondTicks \in Positive
      /\ BURST_SIZE * LineKB + LineKB =< MIN_FREE_KB
      /\ MIN_FREE_KB + DrainMarginKB =< HARDWARE_BUFFER_KB
    BY DryRunAssumption DEF Positive
<1> QED
    BY <1>1, <1>2, LateAssumption DEF Positive, Full, Waits, LineKB

LEMMA DrainedByNumber ==
  ASSUME used \in Nat, NEW ticks \in Nat
  PROVE  /\ DrainedBy(ticks) = IF used =< ticks THEN 0 ELSE used - ticks
         /\ DrainedBy(ticks) \in Nat /\ DrainedBy(ticks) =< used
<1>1. DrainedBy(ticks) = IF 0 =< used - ticks THEN used - ticks ELSE 0
    BY MaxOfTwo DEF DrainedBy
<1> QED BY <1>1

(* What a poll leaves: the mock and the buffer as far apart as before, but *)
(* for the remainder that the mock forgets.                                *)
LEMMA PollLemma ==
  ASSUME dev \in Devices, used \in Nat, asked \in 0..MaxAsked, Ahead, Behind,
         used =< Full, NEW ticks \in Nat, NEW then \in Nat, Polls(ticks, then)
  PROVE  /\ dev' \in Devices /\ dev'.state = dev.state /\ dev'.since = then
         /\ used' \in Nat /\ used' =< used /\ asked' \in 0..MaxAsked
         /\ dev'.free * TicksPerKB =< Full
         /\ Ahead' /\ Behind'
<1> DEFINE T == TicksPerKB
           H == HARDWARE_BUFFER_KB
<1> USE Numbers
<1>1. PICK late \in 0..Late :
        LET d == CurrentStatus(Later(dev, ticks + late))
        IN  /\ dev' = Later(d, then)
            /\ used' = DrainedBy(ticks + late + then)
            /\ asked' = IF d.free = H THEN 0 ELSE Min({asked + 1, MaxAsked})
    BY DEF Polls
<1> DEFINE s == dev.since + (ticks + late)
           q == s \div T
           f == IF H =< dev.free + q THEN H ELSE dev.free + q
<1>2. /\ dev.free \in Nat /\ dev.free =< H /\ dev.since \in Nat /\ late \in Nat
      /\ s \in Nat /\ q \in Nat /\ q * T =< s /\ s - q * T =< T - 1
  <2>1. dev.free \in Nat /\ dev.free =< H /\ dev.since \in Nat /\ late \in Nat
      BY DEF Devices
  <2>2. s \in Nat
      BY <2>1
  <2> HIDE DEF s
  <2> QED BY <2>1, <2>2, Quotient
<1>3. CurrentStatus(Later(dev, ticks + late)).free = f
  <2>1. Min({H, dev.free + q}) = f
      BY <1>2, MinOfTwo
  <2> QED BY <2>1 DEF CurrentStatus, Later, Devices
<1>4. /\ dev' \in Devices /\ dev'.state = dev.state
      /\ dev'.since = then /\ dev'.free = f
  <2>1. f \in 0..H
      BY <1>2
  <2>2. CurrentStatus(Later(dev, ticks + late)) = [dev EXCEPT !.free = f, !.since = 0]
    <3>1. Min({H, dev.free + q}) = f
        BY <1>2, MinOfTwo
    <3> DEFINE d == Later(dev, ticks + late)
    <3>2. d = [dev EXCEPT !.since = s] /\ d.free = dev.free /\ d.since = s
        BY DEF Later, Devices
    <3>3. CurrentStatus(d) = [d EXCEPT !.free = f, !.since = 0]
        BY <3>1, <3>2 DEF CurrentStatus
    <3> HIDE DEF s, q, f
    <3>4. [d EXCEPT !.free = f, !.since = 0] = [dev EXCEPT !.free = f, !.since = 0]
        BY <3>2 DEF Devices
    <3> QED BY <3>3, <3>4
  <2>3. dev' = [dev EXCEPT !.free = f, !.since = then]
    <3> DEFINE e == [dev EXCEPT !.free = f, !.since = 0]
    <3>1. dev' = Later(e, then)
        BY <1>1, <2>2
    <3> HIDE DEF s, q, f
    <3>2. e.since = 0 /\ e.since + then = then
        BY DEF Devices
    <3> HIDE DEF e
    <3>3. dev' = [e EXCEPT !.since = then]
        BY <3>1, <3>2 DEF Later
    <3> USE DEF e
    <3> QED BY <3>3 DEF Devices
  <2> QED BY <2>1, <2>3 DEF Devices
<1>5. f \in Nat /\ f =< H /\ f * T =< Full /\ (f = H => f * T = Full)
    BY <1>2, Times DEF Full, Positive
<1>6. f * T =< dev.free * T + q * T /\ (f # H => f * T = dev.free * T + q * T)
  <2>1. (dev.free + q) * T = dev.free * T + q * T
      BY <1>2 DEF Positive
  <2>2. f * T =< (dev.free + q) * T
      BY <1>2, <1>5, Times DEF Positive
  <2> QED BY <2>1, <2>2, <1>5, <1>2
<1> DEFINE w == ticks + late + then
<1>7. /\ used' = IF used =< w THEN 0 ELSE used - w
      /\ used' \in Nat /\ used' =< used
    BY <1>1, <1>2, DrainedByNumber
<1>8. /\ asked' \in 0..MaxAsked
      /\ f = H => asked' = 0
      /\ f # H /\ asked' < MaxAsked => asked' = asked + 1
    BY <1>1, <1>3, MinOfTwo
<1>9. dev.free * T \in Nat /\ q * T \in Nat /\ f * T \in Nat /\ T - 1 \in Nat
    BY <1>2, <1>5 DEF Positive
<1> DEFINE ft == f * T  dt == dev.free * T  qt == q * T
<1>10. Ahead'
  <2>1. used' = 0 \/ ft + then + used' =< Full + Waits
    <3>1. used = 0 \/ dt + dev.since + used =< Full + Waits
        BY DEF Ahead
    <3>2. ft =< dt + qt /\ qt =< s /\ ft \in Nat /\ dt \in Nat /\ qt \in Nat
        BY <1>2, <1>6, <1>9
    <3> HIDE DEF ft, dt, qt, f, q
    <3> QED BY <3>1, <3>2, <1>2, <1>7
  <2> QED BY <2>1, <1>4 DEF Ahead
<1>11. Behind'
  <2>1. CASE f = H
      BY <2>1, <1>4, <1>5, <1>7, <1>8, <1>9 DEF Behind, Positive
  <2>2. CASE f # H /\ asked' < MaxAsked
    <3>1. asked' = asked + 1 /\ asked < MaxAsked
        BY <2>2, <1>8
    <3>2. Full - used - dt - dev.since =< asked * (T - 1)
        BY <3>1 DEF Behind
    <3>3. asked' * (T - 1) = asked * (T - 1) + (T - 1) /\ asked * (T - 1) \in Nat
        BY <3>1, <1>9
    <3>4. ft = dt + qt /\ s - qt =< T - 1 /\ ft \in Nat /\ dt \in Nat /\ qt \in Nat
        BY <2>2, <1>2, <1>6, <1>9
    <3>5. Full - used' - ft - then =< asked' * (T - 1)
      <4> DEFINE at == asked * (T - 1)  bt == asked' * (T - 1)
      <4>1. /\ Full - used - dt - dev.since =< at /\ bt = at + (T - 1) /\ at \in Nat
          BY <3>2, <3>3
      <4>2. used' >= used - w
          BY <1>7, <1>2
      <4>3. Full - used' - ft - then =< bt
        <5> HIDE DEF ft, dt, qt, f, q, at, bt
        <5> QED BY <4>1, <4>2, <3>4, <1>2, <1>7, <1>9 DEF Positive
      <4> QED BY <4>3
    <3> QED BY <3>5, <1>4 DEF Behind
  <2> QED BY <2>1, <2>2, <1>8 DEF Behind
<1> QED BY <1>4, <1>5, <1>7, <1>8, <1>10, <1>11

-----------------------------------------------------------------------------
LEMMA BurstNumber ==
  ASSUME y \in Nat, job.height \in Positive
  PROVE  /\ Burst = IF y + BURST_SIZE =< job.height THEN y + BURST_SIZE ELSE job.height
         /\ Burst \in Nat /\ Burst =< job.height
         /\ y < job.height => y < Burst
         /\ Burst =< y + BURST_SIZE \/ ~(y < job.height)
<1>1. Burst = IF y + BURST_SIZE =< job.height THEN y + BURST_SIZE ELSE job.height
    BY Numbers, MinOfTwo DEF Burst, Positive
<1> QED BY <1>1, Numbers DEF Positive

(* What the commands write into the mock.                                  *)
LEMMA Updates ==
  ASSUME NEW d \in Devices
  PROVE  /\ \A s \in {0, 1} : /\ [d EXCEPT !.state = s] \in Devices
                              /\ [d EXCEPT !.state = s].state = s
         /\ \A f \in 0..HARDWARE_BUFFER_KB, n \in Nat :
              /\ [d EXCEPT !.free = f, !.line = n] \in Devices
              /\ [d EXCEPT !.free = f, !.line = n].state = d.state
         /\ \A film \in Slots \cup {4, SCRATCH_SLOT}, vres \in Nat :
              /\ [d EXCEPT !.film = film, !.vres = vres] \in Devices
              /\ [d EXCEPT !.film = film, !.vres = vres].state = d.state
BY DEF Devices

LEMMA InitLemma == ASSUME Init PROVE DInv
<1>1. dev \in Devices
    BY Numbers DEF Init, NewMock, Empty, Devices
<1>2. Types
    BY <1>1, Numbers DEF Init, Types, NoJob, Positive
<1> QED BY <1>2, Numbers DEF Init, DInv, NewMock, Running

(* Between two exposures, and until START, there is nothing in the buffer  *)
(* that counts.                                                            *)
LEMMA IdleLemma ==
  ASSUME DInv, Convert \/ Install \/ ResetDevice \/ Mode PROVE DInv'
<1> USE DEF Types
<1>1. pc \in {"idle", "mode"} /\ pc' \in {"idle", "mode", "start"} /\ used' = used
      /\ dev.state = 0 /\ UNCHANGED <<pass, y, line_y, polls, asked>>
    BY DEF DInv, Convert, Install, ResetDevice, Mode, counters, Running, Devices
<1>2. dev' \in Devices /\ dev'.state = 0
  <2>1. \A slot : /\ UploadFilmTable(dev, slot) \in Devices
                 /\ UploadFilmTable(dev, slot).state = 0
      BY <1>1 DEF DInv, UploadFilmTable, Devices
  <2>2. CASE Convert
      BY <2>1, <2>2, <1>1 DEF DInv, Convert
  <2>3. CASE Install
      BY <2>1, <2>3 DEF Install
  <2>4. CASE ResetDevice
    <3>1. Stop(dev) \in Devices /\ Stop(dev).state = 0
        BY Updates DEF DInv, Stop
    <3>2. HARDWARE_BUFFER_KB \in 0..HARDWARE_BUFFER_KB /\ 0 \in Nat
        BY Numbers
    <3>3. Reset(dev) \in Devices /\ Reset(dev).state = 0
      <4> DEFINE d == Stop(dev)
                 e == [d EXCEPT !.free = HARDWARE_BUFFER_KB, !.line = 0]
      <4>1. d \in Devices /\ d.state = 0
          BY <3>1
      <4> HIDE DEF d
      <4>2. e \in Devices /\ e.state = 0
          BY <4>1, <3>2 DEF Devices
      <4> QED BY <4>2 DEF Reset, d
    <3> QED BY <2>4, <3>3 DEF ResetDevice
  <2>5. CASE Mode
    <3>1. Stop(dev) \in Devices /\ Stop(dev).state = 0
        BY Updates DEF DInv, Stop
    <3>2. job.film \in Slots \cup {4, SCRATCH_SLOT} /\ job.height \in Nat
        BY DEF DInv, Positive
    <3>3. /\ ModeSelect(dev, job.film, job.height) \in Devices
          /\ ModeSelect(dev, job.film, job.height).state = 0
        BY <1>1, <3>2, Updates, ZenonT(60) DEF DInv, ModeSelect
    <3> QED BY <2>5, <3>1, <3>3 DEF Mode
  <2> QED BY <2>2, <2>3, <2>4, <2>5
<1>3. job' \in [height : Positive, passes : {1, 3}, noCal : BOOLEAN, valid : BOOLEAN,
               film : Slots \cup {SCRATCH_SLOT}]
  <2>1. Jobs \subseteq [height : Positive, passes : {1, 3}, noCal : BOOLEAN,
                       valid : BOOLEAN, film : Slots \cup {SCRATCH_SLOT}]
      BY Numbers DEF Jobs, Positive
  <2>2. CASE Convert
      BY <2>1, <2>2 DEF Convert
  <2>3. CASE Install \/ ResetDevice
      BY <2>3 DEF DInv, Install, ResetDevice
  <2>4. CASE Mode
      BY <2>4 DEF DInv, Mode, NoJob, Positive
  <2> QED BY <2>2, <2>3, <2>4
<1>4. Types'
    BY <1>1, <1>2, <1>3 DEF DInv
<1>5. pc' \notin Running /\ pc' \notin {"calibrate", "status", "drain", "print"}
    BY <1>1 DEF Running
<1> QED BY <1>1, <1>2, <1>4, <1>5 DEF DInv

LEMMA StartLemma == ASSUME DInv, Start PROVE DInv'
<1> USE DEF Types
<1>1. /\ dev' \in Devices /\ dev'.state = 1
      /\ dev'.free = HARDWARE_BUFFER_KB /\ dev'.since = 0
  <2> DEFINE d == [dev EXCEPT !.state = 1]
             e == [d EXCEPT !.free = HARDWARE_BUFFER_KB, !.line = 0]
  <2>1. d \in Devices /\ d.state = 1
      BY Updates DEF DInv
  <2>2. HARDWARE_BUFFER_KB \in 0..HARDWARE_BUFFER_KB /\ 0 \in Nat
      BY Numbers
  <2>3. e \in Devices /\ e.state = 1 /\ e.free = HARDWARE_BUFFER_KB
    <3> HIDE DEF d
    <3> QED BY <2>1, <2>2, Updates DEF Devices
  <2>4. dev' = [e EXCEPT !.since = 0]
      BY DEF DInv, Start, StartExposure, Devices
  <2> HIDE DEF e
  <2> QED BY <2>3, <2>4 DEF Devices
<1>2. /\ used' = 0 /\ asked' = 0 /\ y' = 0 /\ job' = job
      /\ pc' \in {"status", "calibrate"}
    BY DEF Start
<1>3. Types'
    BY <1>1, <1>2, Numbers DEF DInv, Start, Running
<1>4. Ahead' /\ Behind'
    BY <1>1, <1>2, Numbers DEF Ahead, Behind, Full, Positive
<1> QED BY <1>1, <1>2, <1>3, <1>4, Numbers DEF DInv, Running, Positive

(* A command that polls.                                                   *)
LEMMA PollingLemma ==
  ASSUME DInv, Calibrate \/ Status \/ Drain \/ WheelStatus PROVE DInv'
<1> USE DEF Types
<1>1. /\ pc \in {"calibrate", "status", "drain", "wheel_status"} /\ job' = job
      /\ pc' \in {"calibrate", "status", "drain", "print", "wheel_status"}
      /\ pass' \in Nat /\ y' \in Nat /\ line_y' \in Nat /\ polls' \in Nat
  <2>1. CASE Calibrate
      BY <2>1 DEF DInv, Calibrate
  <2>2. CASE Status
      BY <2>2 DEF DInv, Status
  <2>3. CASE Drain
      BY <2>3 DEF DInv, Drain
  <2>4. CASE WheelStatus
    <3>1. PassPolls \in Nat
        BY DryRunAssumption
    <3> QED BY <2>4, <3>1 DEF DInv, WheelStatus
  <2> QED BY <2>1, <2>2, <2>3, <2>4
<1>2. PICK ticks \in Nat, then \in Nat : Polls(ticks, then) /\ (Status => then = 0)
  <2>1. SecondTicks \in Nat /\ 3 * SecondTicks \in Nat /\ 0 \in Nat
      BY Numbers DEF Positive
  <2>2. CASE Calibrate
      BY <2>1, <2>2 DEF Calibrate, Status
  <2>3. CASE Status
      BY <2>1, <2>3 DEF Status
  <2>4. CASE Drain
      BY <2>1, <2>4 DEF Drain, Status
  <2>5. CASE WheelStatus
      BY <2>1, <2>5 DEF WheelStatus, Status
  <2> QED BY <2>2, <2>3, <2>4, <2>5
<1>3. Ahead /\ Behind /\ dev.state = 1
    BY <1>1 DEF DInv, Running
<1>4. /\ dev' \in Devices /\ dev'.state = dev.state /\ dev'.since = then
      /\ used' \in Nat /\ used' =< used /\ asked' \in 0..MaxAsked
      /\ dev'.free * TicksPerKB =< Full
      /\ Ahead' /\ Behind'
    BY <1>2, <1>3, PollLemma DEF DInv
<1>5. Types' /\ pc' \in Running /\ dev'.state = 1
    BY <1>1, <1>3, <1>4 DEF DInv, Running
<1>6. pc' \in {"calibrate", "status", "drain"} => y' < job'.height
  <2>1. CASE Calibrate
      BY <2>1 DEF DInv, Calibrate
  <2>2. CASE Status
      BY <2>2 DEF DInv, Status
  <2>3. CASE Drain
      BY <2>3 DEF DInv, Drain
  <2>4. CASE WheelStatus
      BY <2>4, <1>1 DEF DInv, WheelStatus, Positive
  <2> QED BY <2>1, <2>2, <2>3, <2>4
<1>7. pc' = "print" => InBurst'
  <2> SUFFICES ASSUME pc' = "print" PROVE InBurst'
      OBVIOUS
  <2>1. Status
      BY DEF Calibrate, Drain, WheelStatus
  <2>2. /\ y' = y /\ line_y' = y /\ y < job.height /\ job' = job
        /\ ~(dev'.free < MIN_FREE_KB) /\ dev'.since = 0
      BY <2>1, <1>2, <1>4 DEF DInv, Status
  <2>3. Burst' = Burst /\ y < Burst
    <3>1. Burst' = Burst
        BY <2>2 DEF Burst
    <3> QED BY <3>1, <2>2, BurstNumber DEF DInv
  <2>4. dev'.free \in Nat /\ dev'.free * TicksPerKB \in Nat
      BY <1>4, Numbers DEF Devices, Positive
  <2>5. MIN_FREE_KB =< dev'.free + (line_y' - y') * LineKB
      BY <2>2, <2>4, Numbers DEF DInv
  <2> QED BY <2>2, <2>3, <2>4, <2>5, <1>4 DEF DInv, InBurst
<1> QED BY <1>1, <1>4, <1>5, <1>6, <1>7, Numbers DEF DInv

(* A line: both buffers fill by as much, and the time it takes drains the  *)
(* one and is counted by the other.                                        *)
LEMMA PrintLemma == ASSUME DInv, SendLine PROVE DInv'
<1> DEFINE T == TicksPerKB
<1> USE Numbers
<1>1. /\ pc = "print" /\ InBurst /\ Ahead /\ Behind /\ dev.state = 1
      /\ job' = job /\ pass' = pass /\ polls' = polls /\ asked' = asked
      /\ line_y' = line_y + 1 /\ y' = (IF line_y' = Burst THEN Burst ELSE y)
    BY DEF DInv, SendLine, Running
<1>2. PICK late \in 0..Late :
        /\ dev' = PrintLine(Later(dev, PrintTicks + late), line_y)
        /\ used' = DrainedBy(PrintTicks + late) + LineKB * T
    BY DEF SendLine
<1> DEFINE t == PrintTicks + late
<1>3. t \in Nat /\ t =< Waits
    BY DEF Waits, Positive
<1>4. /\ y \in Nat /\ line_y \in Nat /\ job.height \in Positive /\ used \in Nat
      /\ dev \in Devices /\ dev.free \in Nat /\ dev.free =< HARDWARE_BUFFER_KB
      /\ dev.since \in Nat
    BY DEF DInv, Types, Devices
<1>5. /\ Burst \in Nat /\ Burst =< job.height /\ y < Burst /\ line_y < Burst
      /\ Burst =< y + BURST_SIZE
      /\ y < job.height /\ Burst # y /\ (Burst < job.height \/ Burst = job.height)
  <2>1. y < job.height
    <3>1. y < Burst /\ Burst =< job.height /\ Burst \in Nat
        BY <1>1, <1>4, BurstNumber DEF InBurst
    <3> QED BY <3>1, <1>4 DEF Positive
  <2> QED BY <2>1, <1>1, <1>4, BurstNumber DEF InBurst, Positive
<1>6. dev.free >= 2 * LineKB
  <2>1. (line_y - y) * LineKB + LineKB =< BURST_SIZE * LineKB
      BY <1>1, <1>4, <1>5 DEF InBurst, Positive
  <2> QED BY <2>1, <1>1, <1>4 DEF InBurst, Positive
<1>7. /\ dev' \in Devices /\ dev'.state = 1
      /\ dev'.free = dev.free - LineKB /\ dev'.since = dev.since + t
  <2> DEFINE d == Later(dev, t)
             f == dev.free - LineKB
  <2>1. d \in Devices /\ d.state = 1 /\ d.free = dev.free /\ d.since = dev.since + t
      BY <1>1, <1>3, <1>4 DEF Later, Devices
  <2>2. f \in 0..HARDWARE_BUFFER_KB /\ Max({0, d.free - LineKB}) = f
      BY <2>1, <1>4, <1>6, MaxOfTwo
  <2> HIDE DEF d, f
  <2>3. dev' = [d EXCEPT !.line = line_y, !.free = f]
      BY <2>2, <1>2 DEF PrintLine, d
  <2>4. dev' \in Devices /\ dev'.state = 1 /\ dev'.free = f /\ dev'.since = d.since
      BY <2>1, <2>2, <2>3, <1>4 DEF Devices
  <2> QED BY <2>1, <2>4 DEF f
<1>8. /\ dev.free * T \in Nat /\ LineKB * T \in Nat
      /\ dev'.free * T = dev.free * T - LineKB * T
      /\ 0 =< dev'.free * T /\ LineKB * T =< dev'.free * T
  <2>1. (dev.free - LineKB) * T = dev.free * T - LineKB * T
      BY <1>4 DEF Positive
  <2>2. LineKB * T =< (dev.free - LineKB) * T
      BY <1>4, <1>6, Times DEF Positive
  <2>3. dev.free * T \in Nat /\ LineKB * T \in Nat
      BY <1>4 DEF Positive
  <2> QED BY <2>1, <2>2, <2>3, <1>7
<1> DEFINE n == LineKB * T  ft == dev.free * T
<1>9. /\ used' = (IF used =< t THEN 0 ELSE used - t) + n
      /\ used' \in Nat
    BY <1>2, <1>3, <1>4, <1>8, DrainedByNumber
<1>10. ft + dev.since =< Full /\ (used = 0 \/ ft + dev.since + used =< Full + Waits)
    BY <1>1 DEF InBurst, Ahead
<1>11. ft - n + (dev.since + t) + used' =< Full + Waits
    <2> HIDE DEF ft, n
    <2> QED BY <1>3, <1>4, <1>8, <1>9, <1>10 DEF ft, n
<1>12. Ahead'
    BY <1>7, <1>8, <1>11 DEF Ahead
<1>13. used' =< Full
  <2>1. dev'.free * T >= n /\ Waits =< n
      BY <1>8
  <2> QED BY <2>1, <1>3, <1>4, <1>7, <1>8, <1>9, <1>11
<1>14. Behind'
  <2>1. SUFFICES ASSUME asked < MaxAsked
                 PROVE  Full - used' - dev'.free * T - dev'.since =< asked * (T - 1)
      BY <1>1 DEF Behind
  <2>2. Full - used - ft - dev.since =< asked * (T - 1)
      BY <2>1, <1>1 DEF Behind
  <2>3. used' >= used - t + n
      BY <1>3, <1>4, <1>8, <1>9
  <2>4. asked * (T - 1) \in Int
      BY DEF DInv, Types, Positive
  <2> DEFINE a == asked * (T - 1)
  <2> HIDE DEF a
  <2> QED BY <2>2, <2>3, <2>4, <1>3, <1>4, <1>7, <1>8, <1>9 DEF a
<1>15. pc' \in Running /\ y' \in Nat
       /\ (line_y' # Burst => y' = y /\ pc' = "print")
       /\ (line_y' = Burst => pc' # "print")
  <2>1. CASE line_y' = Burst
    <3>1. y' = Burst /\ y' # y
      <4>1. y' = Burst
          BY <2>1, <1>1
      <4>2. Burst # y
          BY <1>5
      <4> QED BY <4>1, <4>2
    <3>2. CASE Burst < job.height
      <4>1. pc' = "status"
          BY <3>1, <3>2, <1>4, <1>5 DEF SendLine, Positive
      <4> QED BY <4>1, <3>1, <2>1, <1>5 DEF Running
    <3>3. CASE Burst = job.height
      <4>1. pc' = IF pass < job.passes THEN "wheel" ELSE "terminate"
          BY <3>1, <3>3, <1>4, <1>5 DEF SendLine, Positive
      <4> QED BY <4>1, <3>1, <2>1, <1>5 DEF Running
    <3> QED BY <3>2, <3>3, <1>5
  <2>2. CASE line_y' # Burst
    <3>1. y' = y
        BY <2>2, <1>1
    <3>2. pc' = pc
        BY <3>1, <1>4, <1>5 DEF SendLine, Positive
    <3> QED BY <2>2, <3>1, <3>2, <1>1, <1>4 DEF Running
  <2> QED BY <2>1, <2>2
<1>16. Types'
    BY <1>1, <1>4, <1>7, <1>9, <1>15 DEF DInv, Types
<1>17. pc' \in {"calibrate", "status", "drain"} => y' < job'.height
    BY <1>1, <1>4, <1>5 DEF SendLine, Positive
<1>18. pc' = "print" => InBurst'
  <2> SUFFICES ASSUME pc' = "print" PROVE InBurst'
      OBVIOUS
  <2>1. y' = y /\ line_y' # Burst
      BY <1>15
  <2>2. Burst' = Burst
      BY <2>1, <1>1 DEF Burst
  <2>3. line_y' < Burst /\ y =< line_y'
      BY <2>1, <1>1, <1>4, <1>5 DEF InBurst
  <2>4. MIN_FREE_KB =< dev'.free + (line_y' - y) * LineKB
      BY <1>1, <1>4, <1>7 DEF InBurst
  <2>5. dev'.free * T + dev'.since =< Full
      BY <1>1, <1>3, <1>4, <1>7, <1>8, <1>10
  <2> QED BY <2>1, <2>2, <2>3, <2>4, <2>5 DEF InBurst
<1> QED BY <1>7, <1>12, <1>13, <1>14, <1>15, <1>16, <1>17, <1>18 DEF DInv

(* The filter wheel turns, and the buffer drains.                          *)
LEMMA WheelLemma == ASSUME DInv, TurnWheel PROVE DInv'
<1> DEFINE t == 5 * SecondTicks
<1>1. t \in Nat /\ used \in Nat /\ dev \in Devices /\ asked \in 0..MaxAsked
    BY Numbers DEF DInv, Types, Positive
<1>2. /\ pc = "wheel" /\ pc' = "wheel_status" /\ polls' = 0
      /\ dev' = Later(dev, t) /\ used' = DrainedBy(t)
      /\ UNCHANGED <<shot, job, pass, y, line_y, asked>>
    BY DEF TurnWheel
<1>3. /\ dev' \in Devices /\ dev'.state = dev.state /\ dev'.free = dev.free
      /\ dev'.since = dev.since + t /\ dev.since \in Nat
    BY <1>1, <1>2 DEF Later, Devices
<1>4. /\ used' = IF used =< t THEN 0 ELSE used - t
      /\ used' \in Nat /\ used' =< used
    BY <1>1, <1>2, DrainedByNumber
<1>5. Types' /\ pc \in Running /\ pc' \in Running
    BY <1>1, <1>2, <1>3, <1>4 DEF DInv, Types, Running
<1>6. dev.free * TicksPerKB \in Nat /\ asked * (TicksPerKB - 1) \in Nat
    BY <1>1, Numbers DEF Devices, Positive
<1>7. Ahead'
    BY <1>1, <1>3, <1>4, <1>5, <1>6, Numbers DEF DInv, Ahead
<1>8. Behind'
  <2> DEFINE a == asked * (TicksPerKB - 1)
             ft == dev.free * TicksPerKB
  <2>1. asked < MaxAsked => Full - used - ft - dev.since =< a
      BY <1>5 DEF DInv, Behind
  <2>2. asked < MaxAsked => Full - used' - ft - (dev.since + t) =< a
    <3> HIDE DEF a, ft, t
    <3> QED BY <2>1, <1>1, <1>3, <1>4, <1>6, Numbers DEF a, ft
  <2> QED BY <2>2, <1>2, <1>3 DEF Behind
<1>9. used' =< Full
    BY <1>1, <1>4, Numbers DEF DInv
<1> QED BY <1>2, <1>3, <1>5, <1>7, <1>8, <1>9 DEF DInv

LEMMA TerminateLemma == ASSUME DInv, Terminate PROVE DInv'
<1>1. dev' \in Devices /\ dev'.state = 0
    BY DEF DInv, Types, Terminate, Stop, Devices
<1>2. Types'
    BY <1>1, Numbers DEF DInv, Types, Terminate, NoJob, Positive
<1> QED BY <1>1, <1>2, Numbers DEF DInv, Terminate, Running

LEMMA StutterLemma == ASSUME DInv, UNCHANGED vars PROVE DInv'
BY DEF DInv, Types, Ahead, Behind, InBurst, Burst, vars, counters

THEOREM DryRunInvariance == Spec => []DInv
<1>1. Init => DInv
    BY InitLemma
<1>2. DInv /\ [Next]_vars => DInv'
    BY IdleLemma, StartLemma, PollingLemma, PrintLemma, WheelLemma, TerminateLemma,
       StutterLemma DEF Next, Run
<1> QED BY <1>1, <1>2, PTL DEF Spec

-----------------------------------------------------------------------------
(* A run that keeps pace with the mock keeps pace with a buffer that       *)
(* drains all the time: whatever the sizes, no print overflows it, however *)
(* late it is within the assumption.                                       *)
THEOREM OverflowTheorem == Spec => []NothingOverflows
<1>1. DInv => NothingOverflows
  <2> SUFFICES ASSUME DInv PROVE NothingOverflows
      OBVIOUS
  <2>1. used =< HARDWARE_BUFFER_KB * TicksPerKB
      BY DEF DInv, Full
  <2>2. ASSUME pc = "print" PROVE dev.free >= LineKB
    <3>1. InBurst /\ y \in Nat /\ line_y \in Nat /\ job.height \in Positive
          /\ dev.free \in Nat
        BY <2>2 DEF DInv, Types, Devices
    <3>2. line_y < Burst /\ Burst \in Nat /\ Burst =< y + BURST_SIZE
        BY <3>1, BurstNumber, Numbers DEF InBurst
    <3> QED BY <3>1, <3>2, Numbers DEF InBurst, Positive
  <2> QED BY <2>1, <2>2 DEF NothingOverflows
<1> QED BY <1>1, DryRunInvariance, PTL

(* What the mock would answer is as near to the buffer it stands for as    *)
(* the documentation's "faithfully" can mean (mock.py:7-9): never ahead by *)
(* more than a print's time, nor behind by more than the remainders.       *)
THEOREM FaithTheorem == Spec => []MockIsFaithful
<1>1. DInv => MockIsFaithful
  <2> SUFFICES ASSUME DInv, dev.state = 1
               PROVE  LET free == HARDWARE_BUFFER_KB * TicksPerKB - used
                          told == CurrentStatus(dev).free * TicksPerKB
                      IN  /\ told - free =< PrintTicks + Late
                          /\ asked < MaxAsked =>
                               free - told =< (asked + 1) * (TicksPerKB - 1)
      BY DEF MockIsFaithful
  <2> DEFINE T == TicksPerKB
             H == HARDWARE_BUFFER_KB
             q == dev.since \div T
             f == IF H =< dev.free + q THEN H ELSE dev.free + q
             qt == q * T
             ft == dev.free * T
             told == f * T
             at == asked * (T - 1)
  <2>1. /\ dev.free \in Nat /\ dev.free =< H /\ dev.since \in Nat /\ used \in Nat
        /\ used =< Full /\ asked \in Nat /\ Ahead /\ Behind
      BY Numbers DEF DInv, Types, Devices
  <2>2. H \in Nat /\ T \in Nat /\ T - 1 \in Nat /\ Full = H * T /\ Waits = PrintTicks + Late
        /\ Full \in Nat
      BY Numbers DEF Full, Waits, Positive
  <2>3. q \in Nat /\ qt =< dev.since /\ dev.since - qt =< T - 1
      BY <2>1, Quotient, Numbers
  <2>4. CurrentStatus(dev).free = f
    <3>1. Min({H, dev.free + q}) = f
        BY <2>1, <2>2, <2>3, MinOfTwo
    <3> QED BY <3>1 DEF CurrentStatus, DInv, Types, Devices
  <2>5. f \in Nat /\ f =< H
      BY <2>1, <2>2, <2>3
  <2>6. /\ told \in Nat /\ told =< Full /\ told =< ft + qt /\ ft \in Nat /\ qt \in Nat
        /\ told = Full \/ told = ft + qt
    <3>1. told \in Nat /\ told =< Full
        BY <2>2, <2>5, Times
    <3>2. (dev.free + q) * T = ft + qt /\ ft \in Nat /\ qt \in Nat
        BY <2>1, <2>2, <2>3
    <3>3. f =< dev.free + q /\ dev.free + q \in Nat
        BY <2>1, <2>2, <2>3
    <3>4. told =< (dev.free + q) * T
      <4> HIDE DEF f, q
      <4> QED BY <2>2, <2>5, <3>3, Times
    <3>5. f = H \/ f = dev.free + q
        OBVIOUS
    <3>6. told = Full \/ told = (dev.free + q) * T
        BY <2>2, <3>5
    <3> QED BY <3>1, <3>2, <3>4, <3>6
  <2>7. told - (Full - used) =< Waits
    <3>1. used = 0 \/ ft + dev.since + used =< Full + Waits
        BY <2>1 DEF Ahead
    <3> HIDE DEF told, ft, qt, q
    <3> QED BY <3>1, <2>1, <2>2, <2>3, <2>6, Numbers
  <2>8. asked < MaxAsked => (Full - used) - told =< (asked + 1) * (T - 1)
    <3>1. (asked + 1) * (T - 1) = at + (T - 1) /\ at \in Nat
        BY <2>1, <2>2
    <3>2. asked < MaxAsked => Full - used - ft - dev.since =< at
        BY <2>1 DEF Behind
    <3>3. asked < MaxAsked => (Full - used) - told =< at + (T - 1)
      <4> HIDE DEF told, ft, qt, q, at
      <4> QED BY <3>1, <3>2, <2>1, <2>2, <2>3, <2>6
    <3> QED BY <3>1, <3>3
  <2> QED BY <2>2, <2>4, <2>7, <2>8
<1> QED BY <1>1, DryRunInvariance, PTL

(* Every image of an exposure lies on its frame as the documentation says, *)
(* however it is turned and scaled.                                        *)
THEOREM ImageTheorem == Spec => []ImagePlaced
<1>1. Init => ImagePlaced
    BY DEF Init, ImagePlaced
<1>2. ImagePlaced /\ [Next]_vars => ImagePlaced'
  <2> SUFFICES ASSUME ImagePlaced, [Next]_vars PROVE ImagePlaced'
      OBVIOUS
  <2>1. CASE Convert
    <3>1. PICK hres \in HresValues, image \in Images, rotation \in Rotations,
               transform \in Transforms, j \in Jobs :
            LET frame == [w |-> hres, h |-> j.height]
                turned == Turned(image, rotation)
            IN  \E p \in Placements(turned, frame, transform) :
                  shot' = {[image |-> turned, frame |-> frame,
                            transform |-> transform, place |-> p]}
        BY <2>1 DEF Convert
    <3> DEFINE frame == [w |-> hres, h |-> j.height]
               turned == Turned(image, rotation)
    <3>2. frame \in Sized
        BY SizesAssumption, Numbers DEF Jobs, Sized, Positive
    <3>3. turned \in Sized
      <4>1. image \in Sized
          BY SizesAssumption DEF Sized, Positive
      <4> QED BY <4>1, TurnedTypes
    <3>4. PICK p \in Placements(turned, frame, transform) :
            shot' = {[image |-> turned, frame |-> frame,
                      transform |-> transform, place |-> p]}
        BY <3>1
    <3> HIDE DEF frame, turned
    <3>5. Placed(turned, frame, transform, p)
        BY <3>2, <3>3, PlacedTheorem
    <3> QED BY <3>4, <3>5 DEF ImagePlaced
  <2>2. CASE UNCHANGED shot
      BY <2>2 DEF ImagePlaced
  <2>3. CASE shot' = {}
      BY <2>3 DEF ImagePlaced
  <2> QED
      BY <2>1, <2>2, <2>3 DEF Next, Run, Install, ResetDevice, Mode, Start, Calibrate,
         Status, Drain, SendLine, TurnWheel, WheelStatus, Terminate, vars
<1> QED BY <1>1, <1>2, PTL DEF Spec

-----------------------------------------------------------------------------
(* How far a run is from its end: its stage, ...                           *)
RoomWanted == MIN_FREE_KB + DrainMarginKB
Stage ==
  CASE pc = "idle"                           -> 0
    [] pc = "terminate"                      -> 1
    [] pc \in {"wheel", "wheel_status"}      -> 2 + 2 * (job.passes - pass)
    [] pc \in {"status", "drain", "print"}   -> 3 + 2 * (job.passes - pass)
    [] pc = "calibrate"                      -> 8
    [] pc = "start"                          -> 9
    [] pc = "mode"                           -> 10

(* ... in it the polls or lines that are left, ...                         *)
Units ==
  CASE pc = "calibrate"                      -> CalPolls - polls
    [] pc = "wheel"                          -> PassPolls + 1
    [] pc = "wheel_status"                   -> PassPolls - polls
    [] pc \in {"status", "drain", "print"}   -> job.height - y
    [] OTHER                                 -> 0

(* ... and before a line the kilobytes that it waits for.                  *)
Micro ==
  CASE pc = "print"                                -> Burst - line_y
    [] pc = "status" /\ dev.free >= MIN_FREE_KB    -> BURST_SIZE + 1
    [] pc = "drain"             -> BURST_SIZE + 2 + (RoomWanted - dev.free)
    [] pc = "status" /\ dev.free < MIN_FREE_KB     -> BURST_SIZE + 3 + RoomWanted
    [] OTHER                                       -> 0

Fewer == \/ Stage' < Stage
         \/ Stage' = Stage /\ Units' < Units
         \/ Stage' = Stage /\ Units' = Units /\ Micro' < Micro

Numbered == Stage \in Nat /\ Units \in Nat /\ Micro \in Nat

(* No poll, second or line of a run is in vain: whatever the mock forgets  *)
(* at a poll, a second of waiting shows at least one kilobyte more         *)
(* (mock.py 117-131, exposure.py 251-259).                                 *)
NothingInVain == [][(Run => Fewer) /\ Numbered']_vars

(* What is known of the counters.                                          *)
Counters ==
  /\ pc \in Running => pass \in 1..job.passes
  /\ pc \in {"wheel", "wheel_status"} => pass < job.passes
  /\ pc = "calibrate" => polls =< CalPolls
  /\ pc = "wheel_status" => polls < PassPolls
  /\ pc = "drain" => dev.free < RoomWanted

USE DEF LineKB

(* A poll shows no less than was known, and after a second more.           *)
LEMMA PollFree ==
  ASSUME dev \in Devices, NEW ticks \in Nat, NEW then \in Nat, Polls(ticks, then)
  PROVE  /\ dev'.free \in 0..HARDWARE_BUFFER_KB /\ dev'.free >= dev.free
         /\ ticks >= TicksPerKB =>
              dev'.free = HARDWARE_BUFFER_KB \/ dev'.free >= dev.free + 1
<1> DEFINE H == HARDWARE_BUFFER_KB
<1>1. PICK late \in 0..Late : dev' = Later(CurrentStatus(Later(dev, ticks + late)), then)
  BY DEF Polls
<1> DEFINE s == dev.since + (ticks + late)
           q == s \div TicksPerKB
<1>2. /\ dev.free \in Nat /\ dev.free =< H /\ dev.since \in Nat /\ late \in Nat
      /\ H \in Nat /\ s \in Nat /\ s >= ticks
  BY Numbers DEF Devices
<1>3. q \in Nat /\ (ticks >= TicksPerKB => q >= 1)
  BY <1>2, Numbers DEF Positive
<1>4. dev'.free = Min({H, dev.free + q})
  BY <1>1 DEF CurrentStatus, Later, Devices
<1> HIDE DEF q
<1>5. dev'.free = IF H =< dev.free + q THEN H ELSE dev.free + q
  BY <1>2, <1>3, <1>4, MinOfTwo
<1> QED BY <1>2, <1>3, <1>5

LEMMA Bounds ==
  ASSUME DInv, Counters
  PROVE  /\ pc \in {"idle", "mode", "start"} \cup Running
         /\ job.passes \in {1, 3} /\ job.height \in Nat /\ pass \in Nat /\ y \in Nat
         /\ line_y \in Nat /\ polls \in Nat /\ dev \in Devices /\ dev.free \in Nat
         /\ RoomWanted \in Nat /\ RoomWanted >= MIN_FREE_KB /\ CalPolls \in Nat
         /\ PassPolls \in Nat /\ PassPolls > 0 /\ BURST_SIZE \in Nat /\ BURST_SIZE > 0
         /\ MIN_FREE_KB \in Nat
         /\ pc \in {"status", "drain"} => y < job.height
         /\ pc = "print" => y < job.height /\ Burst - line_y \in 1..BURST_SIZE
<1>1. /\ pc \in {"idle", "mode", "start"} \cup Running
      /\ job.passes \in {1, 3} /\ job.height \in Positive /\ pass \in Nat /\ y \in Nat
      /\ line_y \in Nat /\ polls \in Nat /\ dev \in Devices /\ dev.free \in Nat
  BY DEF DInv, Types, Devices
<1>2. /\ CalPolls \in Nat /\ PassPolls \in Nat /\ PassPolls > 0 /\ BURST_SIZE \in Nat
      /\ BURST_SIZE > 0 /\ RoomWanted \in Nat /\ RoomWanted >= MIN_FREE_KB
      /\ MIN_FREE_KB \in Nat
  BY DryRunAssumption DEF RoomWanted
<1>3. pc = "print" => y < job.height /\ Burst - line_y \in 1..BURST_SIZE
  <2>1. SUFFICES ASSUME pc = "print"
                 PROVE  y < job.height /\ Burst - line_y \in 1..BURST_SIZE
    OBVIOUS
  <2>2. y =< line_y /\ line_y < Burst
    BY <2>1 DEF DInv, InBurst
  <2>3. Burst \in Nat /\ Burst =< job.height /\ Burst =< y + BURST_SIZE
    BY <1>1, <2>2, BurstNumber DEF Positive
  <2> QED BY <1>1, <1>2, <2>2, <2>3 DEF Positive
<1> QED BY <1>1, <1>2, <1>3 DEF DInv, Positive

LEMMA NumberedHolds == ASSUME DInv, Counters PROVE Numbered
<1> USE Bounds DEF Numbered, Stage, Units, Micro
<1>1. CASE pc \in {"idle", "mode", "start", "terminate", "calibrate"}
  BY <1>1 DEF Counters
<1>2. CASE pc \in {"wheel", "wheel_status"}
  BY <1>2 DEF Counters
<1>3. CASE pc = "status"
  BY <1>3 DEF Counters, Running
<1>4. CASE pc = "drain"
  BY <1>4 DEF Counters, Running
<1>5. CASE pc = "print"
  BY <1>5 DEF Counters, Running
<1> QED BY <1>1, <1>2, <1>3, <1>4, <1>5 DEF Running

LEMMA StatusDown ==
  ASSUME DInv, Counters, Status \/ Drain PROVE Fewer /\ Counters'
<1> USE Bounds
<1>1. UNCHANGED <<job, pass, y>> /\ pc \in {"status", "drain"}
      /\ pc' \in {"status", "drain", "print"}
  BY DEF Status, Drain
<1>2. dev'.free \in Nat /\ dev'.free >= dev.free
  <2>1. Status => Polls(0, 0)
    BY DEF Status
  <2>2. Drain => Polls(SecondTicks, 0)
    BY DEF Drain
  <2> QED BY <2>1, <2>2, PollFree, Numbers DEF Positive
<1>3. CASE Status
  <2>1. /\ pc = "status" /\ line_y' = y
        /\ pc' = IF dev'.free < MIN_FREE_KB THEN "drain" ELSE "print"
    BY <1>3 DEF Status
  <2>2. Burst' - line_y' \in 1..BURST_SIZE
    <3>1. y < job.height /\ Burst' = Burst
      BY <1>1, <2>1 DEF Burst
    <3> QED BY <2>1, <3>1, BurstNumber DEF Positive
  <2>3. Stage' = Stage /\ Units' = Units
    BY <1>1, <2>1 DEF Stage, Units
  <2>4. ASSUME pc' = "print" PROVE Fewer
    <3>1. Micro' = Burst' - line_y'
      BY <2>4 DEF Micro
    <3>2. Micro \in Nat /\ Micro > BURST_SIZE
      BY <2>1 DEF Micro
    <3> QED BY <2>2, <2>3, <3>1, <3>2 DEF Fewer
  <2>5. ASSUME pc' = "drain" PROVE Fewer
    <3>1. dev'.free < MIN_FREE_KB /\ dev.free < MIN_FREE_KB
      BY <1>2, <2>1, <2>5
    <3>2. Micro' = BURST_SIZE + 2 + (RoomWanted - dev'.free)
      BY <2>5 DEF Micro, RoomWanted
    <3>3. Micro = BURST_SIZE + 3 + RoomWanted
      BY <2>1, <3>1 DEF Micro
    <3>4. Micro' < Micro
      BY <1>2, <3>2, <3>3
    <3> QED BY <2>3, <3>4 DEF Fewer
  <2>6. Fewer
    BY <2>1, <2>4, <2>5
  <2>7. Counters'
    BY <1>1, <1>2, <2>1 DEF Counters, Running, RoomWanted
  <2> QED BY <2>6, <2>7
<1>4. CASE Drain
  <2>1. /\ pc = "drain"
        /\ pc' = IF dev'.free < RoomWanted THEN pc ELSE "status"
    BY <1>4 DEF Drain, RoomWanted
  <2>2. dev'.free = HARDWARE_BUFFER_KB \/ dev'.free >= dev.free + 1
    <3>1. Polls(SecondTicks, 0) /\ SecondTicks >= TicksPerKB
      BY <1>4, DryRunAssumption DEF Drain
    <3> QED BY <3>1, PollFree, Numbers DEF Positive
  <2>3. HARDWARE_BUFFER_KB >= RoomWanted /\ dev.free < RoomWanted
    BY <2>1, DryRunAssumption DEF Counters, RoomWanted
  <2>4. Stage' = Stage /\ Units' = Units
    BY <1>1, <2>1 DEF Stage, Units
  <2>5. Micro' < Micro
    BY <1>2, <2>1, <2>2, <2>3, Numbers DEF Micro
  <2>6. Counters'
    BY <1>1, <1>2, <2>1 DEF Counters, Running, RoomWanted
  <2> QED BY <2>4, <2>5, <2>6 DEF Fewer
<1> QED BY <1>3, <1>4

LEMMA NumberedNext == DInv' /\ Counters' => Numbered'
<1>1. DInv /\ Counters => Numbered
  BY NumberedHolds
<1> QED BY <1>1, PTL

LEMMA CalibrateDown ==
  ASSUME DInv, Counters, Calibrate PROVE Fewer /\ Counters'
<1>1. pc = "calibrate" /\ dev.state = 1
  BY DEF Calibrate, DInv, Running
<1>2. /\ polls' = polls + 1 /\ job' = job /\ pass' = pass
      /\ pc' = IF polls >= CalPolls THEN "status" ELSE "calibrate"
  BY <1>1 DEF Calibrate
<1>3. polls =< CalPolls /\ pass \in 1..job.passes
  BY <1>1 DEF Counters, Running
<1>4. CASE polls >= CalPolls
  <2>1. Stage = 8 /\ Stage' = 3 + 2 * (job.passes - pass)
    BY <1>1, <1>2, <1>4 DEF Stage
  <2>2. Stage' =< 7 /\ Stage' \in Nat
    BY <1>3, <2>1, Bounds
  <2>3. Counters'
    BY <1>2, <1>3, <1>4 DEF Counters
  <2> QED BY <2>1, <2>2, <2>3 DEF Fewer
<1>5. CASE ~(polls >= CalPolls)
  <2>1. Stage' = Stage /\ Units = CalPolls - polls /\ Units' = CalPolls - polls'
    BY <1>1, <1>2, <1>5 DEF Stage, Units
  <2>2. Units' < Units
    BY <1>2, <2>1, Bounds
  <2>3. Counters'
    BY <1>2, <1>3, <1>5, Bounds DEF Counters
  <2> QED BY <2>1, <2>2, <2>3 DEF Fewer
<1> QED BY <1>4, <1>5

LEMMA PrintDown ==
  ASSUME DInv, Counters, SendLine PROVE Fewer /\ Counters'
<1> USE Bounds
<1>1. /\ pc = "print" /\ job' = job /\ pass' = pass /\ line_y' = line_y + 1
      /\ y < job.height /\ Burst - line_y \in 1..BURST_SIZE
      /\ y' = (IF line_y + 1 = Burst THEN Burst ELSE y)
  BY DEF SendLine
<1>2. Burst \in Nat /\ y < Burst /\ Burst =< job.height /\ pass \in 1..job.passes
  BY <1>1, BurstNumber DEF Positive, Counters, Running
<1>3. CASE line_y + 1 # Burst
  <2>1. y' = y /\ pc' = "print"
    BY <1>1, <1>2, <1>3 DEF SendLine
  <2>2. Burst' = Burst
    BY <1>1, <2>1 DEF Burst
  <2>3. Stage' = Stage /\ Units' = Units
    BY <1>1, <2>1 DEF Stage, Units
  <2>4. Micro = Burst - line_y /\ Micro' = Burst - (line_y + 1)
    BY <1>1, <2>1, <2>2 DEF Micro
  <2>5. Counters'
    BY <1>1, <1>2, <2>1 DEF Counters
  <2> QED BY <1>1, <1>2, <2>3, <2>4, <2>5 DEF Fewer
<1>4. CASE line_y + 1 = Burst
  <2>1. /\ y' = Burst /\ y' # y
        /\ pc' = IF y' < job.height THEN "status"
                 ELSE IF pass < job.passes THEN "wheel" ELSE "terminate"
    BY <1>1, <1>2, <1>4 DEF SendLine
  <2>2. Counters'
    BY <1>1, <1>2, <2>1 DEF Counters
  <2>3. Stage = 3 + 2 * (job.passes - pass) /\ Units = job.height - y
    BY <1>1 DEF Stage, Units
  <2>4. ASSUME pc' = "status" PROVE Fewer
    <3>1. Stage' = Stage /\ Units' = job.height - y'
      BY <1>1, <2>3, <2>4 DEF Stage, Units
    <3> QED BY <1>2, <2>1, <2>3, <3>1 DEF Fewer
  <2>5. ASSUME pc' = "wheel" PROVE Fewer
    <3>1. Stage' = 2 + 2 * (job.passes - pass)
      BY <1>1, <2>5 DEF Stage
    <3> QED BY <1>2, <2>3, <3>1 DEF Fewer
  <2>6. ASSUME pc' = "terminate" PROVE Fewer
    <3>1. Stage' = 1
      BY <2>6 DEF Stage
    <3> QED BY <1>2, <2>3, <3>1 DEF Fewer
  <2> QED BY <2>1, <2>2, <2>4, <2>5, <2>6
<1> QED BY <1>3, <1>4

LEMMA WheelDown ==
  ASSUME DInv, Counters, TurnWheel \/ WheelStatus PROVE Fewer /\ Counters'
<1> USE Bounds
<1>1. /\ pc \in {"wheel", "wheel_status"} /\ job' = job
      /\ pass \in 1..job.passes /\ pass < job.passes
  BY DEF TurnWheel, WheelStatus, Counters, Running
<1>2. CASE TurnWheel
  <2>1. pc = "wheel" /\ pc' = "wheel_status" /\ polls' = 0 /\ pass' = pass
    BY <1>2 DEF TurnWheel
  <2>2. Stage' = Stage /\ Units = PassPolls + 1 /\ Units' = PassPolls - 0
    BY <1>1, <2>1 DEF Stage, Units
  <2>3. Counters'
    BY <1>1, <2>1 DEF Counters
  <2> QED BY <2>2, <2>3 DEF Fewer
<1>3. CASE WheelStatus
  <2>1. /\ pc = "wheel_status" /\ polls' \in {polls + 1, PassPolls} /\ polls < PassPolls
        /\ IF polls' = PassPolls
           THEN pc' = "status" /\ pass' = pass + 1
           ELSE pc' = pc /\ pass' = pass
    BY <1>3 DEF WheelStatus, Counters
  <2>2. CASE polls' = PassPolls
    <3>1. Stage = 2 + 2 * (job.passes - pass) /\ Stage' = 3 + 2 * (job.passes - (pass + 1))
      BY <1>1, <2>1, <2>2 DEF Stage
    <3>2. Counters'
      BY <1>1, <2>1, <2>2 DEF Counters
    <3> QED BY <1>1, <3>1, <3>2 DEF Fewer
  <2>3. CASE polls' # PassPolls
    <3>1. Stage' = Stage /\ Units = PassPolls - polls /\ Units' = PassPolls - (polls + 1)
      BY <1>1, <2>1, <2>3 DEF Stage, Units
    <3>2. Counters'
      BY <1>1, <2>1, <2>3 DEF Counters
    <3> QED BY <3>1, <3>2 DEF Fewer
  <2> QED BY <2>2, <2>3
<1> QED BY <1>2, <1>3

LEMMA EndDown ==
  ASSUME DInv, Counters, Mode \/ Start \/ Terminate PROVE Fewer /\ Counters'
<1> USE DEF Stage, Counters, Fewer, Running
<1>1. CASE Mode
  BY <1>1 DEF Mode
<1>2. CASE Start
  BY <1>2, Bounds DEF Start
<1>3. CASE Terminate
  BY <1>3 DEF Terminate
<1> QED BY <1>1, <1>2, <1>3

LEMMA IdleCounters ==
  ASSUME Counters, Convert \/ Install \/ ResetDevice \/ UNCHANGED vars
  PROVE  Counters'
BY DEF Counters, Running, Convert, Install, ResetDevice, vars, counters

(* What RunEnds rests on besides fairness: a run on the mock takes a      *)
(* finite number of steps, with every size, pace and lateness that the     *)
(* assumptions allow.                                                      *)
THEOREM RunStepsCount == Spec => NothingInVain
<1> DEFINE Inv == DInv /\ Counters
           A == (Run => Fewer) /\ Numbered'
<1>1. Init => Inv
  BY InitLemma DEF Init, Counters, Running
<1>2. Inv /\ [Next]_vars => Inv' /\ A
  <2> SUFFICES ASSUME DInv, Counters, [Next]_vars
               PROVE  DInv' /\ Counters' /\ (Run => Fewer) /\ Numbered'
    OBVIOUS
  <2>1. DInv'
    BY IdleLemma, StartLemma, PollingLemma, PrintLemma, WheelLemma, TerminateLemma,
       StutterLemma DEF Next, Run
  <2>2. Run => Fewer /\ Counters'
    BY StatusDown, CalibrateDown, PrintDown, WheelDown, EndDown DEF Run
  <2>3. Counters'
    BY <2>2, IdleCounters DEF Next
  <2>4. Numbered'
    BY <2>1, <2>3, NumberedNext
  <2> QED BY <2>1, <2>2, <2>3, <2>4
<1>3. Inv /\ [Next]_vars => [A]_vars
  BY <1>2
<1> QED BY <1>1, <1>2, <1>3, PTL DEF Spec, NothingInVain
=============================================================================
