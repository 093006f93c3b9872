--------------------------- MODULE ContractProof ---------------------------
(* Exposure implements Frame, for every value of the constants: each step  *)
(* of a call is a step of the contract, or leaves what the caller can see  *)
(* as it was.                                                              *)
EXTENDS ExposureProof

(* What the contract sees of a step.                                       *)
SameFrame == (dev'.phase = "idle") = (dev.phase = "idle")
             /\ dev'.got = dev.got /\ dev'.film = dev.film
Stutters == UNCHANGED <<job, verdicts>> /\ SameFrame
Opens == /\ UNCHANGED <<job, verdicts>> /\ verdicts = << >>
         /\ dev.phase = "idle" /\ dev'.phase # "idle"
         /\ dev'.got = Blank /\ dev.film = << >> /\ dev'.film = dev.film
Lights == /\ UNCHANGED <<job, verdicts>> /\ verdicts = << >>
          /\ dev.phase # "idle" /\ dev'.phase # "idle"
          /\ dev.got = SentRows /\ line_y < Height
          /\ dev'.got = [SentRows EXCEPT ![Color] = Append(@, line_y)]
          /\ dev'.film = dev.film
Advances == /\ UNCHANGED <<job, verdicts>>
            /\ dev.phase # "idle" /\ dev'.phase = "idle" /\ dev'.got = Blank
            /\ dev'.film = Append(dev.film, dev.got)
Loses == /\ UNCHANGED <<job, verdicts>>
         /\ dev'.phase = "idle" /\ dev'.got = Blank /\ dev'.film = dev.film
Tells == /\ UNCHANGED <<job, dev>> /\ verdicts = << >>
         /\ \E v \in Verdicts : /\ verdicts' = <<v>>
                                /\ v = "complete" => dev.film = <<Whole>>
Corrects == /\ UNCHANGED <<job, dev>> /\ verdicts = <<"complete">>
            /\ \E v \in {"aborted", "error"} : verdicts' = <<"complete", v>>

-----------------------------------------------------------------------------
LEMMA FunctionIsSeq ==
  ASSUME NEW T, NEW n \in Nat, NEW g \in [1..n -> T]
  PROVE  g \in Seq(T) /\ Len(g) = n
  OBVIOUS

(* The mapping, on the values that occur.                                  *)
LEMMA LengthsFacts ==
  ASSUME NEW s \in Seq([Colors -> Seq(Nat)]), NEW f \in [Colors -> Seq(Nat)]
  PROVE  /\ Lengths(f) \in [Colors -> Nat]
         /\ Films(Append(s, f)) = Append(Films(s), Lengths(f))
<1>1. ASSUME NEW g \in [Colors -> Seq(Nat)]
      PROVE  Lengths(g) \in [Colors -> Nat]
  <2>1. \A c \in Colors : Len(g[c]) \in Nat  OBVIOUS
  <2> QED  BY <2>1 DEF Lengths
<1>2. ASSUME NEW t \in Seq([Colors -> Seq(Nat)])
      PROVE  /\ Films(t) \in Seq([Colors -> Nat])
             /\ Len(Films(t)) = Len(t)
             /\ \A n \in 1..Len(t) : Films(t)[n] = Lengths(t[n])
  <2>1. \A n \in 1..Len(t) : Lengths(t[n]) \in [Colors -> Nat]
    BY <1>1
  <2>2. Len(t) \in Nat /\ Films(t) \in [1..Len(t) -> [Colors -> Nat]]
    BY <2>1 DEF Films
  <2>3. Films(t) \in Seq([Colors -> Nat]) /\ Len(Films(t)) = Len(t)
    BY <2>2, FunctionIsSeq
  <2> QED  BY <2>3 DEF Films
<1>3. Append(s, f) \in Seq([Colors -> Seq(Nat)]) /\ Len(Append(s, f)) = Len(s) + 1
  OBVIOUS
<1>4. \A n \in 1..Len(s) + 1 :
         Films(Append(s, f))[n] = Append(Films(s), Lengths(f))[n]
  <2>1. TAKE n \in 1..Len(s) + 1
  <2>2. Films(Append(s, f))[n] = Lengths(Append(s, f)[n])  BY <1>2, <1>3
  <2>3. CASE n = Len(s) + 1
    <3>1. Append(s, f)[n] = f  BY <2>3
    <3>2. Append(Films(s), Lengths(f))[n] = Lengths(f)  BY <1>1, <1>2, <2>3
    <3> QED  BY <2>2, <3>1, <3>2
  <2>4. CASE n \in 1..Len(s)
    <3>1. Append(s, f)[n] = s[n]  BY <2>4
    <3>2. Append(Films(s), Lengths(f))[n] = Films(s)[n]  BY <1>1, <1>2, <2>4
    <3> QED  BY <1>2, <2>2, <2>4, <3>1, <3>2
  <2>5. n = Len(s) + 1 \/ n \in 1..Len(s)
    <3>1. Len(s) \in Nat /\ n \in 1..Len(s) + 1  BY <2>1
    <3> DEFINE k == Len(s)
    <3> HIDE DEF k
    <3>2. k \in Nat /\ n \in 1..k + 1  BY <3>1 DEF k
    <3>3. n = k + 1 \/ n \in 1..k  BY <3>2
    <3> QED  BY <3>3 DEF k
  <2> QED  BY <2>3, <2>4, <2>5
<1>5. /\ Films(Append(s, f)) \in Seq([Colors -> Nat])
      /\ Append(Films(s), Lengths(f)) \in Seq([Colors -> Nat])
      /\ Len(Films(Append(s, f))) = Len(s) + 1
      /\ Len(Append(Films(s), Lengths(f))) = Len(s) + 1
  <2>1. /\ Films(Append(s, f)) \in Seq([Colors -> Nat])
        /\ Len(Films(Append(s, f))) = Len(s) + 1
    BY <1>2, <1>3
  <2>2. Films(s) \in Seq([Colors -> Nat]) /\ Len(Films(s)) = Len(s)
    BY <1>2
  <2>3. Lengths(f) \in [Colors -> Nat]  BY <1>1
  <2> DEFINE T == [Colors -> Nat]
             l == Lengths(f)
             u == Films(s)
  <2>4. u \in Seq(T) /\ l \in T  BY <2>2, <2>3
  <2> HIDE DEF T, l, u
  <2>5. Append(u, l) \in Seq(T) /\ Len(Append(u, l)) = Len(u) + 1
    BY <2>4
  <2> QED  BY <2>1, <2>2, <2>5 DEF T, l, u
<1>6. Films(Append(s, f)) = Append(Films(s), Lengths(f))
  BY <1>4, <1>5, SeqEqual
<1> QED  BY <1>1, <1>6

(* A fresh frame is dark, and no film is no film.                          *)
LEMMA DarkFacts ==
  /\ Lengths(Blank) = Contract!Dark
  /\ Films(<< >>) = << >>
<1>1. Lengths(Blank) = Contract!Dark
  BY DEF Lengths, Blank, Contract!Dark
<1>2. Films(<< >>) = << >>
  BY DEF Films
<1> QED  BY <1>1, <1>2

(* The frame a whole job lights.                                           *)
LEMMA WholeFacts ==
  ASSUME TypeOK
  PROVE  /\ Whole \in [Colors -> Seq(Nat)]
         /\ Films(<<Whole>>) = <<Contract!InFull>>
<1>1. \A c \in Colors : /\ Rows(IF c \in JobColors THEN Height ELSE 0) \in Seq(Nat)
                        /\ Len(Rows(IF c \in JobColors THEN Height ELSE 0)) =
                             IF c \in JobColors THEN Height ELSE 0
  BY RowsFacts, NumberFacts
<1>2. Whole \in [Colors -> Seq(Nat)]  BY <1>1 DEF Whole
<1>3. Lengths(Whole) = Contract!InFull
  BY <1>1 DEF Lengths, Whole, Contract!InFull, JobColors
<1>4. Films(<<Whole>>) = <<Lengths(Whole)>>
  <2>1. << >> \in Seq([Colors -> Seq(Nat)])  OBVIOUS
  <2>2. Films(Append(<< >>, Whole)) = Append(Films(<< >>), Lengths(Whole))
    BY <1>2, <2>1, LengthsFacts
  <2>3. Append(<< >>, Whole) = <<Whole>>  OBVIOUS
  <2>4. Append(<< >>, Lengths(Whole)) = <<Lengths(Whole)>>  OBVIOUS
  <2> QED  BY <2>2, <2>3, <2>4, DarkFacts
<1> QED  BY <1>2, <1>3, <1>4

-----------------------------------------------------------------------------
(* What each action of a call is to the contract.                          *)
Visible == \/ Stutters \/ Opens \/ Lights \/ Advances \/ Loses \/ Tells
           \/ Corrects

LEMMA StepIsVisible ==
  ASSUME IInv, [Next]_vars
  PROVE  Visible
<1> USE DeviceFields DEF IInv, Tried, Ran, Refused, loop, hist
<1>0. /\ pc \in Body \ {"complete"} => dev.film = << >>
      /\ pc \in Body => verdicts = << >>
  BY DEF PhaseInv, ToldInv
<1>1. CASE ModeSelect
  BY <1>1, ModeSelectFacts DEF Visible, Stutters, SameFrame
<1>2. CASE SetColorTab
  <2>1. i \in Colors  BY <1>2, SetColorTabFacts DEF LoopInv
  <2> QED  BY <1>2, <2>1, SetColorTabFacts DEF Visible, Stutters, SameFrame
<1>3. CASE StartExposure
  <2>1. /\ pc \in Body \ {"complete"} /\ UNCHANGED <<job, verdicts>>
        /\ Tried(AcceptsStart(dev), AfterStart(dev, job.noCal))
    BY <1>3, StartFacts DEF Body
  <2>2. CASE Ran(AcceptsStart(dev), AfterStart(dev, job.noCal))
    <3>1. /\ dev.phase = "idle" /\ dev'.phase = "exposing"
          /\ dev'.got = Blank /\ dev'.film = dev.film
      BY <2>2 DEF AcceptsStart
    <3> QED  BY <1>0, <2>1, <3>1 DEF Visible, Opens
  <2>3. CASE dev' = dev \/ Refused
    BY <2>1, <2>3 DEF Visible, Stutters, SameFrame
  <2> QED  BY <2>1, <2>2, <2>3
<1>4. CASE CalibrationStatus \/ SendStatus \/ DrainStatus \/ WheelStatus
  <2>1. UNCHANGED <<job, verdicts>>
    BY <1>4, CalibrationFacts, SendFacts, DrainFacts, WheelFacts
  <2> QED  BY <1>4, <2>1, StatusFacts DEF Visible, Stutters, SameFrame
<1>5. CASE PrintLine
  <2>1. /\ pc = "print" /\ UNCHANGED <<job, verdicts>> /\ line_y < Height
        /\ Tried(AcceptsPrint(dev), AfterPrint(dev, Color, line_y))
    <3>1. /\ pc = "print" /\ UNCHANGED <<job, verdicts>> /\ line_y < Burst
          /\ Burst \in y + 1..Height
          /\ Tried(AcceptsPrint(dev), AfterPrint(dev, Color, line_y))
      BY <1>5, PrintFacts
    <3>2. y \in Nat /\ line_y \in Nat  BY DEF TypeOK
    <3>3. line_y < Height  BY ONLY <3>1, <3>2, NumberFacts
    <3> QED  BY <3>1, <3>3
  <2>2. CASE Ran(AcceptsPrint(dev), AfterPrint(dev, Color, line_y))
    <3>1. dev.phase = "exposing" /\ dev.got = SentRows
      BY <2>1, <2>2 DEF AcceptsPrint, LaidInv, Body
    <3>2. dev'.phase = dev.phase /\ dev'.film = dev.film
          /\ \/ dev'.got = dev.got
             \/ dev'.got = [SentRows EXCEPT ![Color] = Append(@, line_y)]
      <4>1. dev.free >= LineKB \/ dev.free < LineKB
        BY BufferAssumption DEF TypeOK, Devices, Recorders
      <4>2. dev' = AfterPrint(dev, Color, line_y)  BY <2>2
      <4>3. /\ AfterPrint(dev, Color, line_y).phase = dev.phase
            /\ AfterPrint(dev, Color, line_y).film = dev.film
            /\ \/ AfterPrint(dev, Color, line_y).got = dev.got
               \/ AfterPrint(dev, Color, line_y).got =
                    [dev.got EXCEPT ![Color] = Append(@, line_y)]
        BY <4>1
      <4> QED  BY <3>1, <4>2, <4>3
    <3>3. verdicts = << >>  BY <1>0, <2>1 DEF Body
    <3> QED  BY <2>1, <3>1, <3>2, <3>3 DEF Visible, Stutters, SameFrame, Lights
  <2>3. CASE dev' = dev \/ Refused
    BY <2>1, <2>3 DEF Visible, Stutters, SameFrame
  <2> QED  BY <2>1, <2>2, <2>3
<1>6. CASE Terminate \/ TerminateStopped
  <2>1. /\ UNCHANGED <<job, verdicts>>
        /\ Tried(AcceptsTerminate(dev), AfterTerminate(dev))
    BY <1>6, TerminateFacts, TerminateStoppedFacts
  <2>2. CASE Ran(AcceptsTerminate(dev), AfterTerminate(dev))
    BY <2>1, <2>2 DEF Visible, Advances, AcceptsTerminate
  <2>3. CASE dev' = dev \/ Refused
    BY <2>1, <2>3 DEF Visible, Stutters, SameFrame
  <2> QED  BY <2>1, <2>2, <2>3
<1>7. CASE StopPrint
  BY <1>7, StopFacts DEF Visible, Stutters, SameFrame
<1>8. CASE Quiet
  <2>1. UNCHANGED <<job, dev>>  BY <1>8, QuietFacts
  <2>2. CASE UNCHANGED verdicts
    BY <2>1, <2>2 DEF Visible, Stutters, SameFrame
  <2>3. ASSUME NEW v \in Verdicts, verdicts = << >>, Deliver(v),
               v = "complete" => dev.film = <<Whole>>
        PROVE  Visible
    <3>1. verdicts' = <<v>> \/ UNCHANGED verdicts  BY <2>3 DEF Deliver
    <3> QED  BY <2>1, <2>2, <2>3, <3>1 DEF Visible, Tells
  <2>4. CASE pc = "complete" /\ Deliver("complete")
    <3>1. verdicts = << >> /\ dev.film = <<Whole>>
      BY <1>0, <2>4 DEF Body, FilmInv
    <3> QED  BY <2>3, <2>4, <3>1 DEF Verdicts
  <2>5. ASSUME NEW v \in {"aborted", "error"}, Deliver(v),
               verdicts \in {<< >>, <<"complete">>}
        PROVE  Visible
    <3>1. CASE verdicts = << >>
      BY <2>3, <2>5, <3>1 DEF Verdicts
    <3>2. CASE verdicts = <<"complete">>
      <4>1. Append(<<"complete">>, v) = <<"complete", v>>
        <5>1. "complete" \in Verdicts /\ v \in Verdicts
          BY DEF Verdicts
        <5> QED  BY ONLY <5>1, AppendPair
      <4>2. verdicts' = <<"complete", v>> \/ UNCHANGED verdicts
        BY <2>5, <3>2, <4>1 DEF Deliver
      <4> QED  BY <2>1, <2>2, <3>2, <4>2 DEF Visible, Corrects
    <3> QED  BY <2>5, <3>1, <3>2
  <2>6. CASE pc \in {"abort_emit", "quit_emit"} /\ Deliver("aborted")
    <3>1. verdicts \in {<< >>, <<"complete">>}
      BY <2>6 DEF ToldInv, Aborting
    <3> QED  BY <2>5, <2>6, <3>1
  <2>7. CASE pc \in {"err_emit", "exc_emit"} /\ Deliver("error")
    <3>1. verdicts \in {<< >>, <<"complete">>}
      BY <2>7 DEF ToldInv, Failing
    <3> QED  BY <2>5, <2>7, <3>1
  <2> QED  BY <1>8, <2>2, <2>4, <2>6, <2>7, QuietFacts
<1>9. CASE Ambient
  BY <1>9, AmbientFacts DEF Visible, Stutters, Loses, SameFrame
<1> QED
  BY <1>1, <1>2, <1>3, <1>4, <1>5, <1>6, <1>7, <1>8, <1>9, NextCases

-----------------------------------------------------------------------------
(* How many lines each channel holds, before and after the next one.       *)
LEMMA SentLengths ==
  ASSUME TypeOK
  PROVE  /\ \A c \in Colors : Lengths(SentRows)[c] = Sent(c)
         /\ Sent(Color) = line_y
         /\ Lengths([SentRows EXCEPT ![Color] = Append(@, line_y)]) =
              [Lengths(SentRows) EXCEPT ![Color] = @ + 1]
<1>1. Color \in Colors /\ line_y \in Nat  BY ChannelFacts DEF TypeOK
<1>2. Sent(Color) = line_y  BY DEF Sent
<1>3. ASSUME NEW c \in Colors
      PROVE  SentRows[c] \in Seq(Nat) /\ Len(SentRows[c]) = Sent(c)
  <2>1. Sent(c) \in Nat  BY <1>1, NumberFacts DEF Sent
  <2> QED  BY <2>1, RowsFacts DEF SentRows
<1>4. \A c \in Colors : Lengths(SentRows)[c] = Sent(c)
  BY <1>3 DEF Lengths
<1>5. ASSUME NEW c \in Colors
      PROVE  Len([SentRows EXCEPT ![Color] = Append(@, line_y)][c]) =
               IF c = Color THEN Sent(c) + 1 ELSE Sent(c)
  <2>1. CASE c = Color
    <3>1. [SentRows EXCEPT ![Color] = Append(@, line_y)][c] =
            Append(SentRows[c], line_y)
      BY <1>1, <2>1 DEF SentRows
    <3>2. Len(Append(SentRows[c], line_y)) = Len(SentRows[c]) + 1
      BY <1>1, <1>3
    <3> QED  BY <1>3, <2>1, <3>1, <3>2
  <2>2. CASE c # Color
    <3>1. [SentRows EXCEPT ![Color] = Append(@, line_y)][c] = SentRows[c]
      BY <2>2 DEF SentRows
    <3> QED  BY <1>3, <2>2, <3>1
  <2> QED  BY <2>1, <2>2
<1>6. Lengths([SentRows EXCEPT ![Color] = Append(@, line_y)]) =
        [Lengths(SentRows) EXCEPT ![Color] = @ + 1]
  BY <1>1, <1>4, <1>5 DEF Lengths
<1> QED  BY <1>2, <1>4, <1>6

LEMMA EarlierFull ==
  ASSUME TypeOK, NEW q \in 1..pass - 1
  PROVE  job.channels[q] \in Colors /\ Sent(job.channels[q]) = Height
<1>1. job \in Jobs /\ pass \in 1..Len(job.channels)  BY DEF TypeOK
<1>2. CASE job.channels = <<RED, GREEN, BLUE>>
  <2>1. Len(job.channels) = 3 /\ pass \in {1, 2, 3}  BY <1>1, <1>2
  <2>2. q \in {1, 2} /\ q < pass  BY <2>1
  <2>3. /\ job.channels[q] = q - 1 /\ Color = pass - 1
        /\ job.channels[q] \in JobColors
    BY <1>2, <2>1, <2>2 DEF Color, JobColors, RED, GREEN, BLUE
  <2>4. job.channels[q] # Color /\ job.channels[q] < Color
    BY <2>1, <2>2, <2>3
  <2> QED  BY <2>2, <2>3, <2>4 DEF Sent, Colors, RED, GREEN, BLUE
<1>3. CASE \E c \in Colors : job.channels = <<c>>
  <2>1. Len(job.channels) = 1  BY <1>3
  <2> QED  BY <1>1, <2>1
<1> QED  BY <1>1, <1>2, <1>3 DEF Jobs, Channels

-----------------------------------------------------------------------------
(* What is visible of a step is a step of the contract.                    *)
LEMMA VisibleIsContract ==
  ASSUME IInv, Visible
  PROVE  [Contract!Next]_(Contract!vars)
<1> USE DEF Contract!Next, Contract!vars
<1>0. /\ TypeOK
      /\ dev.film \in Seq([Colors -> Seq(Nat)]) /\ dev.got \in [Colors -> Seq(Nat)]
  BY DEF IInv, TypeOK, Devices, Recorders
<1>1. CASE Stutters
  <2>1. UNCHANGED <<job.channels, dev.phase # "idle", dev.got, dev.film, verdicts>>
    BY <1>1 DEF Stutters, SameFrame
  <2> QED  BY <2>1 DEF Lengths, Films, Last
<1>2. CASE Opens
  <2>1. Contract!Open
    BY <1>2, DarkFacts DEF Opens, Contract!Open, Last
  <2> QED  BY <2>1
<1>3. CASE Lights
  <2>1. /\ Color \in Colors /\ pass \in 1..Len(job.channels)
        /\ line_y \in Nat /\ line_y < Height
    BY <1>0, <1>3, ChannelFacts DEF TypeOK, Lights
  <2>2. /\ Lengths(dev.got)[Color] = line_y
        /\ \A q \in 1..pass - 1 : Lengths(dev.got)[job.channels[q]] = Height
    BY <1>0, <1>3, <2>1, SentLengths, EarlierFull DEF Lights
  <2>3. Lengths(dev.got)' = [Lengths(dev.got) EXCEPT ![Color] = @ + 1]
    BY <1>0, <1>3, <2>1, SentLengths DEF Lights, Lengths
  <2>4. Last(verdicts) = "none" /\ Last(verdicts)' = "none"
    BY <1>3 DEF Lights, Last
  <2>5. Contract!Light(pass)
    BY <1>3, <2>1, <2>2, <2>3, <2>4
       DEF Lights, Contract!Light, Color, Films, Lengths
  <2> QED  BY <2>1, <2>5
<1>4. CASE Advances
  <2>1. Films(dev.film)' = Append(Films(dev.film), Lengths(dev.got))
    BY <1>0, <1>4, LengthsFacts, ZenonT(60) DEF Advances, Films, Lengths
  <2>2. Contract!Advance
    BY <1>4, <2>1, DarkFacts, SMTT(30)
    DEF Advances, Contract!Advance, Last, Lengths
  <2> QED  BY <2>2
<1>5. CASE Loses
  <2>1. Contract!Lose
    BY <1>5, DarkFacts DEF Loses, Contract!Lose, Films, Last, Lengths
  <2> QED  BY <2>1
<1>6. CASE Tells
  <2>1. PICK v \in Verdicts : /\ verdicts' = <<v>>
                              /\ v = "complete" => dev.film = <<Whole>>
    BY <1>6 DEF Tells
  <2>2. Last(verdicts) = "none" /\ Last(verdicts)' = v
    BY <1>6, <2>1 DEF Tells, Last
  <2>3. v = "complete" => Films(dev.film) = <<Contract!InFull>>
    BY <1>0, <2>1, WholeFacts
  <2>4. Contract!Tell(v)
    BY <1>6, <2>2, <2>3 DEF Tells, Contract!Tell, Films, Lengths
  <2> QED  BY <2>4 DEF Verdicts
<1>7. CASE Corrects
  <2>1. Last(verdicts) = "complete" /\ Last(verdicts)' \in {"aborted", "error"}
    BY <1>7 DEF Corrects, Last
  <2>2. Contract!Correct
    BY <1>7, <2>1 DEF Corrects, Contract!Correct, Films, Lengths
  <2> QED  BY <2>2
<1> QED
  BY <1>1, <1>2, <1>3, <1>4, <1>5, <1>6, <1>7 DEF Visible

LEMMA InitIsContract ==
  ASSUME Init
  PROVE  Contract!Init
<1>1. job.channels \in Channels  BY DEF Init, Jobs
<1>2. dev.phase = "idle" /\ dev.got = Blank /\ dev.film = << >>
  BY DEF Init, Ready
<1>3. Last(verdicts) = "none"  BY DEF Init, Last
<1> QED  BY <1>1, <1>2, <1>3, DarkFacts DEF Contract!Init

(* Exposure implements Frame: every behaviour of run_exposure, its faults, *)
(* aborts and power cycles included, is one its caller was promised.       *)
THEOREM ImplementsContract == Spec => ContractSpec
<1>1. Init => Contract!Init  BY InitIsContract
<1>2. IInv /\ [Next]_vars => [Contract!Next]_(Contract!vars)
  BY StepIsVisible, VisibleIsContract
<1> QED
  BY <1>1, <1>2, Invariance, PTL DEF Spec, ContractSpec, Contract!Spec

-----------------------------------------------------------------------------
(* What the contract is good for: from here on only its steps are used.    *)
LitFrames == [Colors -> 0..Height]
TakesTurns(o, g) ==
  \A p \in 1..Len(o), q \in 1..Len(o) : q < p /\ g[o[p]] > 0 => g[o[q]] = Height

ContractTypes ==
  /\ job.channels \in Channels
  /\ Lengths(dev.got) \in LitFrames
  /\ Films(dev.film) \in Seq(LitFrames)
ContractInv == ContractTypes /\ Contract!Promise

LEMMA OrderFacts ==
  ASSUME NEW o \in Channels
  PROVE  /\ Len(o) \in Nat
         /\ \A p \in 1..Len(o) : o[p] \in Colors
         /\ \A p, q \in 1..Len(o) : p # q => o[p] # o[q]
<1>1. CASE o = <<RED, GREEN, BLUE>>
  <2>1. Len(o) = 3 /\ o[1] = RED /\ o[2] = GREEN /\ o[3] = BLUE
    BY <1>1
  <2>2. \A p \in 1..Len(o) : p = 1 \/ p = 2 \/ p = 3
    BY <2>1
  <2> QED  BY <2>1, <2>2 DEF Colors, RED, GREEN, BLUE
<1>2. ASSUME NEW c \in Colors, o = <<c>>
      PROVE  Len(o) = 1 /\ o[1] = c
  BY <1>2
<1>3. CASE \E c \in Colors : o = <<c>>
  <2>1. Len(o) = 1 /\ o[1] \in Colors
    BY <1>2, <1>3
  <2>2. \A p \in 1..Len(o) : p = 1
    BY <2>1
  <2> QED  BY <2>1, <2>2
<1> QED  BY <1>1, <1>3 DEF Channels

LEMMA DarkInOrder ==
  /\ Height \in Nat /\ Contract!Dark \in LitFrames
  /\ \A o \in Channels : TakesTurns(o, Contract!Dark)
<1>1. Height \in Nat  BY ExposureAssumption
<1>2. Contract!Dark \in LitFrames  BY <1>1 DEF Contract!Dark, LitFrames
<1>3. ASSUME NEW o \in Channels, NEW p \in 1..Len(o)
      PROVE  Contract!Dark[o[p]] = 0
  BY OrderFacts DEF Contract!Dark
<1> QED  BY <1>1, <1>2, <1>3 DEF TakesTurns

(* A line more on the frame in the gate: the channels after it are dark.   *)
LEMMA LightInOrder ==
  ASSUME NEW o \in Channels, NEW g \in LitFrames, TakesTurns(o, g),
         NEW p \in 1..Len(o), g[o[p]] < Height,
         \A q \in 1..p - 1 : g[o[q]] = Height
  PROVE  LET m == [g EXCEPT ![o[p]] = @ + 1] IN m \in LitFrames /\ TakesTurns(o, m)
<1> DEFINE m == [g EXCEPT ![o[p]] = @ + 1]
<1>1. /\ Height \in Nat /\ Len(o) \in Nat
      /\ \A a \in 1..Len(o) : o[a] \in Colors /\ g[o[a]] \in 0..Height
      /\ \A a, b \in 1..Len(o) : a # b => o[a] # o[b]
  BY OrderFacts, ExposureAssumption DEF LitFrames
<1>2. m \in LitFrames
  <2>1. g[o[p]] + 1 \in 0..Height  BY <1>1
  <2> QED  BY <1>1, <2>1 DEF LitFrames
<1>3. \A a \in 1..Len(o) : m[o[a]] = IF a = p THEN g[o[p]] + 1 ELSE g[o[a]]
  BY <1>1 DEF LitFrames
<1>4. ASSUME NEW a \in 1..Len(o), NEW b \in 1..Len(o), b < a, m[o[a]] > 0
      PROVE  m[o[b]] = Height
  <2>1. CASE a = p
    <3>1. b \in 1..p - 1 /\ b # p  BY <1>1, <1>4, <2>1
    <3> QED  BY <1>3, <3>1
  <2>2. CASE a # p
    <3>1. g[o[a]] > 0  BY <1>3, <1>4, <2>2
    <3>2. g[o[b]] = Height  BY <1>4, <3>1 DEF TakesTurns
    <3>3. b # p  BY <1>1, <3>2
    <3> QED  BY <1>3, <3>2, <3>3
  <2> QED  BY <2>1, <2>2
<1> HIDE DEF m
<1> QED  BY <1>2, <1>4 DEF TakesTurns, m

LEMMA ContractInit == Contract!Init => ContractInv
<1> SUFFICES ASSUME Contract!Init PROVE ContractInv
  OBVIOUS
<1>1. /\ job.channels \in Channels /\ Lengths(dev.got) = Contract!Dark
      /\ Films(dev.film) = << >> /\ Last(verdicts) = "none"
  BY DEF Contract!Init
<1>2. Contract!InTurn(Contract!Dark)
  BY <1>1, DarkInOrder DEF Contract!InTurn, TakesTurns
<1>3. Films(dev.film) \in Seq(LitFrames) /\ Len(Films(dev.film)) = 0
  BY <1>1
<1> QED
  BY <1>1, <1>2, <1>3, DarkInOrder
  DEF ContractInv, ContractTypes, Contract!Promise

LEMMA ContractNext == ContractInv /\ [Contract!Next]_(Contract!vars) => ContractInv'
<1> SUFFICES ASSUME ContractInv, [Contract!Next]_(Contract!vars) PROVE ContractInv'
  OBVIOUS
<1> DEFINE o == job.channels
           g == Lengths(dev.got)
           f == Films(dev.film)
           open == dev.phase # "idle"
           v == Last(verdicts)
           Good(oo, gg, ff, op, vv) ==
             /\ oo \in Channels /\ gg \in LitFrames /\ ff \in Seq(LitFrames)
             /\ TakesTurns(oo, gg) /\ Len(ff) =< 1 /\ (ff # << >> => ~op)
             /\ vv = "complete" => ff = <<Contract!InFull>>
             /\ \A n \in 1..Len(ff) : TakesTurns(oo, ff[n])
<1>1. Good(o, g, f, open, v)
  BY DEF ContractInv, ContractTypes, Contract!Promise, Contract!InTurn, TakesTurns
<1>2. o' = o
  BY DEF Contract!Next, Contract!Open, Contract!Light, Contract!Advance, Contract!Lose,
         Contract!Tell, Contract!Correct, Contract!vars
<1>3. Contract!InFull' = Contract!InFull
  BY <1>2 DEF Contract!InFull
<1>4. SUFFICES Good(o, g', f', open', v')
  BY <1>2, <1>3
  DEF ContractInv, ContractTypes, Contract!Promise, Contract!InTurn, TakesTurns
<1>5. CASE Contract!Open
  <2>1. g' = Contract!Dark /\ f = << >> /\ f' = f /\ v' = v
    BY <1>5 DEF Contract!Open
  <2> HIDE DEF o, g, f, open, v
  <2> QED  BY <1>1, <2>1, DarkInOrder
<1>6. ASSUME NEW p \in 1..Len(o), Contract!Light(p)
      PROVE  Good(o, g', f', open', v')
  <2>1. /\ open /\ v = "none" /\ g[o[p]] < Height
        /\ \A q \in 1..p - 1 : g[o[q]] = Height
        /\ g' = [g EXCEPT ![o[p]] = @ + 1]
        /\ open' = open /\ f' = f /\ v' = v
    BY <1>6 DEF Contract!Light
  <2> HIDE DEF o, g, f, open, v
  <2>2. g' \in LitFrames /\ TakesTurns(o, g')
    BY <1>1, <2>1, LightInOrder
  <2> QED  BY <1>1, <2>1, <2>2
<1>7. CASE Contract!Advance
  <2>1. open /\ ~open' /\ g' = Contract!Dark /\ f' = Append(f, g) /\ v' = v
    BY <1>7 DEF Contract!Advance
  <2> HIDE DEF o, g, f, open, v
  <2>2. f = << >> /\ v # "complete"
    <3>1. f = << >>  BY <1>1, <2>1
    <3>2. << >> # <<Contract!InFull>>  OBVIOUS
    <3> QED  BY <1>1, <3>1, <3>2
  <2>3. f' = <<g>> /\ f' \in Seq(LitFrames) /\ Len(f') = 1 /\ f'[1] = g
    BY <1>1, <2>1, <2>2
  <2>4. \A n \in 1..Len(f') : TakesTurns(o, f'[n])
    BY <1>1, <2>3
  <2> QED  BY <1>1, <2>1, <2>2, <2>3, <2>4, DarkInOrder
<1>8. CASE Contract!Lose
  <2>1. ~open' /\ g' = Contract!Dark /\ f' = f /\ v' = v
    BY <1>8 DEF Contract!Lose
  <2> HIDE DEF o, g, f, open, v
  <2> QED  BY <1>1, <2>1, DarkInOrder
<1>9. ASSUME NEW w, Contract!Tell(w)
      PROVE  Good(o, g', f', open', v')
  <2>1. /\ v' = w /\ (w = "complete" => f = <<Contract!InFull>>)
        /\ open' = open /\ g' = g /\ f' = f
    BY <1>9 DEF Contract!Tell
  <2> HIDE DEF o, g, f, open, v
  <2> QED  BY <1>1, <2>1
<1>10. CASE Contract!Correct
  <2>1. v' # "complete" /\ open' = open /\ g' = g /\ f' = f
    BY <1>10 DEF Contract!Correct
  <2> HIDE DEF o, g, f, open, v
  <2> QED  BY <1>1, <2>1
<1>11. CASE UNCHANGED Contract!vars
  <2>1. v' = v /\ open' = open /\ g' = g /\ f' = f
    BY <1>11 DEF Contract!vars
  <2> HIDE DEF o, g, f, open, v
  <2> QED  BY <1>1, <2>1
<1> HIDE DEF Good
<1> QED  BY <1>5, <1>6, <1>7, <1>8, <1>9, <1>10, <1>11 DEF Contract!Next

(* Whatever implements Frame keeps its promise.                            *)
THEOREM ContractPromise == ContractSpec => []Contract!Promise
<1>1. ContractInv => Contract!Promise  BY DEF ContractInv
<1> QED
  BY <1>1, ContractInit, ContractNext, PTL DEF ContractSpec, Contract!Spec

(* So run_exposure does: a call uses up one frame of film at most, and     *)
(* lights no channel before its turn, even if it fails or is repeated.     *)
THEOREM PromiseKept == Spec => []Contract!Promise
BY ImplementsContract, ContractPromise
=============================================================================
