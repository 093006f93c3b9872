--------------------------- MODULE TransportProof ---------------------------
(***************************************************************************)
(* What Transport promises, for every set of callers and all time limits,  *)
(* and what SenseDispatch makes of every sense code.                       *)
(***************************************************************************)
EXTENDS Transport, TLAPS

(* Every code has the class that errors.py gives it, film tables before    *)
(* calibration before hardware before parameters; the codes between        *)
(* 0x2429 and 0x24FF, which no document has, are hardware faults.          *)
THEOREM DispatchTheorem ==
  /\ \A asc \in DocumentedFilmTable : ExceptionClass(asc) = "FilmTableError"
  /\ \A asc \in DocumentedCalibration : ExceptionClass(asc) = "CalibrationError"
  /\ \A asc \in DocumentedHardware \cup Undocumented :
       ExceptionClass(asc) = "HardwareError"
  /\ \A asc \in DocumentedParameter \ DocumentedFilmTable :
       ExceptionClass(asc) = "ParameterError"
  /\ \A asc \in Codes \ (DocumentedFilmTable \cup DocumentedCalibration
                          \cup DocumentedHardware \cup Undocumented
                          \cup DocumentedParameter) :
       ExceptionClass(asc) = "SCSIError"
<1> USE DEF ExceptionClass, FilmTableCodes, CalibrationCodes, HardwareCodes,
            ParameterCodes
<1>1. \A asc \in DocumentedFilmTable : ExceptionClass(asc) = "FilmTableError"
  BY DEF DocumentedFilmTable
<1>2. \A asc \in DocumentedCalibration : ExceptionClass(asc) = "CalibrationError"
  BY DEF DocumentedCalibration
<1>3. \A asc \in DocumentedHardware \cup Undocumented :
        ExceptionClass(asc) = "HardwareError"
  BY DEF DocumentedHardware, Undocumented
<1>4. \A asc \in DocumentedParameter \ DocumentedFilmTable :
        ExceptionClass(asc) = "ParameterError"
  BY DEF DocumentedParameter, DocumentedFilmTable
<1>5. ASSUME NEW asc \in Codes,
             asc \notin DocumentedFilmTable \cup DocumentedCalibration
                       \cup DocumentedHardware \cup Undocumented
                       \cup DocumentedParameter
      PROVE  ExceptionClass(asc) = "SCSIError"
  <2>1. asc \in Int
    BY SMTT(30) DEF Codes
  <2>2. asc \notin FilmTableCodes
    BY <1>5, <2>1 DEF DocumentedFilmTable
  <2>3. asc \notin CalibrationCodes
    BY <1>5, <2>1 DEF DocumentedCalibration
  <2>4. asc \notin HardwareCodes
    BY <1>5, <2>1
    DEF DocumentedCalibration, DocumentedHardware, Undocumented
  <2>5. asc \notin ParameterCodes
    BY <1>5, <2>1 DEF DocumentedParameter
  <2> QED  BY <2>2, <2>3, <2>4, <2>5
<1> QED  BY <1>1, <1>2, <1>3, <1>4, <1>5

-----------------------------------------------------------------------------
(* One call, with link l.                                                  *)
SenseStates == {"sense_start", "sense_run", "sense_answered"}
InTime(c) ==
  /\ c.pc \in {"idle", "start"} => c.total = 0 /\ c.age = 0
  /\ c.pc \in {"run", "answered"} =>
       c.total = c.age /\ c.age =< IF c.hung THEN Kill ELSE Limit
  /\ c.pc = "sense_start" => c.total =< Limit
  /\ c.pc \in {"sense_run", "sense_answered"} =>
       c.total =< Limit + c.age /\ c.age =< IF c.hung THEN SenseKill ELSE SenseLimit
Sound(c, l) ==
  /\ c.pc \in {"idle", "start", "run"} => c.acted = "sent"
  /\ c.pc = "answered" => c.acted \in {"done", "refused"}
  /\ c.pc \in SenseStates => c.acted = "refused" /\ l = "s2pexec"
  /\ c.hung => l = "s2pexec" /\ c.pc \in Waiting
  /\ c.acted = "refused" => c.own # NoSense /\ (l = "sg_io" => c.reply = c.own)
  /\ InTime(c)

(* What the recorder keeps of a refusal, and what comes of it.             *)
Kept(c, s) ==
  /\ c.acted = "refused" /\ c.pc # "sense_answered" =>
       s = c.own \/ (c.cut /\ s = NoSense)
  /\ c.pc = "sense_answered" =>
       c.reply = c.own \/ (c.cut /\ c.reply \in {NoSense, Attention})

Exclusive == link \notin SharedLinks =>
  \A u, v \in Callers : Idle(u) \/ Idle(v) \/ u = v
SenseKept == link = "s2pexec" /\ link \notin SharedLinks =>
  \A u \in Callers : Kept(call[u], dev.sense)
LossPending == untold =>
  IF dev.attention THEN \A u \in Callers : call[u].acted = "done" => call[u].cut
                   ELSE \E u \in Callers : call[u].acted = "refused"

(* The inductive invariant.                                                *)
TInv ==
  /\ TypeOK
  /\ \A u \in Callers : Sound(call[u], link)
  /\ Exclusive
  /\ SenseKept
  /\ LossPending

-----------------------------------------------------------------------------
(* Values that occur.                                                      *)
LEMMA Limits ==
  /\ Limit \in Nat /\ Kill \in Nat /\ SenseLimit \in Nat /\ SenseKill \in Nat
  /\ Limit < Kill /\ SenseLimit < SenseKill
<1>1. ASSUME NEW ms \in Nat
      PROVE  /\ Ceiling(ms) \in Nat
             /\ ms =< 1000 * Ceiling(ms) /\ 1000 * Ceiling(ms) < ms + 1000
  BY DEF Ceiling
<1>2. Timeout \in Nat \ {0} /\ SlackMs \in Nat /\ SlackMs >= 1000
      /\ Timeout + SlackMs \in Nat
  BY TransportAssumption
<1>3. Kill \in Nat /\ Timeout + SlackMs =< 1000 * Kill
  BY <1>1, <1>2 DEF Kill
<1>4. Limit \in Nat /\ Limit < Kill
  <2>1. CASE Timeout =< 1000
    BY <2>1, <1>2, <1>3 DEF Limit
  <2>2. CASE ~(Timeout =< 1000)
    <3>1. Limit \in Nat /\ 1000 * Limit < Timeout + 1000
      BY <2>2, <1>1, <1>2 DEF Limit
    <3> QED  BY <3>1, <1>2, <1>3
  <2> QED  BY <2>1, <2>2
<1> QED  BY <1>3, <1>4, TransportAssumption

LEMMA SenseFacts ==
  /\ \A s \in {NoSense, Attention, NoData, EmptySlot, BadTable, DoorOpen} :
       s \in SenseData
  /\ \A s \in {Attention, EmptySlot, BadTable, DoorOpen} : s # NoSense
  BY DEF NoSense, Attention, NoData, EmptySlot, BadTable, DoorOpen, Sense,
         SenseData, SenseKeys, Codes

LEMMA ResultFacts ==
  /\ \A k \in Kinds : Result(k) \in Results /\ Result(k).kind = k
  /\ \A s \in SenseData : /\ CheckCondition(s) \in Results
                          /\ CheckCondition(s).kind = "check"
                          /\ CheckCondition(s).sense = s
<1>1. ASSUME NEW asc  PROVE  ExceptionClass(asc) \in Classes
  BY DEF ExceptionClass, Classes
<1> QED
  BY <1>1, SenseFacts DEF Result, CheckCondition, Results, Kinds, Classes

LEMMA OverFacts ==
  ASSUME NEW r \in Results, NEW l
  PROVE  /\ Over(r) \in Calls /\ Sound(Over(r), l)
         /\ Over(r).pc = "idle" /\ Over(r).acted = "sent" /\ Over(r).result = r
<1>1. Over(r) = [pc |-> "idle", cmd |-> "name", reply |-> NoSense, hung |-> FALSE,
                 age |-> 0, result |-> r, acted |-> "sent", own |-> NoSense,
                 cut |-> FALSE, total |-> 0]
  BY DEF Over, NewCall
<1>2. Over(r) \in Calls
  <2>1. 0 \in 0..Kill + SenseKill  BY Limits
  <2> QED  BY <1>1, <2>1, SenseFacts DEF Calls, Commands
<1>3. InTime(Over(r))
  <2>1. Over(r).pc = "idle" /\ Over(r).total = 0 /\ Over(r).age = 0
    BY <1>1
  <2> QED  BY <2>1 DEF InTime
<1>4. Sound(Over(r), l)
  BY <1>1, <1>3 DEF Sound, SenseStates
<1> QED  BY <1>1, <1>2, <1>4

(* A step of caller u alone.                                               *)
LEMMA GoesFacts ==
  ASSUME TypeOK, NEW u \in Callers, NEW c \in Calls, Goes(u, c)
  PROVE  /\ call'[u] = c
         /\ \A v \in Callers : v # u => call'[v] = call[v]
         /\ call' \in [Callers -> Calls]
  BY DEF Goes, TypeOK

Steady == link' = link /\ dev' \in Recorders /\ untold' \in BOOLEAN

LEMMA OneStep ==
  ASSUME TypeOK, \A v \in Callers : Sound(call[v], link), Steady,
         NEW u \in Callers, NEW c \in Calls, Sound(c, link), Goes(u, c)
  PROVE  TypeOK' /\ \A v \in Callers : Sound(call'[v], link')
  BY GoesFacts DEF TypeOK, Steady

LEMMA EndStep ==
  ASSUME TypeOK, \A v \in Callers : Sound(call[v], link),
         link' = link, dev' \in Recorders,
         NEW u \in Callers, NEW r \in Results, Ends(u, r)
  PROVE  TypeOK' /\ \A v \in Callers : Sound(call'[v], link')
  BY OverFacts, OneStep DEF Ends, TypeOK, Steady

LEMMA SoundStep ==
  ASSUME TypeOK, \A v \in Callers : Sound(call[v], link), [Next]_vars
  PROVE  TypeOK' /\ \A v \in Callers : Sound(call'[v], link')
<1> DEFINE Goal == TypeOK' /\ \A v \in Callers : Sound(call'[v], link')
<1>1. ASSUME NEW u \in Callers, Begin(u)  PROVE  Goal
  <2>1. PICK cmd \in Commands : Goes(u, NewCall("start", cmd, call[u].result))
    BY <1>1 DEF Begin
  <2> DEFINE c == NewCall("start", cmd, call[u].result)
  <2>2. c.pc = "start" /\ c.acted = "sent" /\ ~c.hung /\ c.age = 0 /\ c.total = 0
    BY DEF NewCall
  <2>3. c \in Calls
    <3>1. call[u].result \in Results /\ 0 \in 0..Kill + SenseKill
      BY Limits DEF TypeOK, Calls
    <3> QED  BY <3>1, SenseFacts DEF NewCall, Calls
  <2>4. Sound(c, link)
    BY <2>2 DEF Sound, InTime, SenseStates
  <2>5. Steady  BY <1>1 DEF Begin, TypeOK, Steady
  <2> HIDE DEF c
  <2> QED  BY <2>1, <2>3, <2>4, <2>5, OneStep DEF c
<1>2. ASSUME NEW u \in Callers, Start(u)  PROVE  Goal
  <2> DEFINE c == [call[u] EXCEPT !.pc = "run"]
  <2>1. CASE Goes(u, c) /\ UNCHANGED untold
    <3>1. call[u] \in Calls /\ Sound(call[u], link) /\ call[u].pc = "start"
      BY <1>2 DEF TypeOK, Start
    <3>2. c \in Calls  BY <3>1 DEF Calls, Waiting
    <3>3. Sound(c, link)
      BY <3>1, Limits DEF Sound, InTime, SenseStates, Waiting, Calls
    <3>4. Steady  BY <1>2, <2>1 DEF Start, TypeOK, Steady
    <3> HIDE DEF c
    <3> QED  BY <2>1, <3>2, <3>3, <3>4, OneStep
  <2>2. CASE Ends(u, Result("os"))
    BY <1>2, <2>2, ResultFacts, EndStep DEF Start, Kinds, TypeOK
  <2> QED  BY <1>2, <2>1, <2>2 DEF Start
<1>3. ASSUME NEW u \in Callers, NEW acted \in {"done", "refused"},
             NEW sense \in SenseData, NEW d \in Recorders,
             call[u].pc = "run", Replies(u, acted, sense, d),
             acted = "refused" => sense # NoSense, UNCHANGED <<link, untold>>
      PROVE  Goal
  <2> DEFINE reply == IF link = "sg_io" THEN sense ELSE call[u].reply
             c == [call[u] EXCEPT !.pc = "answered", !.acted = acted, !.own = sense,
                                  !.reply = reply]
  <2>1. call[u] \in Calls /\ Sound(call[u], link)
    BY DEF TypeOK
  <2>2. Goes(u, c)  BY <1>3 DEF Replies
  <2>3. reply \in SenseData /\ (link = "sg_io" => reply = sense)
    BY <2>1 DEF Calls
  <2> HIDE DEF reply
  <2>4. c \in Calls  BY <2>1, <2>3 DEF Calls, Waiting
  <2>5. Sound(c, link)
    BY <1>3, <2>1, <2>3 DEF Sound, InTime, SenseStates, Waiting, Calls
  <2>6. Steady
    BY <1>3, SenseFacts DEF Replies, Recorders, TypeOK, Steady
  <2> HIDE DEF c
  <2> QED  BY <2>2, <2>4, <2>5, <2>6, OneStep
<1>4. ASSUME NEW u \in Callers, Act(u)  PROVE  Goal
  <2>1. CASE Replies(u, "refused", Attention, [dev EXCEPT !.attention = FALSE])
    <3>1. [dev EXCEPT !.attention = FALSE] \in Recorders
      BY DEF TypeOK, Recorders
    <3> QED  BY <1>4, <2>1, <3>1, <1>3, SenseFacts DEF Act
  <2>2. ASSUME NEW s \in Refusals(call[u].cmd), Replies(u, "refused", s, dev)
        PROVE  Goal
    <3>1. s \in {EmptySlot, BadTable, DoorOpen}
      <4>1. call[u].cmd \in {"name", "upload"}
        BY DEF TypeOK, Calls, Commands
      <4> QED  BY <4>1 DEF Refusals
    <3> QED  BY <1>4, <2>2, <3>1, <1>3, SenseFacts DEF Act, TypeOK
  <2>3. CASE Replies(u, "done", NoSense, [dev EXCEPT !.full = TRUE])
    <3>1. [dev EXCEPT !.full = TRUE] \in Recorders
      BY DEF TypeOK, Recorders
    <3> QED  BY <1>4, <2>3, <3>1, <1>3, SenseFacts DEF Act
  <2> QED  BY <1>4, <2>1, <2>2, <2>3 DEF Act
<1>5. ASSUME NEW u \in Callers, Exit(u)  PROVE  Goal
  <2>1. call[u] \in Calls /\ Sound(call[u], link) /\ call[u].pc = "answered"
        /\ ~call[u].hung /\ UNCHANGED <<link, dev>> /\ dev \in Recorders
        /\ untold \in BOOLEAN /\ link \in Links
    BY <1>5 DEF TypeOK, Exit
  <2>2. CASE Ends(u, Result("ok"))
    BY <2>1, <2>2, ResultFacts, EndStep DEF Kinds
  <2>3. CASE \E s \in {call[u].reply, NoData} : Ends(u, CheckCondition(s))
    <3>1. PICK s \in {call[u].reply, NoData} : Ends(u, CheckCondition(s))
      BY <2>3
    <3>2. s \in SenseData  BY <2>1, SenseFacts DEF Calls
    <3> QED  BY <2>1, <3>1, <3>2, ResultFacts, EndStep
  <2>4. CASE /\ call[u].acted # "done" /\ link # "sg_io"
             /\ Goes(u, [call[u] EXCEPT !.pc = "sense_start"]) /\ UNCHANGED untold
    <3> DEFINE c == [call[u] EXCEPT !.pc = "sense_start"]
    <3>1. c \in Calls  BY <2>1 DEF Calls, Waiting
    <3>2. call[u].acted = "refused" /\ link = "s2pexec"
      BY <2>1, <2>4 DEF Sound, Links
    <3>3. Sound(c, link)
      BY <2>1, <3>2, Limits DEF Sound, InTime, SenseStates, Waiting, Calls
    <3>4. Steady  BY <2>1, <2>4 DEF Steady
    <3> HIDE DEF c
    <3> QED  BY <2>4, <3>1, <3>3, <3>4, OneStep DEF c
  <2> QED  BY <1>5, <2>2, <2>3, <2>4 DEF Exit
<1>6. ASSUME NEW u \in Callers, Fail(u)  PROVE  Goal
  BY <1>6, ResultFacts, EndStep DEF Fail, Kinds, TypeOK
<1>7. ASSUME NEW u \in Callers, StartSense(u)  PROVE  Goal
  <2> DEFINE c == [call[u] EXCEPT !.pc = "sense_run", !.age = 0, !.reply = NoData]
  <2>1. CASE Goes(u, c) /\ UNCHANGED untold
    <3>1. call[u] \in Calls /\ Sound(call[u], link) /\ call[u].pc = "sense_start"
      BY <1>7 DEF TypeOK, StartSense
    <3>2. 0 \in 0..Kill + SenseKill  BY Limits
    <3>3. c \in Calls  BY <3>1, <3>2, SenseFacts DEF Calls, Waiting
    <3>4. InTime(c)
      BY <3>1, Limits DEF Sound, InTime, Calls
    <3>5. ~call[u].hung /\ call[u].acted = "refused" /\ link = "s2pexec"
          /\ call[u].own # NoSense
      BY <3>1 DEF Sound, SenseStates, Waiting
    <3>6. Sound(c, link)
      BY <3>1, <3>4, <3>5 DEF Sound, SenseStates, Waiting, Calls
    <3>7. Steady  BY <1>7, <2>1 DEF StartSense, TypeOK, Steady
    <3> HIDE DEF c
    <3> QED  BY <2>1, <3>3, <3>6, <3>7, OneStep
  <2>2. CASE Ends(u, Result("os"))
    BY <1>7, <2>2, ResultFacts, EndStep DEF StartSense, Kinds, TypeOK
  <2> QED  BY <1>7, <2>1, <2>2 DEF StartSense
<1>8. ASSUME NEW u \in Callers, RequestSense(u)  PROVE  Goal
  <2>1. PICK told \in BOOLEAN :
          /\ Goes(u, [call[u] EXCEPT !.pc = "sense_answered",
                                     !.reply = IF told THEN Attention ELSE dev.sense])
          /\ dev' = [dev EXCEPT !.sense = NoSense, !.attention = @ /\ ~told]
    <3>1. (dev.attention /\ dev.sense = NoSense) \in BOOLEAN  OBVIOUS
    <3> QED  BY <1>8, <3>1 DEF RequestSense
  <2> DEFINE reply == IF told THEN Attention ELSE dev.sense
             c == [call[u] EXCEPT !.pc = "sense_answered", !.reply = reply]
  <2>2. call[u] \in Calls /\ Sound(call[u], link) /\ call[u].pc = "sense_run"
        /\ dev \in Recorders
    BY <1>8 DEF TypeOK, RequestSense
  <2>3. reply \in SenseData  BY <2>2, SenseFacts DEF Recorders
  <2>4. Goes(u, c)  BY <2>1
  <2> HIDE DEF reply
  <2>5. c \in Calls  BY <2>2, <2>3 DEF Calls, Waiting
  <2>6. link = "s2pexec"  BY <2>2 DEF Sound, SenseStates
  <2>7. Sound(c, link)
    BY <2>2, <2>6 DEF Sound, InTime, SenseStates, Waiting, Calls
  <2>8. dev' \in Recorders
    BY <2>1, <2>2, SenseFacts DEF Recorders
  <2>9. Steady  BY <1>8, <2>8 DEF RequestSense, TypeOK, Steady
  <2> HIDE DEF c
  <2> QED  BY <2>4, <2>5, <2>7, <2>9, OneStep
<1>9. ASSUME NEW u \in Callers, SenseComes(u)  PROVE  Goal
  <2>1. PICK s \in {NoData, call[u].reply} : Ends(u, CheckCondition(s))
    BY <1>9 DEF SenseComes
  <2>2. s \in SenseData  BY SenseFacts DEF TypeOK, Calls
  <2> QED  BY <1>9, <2>1, <2>2, ResultFacts, EndStep DEF SenseComes, TypeOK
<1>10. ASSUME NEW u \in Callers, Hang(u)  PROVE  Goal
  <2> DEFINE c == [call[u] EXCEPT !.hung = TRUE]
  <2>1. call[u] \in Calls /\ Sound(call[u], link) /\ call[u].pc \in Waiting
        /\ link = "s2pexec" /\ ~call[u].hung
    BY <1>10 DEF TypeOK, Hang
  <2>2. c \in Calls  BY <2>1 DEF Calls
  <2>3. InTime(c)
    BY <2>1, Limits DEF Sound, InTime, Waiting, Calls
  <2>4. Sound(c, link)
    BY <2>1, <2>3 DEF Sound, SenseStates, Waiting, Calls
  <2>5. Steady /\ Goes(u, c)  BY <1>10 DEF Hang, TypeOK, Steady
  <2> HIDE DEF c
  <2> QED  BY <2>2, <2>4, <2>5, OneStep
<1>11. ASSUME NEW u \in Callers, Killed(u)  PROVE  Goal
  <2>1. PICK r \in {Result("expired"), CheckCondition(NoData)} : Ends(u, r)
    BY <1>11 DEF Killed
  <2>2. r \in Results  BY <2>1, SenseFacts, ResultFacts DEF Kinds
  <2> QED  BY <1>11, <2>1, <2>2, EndStep DEF Killed, TypeOK
<1>12. ASSUME Tick  PROVE  Goal
  <2>1. ASSUME NEW u \in Callers
        PROVE  call'[u] \in Calls /\ Sound(call'[u], link)
    <3>1. call[u] \in Calls /\ Sound(call[u], link)
          /\ ~(call[u].pc \in Waiting /\ call[u].age >= TimeLimit(u))
      BY <1>12 DEF TypeOK, Tick, OutOfTime
    <3>2. CASE call[u].pc \notin Waiting
      BY <1>12, <3>1, <3>2 DEF Tick
    <3>3. CASE call[u].pc \in Waiting
      <4> DEFINE c == Older(call[u])
      <4>1. call'[u] = c  BY <1>12, <3>3 DEF Tick
      <4>2. call[u].age < TimeLimit(u) /\ call[u].age \in Nat
        BY <3>1, <3>3, Limits DEF TimeLimit, Calls
      <4>3. call[u].age + 1 \in 0..Kill + SenseKill /\ call[u].total + 1 \in Nat
        <5>1. call[u].total \in Nat  BY <3>1 DEF Calls
        <5> QED  BY <4>2, <5>1, Limits DEF TimeLimit
      <4>4. c \in Calls  BY <3>1, <4>3 DEF Calls, Older
      <4>5. InTime(c)
        BY <3>1, <3>3, <4>2, Limits DEF Sound, InTime, Waiting, TimeLimit, Calls, Older
      <4>6. Sound(c, link)
        BY <3>1, <3>3, <4>5 DEF Sound, SenseStates, Waiting, Calls, Older
      <4> QED  BY <4>1, <4>4, <4>6
    <3> QED  BY <3>2, <3>3
  <2>2. call' \in [Callers -> Calls]
    BY <1>12, <2>1 DEF Tick
  <2> QED  BY <1>12, <2>1, <2>2 DEF Tick, TypeOK
<1>13. ASSUME PowerCycle  PROVE  Goal
  <2>1. ASSUME NEW u \in Callers
        PROVE  call'[u] \in Calls /\ Sound(call'[u], link)
    <3>1. call[u] \in Calls /\ Sound(call[u], link)
      BY DEF TypeOK
    <3>2. CASE Idle(u)
      BY <1>13, <3>1, <3>2 DEF PowerCycle
    <3>3. CASE ~Idle(u)
      <4> DEFINE c == [call[u] EXCEPT !.cut = TRUE]
      <4>1. call'[u] = c  BY <1>13, <3>3 DEF PowerCycle
      <4>2. c \in Calls  BY <3>1 DEF Calls
      <4>3. InTime(c)
        BY <3>1 DEF Sound, InTime, Calls
      <4>4. Sound(c, link)
        BY <3>1, <4>3 DEF Sound, SenseStates, Waiting, Calls
      <4> QED  BY <4>1, <4>2, <4>4
    <3> QED  BY <3>2, <3>3
  <2>2. call' \in [Callers -> Calls]
    BY <1>13, <2>1 DEF PowerCycle
  <2>3. dev' \in Recorders  BY <1>13, SenseFacts DEF PowerCycle, Recorders
  <2> QED  BY <1>13, <2>1, <2>2, <2>3 DEF PowerCycle, TypeOK
<1>14. CASE UNCHANGED vars
  BY <1>14 DEF vars, TypeOK
<1> QED
  BY <1>1, <1>2, <1>4, <1>5, <1>6, <1>7, <1>8, <1>9, <1>10, <1>11, <1>12, <1>13,
     <1>14 DEF Next, Execute

-----------------------------------------------------------------------------
(* What each step does to whether a caller is idle.                        *)
LEMMA IdleStep ==
  ASSUME TypeOK, NEW u \in Callers, NEW v \in Callers, Execute(u)
  PROVE  /\ ~Idle(v)' => ~Idle(v) \/ (v = u /\ Begin(u))
         /\ v # u => call'[v] = call[v]
         /\ link' = link
<1>1. CASE Begin(u)  BY <1>1 DEF Begin, Goes, Idle, TypeOK
<1>2. CASE ~Begin(u)
  <2>1. call[u].pc # "idle" /\ link' = link
        /\ \E c : Goes(u, c)
    BY <1>2 DEF Execute, Start, Act, Exit, Fail, StartSense, RequestSense,
       SenseComes, Hang, Killed, Ends, Replies, OutOfTime, Waiting
  <2>2. v # u => call'[v] = call[v]
    BY <2>1 DEF Goes, TypeOK
  <2> QED  BY <2>1, <2>2 DEF Idle
<1> QED  BY <1>1, <1>2

LEMMA ExclusiveStep ==
  ASSUME TypeOK, Exclusive, [Next]_vars
  PROVE  Exclusive'
<1>1. ASSUME NEW u \in Callers, Execute(u)  PROVE  Exclusive'
  <2> SUFFICES ASSUME link' \notin SharedLinks, NEW v \in Callers, NEW w \in Callers
               PROVE  Idle(v)' \/ Idle(w)' \/ v = w
    BY DEF Exclusive
  <2>1. link' = link /\ (Idle(v) \/ Idle(w) \/ v = w)
    BY <1>1, IdleStep DEF Exclusive
  <2>2. CASE Begin(u)
    <3>1. \A x \in Callers : Idle(x)  BY <2>1, <2>2 DEF Begin
    <3> QED  BY <1>1, <3>1, IdleStep
  <2>3. CASE ~Begin(u)
    BY <1>1, <2>1, <2>3, IdleStep
  <2> QED  BY <2>2, <2>3
<1>2. CASE Tick
  <2>1. \A v \in Callers : call'[v].pc = call[v].pc
    BY <1>2 DEF Tick, TypeOK, Calls, Older
  <2> QED  BY <1>2, <2>1 DEF Exclusive, Idle, Tick
<1>3. CASE PowerCycle
  <2>1. \A v \in Callers : call'[v].pc = call[v].pc
    BY <1>3 DEF PowerCycle, TypeOK, Calls
  <2> QED  BY <1>3, <2>1 DEF Exclusive, Idle, PowerCycle
<1>4. CASE UNCHANGED vars
  BY <1>4 DEF vars, Exclusive, Idle
<1> QED  BY <1>1, <1>2, <1>3, <1>4 DEF Next

(* Through s2pexec, used by one caller at a time, the recorder keeps the   *)
(* sense data of the refused command until it is asked for.                *)
LEMMA IdleKept ==
  ASSUME NEW c, NEW l, NEW s, Sound(c, l), c.pc = "idle"
  PROVE  Kept(c, s)
  BY DEF Sound, Kept

LEMMA KeptStep ==
  ASSUME TInv, [Next]_vars
  PROVE  SenseKept'
<1> SUFFICES ASSUME link' = "s2pexec", link' \notin SharedLinks
             PROVE  \A v \in Callers : Kept(call'[v], dev'.sense)
  BY DEF SenseKept
<1>0. TypeOK /\ \A v \in Callers : call[v] \in Calls /\ Sound(call[v], link)
  BY DEF TInv, TypeOK
<1>1. ASSUME NEW u \in Callers, Execute(u), NEW v \in Callers
      PROVE  Kept(call'[v], dev'.sense)
  <2>1. link = "s2pexec" /\ link \notin SharedLinks /\ dev \in Recorders
    BY <1>0, <1>1, IdleStep DEF TypeOK
  <2>2. Kept(call[u], dev.sense) /\ call[u] \in Calls /\ Sound(call[u], link)
    BY <2>1, <1>0 DEF TInv, SenseKept
  <2>3. CASE v # u
    <3>1. Idle(v)
      <4>1. CASE Begin(u)  BY <4>1, <2>1 DEF Begin
      <4>2. CASE ~Begin(u)
        <5>1. ~Idle(u)
          BY <1>1, <4>2 DEF Execute, Start, Act, Exit, Fail, StartSense, Idle,
             RequestSense, SenseComes, Hang, Killed, OutOfTime, Waiting
        <5> QED  BY <5>1, <2>1, <2>3 DEF TInv, Exclusive
      <4> QED  BY <4>1, <4>2
    <3>2. call'[v] = call[v] /\ Sound(call[v], link) /\ call[v].pc = "idle"
      BY <1>0, <1>1, <2>3, <3>1, IdleStep DEF Idle
    <3> QED  BY <3>2, IdleKept
  <2>4. CASE v = u
    <3>0. SUFFICES Kept(call'[u], dev'.sense)
      BY <2>4
    <3>1. ASSUME NEW r \in Results, Ends(u, r)  PROVE  Kept(call'[u], dev'.sense)
      BY <1>0, <3>1, OverFacts, IdleKept, GoesFacts DEF Ends
    <3>2. CASE Begin(u)
      <4>1. PICK cmd \in Commands :
              call'[u] = NewCall("start", cmd, call[u].result)
        BY <3>2, <1>0 DEF Begin, Goes, TypeOK
      <4> QED  BY <4>1 DEF NewCall, Kept
    <3>3. CASE Start(u)
      <4>1. CASE Goes(u, [call[u] EXCEPT !.pc = "run"])
        <5>1. call'[u] = [call[u] EXCEPT !.pc = "run"] /\ call[u].acted = "sent"
          BY <1>0, <4>1, <3>3, <2>2 DEF Goes, TypeOK, Sound, Start
        <5> QED  BY <5>1, <2>2 DEF Kept, Calls
      <4> QED  BY <3>1, <3>3, <4>1, ResultFacts DEF Start, Kinds
    <3>4. CASE Act(u)
      <4>1. PICK acted \in {"done", "refused"}, sense \in SenseData, d \in Recorders :
              Replies(u, acted, sense, d)
        <5>1. \A s \in Refusals(call[u].cmd) : s \in SenseData
          <6>1. call[u].cmd \in {"name", "upload"}  BY <2>2 DEF Calls, Commands
          <6> QED  BY <6>1, SenseFacts DEF Refusals
        <5>2. /\ [dev EXCEPT !.attention = FALSE] \in Recorders
              /\ [dev EXCEPT !.full = TRUE] \in Recorders
          BY <2>1 DEF Recorders
        <5> QED  BY <3>4, <5>1, <5>2, <2>1, SenseFacts DEF Act
      <4>2. dev'.sense = sense
        BY <4>1, <2>1 DEF Replies, Recorders
      <4>3. call'[u] = [call[u] EXCEPT !.pc = "answered", !.acted = acted,
                                       !.own = sense, !.reply = @]
        BY <1>0, <4>1, <2>1 DEF Replies, Goes, TypeOK
      <4>4. call'[u].own = sense /\ call'[u].pc = "answered"
        BY <4>3, <2>2 DEF Calls
      <4> QED  BY <4>2, <4>4 DEF Kept
    <3>5. CASE Exit(u)
      <4>1. CASE Goes(u, [call[u] EXCEPT !.pc = "sense_start"])
        <5>1. call'[u] = [call[u] EXCEPT !.pc = "sense_start"] /\ dev' = dev
              /\ call[u].pc = "answered"
          BY <1>0, <4>1, <3>5 DEF Goes, TypeOK, Exit
        <5> QED  BY <5>1, <2>2 DEF Kept, Calls
      <4>2. CASE ~Goes(u, [call[u] EXCEPT !.pc = "sense_start"])
        <5>1. PICK s \in {call[u].reply, NoData} :
                Ends(u, Result("ok")) \/ Ends(u, CheckCondition(s))
          BY <3>5, <4>2 DEF Exit
        <5>2. s \in SenseData  BY <2>2, SenseFacts DEF Calls
        <5> QED  BY <3>1, <5>1, <5>2, ResultFacts DEF Kinds
      <4> QED  BY <4>1, <4>2
    <3>6. CASE Fail(u)
      BY <3>1, <3>6, ResultFacts DEF Fail, Kinds
    <3>7. CASE StartSense(u)
      <4>1. CASE Goes(u, [call[u] EXCEPT !.pc = "sense_run", !.age = 0,
                                         !.reply = NoData])
        <5>1. call'[u] = [call[u] EXCEPT !.pc = "sense_run", !.age = 0,
                                         !.reply = NoData]
              /\ dev' = dev /\ call[u].pc = "sense_start"
          BY <1>0, <4>1, <3>7 DEF Goes, TypeOK, StartSense
        <5> QED  BY <5>1, <2>2 DEF Kept, Calls
      <4> QED  BY <3>1, <3>7, <4>1, ResultFacts DEF StartSense, Kinds
    <3>8. CASE RequestSense(u)
      <4>1. PICK told \in {FALSE, dev.attention /\ dev.sense = NoSense} :
              Goes(u, [call[u] EXCEPT !.pc = "sense_answered",
                                      !.reply = IF told THEN Attention ELSE dev.sense])
        BY <3>8 DEF RequestSense
      <4> DEFINE reply == IF told THEN Attention ELSE dev.sense
      <4>2. call'[u] = [call[u] EXCEPT !.pc = "sense_answered", !.reply = reply]
        BY <1>0, <4>1 DEF Goes, TypeOK
      <4>3. call[u].acted = "refused" /\ call[u].own # NoSense
            /\ call[u].pc = "sense_run"
        BY <3>8, <2>2 DEF RequestSense, Sound, SenseStates
      <4>4. reply = call[u].own \/ (call[u].cut /\ reply \in {NoSense, Attention})
        BY <2>2, <4>1, <4>3 DEF Kept
      <4> HIDE DEF reply
      <4> QED  BY <2>2, <4>2, <4>4 DEF Kept, Calls
    <3>9. CASE SenseComes(u)
      <4>1. PICK s \in {NoData, call[u].reply} : Ends(u, CheckCondition(s))
        BY <3>9 DEF SenseComes
      <4>2. s \in SenseData  BY <2>2, SenseFacts DEF Calls
      <4> QED  BY <3>1, <4>1, <4>2, ResultFacts
    <3>10. CASE Hang(u)
      <4>1. call'[u] = [call[u] EXCEPT !.hung = TRUE] /\ dev' = dev
        BY <1>0, <3>10 DEF Goes, TypeOK, Hang
      <4> QED  BY <4>1, <2>2 DEF Kept, Calls
    <3>11. CASE Killed(u)
      <4>1. PICK r \in {Result("expired"), CheckCondition(NoData)} : Ends(u, r)
        BY <3>11 DEF Killed
      <4> QED  BY <3>1, <4>1, SenseFacts, ResultFacts DEF Kinds
    <3> QED
      BY <1>1, <3>2, <3>3, <3>4, <3>5, <3>6, <3>7, <3>8, <3>9, <3>10, <3>11
      DEF Execute
  <2> QED  BY <2>3, <2>4
<1>2. ASSUME Tick, NEW v \in Callers  PROVE  Kept(call'[v], dev'.sense)
  <2>1. Kept(call[v], dev.sense) /\ call[v] \in Calls /\ dev' = dev
    BY <1>0, <1>2 DEF TInv, SenseKept, Tick
  <2>2. call'[v] = call[v] \/ call'[v] = Older(call[v])
    BY <1>2 DEF Tick
  <2> QED  BY <2>1, <2>2, ZenonT(60) DEF Kept, Calls, Older
<1>3. ASSUME PowerCycle, NEW v \in Callers  PROVE  Kept(call'[v], dev'.sense)
  <2>1. Kept(call[v], dev.sense) /\ call[v] \in Calls /\ dev'.sense = NoSense
        /\ Sound(call[v], link)
    BY <1>0, <1>3 DEF TInv, SenseKept, PowerCycle
  <2>2. CASE Idle(v)
    <3>1. call'[v] = call[v]  BY <1>3, <2>2 DEF PowerCycle
    <3> QED  BY <2>1, <2>2, <3>1, IdleKept DEF Idle
  <2>3. CASE ~Idle(v)
    <3>1. call'[v] = [call[v] EXCEPT !.cut = TRUE]
      BY <1>3, <2>3 DEF PowerCycle
    <3> QED  BY <2>1, <3>1 DEF Kept, Calls
  <2> QED  BY <2>2, <2>3
<1>4. CASE UNCHANGED vars
  BY <1>4 DEF vars, TInv, SenseKept
<1> QED  BY <1>1, <1>2, <1>3, <1>4 DEF Next

-----------------------------------------------------------------------------
(* What becomes of a command: caller u's call ends, well only if it was    *)
(* carried out, or goes on; only Act tells what the recorder made of it.   *)
Stays(u) == /\ dev'.attention = dev.attention /\ untold' = untold
            /\ call'[u].pc # "idle" /\ call[u].pc # "idle"
            /\ call'[u].acted = call[u].acted /\ call'[u].cut = call[u].cut
            /\ call'[u].result = call[u].result
Finishes(u, r) == /\ Ends(u, r) /\ dev' = dev /\ call[u].pc # "idle"
                  /\ r.kind = "ok" => call[u].acted = "done"
                  /\ r.kind = "check" => call[u].acted = "refused"
                  /\ r.kind \in {"ok", "check", "scsi", "os", "expired"}
                  /\ r.kind = "check" =>
                       \/ r.sense \in {call[u].own, NoData}
                       \/ link = "s2pexec" /\ r.sense = call[u].reply
                            /\ call[u].pc = "sense_answered"
                  /\ r.kind = "expired" => /\ link = "s2pexec" /\ call[u].hung
                                           /\ call[u].pc \in {"run", "answered"}
                                           /\ call[u].age >= Kill

LEMMA StepFacts ==
  ASSUME TypeOK, NEW u \in Callers, Sound(call[u], link), Execute(u)
  PROVE  \/ Begin(u) \/ Act(u) \/ RequestSense(u) \/ Stays(u)
         \/ \E r \in Results : Finishes(u, r)
<1>1. call[u] \in Calls /\ link \in Links  BY DEF TypeOK
<1>2. CASE Start(u)
  <2>1. CASE Goes(u, [call[u] EXCEPT !.pc = "run"]) /\ UNCHANGED untold
    <3>1. call'[u] = [call[u] EXCEPT !.pc = "run"] /\ call[u].pc = "start"
          /\ dev' = dev
      BY <1>2, <2>1 DEF Goes, TypeOK, Start
    <3> QED  BY <1>1, <2>1, <3>1 DEF Stays, Calls
  <2>2. CASE Ends(u, Result("os"))
    <3>1. Finishes(u, Result("os"))
      BY <1>2, <2>2, ResultFacts DEF Finishes, Start, Kinds
    <3> QED  BY <3>1, ResultFacts DEF Kinds
  <2> QED  BY <1>2, <2>1, <2>2 DEF Start
<1>3. CASE Exit(u)
  <2>1. call[u].pc = "answered" /\ dev' = dev /\ call[u].acted \in {"done", "refused"}
    BY <1>3 DEF Exit, Sound
  <2>2. CASE call[u].acted = "done" /\ Ends(u, Result("ok"))
    <3>1. Finishes(u, Result("ok"))
      BY <2>1, <2>2, ResultFacts DEF Finishes, Kinds
    <3> QED  BY <3>1, ResultFacts DEF Kinds
  <2>3. CASE call[u].acted # "done" /\ link = "sg_io"
             /\ \E s \in {call[u].reply, NoData} : Ends(u, CheckCondition(s))
    <3>1. PICK s \in {call[u].reply, NoData} : Ends(u, CheckCondition(s))
      BY <2>3
    <3>2. call[u].acted = "refused" /\ call[u].reply = call[u].own
      BY <2>1, <2>3 DEF Sound
    <3>3. s \in SenseData  BY <1>1, SenseFacts DEF Calls
    <3>4. Finishes(u, CheckCondition(s))
      BY <2>1, <3>1, <3>2, <3>3, ResultFacts DEF Finishes
    <3> QED  BY <3>3, <3>4, ResultFacts
  <2>4. CASE Goes(u, [call[u] EXCEPT !.pc = "sense_start"]) /\ UNCHANGED untold
    <3>1. call'[u] = [call[u] EXCEPT !.pc = "sense_start"]
      BY <2>4 DEF Goes, TypeOK
    <3> QED  BY <1>1, <2>1, <2>4, <3>1 DEF Stays, Calls
  <2> QED  BY <1>1, <1>3, <2>1, <2>2, <2>3, <2>4 DEF Exit, Links
<1>4. CASE Fail(u)
  <2>1. PICK k \in {"scsi", "os"} : Ends(u, Result(k))
    BY <1>4 DEF Fail
  <2>2. Finishes(u, Result(k))
    BY <1>4, <2>1, ResultFacts DEF Finishes, Fail, Kinds
  <2> QED  BY <2>2, ResultFacts DEF Kinds
<1>5. CASE StartSense(u)
  <2>1. CASE Goes(u, [call[u] EXCEPT !.pc = "sense_run", !.age = 0, !.reply = NoData])
             /\ UNCHANGED untold
    <3>1. call'[u] = [call[u] EXCEPT !.pc = "sense_run", !.age = 0, !.reply = NoData]
          /\ call[u].pc = "sense_start" /\ dev' = dev
      BY <1>5, <2>1 DEF Goes, TypeOK, StartSense
    <3> QED  BY <1>1, <2>1, <3>1 DEF Stays, Calls
  <2>2. CASE Ends(u, Result("os"))
    <3>1. Finishes(u, Result("os"))
      BY <1>5, <2>2, ResultFacts DEF Finishes, StartSense, Kinds
    <3> QED  BY <3>1, ResultFacts DEF Kinds
  <2> QED  BY <1>5, <2>1, <2>2 DEF StartSense
<1>6. CASE SenseComes(u)
  <2>1. PICK s \in {NoData} \cup IF call[u].pc = "sense_answered"
                                 THEN {call[u].reply} ELSE {} :
               Ends(u, CheckCondition(s))
    BY <1>6 DEF SenseComes
  <2>2. s \in SenseData  BY <1>1, SenseFacts DEF Calls
  <2>3. call[u].acted = "refused" /\ link = "s2pexec" /\ call[u].pc # "idle"
    BY <1>6 DEF SenseComes, Sound, SenseStates
  <2>4. Finishes(u, CheckCondition(s))
    BY <1>6, <2>1, <2>2, <2>3, ResultFacts DEF Finishes, SenseComes
  <2> QED  BY <2>2, <2>4, ResultFacts
<1>7. CASE Hang(u)
  <2>1. call'[u] = [call[u] EXCEPT !.hung = TRUE] /\ call[u].pc # "idle"
        /\ dev' = dev /\ untold' = untold
    BY <1>7 DEF Goes, TypeOK, Hang, Waiting
  <2> QED  BY <1>1, <2>1 DEF Stays, Calls
<1>8. CASE Killed(u)
  <2>1. call[u].pc \in Waiting /\ call[u].hung /\ call[u].age >= TimeLimit(u)
        /\ dev' = dev /\ link = "s2pexec"
    BY <1>8 DEF Killed, OutOfTime, Sound
  <2>2. CASE call[u].pc \in {"run", "answered"}
    <3>1. call[u].age >= Kill  BY <2>1, <2>2 DEF TimeLimit
    <3>2. Ends(u, Result("expired"))  BY <1>8, <2>2 DEF Killed
    <3>3. Finishes(u, Result("expired"))
      BY <2>1, <2>2, <3>1, <3>2, ResultFacts DEF Finishes, Kinds
    <3> QED  BY <3>3, ResultFacts DEF Kinds
  <2>3. CASE call[u].pc \notin {"run", "answered"}
    <3>1. call[u].acted = "refused" /\ call[u].pc # "idle"
      BY <2>1, <2>3 DEF Sound, SenseStates, Waiting
    <3>2. Ends(u, CheckCondition(NoData))  BY <1>8, <2>3 DEF Killed
    <3>3. Finishes(u, CheckCondition(NoData))
      BY <2>1, <3>1, <3>2, SenseFacts, ResultFacts DEF Finishes
    <3> QED  BY <3>3, SenseFacts, ResultFacts
  <2> QED  BY <2>2, <2>3
<1> QED
  BY <1>2, <1>3, <1>4, <1>5, <1>6, <1>7, <1>8 DEF Execute

LEMMA FinishFacts ==
  ASSUME TypeOK, NEW u \in Callers, NEW r \in Results, Finishes(u, r)
  PROVE  /\ call'[u].pc = "idle" /\ call'[u].acted = "sent" /\ call'[u].result = r
         /\ untold' = (untold /\ r.kind = "ok")
  BY OverFacts, GoesFacts DEF Finishes, Ends

LEMMA ActFacts ==
  ASSUME TypeOK, NEW u \in Callers, Sound(call[u], link), Act(u)
  PROVE  /\ call[u].pc = "run" /\ call[u].acted = "sent"
         /\ call'[u].pc = "answered" /\ call'[u].acted \in {"done", "refused"}
         /\ call'[u].result = call[u].result /\ untold' = untold
         /\ dev'.attention = FALSE
         /\ dev.attention => call'[u].acted = "refused"
<1>1. call[u] \in Calls /\ dev \in Recorders /\ call[u].pc = "run"
      /\ untold' = untold
  BY DEF TypeOK, Act
<1>2. ASSUME NEW acted, NEW sense, NEW d, Replies(u, acted, sense, d)
      PROVE  /\ call'[u].pc = "answered" /\ call'[u].acted = acted
             /\ call'[u].result = call[u].result
  <2>1. call'[u] = [call[u] EXCEPT !.pc = "answered", !.acted = acted, !.own = sense,
                      !.reply = IF link = "sg_io" THEN sense ELSE @]
    BY <1>2 DEF Replies, Goes, TypeOK
  <2> QED  BY <1>1, <2>1 DEF Calls
<1>3. CASE dev.attention
  <2>1. Replies(u, "refused", Attention, [dev EXCEPT !.attention = FALSE])
    BY <1>3 DEF Act
  <2>2. dev'.attention = FALSE  BY <1>1, <2>1 DEF Replies, Recorders
  <2> QED  BY <1>1, <1>2, <2>1, <2>2 DEF Sound
<1>4. CASE ~dev.attention
  <2>1. ASSUME NEW a \in {"done", "refused"}, NEW s,
               NEW d \in {dev, [dev EXCEPT !.full = TRUE]}, Replies(u, a, s, d)
        PROVE  call'[u].acted \in {"done", "refused"} /\ dev'.attention = FALSE
               /\ call'[u].pc = "answered" /\ call'[u].result = call[u].result
    <3>1. dev'.attention = FALSE  BY <1>1, <1>4, <2>1 DEF Replies, Recorders
    <3> QED  BY <1>2, <2>1, <3>1
  <2>2. \/ \E s \in Refusals(call[u].cmd) : Replies(u, "refused", s, dev)
        \/ Replies(u, "done", NoSense, [dev EXCEPT !.full = TRUE])
    BY <1>4 DEF Act
  <2> QED  BY <1>1, <1>4, <2>1, <2>2 DEF Sound
<1> QED  BY <1>3, <1>4

(* A power cycle is still to be told of until a call fails.                *)
LEMMA LossStep ==
  ASSUME TInv, [Next]_vars
  PROVE  LossPending'
<1>0. /\ TypeOK /\ dev \in Recorders /\ (untold => LossPending)
      /\ \A v \in Callers : call[v] \in Calls /\ Sound(call[v], link)
  BY DEF TInv, TypeOK
<1> SUFFICES ASSUME untold'
             PROVE  IF dev'.attention
                    THEN \A v \in Callers : call'[v].acted = "done" => call'[v].cut
                    ELSE \E v \in Callers : call'[v].acted = "refused"
  BY DEF LossPending
<1>1. ASSUME NEW u \in Callers, Execute(u)
      PROVE  IF dev'.attention
             THEN \A v \in Callers : call'[v].acted = "done" => call'[v].cut
             ELSE \E v \in Callers : call'[v].acted = "refused"
  <2>1. \A v \in Callers : v # u => call'[v] = call[v]
    BY <1>0, <1>1, IdleStep
  <2>2. CASE Begin(u)
    <3>1. PICK cmd \in Commands :
            call'[u] = NewCall("start", cmd, call[u].result)
      BY <2>2, <1>0 DEF Begin, Goes, TypeOK
    <3>2. call'[u].acted = "sent"  BY <3>1 DEF NewCall
    <3>3. dev' = dev /\ untold /\ call[u].acted = "sent"
      BY <1>0, <2>2 DEF Begin, Idle, Sound
    <3> QED  BY <1>0, <2>1, <3>2, <3>3 DEF LossPending
  <2>3. CASE Act(u)
    <3>1. /\ call[u].acted = "sent" /\ untold /\ dev'.attention = FALSE
          /\ dev.attention => call'[u].acted = "refused"
      BY <1>0, <2>3, ActFacts
    <3>2. CASE dev.attention  BY <3>1, <3>2
    <3>3. CASE ~dev.attention
      <4>1. PICK v \in Callers : call[v].acted = "refused"
        BY <1>0, <3>1, <3>3 DEF LossPending
      <4>2. call'[v].acted = "refused"  BY <2>1, <3>1, <4>1
      <4> QED  BY <3>1, <4>2
    <3> QED  BY <3>2, <3>3
  <2>4. CASE RequestSense(u)
    <3>1. PICK told \in {FALSE, dev.attention /\ dev.sense = NoSense} :
            /\ Goes(u, [call[u] EXCEPT !.pc = "sense_answered",
                                       !.reply = IF told THEN Attention ELSE dev.sense])
            /\ dev' = [dev EXCEPT !.sense = NoSense, !.attention = @ /\ ~told]
      BY <2>4 DEF RequestSense
    <3>2. call[u].acted = "refused" /\ untold
      BY <1>0, <2>4 DEF RequestSense, Sound, SenseStates
    <3>3. call'[u] = [call[u] EXCEPT !.pc = "sense_answered",
                                     !.reply = IF told THEN Attention ELSE dev.sense]
      BY <1>0, <3>1 DEF Goes, TypeOK
    <3>4. call'[u].acted = "refused"  BY <1>0, <3>2, <3>3 DEF Calls
    <3>5. dev'.attention => dev.attention
      BY <1>0, <3>1 DEF Recorders
    <3> QED  BY <1>0, <2>1, <3>2, <3>4, <3>5 DEF LossPending
  <2>5. CASE Stays(u)
    BY <1>0, <2>1, <2>5 DEF Stays, LossPending
  <2>6. ASSUME NEW r \in Results, Finishes(u, r)
        PROVE  IF dev'.attention
               THEN \A v \in Callers : call'[v].acted = "done" => call'[v].cut
               ELSE \E v \in Callers : call'[v].acted = "refused"
    <3>1. call'[u].acted = "sent" /\ untold /\ r.kind = "ok"
      BY <1>0, <2>6, FinishFacts
    <3>2. dev' = dev /\ call[u].acted = "done"
      BY <2>6, <3>1 DEF Finishes
    <3> QED  BY <1>0, <2>1, <3>1, <3>2 DEF LossPending
  <2> QED  BY <1>0, <1>1, <2>2, <2>3, <2>4, <2>5, <2>6, StepFacts
<1>2. CASE Tick
  <2>1. \A v \in Callers : call'[v].acted = call[v].acted /\ call'[v].cut = call[v].cut
    BY <1>0, <1>2 DEF Tick, Older, Calls
  <2> QED  BY <1>0, <1>2, <2>1 DEF Tick, LossPending
<1>3. CASE PowerCycle
  <2>1. dev'.attention = TRUE  BY <1>3 DEF PowerCycle
  <2>2. ASSUME NEW v \in Callers, call'[v].acted = "done"  PROVE  call'[v].cut
    <3>1. CASE Idle(v)
      BY <1>0, <1>3, <2>2, <3>1 DEF PowerCycle, Sound, Idle
    <3>2. CASE ~Idle(v)
      <4>1. call'[v] = [call[v] EXCEPT !.cut = TRUE]
        BY <1>3, <3>2 DEF PowerCycle
      <4> QED  BY <1>0, <4>1 DEF Calls
    <3> QED  BY <3>1, <3>2
  <2> QED  BY <2>1, <2>2
<1>4. CASE UNCHANGED vars
  BY <1>0, <1>4 DEF vars, LossPending
<1> QED  BY <1>1, <1>2, <1>3, <1>4 DEF Next

(* TInv is inductive.                                                      *)
THEOREM TransportInvariance == Spec => []TInv
<1>1. ASSUME Init  PROVE  TInv
  <2>1. Result("none") \in Results  BY ResultFacts DEF Kinds
  <2>2. \A u \in Callers : call[u] = Over(Result("none"))  BY <1>1 DEF Init
  <2>3. \A u \in Callers : /\ call[u] \in Calls /\ Sound(call[u], link)
                           /\ Idle(u) /\ Kept(call[u], dev.sense)
    BY <2>1, <2>2, OverFacts, IdleKept DEF Idle
  <2>4. TypeOK
    BY <1>1, <2>1, OverFacts, SenseFacts DEF Init, TypeOK, Recorders
  <2> QED  BY <1>1, <2>3, <2>4 DEF Init, TInv, Exclusive, SenseKept, LossPending
<1>2. TInv /\ [Next]_vars => TInv'
  BY SoundStep, ExclusiveStep, KeptStep, LossStep DEF TInv
<1> QED  BY <1>1, <1>2, PTL DEF Spec

(* How a call that ends in this step ends.                                 *)
LEMMA ReturnFacts ==
  ASSUME TInv, [Next]_vars, NEW u \in Callers, ~Idle(u), call'[u].pc = "idle"
  PROVE  \E r \in Results : Finishes(u, r) /\ call'[u].result = r
<1>0. TypeOK /\ \A v \in Callers : call[v] \in Calls /\ Sound(call[v], link)
  BY DEF TInv, TypeOK
<1>1. CASE Execute(u)
  <2>1. ~Begin(u)  BY DEF Begin
  <2>2. ~Act(u)  BY <1>0, ActFacts
  <2>3. ~RequestSense(u)
    <3>1. ASSUME RequestSense(u)  PROVE  call'[u].pc = "sense_answered"
      <4>1. PICK told : call'[u] = [call[u] EXCEPT !.pc = "sense_answered",
                                      !.reply = IF told THEN Attention ELSE dev.sense]
        BY <1>0, <3>1 DEF RequestSense, Goes, TypeOK
      <4> QED  BY <1>0, <4>1 DEF Calls
    <3> QED  BY <3>1
  <2>4. ~Stays(u)  BY DEF Stays
  <2> QED  BY <1>0, <1>1, <2>1, <2>2, <2>3, <2>4, StepFacts, FinishFacts
<1>2. ASSUME NEW v \in Callers, v # u, Execute(v)  PROVE  FALSE
  <2>1. call'[u] = call[u]  BY <1>0, <1>2, IdleStep
  <2> QED  BY <2>1 DEF Idle
<1>3. CASE Tick
  BY <1>0, <1>3 DEF Tick, Older, Calls, Idle
<1>4. CASE PowerCycle
  <2>1. call'[u] = [call[u] EXCEPT !.cut = TRUE]  BY <1>4 DEF PowerCycle
  <2> QED  BY <1>0, <2>1 DEF Idle, Calls
<1>5. CASE UNCHANGED vars
  BY <1>5 DEF vars, Idle
<1> QED  BY <1>1, <1>2, <1>3, <1>4, <1>5 DEF Next

(* Every reply, exception and time is one the code can handle.             *)
THEOREM TransportTypes == Spec => []TypeOK
<1>1. TInv => TypeOK  BY DEF TInv
<1> QED  BY <1>1, TransportInvariance, PTL

(* With one caller at a time on s2pexec, an exception never carries the    *)
(* sense data of another command.                                          *)
THEOREM SenseTheorem ==
  ASSUME "s2pexec" \notin SharedLinks
  PROVE  Spec => SenseIsOwn
<1>1. ASSUME TInv, [Next]_vars
      PROVE  [\A u \in Callers : Returns(u, "check") =>
                \/ call'[u].result.sense \in {call[u].own, NoData}
                \/ call[u].cut /\ call'[u].result.sense \in {NoSense, Attention}]_vars
  <2> SUFFICES ASSUME NEW u \in Callers, Returns(u, "check")
               PROVE  \/ call'[u].result.sense \in {call[u].own, NoData}
                      \/ /\ call[u].cut
                         /\ call'[u].result.sense \in {NoSense, Attention}
    OBVIOUS
  <2>1. PICK r \in Results : Finishes(u, r) /\ call'[u].result = r
    BY <1>1, ReturnFacts DEF Returns
  <2>2. r.kind = "check"  BY <2>1 DEF Returns
  <2>3. CASE r.sense \in {call[u].own, NoData}  BY <2>1, <2>3
  <2>4. CASE link = "s2pexec" /\ r.sense = call[u].reply
               /\ call[u].pc = "sense_answered"
    <3>1. Kept(call[u], dev.sense)
      BY <1>1, <2>4 DEF TInv, SenseKept
    <3> QED  BY <2>1, <2>4, <3>1 DEF Kept
  <2> QED  BY <2>1, <2>2, <2>3, <2>4 DEF Finishes
<1> QED  BY <1>1, TransportInvariance, PTL DEF Spec, SenseIsOwn

(* Whatever takes the Unit Attention away, a call fails before another one *)
(* that began after the power cycle succeeds.                              *)
THEOREM LossTheorem == Spec => PowerLossIsTold
<1>1. ASSUME TInv, [Next]_vars
      PROVE  [\A u \in Callers : Returns(u, "ok") /\ ~call[u].cut /\ untold
                => \E v \in Callers \ {u} : call[v].acted = "refused"]_vars
  <2> SUFFICES ASSUME NEW u \in Callers, Returns(u, "ok"), ~call[u].cut, untold
               PROVE  \E v \in Callers \ {u} : call[v].acted = "refused"
    OBVIOUS
  <2>1. call[u].acted = "done"
    BY <1>1, ReturnFacts DEF Returns, Finishes
  <2>2. ~dev.attention  BY <1>1, <2>1 DEF TInv, LossPending
  <2> QED  BY <1>1, <2>1, <2>2 DEF TInv, LossPending
<1> QED  BY <1>1, TransportInvariance, PTL DEF Spec, PowerLossIsTold

(* No call outlasts its time limits, whatever hangs.                       *)
THEOREM BoundTheorem == Spec => []CallIsBounded
<1>1. ASSUME TInv  PROVE  CallIsBounded
  <2> SUFFICES ASSUME NEW u \in Callers
               PROVE  \/ call[u].total =< Limit
                      \/ /\ link = "s2pexec"
                         /\ call[u].total =< Kill \/ call[u].total =< Limit + SenseKill
    BY DEF CallIsBounded
  <2>1. call[u] \in Calls /\ Sound(call[u], link)
    BY <1>1 DEF TInv, TypeOK
  <2>2. call[u].pc \in {"idle", "start", "run", "answered", "sense_start",
                        "sense_run", "sense_answered"}
        /\ call[u].age \in Nat /\ call[u].total \in Nat /\ call[u].hung \in BOOLEAN
    BY <2>1, Limits DEF Calls, Waiting
  <2>3. call[u].hung \/ call[u].pc \in SenseStates => link = "s2pexec"
    BY <2>1 DEF Sound
  <2> QED
    BY <2>1, <2>2, <2>3, Limits DEF Sound, InTime, SenseStates
<1> QED  BY <1>1, TransportInvariance, PTL

(* s2pexec's own limit always comes before subprocess.run's.               *)
THEOREM LimitTheorem == Spec => OwnLimitFirst
<1>1. ASSUME TInv, [Next]_vars
      PROVE  [\A u \in Callers : Returns(u, "expired") =>
                link = "s2pexec" /\ call[u].hung /\ call[u].total > Limit]_vars
  <2> SUFFICES ASSUME NEW u \in Callers, Returns(u, "expired")
               PROVE  link = "s2pexec" /\ call[u].hung /\ call[u].total > Limit
    OBVIOUS
  <2>1. /\ link = "s2pexec" /\ call[u].hung /\ call[u].age >= Kill
        /\ call[u].pc \in {"run", "answered"}
    BY <1>1, ReturnFacts DEF Returns, Finishes
  <2>2. call[u].total = call[u].age /\ call[u].age \in Nat
    BY <1>1, <2>1, Limits DEF TInv, TypeOK, Sound, InTime, Calls
  <2> QED  BY <2>1, <2>2, Limits
<1> QED  BY <1>1, TransportInvariance, PTL DEF Spec, OwnLimitFirst

-----------------------------------------------------------------------------
(* The steps a call has left: the places it still comes to, at each of     *)
(* them no more than Longest seconds and one hang.                         *)
Longest == Kill + SenseKill
Rank(c) == CASE c.pc = "idle"           -> 0
             [] c.pc = "sense_answered" -> 1
             [] c.pc = "sense_run"      -> 2
             [] c.pc = "sense_start"    -> 3
             [] c.pc = "answered"       -> 4
             [] c.pc = "run"            -> 5
             [] c.pc = "start"          -> 6
StepsLeft(c) ==
  Rank(c) * (Longest + 2) + (IF c.hung THEN 0 ELSE 1) + (Longest - c.age)

(* Every step of a call uses up one of the steps it has left, and so does  *)
(* a second for which it waits; nobody else's step gives it another.  The  *)
(* two processes and their time limits add up to an end (_run and          *)
(* _fetch_sense), which is what CallEnds rests on besides fairness.        *)
CallIsUsedUp ==
  [][\A u \in Callers :
       LET now == StepsLeft(call[u])
           then == StepsLeft(call'[u])
       IN  /\ then \in Nat /\ then < 7 * (Longest + 2)
           /\ ~Idle(u) => then =< now
           /\ ~Idle(u) /\ (Execute(u) \/ (Tick /\ call[u].pc \in Waiting))
                => then < now]_vars

LEMMA LeftFacts ==
  ASSUME NEW c \in Calls
  PROVE  /\ Longest \in Nat /\ Rank(c) \in 0..6 /\ c.age \in 0..Longest
         /\ StepsLeft(c) \in Nat
         /\ StepsLeft(c) >= Rank(c) * (Longest + 2)
         /\ StepsLeft(c) < (Rank(c) + 1) * (Longest + 2)
<1>1. Longest \in Nat /\ c.age \in 0..Longest /\ c.hung \in BOOLEAN
  BY Limits DEF Longest, Calls
<1>2. Rank(c) \in {0, 1, 2, 3, 4, 5, 6}
  BY DEF Rank, Calls, Waiting
<1> DEFINE rest == (IF c.hung THEN 0 ELSE 1) + (Longest - c.age)
<1>3. rest \in 0..Longest + 1
  BY <1>1
<1>4. StepsLeft(c) = Rank(c) * (Longest + 2) + rest
  BY <1>1, <1>2 DEF StepsLeft
<1> HIDE DEF rest
<1>5. ASSUME NEW n \in {0, 1, 2, 3, 4, 5, 6}, Rank(c) = n
      PROVE  /\ StepsLeft(c) \in Nat
             /\ StepsLeft(c) >= n * (Longest + 2)
             /\ StepsLeft(c) < (n + 1) * (Longest + 2)
  BY <1>1, <1>3, <1>4, <1>5
<1> QED  BY <1>1, <1>2, <1>5

(* One place further is worth more than all that can be left at a place.   *)
LEMMA LowerRank ==
  ASSUME NEW c \in Calls, NEW d \in Calls, Rank(d) < Rank(c)
  PROVE  StepsLeft(d) < StepsLeft(c)
<1>1. PICK m \in {0, 1, 2, 3, 4, 5, 6}, n \in {0, 1, 2, 3, 4, 5, 6} :
        Rank(d) = m /\ Rank(c) = n
  BY LeftFacts
<1>2. (m + 1) * (Longest + 2) =< n * (Longest + 2)
  <2>1. m + 1 =< n /\ Longest \in Nat  BY <1>1, LeftFacts
  <2> QED  BY <2>1
<1>3. /\ StepsLeft(d) \in Nat /\ StepsLeft(d) < (m + 1) * (Longest + 2)
      /\ StepsLeft(c) \in Nat /\ n * (Longest + 2) =< StepsLeft(c)
  BY <1>1, LeftFacts
<1>4. (m + 1) * (Longest + 2) \in Nat /\ n * (Longest + 2) \in Nat
  BY LeftFacts
<1> QED  BY <1>2, <1>3, <1>4

LEMMA ExecuteLeft ==
  ASSUME TInv, NEW u \in Callers, Execute(u), ~Idle(u), TypeOK'
  PROVE  StepsLeft(call'[u]) < StepsLeft(call[u])
<1>0. TypeOK /\ call[u] \in Calls /\ call'[u] \in Calls /\ Sound(call[u], link)
      /\ ~Begin(u)
  BY DEF TInv, TypeOK, Begin
<1>1. ASSUME Rank(call'[u]) < Rank(call[u])
      PROVE  StepsLeft(call'[u]) < StepsLeft(call[u])
  BY <1>0, <1>1, LowerRank
<1>2. CASE call'[u].pc = "idle"
  <2>1. Rank(call'[u]) = 0 /\ Rank(call[u]) > 0
    BY <1>0, <1>2 DEF Rank, Idle, Calls, Waiting
  <2> QED  BY <1>1, <2>1
<1>3. CASE Act(u)
  <2>1. call[u].pc = "run" /\ call'[u].pc = "answered"
    BY <1>0, <1>3, ActFacts
  <2> QED  BY <1>1, <2>1 DEF Rank
<1>4. CASE RequestSense(u)
  <2>1. PICK told : call'[u] = [call[u] EXCEPT !.pc = "sense_answered",
                                  !.reply = IF told THEN Attention ELSE dev.sense]
    BY <1>0, <1>4 DEF RequestSense, Goes, TypeOK
  <2>2. call[u].pc = "sense_run" /\ call'[u].pc = "sense_answered"
    BY <1>0, <1>4, <2>1 DEF RequestSense, Calls
  <2> QED  BY <1>1, <2>2 DEF Rank
<1>5. CASE Hang(u)
  <2>1. call'[u] = [call[u] EXCEPT !.hung = TRUE] /\ ~call[u].hung
    BY <1>0, <1>5 DEF Hang, Goes, TypeOK
  <2>2. call'[u].pc = call[u].pc /\ call'[u].age = call[u].age /\ call'[u].hung
    BY <1>0, <2>1 DEF Calls
  <2>3. Rank(call'[u]) = Rank(call[u])
    BY <2>2 DEF Rank
  <2> DEFINE places == Rank(call[u]) * (Longest + 2)
  <2>4. StepsLeft(call'[u]) = places + 0 + (Longest - call[u].age)
    BY <2>2, <2>3 DEF StepsLeft
  <2>5. StepsLeft(call[u]) = places + 1 + (Longest - call[u].age)
    BY <2>1 DEF StepsLeft
  <2>6. places \in Nat /\ Longest \in Nat /\ call[u].age \in 0..Longest
    BY <1>0, LeftFacts
  <2> HIDE DEF places
  <2> QED  BY <2>4, <2>5, <2>6
<1>6. ASSUME NEW r, Ends(u, r) PROVE call'[u].pc = "idle"
  BY <1>0, <1>6 DEF Ends, Goes, Over, NewCall, TypeOK
<1>7. ASSUME NEW c, Goes(u, c) PROVE call'[u] = c
  BY <1>0, <1>7 DEF Goes, TypeOK
<1>8. CASE Start(u)
  <2>1. call[u].pc = "start"
        /\ (Goes(u, [call[u] EXCEPT !.pc = "run"]) \/ Ends(u, Result("os")))
    BY <1>8 DEF Start
  <2>2. ASSUME Goes(u, [call[u] EXCEPT !.pc = "run"]) PROVE call'[u].pc = "run"
    BY <1>0, <1>7, <2>2 DEF Calls
  <2> QED  BY <1>1, <1>2, <1>6, <2>1, <2>2 DEF Rank
<1>9. CASE StartSense(u)
  <2> DEFINE c == [call[u] EXCEPT !.pc = "sense_run", !.age = 0, !.reply = NoData]
  <2>1. call[u].pc = "sense_start" /\ (Goes(u, c) \/ Ends(u, Result("os")))
    BY <1>9 DEF StartSense
  <2>2. ASSUME Goes(u, c) PROVE call'[u].pc = "sense_run"
    BY <1>0, <1>7, <2>2 DEF Calls
  <2> QED  BY <1>1, <1>2, <1>6, <2>1, <2>2 DEF Rank
<1>10. CASE Exit(u)
  <2> DEFINE c == [call[u] EXCEPT !.pc = "sense_start"]
  <2>1. call[u].pc = "answered" /\ (Goes(u, c) \/ \E r : Ends(u, r))
    BY <1>10 DEF Exit
  <2>2. ASSUME Goes(u, c) PROVE call'[u].pc = "sense_start"
    BY <1>0, <1>7, <2>2 DEF Calls
  <2> QED  BY <1>1, <1>2, <1>6, <2>1, <2>2 DEF Rank
<1>11. CASE Fail(u) \/ SenseComes(u) \/ Killed(u)
  <2>1. \E r : Ends(u, r)
    BY <1>11 DEF Fail, SenseComes, Killed
  <2> QED  BY <1>2, <1>6, <2>1
<1> QED  BY <1>0, <1>3, <1>4, <1>5, <1>8, <1>9, <1>10, <1>11 DEF Execute

LEMMA TickLeft ==
  ASSUME TInv, NEW u \in Callers, Tick
  PROVE  /\ StepsLeft(call'[u]) =< StepsLeft(call[u])
         /\ call[u].pc \in Waiting => StepsLeft(call'[u]) < StepsLeft(call[u])
<1>0. call[u] \in Calls
  BY DEF TInv, TypeOK
<1> DEFINE places == Rank(call[u]) * (Longest + 2) + (IF call[u].hung THEN 0 ELSE 1)
<1>1. places \in Nat /\ Longest \in Nat /\ call[u].age \in 0..Longest
  <2>1. Rank(call[u]) \in {0, 1, 2, 3, 4, 5, 6} /\ Longest \in Nat
        /\ call[u].age \in 0..Longest
    BY <1>0, LeftFacts
  <2> QED  BY <2>1
<1>2. StepsLeft(call[u]) = places + (Longest - call[u].age)
  BY DEF StepsLeft
<1>3. CASE call[u].pc \in Waiting
  <2>1. call'[u] = Older(call[u])
    BY <1>3 DEF Tick
  <2>2. /\ call'[u].pc = call[u].pc /\ call'[u].hung = call[u].hung
        /\ call'[u].age = call[u].age + 1
    BY <1>0, <2>1 DEF Older, Calls
  <2>3. Rank(call'[u]) = Rank(call[u])
    BY <2>2 DEF Rank
  <2>4. StepsLeft(call'[u]) = places + (Longest - (call[u].age + 1))
    BY <2>2, <2>3 DEF StepsLeft
  <2> HIDE DEF places
  <2> QED  BY <1>1, <1>2, <2>4
<1>4. CASE call[u].pc \notin Waiting
  <2>1. call'[u] = call[u]
    BY <1>4 DEF Tick
  <2> HIDE DEF places
  <2> QED  BY <1>1, <1>2, <1>4, <2>1
<1> QED  BY <1>3, <1>4

(* The steps of a call are counted, whoever else is about                  *)
(* (CallIsUsedUp).                                                         *)
THEOREM CallStepsCount == Spec => CallIsUsedUp
<1> DEFINE Used(u) ==
      LET now == StepsLeft(call[u])
          then == StepsLeft(call'[u])
      IN  /\ then \in Nat /\ then < 7 * (Longest + 2)
          /\ ~Idle(u) => then =< now
          /\ ~Idle(u) /\ (Execute(u) \/ (Tick /\ call[u].pc \in Waiting))
               => then < now
<1>1. TInv /\ TInv' /\ [Next]_vars => [\A u \in Callers : Used(u)]_vars
  <2> SUFFICES ASSUME TInv, TInv', Next, NEW u \in Callers PROVE Used(u)
    OBVIOUS
  <2> DEFINE now == StepsLeft(call[u])
             then == StepsLeft(call'[u])
  <2>0. TypeOK /\ TypeOK' /\ call[u] \in Calls /\ call'[u] \in Calls
    BY DEF TInv, TypeOK
  <2>1. now \in Nat /\ then \in Nat /\ then < 7 * (Longest + 2)
    <3>1. PICK n \in {0, 1, 2, 3, 4, 5, 6} : Rank(call'[u]) = n
      BY <2>0, LeftFacts
    <3>2. (n + 1) * (Longest + 2) =< 7 * (Longest + 2)
      <4>1. Longest \in Nat  BY <2>0, LeftFacts
      <4> QED  BY <4>1
    <3>3. then < (n + 1) * (Longest + 2) /\ then \in Nat /\ now \in Nat
          /\ Longest \in Nat
      BY <2>0, <3>1, LeftFacts
    <3> HIDE DEF now, then
    <3> QED  BY <3>2, <3>3
  <2>2. ASSUME Execute(u), ~Idle(u) PROVE then < now
    BY <2>0, <2>2, ExecuteLeft
  <2>3. ASSUME Tick PROVE then =< now /\ (call[u].pc \in Waiting => then < now)
    BY <2>3, TickLeft
  <2>4. ASSUME NEW v \in Callers, Execute(v), v # u PROVE then = now
    <3>1. call'[u] = call[u]
      BY <2>0, <2>4, IdleStep
    <3> QED  BY <3>1
  <2>5. ASSUME PowerCycle PROVE then = now
    <3>1. /\ call'[u].pc = call[u].pc /\ call'[u].hung = call[u].hung
          /\ call'[u].age = call[u].age
      BY <2>0, <2>5 DEF PowerCycle, Calls
    <3> QED  BY <3>1 DEF StepsLeft, Rank
  <2> HIDE DEF now, then
  <2>6. ~Idle(u) => then =< now
    BY <2>1, <2>2, <2>3, <2>4, <2>5 DEF Next
  <2> QED  BY <2>1, <2>2, <2>3, <2>6 DEF now, then
<1> QED  BY <1>1, TransportInvariance, PTL DEF Spec, CallIsUsedUp

-----------------------------------------------------------------------------
(* What Call sees.                                                         *)
Stage == [u \in Callers |-> IF Idle(u) THEN "idle" ELSE call[u].acted]
Last  == [u \in Callers |-> Told[call[u].result.kind]]

LEMMA ToldFacts ==
  /\ Told["none"] = "none" /\ Told["ok"] = "returned" /\ Told["check"] = "refused"
  /\ Told["scsi"] = "failed" /\ Told["os"] = "failed" /\ Told["expired"] = "failed"
  BY DEF Told

(* Both transports implement Call.                                         *)
THEOREM ImplementsCall == Spec => CallSpec
<1>1. Init => Contract!Init
  <2>1. ASSUME Init, NEW u \in Callers
        PROVE  Idle(u) /\ Told[call[u].result.kind] = "none"
    <3>1. Result("none") \in Results /\ Result("none").kind = "none"
      BY ResultFacts DEF Kinds
    <3>2. call[u].pc = "idle" /\ call[u].result = Result("none")
      BY <2>1, <3>1, OverFacts DEF Init
    <3> QED  BY <3>1, <3>2, ToldFacts DEF Idle
  <2> QED  BY <2>1 DEF Contract!Init
<1>2. ASSUME TInv, [Next]_vars
      PROVE  [Contract!Next]_<<Stage, Last>>
  <2>0. TypeOK /\ \A v \in Callers : call[v] \in Calls /\ Sound(call[v], link)
    BY <1>2 DEF TInv, TypeOK
  <2>1. ASSUME NEW u \in Callers, Execute(u)  PROVE  [Contract!Next]_<<Stage, Last>>
    <3>1. \A v \in Callers : v # u => call'[v] = call[v]
      BY <2>0, <2>1, IdleStep
    <3>2. ASSUME call'[u].result = call[u].result  PROVE  UNCHANGED Last
      BY <3>1, <3>2 DEF Last
    <3>3. ASSUME NEW s, (IF call'[u].pc = "idle" THEN "idle" ELSE call'[u].acted) = s
          PROVE  Stage' = [Stage EXCEPT ![u] = s]
      BY <3>1, <3>3 DEF Stage, Idle
    <3>4. Stage[u] = IF call[u].pc = "idle" THEN "idle" ELSE call[u].acted
      BY DEF Stage, Idle
    <3>5. CASE Begin(u)
      <4>1. PICK cmd \in Commands :
              call'[u] = NewCall("start", cmd, call[u].result)
        BY <2>0, <3>5 DEF Begin, Goes, TypeOK
      <4>2. call'[u].pc = "start" /\ call'[u].acted = "sent"
            /\ call'[u].result = call[u].result
        BY <4>1 DEF NewCall
      <4>3. Contract!Send(u)
        BY <3>2, <3>3, <3>4, <3>5, <4>2
        DEF Begin, Idle, Contract!Send, Contract!Moves, Stage, Last
      <4> QED  BY <4>3 DEF Contract!Next
    <3>6. CASE Act(u)
      <4>1. call[u].pc = "run" /\ call[u].acted = "sent"
            /\ call'[u].pc = "answered" /\ call'[u].acted \in {"done", "refused"}
            /\ call'[u].result = call[u].result
        BY <2>0, <3>6, ActFacts
      <4>2. Contract!CarryOut(u) \/ Contract!Refuse(u)
        BY <3>2, <3>3, <3>4, <4>1
        DEF Contract!CarryOut, Contract!Refuse, Contract!Moves, Stage, Last
      <4> QED  BY <4>2 DEF Contract!Next
    <3>7. CASE RequestSense(u)
      <4>1. PICK told : call'[u] = [call[u] EXCEPT !.pc = "sense_answered",
                                      !.reply = IF told THEN Attention ELSE dev.sense]
        BY <2>0, <3>7 DEF RequestSense, Goes, TypeOK
      <4>2. call'[u].pc = "sense_answered" /\ call'[u].acted = call[u].acted
            /\ call'[u].result = call[u].result /\ call[u].pc = "sense_run"
        BY <2>0, <3>7, <4>1 DEF Calls, RequestSense
      <4> QED  BY <3>1, <3>2, <4>2 DEF Stage, Idle
    <3>8. CASE Stays(u)
      BY <3>1, <3>2, <3>8 DEF Stays, Stage, Idle
    <3>9. ASSUME NEW r \in Results, Finishes(u, r)  PROVE  Contract!End(u)
      <4>1. call'[u].pc = "idle" /\ call'[u].result = r
        BY <2>0, <3>9, FinishFacts
      <4>2. Stage[u] = call[u].acted /\ Stage[u] # "idle"
        BY <2>0, <3>4, <3>9 DEF Finishes, Calls
      <4>3. Last' = [Last EXCEPT ![u] = Told[r.kind]]
        BY <3>1, <4>1 DEF Last
      <4>4. Stage' = [Stage EXCEPT ![u] = "idle"]
        BY <3>3, <4>1
      <4>5. Told[r.kind] \in {"failed"}
              \cup (IF Stage[u] = "done" THEN {"returned"} ELSE {})
              \cup (IF Stage[u] = "refused" THEN {"refused"} ELSE {})
        BY <3>9, <4>2, ToldFacts DEF Finishes
      <4> QED  BY <4>2, <4>3, <4>4, <4>5 DEF Contract!End, Stage, Last
    <3> QED
      BY <2>0, <2>1, <3>5, <3>6, <3>7, <3>8, <3>9, StepFacts DEF Contract!Next
  <2>2. CASE Tick
    <3>1. \A v \in Callers : /\ call'[v].pc = call[v].pc
                             /\ call'[v].acted = call[v].acted
                             /\ call'[v].result = call[v].result
      BY <2>0, <2>2 DEF Tick, Older, Calls
    <3> QED  BY <3>1 DEF Stage, Last, Idle
  <2>3. CASE PowerCycle
    <3>1. \A v \in Callers : /\ call'[v].pc = call[v].pc
                             /\ call'[v].acted = call[v].acted
                             /\ call'[v].result = call[v].result
      BY <2>0, <2>3 DEF PowerCycle, Calls
    <3> QED  BY <3>1 DEF Stage, Last, Idle
  <2>4. CASE UNCHANGED vars
    BY <2>4 DEF vars, Stage, Last, Idle
  <2> QED  BY <1>2, <2>1, <2>2, <2>3, <2>4 DEF Next
<1> QED
  BY <1>1, <1>2, TransportInvariance, PTL
  DEF Spec, CallSpec, Contract!Spec, Stage, Last
=============================================================================
