------------------------------- MODULE Session -------------------------------
(***************************************************************************)
(* Invocations of the command line (cli.py) on one recorder: each opens    *)
(* the device (pp8k.open), does its work through a Device and closes it.   *)
(* An invocation may be interrupted anywhere, the recorder may lose power  *)
(* anywhere, and with several clients invocations overlap.  An action is   *)
(* one SCSI command with the code up to the next one.  Of an exposure only *)
(* the commands that concern the film table and the exposure's phase are   *)
(* kept: Exposure has the rest.                                            *)
(***************************************************************************)
EXTENDS Integers, FiniteSets

CONSTANTS
  Clients,         \* processes that use the recorder
  Tables,          \* film tables
  Blank,           \* those whose name is empty
  None,            \* an empty slot, and Python's None
  SCRATCH_SLOT,    \* the last slot: 19
  Faults,          \* how a command, or printing to a terminal, may fail
  MaxCalls,        \* bound on the number of invocations
  MaxPowerCycles   \* bound on the number of power cycles

Exceptions == {"scsi", "os", "other"}

ASSUME SessionAssumption ==
  /\ SCRATCH_SLOT \in Nat /\ MaxCalls \in Nat /\ MaxPowerCycles \in Nat
  /\ Blank \subseteq Tables /\ None \notin Tables
  /\ Faults \subseteq Exceptions

Slots == 0..SCRATCH_SLOT
Maybe == Tables \cup {None}

(* The command and its arguments; a slot that is not an argument is 0.     *)
Job(op, slots, tables, force) ==
  [op : {op}, slot : slots, table : tables, force : force]
Jobs ==
  Job("status", {0}, {None}, {FALSE}) \cup Job("slots", {0}, {None}, {FALSE})
  \cup Job("reset", {0}, {None}, {FALSE})
  \cup Job("install", Slots, Tables, BOOLEAN)
  \cup Job("expose_film", {SCRATCH_SLOT}, Tables, {FALSE})
  \cup Job("expose_slot", Slots, {None}, {FALSE})
Exposes == {"expose_film", "expose_slot"}

VARIABLES
  rec,      \* the recorder
  client,   \* what each client is doing, or last did
  calls,    \* number of invocations so far
  cycles    \* number of power cycles so far

vars == <<rec, client, calls, cycles>>

(***************************************************************************)
(* The recorder.  gate is the frame being exposed: the tables in force     *)
(* when it was started and at each of its lines, and for each line the     *)
(* invocation that sent it with the table that invocation wanted.          *)
(***************************************************************************)
Lit       == {"calibrating", "exposing"}
Unexposed == [tables |-> {}, by |-> {}]
Frames    == [tables : SUBSET Maybe, by : SUBSET [call : Nat, table : Maybe]]
Recorders == [phase : {"idle", "stopped"} \cup Lit, mode : Slots,
              slots : [Slots -> Maybe], attention : BOOLEAN, gate : Frames]

PowerOn == [phase |-> "idle", mode |-> 0, slots |-> [s \in Slots |-> None],
            attention |-> FALSE, gate |-> Unexposed]
Clean(r) == r.phase = "idle" /\ ~r.attention
InForce(r) == r.slots[r.mode]

(***************************************************************************)
(* A client.  at: the slot the next command is about.  table: the film     *)
(* table to install or expose.  name: the table whose name was read.       *)
(* listing: names and aspects of film_slots_info, by the table they are    *)
(* of.  History: call, the number of the invocation; stale, the recorder   *)
(* was not clean when it began; alone, nothing disturbed it until now.     *)
(***************************************************************************)
Commands == {"inquiry", "test_unit_ready", "mode_sense", "reset", "name", "ask",
             "aspect", "own_aspect", "convert", "upload", "mode_select",
             "start", "send", "terminate", "err_stop", "err_term", "exc_stop"}
Results  == {"done", "notready", "raised", "refused", "declined", "rejected",
             "badimage", "complete", "error", "interrupted"}
Listings == [Slots -> [name : Maybe, aspect : Maybe]]
ClientStates ==
  [pc : Commands \cup {"idle"}, job : Jobs, at : Slots, table : Maybe,
   name : Maybe, agreed : BOOLEAN, listing : Listings, result : Results,
   call : Nat, stale : BOOLEAN, alone : BOOLEAN]

TypeOK ==
  /\ rec \in Recorders
  /\ client \in [Clients -> ClientStates]
  /\ calls \in 0..MaxCalls
  /\ cycles \in 0..MaxPowerCycles

Invocation(j, n, stale, alone) ==
  [pc |-> "inquiry", job |-> j, at |-> j.slot, table |-> j.table,
   name |-> None, agreed |-> FALSE,
   listing |-> [s \in Slots |-> [name |-> None, aspect |-> None]],
   result |-> "done", call |-> n, stale |-> stale, alone |-> alone]

Init ==
  /\ rec = PowerOn
  /\ \E j \in Job("status", {0}, {None}, {FALSE}) :
       client = [c \in Clients |->
                  [Invocation(j, 0, FALSE, FALSE) EXCEPT !.pc = "idle"]]
  /\ calls = 0 /\ cycles = 0

-----------------------------------------------------------------------------
(* What can come back from a command, as in Exposure; "illegal" is a       *)
(* refusal with the sense key Illegal Request.                             *)
Replies(accepts, done) ==
  LET answer == IF rec.attention
                THEN [out |-> "attention", rec |-> [rec EXCEPT !.attention = FALSE]]
                ELSE IF accepts THEN [out |-> "ok", rec |-> done]
                                ELSE [out |-> "illegal", rec |-> rec]
  IN  {answer} \cup [out : Faults, rec : {rec, answer.rec}]
SCSIErrors == {"illegal", "attention", "scsi"}

(* The invocation m goes on at p, or is over: device.close() in `finally`, *)
(* or in the `except` of open.                                             *)
Goes(m, p)  == [m EXCEPT !.pc = p]
Over(m, how) == [m EXCEPT !.pc = "idle", !.result = how]

(* After the reply `out` client c is as m says.                            *)
Becomes(c, out, m) ==
  client' = [client EXCEPT ![c] =
              [m EXCEPT !.alone = @ /\ out \notin Exceptions]]

Begin(c) ==
  /\ client[c].pc = "idle" /\ calls < MaxCalls
  /\ calls' = calls + 1
  /\ \E j \in Jobs :
       LET alone == \A d \in Clients \ {c} : client[d].pc = "idle"
       IN  client' = [d \in Clients |->
                       IF d = c THEN Invocation(j, calls + 1, ~Clean(rec), alone)
                       ELSE [client[d] EXCEPT !.alone = FALSE]]
  /\ UNCHANGED <<rec, cycles>>

(* pp8k.open.  INQUIRY is answered whatever the recorder's state.          *)
Inquiry(c) ==
  /\ client[c].pc = "inquiry"
  /\ \E out \in {"ok"} \cup Faults :
       Becomes(c, out, IF out = "ok" THEN Goes(client[c], "test_unit_ready")
                       ELSE Over(client[c], "raised"))
  /\ UNCHANGED <<rec, calls, cycles>>

AfterOpen ==
  [status |-> "mode_sense", slots |-> "name", reset |-> "reset",
   install |-> "name", expose_film |-> "convert", expose_slot |-> "name"]

(* A recorder that is calibrating may say that it is not ready.            *)
TestUnitReady(c) ==
  /\ client[c].pc = "test_unit_ready"
  /\ \E ready \in {TRUE, rec.phase # "calibrating"} : \E r \in Replies(ready, rec) :
       /\ rec' = r.rec
       /\ Becomes(c, r.out,
            CASE r.out = "ok" -> Goes(client[c], AfterOpen[client[c].job.op])
              [] r.out \in SCSIErrors -> Over(client[c], "notready")
              [] OTHER -> Over(client[c], "raised"))
  /\ UNCHANGED <<calls, cycles>>

ModeSense(c) ==
  /\ client[c].pc = "mode_sense"
  /\ \E r \in Replies(TRUE, rec) :
       /\ rec' = r.rec
       /\ Becomes(c, r.out,
                  Over(client[c], IF r.out = "ok" THEN "done" ELSE "raised"))
  /\ UNCHANGED <<calls, cycles>>

(* RESET_TO_DFLT.  Whether it wipes the slots is not known.                *)
Reset(c) ==
  /\ client[c].pc = "reset"
  /\ \E slots \in {rec.slots, PowerOn.slots} :
       \E r \in Replies(TRUE, [PowerOn EXCEPT !.slots = slots]) :
         /\ rec' = r.rec
         /\ Becomes(c, r.out,
                    Over(client[c], IF r.out = "ok" THEN "done" ELSE "raised"))
  /\ UNCHANGED <<calls, cycles>>

-----------------------------------------------------------------------------
(* Mutant: range(LAST_SLOT + 2).                                           *)
NextSlotPast(m) ==
  IF m.at =< SCRATCH_SLOT THEN [m EXCEPT !.pc = "name", !.at = @ + 1]
  ELSE Over(m, "done")

(* film_slots_info: the next of the slots.                                 *)
NextSlot(m) ==
  IF m.at < SCRATCH_SLOT THEN [m EXCEPT !.pc = "name", !.at = @ + 1]
  ELSE Over(m, "done")

(* Where an invocation goes when film_name gave the name of t, or None.    *)
Named(m, t) ==
  CASE m.job.op = "slots" ->
         IF t = None THEN NextSlot(m)
         ELSE [m EXCEPT !.pc = "aspect", !.listing[m.at].name = t]
    [] m.job.op = "install" ->
         [m EXCEPT !.name = t,
                   !.pc = IF t \notin Blank \cup {None} /\ ~m.job.force
                          THEN "ask" ELSE "upload"]
    [] m.job.op = "expose_slot" ->
         IF t = None THEN Over(m, "refused") ELSE Goes(m, "aspect")

(* Mutant: every SCSIError means that the slot is empty.                   *)
ReadsEmptyAny(out) == out \in SCSIErrors

(* film_name and film_aspect: Illegal Request means an empty slot, ...     *)
ReadsEmpty(out) == out = "illegal"

(* ... every other error is raised.                                        *)
FilmName(c) ==
  /\ client[c].pc = "name"
  /\ LET m == client[c]
     IN  \E r \in Replies(rec.slots[m.at] # None, rec) :
           /\ rec' = r.rec
           /\ Becomes(c, r.out,
                CASE r.out = "ok" -> Named(m, rec.slots[m.at])
                  [] ReadsEmpty(r.out) -> Named(m, None)
                  [] OTHER -> Over(m, "raised"))
  /\ UNCHANGED <<calls, cycles>>

(* film_aspect, called by film_slots_info, by cmd_expose and by expose.    *)
(* The aspect None is an error in both of the latter.                      *)
FilmAspect(c) ==
  /\ client[c].pc \in {"aspect", "own_aspect"}
  /\ LET m == client[c]
         t == rec.slots[m.at]
     IN  \E r \in Replies(t # None, rec) :
           /\ rec' = r.rec
           /\ Becomes(c, r.out,
                IF m.job.op = "slots" /\ (r.out = "ok" \/ ReadsEmpty(r.out))
                THEN NextSlot([m EXCEPT !.listing[m.at].aspect =
                                 IF r.out = "ok" THEN t ELSE None])
                ELSE IF r.out # "ok" THEN Over(m, "raised")
                ELSE IF m.pc = "aspect" THEN Goes(m, "own_aspect")
                ELSE [m EXCEPT !.pc = "convert", !.table = t])
  /\ UNCHANGED <<calls, cycles>>

(* cmd_install asks before it replaces a table; without a terminal, or     *)
(* with any answer but yes, it gives up.                                   *)
Ask(c) ==
  /\ client[c].pc = "ask"
  /\ \E m \in {Over(client[c], "declined"),
               [client[c] EXCEPT !.pc = "upload", !.agreed = TRUE]} :
       Becomes(c, "ok", m)
  /\ UNCHANGED <<rec, calls, cycles>>

(* Frame dimensions and scanlines are made before the recorder is touched; *)
(* either may raise.                                                       *)
Convert(c) ==
  /\ client[c].pc = "convert"
  /\ \E m \in {Over(client[c], "badimage"),
               Goes(client[c], IF client[c].job.op = "expose_film"
                               THEN "upload" ELSE "mode_select")} :
       Becomes(c, "ok", m)
  /\ UNCHANGED <<rec, calls, cycles>>

(* Mutant: an upload that the transport says failed is taken for done.     *)
UploadCarryingOn(c) ==
  /\ client[c].pc = "upload"
  /\ LET m == client[c]
     IN  \E r \in Replies(TRUE, [rec EXCEPT !.slots[m.at] = m.table]) :
           /\ rec' = r.rec
           /\ Becomes(c, r.out, IF m.job.op = "install" THEN Over(m, "done")
                                ELSE Goes(m, "mode_select"))
  /\ UNCHANGED <<calls, cycles>>

(* UPLOAD_FILM_TABLE, of install and of expose; the recorder may reject    *)
(* the table.  The exception leaves expose as it is.                       *)
Upload(c) ==
  /\ client[c].pc = "upload"
  /\ LET m == client[c]
     IN  \E good \in BOOLEAN :
         \E r \in Replies(good, [rec EXCEPT !.slots[m.at] = m.table]) :
           /\ rec' = r.rec
           /\ Becomes(c, r.out,
                CASE r.out = "ok" -> IF m.job.op = "install" THEN Over(m, "done")
                                     ELSE Goes(m, "mode_select")
                  [] r.out = "illegal" -> Over(m, "rejected")
                  [] OTHER -> Over(m, "raised"))
  /\ UNCHANGED <<calls, cycles>>

-----------------------------------------------------------------------------
(* run_exposure.  Where it goes after a reply that is not swallowed.       *)
Continues(m, out, p) ==
  Goes(m, CASE out = "ok" -> p
            [] out = "other" -> "exc_stop"
            [] OTHER -> "err_stop")

(* Whether MODE SELECT accepts an empty slot is not known.                 *)
ModeSelect(c) ==
  /\ client[c].pc = "mode_select"
  /\ LET m == client[c]
     IN  \E accepts \in {TRUE, rec.slots[m.at] # None} :
         \E r \in Replies(accepts, [rec EXCEPT !.mode = m.at]) :
           rec' = r.rec /\ Becomes(c, r.out, Continues(m, r.out, "start"))
  /\ UNCHANGED <<calls, cycles>>

Started == [rec EXCEPT !.phase = "calibrating",
                       !.gate = [tables |-> {InForce(rec)}, by |-> {}]]

(* Mutant: a refused START EXPOSURE is taken for a running calibration.    *)
StartExposureCarryingOn(c) ==
  /\ client[c].pc = "start"
  /\ \E r \in Replies(rec.phase = "idle", Started) :
       /\ rec' = r.rec
       /\ Becomes(c, r.out, IF r.out = "illegal" THEN Goes(client[c], "send")
                            ELSE Continues(client[c], r.out, "send"))
  /\ UNCHANGED <<calls, cycles>>

StartExposure(c) ==
  /\ client[c].pc = "start"
  /\ \E r \in Replies(rec.phase = "idle", Started) :
       rec' = r.rec /\ Becomes(c, r.out, Continues(client[c], r.out, "send"))
  /\ UNCHANGED <<calls, cycles>>

(* CURRENT_STATUS: some of the loops swallow SCSIError and some do not.    *)
Poll(c) ==
  /\ client[c].pc = "send"
  /\ \E r \in Replies(TRUE, rec) :
       /\ rec' = r.rec
       /\ \/ Becomes(c, r.out, Continues(client[c], r.out, "send"))
          \/ r.out \in SCSIErrors /\ Becomes(c, r.out, client[c])
  /\ UNCHANGED <<calls, cycles>>

LineBy(m) ==
  [rec EXCEPT !.gate =
     [tables |-> @.tables \cup {InForce(rec)},
      by |-> @.by \cup {[call |-> m.call, table |-> m.table]}]]

(* One line, which may have been the last.                                 *)
PrintLine(c) ==
  /\ client[c].pc = "send"
  /\ \E r \in Replies(rec.phase \in Lit, LineBy(client[c])) :
       /\ rec' = r.rec
       /\ \E p \in {"send", "terminate"} :
            Becomes(c, r.out, Continues(client[c], r.out, p))
  /\ UNCHANGED <<calls, cycles>>

Advanced == [rec EXCEPT !.phase = "idle", !.gate = Unexposed]

Terminate(c) ==
  /\ client[c].pc = "terminate"
  /\ \E r \in Replies(rec.phase # "idle", Advanced) :
       /\ rec' = r.rec
       /\ Becomes(c, r.out, IF r.out = "ok" THEN Over(client[c], "complete")
                            ELSE Continues(client[c], r.out, "terminate"))
  /\ UNCHANGED <<calls, cycles>>

(* The handlers of errors: the first two commands are those of             *)
(* `except (SCSIError, OSError)`, which returns; the other is that of      *)
(* `except Exception`, which raises.  stop_print swallows SCSIError.       *)
StopPrint(c) ==
  /\ client[c].pc \in {"err_stop", "exc_stop"}
  /\ LET m == client[c]
     IN  \E r \in Replies(TRUE, [rec EXCEPT !.phase = IF @ \in Lit THEN "stopped"
                                                      ELSE @]) :
           /\ rec' = r.rec
           /\ Becomes(c, r.out,
                CASE m.pc = "exc_stop" \/ r.out = "other" -> Over(m, "raised")
                  [] m.pc = "err_stop" /\ r.out = "os" -> Over(m, "error")
                  [] OTHER -> Goes(m, "err_term"))
  /\ UNCHANGED <<calls, cycles>>

(* Mutant: the error handler ends with STOP PRINT.                         *)
TerminateSkipped(c) ==
  /\ client[c].pc = "err_term"
  /\ Becomes(c, "ok", Over(client[c], "error"))
  /\ UNCHANGED <<rec, calls, cycles>>

TerminateStopped(c) ==
  /\ client[c].pc = "err_term"
  /\ \E r \in Replies(rec.phase # "idle", Advanced) :
       /\ rec' = r.rec
       /\ Becomes(c, r.out,
                  Over(client[c], IF r.out = "other" THEN "raised" ELSE "error"))
  /\ UNCHANGED <<calls, cycles>>

-----------------------------------------------------------------------------
(* KeyboardInterrupt, which no handler below main catches: the device is   *)
(* closed and the recorder stays as it is.                                 *)
Interrupt(c) ==
  /\ client[c].pc # "idle"
  /\ client' = [client EXCEPT ![c] = [Over(@, "interrupted") EXCEPT !.alone = FALSE]]
  /\ UNCHANGED <<rec, calls, cycles>>

Calibrate ==
  /\ rec.phase = "calibrating"
  /\ rec' = [rec EXCEPT !.phase = "exposing"]
  /\ UNCHANGED <<client, calls, cycles>>

PowerCycle ==
  /\ cycles < MaxPowerCycles
  /\ cycles' = cycles + 1
  /\ rec' = [PowerOn EXCEPT !.attention = TRUE]
  /\ client' = [c \in Clients |-> [client[c] EXCEPT !.alone = FALSE]]
  /\ UNCHANGED calls

(* No more invocations; TLC must not take that for a deadlock.             *)
Quiet ==
  /\ calls = MaxCalls /\ \A c \in Clients : client[c].pc = "idle"
  /\ UNCHANGED vars

Works(c) ==
  \/ Inquiry(c) \/ TestUnitReady(c) \/ ModeSense(c) \/ Reset(c)
  \/ FilmName(c) \/ FilmAspect(c) \/ Ask(c) \/ Convert(c) \/ Upload(c)
  \/ ModeSelect(c) \/ StartExposure(c) \/ Poll(c) \/ PrintLine(c)
  \/ Terminate(c) \/ StopPrint(c) \/ TerminateStopped(c)

Next ==
  \/ \E c \in Clients : Begin(c) \/ Works(c) \/ Interrupt(c)
  \/ Calibrate \/ PowerCycle \/ Quiet

Spec == Init /\ [][Next]_vars
-----------------------------------------------------------------------------
(* One client at a time: every line of a frame comes from one invocation,  *)
(* although an interrupted one leaves its frame in the gate and a lost     *)
(* reply may hide a START that was carried out (START's refusal and the    *)
(* handler at exposure.py 294-303).                                        *)
OneCallPerFrame ==
  \A a, b \in rec.gate.by : a = b

(* Every line is exposed with the film table its call was given, or whose  *)
(* aspect it read for the frame's geometry: not with another, left in the  *)
(* slot or put there meanwhile, nor with an empty slot after a power cycle *)
(* (Device.expose and the scratch slot).                                   *)
FrameHasItsTable ==
  \A a \in rec.gate.by : rec.gate.tables = {a.table}

(* An exposure that nothing disturbs fails only if the recorder was left   *)
(* dirty before it, and cleans up: the next one succeeds.                  *)
RecorderRecovers ==
  \A c \in Clients :
    LET m == client[c]
    IN  m.pc = "idle" /\ m.alone /\ m.job.op \in Exposes =>
          /\ m.result \in {"complete", "error"} => Clean(rec)
          /\ m.result \in {"error", "notready"} => m.stale
          /\ m.result # "raised"

(* `pp8k slots` prints what is in the slots, or an error: a power cycle    *)
(* half-way never gives a list that was true of no moment.                 *)
ListingIsTrue ==
  [][\A c \in Clients :
       client[c].job.op = "slots" /\ client[c].pc # "idle"
         /\ client'[c].pc = "idle" /\ client'[c].result = "done"
       => \A s \in Slots :
            client'[c].listing[s] = [name |-> rec'.slots[s], aspect |-> rec'.slots[s]]]_vars

(* `pp8k install`: --force is to "Overwrite without confirmation if the    *)
(* slot is occupied"; without it another table is replaced only if its     *)
(* name was shown and the user agreed.                                     *)
NoSilentOverwrite ==
  [][\A c \in Clients :
       LET m == client[c]
       IN  /\ Upload(c) /\ m.job.op = "install" /\ ~m.job.force
           /\ rec.slots[m.at] # None /\ rec'.slots[m.at] # rec.slots[m.at]
           => m.agreed /\ m.name = rec.slots[m.at]]_vars

-----------------------------------------------------------------------------
(* What documents say and the code does not do.                            *)

(* errors.py on DeviceBusyError: "An exposure is already in progress on    *)
(* this device [...] Wait for the current exposure to complete or abort it *)
(* before starting a new one": a call that comes too early is turned away  *)
(* and does not end the exposure in progress.                              *)
BusyIsTurnedAway ==
  [][\A c, d \in Clients :
       c # d /\ client[c].pc = "send" /\ rec.phase \in Lit
         /\ (StopPrint(d) \/ TerminateStopped(d))
       => rec'.phase = rec.phase]_vars
=============================================================================
