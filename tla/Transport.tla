----------------------------- MODULE Transport -----------------------------
(***************************************************************************)
(* How one command gets to the recorder and its reply back (transport.py): *)
(* through the kernel (SGIOTransport), which fetches sense data together   *)
(* with the reply, or through s2pexec (S2pexecTransport), a process for    *)
(* the command and another one for the sense data.  Callers are threads or *)
(* processes of one host: the recorder takes them for one initiator.  Time *)
(* goes by in seconds, while callers wait.                                 *)
(***************************************************************************)
EXTENDS SenseDispatch, FiniteSets

CONSTANTS
  Callers,
  SharedLinks,   \* links that several callers use at once
  Timeout,       \* the time limit of a command, in milliseconds
  SlackMs,       \* what subprocess.run adds to it: 5 s
  SenseLimit,    \* the time limit of REQUEST SENSE: 5 s
  SenseKill      \* that of its process: 10 s

Links == {"sg_io", "s2pexec"}

ASSUME TransportAssumption ==
  /\ SharedLinks \subseteq Links
  /\ Timeout \in Nat \ {0} /\ SlackMs \in Nat /\ SlackMs >= 1000
  /\ SenseLimit \in Nat \ {0} /\ SenseKill \in Nat /\ SenseLimit < SenseKill

(* Whole seconds: the limit s2pexec is given, and the first second at      *)
(* which subprocess.run kills it.                                          *)
Ceiling(ms) == (ms + 999) \div 1000
Limit == IF Timeout =< 1000 THEN 1 ELSE Ceiling(Timeout)

(* Mutant: no slack, both limits run out together.                         *)
KillAtLimit == Limit
Kill  == Ceiling(Timeout + SlackMs)

(* Commands: FILM_NAME, refused for an empty slot, and UPLOAD_FILM_TABLE,  *)
(* which the recorder may refuse for two reasons.                          *)
Commands  == {"name", "upload"}
EmptySlot == Sense("illegal", \h2551)
BadTable  == Sense("illegal", \h255B)
DoorOpen  == Sense("hardware", \h2412)

VARIABLES
  link,     \* how the host is connected
  dev,      \* the recorder: its slot, a pending Unit Attention, sense data
  call,     \* what each caller is doing, or how its last call ended
  untold    \* history: no call has failed since the last power cycle

vars == <<link, dev, call, untold>>

(***************************************************************************)
(* pc: start and sense_start, before a process or ioctl; run, waiting for  *)
(* the recorder; answered, it has replied.  reply: what it said, or what   *)
(* REQUEST SENSE brought.  hung: the process makes no progress.  age: its  *)
(* seconds.  History: acted, what the recorder made of the command; own,   *)
(* the sense data it refused it with; cut, the power failed since the      *)
(* call began; total, the seconds of the call.                             *)
(***************************************************************************)
Waiting == {"run", "answered", "sense_run", "sense_answered"}
Calls ==
  [pc : {"idle", "start", "sense_start"} \cup Waiting, cmd : Commands,
   reply : SenseData, hung : BOOLEAN, age : 0..Kill + SenseKill,
   result : Results, acted : {"sent", "done", "refused"}, own : SenseData,
   cut : BOOLEAN, total : Nat]

Recorders == [full : BOOLEAN, attention : BOOLEAN, sense : SenseData]

TypeOK ==
  /\ link \in Links
  /\ dev \in Recorders
  /\ call \in [Callers -> Calls]
  /\ untold \in BOOLEAN

NewCall(pc, cmd, result) ==
  [pc |-> pc, cmd |-> cmd, reply |-> NoSense, hung |-> FALSE, age |-> 0,
   result |-> result, acted |-> "sent", own |-> NoSense, cut |-> FALSE,
   total |-> 0]

Over(result) == NewCall("idle", "name", result)

Init ==
  /\ link \in Links
  /\ dev = [full |-> FALSE, attention |-> FALSE, sense |-> NoSense]
  /\ call = [u \in Callers |-> Over(Result("none"))]
  /\ untold = FALSE

Idle(u) == call[u].pc = "idle"

(* Caller u's call goes on as c, or ends with result r.                    *)
Goes(u, c) == call' = [call EXCEPT ![u] = c]
Ends(u, r) ==
  /\ Goes(u, Over(r))
  /\ untold' = (untold /\ r.kind = "ok")

Begin(u) ==
  /\ Idle(u)
  /\ link \in SharedLinks \/ \A v \in Callers : Idle(v)
  /\ \E cmd \in Commands : Goes(u, NewCall("start", cmd, call[u].result))
  /\ UNCHANGED <<link, dev, untold>>

(* The process is started, or cannot be: no binary, no temporary file.     *)
Start(u) ==
  /\ call[u].pc = "start"
  /\ \/ Goes(u, [call[u] EXCEPT !.pc = "run"]) /\ UNCHANGED untold
     \/ link = "s2pexec" /\ Ends(u, Result("os"))
  /\ UNCHANGED <<link, dev>>

-----------------------------------------------------------------------------
(* The recorder takes the command.  A new command clears old sense data.   *)
(* The kernel takes new sense data along with the reply.                   *)
Replies(u, acted, sense, d) ==
  /\ Goes(u, [call[u] EXCEPT !.pc = "answered", !.acted = acted, !.own = sense,
                !.reply = IF link = "sg_io" THEN sense ELSE @])
  /\ dev' = [d EXCEPT !.sense = IF link = "sg_io" THEN NoSense ELSE sense]

Refusals(cmd) ==
  CASE cmd = "name"   -> IF dev.full THEN {} ELSE {EmptySlot}
    [] cmd = "upload" -> {BadTable, DoorOpen}

Act(u) ==
  /\ call[u].pc = "run"
  /\ LET cmd == call[u].cmd
     IN  IF dev.attention
         THEN Replies(u, "refused", Attention, [dev EXCEPT !.attention = FALSE])
         ELSE \/ \E s \in Refusals(cmd) : Replies(u, "refused", s, dev)
              \/ /\ cmd = "upload" \/ dev.full
                 /\ Replies(u, "done", NoSense, [dev EXCEPT !.full = TRUE])
  /\ UNCHANGED <<link, untold>>

(* Mutant: a Unit Attention is not worth an exception.                     *)
ExitUnlessAttention(u) ==
  /\ call[u].pc = "answered" /\ ~call[u].hung
  /\ IF call[u].acted = "done" \/ call[u].own = Attention
     THEN Ends(u, Result("ok"))
     ELSE Ends(u, CheckCondition(call[u].reply))
  /\ UNCHANGED <<link, dev>>

(* The ioctl or the process comes back with the recorder's reply.  The     *)
(* kernel may have no sense data to a refusal.                             *)
Exit(u) ==
  /\ call[u].pc = "answered" /\ ~call[u].hung
  /\ LET c == call[u]
     IN  CASE c.acted = "done" -> Ends(u, Result("ok"))
           [] c.acted # "done" /\ link = "sg_io" ->
                \E s \in {c.reply, NoData} : Ends(u, CheckCondition(s))
           [] OTHER -> Goes(u, [c EXCEPT !.pc = "sense_start"]) /\ UNCHANGED untold
  /\ UNCHANGED <<link, dev>>

(* Mutant: another exit status than 255 is taken for success.              *)
FailIgnored(u) ==
  /\ call[u].pc \in {"run", "answered"} /\ ~call[u].hung
  /\ Ends(u, Result("ok"))
  /\ UNCHANGED <<link, dev>>

(* Or it fails: host or driver status, another exit status, its own time   *)
(* limit, an OSError of the ioctl or of the file with the answer.          *)
Fail(u) ==
  /\ call[u].pc \in {"run", "answered"} /\ ~call[u].hung
  /\ \/ Ends(u, Result("scsi"))
     \/ (link = "sg_io" \/ call[u].acted = "done") /\ Ends(u, Result("os"))
  /\ UNCHANGED <<link, dev>>

-----------------------------------------------------------------------------
(* _fetch_sense.  An OSError is not caught here.                           *)
StartSense(u) ==
  /\ call[u].pc = "sense_start"
  /\ \/ /\ Goes(u, [call[u] EXCEPT !.pc = "sense_run", !.age = 0, !.reply = NoData])
        /\ UNCHANGED untold
     \/ Ends(u, Result("os"))
  /\ UNCHANGED <<link, dev>>

(* REQUEST SENSE gives the sense data of the last command, whoever sent    *)
(* it.  If there are none, it may give a pending Unit Attention.           *)
RequestSense(u) ==
  /\ call[u].pc = "sense_run"
  /\ \E told \in {FALSE, dev.attention /\ dev.sense = NoSense} :
       /\ Goes(u, [call[u] EXCEPT !.pc = "sense_answered",
                                  !.reply = IF told THEN Attention ELSE dev.sense])
       /\ dev' = [dev EXCEPT !.sense = NoSense, !.attention = @ /\ ~told]
  /\ UNCHANGED <<link, untold>>

(* Mutant: without new sense data the last exception's are used again.     *)
SenseComesStale(u) ==
  /\ call[u].pc \in {"sense_run", "sense_answered"} /\ ~call[u].hung
  /\ \/ call[u].pc = "sense_answered" /\ Ends(u, CheckCondition(call[u].reply))
     \/ Ends(u, CheckCondition(call[u].result.sense))
  /\ UNCHANGED <<link, dev>>

(* The sense data, or none if its process failed.                          *)
SenseComes(u) ==
  /\ call[u].pc \in {"sense_run", "sense_answered"} /\ ~call[u].hung
  /\ \E s \in {NoData} \cup IF call[u].pc = "sense_answered"
                            THEN {call[u].reply} ELSE {} :
       Ends(u, CheckCondition(s))
  /\ UNCHANGED <<link, dev>>

-----------------------------------------------------------------------------
(* Mutants: REQUEST SENSE is given the time of the command; no time limit  *)
(* for a process.                                                          *)
TimeLimitOfCommand(u) == IF call[u].hung THEN Kill ELSE Limit
KilledNever(u) ==
  /\ FALSE
  /\ Ends(u, Result("expired"))
  /\ UNCHANGED <<link, dev>>

(* A process that makes progress ends by its own time limit; one that does *)
(* not is killed by subprocess.run.                                        *)
TimeLimit(u) ==
  IF call[u].pc \in {"sense_run", "sense_answered"}
  THEN IF call[u].hung THEN SenseKill ELSE SenseLimit
  ELSE IF call[u].hung THEN Kill ELSE Limit
OutOfTime(u) == call[u].pc \in Waiting /\ call[u].age >= TimeLimit(u)

Hang(u) ==
  /\ link = "s2pexec" /\ call[u].pc \in Waiting /\ ~call[u].hung
  /\ Goes(u, [call[u] EXCEPT !.hung = TRUE])
  /\ UNCHANGED <<link, dev, untold>>

(* TimeoutExpired, which _fetch_sense swallows.                            *)
Killed(u) ==
  /\ call[u].hung /\ OutOfTime(u)
  /\ Ends(u, IF call[u].pc \in {"run", "answered"} THEN Result("expired")
             ELSE CheckCondition(NoData))
  /\ UNCHANGED <<link, dev>>

(* A second.  What the host itself does takes no time.                     *)
Older(c) == [c EXCEPT !.age = @ + 1, !.total = @ + 1]
Tick ==
  /\ \E u \in Callers : call[u].pc \in Waiting
  /\ \A u \in Callers : ~OutOfTime(u)
  /\ call' = [u \in Callers |->
               IF call[u].pc \in Waiting THEN Older(call[u]) ELSE call[u]]
  /\ UNCHANGED <<link, dev, untold>>

PowerCycle ==
  /\ dev' = [full |-> FALSE, attention |-> TRUE, sense |-> NoSense]
  /\ call' = [u \in Callers |-> IF Idle(u) THEN call[u]
                                ELSE [call[u] EXCEPT !.cut = TRUE]]
  /\ untold' = TRUE
  /\ UNCHANGED link

Execute(u) ==
  \/ Begin(u) \/ Start(u) \/ Act(u) \/ Exit(u) \/ Fail(u) \/ StartSense(u)
  \/ RequestSense(u) \/ SenseComes(u) \/ Hang(u) \/ Killed(u)

Next == (\E u \in Callers : Execute(u)) \/ Tick \/ PowerCycle

Spec == Init /\ [][Next]_vars

(* Time passes, and the host goes on when a process could not be started   *)
(* or ran out of time.  Nothing is asked of the recorder or of s2pexec.    *)
TimeUp(u) ==
  Start(u) \/ StartSense(u)
    \/ (OutOfTime(u) /\ (Fail(u) \/ SenseComes(u) \/ Killed(u)))
FairSpec == Spec /\ WF_vars(Tick) /\ \A u \in Callers : WF_vars(TimeUp(u))
-----------------------------------------------------------------------------
Returns(u, kind) ==
  ~Idle(u) /\ call'[u].pc = "idle" /\ call'[u].result.kind = kind

(* An exception says why its own command was refused, or that nobody       *)
(* knows, and after a power cycle in the middle of the call it may say     *)
(* that: never the sense data of another command.  film_name takes an      *)
(* Illegal Request for an empty slot, and install then does not ask        *)
(* (transport.py 461-466 and 486-515).                                     *)
SenseIsOwn ==
  [][\A u \in Callers : Returns(u, "check") =>
       \/ call'[u].result.sense \in {call[u].own, NoData}
       \/ call[u].cut /\ call'[u].result.sense \in {NoSense, Attention}]_vars

(* Nobody works on for long with a recorder that has lost its settings and *)
(* tables: the first call that begins after a power cycle fails, although  *)
(* REQUEST SENSE may take the Unit Attention away.                         *)
PowerLossIsTold ==
  [][\A u \in Callers : Returns(u, "ok") /\ ~call[u].cut /\ untold
       => \E v \in Callers \ {u} : call[v].acted = "refused"]_vars

(* A call takes no longer than its own time limit, and through s2pexec     *)
(* what it takes to kill a process that hangs: the one for the sense data  *)
(* begins only when the other has ended in time (30 s for 20 s asked).     *)
CallIsBounded ==
  \A u \in Callers :
    \/ call[u].total =< Limit
    \/ link = "s2pexec" /\ (call[u].total =< Kill \/ call[u].total =< Limit + SenseKill)

(* TimeoutExpired, which no caller expects, is left to processes that hang *)
(* past their own time limit: s2pexec's comes first.                       *)
OwnLimitFirst ==
  [][\A u \in Callers : Returns(u, "expired") =>
       link = "s2pexec" /\ call[u].hung /\ call[u].total > Limit]_vars

(* Every call ends, whatever the recorder and s2pexec do.                  *)
CallEnds == \A u \in Callers : ~Idle(u) ~> Idle(u)

-----------------------------------------------------------------------------
(* What a caller sees of it.                                               *)
Told == [none |-> "none", ok |-> "returned", check |-> "refused",
         scsi |-> "failed", os |-> "failed", expired |-> "failed"]
Contract ==
  INSTANCE Call WITH
    stage <- [u \in Callers |-> IF Idle(u) THEN "idle" ELSE call[u].acted],
    last  <- [u \in Callers |-> Told[call[u].result.kind]]

(* A call that returns was carried out once, one that ends in CHECK        *)
(* CONDITION was not: both transports implement Call.                      *)
CallSpec == Contract!Spec
=============================================================================
