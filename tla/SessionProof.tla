---------------------------- MODULE SessionProof ----------------------------
(***************************************************************************)
(* Invocations on one recorder: types for any number of clients, what one  *)
(* client at a time can rely on, for any number of slots, tables,          *)
(* invocations and power cycles, and one that writes while others look.    *)
(***************************************************************************)
EXTENDS Session, TLAPS

(* Which commands belong to which invocation.                              *)
Where(m) ==
  /\ m.job.op \in {"install", "expose_film"} => m.table \in Tables
  /\ m.pc = "mode_sense" => m.job.op = "status"
  /\ m.pc = "reset" => m.job.op = "reset"
  /\ m.pc = "name" => m.job.op \in {"slots", "install", "expose_slot"}
  /\ m.pc = "ask" => m.job.op = "install"
  /\ m.pc = "aspect" => m.job.op \in {"slots", "expose_slot"}
  /\ m.pc = "own_aspect" => m.job.op = "expose_slot"
  /\ m.pc = "upload" => m.job.op \in {"install", "expose_film"}
  /\ m.pc \in {"convert", "mode_select", "start", "send", "terminate", "err_stop",
               "err_term", "exc_stop"} => m.job.op \in Exposes

Typed == TypeOK /\ \A c \in Clients : Where(client[c])

(* What an invocation keeps.                                               *)
Same(m, n) ==
  /\ n.job = m.job /\ n.at = m.at /\ n.table = m.table /\ n.name = m.name
  /\ n.agreed = m.agreed /\ n.listing = m.listing /\ n.call = m.call
  /\ n.stale = m.stale

(* The state that Becomes gives to a client.                               *)
After(m, out) == [m EXCEPT !.alone = @ /\ out \notin Exceptions]

LEMMA AfterFields ==
  ASSUME NEW m \in ClientStates, NEW out
  PROVE  /\ After(m, out) \in ClientStates
         /\ After(m, out).pc = m.pc /\ After(m, out).result = m.result
         /\ Same(m, After(m, out))
         /\ After(m, out).alone = (m.alone /\ out \notin Exceptions)
BY DEF After, ClientStates, Same

LEMMA GoesFields ==
  ASSUME NEW m \in ClientStates, NEW p \in Commands \cup {"idle"}
  PROVE  /\ Goes(m, p) \in ClientStates /\ Goes(m, p).pc = p
         /\ Same(m, Goes(m, p))
         /\ Goes(m, p).result = m.result /\ Goes(m, p).alone = m.alone
BY DEF Goes, ClientStates, Same

LEMMA OverFields ==
  ASSUME NEW m \in ClientStates, NEW how \in Results
  PROVE  /\ Over(m, how) \in ClientStates /\ Over(m, how).pc = "idle"
         /\ Same(m, Over(m, how))
         /\ Over(m, how).result = how /\ Over(m, how).alone = m.alone
BY DEF Over, ClientStates, Same

LEMMA BecomesLemma ==
  ASSUME client \in [Clients -> ClientStates], NEW c \in Clients, NEW out,
         NEW m \in ClientStates, Becomes(c, out, m)
  PROVE  /\ client' \in [Clients -> ClientStates]
         /\ client'[c] = After(m, out)
         /\ \A d \in Clients \ {c} : client'[d] = client[d]
<1>1. After(m, out) \in ClientStates
    BY AfterFields
<1>2. client' = [client EXCEPT ![c] = After(m, out)]
    BY DEF Becomes, After
<1> QED BY <1>1, <1>2

LEMMA Numbers ==
  /\ SCRATCH_SLOT \in Nat /\ 0 \in Slots /\ SCRATCH_SLOT \in Slots
  /\ Slots \subseteq Nat /\ None \notin Tables
  /\ \A s \in Slots : s < SCRATCH_SLOT => s + 1 \in Slots
  /\ \A s \in Slots : ~(s < SCRATCH_SLOT) => s = SCRATCH_SLOT
BY SessionAssumption DEF Slots

(* What can come back, case by case.                                       *)
LEMMA ReplyCases ==
  ASSUME rec \in Recorders, NEW accepts \in BOOLEAN, NEW done \in Recorders,
         NEW r \in Replies(accepts, done)
  PROVE  /\ r.rec \in Recorders
         /\ r.out \in {"ok", "illegal", "attention"} \cup Exceptions
         /\ r.out = "ok" => ~rec.attention /\ accepts /\ r.rec = done
         /\ r.out = "illegal" => ~rec.attention /\ ~accepts /\ r.rec = rec
         /\ r.out = "attention" =>
              rec.attention /\ r.rec = [rec EXCEPT !.attention = FALSE]
         /\ \/ r.rec = rec
            \/ rec.attention /\ r.rec = [rec EXCEPT !.attention = FALSE]
            \/ ~rec.attention /\ accepts /\ r.rec = done
<1> DEFINE cleared == [rec EXCEPT !.attention = FALSE]
           answer == IF rec.attention THEN [out |-> "attention", rec |-> cleared]
                     ELSE IF accepts THEN [out |-> "ok", rec |-> done]
                                     ELSE [out |-> "illegal", rec |-> rec]
<1>1. r = answer \/ r \in [out : Faults, rec : {rec, answer.rec}]
    BY DEF Replies
<1>2. cleared \in Recorders
    BY DEF Recorders
<1>3. Faults \subseteq Exceptions
    BY SessionAssumption
<1>4. CASE r = answer
    BY <1>2, <1>4
<1>5. CASE r \in [out : Faults, rec : {rec, answer.rec}]
  <2>1. r.out \in Exceptions /\ r.rec \in {rec, answer.rec}
      BY <1>3, <1>5
  <2>2. r.out \notin {"ok", "illegal", "attention"}
      BY <2>1 DEF Exceptions
  <2>3. answer.rec = IF rec.attention THEN cleared ELSE IF accepts THEN done ELSE rec
      OBVIOUS
  <2> QED BY <1>2, <2>1, <2>2, <2>3
<1> QED BY <1>1, <1>4, <1>5

-----------------------------------------------------------------------------
(* The invariant of one client at a time, in parts: m is the client, r the *)
(* recorder.  The frame in the gate is empty or one call's, with its table *)
(* in force throughout.                                                    *)
RecOK(r) ==
  /\ r.phase = "idle" => r.gate = Unexposed
  /\ \A a, b \in r.gate.by : a = b
  /\ \A a \in r.gate.by : r.gate.tables = {a.table}

(* From the reading or upload of a table to the last line it is in its     *)
(* slot, then in force, then in the frame; unless the power has failed,    *)
(* which the next command reports, or the frame is gone.                   *)
Mine(m, r) ==
  /\ m.pc = "convert" /\ m.job.op = "expose_slot"
       => r.attention \/ r.slots[m.at] = m.table
  /\ m.pc = "mode_select" => r.attention \/ r.slots[m.at] = m.table
  /\ m.pc = "start" => r.attention \/ InForce(r) = m.table
  /\ m.pc \in {"send", "terminate"} =>
       \/ r.phase = "idle"
       \/ /\ r.phase \in Lit /\ InForce(r) = m.table
          /\ r.gate.by \subseteq {[call |-> m.call, table |-> m.table]}
          /\ r.gate.tables = {m.table}

(* How an exposure that nothing disturbs fares, and how it ended.          *)
Recovers(m, r) ==
  m.alone /\ m.job.op \in Exposes =>
    /\ m.pc \in {"inquiry", "test_unit_ready", "name", "aspect", "own_aspect",
                 "convert", "upload", "mode_select", "start"}
         => m.stale \/ Clean(r)
    /\ m.pc \notin {"idle", "inquiry", "test_unit_ready"} => ~r.attention
    /\ m.pc \in {"aspect", "own_aspect", "mode_select"} => r.slots[m.at] # None
    /\ m.pc = "convert" /\ m.job.op = "expose_slot" => r.slots[m.at] # None
    /\ m.pc \in {"send", "terminate"} => r.phase \in Lit
    /\ m.pc \in {"err_stop", "err_term"} => r.phase # "idle" /\ m.stale
    /\ m.pc # "exc_stop"
    /\ m.pc = "idle" => /\ m.result \in {"complete", "error"} => Clean(r)
                        /\ m.result \in {"error", "notready"} => m.stale
                        /\ m.result # "raised"

(* What install has read and shown.                                        *)
Shown(m, r) ==
  m.job.op = "install" /\ ~m.job.force =>
    /\ m.pc \in {"ask", "upload"} => r.attention \/ m.name = r.slots[m.at]
    /\ m.pc = "upload" => m.name \in Blank \cup {None} \/ m.agreed

(* How far a listing has come.                                             *)
Row(t) == [name |-> t, aspect |-> t]
Listed(m, r) ==
  m.job.op = "slots" =>
    /\ m.pc \in {"inquiry", "test_unit_ready"} => m.at = 0
    /\ m.pc \in {"inquiry", "test_unit_ready", "name"} =>
         \A s \in Slots : m.at =< s => m.listing[s] = Row(None)
    /\ m.pc = "aspect" =>
         /\ \A s \in Slots : m.at < s => m.listing[s] = Row(None)
         /\ r.attention \/ m.listing[m.at].name = r.slots[m.at]
    /\ m.pc \in {"name", "aspect"} =>
         r.attention \/ \A s \in Slots : s < m.at => m.listing[s] = Row(r.slots[s])

Safe(m, r) == Mine(m, r) /\ Recovers(m, r) /\ Shown(m, r) /\ Listed(m, r)

LEMMA SafeAfter ==
  ASSUME NEW m \in ClientStates, NEW r, NEW out, Mine(m, r), Shown(m, r), Listed(m, r),
         out \notin Exceptions => Recovers(m, r)
  PROVE  Safe(After(m, out), r)
<1> DEFINE n == After(m, out)
<1>1. /\ n.pc = m.pc /\ n.result = m.result /\ Same(m, n)
      /\ n.alone = (m.alone /\ out \notin Exceptions)
    BY AfterFields
<1> HIDE DEF n
<1>2. Mine(n, r)
    BY <1>1 DEF Mine, Same
<1>3. Recovers(n, r)
    BY <1>1 DEF Recovers, Same
<1>4. Shown(n, r)
    BY <1>1 DEF Shown, Same
<1>5. Listed(n, r)
    BY <1>1 DEF Listed, Same
<1> QED BY <1>2, <1>3, <1>4, <1>5 DEF Safe, n

(* What a list says when it is complete.                                   *)
Told(m, n, r) ==
  m.job.op = "slots" /\ m.pc # "idle" /\ n.pc = "idle" /\ n.result = "done"
    => \A s \in Slots : n.listing[s] = Row(r.slots[s])

(* What a step of client c must show.                                      *)
Kept(c) ==
  /\ Typed'
  /\ RecOK(rec) /\ Safe(client[c], rec) =>
       RecOK(rec') /\ Safe(client'[c], rec') /\ Told(client[c], client'[c], rec')

(* A step of client c, whose state becomes m but for alone.                *)
LEMMA StepLemma ==
  ASSUME Typed, NEW c \in Clients, NEW out, NEW m \in ClientStates,
         Becomes(c, out, m), Where(m), rec' \in Recorders,
         calls' = calls, cycles' = cycles,
         RecOK(rec) /\ Safe(client[c], rec) =>
           /\ RecOK(rec') /\ Told(client[c], m, rec')
           /\ Mine(m, rec') /\ Shown(m, rec') /\ Listed(m, rec')
           /\ out \notin Exceptions => Recovers(m, rec')
  PROVE  Kept(c)
<1>1. /\ client' \in [Clients -> ClientStates]
      /\ client'[c] = After(m, out)
      /\ \A d \in Clients \ {c} : client'[d] = client[d]
    BY BecomesLemma DEF Typed, TypeOK
<1>2. Where(After(m, out))
    BY AfterFields DEF Where, Same
<1>3. Typed'
    BY <1>1, <1>2 DEF Typed, TypeOK
<1>4. Told(client[c], m, rec') => Told(client[c], After(m, out), rec')
    BY AfterFields DEF Told, Same
<1> QED BY <1>1, <1>3, <1>4, SafeAfter DEF Kept

LEMMA OverSafe ==
  ASSUME NEW m \in ClientStates, NEW how \in Results, NEW r, Where(m)
  PROVE  /\ Where(Over(m, how)) /\ Mine(Over(m, how), r)
         /\ Shown(Over(m, how), r) /\ Listed(Over(m, how), r)
         /\ (m.alone /\ m.job.op \in Exposes =>
               /\ how \in {"complete", "error"} => Clean(r)
               /\ how \in {"error", "notready"} => m.stale
               /\ how # "raised") => Recovers(Over(m, how), r)
<1> DEFINE n == Over(m, how)
<1>1. n.pc = "idle" /\ Same(m, n) /\ n.result = how /\ n.alone = m.alone
    BY OverFields
<1> HIDE DEF n
<1>2. Where(n)
    BY <1>1 DEF Where, Same
<1>3. Mine(n, r)
    BY <1>1 DEF Mine
<1>4. Shown(n, r)
    BY <1>1 DEF Shown
<1>5. Listed(n, r)
    BY <1>1 DEF Listed
<1>6. (m.alone /\ m.job.op \in Exposes =>
               /\ how \in {"complete", "error"} => Clean(r)
               /\ how \in {"error", "notready"} => m.stale
               /\ how # "raised") => Recovers(n, r)
    BY <1>1 DEF Recovers, Same
<1> QED BY <1>2, <1>3, <1>4, <1>5, <1>6 DEF n

(* A step that ends the invocation of client c.                            *)
LEMMA EndLemma ==
  ASSUME Typed, NEW c \in Clients, NEW out, NEW how \in Results,
         Becomes(c, out, Over(client[c], how)), rec' \in Recorders,
         calls' = calls, cycles' = cycles,
         client[c] \in ClientStates, Where(client[c]),
         RecOK(rec) /\ Safe(client[c], rec) => RecOK(rec'),
         how # "done" \/ client[c].job.op # "slots",
         /\ out \notin Exceptions /\ client[c].alone /\ client[c].job.op \in Exposes
         /\ RecOK(rec) /\ Safe(client[c], rec)
         => /\ how \in {"complete", "error"} => Clean(rec')
            /\ how \in {"error", "notready"} => client[c].stale
            /\ how # "raised"
  PROVE  Kept(c)
<1> DEFINE m == client[c]
           n == Over(m, how)
<1>1. n \in ClientStates /\ n.result = how
    BY OverFields
<1>2. Told(m, n, rec')
    BY <1>1 DEF Told
<1> QED BY <1>1, <1>2, OverSafe, StepLemma

(* The recorder's part of the invariant looks at its phase and its frame.  *)
LEMMA RecKept ==
  ASSUME NEW r, NEW q, RecOK(r), q.gate = r.gate,
         q.phase = "idle" => r.phase = "idle"
  PROVE  RecOK(q)
BY DEF RecOK

LEMMA ClearedLemma ==
  ASSUME NEW r \in Recorders
  PROVE  LET q == [r EXCEPT !.attention = FALSE]
         IN  /\ q \in Recorders /\ ~q.attention
             /\ q.phase = r.phase /\ q.gate = r.gate /\ q.slots = r.slots
             /\ q.mode = r.mode
             /\ RecOK(r) => RecOK(q)
BY DEF Recorders, RecOK

(* A command does no harm to a frame if carrying it out does none.         *)
LEMMA ReplyKept ==
  ASSUME rec \in Recorders, NEW accepts \in BOOLEAN, NEW done \in Recorders,
         NEW r \in Replies(accepts, done), RecOK(rec), RecOK(done)
  PROVE  RecOK(r.rec)
<1> DEFINE cleared == [rec EXCEPT !.attention = FALSE]
<1>1. r.rec = rec \/ r.rec = cleared \/ r.rec = done
    BY ReplyCases
<1>2. RecOK(cleared)
    BY ClearedLemma
<1> HIDE DEF cleared
<1> QED BY <1>1, <1>2

(* A command that reads: the recorder stays as it is, but for a Unit       *)
(* Attention that is reported.                                             *)
LEMMA ReadCases ==
  ASSUME rec \in Recorders, NEW accepts \in BOOLEAN, NEW r \in Replies(accepts, rec)
  PROVE  /\ r.rec \in Recorders
         /\ r.out \in {"ok", "illegal", "attention"} \cup Exceptions
         /\ r.rec.phase = rec.phase /\ r.rec.gate = rec.gate
         /\ r.rec.slots = rec.slots /\ r.rec.mode = rec.mode
         /\ ~r.rec.attention \/ rec.attention
         /\ r.out = "ok" => ~rec.attention /\ accepts /\ r.rec = rec
         /\ r.out = "illegal" => ~rec.attention /\ ~accepts /\ r.rec = rec
         /\ r.out = "attention" => rec.attention
         /\ RecOK(rec) => RecOK(r.rec)
<1> DEFINE cleared == [rec EXCEPT !.attention = FALSE]
<1>1. /\ r.rec \in Recorders
      /\ r.out \in {"ok", "illegal", "attention"} \cup Exceptions
      /\ r.out = "ok" => ~rec.attention /\ accepts /\ r.rec = rec
      /\ r.out = "illegal" => ~rec.attention /\ ~accepts /\ r.rec = rec
      /\ r.out = "attention" => rec.attention
      /\ r.rec = rec \/ r.rec = cleared
    BY ReplyCases
<1>2. /\ ~cleared.attention /\ cleared.phase = rec.phase /\ cleared.gate = rec.gate
      /\ cleared.slots = rec.slots /\ cleared.mode = rec.mode
    BY ClearedLemma
<1>3. RecOK(rec) => RecOK(r.rec)
    BY ReplyKept
<1> HIDE DEF cleared
<1> QED BY <1>1, <1>2, <1>3

LEMMA TypedFacts ==
  ASSUME Typed, NEW c \in Clients
  PROVE  client[c] \in ClientStates /\ Where(client[c]) /\ rec \in Recorders
BY DEF Typed, TypeOK

LEMMA InquiryLemma == ASSUME Typed, NEW c \in Clients, Inquiry(c) PROVE Kept(c)
<1> DEFINE m == client[c]
<1>1. m \in ClientStates /\ Where(m) /\ rec \in Recorders /\ m.pc = "inquiry"
    BY TypedFacts DEF Inquiry
<1>2. PICK out \in {"ok"} \cup Faults :
        Becomes(c, out, IF out = "ok" THEN Goes(m, "test_unit_ready")
                        ELSE Over(m, "raised"))
    BY DEF Inquiry
<1>3. rec' = rec /\ calls' = calls /\ cycles' = cycles
    BY DEF Inquiry
<1>4. CASE out = "ok"
  <2> DEFINE n == Goes(m, "test_unit_ready")
  <2>1. n \in ClientStates /\ n.pc = "test_unit_ready" /\ Same(m, n) /\ n.alone = m.alone
      BY <1>1, GoesFields DEF Commands
  <2>2. Becomes(c, out, n)
      BY <1>2, <1>4
  <2> HIDE DEF n, m
  <2>3. Where(n)
      BY <1>1, <2>1 DEF Where, Same
  <2>4. Safe(m, rec) => /\ Mine(n, rec) /\ Shown(n, rec) /\ Listed(n, rec)
                        /\ Recovers(n, rec)
      BY <1>1, <2>1 DEF Safe, Mine, Shown, Listed, Recovers, Same
  <2>5. Told(m, n, rec')
      BY <2>1 DEF Told
  <2> QED BY <1>1, <1>3, <2>1, <2>2, <2>3, <2>4, <2>5, StepLemma DEF m
<1>5. CASE out # "ok"
  <2>1. "raised" \in Results /\ out \in Exceptions
      BY <1>5, SessionAssumption DEF Results
  <2>2. Becomes(c, out, Over(m, "raised"))
      BY <1>2, <1>5
  <2> QED BY <1>1, <1>3, <2>1, <2>2, EndLemma
<1> QED BY <1>4, <1>5

LEMMA TestUnitReadyLemma ==
  ASSUME Typed, NEW c \in Clients, TestUnitReady(c) PROVE Kept(c)
<1> DEFINE m == client[c]
<1>1. m \in ClientStates /\ Where(m) /\ rec \in Recorders /\ m.pc = "test_unit_ready"
    BY TypedFacts DEF TestUnitReady
<1>0. PICK ready \in {TRUE, rec.phase # "calibrating"} : \E r \in Replies(ready, rec) :
        /\ rec' = r.rec
        /\ Becomes(c, r.out,
             CASE r.out = "ok" -> Goes(m, AfterOpen[m.job.op])
               [] r.out \in SCSIErrors -> Over(m, "notready")
               [] OTHER -> Over(m, "raised"))
    BY DEF TestUnitReady
<1>2. PICK r \in Replies(ready, rec) :
        /\ rec' = r.rec
        /\ Becomes(c, r.out,
             CASE r.out = "ok" -> Goes(m, AfterOpen[m.job.op])
               [] r.out \in SCSIErrors -> Over(m, "notready")
               [] OTHER -> Over(m, "raised"))
    BY <1>0
<1>3. calls' = calls /\ cycles' = cycles
    BY DEF TestUnitReady
<1>4. /\ ready \in BOOLEAN /\ (~ready => rec.phase = "calibrating")
      /\ r.rec \in Recorders
      /\ r.out \in {"ok", "illegal", "attention"} \cup Exceptions
      /\ r.rec.phase = rec.phase /\ r.rec.gate = rec.gate
      /\ r.rec.slots = rec.slots /\ r.rec.mode = rec.mode
      /\ r.out = "ok" => ~rec.attention /\ r.rec = rec
      /\ r.out = "illegal" => rec.phase = "calibrating"
      /\ r.out = "attention" => rec.attention
      /\ RecOK(rec) => RecOK(rec')
  <2>1. ready \in BOOLEAN /\ (~ready => rec.phase = "calibrating")
      OBVIOUS
  <2> QED BY <1>1, <1>2, <2>1, ReadCases
<1>5. CASE r.out = "ok"
  <2> DEFINE n == Goes(m, AfterOpen[m.job.op])
  <2>1. m.job.op \in {"status", "slots", "reset", "install", "expose_film", "expose_slot"}
      BY <1>1 DEF ClientStates, Jobs, Job
  <2>2. /\ AfterOpen[m.job.op] \in {"mode_sense", "name", "reset", "convert"}
        /\ AfterOpen[m.job.op] = "mode_sense" => m.job.op = "status"
        /\ AfterOpen[m.job.op] = "reset" => m.job.op = "reset"
        /\ AfterOpen[m.job.op] = "name" => m.job.op \in {"slots", "install", "expose_slot"}
        /\ AfterOpen[m.job.op] = "convert" => m.job.op = "expose_film"
      BY <2>1 DEF AfterOpen
  <2>3. n \in ClientStates /\ n.pc = AfterOpen[m.job.op] /\ Same(m, n) /\ n.alone = m.alone
      BY <1>1, <2>2, GoesFields DEF Commands
  <2>4. Becomes(c, r.out, n)
      BY <1>2, <1>5 DEF SCSIErrors
  <2> HIDE DEF n, m
  <2>5. Where(n)
      BY <1>1, <2>2, <2>3 DEF Where, Same, Exposes
  <2>6. Safe(m, rec) => /\ Mine(n, rec) /\ Shown(n, rec) /\ Recovers(n, rec)
      BY <1>1, <1>4, <1>5, <2>2, <2>3 DEF Safe, Mine, Shown, Recovers, Same
  <2>7. Safe(m, rec) => Listed(n, rec)
    <3>1. \A s \in Slots : ~(s < 0)
        BY Numbers
    <3> QED BY <1>1, <2>2, <2>3, <3>1 DEF Safe, Listed, Same
  <2>8. Told(m, n, rec')
      BY <2>2, <2>3 DEF Told
  <2> QED BY <1>1, <1>2, <1>3, <1>4, <1>5, <2>3, <2>4, <2>5, <2>6, <2>7, <2>8, StepLemma DEF m
<1>6. CASE r.out \in SCSIErrors
  <2>1. "notready" \in Results /\ Becomes(c, r.out, Over(m, "notready"))
    <3>1. r.out # "ok"
        BY <1>6 DEF SCSIErrors
    <3> QED BY <1>2, <1>6, <3>1 DEF Results
  <2>2. Safe(m, rec) /\ r.out \notin Exceptions /\ m.alone /\ m.job.op \in Exposes
          => m.stale
    <3>1. r.out \notin Exceptions => ~Clean(rec)
        BY <1>4, <1>6 DEF SCSIErrors, Exceptions, Clean
    <3> QED BY <1>1, <3>1 DEF Safe, Recovers
  <2> QED BY <1>1, <1>2, <1>3, <1>4, <2>1, <2>2, EndLemma
<1>7. CASE r.out \notin SCSIErrors /\ r.out # "ok"
  <2>1. "raised" \in Results /\ Becomes(c, r.out, Over(m, "raised"))
      BY <1>2, <1>7 DEF Results
  <2>2. r.out \in Exceptions
      BY <1>4, <1>7 DEF SCSIErrors
  <2> QED BY <1>1, <1>2, <1>3, <1>4, <2>1, <2>2, EndLemma
<1> QED BY <1>5, <1>6, <1>7

LEMMA ModeSenseLemma == ASSUME Typed, NEW c \in Clients, ModeSense(c) PROVE Kept(c)
<1> DEFINE m == client[c]
<1>1. m \in ClientStates /\ Where(m) /\ rec \in Recorders /\ m.pc = "mode_sense"
    BY TypedFacts DEF ModeSense
<1>2. PICK r \in Replies(TRUE, rec) :
        /\ rec' = r.rec
        /\ Becomes(c, r.out, Over(m, IF r.out = "ok" THEN "done" ELSE "raised"))
    BY DEF ModeSense
<1> DEFINE how == IF r.out = "ok" THEN "done" ELSE "raised"
<1>3. calls' = calls /\ cycles' = cycles /\ how \in Results
    BY DEF ModeSense, Results
<1>4. r.rec \in Recorders /\ (RecOK(rec) => RecOK(rec'))
    BY <1>1, <1>2, ReadCases
<1>5. m.job.op \notin Exposes /\ m.job.op # "slots"
    BY <1>1 DEF Where, Exposes
<1> QED BY <1>1, <1>2, <1>3, <1>4, <1>5, EndLemma

LEMMA ResetLemma == ASSUME Typed, NEW c \in Clients, Reset(c) PROVE Kept(c)
<1> DEFINE m == client[c]
<1>1. m \in ClientStates /\ Where(m) /\ rec \in Recorders /\ m.pc = "reset"
    BY TypedFacts DEF Reset
<1>0. PICK slots \in {rec.slots, PowerOn.slots} :
        \E r \in Replies(TRUE, [PowerOn EXCEPT !.slots = slots]) :
          /\ rec' = r.rec
          /\ Becomes(c, r.out, Over(m, IF r.out = "ok" THEN "done" ELSE "raised"))
    BY DEF Reset
<1>2. PICK r \in Replies(TRUE, [PowerOn EXCEPT !.slots = slots]) :
        /\ rec' = r.rec
        /\ Becomes(c, r.out, Over(m, IF r.out = "ok" THEN "done" ELSE "raised"))
    BY <1>0
<1> DEFINE how == IF r.out = "ok" THEN "done" ELSE "raised"
           d == [PowerOn EXCEPT !.slots = slots]
<1>3. calls' = calls /\ cycles' = cycles /\ how \in Results
    BY DEF Reset, Results
<1>4. d \in Recorders /\ RecOK(d)
  <2>1. slots \in [Slots -> Maybe]
    <3>1. rec.slots \in [Slots -> Maybe]
        BY <1>1 DEF Recorders
    <3>2. PowerOn.slots = [s \in Slots |-> None] /\ None \in Maybe
        BY DEF PowerOn, Maybe
    <3>3. PowerOn.slots \in [Slots -> Maybe]
        BY <3>2
    <3> QED BY <1>0, <3>1, <3>3
  <2>2. Unexposed \in Frames /\ 0 \in Slots
      BY Numbers DEF Unexposed, Frames
  <2>3. PowerOn \in Recorders
    <3>1. [s \in Slots |-> None] \in [Slots -> Maybe]
        BY DEF Maybe
    <3> QED BY <2>2, <3>1 DEF PowerOn, Recorders
  <2>4. PowerOn.phase = "idle" /\ PowerOn.gate = Unexposed
      BY DEF PowerOn
  <2>5. d \in Recorders /\ d.phase = "idle" /\ d.gate = Unexposed
      BY <2>1, <2>3, <2>4 DEF Recorders
  <2>6. RecOK(d)
      BY <2>5 DEF RecOK, Unexposed
  <2> QED BY <2>5, <2>6
<1>5. r.rec \in Recorders /\ (RecOK(rec) => RecOK(rec'))
  <2>1. r \in Replies(TRUE, d)
      OBVIOUS
  <2> HIDE DEF d
  <2>2. r.rec \in Recorders
      BY <1>1, <1>4, <2>1, ReplyCases
  <2> QED BY <1>1, <1>2, <1>4, <2>1, <2>2, ReplyKept
<1>6. m.job.op \notin Exposes /\ m.job.op # "slots"
    BY <1>1 DEF Where, Exposes
<1> QED BY <1>1, <1>2, <1>3, <1>5, <1>6, EndLemma
LEMMA NextSlotLemma ==
  ASSUME NEW m \in ClientStates, m.job.op = "slots", NEW r,
         \A s \in Slots : m.at < s => m.listing[s] = Row(None),
         r.attention \/ \A s \in Slots : s =< m.at => m.listing[s] = Row(r.slots[s])
  PROVE  LET n == NextSlot(m)
         IN  /\ Mine(n, r) /\ Recovers(n, r) /\ Shown(n, r) /\ Listed(n, r)
             /\ r.attention \/ n.pc = "name"
                \/ \A s \in Slots : n.listing[s] = Row(r.slots[s])
<1>1. CASE m.at < SCRATCH_SLOT
  <2> DEFINE n == [m EXCEPT !.pc = "name", !.at = @ + 1]
  <2>1. NextSlot(m) = n
      BY <1>1 DEF NextSlot
  <2>2. /\ n.pc = "name" /\ n.at = m.at + 1 /\ n.listing = m.listing
        /\ n.job.op = "slots"
      BY DEF ClientStates
  <2>3. \A s \in Slots : (m.at + 1 =< s <=> m.at < s) /\ (s < m.at + 1 <=> s =< m.at)
    <3>1. m.at \in Slots
        BY DEF ClientStates
    <3>2. \A s \in Slots : s \in Int
        BY DEF Slots
    <3> QED BY <3>1, <3>2
  <2> HIDE DEF n
  <2>4. Listed(n, r)
      BY <2>2, <2>3 DEF Listed
  <2>5. Mine(n, r) /\ Recovers(n, r) /\ Shown(n, r)
      BY <2>2 DEF Mine, Recovers, Shown, Exposes
  <2> QED BY <2>1, <2>2, <2>4, <2>5
<1>2. CASE ~(m.at < SCRATCH_SLOT)
  <2> DEFINE n == Over(m, "done")
  <2>1. NextSlot(m) = n
      BY <1>2 DEF NextSlot
  <2>2. n.pc = "idle" /\ n.job.op = "slots" /\ n.listing = m.listing
      BY OverFields DEF Results, Same
  <2>3. \A s \in Slots : s =< m.at
      BY <1>2, Numbers DEF ClientStates, Slots
  <2> HIDE DEF n
  <2> QED BY <2>1, <2>2, <2>3 DEF Mine, Recovers, Shown, Listed, Exposes
<1> QED BY <1>1, <1>2

LEMMA NextSlotTyped ==
  ASSUME NEW m \in ClientStates, m.job.op = "slots"
  PROVE  NextSlot(m) \in ClientStates /\ Where(NextSlot(m))
<1>1. CASE m.at < SCRATCH_SLOT
  <2> DEFINE n == [m EXCEPT !.pc = "name", !.at = @ + 1]
  <2>1. NextSlot(m) = n
      BY <1>1 DEF NextSlot
  <2>2. m.at + 1 \in Slots
      BY <1>1, Numbers DEF ClientStates
  <2>3. n \in ClientStates /\ n.job.op = "slots" /\ n.pc = "name"
      BY <2>2 DEF ClientStates, Commands
  <2> HIDE DEF n
  <2> QED BY <2>1, <2>3 DEF Where
<1>2. CASE ~(m.at < SCRATCH_SLOT)
  <2> DEFINE n == Over(m, "done")
  <2>1. NextSlot(m) = n
      BY <1>2 DEF NextSlot
  <2>2. n \in ClientStates /\ n.pc = "idle" /\ n.job.op = "slots"
      BY OverFields DEF Results, Same
  <2> HIDE DEF n
  <2> QED BY <2>1, <2>2 DEF Where
<1> QED BY <1>1, <1>2

(* A name that was read, or the lack of one.                               *)
LEMMA NamedTyped ==
  ASSUME NEW m \in ClientStates, Where(m), m.pc = "name", NEW t \in Maybe
  PROVE  Named(m, t) \in ClientStates /\ Where(Named(m, t))
<1> DEFINE n == Named(m, t)
<1>1. m.job.op \in {"slots", "install", "expose_slot"}
    BY DEF Where
<1>2. CASE m.job.op = "slots" /\ t = None
    BY <1>2, NextSlotTyped DEF Named
<1>3. CASE m.job.op = "slots" /\ t # None
  <2> DEFINE k == [m EXCEPT !.pc = "aspect", !.listing[m.at].name = t]
  <2>1. n = k
      BY <1>3 DEF Named
  <2>2. k \in ClientStates /\ k.pc = "aspect" /\ k.job = m.job
    <3> DEFINE l == [m.listing EXCEPT ![m.at].name = t]
    <3>1. l \in Listings
        BY DEF ClientStates, Listings
    <3>2. k = [m EXCEPT !.pc = "aspect", !.listing = l]
        BY DEF ClientStates
    <3> HIDE DEF l, k
    <3> QED BY <3>1, <3>2 DEF ClientStates, Commands
  <2> HIDE DEF n, k
  <2> QED BY <1>3, <2>1, <2>2 DEF Where, n
<1>4. CASE m.job.op = "install"
  <2> DEFINE p == IF t \notin Blank \cup {None} /\ ~m.job.force THEN "ask" ELSE "upload"
             k == [m EXCEPT !.name = t, !.pc = p]
  <2>1. n = k
      BY <1>4 DEF Named
  <2>2. k \in ClientStates /\ k.pc \in {"ask", "upload"} /\ k.job = m.job /\ k.table = m.table
      BY DEF ClientStates, Commands
  <2> HIDE DEF n, k
  <2> QED BY <1>4, <2>1, <2>2 DEF Where, n
<1>5. CASE m.job.op = "expose_slot"
  <2>1. /\ "refused" \in Results
        /\ n = IF t = None THEN Over(m, "refused") ELSE Goes(m, "aspect")
      BY <1>5 DEF Named, Results
  <2>2. CASE t = None
      BY <2>1, <2>2, OverFields, OverSafe
  <2>3. CASE t # None
    <3>1. n \in ClientStates /\ n.pc = "aspect" /\ n.job = m.job
        BY <2>1, <2>3, GoesFields DEF Commands, Same
    <3> HIDE DEF n
    <3> QED BY <1>5, <3>1 DEF Where, n
  <2> QED BY <2>2, <2>3
<1> QED BY <1>1, <1>2, <1>3, <1>4, <1>5

LEMMA NamedLemma ==
  ASSUME NEW m \in ClientStates, Where(m), m.pc = "name", NEW r, Safe(m, r),
         ~r.attention, r.slots[m.at] \in Maybe
  PROVE  LET n == Named(m, r.slots[m.at])
         IN  /\ Mine(n, r) /\ Recovers(n, r) /\ Shown(n, r) /\ Listed(n, r)
             /\ Told(m, n, r)
<1> DEFINE t == r.slots[m.at]
           n == Named(m, t)
<1>1. m.job.op \in {"slots", "install", "expose_slot"} /\ Exposes = {"expose_film", "expose_slot"}
    BY DEF Where, Exposes
<1>2. m.at \in Slots
    BY DEF ClientStates
<1>3. ASSUME m.job.op = "slots"
      PROVE  /\ \A s \in Slots : m.at =< s => m.listing[s] = Row(None)
             /\ \A s \in Slots : s < m.at => m.listing[s] = Row(r.slots[s])
    BY <1>3 DEF Safe, Listed
<1>4. \A s \in Slots : /\ s =< m.at <=> s < m.at \/ s = m.at
                       /\ m.at < s => m.at =< s
                       /\ m.at =< m.at
    BY <1>2, Numbers DEF Slots
<1>5. CASE m.job.op = "slots" /\ t = None
  <2>1. n = NextSlot(m)
      BY <1>5 DEF Named
  <2>2. /\ \A s \in Slots : m.at < s => m.listing[s] = Row(None)
        /\ \A s \in Slots : s =< m.at => m.listing[s] = Row(r.slots[s])
      BY <1>2, <1>3, <1>4, <1>5
  <2>3. /\ Mine(n, r) /\ Recovers(n, r) /\ Shown(n, r) /\ Listed(n, r)
        /\ n.pc = "name" \/ \A s \in Slots : n.listing[s] = Row(r.slots[s])
      BY <1>5, <2>1, <2>2, NextSlotLemma
  <2> QED BY <2>3 DEF Told
<1>6. CASE m.job.op = "slots" /\ t # None
  <2> DEFINE l == [m.listing EXCEPT ![m.at].name = t]
             k == [m EXCEPT !.pc = "aspect", !.listing = l]
  <2>1. n = k
      BY <1>6 DEF Named, ClientStates
  <2>2. /\ k.pc = "aspect" /\ k.job = m.job /\ k.at = m.at /\ k.listing = l
      BY DEF ClientStates
  <2>3. /\ l[m.at].name = t
        /\ \A s \in Slots : s # m.at => l[s] = m.listing[s]
      BY <1>2 DEF ClientStates, Listings
  <2> HIDE DEF n, k, l
  <2>4. \A s \in Slots : (m.at < s \/ s < m.at) => s # m.at
      BY <1>2, Numbers DEF Slots
  <2>5. Listed(n, r)
      BY <1>3, <1>4, <1>6, <2>1, <2>2, <2>3, <2>4 DEF Listed
  <2> QED BY <1>6, <2>1, <2>2, <2>5 DEF Mine, Recovers, Shown, Told, Exposes, n
<1>7. CASE m.job.op = "install"
  <2> DEFINE p == IF t \notin Blank \cup {None} /\ ~m.job.force THEN "ask" ELSE "upload"
             k == [m EXCEPT !.name = t, !.pc = p]
  <2>1. n = k
      BY <1>7 DEF Named
  <2>2. k.pc = p /\ k.job = m.job /\ k.at = m.at /\ k.name = t
      BY DEF ClientStates
  <2>3. p \in {"ask", "upload"} /\ (p = "upload" /\ ~m.job.force => t \in Blank \cup {None})
      OBVIOUS
  <2> HIDE DEF n, k, p
  <2>4. Shown(n, r)
      BY <2>1, <2>2, <2>3 DEF Shown
  <2> QED BY <1>7, <2>1, <2>2, <2>3, <2>4 DEF Mine, Recovers, Listed, Told, Exposes, n
<1>8. CASE m.job.op = "expose_slot"
  <2>1. /\ "refused" \in Results
        /\ n = IF t = None THEN Over(m, "refused") ELSE Goes(m, "aspect")
      BY <1>8 DEF Named, Results
  <2>2. CASE t = None
    <3>1. Told(m, n, r)
        BY <1>8 DEF Told
    <3> QED BY <2>1, <2>2, <3>1, OverSafe
  <2>3. CASE t # None
    <3>1. n.pc = "aspect" /\ Same(m, n) /\ n.alone = m.alone
        BY <2>1, <2>3, GoesFields DEF Commands
    <3> HIDE DEF n
    <3> QED BY <1>8, <2>3, <3>1 DEF Safe, Mine, Recovers, Shown, Listed, Told, Same, n
  <2> QED BY <2>2, <2>3
<1> QED BY <1>1, <1>5, <1>6, <1>7, <1>8

LEMMA FilmNameLemma == ASSUME Typed, NEW c \in Clients, FilmName(c) PROVE Kept(c)
<1> DEFINE m == client[c]
           t == rec.slots[m.at]
<1>1. m \in ClientStates /\ Where(m) /\ rec \in Recorders /\ m.pc = "name"
    BY TypedFacts DEF FilmName
<1>2. PICK r \in Replies(t # None, rec) :
        /\ rec' = r.rec
        /\ Becomes(c, r.out,
             CASE r.out = "ok" -> Named(m, t)
               [] ReadsEmpty(r.out) -> Named(m, None)
               [] OTHER -> Over(m, "raised"))
    BY DEF FilmName
<1>3. calls' = calls /\ cycles' = cycles
    BY DEF FilmName
<1>4. t \in Maybe
    BY <1>1 DEF Recorders, ClientStates
<1>5. /\ r.rec \in Recorders
      /\ r.out \in {"ok", "illegal", "attention"} \cup Exceptions
      /\ ~rec'.attention \/ rec.attention
      /\ r.out = "ok" => ~rec.attention /\ r.rec = rec
      /\ r.out = "illegal" => ~rec.attention /\ t = None /\ r.rec = rec
      /\ r.out = "attention" => rec.attention
      /\ RecOK(rec) => RecOK(rec')
    BY <1>1, <1>2, ReadCases
<1>6. CASE r.out \in {"ok", "illegal"}
  <2>1. Becomes(c, r.out, Named(m, t))
      BY <1>2, <1>5, <1>6 DEF ReadsEmpty
  <2>2. Named(m, t) \in ClientStates /\ Where(Named(m, t))
      BY <1>1, <1>4, NamedTyped
  <2>3. Safe(m, rec) =>
          /\ Mine(Named(m, t), rec) /\ Recovers(Named(m, t), rec)
          /\ Shown(Named(m, t), rec) /\ Listed(Named(m, t), rec)
          /\ Told(m, Named(m, t), rec)
      BY <1>1, <1>4, <1>5, <1>6, NamedLemma
  <2> QED BY <1>1, <1>2, <1>3, <1>5, <1>6, <2>1, <2>2, <2>3, StepLemma
<1>7. CASE r.out \notin {"ok", "illegal"}
  <2>1. "raised" \in Results /\ Becomes(c, r.out, Over(m, "raised"))
      BY <1>2, <1>7 DEF Results, ReadsEmpty
  <2>2. r.out \notin Exceptions /\ Safe(m, rec) /\ m.alone => m.job.op \notin Exposes
      BY <1>1, <1>5, <1>7 DEF Safe, Recovers
  <2> QED BY <1>1, <1>2, <1>3, <1>5, <2>1, <2>2, EndLemma
<1> QED BY <1>6, <1>7

LEMMA FilmAspectLemma == ASSUME Typed, NEW c \in Clients, FilmAspect(c) PROVE Kept(c)
<1> DEFINE m == client[c]
           t == rec.slots[m.at]
           k(r) == [m EXCEPT !.listing[m.at].aspect = IF r.out = "ok" THEN t ELSE None]
<1>1. m \in ClientStates /\ Where(m) /\ rec \in Recorders /\ m.pc \in {"aspect", "own_aspect"}
    BY TypedFacts DEF FilmAspect
<1>2. PICK r \in Replies(t # None, rec) :
        /\ rec' = r.rec
        /\ Becomes(c, r.out,
             IF m.job.op = "slots" /\ (r.out = "ok" \/ ReadsEmpty(r.out))
             THEN NextSlot(k(r))
             ELSE IF r.out # "ok" THEN Over(m, "raised")
             ELSE IF m.pc = "aspect" THEN Goes(m, "own_aspect")
             ELSE [m EXCEPT !.pc = "convert", !.table = t])
    BY DEF FilmAspect
<1>3. calls' = calls /\ cycles' = cycles
    BY DEF FilmAspect
<1>4. t \in Maybe /\ m.at \in Slots
    BY <1>1 DEF Recorders, ClientStates
<1>5. /\ r.rec \in Recorders
      /\ r.out \in {"ok", "illegal", "attention"} \cup Exceptions
      /\ ~rec'.attention \/ rec.attention
      /\ r.out = "ok" => ~rec.attention /\ t # None /\ r.rec = rec
      /\ r.out = "illegal" => ~rec.attention /\ t = None /\ r.rec = rec
      /\ r.out = "attention" => rec.attention
      /\ RecOK(rec) => RecOK(rec')
    BY <1>1, <1>2, ReadCases
<1>6. m.job.op \in {"slots", "expose_slot"} /\ (m.pc = "own_aspect" => m.job.op = "expose_slot")
    BY <1>1 DEF Where
<1>7. CASE m.job.op = "slots" /\ r.out \in {"ok", "illegal"}
  <2> DEFINE l == [m.listing EXCEPT ![m.at].aspect = t]
             q == [m EXCEPT !.listing = l]
             n == NextSlot(q)
  <2>1. k(r) = q
      BY <1>1, <1>5, <1>7 DEF ClientStates
  <2>2. Becomes(c, r.out, n)
      BY <1>2, <1>7, <2>1 DEF ReadsEmpty
  <2>3. l \in Listings
      BY <1>1, <1>4 DEF ClientStates, Listings
  <2>4. /\ q \in ClientStates /\ q.job = m.job /\ q.at = m.at /\ q.listing = l
        /\ l[m.at] = [name |-> m.listing[m.at].name, aspect |-> t]
        /\ \A s \in Slots : s # m.at => l[s] = m.listing[s]
    <3>1. q \in ClientStates /\ q.job = m.job /\ q.at = m.at /\ q.listing = l
        BY <1>1, <2>3 DEF ClientStates
    <3>2. /\ l[m.at] = [name |-> m.listing[m.at].name, aspect |-> t]
          /\ \A s \in Slots : s # m.at => l[s] = m.listing[s]
        BY <1>1, <1>4 DEF ClientStates, Listings
    <3> QED BY <3>1, <3>2
  <2>5. n \in ClientStates /\ Where(n)
      BY <1>7, <2>4, NextSlotTyped
  <2> HIDE DEF l, q
  <2>6. \A s \in Slots : /\ s =< m.at <=> s < m.at \/ s = m.at
                         /\ m.at < s => s # m.at
                         /\ s < m.at => s # m.at
      BY <1>4, Numbers DEF Slots
  <2>7. ASSUME Safe(m, rec)
        PROVE  /\ \A s \in Slots : q.at < s => q.listing[s] = Row(None)
               /\ \A s \in Slots : s =< q.at => q.listing[s] = Row(rec.slots[s])
    <3>1. /\ \A s \in Slots : m.at < s => m.listing[s] = Row(None)
          /\ m.listing[m.at].name = t
          /\ \A s \in Slots : s < m.at => m.listing[s] = Row(rec.slots[s])
        BY <1>1, <1>5, <1>6, <1>7, <2>7 DEF Safe, Listed
    <3>2. l[m.at] = Row(t)
        BY <2>4, <3>1 DEF Row
    <3> QED BY <2>4, <2>6, <3>1, <3>2
  <2>8. Safe(m, rec) => /\ Mine(n, rec) /\ Recovers(n, rec)
                        /\ Shown(n, rec) /\ Listed(n, rec)
                        /\ n.pc = "name" \/ \A s \in Slots : n.listing[s] = Row(rec.slots[s])
      BY <1>5, <1>7, <2>4, <2>7, NextSlotLemma
  <2>9. Safe(m, rec) => Told(m, n, rec)
      BY <2>8 DEF Told
  <2> HIDE DEF n
  <2> QED BY <1>2, <1>3, <1>5, <1>7, <2>2, <2>5, <2>8, <2>9, StepLemma
<1>8. CASE r.out # "ok" /\ ~(m.job.op = "slots" /\ r.out = "illegal")
  <2>1. "raised" \in Results /\ Becomes(c, r.out, Over(m, "raised"))
      BY <1>2, <1>8 DEF Results, ReadsEmpty
  <2>2. r.out \notin Exceptions /\ Safe(m, rec) /\ m.alone => m.job.op \notin Exposes
    <3>1. r.out \notin Exceptions => r.out \in {"illegal", "attention"}
        BY <1>5, <1>8
    <3>2. CASE m.job.op = "slots"
        BY <3>2 DEF Exposes
    <3>3. CASE m.job.op = "expose_slot"
        BY <1>1, <1>5, <3>1, <3>3 DEF Safe, Recovers
    <3> QED BY <1>6, <3>2, <3>3
  <2> QED BY <1>1, <1>2, <1>3, <1>5, <2>1, <2>2, EndLemma
<1>9. CASE m.job.op = "expose_slot" /\ r.out = "ok"
  <2> DEFINE n == IF m.pc = "aspect" THEN Goes(m, "own_aspect")
                  ELSE [m EXCEPT !.pc = "convert", !.table = t]
  <2>1. Becomes(c, r.out, n)
      BY <1>2, <1>9
  <2>2. CASE m.pc = "aspect"
    <3>1. n \in ClientStates /\ n.pc = "own_aspect" /\ Same(m, n) /\ n.alone = m.alone
        BY <1>1, <2>2, GoesFields DEF Commands
    <3> HIDE DEF n, t, m
    <3>2. Where(n) /\ Told(m, n, rec')
        BY <1>9, <3>1 DEF Where, Same, Told
    <3>3. Safe(m, rec) => Mine(n, rec) /\ Recovers(n, rec) /\ Shown(n, rec) /\ Listed(n, rec)
        BY <1>5, <1>9, <2>2, <3>1 DEF Safe, Mine, Recovers, Shown, Listed, Same, t
    <3> QED BY <1>2, <1>3, <1>5, <1>9, <2>1, <3>1, <3>2, <3>3, StepLemma DEF m
  <2>3. CASE m.pc = "own_aspect"
    <3>1. /\ n \in ClientStates /\ n.pc = "convert" /\ n.table = t
          /\ n.job = m.job /\ n.at = m.at /\ n.alone = m.alone /\ n.stale = m.stale
        BY <1>1, <1>4, <2>3 DEF ClientStates, Commands
    <3> HIDE DEF n, t, m
    <3>2. Where(n) /\ Told(m, n, rec')
        BY <1>9, <3>1 DEF Where, Told, Exposes
    <3>3. Safe(m, rec) => Mine(n, rec) /\ Recovers(n, rec) /\ Shown(n, rec) /\ Listed(n, rec)
        BY <1>5, <1>9, <2>3, <3>1 DEF Safe, Mine, Recovers, Shown, Listed, t
    <3> QED BY <1>2, <1>3, <1>5, <1>9, <2>1, <3>1, <3>2, <3>3, StepLemma DEF m
  <2> QED BY <1>1, <2>2, <2>3
<1> QED BY <1>5, <1>6, <1>7, <1>8, <1>9

LEMMA AskLemma == ASSUME Typed, NEW c \in Clients, Ask(c) PROVE Kept(c)
<1> DEFINE m == client[c]
           n == [m EXCEPT !.pc = "upload", !.agreed = TRUE]
<1>1. m \in ClientStates /\ Where(m) /\ rec \in Recorders /\ m.pc = "ask"
    BY TypedFacts DEF Ask
<1>2. m.job.op = "install"
    BY <1>1 DEF Where
<1>3. Becomes(c, "ok", Over(m, "declined")) \/ Becomes(c, "ok", n)
    BY DEF Ask
<1>4. rec' = rec /\ calls' = calls /\ cycles' = cycles
    BY DEF Ask
<1>5. CASE Becomes(c, "ok", Over(m, "declined"))
  <2>1. "declined" \in Results
      BY DEF Results
  <2> QED BY <1>1, <1>4, <1>5, <2>1, EndLemma
<1>6. CASE Becomes(c, "ok", n)
  <2>1. /\ n \in ClientStates /\ n.pc = "upload" /\ n.agreed /\ n.job = m.job
        /\ n.table = m.table /\ n.at = m.at /\ n.name = m.name
      BY <1>1 DEF ClientStates, Commands
  <2> HIDE DEF n, m
  <2>2. Where(n) /\ Told(m, n, rec')
      BY <1>1, <1>2, <2>1 DEF Where, Told
  <2>3. Safe(m, rec) => Mine(n, rec) /\ Recovers(n, rec) /\ Shown(n, rec) /\ Listed(n, rec)
      BY <1>1, <1>2, <2>1 DEF Safe, Mine, Recovers, Shown, Listed, Exposes
  <2> QED BY <1>1, <1>4, <1>6, <2>1, <2>2, <2>3, StepLemma DEF m
<1> QED BY <1>3, <1>5, <1>6

LEMMA ConvertLemma == ASSUME Typed, NEW c \in Clients, Convert(c) PROVE Kept(c)
<1> DEFINE m == client[c]
           p == IF m.job.op = "expose_film" THEN "upload" ELSE "mode_select"
           n == Goes(m, p)
<1>1. m \in ClientStates /\ Where(m) /\ rec \in Recorders /\ m.pc = "convert"
    BY TypedFacts DEF Convert
<1>2. m.job.op \in Exposes /\ Exposes = {"expose_film", "expose_slot"}
    BY <1>1 DEF Where, Exposes
<1>3. Becomes(c, "ok", Over(m, "badimage")) \/ Becomes(c, "ok", n)
    BY DEF Convert
<1>4. rec' = rec /\ calls' = calls /\ cycles' = cycles
    BY DEF Convert
<1>5. CASE Becomes(c, "ok", Over(m, "badimage"))
  <2>1. "badimage" \in Results
      BY DEF Results
  <2> QED BY <1>1, <1>4, <1>5, <2>1, EndLemma
<1>6. CASE Becomes(c, "ok", n)
  <2>1. n \in ClientStates /\ n.pc = p /\ Same(m, n) /\ n.alone = m.alone
      BY <1>1, GoesFields DEF Commands
  <2>2. /\ p = "upload" => m.job.op = "expose_film"
        /\ p = "mode_select" => m.job.op = "expose_slot"
        /\ p \in {"upload", "mode_select"}
      BY <1>2
  <2> HIDE DEF n, m, p
  <2>3. Where(n) /\ Told(m, n, rec')
      BY <1>1, <1>2, <2>1, <2>2 DEF Where, Told, Same
  <2>4. Safe(m, rec) => Mine(n, rec) /\ Recovers(n, rec) /\ Shown(n, rec) /\ Listed(n, rec)
      BY <1>1, <1>2, <2>1, <2>2 DEF Safe, Mine, Recovers, Shown, Listed, Same
  <2> QED BY <1>1, <1>4, <1>6, <2>1, <2>3, <2>4, StepLemma DEF m
<1> QED BY <1>3, <1>5, <1>6

LEMMA UploadLemma == ASSUME Typed, NEW c \in Clients, Upload(c) PROVE Kept(c)
<1> DEFINE m == client[c]
           d == [rec EXCEPT !.slots[m.at] = m.table]
<1>1. /\ m \in ClientStates /\ Where(m) /\ rec \in Recorders /\ m.pc = "upload"
      /\ m.at \in Slots /\ m.table \in Maybe
    BY TypedFacts DEF Upload, ClientStates
<1>0. PICK good \in BOOLEAN : \E r \in Replies(good, d) :
        /\ rec' = r.rec
        /\ Becomes(c, r.out,
             CASE r.out = "ok" -> IF m.job.op = "install" THEN Over(m, "done")
                                  ELSE Goes(m, "mode_select")
               [] r.out = "illegal" -> Over(m, "rejected")
               [] OTHER -> Over(m, "raised"))
    BY DEF Upload
<1>2. PICK r \in Replies(good, d) :
        /\ rec' = r.rec
        /\ Becomes(c, r.out,
             CASE r.out = "ok" -> IF m.job.op = "install" THEN Over(m, "done")
                                  ELSE Goes(m, "mode_select")
               [] r.out = "illegal" -> Over(m, "rejected")
               [] OTHER -> Over(m, "raised"))
    BY <1>0
<1>3. calls' = calls /\ cycles' = cycles
    BY DEF Upload
<1>4. m.job.op \in {"install", "expose_film"} /\ m.table \in Tables /\ m.table # None
    BY <1>1, Numbers DEF Where
<1>5. /\ d \in Recorders /\ d.slots[m.at] = m.table
      /\ d.phase = rec.phase /\ d.gate = rec.gate /\ d.attention = rec.attention
  <2> DEFINE s == [rec.slots EXCEPT ![m.at] = m.table]
  <2>1. s \in [Slots -> Maybe] /\ s[m.at] = m.table
      BY <1>1 DEF Recorders
  <2>2. d = [rec EXCEPT !.slots = s]
      BY <1>1 DEF Recorders
  <2> HIDE DEF s, d
  <2> QED BY <1>1, <2>1, <2>2 DEF Recorders
<1> HIDE DEF d
<1>6. /\ r.rec \in Recorders
      /\ r.out \in {"ok", "illegal", "attention"} \cup Exceptions
      /\ r.out = "ok" => ~rec.attention /\ r.rec = d
      /\ r.out = "attention" => rec.attention
      /\ RecOK(rec) => RecOK(rec')
    BY <1>1, <1>2, <1>5, ReplyCases, RecKept, ClearedLemma
<1>7. CASE r.out = "ok" /\ m.job.op = "install"
  <2>1. "done" \in Results /\ Becomes(c, r.out, Over(m, "done")) /\ m.job.op # "slots"
      BY <1>2, <1>7 DEF Results
  <2> QED BY <1>1, <1>2, <1>3, <1>6, <2>1, EndLemma
<1>8. CASE r.out = "ok" /\ m.job.op # "install"
  <2> DEFINE n == Goes(m, "mode_select")
  <2>1. n \in ClientStates /\ n.pc = "mode_select" /\ Same(m, n) /\ n.alone = m.alone
      BY <1>1, GoesFields DEF Commands
  <2>2. Becomes(c, r.out, n)
      BY <1>2, <1>8
  <2> HIDE DEF n, m
  <2>3. Where(n) /\ Told(m, n, rec')
      BY <1>1, <1>4, <1>8, <2>1 DEF Where, Told, Same, Exposes
  <2>4. Safe(m, rec) => Mine(n, d) /\ Recovers(n, d) /\ Shown(n, d) /\ Listed(n, d)
      BY <1>1, <1>4, <1>5, <1>6, <1>8, <2>1
         DEF Safe, Mine, Recovers, Shown, Listed, Same, Clean
  <2> QED BY <1>1, <1>2, <1>3, <1>6, <1>8, <2>1, <2>2, <2>3, <2>4, StepLemma DEF m
<1>9. CASE r.out = "illegal"
  <2>1. "rejected" \in Results /\ Becomes(c, r.out, Over(m, "rejected"))
      BY <1>2, <1>9 DEF Results
  <2> QED BY <1>1, <1>2, <1>3, <1>6, <2>1, EndLemma
<1>10. CASE r.out \notin {"ok", "illegal"}
  <2>1. "raised" \in Results /\ Becomes(c, r.out, Over(m, "raised"))
      BY <1>2, <1>10 DEF Results
  <2>2. r.out \notin Exceptions /\ Safe(m, rec) /\ m.alone => m.job.op \notin Exposes
      BY <1>1, <1>6, <1>10 DEF Safe, Recovers
  <2> QED BY <1>1, <1>2, <1>3, <1>6, <2>1, <2>2, EndLemma
<1> QED BY <1>7, <1>8, <1>9, <1>10

(* Where an exposure goes on, and where it goes when a command failed.     *)
LEMMA ContinuesLemma ==
  ASSUME NEW m \in ClientStates, Where(m), m.job.op \in Exposes, NEW out,
         NEW p \in {"start", "send", "terminate"}, NEW r
  PROVE  LET n == Continues(m, out, p)
         IN  /\ n \in ClientStates /\ Where(n) /\ Told(m, n, r) /\ Same(m, n)
             /\ n.alone = m.alone /\ n.job.op \in Exposes
             /\ n.pc = (IF out = "ok" THEN p ELSE IF out = "other" THEN "exc_stop"
                        ELSE "err_stop")
             /\ Shown(n, r) /\ Listed(n, r)
             /\ out # "ok" =>
                  /\ Mine(n, r)
                  /\ out # "other"
                     /\ (m.alone => ~r.attention /\ r.phase # "idle" /\ m.stale)
                     => Recovers(n, r)
<1> DEFINE q == IF out = "ok" THEN p ELSE IF out = "other" THEN "exc_stop" ELSE "err_stop"
           n == Goes(m, q)
<1>1. Continues(m, out, p) = n
    BY DEF Continues
<1>2. n \in ClientStates /\ n.pc = q /\ Same(m, n) /\ n.alone = m.alone
    BY GoesFields DEF Commands
<1>3. q \in {"start", "send", "terminate", "exc_stop", "err_stop"}
    OBVIOUS
<1> HIDE DEF n
<1>4. Where(n) /\ Told(m, n, r)
    BY <1>2, <1>3 DEF Where, Told, Same
<1>5. Shown(n, r) /\ Listed(n, r) /\ n.job.op \in Exposes
    BY <1>2, <1>3 DEF Shown, Listed, Same, Exposes
<1>6. out # "ok" => Mine(n, r)
    BY <1>2 DEF Mine
<1>7. out # "ok" /\ out # "other"
      /\ (m.alone => ~r.attention /\ r.phase # "idle" /\ m.stale)
      => Recovers(n, r)
    BY <1>2 DEF Recovers, Same
<1> QED BY <1>1, <1>2, <1>4, <1>5, <1>6, <1>7

(* A command of an exposure failed: it goes to a handler.                  *)
LEMMA FailedLemma ==
  ASSUME Typed, NEW c \in Clients, NEW out \in {"illegal", "attention"} \cup Exceptions,
         NEW p \in {"start", "send", "terminate"},
         Becomes(c, out, Continues(client[c], out, p)), client[c].job.op \in Exposes,
         rec' \in Recorders, calls' = calls, cycles' = cycles,
         RecOK(rec) /\ Safe(client[c], rec) => RecOK(rec'),
         out \notin Exceptions /\ Safe(client[c], rec) /\ client[c].alone
           => ~rec'.attention /\ rec'.phase # "idle" /\ client[c].stale
  PROVE  Kept(c)
<1> DEFINE m == client[c]
           n == Continues(m, out, p)
<1>1. m \in ClientStates /\ Where(m)
    BY TypedFacts
<1>2. out # "ok" /\ (out \notin Exceptions => out # "other")
    BY DEF Exceptions
<1>3. /\ n \in ClientStates /\ Where(n) /\ Told(m, n, rec')
      /\ Mine(n, rec') /\ Shown(n, rec') /\ Listed(n, rec')
      /\ out # "other"
         /\ (m.alone => ~rec'.attention /\ rec'.phase # "idle" /\ m.stale)
         => Recovers(n, rec')
    BY <1>1, <1>2, ContinuesLemma
<1> HIDE DEF n
<1> QED BY <1>2, <1>3, StepLemma DEF n

LEMMA ModeSelectLemma == ASSUME Typed, NEW c \in Clients, ModeSelect(c) PROVE Kept(c)
<1> DEFINE m == client[c]
           d == [rec EXCEPT !.mode = m.at]
<1>1. /\ m \in ClientStates /\ Where(m) /\ rec \in Recorders /\ m.pc = "mode_select"
      /\ m.at \in Slots
    BY TypedFacts DEF ModeSelect, ClientStates
<1>0. PICK accepts \in {TRUE, rec.slots[m.at] # None} : \E r \in Replies(accepts, d) :
        rec' = r.rec /\ Becomes(c, r.out, Continues(m, r.out, "start"))
    BY DEF ModeSelect
<1>2. PICK r \in Replies(accepts, d) :
        rec' = r.rec /\ Becomes(c, r.out, Continues(m, r.out, "start"))
    BY <1>0
<1>3. calls' = calls /\ cycles' = cycles
    BY DEF ModeSelect
<1>4. m.job.op \in Exposes /\ accepts \in BOOLEAN /\ (~accepts => rec.slots[m.at] = None)
    BY <1>1 DEF Where
<1>5. /\ d \in Recorders /\ InForce(d) = rec.slots[m.at]
      /\ d.phase = rec.phase /\ d.gate = rec.gate /\ d.attention = rec.attention
    BY <1>1 DEF Recorders, InForce
<1> HIDE DEF d
<1>6. /\ r.rec \in Recorders
      /\ r.out \in {"ok", "illegal", "attention"} \cup Exceptions
      /\ r.out = "ok" => ~rec.attention /\ r.rec = d
      /\ r.out = "illegal" => rec.slots[m.at] = None
      /\ r.out = "attention" => rec.attention
      /\ RecOK(rec) => RecOK(rec')
    BY <1>1, <1>2, <1>4, <1>5, ReplyCases, RecKept, ClearedLemma
<1>7. CASE r.out = "ok"
  <2> DEFINE n == Continues(m, r.out, "start")
  <2>1. /\ n \in ClientStates /\ Where(n) /\ Told(m, n, rec') /\ Same(m, n)
        /\ n.alone = m.alone /\ n.job.op \in Exposes /\ n.pc = "start"
        /\ Shown(n, rec') /\ Listed(n, rec')
      BY <1>1, <1>4, <1>7, ContinuesLemma
  <2> HIDE DEF n, m
  <2>2. Safe(m, rec) => Mine(n, d) /\ Recovers(n, d)
      BY <1>1, <1>4, <1>5, <1>6, <1>7, <2>1 DEF Safe, Mine, Recovers, Same, Clean
  <2> QED BY <1>2, <1>3, <1>6, <1>7, <2>1, <2>2, StepLemma DEF m, n
<1>8. CASE r.out # "ok"
  <2>1. r.out \notin Exceptions /\ Safe(m, rec) => ~m.alone
      BY <1>1, <1>4, <1>6, <1>8 DEF Safe, Recovers
  <2> QED BY <1>2, <1>3, <1>4, <1>6, <1>8, <2>1, FailedLemma
<1> QED BY <1>7, <1>8

LEMMA StartExposureLemma == ASSUME Typed, NEW c \in Clients, StartExposure(c) PROVE Kept(c)
<1> DEFINE m == client[c]
<1>1. /\ m \in ClientStates /\ Where(m) /\ rec \in Recorders /\ m.pc = "start"
      /\ rec.slots[rec.mode] \in Maybe
    BY TypedFacts DEF StartExposure, Recorders
<1>2. PICK r \in Replies(rec.phase = "idle", Started) :
        rec' = r.rec /\ Becomes(c, r.out, Continues(m, r.out, "send"))
    BY DEF StartExposure
<1>3. calls' = calls /\ cycles' = cycles /\ m.job.op \in Exposes
    BY <1>1 DEF StartExposure, Where
<1>5. /\ Started \in Recorders /\ RecOK(Started) /\ InForce(Started) = InForce(rec)
      /\ Started.phase = "calibrating" /\ Started.attention = rec.attention
      /\ Started.gate = [tables |-> {InForce(rec)}, by |-> {}]
  <2>1. [tables |-> {InForce(rec)}, by |-> {}] \in Frames
      BY <1>1 DEF Frames, InForce
  <2>2. Started \in Recorders
      BY <1>1, <2>1 DEF Started, Recorders, Lit
  <2>3. /\ InForce(Started) = InForce(rec)
        /\ Started.phase = "calibrating" /\ Started.attention = rec.attention
        /\ Started.gate = [tables |-> {InForce(rec)}, by |-> {}]
      BY <1>1 DEF Started, Recorders, InForce
  <2>4. RecOK(Started)
      BY <2>3 DEF RecOK
  <2> QED BY <2>2, <2>3, <2>4
<1>6. /\ r.rec \in Recorders
      /\ r.out \in {"ok", "illegal", "attention"} \cup Exceptions
      /\ r.out = "ok" => ~rec.attention /\ r.rec = Started
      /\ r.out = "illegal" => ~rec.attention /\ rec.phase # "idle" /\ r.rec = rec
      /\ r.out = "attention" => rec.attention
      /\ RecOK(rec) => RecOK(rec')
  <2> DEFINE accepts == rec.phase = "idle"
  <2>1. accepts \in BOOLEAN /\ r \in Replies(accepts, Started)
      OBVIOUS
  <2> HIDE DEF accepts
  <2>2. /\ r.rec \in Recorders
        /\ r.out \in {"ok", "illegal", "attention"} \cup Exceptions
        /\ r.out = "ok" => ~rec.attention /\ r.rec = Started
        /\ r.out = "illegal" => ~rec.attention /\ ~accepts /\ r.rec = rec
        /\ r.out = "attention" => rec.attention
      BY <1>1, <1>5, <2>1, ReplyCases, SMTT(30)
  <2>3. RecOK(rec) => RecOK(r.rec)
      BY <1>1, <1>5, <2>1, ReplyKept
  <2> QED BY <1>2, <2>2, <2>3 DEF accepts
<1>7. CASE r.out = "ok"
  <2> DEFINE n == Continues(m, r.out, "send")
  <2>1. /\ n \in ClientStates /\ Where(n) /\ Told(m, n, rec') /\ Same(m, n)
        /\ n.alone = m.alone /\ n.job.op \in Exposes /\ n.pc = "send"
        /\ Shown(n, rec') /\ Listed(n, rec')
      BY <1>1, <1>3, <1>7, ContinuesLemma
  <2> HIDE DEF n, m
  <2>2. Safe(m, rec) => Mine(n, Started) /\ Recovers(n, Started)
      BY <1>1, <1>5, <1>6, <1>7, <2>1 DEF Safe, Mine, Recovers, Same, Lit
  <2> QED BY <1>2, <1>3, <1>6, <1>7, <2>1, <2>2, StepLemma DEF m, n
<1>8. CASE r.out # "ok"
  <2>1. r.out \notin Exceptions /\ Safe(m, rec) /\ m.alone
          => ~rec'.attention /\ rec'.phase # "idle" /\ m.stale
      BY <1>1, <1>2, <1>3, <1>6, <1>8 DEF Safe, Recovers, Clean
  <2> QED BY <1>2, <1>3, <1>6, <1>8, <2>1, FailedLemma
<1> QED BY <1>7, <1>8

LEMMA PollLemma == ASSUME Typed, NEW c \in Clients, Poll(c) PROVE Kept(c)
<1> DEFINE m == client[c]
<1>1. m \in ClientStates /\ Where(m) /\ rec \in Recorders /\ m.pc = "send"
    BY TypedFacts DEF Poll
<1>2. PICK r \in Replies(TRUE, rec) :
        /\ rec' = r.rec
        /\ \/ Becomes(c, r.out, Continues(m, r.out, "send"))
           \/ r.out \in SCSIErrors /\ Becomes(c, r.out, m)
    BY DEF Poll
<1>3. calls' = calls /\ cycles' = cycles /\ m.job.op \in Exposes
    BY <1>1 DEF Poll, Where
<1>4. /\ r.rec \in Recorders
      /\ r.out \in {"ok", "illegal", "attention"} \cup Exceptions
      /\ r.rec.phase = rec.phase /\ r.rec.gate = rec.gate
      /\ r.rec.slots = rec.slots /\ r.rec.mode = rec.mode
      /\ r.out # "illegal" /\ (r.out = "ok" => r.rec = rec)
      /\ r.out = "attention" => rec.attention
      /\ RecOK(rec) => RecOK(rec')
    BY <1>1, <1>2, ReadCases
<1>5. r.out \notin Exceptions /\ r.out # "ok" /\ Safe(m, rec) => ~m.alone
    BY <1>1, <1>3, <1>4 DEF Safe, Recovers
<1>6. CASE r.out # "ok" /\ Becomes(c, r.out, Continues(m, r.out, "send"))
    BY <1>2, <1>3, <1>4, <1>5, <1>6, FailedLemma
<1>7. CASE r.out = "ok" /\ Becomes(c, r.out, Continues(m, r.out, "send"))
  <2> DEFINE n == Continues(m, r.out, "send")
  <2>1. /\ n \in ClientStates /\ Where(n) /\ Told(m, n, rec') /\ Same(m, n)
        /\ n.alone = m.alone /\ n.job.op \in Exposes /\ n.pc = "send"
        /\ Shown(n, rec') /\ Listed(n, rec')
      BY <1>1, <1>3, <1>7, ContinuesLemma
  <2> HIDE DEF n, m
  <2>2. Safe(m, rec) => Mine(n, rec) /\ Recovers(n, rec)
      BY <1>1, <1>3, <2>1 DEF Safe, Mine, Recovers, Same
  <2> QED BY <1>2, <1>3, <1>4, <1>7, <2>1, <2>2, StepLemma DEF m, n
<1>8. CASE r.out \in SCSIErrors /\ Becomes(c, r.out, m)
  <2>1. r.out # "ok"
      BY <1>8 DEF SCSIErrors
  <2>2. Told(m, m, rec')
      BY <1>1 DEF Told
  <2> HIDE DEF m
  <2>3. Safe(m, rec) => Mine(m, rec') /\ Shown(m, rec') /\ Listed(m, rec')
      BY <1>1, <1>2, <1>3, <1>4 DEF Safe, Mine, Shown, Listed, InForce, Exposes
  <2>4. Safe(m, rec) /\ r.out \notin Exceptions => Recovers(m, rec')
      BY <1>5, <2>1 DEF Recovers
  <2> QED BY <1>1, <1>2, <1>3, <1>4, <1>8, <2>2, <2>3, <2>4, StepLemma DEF m
<1> QED BY <1>2, <1>6, <1>7, <1>8

LEMMA PrintLineLemma == ASSUME Typed, NEW c \in Clients, PrintLine(c) PROVE Kept(c)
<1> DEFINE m == client[c]
           d == LineBy(m)
           own == [call |-> m.call, table |-> m.table]
<1>1. /\ m \in ClientStates /\ Where(m) /\ rec \in Recorders /\ m.pc = "send"
      /\ InForce(rec) \in Maybe /\ own \in [call : Nat, table : Maybe]
    BY TypedFacts DEF PrintLine, ClientStates, Recorders, InForce
<1>0. PICK r \in Replies(rec.phase \in Lit, d) :
        /\ rec' = r.rec
        /\ \E p \in {"send", "terminate"} : Becomes(c, r.out, Continues(m, r.out, p))
    BY DEF PrintLine
<1>2. PICK p \in {"send", "terminate"} :
        rec' = r.rec /\ Becomes(c, r.out, Continues(m, r.out, p))
    BY <1>0
<1>3. calls' = calls /\ cycles' = cycles /\ m.job.op \in Exposes
    BY <1>1 DEF PrintLine, Where
<1>5. /\ d \in Recorders /\ InForce(d) = InForce(rec)
      /\ d.phase = rec.phase /\ d.attention = rec.attention
      /\ d.gate = [tables |-> rec.gate.tables \cup {InForce(rec)},
                   by |-> rec.gate.by \cup {own}]
  <2> DEFINE g == [tables |-> rec.gate.tables \cup {InForce(rec)},
                   by |-> rec.gate.by \cup {own}]
  <2>1. d = [rec EXCEPT !.gate = g]
      BY DEF LineBy
  <2>2. g \in Frames
      BY <1>1 DEF Frames, Recorders
  <2> HIDE DEF g, d
  <2>3. d \in Recorders /\ d.gate = g /\ d.slots = rec.slots /\ d.mode = rec.mode
        /\ d.phase = rec.phase /\ d.attention = rec.attention
      BY <1>1, <2>1, <2>2 DEF Recorders
  <2> QED BY <2>3 DEF g, InForce
<1> HIDE DEF d
<1>6. /\ r.rec \in Recorders
      /\ r.out \in {"ok", "illegal", "attention"} \cup Exceptions
      /\ r.out = "ok" => ~rec.attention /\ rec.phase \in Lit /\ r.rec = d
      /\ r.out = "illegal" => rec.phase \notin Lit
      /\ r.out = "attention" => rec.attention
      /\ \/ r.rec = rec \/ r.rec = [rec EXCEPT !.attention = FALSE]
         \/ rec.phase \in Lit /\ r.rec = d
  <2> DEFINE accepts == rec.phase \in Lit
  <2>1. accepts \in BOOLEAN
      OBVIOUS
  <2>2. r \in Replies(accepts, d)
      OBVIOUS
  <2> HIDE DEF accepts
  <2>3. /\ r.rec \in Recorders
        /\ r.out \in {"ok", "illegal", "attention"} \cup Exceptions
        /\ r.out = "ok" => ~rec.attention /\ accepts /\ r.rec = d
        /\ r.out = "illegal" => ~accepts
        /\ r.out = "attention" => rec.attention
        /\ \/ r.rec = rec \/ r.rec = [rec EXCEPT !.attention = FALSE]
           \/ accepts /\ r.rec = d
      BY <1>1, <1>5, <2>1, <2>2, ReplyCases, ZenonT(60)
  <2> QED BY <2>3 DEF accepts
<1>7. ASSUME RecOK(rec), Safe(m, rec), rec.phase \in Lit
      PROVE  RecOK(d) /\ Mine(Continues(m, "ok", p), d)
  <2>1. /\ InForce(rec) = m.table /\ rec.gate.by \subseteq {own}
        /\ rec.gate.tables = {m.table}
      BY <1>1, <1>7 DEF Safe, Mine, Lit
  <2>2. d.gate.by = {own} /\ d.gate.tables = {m.table} /\ d.phase \in Lit
      BY <1>5, <1>7, <2>1
  <2>3. RecOK(d)
      BY <2>2 DEF RecOK, Lit
  <2> DEFINE n == Continues(m, "ok", p)
  <2>4. Same(m, n) /\ n.pc = p
      BY <1>1, <1>3, ContinuesLemma
  <2> HIDE DEF n
  <2>5. Mine(n, d)
      BY <1>5, <2>1, <2>2, <2>4 DEF Mine, Same
  <2> QED BY <2>3, <2>5 DEF n
<1>8. RecOK(rec) /\ Safe(m, rec) => RecOK(rec')
    BY <1>1, <1>2, <1>6, <1>7, ClearedLemma
<1>9. CASE r.out = "ok"
  <2> DEFINE n == Continues(m, "ok", p)
  <2>1. /\ n \in ClientStates /\ Where(n) /\ Told(m, n, rec') /\ Same(m, n)
        /\ n.alone = m.alone /\ n.job.op \in Exposes /\ n.pc = p
        /\ Shown(n, rec') /\ Listed(n, rec')
      BY <1>1, <1>3, ContinuesLemma
  <2>2. RecOK(rec) /\ Safe(m, rec) => Mine(n, d)
      BY <1>6, <1>7, <1>9
  <2> HIDE DEF n, m
  <2>3. Safe(m, rec) => Recovers(n, d)
      BY <1>1, <1>3, <1>5, <1>6, <1>9, <2>1 DEF Safe, Recovers, Same
  <2> QED BY <1>2, <1>3, <1>6, <1>8, <1>9, <2>1, <2>2, <2>3, StepLemma DEF m, n
<1>10. CASE r.out # "ok"
  <2>1. r.out \notin Exceptions /\ Safe(m, rec) => ~m.alone
      BY <1>1, <1>3, <1>6, <1>10 DEF Safe, Recovers
  <2> QED BY <1>2, <1>3, <1>6, <1>8, <1>10, <2>1, FailedLemma
<1> QED BY <1>9, <1>10

LEMMA AdvancedFacts ==
  ASSUME rec \in Recorders
  PROVE  /\ Advanced \in Recorders /\ RecOK(Advanced)
         /\ Advanced.phase = "idle" /\ Advanced.attention = rec.attention
<1>1. Unexposed \in Frames
    BY DEF Unexposed, Frames
<1>2. Advanced \in Recorders /\ Advanced.gate = Unexposed
      /\ Advanced.phase = "idle" /\ Advanced.attention = rec.attention
    BY <1>1 DEF Advanced, Recorders
<1> QED BY <1>2 DEF RecOK, Unexposed

LEMMA AdvanceReplies ==
  ASSUME rec \in Recorders, NEW r \in Replies(rec.phase # "idle", Advanced)
  PROVE  /\ r.rec \in Recorders
         /\ r.out \in {"ok", "illegal", "attention"} \cup Exceptions
         /\ r.out = "ok" => ~rec.attention /\ r.rec = Advanced
         /\ r.out = "illegal" => rec.phase = "idle"
         /\ r.out = "attention" => rec.attention
         /\ RecOK(rec) => RecOK(r.rec)
<1> DEFINE accepts == rec.phase # "idle"
<1>1. accepts \in BOOLEAN /\ r \in Replies(accepts, Advanced)
    OBVIOUS
<1> HIDE DEF accepts
<1>2. /\ r.rec \in Recorders
      /\ r.out \in {"ok", "illegal", "attention"} \cup Exceptions
      /\ r.out = "ok" => ~rec.attention /\ r.rec = Advanced
      /\ r.out = "illegal" => ~accepts
      /\ r.out = "attention" => rec.attention
      /\ \/ r.rec = rec \/ r.rec = [rec EXCEPT !.attention = FALSE]
         \/ r.rec = Advanced
    BY <1>1, AdvancedFacts, ReplyCases
<1>3. RecOK(rec) => RecOK(r.rec)
    BY <1>2, AdvancedFacts, ClearedLemma
<1> QED BY <1>2, <1>3 DEF accepts

LEMMA TerminateLemma == ASSUME Typed, NEW c \in Clients, Terminate(c) PROVE Kept(c)
<1> DEFINE m == client[c]
<1>1. m \in ClientStates /\ Where(m) /\ rec \in Recorders /\ m.pc = "terminate"
    BY TypedFacts DEF Terminate
<1>2. PICK r \in Replies(rec.phase # "idle", Advanced) :
        /\ rec' = r.rec
        /\ Becomes(c, r.out, IF r.out = "ok" THEN Over(m, "complete")
                             ELSE Continues(m, r.out, "terminate"))
    BY DEF Terminate
<1>3. calls' = calls /\ cycles' = cycles /\ m.job.op \in Exposes
    BY <1>1 DEF Terminate, Where
<1>4. /\ r.rec \in Recorders
      /\ r.out \in {"ok", "illegal", "attention"} \cup Exceptions
      /\ r.out = "ok" => ~rec.attention /\ r.rec = Advanced
      /\ r.out = "illegal" => rec.phase = "idle"
      /\ r.out = "attention" => rec.attention
      /\ RecOK(rec) => RecOK(rec')
    BY <1>1, <1>2, AdvanceReplies
<1>5. CASE r.out = "ok"
  <2>1. "complete" \in Results /\ Becomes(c, r.out, Over(m, "complete")) /\ Clean(rec')
      BY <1>1, <1>2, <1>4, <1>5, AdvancedFacts DEF Results, Clean
  <2> QED BY <1>1, <1>2, <1>3, <1>4, <2>1, EndLemma
<1>6. CASE r.out # "ok"
  <2>1. r.out \notin Exceptions /\ Safe(m, rec) => ~m.alone
      BY <1>1, <1>3, <1>4, <1>6 DEF Safe, Recovers, Lit
  <2> QED BY <1>2, <1>3, <1>4, <1>6, <2>1, FailedLemma
<1> QED BY <1>5, <1>6

LEMMA StopPrintLemma == ASSUME Typed, NEW c \in Clients, StopPrint(c) PROVE Kept(c)
<1> DEFINE m == client[c]
           d == [rec EXCEPT !.phase = IF @ \in Lit THEN "stopped" ELSE @]
<1>1. /\ m \in ClientStates /\ Where(m) /\ rec \in Recorders
      /\ m.pc \in {"err_stop", "exc_stop"}
    BY TypedFacts DEF StopPrint
<1>2. PICK r \in Replies(TRUE, d) :
        /\ rec' = r.rec
        /\ Becomes(c, r.out,
             CASE m.pc = "exc_stop" \/ r.out = "other" -> Over(m, "raised")
               [] m.pc = "err_stop" /\ r.out = "os" -> Over(m, "error")
               [] OTHER -> Goes(m, "err_term"))
    BY DEF StopPrint
<1>3. calls' = calls /\ cycles' = cycles /\ m.job.op \in Exposes
    BY <1>1 DEF StopPrint, Where
<1>4. /\ d \in Recorders /\ d.gate = rec.gate /\ d.attention = rec.attention
      /\ d.phase = "idle" <=> rec.phase = "idle"
    BY <1>1 DEF Recorders, Lit
<1> HIDE DEF d
<1>5. /\ r.rec \in Recorders
      /\ r.out \in {"ok", "illegal", "attention"} \cup Exceptions
      /\ r.out # "illegal" /\ (r.out = "ok" => ~rec.attention /\ r.rec = d)
      /\ r.out = "attention" => rec.attention
      /\ RecOK(rec) => RecOK(rec')
  <2>1. /\ r.rec \in Recorders
        /\ r.out \in {"ok", "illegal", "attention"} \cup Exceptions
        /\ r.out # "illegal" /\ (r.out = "ok" => ~rec.attention /\ r.rec = d)
        /\ r.out = "attention" => rec.attention
        /\ \/ r.rec = rec \/ r.rec = [rec EXCEPT !.attention = FALSE]
           \/ r.rec = d
      BY <1>1, <1>4, ReplyCases
  <2>2. RecOK(rec) => RecOK(d)
      BY <1>4, RecKept
  <2> QED BY <1>1, <1>2, <2>1, <2>2, ClearedLemma
<1>6. CASE m.pc = "exc_stop" \/ r.out = "other"
  <2>1. "raised" \in Results /\ Becomes(c, r.out, Over(m, "raised"))
      BY <1>2, <1>6 DEF Results
  <2>2. r.out \notin Exceptions /\ Safe(m, rec) => ~m.alone
      BY <1>1, <1>3, <1>6 DEF Safe, Recovers, Exceptions
  <2> QED BY <1>1, <1>2, <1>3, <1>5, <2>1, <2>2, EndLemma
<1>7. CASE m.pc = "err_stop" /\ r.out = "os"
  <2>1. "error" \in Results /\ Becomes(c, r.out, Over(m, "error")) /\ r.out \in Exceptions
      BY <1>2, <1>7 DEF Results, Exceptions
  <2> QED BY <1>1, <1>2, <1>3, <1>5, <2>1, EndLemma
<1>8. CASE m.pc = "err_stop" /\ r.out \notin {"os", "other"}
  <2> DEFINE n == Goes(m, "err_term")
  <2>1. n \in ClientStates /\ n.pc = "err_term" /\ Same(m, n) /\ n.alone = m.alone
      BY <1>1, GoesFields DEF Commands
  <2>2. Becomes(c, r.out, n)
      BY <1>2, <1>8
  <2> HIDE DEF n, m
  <2>3. Where(n) /\ Told(m, n, rec')
      BY <1>1, <1>3, <2>1 DEF Where, Told, Same
  <2>4. Safe(m, rec) => Mine(n, rec') /\ Shown(n, rec') /\ Listed(n, rec')
      BY <1>1, <2>1 DEF Safe, Mine, Shown, Listed
  <2>5. Safe(m, rec) /\ r.out \notin Exceptions => Recovers(n, rec')
      BY <1>1, <1>2, <1>3, <1>4, <1>5, <1>8, <2>1 DEF Safe, Recovers, Same
  <2> QED BY <1>1, <1>2, <1>3, <1>5, <2>1, <2>2, <2>3, <2>4, <2>5, StepLemma DEF m
<1> QED BY <1>1, <1>6, <1>7, <1>8

LEMMA TerminateStoppedLemma ==
  ASSUME Typed, NEW c \in Clients, TerminateStopped(c) PROVE Kept(c)
<1> DEFINE m == client[c]
<1>1. m \in ClientStates /\ Where(m) /\ rec \in Recorders /\ m.pc = "err_term"
    BY TypedFacts DEF TerminateStopped
<1>2. PICK r \in Replies(rec.phase # "idle", Advanced) :
        /\ rec' = r.rec
        /\ Becomes(c, r.out, Over(m, IF r.out = "other" THEN "raised" ELSE "error"))
    BY DEF TerminateStopped
<1> DEFINE how == IF r.out = "other" THEN "raised" ELSE "error"
<1>3. /\ calls' = calls /\ cycles' = cycles /\ m.job.op \in Exposes
      /\ how \in Results /\ how # "done" /\ (r.out \notin Exceptions => how # "raised")
    BY <1>1 DEF TerminateStopped, Where, Results, Exceptions
<1>4. /\ r.rec \in Recorders
      /\ r.out \in {"ok", "illegal", "attention"} \cup Exceptions
      /\ r.out = "ok" => ~rec.attention /\ r.rec = Advanced
      /\ r.out = "illegal" => rec.phase = "idle"
      /\ r.out = "attention" => rec.attention
      /\ RecOK(rec) => RecOK(rec')
    BY <1>1, <1>2, AdvanceReplies
<1>5. r.out \notin Exceptions /\ Safe(m, rec) /\ m.alone => r.out = "ok" /\ m.stale
    BY <1>1, <1>3, <1>4 DEF Safe, Recovers
<1>6. r.out = "ok" => Clean(rec')
    BY <1>1, <1>2, <1>4, AdvancedFacts DEF Clean
<1> HIDE DEF how
<1>7. Becomes(c, r.out, Over(m, how))
    BY <1>2 DEF how
<1> QED BY <1>1, <1>2, <1>3, <1>4, <1>5, <1>6, <1>7, EndLemma

LEMMA InterruptLemma == ASSUME Typed, NEW c \in Clients, Interrupt(c) PROVE Kept(c)
<1> DEFINE m == client[c]
           n == [Over(m, "interrupted") EXCEPT !.alone = FALSE]
<1>1. m \in ClientStates /\ Where(m)
    BY TypedFacts
<1>2. /\ client' = [client EXCEPT ![c] = n]
      /\ rec' = rec /\ calls' = calls /\ cycles' = cycles
    BY DEF Interrupt
<1>3. n = After(Over(m, "interrupted"), "os")
    BY <1>1 DEF After, Over, ClientStates, Exceptions
<1>4. "interrupted" \in Results /\ Becomes(c, "os", Over(m, "interrupted"))
    BY <1>2, <1>3 DEF Becomes, After, Results
<1>5. "os" \in Exceptions
    BY DEF Exceptions
<1>6. rec' \in Recorders
    BY <1>2, TypedFacts
<1> HIDE DEF n
<1> QED BY <1>1, <1>2, <1>4, <1>5, <1>6, EndLemma

-----------------------------------------------------------------------------
(* Steps of several clients, or of the recorder.                           *)
IndInv == Typed /\ RecOK(rec) /\ \A c \in Clients : Safe(client[c], rec)

LEMMA JobTables ==
  ASSUME NEW j \in Jobs
  PROVE  /\ j.op \in {"install", "expose_film"} => j.table \in Tables
         /\ j.table \in Maybe /\ j.slot \in Slots
         /\ j.op = "slots" => j.slot = 0
BY Numbers DEF Jobs, Job, Maybe

LEMMA TypedInit == Init => Typed
<1> SUFFICES ASSUME Init PROVE Typed
    OBVIOUS
<1>1. PICK j \in Job("status", {0}, {None}, {FALSE}) :
        client = [c \in Clients |-> [Invocation(j, 0, FALSE, FALSE) EXCEPT !.pc = "idle"]]
    BY DEF Init
<1>2. j \in Jobs /\ j.op = "status" /\ j.table = None /\ j.slot = 0
    BY <1>1 DEF Job, Jobs
<1> DEFINE m == [Invocation(j, 0, FALSE, FALSE) EXCEPT !.pc = "idle"]
<1>3. m \in ClientStates /\ m.pc = "idle" /\ m.job = j
    BY <1>2, Numbers DEF Invocation, ClientStates, Listings, Results, Maybe
<1> HIDE DEF m
<1>4. Where(m)
    BY <1>2, <1>3 DEF Where
<1>5. rec \in Recorders
    BY Numbers DEF Init, PowerOn, Recorders, Unexposed, Frames, Maybe
<1>6. calls \in 0..MaxCalls /\ cycles \in 0..MaxPowerCycles
    BY SessionAssumption DEF Init
<1>7. client = [c \in Clients |-> m]
    BY <1>1 DEF m
<1> QED BY <1>3, <1>4, <1>5, <1>6, <1>7 DEF Typed, TypeOK

(* A new invocation is the only one at work when it is alone, and starts   *)
(* with nothing read.                                                      *)
LEMMA InvocationLemma ==
  ASSUME NEW j \in Jobs, NEW n \in Nat, NEW stale \in BOOLEAN, NEW alone \in BOOLEAN,
         NEW r \in Recorders
  PROVE  LET m == Invocation(j, n, stale, alone)
         IN  /\ m \in ClientStates /\ Where(m) /\ m.pc = "inquiry" /\ m.job = j
             /\ stale = ~Clean(r) => Safe(m, r)
<1> DEFINE m == Invocation(j, n, stale, alone)
<1>1. /\ m \in ClientStates /\ m.pc = "inquiry" /\ m.job = j /\ m.at = j.slot
      /\ m.table = j.table /\ m.stale = stale
      /\ m.listing = [s \in Slots |-> [name |-> None, aspect |-> None]]
    BY JobTables DEF Invocation, ClientStates, Listings, Results, Commands, Maybe
<1> HIDE DEF m
<1>2. Where(m)
    BY <1>1, JobTables DEF Where
<1>3. Mine(m, r) /\ Shown(m, r)
    BY <1>1 DEF Mine, Shown
<1>4. Listed(m, r)
    BY <1>1, JobTables DEF Listed, Row
<1>5. stale = ~Clean(r) => Recovers(m, r)
    BY <1>1 DEF Recovers
<1> QED BY <1>1, <1>2, <1>3, <1>4, <1>5 DEF Safe, m

LEMMA BeginTyped == ASSUME Typed, NEW c \in Clients, Begin(c) PROVE Typed'
<1>1. PICK j \in Jobs :
        LET alone == \A d \in Clients \ {c} : client[d].pc = "idle"
        IN  client' = [d \in Clients |->
                        IF d = c THEN Invocation(j, calls + 1, ~Clean(rec), alone)
                        ELSE [client[d] EXCEPT !.alone = FALSE]]
    BY DEF Begin
<1> DEFINE alone == \A d \in Clients \ {c} : client[d].pc = "idle"
           m == Invocation(j, calls + 1, ~Clean(rec), alone)
<1>2. calls + 1 \in Nat /\ calls' \in 0..MaxCalls /\ cycles' = cycles /\ rec' = rec
    BY SessionAssumption DEF Begin, Typed, TypeOK
<1>3. m \in ClientStates /\ Where(m)
  <2>1. (~Clean(rec)) \in BOOLEAN
      BY Zenon
  <2>2. alone \in BOOLEAN
      BY Zenon
  <2>3. rec \in Recorders
      BY DEF Typed, TypeOK
  <2> HIDE DEF alone
  <2> QED BY <1>2, <2>1, <2>2, <2>3, InvocationLemma
<1> HIDE DEF m, alone
<1>4. ASSUME NEW d \in Clients
      PROVE  LET n == [client[d] EXCEPT !.alone = FALSE]
             IN  n \in ClientStates /\ Where(n)
  <2>1. After(client[d], "os") = [client[d] EXCEPT !.alone = FALSE]
      BY TypedFacts DEF After, Exceptions
  <2>2. /\ After(client[d], "os") \in ClientStates /\ Same(client[d], After(client[d], "os"))
        /\ After(client[d], "os").pc = client[d].pc
      BY TypedFacts, AfterFields
  <2>3. Where(After(client[d], "os"))
      BY <2>2, TypedFacts DEF Where, Same
  <2> QED BY <2>1, <2>2, <2>3
<1>5. client' = [d \in Clients |-> IF d = c THEN m ELSE [client[d] EXCEPT !.alone = FALSE]]
    BY <1>1 DEF m, alone
<1> QED BY <1>2, <1>3, <1>4, <1>5 DEF Typed, TypeOK

LEMMA CalibrateLemma ==
  ASSUME Typed, Calibrate
  PROVE  /\ Typed'
         /\ RecOK(rec) => RecOK(rec')
         /\ \A c \in Clients : Safe(client[c], rec) => Safe(client'[c], rec')
<1>1. /\ rec' \in Recorders /\ rec'.phase = "exposing" /\ rec.phase = "calibrating"
      /\ rec'.gate = rec.gate /\ rec'.slots = rec.slots /\ rec'.mode = rec.mode
      /\ rec'.attention = rec.attention
    BY DEF Typed, TypeOK, Calibrate, Recorders, Lit
<1>2. client' = client /\ calls' = calls /\ cycles' = cycles
    BY DEF Calibrate
<1>3. Typed'
    BY <1>1, <1>2 DEF Typed, TypeOK
<1>4. RecOK(rec) => RecOK(rec')
    BY <1>1 DEF RecOK
<1>5. ASSUME NEW c \in Clients, Safe(client[c], rec) PROVE Safe(client'[c], rec')
  <2> DEFINE m == client[c]
  <2>1. Mine(m, rec) /\ Recovers(m, rec) /\ Shown(m, rec) /\ Listed(m, rec)
      BY <1>5 DEF Safe
  <2>2. ~Clean(rec) /\ ~Clean(rec')
      BY <1>1 DEF Clean
  <2> HIDE DEF m
  <2>3. Mine(m, rec') /\ Shown(m, rec') /\ Listed(m, rec')
      BY <1>1, <2>1 DEF Mine, Shown, Listed, InForce, Lit
  <2>4. Recovers(m, rec')
      BY <1>1, <2>1, <2>2 DEF Recovers, Lit
  <2> QED BY <1>2, <2>3, <2>4 DEF Safe, m
<1> QED BY <1>3, <1>4, <1>5

(* After a power cycle an invocation has an attention to be told of, and   *)
(* is no longer undisturbed.                                               *)
LEMMA PowerCycleLemma ==
  ASSUME Typed, PowerCycle
  PROVE  /\ Typed' /\ RecOK(rec')
         /\ \A c \in Clients :
              /\ Safe(client[c], rec) => Safe(client'[c], rec')
              /\ Same(client[c], client'[c]) /\ client'[c].pc = client[c].pc
<1>1. /\ rec' \in Recorders /\ rec'.phase = "idle" /\ rec'.attention
      /\ rec'.gate = Unexposed
    BY Numbers DEF PowerCycle, PowerOn, Recorders, Unexposed, Frames, Maybe
<1>2. /\ calls' = calls /\ cycles' \in 0..MaxPowerCycles
    BY SessionAssumption DEF PowerCycle, Typed, TypeOK
<1>3. RecOK(rec')
    BY <1>1 DEF RecOK, Unexposed
<1>4. ASSUME NEW c \in Clients
      PROVE  /\ client'[c] = After(client[c], "os")
             /\ client'[c] \in ClientStates /\ client'[c].pc = client[c].pc
             /\ Same(client[c], client'[c]) /\ ~client'[c].alone
             /\ Where(client'[c])
  <2>1. client'[c] = After(client[c], "os")
      BY TypedFacts DEF PowerCycle, After, Exceptions
  <2>2. /\ client'[c] \in ClientStates /\ client'[c].pc = client[c].pc
        /\ Same(client[c], client'[c]) /\ ~client'[c].alone
    <3> DEFINE n == After(client[c], "os")
    <3>1. "os" \in Exceptions
        BY DEF Exceptions
    <3>2. /\ n \in ClientStates /\ n.pc = client[c].pc
          /\ Same(client[c], n) /\ ~n.alone
        BY <3>1, TypedFacts, AfterFields
    <3> QED BY <2>1, <3>2
  <2>3. Where(client'[c])
      BY <2>2, TypedFacts DEF Where, Same
  <2> QED BY <2>1, <2>2, <2>3
<1>5. Typed'
  <2>1. client' = [c \in Clients |-> [client[c] EXCEPT !.alone = FALSE]]
      BY DEF PowerCycle
  <2>2. client' \in [Clients -> ClientStates]
      BY <1>4, <2>1
  <2> QED BY <1>1, <1>2, <1>4, <2>2 DEF Typed, TypeOK
<1>6. ASSUME NEW c \in Clients, Safe(client[c], rec) PROVE Safe(client'[c], rec')
  <2> DEFINE m == client[c]
             n == client'[c]
  <2>1. Mine(m, rec) /\ Shown(m, rec) /\ Listed(m, rec)
      BY <1>6 DEF Safe
  <2>2. n.pc = m.pc /\ Same(m, n) /\ ~n.alone
      BY <1>4
  <2> HIDE DEF m, n
  <2>3. Mine(n, rec')
      BY <1>1, <2>2 DEF Mine
  <2>4. Recovers(n, rec')
      BY <2>2 DEF Recovers
  <2>5. Shown(n, rec') /\ Listed(n, rec')
      BY <1>1, <2>1, <2>2 DEF Shown, Listed, Same
  <2> QED BY <2>3, <2>4, <2>5 DEF Safe, n
<1> QED BY <1>3, <1>4, <1>5, <1>6

LEMMA WorksLemma ==
  ASSUME Typed, NEW c \in Clients, Works(c) \/ Interrupt(c) PROVE Kept(c)
BY InquiryLemma, TestUnitReadyLemma, ModeSenseLemma, ResetLemma, FilmNameLemma,
   FilmAspectLemma, AskLemma, ConvertLemma, UploadLemma, ModeSelectLemma,
   StartExposureLemma, PollLemma, PrintLineLemma, TerminateLemma, StopPrintLemma,
   TerminateStoppedLemma, InterruptLemma DEF Works

LEMMA TypedNext == Typed /\ [Next]_vars => Typed'
<1> SUFFICES ASSUME Typed, [Next]_vars PROVE Typed'
    OBVIOUS
<1>1. ASSUME NEW c \in Clients, Works(c) \/ Interrupt(c) PROVE Typed'
    BY <1>1, WorksLemma DEF Kept
<1>2. ASSUME UNCHANGED vars PROVE Typed'
    BY <1>2 DEF vars, Typed, TypeOK
<1> QED BY <1>1, <1>2, BeginTyped, CalibrateLemma, PowerCycleLemma DEF Next, Quiet

(* Any number of clients: the state keeps its type, and every command      *)
(* belongs to an invocation that sends it.                                 *)
THEOREM SessionTypes == Spec => []TypeOK
<1>1. Typed => TypeOK
    BY DEF Typed
<1> QED BY <1>1, TypedInit, TypedNext, PTL DEF Spec

(* One client at a time.                                                   *)
LEMMA IndInit == Init => IndInv
<1> SUFFICES ASSUME Init PROVE IndInv
    OBVIOUS
<1>1. PICK j \in Job("status", {0}, {None}, {FALSE}) :
        client = [c \in Clients |-> [Invocation(j, 0, FALSE, FALSE) EXCEPT !.pc = "idle"]]
    BY DEF Init
<1>2. RecOK(rec)
    BY DEF Init, PowerOn, Unexposed, RecOK
<1>3. ASSUME NEW c \in Clients PROVE Safe(client[c], rec)
  <2>1. client[c].pc = "idle" /\ ~client[c].alone
      BY <1>1 DEF Invocation
  <2> QED BY <2>1 DEF Safe, Mine, Recovers, Shown, Listed
<1> QED BY <1>2, <1>3, TypedInit DEF IndInv

LEMMA BeginSafe ==
  ASSUME IndInv, NEW c \in Clients, \A a, b \in Clients : a = b, Begin(c)
  PROVE  IndInv' /\ client'[c].pc = "inquiry"
<1>0. Typed
    BY DEF IndInv
<1>1. PICK j \in Jobs :
        LET alone == \A d \in Clients \ {c} : client[d].pc = "idle"
        IN  client' = [d \in Clients |->
                        IF d = c THEN Invocation(j, calls + 1, ~Clean(rec), alone)
                        ELSE [client[d] EXCEPT !.alone = FALSE]]
    BY DEF Begin
<1> DEFINE alone == \A d \in Clients \ {c} : client[d].pc = "idle"
           stale == ~Clean(rec)
           m == Invocation(j, calls + 1, stale, alone)
<1>2. rec' = rec /\ calls + 1 \in Nat /\ rec \in Recorders
    BY <1>0, SessionAssumption DEF Begin, Typed, TypeOK
<1>3. stale \in BOOLEAN /\ alone \in BOOLEAN
    BY Zenon
<1>4. client'[c] = m
    BY <1>1
<1>5. m.pc = "inquiry" /\ Safe(m, rec)
  <2>1. stale = ~Clean(rec)
      OBVIOUS
  <2> HIDE DEF alone, stale
  <2> QED BY <1>2, <1>3, <2>1, InvocationLemma, ZenonT(60)
<1> HIDE DEF m
<1>6. \A d \in Clients : Safe(client'[d], rec')
    BY <1>2, <1>4, <1>5
<1> QED BY <1>0, <1>2, <1>4, <1>5, <1>6, BeginTyped DEF IndInv

LEMMA IndNext ==
  ASSUME \A a, b \in Clients : a = b
  PROVE  IndInv /\ [Next]_vars => IndInv'
<1> SUFFICES ASSUME IndInv, [Next]_vars PROVE IndInv'
    OBVIOUS
<1>1. ASSUME NEW c \in Clients, Works(c) \/ Interrupt(c) PROVE IndInv'
  <2>1. Kept(c) /\ RecOK(rec) /\ Safe(client[c], rec)
      BY <1>1, WorksLemma DEF IndInv
  <2> QED BY <2>1 DEF Kept, IndInv
<1>2. ASSUME Calibrate \/ PowerCycle PROVE IndInv'
    BY <1>2, CalibrateLemma, PowerCycleLemma DEF IndInv
<1>3. ASSUME UNCHANGED vars PROVE IndInv'
    BY <1>3 DEF vars, IndInv, Typed, TypeOK
<1> QED BY <1>1, <1>2, <1>3, BeginSafe DEF Next, Quiet

THEOREM SessionInvariance ==
  ASSUME \A a, b \in Clients : a = b
  PROVE  Spec => []IndInv
BY IndInit, IndNext, PTL DEF Spec

(* One client at a time, whatever is lost, refused or interrupted: the     *)
(* lines of a frame are of one invocation (OneCallPerFrame).               *)
THEOREM OneCall ==
  ASSUME \A a, b \in Clients : a = b
  PROVE  Spec => []OneCallPerFrame
<1>1. IndInv => OneCallPerFrame
    BY DEF IndInv, RecOK, OneCallPerFrame
<1> QED BY <1>1, SessionInvariance, PTL

(* ... and each was exposed with the film table its invocation was given   *)
(* or read, whatever the scratch slot held before (FrameHasItsTable).      *)
THEOREM ItsTable ==
  ASSUME \A a, b \in Clients : a = b
  PROVE  Spec => []FrameHasItsTable
<1>1. IndInv => FrameHasItsTable
    BY DEF IndInv, RecOK, FrameHasItsTable
<1> QED BY <1>1, SessionInvariance, PTL

(* ... an undisturbed exposure fails only on a recorder that was not clean *)
(* and leaves a clean one (RecorderRecovers).                              *)
THEOREM Recovery ==
  ASSUME \A a, b \in Clients : a = b
  PROVE  Spec => []RecorderRecovers
<1>1. IndInv => RecorderRecovers
    BY DEF IndInv, Safe, Recovers, RecorderRecovers
<1> QED BY <1>1, SessionInvariance, PTL

(* ... a list of the slots that was completed says what is in them         *)
(* (ListingIsTrue), for any number of slots.                               *)
THEOREM Listing ==
  ASSUME \A a, b \in Clients : a = b
  PROVE  Spec => ListingIsTrue
<1> DEFINE Complete(c) ==
      client[c].job.op = "slots" /\ client[c].pc # "idle"
        /\ client'[c].pc = "idle" /\ client'[c].result = "done"
      => \A s \in Slots :
           client'[c].listing[s] = [name |-> rec'.slots[s], aspect |-> rec'.slots[s]]
<1>1. IndInv /\ [Next]_vars => [\A c \in Clients : Complete(c)]_vars
  <2> SUFFICES ASSUME IndInv, Next, NEW c \in Clients PROVE Complete(c)
      OBVIOUS
  <2>1. ASSUME NEW d \in Clients, Works(d) \/ Interrupt(d) PROVE Complete(c)
    <3>1. Kept(d) /\ RecOK(rec) /\ Safe(client[d], rec) /\ d = c
        BY <2>1, WorksLemma DEF IndInv
    <3> QED BY <3>1 DEF Kept, Told, Row
  <2>2. ASSUME NEW d \in Clients, Begin(d) PROVE Complete(c)
      BY <2>2, BeginSafe
  <2>3. ASSUME Calibrate \/ Quiet PROVE Complete(c)
      BY <2>3 DEF Calibrate, Quiet, vars
  <2>4. ASSUME PowerCycle PROVE Complete(c)
      BY <2>4, PowerCycleLemma DEF IndInv
  <2> QED BY <2>1, <2>2, <2>3, <2>4 DEF Next
<1> QED BY <1>1, SessionInvariance, PTL DEF Spec, ListingIsTrue

(* ... and no other table than the one whose name was shown is replaced    *)
(* without --force, if every table has a name (NoSilentOverwrite).         *)
THEOREM Overwriting ==
  ASSUME \A a, b \in Clients : a = b, Blank = {}
  PROVE  Spec => NoSilentOverwrite
<1> DEFINE Agreed(c) ==
      LET m == client[c]
      IN  /\ Upload(c) /\ m.job.op = "install" /\ ~m.job.force
          /\ rec.slots[m.at] # None /\ rec'.slots[m.at] # rec.slots[m.at]
          => m.agreed /\ m.name = rec.slots[m.at]
<1>1. IndInv => [\A c \in Clients : Agreed(c)]_vars
  <2> SUFFICES ASSUME IndInv, NEW c \in Clients, Upload(c),
                      client[c].job.op = "install", ~client[c].job.force,
                      rec.slots[client[c].at] # None,
                      rec'.slots[client[c].at] # rec.slots[client[c].at]
               PROVE  client[c].agreed /\ client[c].name = rec.slots[client[c].at]
      OBVIOUS
  <2> DEFINE m == client[c]
             d == [rec EXCEPT !.slots[m.at] = m.table]
  <2>1. m.pc = "upload" /\ Shown(m, rec) /\ rec \in Recorders
      BY DEF Upload, IndInv, Safe, Typed, TypeOK
  <2>2. PICK good \in BOOLEAN : \E r \in Replies(good, d) : rec' = r.rec
      BY DEF Upload
  <2>3. PICK r \in Replies(good, d) : rec' = r.rec
      BY <2>2
  <2>4. ~rec.attention
    <3>1. ASSUME rec.attention
          PROVE  r.rec \in {rec, [rec EXCEPT !.attention = FALSE]}
        BY <3>1 DEF Replies
    <3>2. ASSUME rec.attention PROVE rec'.slots = rec.slots
        BY <2>1, <2>3, <3>1, <3>2, ClearedLemma
    <3> QED BY <3>2
  <2> QED BY <2>1, <2>4 DEF Shown
<1> QED BY <1>1, SessionInvariance, PTL DEF NoSilentOverwrite

-----------------------------------------------------------------------------
(* One client writes and the others only look (pp8k status, pp8k slots).   *)
(* There is no power cycle: after one, a command of the others may take    *)
(* the Unit Attention by which the writer would have learnt of it.         *)
Looks == {"status", "slots"}
OthersLook(w) == \A c \in Clients \ {w} : client[c].job.op \in Looks

WriterInv(w) ==
  Typed /\ ~rec.attention /\ RecOK(rec) /\ Safe(client[w], rec)

LEMMA NoAttention ==
  ASSUME rec \in Recorders, ~rec.attention, NEW accepts \in BOOLEAN, NEW d,
         ~d.attention, NEW r \in Replies(accepts, d)
  PROVE  ~r.rec.attention /\ (d = rec => r.rec = rec)
BY DEF Replies

(* No command brings a Unit Attention about.                               *)
LEMMA WorkNoAttention ==
  ASSUME Typed, ~rec.attention, NEW c \in Clients, Works(c) \/ Interrupt(c)
  PROVE  ~rec'.attention
<1> DEFINE m == client[c]
<1>1. rec \in Recorders /\ m \in ClientStates
    BY TypedFacts
<1>2. ASSUME NEW accepts \in BOOLEAN, NEW d, ~d.attention,
             \E r \in Replies(accepts, d) : rec' = r.rec
      PROVE  ~rec'.attention
    BY <1>1, <1>2, NoAttention
<1>3. ASSUME rec' = rec PROVE ~rec'.attention
    BY <1>3
<1>4. CASE Inquiry(c) \/ Ask(c) \/ Convert(c) \/ Interrupt(c)
    BY <1>3, <1>4 DEF Inquiry, Ask, Convert, Interrupt
<1>5. CASE TestUnitReady(c)
  <2>1. PICK ready \in {TRUE, rec.phase # "calibrating"} :
          \E r \in Replies(ready, rec) : rec' = r.rec
      BY <1>5 DEF TestUnitReady
  <2>2. ready \in BOOLEAN
      BY <2>1
  <2> QED BY <1>2, <2>1, <2>2
<1>6. CASE ModeSense(c) \/ Poll(c)
  <2>1. \E r \in Replies(TRUE, rec) : rec' = r.rec
      BY <1>6 DEF ModeSense, Poll
  <2> QED BY <1>2, <2>1
<1>7. CASE Reset(c)
  <2>1. PICK slots \in {rec.slots, PowerOn.slots} :
          \E r \in Replies(TRUE, [PowerOn EXCEPT !.slots = slots]) : rec' = r.rec
      BY <1>7 DEF Reset
  <2>2. ~[PowerOn EXCEPT !.slots = slots].attention
      BY DEF PowerOn
  <2> QED BY <1>2, <2>1, <2>2
<1>8. CASE FilmName(c) \/ FilmAspect(c)
  <2>1. \E r \in Replies(rec.slots[m.at] # None, rec) : rec' = r.rec
      BY <1>8 DEF FilmName, FilmAspect
  <2>2. (rec.slots[m.at] # None) \in BOOLEAN
      BY Zenon
  <2> HIDE DEF m
  <2> QED BY <1>2, <2>1, <2>2
<1>9. CASE Upload(c)
  <2> DEFINE d == [rec EXCEPT !.slots[m.at] = m.table]
  <2>1. PICK good \in BOOLEAN : \E r \in Replies(good, d) : rec' = r.rec
      BY <1>9 DEF Upload
  <2>2. ~d.attention
      BY <1>1 DEF Recorders
  <2> HIDE DEF d
  <2> QED BY <1>2, <2>1, <2>2
<1>10. CASE ModeSelect(c)
  <2> DEFINE d == [rec EXCEPT !.mode = m.at]
  <2>1. PICK accepts \in {TRUE, rec.slots[m.at] # None} :
          \E r \in Replies(accepts, d) : rec' = r.rec
      BY <1>10 DEF ModeSelect
  <2>2. accepts \in BOOLEAN /\ ~d.attention
      BY <1>1, <2>1 DEF Recorders
  <2> HIDE DEF d
  <2> QED BY <1>2, <2>1, <2>2
<1>11. CASE StartExposure(c)
  <2>1. \E r \in Replies(rec.phase = "idle", Started) : rec' = r.rec
      BY <1>11 DEF StartExposure
  <2>2. ~Started.attention /\ (rec.phase = "idle") \in BOOLEAN
      BY <1>1 DEF Started, Recorders
  <2> QED BY <1>2, <2>1, <2>2
<1>12. CASE PrintLine(c)
  <2> DEFINE d == LineBy(m)
  <2>1. \E r \in Replies(rec.phase \in Lit, d) : rec' = r.rec
      BY <1>12 DEF PrintLine
  <2>2. ~d.attention /\ (rec.phase \in Lit) \in BOOLEAN
      BY <1>1 DEF LineBy, Recorders
  <2> HIDE DEF d
  <2> QED BY <1>2, <2>1, <2>2
<1>13. CASE Terminate(c) \/ TerminateStopped(c)
  <2>1. \E r \in Replies(rec.phase # "idle", Advanced) : rec' = r.rec
      BY <1>13 DEF Terminate, TerminateStopped
  <2>2. ~Advanced.attention /\ (rec.phase # "idle") \in BOOLEAN
      BY <1>1, AdvancedFacts
  <2> QED BY <1>2, <2>1, <2>2
<1>14. CASE StopPrint(c)
  <2> DEFINE d == [rec EXCEPT !.phase = IF @ \in Lit THEN "stopped" ELSE @]
  <2>1. \E r \in Replies(TRUE, d) : rec' = r.rec
      BY <1>14 DEF StopPrint
  <2>2. ~d.attention
      BY <1>1 DEF Recorders
  <2> HIDE DEF d
  <2> QED BY <1>2, <2>1, <2>2
<1> QED BY <1>4, <1>5, <1>6, <1>7, <1>8, <1>9, <1>10, <1>11, <1>12, <1>13, <1>14
        DEF Works

(* A client that looks leaves the recorder and the other clients alone.    *)
LEMMA LookLemma ==
  ASSUME Typed, ~rec.attention, NEW c \in Clients, Works(c) \/ Interrupt(c),
         client[c].job.op \in Looks
  PROVE  rec' = rec /\ \A d \in Clients \ {c} : client'[d] = client[d]
<1> DEFINE m == client[c]
<1>1. rec \in Recorders /\ m \in ClientStates /\ Where(m) /\ m.job.op \in Looks
      /\ client \in [Clients -> ClientStates]
    BY TypedFacts DEF Typed, TypeOK
<1>2. m.pc \in {"idle", "inquiry", "test_unit_ready", "mode_sense", "name", "aspect"}
    BY <1>1 DEF Where, Looks, Exposes, ClientStates, Commands
<1>3. ASSUME NEW accepts \in BOOLEAN, \E r \in Replies(accepts, rec) : rec' = r.rec
      PROVE  rec' = rec
    BY <1>1, <1>3, NoAttention
<1>4. ASSUME NEW out, NEW n, Becomes(c, out, n)
      PROVE  \A d \in Clients \ {c} : client'[d] = client[d]
    BY <1>1, <1>4 DEF Becomes
<1>5. CASE Inquiry(c)
  <2>1. rec' = rec /\ \E out \in {"ok"} \cup Faults : \E n \in {
          IF out = "ok" THEN Goes(client[c], "test_unit_ready")
          ELSE Over(client[c], "raised")} : Becomes(c, out, n)
      BY <1>5 DEF Inquiry
  <2> QED BY <1>4, <2>1
<1>6. CASE TestUnitReady(c)
  <2>1. PICK ready \in {TRUE, rec.phase # "calibrating"} : \E r \in Replies(ready, rec) :
          /\ rec' = r.rec
          /\ Becomes(c, r.out,
               CASE r.out = "ok" -> Goes(client[c], AfterOpen[client[c].job.op])
                 [] r.out \in SCSIErrors -> Over(client[c], "notready")
                 [] OTHER -> Over(client[c], "raised"))
      BY <1>6 DEF TestUnitReady
  <2>2. ready \in BOOLEAN
      BY <2>1
  <2> QED BY <1>3, <1>4, <2>1, <2>2
<1>7. CASE ModeSense(c)
    BY <1>3, <1>4, <1>7 DEF ModeSense
<1>8. CASE FilmName(c) \/ FilmAspect(c)
  <2>1. /\ \E r \in Replies(rec.slots[m.at] # None, rec) : rec' = r.rec
        /\ (rec.slots[m.at] # None) \in BOOLEAN
      BY <1>8 DEF FilmName, FilmAspect
  <2>2. \E out, n : Becomes(c, out, n)
      BY <1>8 DEF FilmName, FilmAspect
  <2> HIDE DEF m
  <2> QED BY <1>3, <1>4, <2>1, <2>2
<1>9. CASE Interrupt(c)
    BY <1>1, <1>9 DEF Interrupt
<1>10. Inquiry(c) \/ TestUnitReady(c) \/ ModeSense(c) \/ FilmName(c) \/ FilmAspect(c)
       \/ Interrupt(c)
    BY <1>2 DEF Works, Reset, Ask, Convert, Upload, ModeSelect, StartExposure, Poll,
                PrintLine, Terminate, StopPrint, TerminateStopped
<1> QED BY <1>5, <1>6, <1>7, <1>8, <1>9, <1>10

(* An invocation begins: the writer's own, or one beside it.               *)
LEMMA WriterBegin ==
  ASSUME NEW w \in Clients, WriterInv(w), NEW c \in Clients, Begin(c)
  PROVE  WriterInv(w)'
<1>0. Typed /\ ~rec.attention /\ RecOK(rec) /\ Safe(client[w], rec)
    BY DEF WriterInv
<1>1. PICK j \in Jobs :
        LET alone == \A d \in Clients \ {c} : client[d].pc = "idle"
        IN  client' = [d \in Clients |->
                        IF d = c THEN Invocation(j, calls + 1, ~Clean(rec), alone)
                        ELSE [client[d] EXCEPT !.alone = FALSE]]
    BY DEF Begin
<1> DEFINE alone == \A d \in Clients \ {c} : client[d].pc = "idle"
           stale == ~Clean(rec)
           m == Invocation(j, calls + 1, stale, alone)
<1>2. rec' = rec /\ calls + 1 \in Nat /\ rec \in Recorders
    BY <1>0, SessionAssumption DEF Begin, Typed, TypeOK
<1>3. stale \in BOOLEAN /\ alone \in BOOLEAN
    BY Zenon
<1>4. client' = [d \in Clients |-> IF d = c THEN m ELSE [client[d] EXCEPT !.alone = FALSE]]
    BY <1>1
<1>5. Safe(m, rec)
  <2>1. stale = ~Clean(rec)
      OBVIOUS
  <2> HIDE DEF alone, stale
  <2> QED BY <1>2, <1>3, <2>1, InvocationLemma, ZenonT(60)
<1> HIDE DEF m
<1>6. ASSUME w # c PROVE Safe(client'[w], rec)
  <2>1. client[w] \in ClientStates /\ "os" \in Exceptions
      BY <1>0, TypedFacts DEF Exceptions
  <2>2. client'[w] = After(client[w], "os")
      BY <1>4, <1>6, <2>1 DEF After
  <2>3. Safe(After(client[w], "os"), rec)
      BY <1>0, <2>1, SafeAfter DEF Safe
  <2> QED BY <2>2, <2>3
<1>7. Safe(client'[w], rec)
    BY <1>4, <1>5, <1>6
<1>8. Typed'
    BY <1>0, BeginTyped
<1> QED BY <1>0, <1>2, <1>7, <1>8 DEF WriterInv

LEMMA WriterNext ==
  ASSUME NEW w \in Clients, MaxPowerCycles = 0
  PROVE  WriterInv(w) /\ OthersLook(w) /\ [Next]_vars => WriterInv(w)'
<1> SUFFICES ASSUME WriterInv(w), OthersLook(w), [Next]_vars PROVE WriterInv(w)'
    OBVIOUS
<1>0. Typed /\ ~rec.attention /\ RecOK(rec) /\ Safe(client[w], rec)
    BY DEF WriterInv
<1>1. ASSUME NEW c \in Clients, Works(c) \/ Interrupt(c) PROVE WriterInv(w)'
  <2>1. Kept(c) /\ ~rec'.attention
      BY <1>0, <1>1, WorksLemma, WorkNoAttention
  <2>2. CASE c = w
      BY <1>0, <2>1, <2>2 DEF Kept, WriterInv
  <2>3. CASE c # w
    <3>1. rec' = rec /\ client'[w] = client[w]
        BY <1>0, <1>1, <2>3, LookLemma DEF OthersLook
    <3> QED BY <1>0, <2>1, <3>1 DEF Kept, WriterInv
  <2> QED BY <2>2, <2>3
<1>2. ASSUME Calibrate PROVE WriterInv(w)'
  <2>1. rec'.attention = rec.attention
      BY <1>0, <1>2 DEF Calibrate, Typed, TypeOK, Recorders
  <2> QED BY <1>0, <1>2, <2>1, CalibrateLemma DEF WriterInv
<1>3. ~PowerCycle
    BY <1>0 DEF PowerCycle, Typed, TypeOK
<1>4. ASSUME UNCHANGED vars PROVE WriterInv(w)'
    BY <1>0, <1>4 DEF vars, WriterInv, Typed, TypeOK
<1> QED BY <1>1, <1>2, <1>3, <1>4, WriterBegin DEF Next, Quiet

LEMMA WriterInvariance ==
  ASSUME NEW w \in Clients, MaxPowerCycles = 0
  PROVE  Spec /\ []OthersLook(w) => []WriterInv(w)
<1>1. Init => WriterInv(w)
  <2>1. Init => ~rec.attention
      BY DEF Init, PowerOn
  <2> QED BY <2>1, IndInit DEF IndInv, WriterInv
<1> QED BY <1>1, WriterNext, PTL DEF Spec

(* Any number of clients of which one writes: its frames have one call     *)
(* and its table, and its undisturbed exposures end as with one client     *)
(* (OneCallPerFrame, FrameHasItsTable, RecorderRecovers).                  *)
THEOREM LookingOn ==
  ASSUME NEW w \in Clients, MaxPowerCycles = 0
  PROVE  Spec /\ []OthersLook(w)
           => [](OneCallPerFrame /\ FrameHasItsTable /\ RecorderRecovers)
<1>1. WriterInv(w) => OneCallPerFrame /\ FrameHasItsTable
    BY DEF WriterInv, RecOK, OneCallPerFrame, FrameHasItsTable
<1>2. WriterInv(w) /\ OthersLook(w) => RecorderRecovers
  <2> SUFFICES ASSUME WriterInv(w), OthersLook(w), NEW c \in Clients,
                      client[c].pc = "idle", client[c].alone,
                      client[c].job.op \in Exposes
               PROVE  /\ client[c].result \in {"complete", "error"} => Clean(rec)
                      /\ client[c].result \in {"error", "notready"} => client[c].stale
                      /\ client[c].result # "raised"
      BY DEF RecorderRecovers
  <2>1. c = w
      BY DEF OthersLook, Looks, Exposes
  <2> QED BY <2>1 DEF WriterInv, Safe, Recovers
<1> QED BY <1>1, <1>2, WriterInvariance, PTL
=============================================================================
