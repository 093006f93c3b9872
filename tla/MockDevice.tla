----------------------------- MODULE MockDevice -----------------------------
(***************************************************************************)
(* The mock backend (mock.py), as operators on its state.  Time is in      *)
(* ticks, of which it drains a kilobyte every TicksPerKB, but only when it *)
(* is asked for its status; since is the time that has passed since then.  *)
(***************************************************************************)
EXTENDS Integers, FiniteSetsExt

CONSTANTS
  HARDWARE_BUFFER_KB,
  TicksPerKB,   \* 2000 KB drain in a second
  Slots         \* film-table slots in use

LineKB == 4

ASSUME MockAssumption ==
  HARDWARE_BUFFER_KB \in Nat /\ TicksPerKB \in Nat \ {0}

(* aspects: a slot's aspect ratio, <<0, 0>> if it is empty.                *)
Empty == <<0, 0>>
NewMock ==
  [state |-> 0, free |-> HARDWARE_BUFFER_KB, since |-> 0, line |-> 0,
   film |-> 4, vres |-> 2730,
   aspects |-> [s \in Slots |-> IF s \in {4, 5} THEN <<3, 2>> ELSE Empty]]

ModeSelect(d, film, vres) == [d EXCEPT !.film = film, !.vres = vres]
StartExposure(d) ==
  [d EXCEPT !.state = 1, !.free = HARDWARE_BUFFER_KB, !.line = 0, !.since = 0]

(* time.sleep and everything else that takes time.                         *)
Later(d, ticks) == [d EXCEPT !.since = @ + ticks]

PrintLine(d, line) == [d EXCEPT !.line = line, !.free = Max({0, @ - LineKB})]

(* Mutant: _last_drain is not moved on.                                    *)
CurrentStatusAgain(d) ==
  [d EXCEPT !.free = Min({HARDWARE_BUFFER_KB, @ + d.since \div TicksPerKB})]

(* Whole kilobytes drain; what is left of since is forgotten.              *)
CurrentStatus(d) ==
  [d EXCEPT !.free = Min({HARDWARE_BUFFER_KB, @ + d.since \div TicksPerKB}),
            !.since = 0]

Stop(d) == [d EXCEPT !.state = 0]
Reset(d) == [Stop(d) EXCEPT !.free = HARDWARE_BUFFER_KB, !.line = 0]
UploadFilmTable(d, slot) == [d EXCEPT !.aspects[slot] = <<3, 2>>]
=============================================================================
