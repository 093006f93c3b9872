-------------------------------- MODULE Frame --------------------------------
(***************************************************************************)
(* What a caller of run_exposure relies on, without commands, polls or     *)
(* bursts: one frame of film is opened, lit line by line and channel by    *)
(* channel, and either advanced or lost; and the verdict "complete" is     *)
(* given only for a frame that was lit in full.                            *)
(***************************************************************************)
EXTENDS Integers, Sequences

CONSTANTS Height,      \* scanlines of a channel
          Colors,      \* the filters of the wheel
          Orders       \* the sequences of channels a frame may ask for

VARIABLES order,       \* the channels of this frame
          open,        \* the shutter of the recorder is in use
          lit,         \* scanlines of each channel on the frame in the gate
          film,        \* frames advanced: what was lit of each
          verdict

vars == <<order, open, lit, film, verdict>>

Dark == [c \in Colors |-> 0]
InFull == [c \in Colors |->
             IF \E p \in 1..Len(order) : order[p] = c THEN Height ELSE 0]

Init ==
  /\ order \in Orders
  /\ open = FALSE /\ lit = Dark /\ film = << >> /\ verdict = "none"

Open ==
  /\ ~open /\ film = << >> /\ verdict = "none"
  /\ open' = TRUE /\ lit' = Dark
  /\ UNCHANGED <<order, film, verdict>>

(* The next line of a channel, all those before it in the order being full. *)
Light(p) ==
  /\ open /\ verdict = "none"
  /\ lit[order[p]] < Height
  /\ \A q \in 1..p - 1 : lit[order[q]] = Height
  /\ lit' = [lit EXCEPT ![order[p]] = @ + 1]
  /\ UNCHANGED <<order, open, film, verdict>>

Advance ==
  /\ open
  /\ open' = FALSE /\ lit' = Dark /\ film' = Append(film, lit)
  /\ UNCHANGED <<order, verdict>>

(* Power lost: the frame stays in the gate, half lit.                      *)
Lose ==
  /\ open' = FALSE /\ lit' = Dark
  /\ UNCHANGED <<order, film, verdict>>

Tell(v) ==
  /\ verdict = "none"
  /\ v = "complete" => film = <<InFull>>
  /\ verdict' = v
  /\ UNCHANGED <<order, open, lit, film>>

(* A listener that fails on hearing "complete" is told of its own failure, *)
(* or, if it failed with ExposureAbortedError, that the call is aborted.   *)
Correct ==
  /\ verdict = "complete" /\ verdict' \in {"aborted", "error"}
  /\ UNCHANGED <<order, open, lit, film>>

Next ==
  \/ Open \/ Advance \/ Lose \/ Correct
  \/ \E p \in 1..Len(order) : Light(p)
  \/ \E v \in {"complete", "aborted", "error"} : Tell(v)

Spec == Init /\ [][Next]_vars
-----------------------------------------------------------------------------
(* Channels come in their order, each in full before the next.             *)
InTurn(frame) ==
  \A p \in 1..Len(order), q \in 1..Len(order) :
    q < p /\ frame[order[p]] > 0 => frame[order[q]] = Height

(* What follows for the caller: a call uses up one frame of film at most,  *)
(* and none but the one it says is complete when it says so; no channel is *)
(* lit before its turn, nor on a frame that has left the gate.             *)
Promise ==
  /\ Len(film) =< 1
  /\ film # << >> => ~open
  /\ verdict = "complete" => film = <<InFull>>
  /\ InTurn(lit) /\ \A n \in 1..Len(film) : InTurn(film[n])
=============================================================================
