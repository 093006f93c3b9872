-------------------------------- MODULE Call --------------------------------
(***************************************************************************)
(* What the driver relies on when it gives a command to the transport      *)
(* (Transport.execute): the recorder carries it out at most once, between  *)
(* the call and its end; a call that returns was carried out; a call that  *)
(* says the recorder refused was not.  After any other exception nothing   *)
(* is known.  Exposure and Session take this for granted (Outcomes,        *)
(* Replies); Transport is how it comes about.                              *)
(***************************************************************************)
CONSTANT Callers

VARIABLES
  stage,   \* what has become of each caller's command
  last     \* how each caller's last call ended

Stages == {"idle", "sent", "done", "refused"}
Ends   == {"none", "returned", "refused", "failed"}

Init ==
  /\ stage = [c \in Callers |-> "idle"]
  /\ last = [c \in Callers |-> "none"]

Moves(c, from, to) ==
  /\ stage[c] = from /\ stage' = [stage EXCEPT ![c] = to]
  /\ UNCHANGED last

Send(c)     == Moves(c, "idle", "sent")
CarryOut(c) == Moves(c, "sent", "done")
Refuse(c)   == Moves(c, "sent", "refused")

End(c) ==
  /\ stage[c] # "idle"
  /\ stage' = [stage EXCEPT ![c] = "idle"]
  /\ \E e \in {"failed"} \cup (IF stage[c] = "done" THEN {"returned"} ELSE {})
                         \cup (IF stage[c] = "refused" THEN {"refused"} ELSE {}) :
       last' = [last EXCEPT ![c] = e]

Next == \E c \in Callers : Send(c) \/ CarryOut(c) \/ Refuse(c) \/ End(c)

Spec == Init /\ [][Next]_<<stage, last>>
=============================================================================
