------------------------------- MODULE Cipher -------------------------------
(***************************************************************************)
(* The stream cipher of .FLM files (_FilmTableCrypto in flm.py).  All      *)
(* calls of load_flm and serialize_flm in a process use the one object     *)
(* _crypto, whose _keystream is the position in the key stream.  A thread  *)
(* may lose the processor between any two accesses to it.                  *)
(***************************************************************************)
EXTENDS Integers, Sequences

CONSTANTS Threads,
          Messages    \* what a thread may give to the cipher

Positions == 0..7
Bits == [Positions -> BOOLEAN]

ASSUME MessagesAssumption == Messages \subseteq Seq(Bits)

(* The bits of an integer, lowest first.                                   *)
ToBits(k) == [p \in Positions |-> (k \div 2^p) % 2 = 1]

Xor(a, b) == [p \in Positions |-> a[p] # b[p]]

(* Mutant: bit 4 is not moved to bit 3.                                    *)
BitpermLossy(b) ==
  [p \in Positions |->
    CASE p \in {0, 7}    -> b[7 - p]
      [] p \in {1, 2, 3} -> b[p]
      [] p = 4           -> b[3]
      [] p \in {5, 6}    -> b[p] # b[p - 4]]

Bitperm(b) ==
  [p \in Positions |->
    CASE p \in {0, 3, 4, 7} -> b[7 - p]
      [] p \in {1, 2}       -> b[p]
      [] p \in {5, 6}       -> b[p] # b[p - 4]]

DecryptByte(key, b) == Bitperm(Xor(ToBits(key), b))
EncryptByte(key, b) == Xor(ToBits(key), Bitperm(b))

Seed == 53  \* 0x35

(* Mutant: the step without its `& 0xFF`.                                  *)
NextKeyWide(k) == 13 * k + 7

NextKey(k) == (13 * k + 7) % 256

Operations == {"encrypt", "decrypt"}
Other == [encrypt |-> "decrypt", decrypt |-> "encrypt"]

VARIABLES
  keystream,  \* _crypto._keystream
  pc,         \* of each thread: "start", "key", "advance", "store", "done"
  op,         \* the call it is in
  first,      \* is this the first of its two calls?
  msg,        \* what it started from
  data, out,  \* argument and result so far of the call
  x, read     \* the key taken, and what _next_key computes the next one from

vars == <<keystream, pc, op, first, msg, data, out, x, read>>

Keys == 0..255
TypeOK ==
  /\ keystream \in Keys
  /\ pc \in [Threads -> {"start", "key", "advance", "store", "done"}]
  /\ op \in [Threads -> Operations] /\ first \in [Threads -> BOOLEAN]
  /\ msg \in [Threads -> Messages]
  /\ data \in [Threads -> Seq(Bits)] /\ out \in [Threads -> Seq(Bits)]
  /\ x \in [Threads -> Keys] /\ read \in [Threads -> Keys]

(* Each thread is about to encrypt or decrypt a message, and then to turn  *)
(* the result back; earlier calls have left the key stream anywhere.       *)
Init ==
  /\ keystream \in {Seed, NextKey(Seed)}
  /\ pc = [t \in Threads |-> "start"]
  /\ op \in [Threads -> Operations]
  /\ first = [t \in Threads |-> TRUE]
  /\ msg \in [Threads -> Messages] /\ data = msg
  /\ out = [t \in Threads |-> << >>]
  /\ x = [t \in Threads |-> Seed] /\ read = x

(* Where the generator of a call goes when it has produced n bytes.        *)
Continue(t, n) ==
  IF n < Len(data[t])
  THEN /\ pc' = [pc EXCEPT ![t] = "key"]
       /\ UNCHANGED <<op, first, data>>
  ELSE IF first[t]
  THEN /\ pc' = [pc EXCEPT ![t] = "start"]
       /\ op' = [op EXCEPT ![t] = Other[@]]
       /\ first' = [first EXCEPT ![t] = FALSE]
       /\ data' = [data EXCEPT ![t] = out'[t]]
  ELSE /\ pc' = [pc EXCEPT ![t] = "done"]
       /\ UNCHANGED <<op, first, data>>

(* Mutant: a call that goes on where the key stream is.                    *)
NotReset(t) ==
  /\ pc[t] = "start"
  /\ out' = [out EXCEPT ![t] = << >>]
  /\ Continue(t, 0)
  /\ UNCHANGED <<keystream, msg, x, read>>

Reset(t) ==
  /\ pc[t] = "start"
  /\ keystream' = Seed
  /\ out' = [out EXCEPT ![t] = << >>]
  /\ Continue(t, 0)
  /\ UNCHANGED <<msg, x, read>>

(* _next_key: x = self._keystream; then self._keystream is read again, and *)
(* assigned.                                                               *)
TakeKey(t) ==
  /\ pc[t] = "key"
  /\ x' = [x EXCEPT ![t] = keystream]
  /\ pc' = [pc EXCEPT ![t] = "advance"]
  /\ UNCHANGED <<keystream, op, first, msg, data, out, read>>

ReadAgain(t) ==
  /\ pc[t] = "advance"
  /\ read' = [read EXCEPT ![t] = keystream]
  /\ pc' = [pc EXCEPT ![t] = "store"]
  /\ UNCHANGED <<keystream, op, first, msg, data, out, x>>

Produce(t) ==
  LET b == data[t][Len(out[t]) + 1]
  IN  /\ pc[t] = "store"
      /\ keystream' = NextKey(read[t])
      /\ out' = [out EXCEPT ![t] = Append(@, IF op[t] = "encrypt"
                                             THEN EncryptByte(x[t], b)
                                             ELSE DecryptByte(x[t], b))]
      /\ Continue(t, Len(out[t]) + 1)
      /\ UNCHANGED <<msg, x, read>>

Step(t) == Reset(t) \/ TakeKey(t) \/ ReadAgain(t) \/ Produce(t)

Next == \E t \in Threads : Step(t)

Spec == Init /\ [][Next]_vars
-----------------------------------------------------------------------------
(* encrypt is the inverse of decrypt, on either side, wherever earlier     *)
(* calls left the key stream.  It needs one thread at a time.              *)
RoundTrip == \A t \in Threads : pc[t] = "done" => out[t] = msg[t]

(* Both calls of a thread go through the same keys from the seed on, each  *)
(* byte with one of its own.                                               *)
Key[n \in Nat] == IF n = 0 THEN Seed ELSE NextKey(Key[n - 1])
OwnKeys ==
  \A t \in Threads :
    /\ pc[t] = "key" => keystream = Key[Len(out[t])]
    /\ pc[t] \in {"advance", "store"} => x[t] = Key[Len(out[t])]
=============================================================================
