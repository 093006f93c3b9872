------------------------------ MODULE MCCipher ------------------------------
EXTENDS Cipher

(* Messages of up to two bytes, and one long enough for the keys to differ *)
(* in every bit.                                                           *)
MCBytes == {ToBits(k) : k \in {0, 91, 144, 255}}
MCMessages == {<< >>} \cup [1..1 -> MCBytes] \cup [1..2 -> MCBytes]
              \cup {<<ToBits(8), ToBits(96), ToBits(6), ToBits(129)>>}
MCShort == {<<ToBits(91), ToBits(144)>>}
=============================================================================
