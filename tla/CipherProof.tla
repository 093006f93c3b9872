---------------------------- MODULE CipherProof -----------------------------
(***************************************************************************)
(* Theorems about the cipher, for every byte and every key, and about the  *)
(* calls of encrypt and decrypt, for messages of every length.             *)
(***************************************************************************)
EXTENDS Cipher, FiniteSets, FiniteSetTheorems, WellFoundedInduction, TLAPS

LEMMA BitpermType == \A b \in Bits : Bitperm(b) \in Bits
<1> SUFFICES ASSUME NEW b \in Bits, NEW p \in Positions
             PROVE  Bitperm(b)[p] \in BOOLEAN
  BY DEF Bitperm, Bits
<1>1. p \in {0, 3, 4, 7} \/ p \in {1, 2} \/ p \in {5, 6}
  BY DEF Positions
<1>2. 7 - p \in Positions
  BY DEF Positions
<1>3. b[p] \in BOOLEAN /\ b[7 - p] \in BOOLEAN
  BY <1>2 DEF Bits
<1>4. QED
  BY <1>1, <1>3 DEF Bitperm

(* The bit permutation undoes itself: the swaps do, and bits 1 and 2 that  *)
(* are added to 5 and 6 stay where they are (flm.py 135-147).              *)
THEOREM BitpermInvolution == \A b \in Bits : Bitperm(Bitperm(b)) = b
<1> SUFFICES ASSUME NEW b \in Bits
             PROVE  Bitperm(Bitperm(b)) = b
  OBVIOUS
<1> DEFINE c == Bitperm(b)
<1>1. c \in Bits /\ Bitperm(c) \in Bits
  BY BitpermType
<1>2. ASSUME NEW p \in {0, 3, 4, 7}
      PROVE  Bitperm(c)[p] = b[p]
  <2>1. p \in Positions /\ 7 - p \in {0, 3, 4, 7} /\ 7 - p \in Positions
        /\ 7 - (7 - p) = p
    BY DEF Positions
  <2>2. Bitperm(c)[p] = c[7 - p]
    BY <2>1 DEF Bitperm
  <2>3. c[7 - p] = b[7 - (7 - p)]
    BY <2>1 DEF Bitperm
  <2>4. QED
    BY <2>1, <2>2, <2>3
<1>3. ASSUME NEW p \in {1, 2}
      PROVE  Bitperm(c)[p] = b[p] /\ c[p] = b[p]
  BY DEF Bitperm, Positions
<1>4. ASSUME NEW p \in {5, 6}
      PROVE  Bitperm(c)[p] = b[p]
  <2>1. p \in Positions /\ p - 4 \in {1, 2} /\ p - 4 \in Positions
    BY DEF Positions
  <2>2. c[p] = (b[p] # b[p - 4])
    BY <2>1 DEF Bitperm
  <2>3. Bitperm(c)[p] = (c[p] # c[p - 4])
    BY <2>1 DEF Bitperm
  <2>4. c[p - 4] = b[p - 4]
    BY <1>3, <2>1
  <2>5. b[p] \in BOOLEAN /\ b[p - 4] \in BOOLEAN
    BY <2>1 DEF Bits
  <2>6. QED
    BY <2>2, <2>3, <2>4, <2>5
<1>5. \A p \in Positions : Bitperm(c)[p] = b[p]
  <2>1. \A p \in Positions : p \in {0, 3, 4, 7} \/ p \in {1, 2} \/ p \in {5, 6}
    BY DEF Positions
  <2>2. QED
    BY <1>2, <1>3, <1>4, <2>1
<1>6. QED
  BY <1>1, <1>5 DEF Bits

LEMMA XorFacts ==
  ASSUME NEW a \in Bits, NEW b \in Bits
  PROVE  Xor(a, b) \in Bits /\ Xor(a, Xor(a, b)) = b
<1>1. Xor(a, b) \in Bits
  BY DEF Xor, Bits
<1>2. Xor(a, Xor(a, b)) \in Bits
  BY <1>1 DEF Xor, Bits
<1>3. ASSUME NEW p \in Positions
      PROVE  Xor(a, Xor(a, b))[p] = b[p]
  <2>1. a[p] \in BOOLEAN /\ b[p] \in BOOLEAN
    BY DEF Bits
  <2>2. Xor(a, Xor(a, b))[p] = (a[p] # (a[p] # b[p]))
    BY DEF Xor
  <2>3. QED
    BY <2>1, <2>2
<1>4. QED
  BY <1>1, <1>2, <1>3 DEF Bits

(* With the same key, decrypting undoes encrypting and the other way       *)
(* round, for every byte: the two calls differ in the order of their steps *)
(* only (flm.py 149-164).                                                  *)
THEOREM ByteRoundTrip ==
  \A key \in Keys, b \in Bits : /\ DecryptByte(key, EncryptByte(key, b)) = b
                                /\ EncryptByte(key, DecryptByte(key, b)) = b
<1> SUFFICES ASSUME NEW key \in Keys, NEW b \in Bits
             PROVE  /\ DecryptByte(key, EncryptByte(key, b)) = b
                    /\ EncryptByte(key, DecryptByte(key, b)) = b
  OBVIOUS
<1> DEFINE k == ToBits(key)
<1>1. k \in Bits
  BY DEF ToBits, Bits
<1>2. Bitperm(b) \in Bits /\ Xor(k, b) \in Bits
  BY <1>1, BitpermType, XorFacts
<1>3. Xor(k, Xor(k, Bitperm(b))) = Bitperm(b) /\ Xor(k, Xor(k, b)) = b
  BY <1>1, <1>2, XorFacts
<1>4. Bitperm(Bitperm(b)) = b /\ Bitperm(Bitperm(Xor(k, b))) = Xor(k, b)
  BY <1>2, BitpermInvolution
<1>5. QED
  BY <1>3, <1>4 DEF DecryptByte, EncryptByte

-----------------------------------------------------------------------------
(* The calls.  What a call makes of a byte with a key:                     *)
Crypt(o, k, b) == IF o = "encrypt" THEN EncryptByte(k, b) ELSE DecryptByte(k, b)

LEMMA CryptFacts ==
  ASSUME NEW o \in Operations, NEW k \in Keys, NEW b \in Bits
  PROVE  /\ Crypt(o, k, b) \in Bits
         /\ Other[o] \in Operations /\ Other[Other[o]] = o
         /\ Crypt(Other[o], k, Crypt(o, k, b)) = b
<1>1. ToBits(k) \in Bits
  BY DEF ToBits, Bits
<1>2. EncryptByte(k, b) \in Bits /\ DecryptByte(k, b) \in Bits
  BY <1>1, BitpermType, XorFacts DEF EncryptByte, DecryptByte
<1>3. /\ o \in {"encrypt", "decrypt"}
      /\ Other["encrypt"] = "decrypt" /\ Other["decrypt"] = "encrypt"
  BY DEF Operations, Other
<1>4. DecryptByte(k, EncryptByte(k, b)) = b /\ EncryptByte(k, DecryptByte(k, b)) = b
  BY ByteRoundTrip
<1> QED BY <1>2, <1>3, <1>4 DEF Crypt, Operations

LEMMA KeyFacts == Seed \in Keys /\ \A k \in Keys : NextKey(k) \in Keys
BY DEF Seed, Keys, NextKey

LEMMA AppendFacts ==
  ASSUME NEW s \in Seq(Bits), NEW e \in Bits
  PROVE  /\ Append(s, e) \in Seq(Bits) /\ Len(Append(s, e)) = Len(s) + 1
         /\ \A i \in 1..Len(s) : Append(s, e)[i] = s[i]
         /\ Append(s, e)[Len(s) + 1] = e
OBVIOUS

LEMMA SameBytes ==
  ASSUME NEW s \in Seq(Bits), NEW m \in Seq(Bits), Len(s) = Len(m),
         \A i \in 1..Len(s) : s[i] = m[i]
  PROVE  s = m
OBVIOUS

Working(t) == pc[t] \in {"key", "advance", "store"}

(* A call at work has a byte left to do.                                   *)
Typed == TypeOK /\ \A t \in Threads : Working(t) => Len(out[t]) < Len(data[t])

(* The three ways in which a call goes on, out' being a sequence.          *)
LEMMA ContinueCases ==
  ASSUME TypeOK, NEW t \in Threads, NEW n \in Nat, Continue(t, n)
  PROVE  \/ /\ n < Len(data[t])
            /\ pc' = [pc EXCEPT ![t] = "key"]
            /\ op' = op /\ first' = first /\ data' = data
         \/ /\ ~(n < Len(data[t])) /\ first[t]
            /\ pc' = [pc EXCEPT ![t] = "start"]
            /\ op' = [op EXCEPT ![t] = Other[@]]
            /\ first' = [first EXCEPT ![t] = FALSE]
            /\ data' = [data EXCEPT ![t] = out'[t]]
         \/ /\ ~(n < Len(data[t])) /\ ~first[t]
            /\ pc' = [pc EXCEPT ![t] = "done"]
            /\ op' = op /\ first' = first /\ data' = data
BY DEF Continue

LEMMA TypedInit == Init => Typed
<1> SUFFICES ASSUME Init PROVE Typed
  OBVIOUS
<1>1. /\ Seed \in Keys /\ NextKey(Seed) \in Keys /\ << >> \in Seq(Bits)
      /\ Messages \subseteq Seq(Bits)
  BY KeyFacts, MessagesAssumption
<1>2. TypeOK
  BY <1>1 DEF Init, TypeOK
<1>3. \A t \in Threads : ~Working(t)
  BY DEF Init, Working
<1> QED BY <1>2, <1>3 DEF Typed

(* A step that ends in Continue.                                           *)
LEMMA ContinueTyped ==
  ASSUME Typed, NEW t \in Threads, NEW o \in Seq(Bits), keystream' \in Keys,
         out' = [out EXCEPT ![t] = o], Continue(t, Len(o)),
         UNCHANGED <<msg, x, read>>
  PROVE  Typed'
<1>1. TypeOK /\ out' \in [Threads -> Seq(Bits)] /\ out'[t] = o /\ Len(o) \in Nat
  BY DEF Typed, TypeOK
<1>2. \A u \in Threads \ {t} : out'[u] = out[u]
  BY <1>1 DEF TypeOK
<1>3. \A q \in Operations : Other[q] \in Operations
  BY DEF Operations, Other
<1>4. CASE /\ Len(o) < Len(data[t])
           /\ pc' = [pc EXCEPT ![t] = "key"]
           /\ op' = op /\ first' = first /\ data' = data
  <2>1. TypeOK'
    BY <1>1, <1>4 DEF TypeOK
  <2>2. \A u \in Threads : Working(u)' => Len(out'[u]) < Len(data'[u])
    BY <1>1, <1>2, <1>4 DEF Typed, Working, TypeOK
  <2> QED BY <2>1, <2>2 DEF Typed
<1>5. CASE /\ pc' = [pc EXCEPT ![t] = "start"]
           /\ op' = [op EXCEPT ![t] = Other[@]]
           /\ first' = [first EXCEPT ![t] = FALSE]
           /\ data' = [data EXCEPT ![t] = out'[t]]
  <2>1. TypeOK'
    BY <1>1, <1>3, <1>5 DEF TypeOK
  <2>2. \A u \in Threads : Working(u)' => Len(out'[u]) < Len(data'[u])
    BY <1>1, <1>2, <1>5 DEF Typed, Working, TypeOK
  <2> QED BY <2>1, <2>2 DEF Typed
<1>6. CASE /\ pc' = [pc EXCEPT ![t] = "done"]
           /\ op' = op /\ first' = first /\ data' = data
  <2>1. TypeOK'
    BY <1>1, <1>6 DEF TypeOK
  <2>2. \A u \in Threads : Working(u)' => Len(out'[u]) < Len(data'[u])
    BY <1>1, <1>2, <1>6 DEF Typed, Working, TypeOK
  <2> QED BY <2>1, <2>2 DEF Typed
<1> QED BY <1>1, <1>4, <1>5, <1>6, ContinueCases

LEMMA ResetStep ==
  ASSUME NEW t \in Threads, Reset(t)
  PROVE  /\ keystream' = Seed /\ out' = [out EXCEPT ![t] = << >>]
         /\ Continue(t, Len(<< >>)) /\ UNCHANGED <<msg, x, read>>
         /\ << >> \in Seq(Bits) /\ Len(<< >>) = 0 /\ pc[t] = "start"
BY DEF Reset

LEMMA ProduceStep ==
  ASSUME Typed, NEW t \in Threads, Produce(t)
  PROVE  LET n == Len(out[t])
             e == Crypt(op[t], x[t], data[t][n + 1])
         IN  /\ keystream' = NextKey(read[t]) /\ pc[t] = "store"
             /\ out' = [out EXCEPT ![t] = Append(@, e)]
             /\ Continue(t, n + 1) /\ UNCHANGED <<msg, x, read>>
             /\ n \in Nat /\ n + 1 \in 1..Len(data[t]) /\ data[t][n + 1] \in Bits
             /\ e \in Bits /\ Append(out[t], e) \in Seq(Bits)
             /\ Len(Append(out[t], e)) = n + 1
<1> DEFINE n == Len(out[t])
           e == Crypt(op[t], x[t], data[t][n + 1])
<1>1. /\ keystream' = NextKey(read[t]) /\ pc[t] = "store"
      /\ out' = [out EXCEPT ![t] = Append(@, e)]
      /\ Continue(t, n + 1) /\ UNCHANGED <<msg, x, read>>
  BY DEF Produce, Crypt
<1>2. /\ out[t] \in Seq(Bits) /\ data[t] \in Seq(Bits)
      /\ op[t] \in Operations /\ x[t] \in Keys
  BY DEF Typed, TypeOK
<1>3. n < Len(data[t])
  BY <1>1 DEF Typed, Working
<1>4. n \in Nat /\ n + 1 \in 1..Len(data[t]) /\ data[t][n + 1] \in Bits
  BY <1>2, <1>3
<1>5. e \in Bits
  BY <1>2, <1>4, CryptFacts
<1> HIDE DEF e
<1>6. Append(out[t], e) \in Seq(Bits) /\ Len(Append(out[t], e)) = n + 1
  BY <1>2, <1>5, AppendFacts
<1> QED BY <1>1, <1>4, <1>5, <1>6 DEF e

LEMMA TypedNext == Typed /\ [Next]_vars => Typed'
<1> SUFFICES ASSUME Typed, [Next]_vars PROVE Typed'
  OBVIOUS
<1>1. ASSUME NEW t \in Threads, Reset(t) PROVE Typed'
  BY <1>1, ResetStep, ContinueTyped, KeyFacts
<1>2. ASSUME NEW t \in Threads, TakeKey(t) PROVE Typed'
  BY <1>2 DEF Typed, TypeOK, TakeKey, Working
<1>3. ASSUME NEW t \in Threads, ReadAgain(t) PROVE Typed'
  BY <1>3 DEF Typed, TypeOK, ReadAgain, Working
<1>4. ASSUME NEW t \in Threads, Produce(t) PROVE Typed'
  <2> DEFINE e == Crypt(op[t], x[t], data[t][Len(out[t]) + 1])
             o == Append(out[t], e)
  <2>1. /\ keystream' = NextKey(read[t]) /\ out' = [out EXCEPT ![t] = Append(@, e)]
        /\ o \in Seq(Bits) /\ Continue(t, Len(o)) /\ UNCHANGED <<msg, x, read>>
    BY <1>4, ProduceStep
  <2>2. keystream' \in Keys
    BY <2>1, KeyFacts DEF Typed, TypeOK
  <2>3. out' = [out EXCEPT ![t] = o]
    BY <2>1
  <2> HIDE DEF o
  <2> QED BY <2>1, <2>2, <2>3, ContinueTyped
<1>5. ASSUME UNCHANGED vars PROVE Typed'
  BY <1>5 DEF vars, Typed, TypeOK, Working
<1> QED BY <1>1, <1>2, <1>3, <1>4, <1>5 DEF Next, Step

(* For any number of threads and messages of any length no call runs past  *)
(* its argument and the key stream stays a byte.                           *)
THEOREM CipherTypes == Spec => []TypeOK
<1>1. Typed => TypeOK
  BY DEF Typed
<1> QED BY <1>1, TypedInit, TypedNext, PTL DEF Spec

-----------------------------------------------------------------------------
(***************************************************************************)
(* Induction over the naturals, for a set instead of an operator.  A set   *)
(* of numbers has a least one, because {1..n : n <= top} is a set of       *)
(* finite sets, and strict inclusion is well founded on those.             *)
(***************************************************************************)
LEMMA LeastNumber ==
  ASSUME NEW T \in SUBSET Nat, T # {}
  PROVE  \E z \in T : \A y \in T : z =< y
<1> PICK top \in T : TRUE
  OBVIOUS
<1> DEFINE Initials == {1..n : n \in T \cap (0..top)}
           R == StrictSubsetOrdering(1..top)
<1>1. IsWellFoundedOn(R, FiniteSubsetsOf(1..top))
  BY FS_StrictSubsetOrderingWellFounded
<1>2. IsWellFoundedOn(R, SUBSET (1..top))
  <2>1. IsFiniteSet(1..top)
    BY FS_Interval
  <2> QED BY <1>1, <2>1, FS_FiniteSubsetsOfFinite
<1>3. Initials \subseteq SUBSET (1..top) /\ Initials # {}
  BY SMT
<1>4. PICK least \in Initials : \A I \in Initials : <<I, least>> \notin R
  <2> HIDE DEF R, Initials
  <2> QED BY <1>2, <1>3, WFMin
<1>5. PICK z \in T \cap (0..top) : least = 1..z
  OBVIOUS
<1>6. ASSUME NEW y \in T, y < z PROVE FALSE
  <2>1. 1..y \in Initials
    BY <1>5, <1>6
  <2>2. 1..y \subseteq 1..z /\ 1..z \subseteq 1..top /\ z \in 1..z /\ z \notin 1..y
    BY <1>5, <1>6
  <2>3. <<1..y, 1..z>> \in R
    BY <2>2 DEF StrictSubsetOrdering
  <2> QED BY <1>4, <1>5, <2>1, <2>3
<1>7. \A y \in T : z =< y
  BY <1>5, <1>6
<1> QED BY <1>5, <1>7

LEMMA SetInduction ==
  ASSUME NEW S, 0 \in S, \A n \in Nat : n \in S => n + 1 \in S
  PROVE  Nat \subseteq S
<1> SUFFICES ASSUME Nat \ S # {} PROVE FALSE
  OBVIOUS
<1>1. PICK z \in Nat \ S : \A y \in Nat \ S : z =< y
  <2>1. Nat \ S \in SUBSET Nat
    OBVIOUS
  <2> QED BY <2>1, LeastNumber
<1>2. z # 0 /\ z - 1 \in Nat /\ (z - 1) + 1 = z /\ ~(z =< z - 1)
  BY <1>1
<1>3. z - 1 \in S
  BY <1>1, <1>2
<1> QED BY <1>1, <1>2, <1>3

(* The key stream from the seed on.  f is its beginning, n keys long.      *)
KeyRun(f, n) ==
  /\ f \in [1..n -> Keys] /\ f[1] = Seed
  /\ \A i \in 1..(n - 1) : f[i + 1] = NextKey(f[i])

LEMMA FirstKey == \E f : KeyRun(f, 1)
<1> DEFINE f == [i \in 1..1 |-> Seed]
<1>1. KeyRun(f, 1)
  BY KeyFacts DEF KeyRun
<1> QED BY <1>1

LEMMA MoreKeys ==
  ASSUME NEW n \in Nat, NEW f, KeyRun(f, n + 1)
  PROVE  \E g : /\ KeyRun(g, n + 2) /\ g[n + 2] = NextKey(f[n + 1])
                /\ \A i \in 1..(n + 1) : g[i] = f[i]
<1> DEFINE g == [i \in 1..(n + 2) |-> IF i = n + 2 THEN NextKey(f[n + 1]) ELSE f[i]]
<1>1. f \in [1..(n + 1) -> Keys] /\ n + 1 \in 1..(n + 1) /\ NextKey(f[n + 1]) \in Keys
  BY KeyFacts DEF KeyRun
<1>2. /\ n + 2 \in 1..(n + 2) /\ g[n + 2] = NextKey(f[n + 1])
      /\ \A i \in 1..(n + 1) : i \in 1..(n + 2) /\ i # n + 2 /\ g[i] = f[i]
  OBVIOUS
<1>3. g \in [1..(n + 2) -> Keys]
  <2>1. ASSUME NEW i \in 1..(n + 2) PROVE g[i] \in Keys
    <3>1. i = n + 2 \/ i \in 1..(n + 1)
      OBVIOUS
    <3> QED BY <1>1, <3>1
  <2> QED BY <2>1
<1> HIDE DEF g
<1>4. g[1] = Seed
  BY <1>2 DEF KeyRun
<1>5. ASSUME NEW i \in 1..(n + 1) PROVE g[i + 1] = NextKey(g[i])
  <2>1. i = n + 1 \/ (i \in 1..n /\ i + 1 \in 1..(n + 1))
    OBVIOUS
  <2>2. \A j \in 1..n : f[j + 1] = NextKey(f[j])
    BY DEF KeyRun
  <2> QED BY <1>2, <2>1, <2>2
<1>6. (n + 2) - 1 = n + 1
  OBVIOUS
<1> QED BY <1>2, <1>3, <1>4, <1>5, <1>6 DEF KeyRun

LEMMA RunsExist == \A n \in Nat : \E f : KeyRun(f, n + 1)
<1> DEFINE S == {n \in Nat : \E f : KeyRun(f, n + 1)}
<1>1. 0 \in S
  BY FirstKey
<1>2. ASSUME NEW n \in S PROVE n + 1 \in S
  <2>1. PICK f : KeyRun(f, n + 1)
    OBVIOUS
  <2>2. (n + 1) + 1 = n + 2
    OBVIOUS
  <2>3. \E g : KeyRun(g, n + 2)
    BY <2>1, MoreKeys
  <2> QED BY <2>2, <2>3
<1> HIDE DEF S
<1>3. Nat \subseteq S
  BY <1>1, <1>2, SetInduction
<1> QED BY <1>3 DEF S

LEMMA RunsAgree ==
  ASSUME NEW m \in Nat, NEW n \in Nat, NEW f, NEW g, KeyRun(f, m), KeyRun(g, n)
  PROVE  \A i \in Nat : i + 1 \in 1..m /\ i + 1 \in 1..n => f[i + 1] = g[i + 1]
<1> DEFINE S == {i \in Nat : i + 1 \in 1..m /\ i + 1 \in 1..n => f[i + 1] = g[i + 1]}
<1>1. 0 \in S
  BY DEF KeyRun
<1>2. ASSUME NEW i \in S PROVE i + 1 \in S
  <2> SUFFICES ASSUME (i + 1) + 1 \in 1..m, (i + 1) + 1 \in 1..n
               PROVE  f[(i + 1) + 1] = g[(i + 1) + 1]
    OBVIOUS
  <2>1. /\ i + 1 \in 1..(m - 1) /\ i + 1 \in 1..(n - 1)
        /\ i + 1 \in 1..m /\ i + 1 \in 1..n
    OBVIOUS
  <2>2. f[(i + 1) + 1] = NextKey(f[i + 1]) /\ g[(i + 1) + 1] = NextKey(g[i + 1])
    BY <2>1 DEF KeyRun
  <2>3. f[i + 1] = g[i + 1]
    BY <2>1
  <2> QED BY <2>2, <2>3
<1> HIDE DEF S
<1>3. Nat \subseteq S
  BY <1>1, <1>2, SetInduction
<1> QED BY <1>3 DEF S

(* So there is a function that satisfies the equation by which Key is      *)
(* defined, and Key is one.                                                *)
LEMMA KeyEquation ==
  Key = [n \in Nat |-> IF n = 0 THEN Seed ELSE NextKey(Key[n - 1])]
<1> DEFINE run(n) == CHOOSE f : KeyRun(f, n + 1)
           k == [n \in Nat |-> run(n)[n + 1]]
<1>1. \A n \in Nat : KeyRun(run(n), n + 1)
  BY RunsExist
<1> HIDE DEF run
<1>2. k[0] = Seed
  BY <1>1 DEF KeyRun
<1>3. ASSUME NEW n \in Nat, n # 0 PROVE k[n] = NextKey(k[n - 1])
  <2>1. n - 1 \in Nat /\ (n - 1) + 1 = n /\ n \in 1..n /\ n \in 1..(n + 1) /\ n + 1 \in Nat
        /\ n \in 1..((n + 1) - 1)
    BY <1>3
  <2>2. KeyRun(run(n), n + 1) /\ KeyRun(run(n - 1), n)
    BY <1>1, <2>1
  <2>3. run(n)[n] = run(n - 1)[n]
    BY <2>1, <2>2, RunsAgree
  <2>4. run(n)[n + 1] = NextKey(run(n)[n])
    BY <2>1, <2>2 DEF KeyRun
  <2>5. k[n] = run(n)[n + 1] /\ k[n - 1] = run(n - 1)[n]
    BY <2>1
  <2> QED BY <2>3, <2>4, <2>5
<1>4. k = [n \in Nat |-> IF n = 0 THEN Seed ELSE NextKey(k[n - 1])]
  <2>1. ASSUME NEW n \in Nat PROVE k[n] = IF n = 0 THEN Seed ELSE NextKey(k[n - 1])
    BY <1>2, <1>3
  <2>2. DOMAIN k = Nat /\ k = [n \in Nat |-> k[n]]
    OBVIOUS
  <2> HIDE DEF k
  <2> QED BY <2>1, <2>2
<1> HIDE DEF k
<1>5. \E g : g = [n \in Nat |-> IF n = 0 THEN Seed ELSE NextKey(g[n - 1])]
  BY <1>4
<1> QED BY <1>5 DEF Key

LEMMA KeyOfRun ==
  ASSUME NEW n \in Nat, NEW f, KeyRun(f, n)
  PROVE  \A i \in Nat : i + 1 \in 1..n => f[i + 1] = Key[i]
<1> DEFINE S == {i \in Nat : i + 1 \in 1..n => f[i + 1] = Key[i]}
<1>0. Key[0] = Seed /\ \A i \in Nat : Key[i + 1] = NextKey(Key[i])
  <2>1. \A i \in Nat : i + 1 \in Nat /\ i + 1 # 0 /\ (i + 1) - 1 = i
    OBVIOUS
  <2>2. \A i \in Nat : Key[i] = IF i = 0 THEN Seed ELSE NextKey(Key[i - 1])
    BY KeyEquation
  <2> QED BY <2>1, <2>2
<1>1. 0 \in S
  BY <1>0 DEF KeyRun
<1>2. ASSUME NEW i \in S PROVE i + 1 \in S
  <2> SUFFICES ASSUME (i + 1) + 1 \in 1..n PROVE f[(i + 1) + 1] = Key[i + 1]
    OBVIOUS
  <2>1. i + 1 \in 1..(n - 1) /\ i + 1 \in 1..n
    OBVIOUS
  <2>2. f[(i + 1) + 1] = NextKey(f[i + 1])
    BY <2>1 DEF KeyRun
  <2> QED BY <1>0, <2>1, <2>2
<1> HIDE DEF S
<1>3. Nat \subseteq S
  BY <1>1, <1>2, SetInduction
<1> QED BY <1>3 DEF S

(* The key stream is a function on the naturals, though it is defined by   *)
(* recursion, and each of its keys is a byte (flm.py 113-133).             *)
THEOREM KeyStream ==
  /\ Key \in [Nat -> Keys] /\ Key[0] = Seed
  /\ \A n \in Nat : Key[n + 1] = NextKey(Key[n])
<1>1. \A i \in Nat : Key[i] = IF i = 0 THEN Seed ELSE NextKey(Key[i - 1])
  BY KeyEquation
<1>2. \A i \in Nat : i + 1 \in Nat /\ i + 1 # 0 /\ (i + 1) - 1 = i
  OBVIOUS
<1>3. ASSUME NEW n \in Nat PROVE Key[n] \in Keys
  <2>1. PICK f : KeyRun(f, n + 1)
    BY RunsExist
  <2>2. f[n + 1] = Key[n]
    BY <2>1, KeyOfRun
  <2> QED BY <2>1, <2>2 DEF KeyRun
<1>4. Key = [n \in Nat |-> Key[n]]
  BY KeyEquation
<1> QED BY <1>1, <1>2, <1>3, <1>4

-----------------------------------------------------------------------------
(* One thread at a time: f is the key stream as far as the call that is at *)
(* work, or was the first, has come.                                       *)
(* Where in a call the key of the next byte is.                            *)
AtKey(t, k) ==
  /\ pc[t] \in {"key", "advance"} => keystream = k
  /\ pc[t] \in {"advance", "store"} => x[t] = k
  /\ pc[t] = "store" => read[t] = k

(* The first call made the bytes so far with the keys of f, ...            *)
FirstCall(t, f) ==
  LET n == Len(out[t])
  IN  /\ KeyRun(f, n + 1) /\ AtKey(t, f[n + 1])
      /\ \A i \in 1..n : out[t][i] = Crypt(op[t], f[i], msg[t][i])

(* ... and the second takes them through the same keys again.              *)
Result(t, f) ==
  /\ Len(data[t]) = Len(msg[t]) /\ KeyRun(f, Len(msg[t]) + 1)
  /\ \A i \in 1..Len(msg[t]) : data[t][i] = Crypt(Other[op[t]], f[i], msg[t][i])
SecondCall(t, f) ==
  LET n == Len(out[t])
  IN  AtKey(t, f[n + 1]) /\ \A i \in 1..n : out[t][i] = msg[t][i]

Turns(t) ==
  /\ first[t] => data[t] = msg[t] /\ (Working(t) => \E f : FirstCall(t, f))
  /\ ~first[t] => \E f : Result(t, f) /\ (Working(t) => SecondCall(t, f))
  /\ pc[t] = "done" => ~first[t] /\ out[t] = msg[t]

CipherInv == Typed /\ \A t \in Threads : Turns(t)

LEMMA TurnsInit == Init => CipherInv
<1> SUFFICES ASSUME Init, NEW t \in Threads PROVE Turns(t)
  BY TypedInit DEF CipherInv
<1> QED BY DEF Init, Turns, Working

(* Of the steps of the one thread, those that do not end in Continue.      *)
LEMMA TakeKeyTurns ==
  ASSUME CipherInv, NEW t \in Threads, TakeKey(t) PROVE Turns(t)'
<1>1. /\ pc[t] = "key" /\ pc'[t] = "advance" /\ x'[t] = keystream
      /\ keystream' = keystream /\ op' = op /\ first' = first /\ msg' = msg
      /\ data' = data /\ out' = out
  BY DEF TakeKey, CipherInv, Typed, TypeOK
<1>2. \A k : AtKey(t, k) => AtKey(t, k)'
  BY <1>1 DEF AtKey
<1>3. \A f : FirstCall(t, f) => FirstCall(t, f)'
  BY <1>1, <1>2 DEF FirstCall
<1>4. \A f : (Result(t, f) => Result(t, f)') /\ (SecondCall(t, f) => SecondCall(t, f)')
  BY <1>1, <1>2 DEF Result, SecondCall
<1> QED BY <1>1, <1>3, <1>4 DEF CipherInv, Turns, Working

LEMMA ReadAgainTurns ==
  ASSUME CipherInv, NEW t \in Threads, ReadAgain(t) PROVE Turns(t)'
<1>1. /\ pc[t] = "advance" /\ pc'[t] = "store" /\ read'[t] = keystream
      /\ keystream' = keystream /\ op' = op /\ first' = first /\ msg' = msg
      /\ data' = data /\ out' = out /\ x' = x
  BY DEF ReadAgain, CipherInv, Typed, TypeOK
<1>2. \A k : AtKey(t, k) => AtKey(t, k)'
  BY <1>1 DEF AtKey
<1>3. \A f : FirstCall(t, f) => FirstCall(t, f)'
  BY <1>1, <1>2 DEF FirstCall
<1>4. \A f : (Result(t, f) => Result(t, f)') /\ (SecondCall(t, f) => SecondCall(t, f)')
  BY <1>1, <1>2 DEF Result, SecondCall
<1> QED BY <1>1, <1>3, <1>4 DEF CipherInv, Turns, Working

(* A first call that has made all its bytes hands them to the second.      *)
LEMMA HandOver ==
  ASSUME Typed, Typed', NEW t \in Threads, NEW n \in Nat, Continue(t, n), first[t],
         data[t] = msg[t], msg' = msg, Len(out'[t]) = n, n =< Len(data[t]),
         ~(n < Len(data[t])), NEW f, KeyRun(f, n + 1),
         \A i \in 1..n : out'[t][i] = Crypt(op[t], f[i], msg[t][i])
  PROVE  Turns(t)'
<1>1. /\ pc'[t] = "start" /\ op'[t] = Other[op[t]] /\ first'[t] = FALSE
      /\ data'[t] = out'[t]
  BY ContinueCases DEF Typed, TypeOK
<1>2. n = Len(msg[t]) /\ msg'[t] = msg[t]
  BY DEF Typed, TypeOK
<1>3. Other[op'[t]] = op[t]
  BY <1>1 DEF Typed, TypeOK, Operations, Other
<1>4. Result(t, f)'
  BY <1>1, <1>2, <1>3 DEF Result
<1> QED BY <1>1, <1>4 DEF Turns, Working

LEMMA ResetTurns ==
  ASSUME CipherInv, Typed', NEW t \in Threads, Reset(t) PROVE Turns(t)'
<1>1. /\ keystream' = Seed /\ out'[t] = << >> /\ Len(out'[t]) = 0
      /\ Continue(t, 0) /\ msg' = msg /\ x' = x /\ read' = read /\ pc[t] = "start"
  BY ResetStep DEF CipherInv, Typed, TypeOK
<1>2. /\ TypeOK /\ data[t] \in Seq(Bits) /\ Len(data[t]) \in Nat
      /\ msg[t] \in Seq(Bits) /\ Len(msg[t]) \in Nat
  BY MessagesAssumption DEF CipherInv, Typed, TypeOK
<1>3. PICK f : KeyRun(f, 1)
  BY FirstKey
<1>4. CASE /\ pc' = [pc EXCEPT ![t] = "key"]
           /\ op' = op /\ first' = first /\ data' = data
  <2>1. pc'[t] = "key"
    BY <1>2, <1>4 DEF TypeOK
  <2>2. \A k : k = Seed => AtKey(t, k)'
    BY <1>1, <2>1 DEF AtKey
  <2>3. CASE first[t]
    <3>1. FirstCall(t, f)'
      BY <1>1, <1>3, <2>2 DEF FirstCall, KeyRun
    <3> QED BY <1>1, <1>4, <2>1, <2>3, <3>1 DEF CipherInv, Turns
  <2>4. CASE ~first[t]
    <3>1. PICK h : Result(t, h)
      BY <2>4 DEF CipherInv, Turns
    <3>2. Result(t, h)' /\ h[1] = Seed
      BY <1>1, <1>4, <3>1 DEF Result, KeyRun
    <3>3. SecondCall(t, h)'
      BY <1>1, <2>2, <3>2 DEF SecondCall
    <3> QED BY <1>4, <2>1, <2>4, <3>2, <3>3 DEF Turns
  <2> QED BY <2>3, <2>4
<1>5. CASE ~(0 < Len(data[t])) /\ first[t]
  <2>1. Typed /\ data[t] = msg[t]
    BY <1>5 DEF CipherInv, Turns
  <2>2. KeyRun(f, 0 + 1) /\ 0 =< Len(data[t])
    BY <1>2, <1>3
  <2>3. \A i \in 1..0 : out'[t][i] = Crypt(op[t], f[i], msg[t][i])
    OBVIOUS
  <2>4. 0 \in Nat /\ Continue(t, 0) /\ Len(out'[t]) = 0 /\ msg' = msg
    BY <1>1
  <2> QED BY <1>5, <2>1, <2>2, <2>3, <2>4, HandOver
<1>6. CASE /\ ~(0 < Len(data[t])) /\ ~first[t]
           /\ pc' = [pc EXCEPT ![t] = "done"]
           /\ op' = op /\ first' = first /\ data' = data
  <2>1. PICK h : Result(t, h)
    BY <1>6 DEF CipherInv, Turns
  <2>2. Result(t, h)' /\ Len(msg[t]) = 0
    BY <1>1, <1>2, <1>6, <2>1 DEF Result
  <2>3. msg[t] = << >> /\ pc'[t] = "done"
    BY <1>2, <1>6, <2>2, SameBytes DEF TypeOK
  <2> QED BY <1>1, <1>6, <2>2, <2>3 DEF Turns, Working
<1> QED BY <1>1, <1>2, <1>4, <1>5, <1>6, ContinueCases

LEMMA ProduceTurns ==
  ASSUME CipherInv, Typed', NEW t \in Threads, Produce(t) PROVE Turns(t)'
<1> DEFINE n == Len(out[t])
           e == Crypt(op[t], x[t], data[t][n + 1])
<1>0. Typed /\ TypeOK /\ Working(t) /\ pc[t] = "store"
  BY DEF CipherInv, Typed, Produce, Working
<1>1. /\ keystream' = NextKey(read[t])
      /\ out' = [out EXCEPT ![t] = Append(@, e)]
      /\ Continue(t, n + 1) /\ msg' = msg /\ x' = x /\ read' = read
      /\ n \in Nat /\ n + 1 \in 1..Len(data[t]) /\ data[t][n + 1] \in Bits
      /\ e \in Bits
  BY <1>0, ProduceStep
<1>2. /\ data[t] \in Seq(Bits) /\ msg[t] \in Seq(Bits) /\ out[t] \in Seq(Bits)
      /\ op[t] \in Operations /\ Len(data[t]) \in Nat /\ Len(msg[t]) \in Nat
  BY <1>0, MessagesAssumption DEF TypeOK
<1>3. /\ Len(out'[t]) = n + 1 /\ out'[t][n + 1] = e /\ out'[t] \in Seq(Bits)
      /\ \A i \in 1..n : out'[t][i] = out[t][i]
  <2>1. out'[t] = Append(out[t], e)
    BY <1>0, <1>1 DEF TypeOK
  <2> HIDE DEF e
  <2> QED BY <1>1, <1>2, <2>1, AppendFacts
<1>4. \A i \in 1..(n + 1) : i = n + 1 \/ i \in 1..n
  BY <1>1
<1>5. CASE first[t]
  <2>1. data[t] = msg[t]
    BY <1>5 DEF CipherInv, Turns
  <2>2. PICK f : FirstCall(t, f)
    BY <1>0, <1>5 DEF CipherInv, Turns
  <2>3. /\ KeyRun(f, n + 1) /\ x[t] = f[n + 1] /\ read[t] = f[n + 1]
        /\ \A i \in 1..n : out[t][i] = Crypt(op[t], f[i], msg[t][i])
    BY <1>0, <2>2 DEF FirstCall, AtKey
  <2>4. PICK g : /\ KeyRun(g, n + 2) /\ g[n + 2] = NextKey(f[n + 1])
                 /\ \A i \in 1..(n + 1) : g[i] = f[i]
    BY <1>1, <2>3, MoreKeys
  <2>5. \A i \in 1..(n + 1) : out'[t][i] = Crypt(op[t], g[i], msg[t][i])
    <3>1. out'[t][n + 1] = Crypt(op[t], f[n + 1], msg[t][n + 1])
      BY <1>3, <2>1, <2>3
    <3>2. \A i \in 1..n : out'[t][i] = Crypt(op[t], f[i], msg[t][i])
      BY <1>3, <2>3
    <3> QED BY <1>4, <2>4, <3>1, <3>2
  <2>6. (n + 1) + 1 = n + 2 /\ n + 1 \in Nat
    BY <1>1
  <2>7. CASE /\ pc' = [pc EXCEPT ![t] = "key"]
             /\ op' = op /\ first' = first /\ data' = data
    <3>1. pc'[t] = "key"
      BY <1>0, <2>7 DEF TypeOK
    <3>2. \A k : k = NextKey(read[t]) => AtKey(t, k)'
      BY <1>1, <3>1 DEF AtKey
    <3>3. FirstCall(t, g)'
      BY <1>1, <1>3, <2>3, <2>4, <2>5, <2>6, <2>7, <3>2 DEF FirstCall
    <3> QED BY <1>1, <1>5, <2>1, <2>7, <3>1, <3>3 DEF Turns
  <2>8. CASE ~(n + 1 < Len(data[t]))
    <3>1. n + 1 =< Len(data[t])
      BY <1>1
    <3>2. KeyRun(g, (n + 1) + 1)
      BY <2>4, <2>6
    <3> QED BY <1>0, <1>1, <1>3, <1>5, <2>1, <2>5, <2>6, <2>8, <3>1, <3>2,
             HandOver, SMTT(30)
  <2> QED BY <1>0, <1>1, <1>5, <2>6, <2>7, <2>8, ContinueCases
<1>6. CASE ~first[t]
  <2>1. PICK f : Result(t, f) /\ SecondCall(t, f)
    BY <1>0, <1>6 DEF CipherInv, Turns
  <2>2. /\ Len(data[t]) = Len(msg[t]) /\ KeyRun(f, Len(msg[t]) + 1)
        /\ \A i \in 1..Len(msg[t]) : data[t][i] = Crypt(Other[op[t]], f[i], msg[t][i])
        /\ x[t] = f[n + 1] /\ read[t] = f[n + 1]
        /\ \A i \in 1..n : out[t][i] = msg[t][i]
    BY <1>0, <2>1 DEF Result, SecondCall, AtKey
  <2>3. /\ n + 1 \in 1..Len(msg[t]) /\ n + 1 \in 1..((Len(msg[t]) + 1) - 1)
        /\ n + 1 \in 1..(Len(msg[t]) + 1)
    BY <1>1, <1>2, <2>2
  <2>4. f[n + 1] \in Keys /\ f[(n + 1) + 1] = NextKey(f[n + 1]) /\ msg[t][n + 1] \in Bits
    BY <1>2, <2>2, <2>3 DEF KeyRun
  <2>5. e = msg[t][n + 1]
    <3>1. data[t][n + 1] = Crypt(Other[op[t]], f[n + 1], msg[t][n + 1])
      BY <2>2, <2>3
    <3>2. Other[op[t]] \in Operations /\ Other[Other[op[t]]] = op[t]
      BY <1>2 DEF Operations, Other
    <3>3. Crypt(op[t], f[n + 1], Crypt(Other[op[t]], f[n + 1], msg[t][n + 1])) = msg[t][n + 1]
      BY <2>4, <3>2, CryptFacts
    <3> QED BY <2>2, <3>1, <3>3
  <2>6. \A i \in 1..(n + 1) : out'[t][i] = msg[t][i]
    BY <1>3, <1>4, <2>2, <2>5
  <2>7. CASE /\ pc' = [pc EXCEPT ![t] = "key"]
             /\ op' = op /\ first' = first /\ data' = data
    <3>1. pc'[t] = "key"
      BY <1>0, <2>7 DEF TypeOK
    <3>2. \A k : k = NextKey(read[t]) => AtKey(t, k)'
      BY <1>1, <3>1 DEF AtKey
    <3>3. SecondCall(t, f)' /\ Result(t, f)'
      BY <1>1, <1>3, <2>1, <2>2, <2>4, <2>6, <2>7, <3>2 DEF SecondCall, Result
    <3> QED BY <1>6, <2>7, <3>1, <3>3 DEF Turns
  <2>8. CASE /\ ~(n + 1 < Len(data[t]))
             /\ pc' = [pc EXCEPT ![t] = "done"]
             /\ op' = op /\ first' = first /\ data' = data
    <3>1. pc'[t] = "done" /\ n + 1 = Len(msg[t])
      BY <1>0, <1>1, <1>2, <2>2, <2>3, <2>8 DEF TypeOK
    <3>2. out'[t] = msg[t]
      BY <1>2, <1>3, <2>6, <3>1, SameBytes
    <3>3. Result(t, f)'
      BY <1>1, <2>1, <2>8 DEF Result
    <3> QED BY <1>1, <1>6, <2>8, <3>1, <3>2, <3>3 DEF Turns, Working
  <2>9. n + 1 \in Nat
    BY <1>1
  <2> QED BY <1>0, <1>1, <1>6, <2>7, <2>8, <2>9, ContinueCases
<1> QED BY <1>5, <1>6

LEMMA TurnsNext ==
  ASSUME \A a, b \in Threads : a = b
  PROVE  CipherInv /\ [Next]_vars => CipherInv'
<1> SUFFICES ASSUME CipherInv, [Next]_vars PROVE CipherInv'
  OBVIOUS
<1>1. Typed'
  BY TypedNext DEF CipherInv
<1>2. ASSUME NEW t \in Threads, Step(t) PROVE CipherInv'
  <2>1. Turns(t)'
    BY <1>1, <1>2, ResetTurns, TakeKeyTurns, ReadAgainTurns, ProduceTurns DEF Step
  <2>2. \A u \in Threads : u = t
    OBVIOUS
  <2> QED BY <1>1, <2>1, <2>2 DEF CipherInv
<1>3. ASSUME UNCHANGED vars PROVE CipherInv'
  BY <1>1, <1>3 DEF vars, CipherInv, Turns, Working, FirstCall, SecondCall, Result, AtKey
<1> QED BY <1>2, <1>3 DEF Next

(* One thread at a time: decrypt undoes encrypt and the other way round,   *)
(* for messages of every length and wherever earlier calls left the key    *)
(* stream, because every call starts it anew (flm.py 113-164).             *)
THEOREM RoundTripTheorem ==
  ASSUME \A a, b \in Threads : a = b
  PROVE  Spec => []RoundTrip
<1>1. CipherInv => RoundTrip
  BY DEF CipherInv, Turns, RoundTrip
<1> QED BY <1>1, TurnsInit, TurnsNext, PTL DEF Spec

(* With another thread's call between two of its steps a thread would      *)
(* continue with that call's keys; one thread at a time, each byte gets    *)
(* the key of its own place (flm.py 117-133).                              *)
THEOREM OwnKeysTheorem ==
  ASSUME \A a, b \in Threads : a = b
  PROVE  Spec => []OwnKeys
<1>1. ASSUME CipherInv, NEW t \in Threads, Working(t)
      PROVE  AtKey(t, Key[Len(out[t])])
  <2> DEFINE n == Len(out[t])
  <2>1. n \in Nat /\ n < Len(data[t]) /\ Len(data[t]) \in Nat
    BY <1>1 DEF CipherInv, Typed, TypeOK
  <2> HIDE DEF n
  <2>2. CASE first[t]
    <3>1. PICK f : KeyRun(f, n + 1) /\ AtKey(t, f[n + 1])
      BY <1>1, <2>2 DEF CipherInv, Turns, FirstCall, n
    <3>2. f[n + 1] = Key[n]
      BY <2>1, <3>1, KeyOfRun
    <3> QED BY <3>1, <3>2 DEF n
  <2>3. CASE ~first[t]
    <3>1. PICK f : Result(t, f) /\ SecondCall(t, f)
      BY <1>1, <2>3 DEF CipherInv, Turns
    <3>2. KeyRun(f, Len(data[t]) + 1) /\ AtKey(t, f[n + 1])
      BY <3>1 DEF Result, SecondCall, n
    <3>3. f[n + 1] = Key[n]
      BY <2>1, <3>2, KeyOfRun
    <3> QED BY <3>2, <3>3 DEF n
  <2> QED BY <2>2, <2>3
<1>2. CipherInv => OwnKeys
  BY <1>1 DEF OwnKeys, AtKey, Working
<1> QED BY <1>2, TurnsInit, TurnsNext, PTL DEF Spec

(* What a finished call gives is a function of its message alone: byte i   *)
(* goes through the i-th key, whatever the calls before it did.  This is   *)
(* why the film tables may treat the cipher as one constructor with an     *)
(* inverse (flm.py 149-164, 347-351, 403-407).                             *)
ResultOfFirstCall ==
  \A t \in Threads : ~first[t] =>
    /\ Len(data[t]) = Len(msg[t])
    /\ \A i \in 1..Len(msg[t]) : data[t][i] = Crypt(Other[op[t]], Key[i - 1], msg[t][i])

THEOREM CallIsFunctionOfMessage ==
  ASSUME \A a, b \in Threads : a = b
  PROVE  Spec => []ResultOfFirstCall
<1>1. ASSUME CipherInv, NEW t \in Threads, ~first[t]
      PROVE  /\ Len(data[t]) = Len(msg[t])
             /\ \A i \in 1..Len(msg[t]) : data[t][i] = Crypt(Other[op[t]], Key[i - 1], msg[t][i])
  <2>1. PICK f : Result(t, f)
    BY <1>1 DEF CipherInv, Turns
  <2>2. Len(msg[t]) \in Nat
    BY <1>1, MessagesAssumption DEF CipherInv, Typed, TypeOK
  <2>3. KeyRun(f, Len(msg[t]) + 1)
    BY <2>1 DEF Result
  <2>4. ASSUME NEW i \in 1..Len(msg[t]) PROVE f[i] = Key[i - 1]
    <3>1. i - 1 \in Nat /\ (i - 1) + 1 = i /\ i \in 1..(Len(msg[t]) + 1) /\ Len(msg[t]) + 1 \in Nat
      BY <2>2
    <3> QED BY <2>3, <3>1, KeyOfRun
  <2> QED BY <2>1, <2>4 DEF Result
<1>2. CipherInv => ResultOfFirstCall
  BY <1>1 DEF ResultOfFirstCall
<1> QED BY <1>2, TurnsInit, TurnsNext, PTL DEF Spec
=============================================================================
