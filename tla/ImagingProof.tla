---------------------------- MODULE ImagingProof ----------------------------
(***************************************************************************)
(* Where an image lies on the frame, for images and frames of every size.  *)
(***************************************************************************)
EXTENDS Imaging, TLAPS

Positive == Nat \ {0}

(* A positive factor on both sides of an inequality can go.                *)
LEMMA Cancel ==
  ASSUME NEW a \in Int, NEW b \in Int, NEW c \in Positive, a * c < b * c
  PROVE  a < b
<1> SUFFICES ASSUME ~(a < b) PROVE FALSE
    OBVIOUS
<1>1. PICK n \in Nat : a = b + n
  <2>1. a - b \in Nat /\ a = b + (a - b)
      BY DEF Positive
  <2> QED BY <2>1
<1>2. n * c >= 0
    BY DEF Positive
<1>3. a * c = b * c + n * c
    BY <1>1 DEF Positive
<1> QED BY <1>2, <1>3 DEF Positive

(* Half of a difference, rounded down, centres: x = (l - s) \div 2.        *)
LEMMA Halves ==
  ASSUME NEW l \in Int, NEW s \in Int
  PROVE  /\ (l - s) \div 2 \in Int
         /\ Centred(l, (l - s) \div 2, s)
         /\ s =< l => Inside(l, (l - s) \div 2, s)
         /\ l =< s => Covers(l, (l - s) \div 2, s)
BY DEF Centred, Inside, Covers

(* A side scaled by n / d stays below a bound that n / d stays below, and  *)
(* above one that n / d is above.                                          *)
LEMMA RoundedBetween ==
  ASSUME NEW a \in Positive, NEW b \in Positive, NEW d \in Positive,
         NEW l \in Positive, NEW k \in Rounded(a * b, d)
  PROVE  /\ k \in Nat
         /\ 2 * (k * d - a * b) =< d /\ -(2 * (k * d - a * b)) =< d
         /\ a * b =< l * d => k =< l
         /\ l * d =< a * b => l =< k
<1>1. /\ a * b \in Nat /\ k \in Nat /\ k * d \in Nat
      /\ 2 * (a * b) - d =< 2 * k * d /\ 2 * k * d =< 2 * (a * b) + d
    BY DEF Rounded, Positive
<1>2. 2 * k * d = 2 * (k * d)
    BY <1>1 DEF Positive
<1>3. ASSUME a * b =< l * d PROVE k =< l
  <2>1. (2 * k - 1) * d = 2 * (k * d) - d /\ (2 * l + 1) * d = 2 * (l * d) + d
      BY <1>1 DEF Positive
  <2>2. (2 * k - 1) * d < (2 * l + 1) * d
      BY <1>1, <1>2, <1>3, <2>1 DEF Positive
  <2>3. 2 * k - 1 < 2 * l + 1
      BY <1>1, <2>2, Cancel DEF Positive
  <2> QED BY <1>1, <2>3 DEF Positive
<1>4. ASSUME l * d =< a * b PROVE l =< k
  <2>1. (2 * k + 1) * d = 2 * (k * d) + d /\ (2 * l - 1) * d = 2 * (l * d) - d
      BY <1>1 DEF Positive
  <2>2. (2 * l - 1) * d < (2 * k + 1) * d
      BY <1>1, <1>2, <1>4, <2>1 DEF Positive
  <2>3. 2 * l - 1 < 2 * k + 1
      BY <1>1, <2>2, Cancel DEF Positive
  <2> QED BY <1>1, <2>3 DEF Positive
<1> QED BY <1>1, <1>2, <1>3, <1>4 DEF Positive

Sized == [w : Positive, h : Positive]

(* What image_to_scanlines promises ("fit" loses nothing of the image,     *)
(* "fill" leaves nothing of the frame bare, both centre it and keep its    *)
(* shape, imaging.py:118-150) holds for every image on every frame.        *)
THEOREM PlacedTheorem ==
  ASSUME NEW image \in Sized, NEW frame \in Sized, NEW transform \in Transforms,
         NEW p \in Placements(image, frame, transform)
  PROVE  Placed(image, frame, transform, p)
<1> DEFINE iw == image.w  ih == image.h  fw == frame.w  fh == frame.h
<1>1. iw \in Positive /\ ih \in Positive /\ fw \in Positive /\ fh \in Positive
    BY DEF Sized
<1>2. PICK s \in Sizes(image, frame, transform) : p = Paste(frame, s)
    BY DEF Placements
<1>3. CASE MatchesHeight(image, frame, transform)
  <2>1. PICK k \in Rounded(fh * iw, ih) : s = [w |-> k, h |-> fh]
      BY <1>2, <1>3 DEF Sizes
  <2>2. /\ k \in Nat
        /\ 2 * (k * ih - fh * iw) =< ih /\ -(2 * (k * ih - fh * iw)) =< ih
        /\ fh * iw =< fw * ih => k =< fw
        /\ fw * ih =< fh * iw => fw =< k
      BY <1>1, RoundedBetween
  <2>3. /\ p.w = k /\ p.h = fh
        /\ p.x = (fw - k) \div 2 /\ p.y = (fh - fh) \div 2
      BY <1>2, <2>1 DEF Paste
  <2>4. /\ Centred(fw, p.x, p.w) /\ Centred(fh, p.y, p.h)
        /\ k =< fw => Inside(fw, p.x, p.w)
        /\ fw =< k => Covers(fw, p.x, p.w)
        /\ Inside(fh, p.y, p.h) /\ Covers(fh, p.y, p.h)
    <3>1. fw \in Int /\ fh \in Int /\ k \in Int /\ fh =< fh
        BY <1>1, <2>2 DEF Positive
    <3>2. /\ Centred(fw, (fw - k) \div 2, k)
          /\ k =< fw => Inside(fw, (fw - k) \div 2, k)
          /\ fw =< k => Covers(fw, (fw - k) \div 2, k)
        BY <3>1, Halves
    <3>3. /\ Centred(fh, (fh - fh) \div 2, fh)
          /\ Inside(fh, (fh - fh) \div 2, fh) /\ Covers(fh, (fh - fh) \div 2, fh)
        BY <3>1, Halves
    <3> QED BY <2>3, <3>2, <3>3
  <2>5. SameShape(image, p)
      BY <1>1, <2>2, <2>3 DEF SameShape, Positive
  <2>6. IF transform = "fit" THEN k =< fw ELSE fw =< k
    <3>1. fh * iw = iw * fh /\ fh * iw \in Nat /\ fw * ih \in Nat
        BY <1>1 DEF Positive
    <3> QED BY <1>3, <2>2, <3>1 DEF MatchesHeight, Wider, Transforms
  <2> QED BY <2>3, <2>4, <2>5, <2>6 DEF Placed
<1>4. CASE ~MatchesHeight(image, frame, transform)
  <2>1. PICK k \in Rounded(fw * ih, iw) : s = [w |-> fw, h |-> k]
      BY <1>2, <1>4 DEF Sizes
  <2>2. /\ k \in Nat
        /\ 2 * (k * iw - fw * ih) =< iw /\ -(2 * (k * iw - fw * ih)) =< iw
        /\ fw * ih =< fh * iw => k =< fh
        /\ fh * iw =< fw * ih => fh =< k
      BY <1>1, RoundedBetween
  <2>3. /\ p.w = fw /\ p.h = k
        /\ p.x = (fw - fw) \div 2 /\ p.y = (fh - k) \div 2
      BY <1>2, <2>1 DEF Paste
  <2>4. /\ Centred(fw, p.x, p.w) /\ Centred(fh, p.y, p.h)
        /\ k =< fh => Inside(fh, p.y, p.h)
        /\ fh =< k => Covers(fh, p.y, p.h)
        /\ Inside(fw, p.x, p.w) /\ Covers(fw, p.x, p.w)
    <3>1. fh \in Int /\ fw \in Int /\ k \in Int /\ fw =< fw
        BY <1>1, <2>2 DEF Positive
    <3>2. /\ Centred(fh, (fh - k) \div 2, k)
          /\ k =< fh => Inside(fh, (fh - k) \div 2, k)
          /\ fh =< k => Covers(fh, (fh - k) \div 2, k)
        BY <3>1, Halves
    <3>3. /\ Centred(fw, (fw - fw) \div 2, fw)
          /\ Inside(fw, (fw - fw) \div 2, fw) /\ Covers(fw, (fw - fw) \div 2, fw)
        BY <3>1, Halves
    <3> QED BY <2>3, <3>2, <3>3
  <2>5. SameShape(image, p)
      BY <1>1, <2>2, <2>3 DEF SameShape, Positive
  <2>6. IF transform = "fit" THEN k =< fh ELSE fh =< k
    <3>1. fh * iw = iw * fh /\ fh * iw \in Nat /\ fw * ih \in Nat
        BY <1>1 DEF Positive
    <3> QED BY <1>4, <2>2, <3>1 DEF MatchesHeight, Wider, Transforms
  <2> QED BY <2>3, <2>4, <2>5, <2>6 DEF Placed
<1> QED BY <1>3, <1>4

(* A quarter turn leaves an image an image.                                *)
LEMMA TurnedTypes ==
  ASSUME NEW image \in Sized, NEW rotation \in Rotations
  PROVE  Turned(image, rotation) \in Sized
BY DEF Sized, Turned, Positive

(* The frames of the supported camera backs have the documented sizes and  *)
(* fit the recorder's 6710 lines at both resolutions (README.md:286-294);  *)
(* the slot's own aspect ratio, which is what counts, is compared with     *)
(* nothing (constants.py:101).                                             *)
THEOREM DocumentedFrames ==
  /\ FrameHeight(4096, 3, 2) = 2730 /\ FrameHeight(8192, 3, 2) = 5461
  /\ FrameHeight(4096, 5, 4) = 3276 /\ FrameHeight(8192, 5, 4) = 6553
  /\ FrameHeight(4096, 11, 9) = 3351 /\ FrameHeight(8192, 11, 9) = 6702
  /\ FrameHeight(4096, 4, 3) = 3072 /\ FrameHeight(8192, 4, 3) = 6144
  /\ \A hres \in {4096, 8192} :
        \A aspect \in {<<3, 2>>, <<5, 4>>, <<11, 9>>, <<4, 3>>} :
          FrameHeight(hres, aspect[1], aspect[2]) =< 6710
  /\ FrameHeight(8192, 1, 1) > 6710
BY DEF FrameHeight
=============================================================================
