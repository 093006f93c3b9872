------------------------------ MODULE Imaging ------------------------------
(***************************************************************************)
(* From an image to the scanlines of a frame (imaging.py): how many lines  *)
(* there are, and where the image lies on them.  Sizes are in pixels; what *)
(* the pixels look like is Pillow's.                                       *)
(***************************************************************************)
EXTENDS Integers

(* get_frame_dimensions: the width is given, 4096 or 8192.                 *)
FrameHeight(hres, aspect_w, aspect_h) == (hres * aspect_h) \div aspect_w

(* A quarter turn swaps the sides.                                         *)
Rotations == {0, 90, 180, 270}
Turned(image, rotation) ==
  IF rotation \in {90, 270} THEN [w |-> image.h, h |-> image.w] ELSE image

(* round(n / d): the quotient of two floats is not exact, so half a pixel  *)
(* may go either way.                                                      *)
Rounded(n, d) == {k \in 0..n : 2 * n - d =< 2 * k * d /\ 2 * k * d =< 2 * n + d}

Transforms == {"fit", "fill"}
Wider(image, frame) == image.w * frame.h > frame.w * image.h

(* Mutant: the image is scaled to the other side of the frame.             *)
MatchesHeightWrongly(image, frame, transform) ==
  (transform = "fit") = Wider(image, frame)

MatchesHeight(image, frame, transform) ==
  (transform = "fill") = Wider(image, frame)

Sizes(image, frame, transform) ==
  IF MatchesHeight(image, frame, transform)
  THEN {[w |-> k, h |-> frame.h] : k \in Rounded(frame.h * image.w, image.h)}
  ELSE {[w |-> frame.w, h |-> k] : k \in Rounded(frame.w * image.h, image.w)}

(* Where the scaled image is pasted, which may be outside of the frame.    *)
Paste(frame, size) ==
  [w |-> size.w, h |-> size.h,
   x |-> (frame.w - size.w) \div 2, y |-> (frame.h - size.h) \div 2]

(* image_to_scanlines: the possible results; none if a side is scaled to   *)
(* nothing, which Pillow refuses.                                          *)
Placements(image, frame, transform) ==
  {Paste(frame, s) : s \in {t \in Sizes(image, frame, transform) : t.w > 0 /\ t.h > 0}}

-----------------------------------------------------------------------------
(* What the transforms promise of a side l of the frame, for an image from *)
(* o to o + s: nothing of it is lost, or nothing of the frame is bare, and *)
(* the bars or the cropped ends differ by one pixel at most.               *)
Inside(l, o, s)  == 0 =< o /\ o + s =< l
Covers(l, o, s)  == o =< 0 /\ l =< o + s
Centred(l, o, s) == l - (o + s) - o \in {0, 1}

(* The image keeps its shape, to half a pixel.                             *)
SameShape(image, p) ==
  LET d == p.w * image.h - p.h * image.w
  IN  \E s \in {image.w, image.h} : 2 * d =< s /\ -(2 * d) =< s

Placed(image, frame, transform, p) ==
  /\ p.w = frame.w \/ p.h = frame.h
  /\ Centred(frame.w, p.x, p.w) /\ Centred(frame.h, p.y, p.h)
  /\ SameShape(image, p)
  /\ IF transform = "fit"
     THEN Inside(frame.w, p.x, p.w) /\ Inside(frame.h, p.y, p.h)
     ELSE Covers(frame.w, p.x, p.w) /\ Covers(frame.h, p.y, p.h)
=============================================================================
