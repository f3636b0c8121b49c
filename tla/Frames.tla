------------------------------- MODULE Frames -------------------------------
(***************************************************************************)
(* static_frame.hpp and dynamic_frame.hpp, windows over the newest values  *)
(* kept in a circular array with one slot more than the capacity, and      *)
(* b_spline.hpp, which keeps its points and segments in two of them.       *)
(* Indices are unsigned numbers of 64 bits in the code, IndexMod here.     *)
(***************************************************************************)
EXTENDS Integers, Sequences, FiniteSetsExt

CONSTANTS
  FrameSizes,   \* capacities a frame is made with or grown to
  IndexMod,     \* 2^64
  NumPts,       \* NUM_PTS of the spline
  MaxPushes     \* bound: values pushed, points added

ASSUME FramesAssumption ==
  /\ FrameSizes \subseteq Nat \ {0} /\ NumPts \in Nat /\ NumPts > 4
  /\ IndexMod \in Nat /\ MaxPushes \in Nat
  \* an array in memory is far smaller than what its index can count
  /\ \A n \in FrameSizes \cup {NumPts} : 2 * (n + 1) <= IndexMod

VARIABLES
  frame,     \* a frame and whether it is static
  window,    \* what a frame should hold, newest first
  back,      \* move_bck was called
  outside,   \* a slot outside the array was written
  evicted,   \* what the function given to move_fwd was called on last
  spline,    \* _point_container and _segment_container
  pushes

frameVars == <<frame, window, back, outside, evicted, spline, pushes>>

Junk == 0
NoSegment == <<>>

Slots(f) == f.sz + 1
Slot(f, ix) == (ix % IndexMod) % Slots(f)

FromFirst(f, offset) == Slot(f, f.it + Slots(f) - offset)
FirstSlot(f) == Slot(f, f.it)
LastSlot(f) == Slot(f, f.it + Slots(f) - f.sz + 1)

\* _data[i], and a write of it; a vector of dynamic_frame is one slot short
\* until it is grown.
Read(f, i) == IF i < Len(f.data) THEN f.data[i + 1] ELSE Junk
Write(f, i, v) == IF i < Len(f.data) THEN [f EXCEPT !.data[i + 1] = v] ELSE f

NewFrame(n, slots, v) ==
  [data |-> [i \in 1 .. slots |-> v], it |-> 0, size |-> 0, sz |-> n]

\* move_fwd: the iterator and the size; the caller writes get_first().
Forward(f) ==
  [f EXCEPT !.it = ((@ + 1) % IndexMod) % Slots(f), !.size = Min({@ + 1, f.sz})]

BackSize(f) == Min({(f.size - 1) % IndexMod, 0})

FramesInit ==
  /\ \E n \in FrameSizes, static \in BOOLEAN :
       frame = [static |-> static, f |-> NewFrame(n, IF static THEN n + 1 ELSE n, Junk)]
  /\ window = <<>> /\ back = FALSE /\ outside = FALSE /\ evicted = Junk
  /\ spline = [points |-> NewFrame(NumPts, NumPts + 1, Junk),
               segments |-> NewFrame(NumPts - 3, NumPts - 2, NoSegment)]
  /\ pushes = 0

MoveFwd ==
  LET f == frame.f
      g == Forward(f)
  IN  /\ pushes < MaxPushes /\ pushes' = pushes + 1
      /\ evicted' = Read(f, LastSlot(f))
      /\ frame' = [frame EXCEPT !.f = Write(Write(g, LastSlot(f), Junk), FirstSlot(g), pushes + 1)]
      /\ outside' = (outside \/ {FirstSlot(g), LastSlot(f)} \cap Len(f.data) .. f.sz # {})
      /\ window' = SubSeq(<<pushes + 1>> \o window, 1, Min({Len(window) + 1, f.sz}))
      /\ UNCHANGED <<back, spline>>

MoveBck ==
  LET f == frame.f
  IN  /\ window # <<>>
      /\ frame' = [frame EXCEPT !.f.it = ((@ + Slots(f) - 1) % IndexMod) % Slots(f),
                                !.f.size = BackSize(f)]
      /\ window' = Tail(window) /\ back' = TRUE
      /\ UNCHANGED <<outside, evicted, spline, pushes>>

\* static_frame only.
PopBack ==
  LET f == frame.f
  IN  /\ frame.static /\ f.size > 0
      /\ evicted' = Read(f, FromFirst(f, f.size - 1))
      /\ frame' = [frame EXCEPT !.f.size = @ - 1]
      /\ window' = SubSeq(window, 1, f.size - 1)
      /\ UNCHANGED <<back, outside, spline, pushes>>

\* dynamic_frame only: oldest value first, and the iterator at the newest.
Reserve(n) ==
  LET f == frame.f
  IN  /\ ~frame.static /\ n > f.sz
      /\ frame' = [frame EXCEPT !.f =
           [data |-> [i \in 1 .. n + 1 |-> IF i <= f.size THEN Read(f, FromFirst(f, f.size - i))
                                           ELSE Junk],
            it |-> (f.size - 1) % IndexMod, size |-> f.size, sz |-> n]]
      /\ window' = SubSeq(window, 1, f.size)
      /\ UNCHANGED <<back, outside, evicted, spline, pushes>>

\* b_spline::add_point: point number pushes + 1, and the segment of the last
\* four points if all of them are there.
AddPoint ==
  LET p == spline.points
      q == Write(Write(Forward(p), LastSlot(p), Junk), FirstSlot(Forward(p)), pushes + 1)
      four == [i \in 1 .. 4 |-> Read(q, FromFirst(q, 4 - i))]
      s == spline.segments
      t == Write(Write(Forward(s), LastSlot(s), NoSegment), FirstSlot(Forward(s)), four)
  IN  /\ pushes < MaxPushes /\ pushes' = pushes + 1
      /\ spline' = [points |-> q,
                    segments |-> IF \E i \in 1 .. 4 : four[i] = Junk THEN s ELSE t]
      /\ UNCHANGED <<frame, window, back, outside, evicted>>

\* The segments get_point looks at: up to the first that is not there.
Segments ==
  LET s == spline.segments
      there == {k \in 0 .. NumPts - 4 : \A j \in 0 .. k : Read(s, FromFirst(s, j)) # NoSegment}
  IN  [k \in there |-> Read(s, FromFirst(s, k))]

FramesNext == MoveFwd \/ MoveBck \/ PopBack \/ \E n \in FrameSizes : Reserve(n)
SplineNext == AddPoint

-----------------------------------------------------------------------------
(* However a frame is moved, popped and grown, what it counts as its size  *)
(* are the newest values in order, and all of them as long as it was never *)
(* moved back, which forgets the rest (static_frame.hpp:69).  A value that *)
(* stays is never handed to the function of move_fwd as the one that goes. *)
(* Only a dynamic_frame that was not grown writes outside its array        *)
(* (dynamic_frame.hpp:28), and only then may values be lost.               *)
FrameIsWindow ==
  LET f == frame.f
  IN  /\ outside => ~frame.static
      /\ ~outside =>
           /\ f.size <= Len(window) /\ (~back => f.size = Len(window))
           /\ \A k \in 0 .. f.size - 1 : Read(f, FromFirst(f, k)) = window[k + 1]
           /\ \A i \in DOMAIN window : i <= f.size => evicted # window[i]

(* The spline's segments are those of the newest four points, of the four  *)
(* before the newest and so on, without gaps, as many as fit               *)
(* (b_spline.hpp:48).                                                      *)
SplineFollows ==
  \A k \in 0 .. NumPts - 4 :
    /\ k \in DOMAIN Segments <=> spline.points.size >= 4 + k
    /\ k \in DOMAIN Segments => Segments[k] = [i \in 1 .. 4 |-> pushes - k - 4 + i]

(* A frame shows the newest values, and the spline on top of two of them   *)
(* the segments of its newest points.                                      *)
FramesExact == FrameIsWindow /\ SplineFollows
=============================================================================
