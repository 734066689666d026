----------------------------- MODULE Boundaries -----------------------------
(***************************************************************************)
(* Where the pointer leaves a computer and where it enters the other one   *)
(* (src/src/geometry.rs, the layout checks of src/src/bridge.rs, and the   *)
(* strips of src/src/capture_probe.rs).  An edge of a layout is a span of  *)
(* one side of an output; a strip of two pixels along that span waits for  *)
(* the pointer, and a position is handed over as a fraction of the span.   *)
(*                                                                         *)
(* Spans and fractions are rational: a span is given in parts of Whole, a  *)
(* fraction is part/whole.  The program computes with binary64 numbers     *)
(* (rational too, with a power of two as Whole): what it computes is off   *)
(* by at most 1/Precision of a logical pixel.  An output has at most 2^15  *)
(* of them along a side and no computation has more than six steps, so     *)
(* that 2^35 is such a Precision.                                          *)
(***************************************************************************)
EXTENDS Integers, Sequences

CONSTANTS Ids, Outputs,
          Whole,      \* the denominator of the spans
          Precision   \* what computing with binary64 numbers keeps of a pixel

Sides == {"top", "bottom", "left", "right"}

Edges == [id : Ids, output : Outputs, side : Sides, start : Int, end : Int]

Sizes == [width : Nat \ {0}, height : Nat \ {0}]

MaxEdges == 16

-----------------------------------------------------------------------------
(* Layouts *)

\* Boundary::validate.
ValidSpan(e) == 0 <= e.start /\ e.end <= Whole /\ e.start < e.end

Overlap(e, f) ==
    /\ e.output = f.output /\ e.side = f.side
    /\ e.start < f.end /\ f.start < e.end

\* validate_edges.
ValidLayout(edges) ==
    /\ edges \in Seq(Edges) /\ Len(edges) \in 1..MaxEdges
    /\ \A i \in DOMAIN edges : ValidSpan(edges[i])
    /\ \A i, j \in DOMAIN edges :
          i # j => edges[i].id # edges[j].id /\ ~Overlap(edges[i], edges[j])

IdsOf(edges) == {edges[i].id : i \in DOMAIN edges}

\* LayoutRequest::validate.
ValidRequest(request) ==
    /\ ValidLayout(request.local) /\ ValidLayout(request.peer)
    /\ IdsOf(request.local) = IdsOf(request.peer)

\* active_edges: positions in the local layout, with the names of the outputs
\* that either desktop has.
Active(local, here, peer, there) ==
    {i \in DOMAIN local :
        /\ local[i].output \in here
        /\ \E j \in DOMAIN peer : peer[j].id = local[i].id /\ peer[j].output \in there}

-----------------------------------------------------------------------------
(* Rounding *)

\* What a computation makes of the pixels it should give, in parts of which unit
\* make one: something close, and never a smaller result for a larger one (each
\* operation of binary64 rounds to a nearest number).
Roundings(unit) ==
    {r \in [Nat -> Nat] :
        /\ \A x \in Nat : /\ Precision * r[x] <= Precision * x + unit
                          /\ Precision * x <= Precision * r[x] + unit
        /\ \A x, y \in Nat : x <= y => r[x] <= r[y]}

-----------------------------------------------------------------------------
(* Strips *)

LengthOf(e, size) ==
    IF e.side \in {"top", "bottom"} THEN size.width ELSE size.height

\* The offset and the extent that run gives to a strip, r and q being how their
\* products round, and prepare_edges' test that it is not narrower than one pixel.
Offset(e, size, r) == r[e.start * LengthOf(e, size)] \div Whole
Extent(e, size, q) == q[(e.end - e.start) * LengthOf(e, size)] \div Whole
Accepted(e, size, q) == q[(e.end - e.start) * LengthOf(e, size)] >= Whole

\* The pixels of a strip: its anchor, its margin and its size.
Along(e, point) == IF e.side \in {"top", "bottom"} THEN point.x ELSE point.y
Depth(e, size, point) ==
    IF e.side = "top" THEN point.y
    ELSE IF e.side = "left" THEN point.x
    ELSE IF e.side = "bottom" THEN size.height - 1 - point.y
    ELSE size.width - 1 - point.x

OnStrip(e, size, r, q, point) ==
    /\ Along(e, point) \in
          Offset(e, size, r) .. (Offset(e, size, r) + Extent(e, size, q) - 1)
    /\ Depth(e, size, point) \in 0..1

-----------------------------------------------------------------------------
(* Entry *)

\* point_at, along the span: what is cut off lies within half a pixel of the
\* ends of the output, the rest is a conversion to u32 of what r makes of it.
Tangent(e, length, part, whole, r) ==
    LET pixel == r[(e.start * whole + part * (e.end - e.start)) * length]
                    \div (Whole * whole)
    IN  IF pixel < length THEN pixel ELSE length - 1

\* point_at, away from the side: four pixels, on a small output half of it.
Near(length) == IF length >= 8 THEN 4 ELSE length \div 2
Far(length)  == IF length >= 8 THEN length - 4 ELSE length \div 2

\* placement.
Placement(e, size, part, whole, r) ==
    LET along == Tangent(e, LengthOf(e, size), part, whole, r) IN
    [x |-> IF e.side = "left" THEN Near(size.width)
           ELSE IF e.side = "right" THEN Far(size.width) ELSE along,
     y |-> IF e.side = "top" THEN Near(size.height)
           ELSE IF e.side = "bottom" THEN Far(size.height) ELSE along]

\* InputEvent::validate of an absolute position.
ValidPosition(point, size) ==
    point.x \in 0 .. (size.width - 1) /\ point.y \in 0 .. (size.height - 1)

=============================================================================
