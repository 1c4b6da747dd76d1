--------------------------------- MODULE Raster --------------------------------
(***************************************************************************)
(* The software rasterizer behind the guest's OpenGL calls                 *)
(* (sys/eapp/rasterizer.rs): a textured quad is two triangles that share   *)
(* an edge, blended one after the other into the framebuffer; a solid quad *)
(* is its bounding box.                                                    *)
(*                                                                         *)
(* Vertices are in half pixels, so that the centre of pixel <<x, y>> is    *)
(* <<2x + 1, 2y + 1>> and every comparison is exact; the floats of the     *)
(* code are, for coordinates like these.  A colour is one channel and the  *)
(* alpha.  The texture has one colour, already modulated by the tint.      *)
(***************************************************************************)
EXTENDS Integers, FiniteSets

CONSTANTS
  Width, Height,   \* of the framebuffer, in pixels
  Quads,           \* the quads drawn: four vertices each, in order
  Sources,         \* the colours drawn
  Grounds          \* the colours of the framebuffer

VARIABLES quad, src, ground, kind, fb, todo
rasterVars == <<quad, src, ground, kind, fb, todo>>

Pixels == (0..(Width - 1)) \X (0..(Height - 1))
Centre(p) == <<2 * p[1] + 1, 2 * p[2] + 1>>

-------------------------------------------------------------------------------
(* blend_src_over: the source over the pixel; the channel is cut to a u8.  *)
Blend(dst, s) ==
  LET inv == 255 - s.a
      a   == s.a + ((dst.a * inv + 127) \div 255)
  IN  IF a = 0 THEN [c |-> 0, a |-> 0]
      ELSE [c |-> ((s.c * s.a + ((dst.c * dst.a * inv) \div 255) + (a \div 2)) \div a) % 256,
            a |-> a]

(* edge: positive on one side of the line from a to b.                     *)
Edge(a, b, p) == (p[1] - a[1]) * (b[2] - a[2]) - (p[2] - a[2]) * (b[1] - a[1])

(* Mutant: a pixel on an edge belongs to it, whichever edge it is.       *)
EveryEdge(a, b) == TRUE

(* is_top_left decides which of two triangles has a pixel on their edge.   *)
IsTopLeft(a, b) == LET dx == b[1] - a[1]
                       dy == b[2] - a[2]
                   IN  dy > 0 \/ (dy = 0 /\ dx < 0)

Has(a, b, p) == Edge(a, b, p) > 0 \/ (Edge(a, b, p) = 0 /\ IsTopLeft(a, b))

Oriented(v) == IF Edge(v[1], v[2], v[3]) < 0 THEN <<v[1], v[3], v[2]>> ELSE v

(* The bounding box, floor to ceiling, on the screen; both ends included.  *)
Least(S)  == CHOOSE m \in S : \A n \in S : m <= n
Most(S)   == CHOOSE m \in S : \A n \in S : n <= m
Box(vs) == LET xs == {v[1] : v \in vs}
               ys == {v[2] : v \in vs}
           IN  {p \in Pixels : /\ Least(xs) \div 2 <= p[1] /\ p[1] <= (Most(xs) + 1) \div 2
                               /\ Least(ys) \div 2 <= p[2] /\ p[2] <= (Most(ys) + 1) \div 2}

(* The pixels rasterize_triangle_tinted blends.                            *)
Covered(v) ==
  LET w == Oriented(v)
  IN  IF Edge(w[1], w[2], w[3]) = 0 THEN {}
      ELSE {p \in Box({w[1], w[2], w[3]}) :
              /\ Has(w[1], w[2], Centre(p))
              /\ Has(w[2], w[3], Centre(p))
              /\ Has(w[3], w[1], Centre(p))}

Triangle(i) == IF i = 1 THEN <<quad[1], quad[2], quad[3]>>
                        ELSE <<quad[1], quad[3], quad[4]>>

Painted(ps) == [p \in Pixels |-> IF p \in ps THEN Blend(fb[p], src) ELSE fb[p]]

-------------------------------------------------------------------------------
Init == /\ quad \in Quads /\ src \in Sources /\ ground \in Grounds
        /\ kind \in {"textured", "solid"}
        /\ fb = [p \in Pixels |-> ground]
        /\ todo = {1, 2}

(* rasterize_quad_tinted draws the two triangles in turn.                  *)
DrawTriangle(i) == /\ kind = "textured"
                   /\ i = Least(todo)
                   /\ fb' = Painted(Covered(Triangle(i)))
                   /\ todo' = todo \ {i}
                   /\ UNCHANGED <<quad, src, ground, kind>>

(* rasterize_solid_quad draws nothing in a colour that is transparent.     *)
DrawSolid == /\ kind = "solid"
             /\ todo # {}
             /\ fb' = IF src.a = 0 THEN fb
                      ELSE Painted(Box({quad[i] : i \in 1..4}))
             /\ todo' = {}
             /\ UNCHANGED <<quad, src, ground, kind>>

Next == (\E i \in todo : DrawTriangle(i)) \/ DrawSolid

Spec == Init /\ [][Next]_rasterVars

-------------------------------------------------------------------------------
(* Strictly inside, or strictly outside, a convex quad given in ring order.*)
Sides(p) == {Edge(quad[i], quad[(i % 4) + 1], Centre(p)) : i \in 1..4}
Inside(p)  == (\A e \in Sides(p) : e > 0) \/ (\A e \in Sides(p) : e < 0)
Beyond(p)  == (\E e \in Sides(p) : e > 0) /\ (\E e \in Sides(p) : e < 0)

(* Turning the same way at every corner.                                   *)
Corners(q) == {Edge(q[i], q[(i % 4) + 1], q[((i + 1) % 4) + 1]) : i \in 1..4}
Convex(q)  == (\A e \in Corners(q) : e > 0) \/ (\A e \in Corners(q) : e < 0)

Between(c, x, y) == (x <= c /\ c <= y) \/ (y <= c /\ c <= x)

(* A convex quad is blended into each of its pixels once: no pixel of the  *)
(* seam twice, none left out, none beyond it touched by the triangles.     *)
(* Over an opaque pixel the result lies between the two colours, over a    *)
(* transparent one it is the source, and a transparent source is no change.*)
QuadBlendedOnce ==
  LET once == Blend(ground, src)
  IN  todo = {} =>
        /\ \A p \in Pixels :
              /\ fb[p] \in {ground, once}
              /\ Inside(p) /\ (kind = "textured" \/ src.a > 0) => fb[p] = once
              /\ Beyond(p) /\ kind = "textured" => fb[p] = ground
        /\ ground.a = 255 => once.a = 255 /\ Between(once.c, src.c, ground.c)
        /\ ground.a = 0 /\ src.a > 0 => once = src
        /\ ground.a > 0 /\ src.a = 0 => once = ground
===============================================================================
