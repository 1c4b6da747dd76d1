------------------------------ MODULE GlTextures ------------------------------
(***************************************************************************)
(* Which of the uploaded textures a draw shows (sys/eapp/live_gl.rs).  The *)
(* runtime never learns what a material handle stands for: it looks for an *)
(* upload tagged with the handle, and otherwise infers one from the texture*)
(* coordinates (UVs) of the draw.                                          *)
(*                                                                         *)
(* Textures are as wide as high, and the extent of UVs has one dimension:  *)
(* both are treated alike.  Every upload in the list has a decoded texture,*)
(* since the handlers read exactly as many bytes as the format needs.      *)
(***************************************************************************)
EXTENDS Naturals, Sequences, FiniteSets

CONSTANTS
  Names,       \* texture names and material handles
  Pointers,    \* those that are addresses in work RAM
  Sizes,       \* widths of textures
  Sources,     \* where their pixels are in guest memory
  MinColumns,  \* 32: the glyphs in a row of a font
  MaxUv        \* bound on texture coordinates

NoName == "no name"
None == 0    \* no upload; they are numbered from 1

ASSUME TexturesAssumption ==
  /\ Sizes \subseteq Nat \ {0} /\ {MinColumns, MaxUv} \subseteq Nat
  /\ NoName \notin Names /\ Pointers \subseteq Names

(* Texture coordinates that reach from lo to hi.                           *)
Extents == {e \in [lo : 0 .. MaxUv, hi : 0 .. MaxUv] : e.lo <= e.hi}
Span(e) == IF e.hi = e.lo THEN 1 ELSE e.hi - e.lo
Need(e) == IF e.hi = 0 THEN 1 ELSE e.hi

(* One from a resource descriptor has another code of its format.          *)
Upload == [name : Names \cup {NoName}, size : Sizes, a8 : BOOLEAN, src : Sources, resource : BOOLEAN]

(* Of a set of indices of the list, or None of the empty one.              *)
First(is) == IF is = {} THEN None ELSE CHOOSE i \in is : \A j \in is : i <= j
Latest(is) == IF is = {} THEN None ELSE CHOOSE i \in is : \A j \in is : j <= i

(* min_by_key on the area and then on the index.                           *)
Smallest(ups, is) == First({i \in is : \A j \in is : ups[i].size <= ups[j].size})

Else(i, j) == IF i # None THEN i ELSE j

(* select_upload_by_tex_name, and the same if it contains the extent.      *)
ByName(ups, n) == Latest({i \in DOMAIN ups : ups[i].name = n})
ByNameContaining(ups, n, e) ==
  LET i == ByName(ups, n)
  IN  IF i # None /\ ups[i].size >= Need(e) THEN i ELSE None

(* select_upload_for_uv_slice: by exact size, or the smallest that contains*)
(* the extent.                                                             *)
SmallestContaining(ups, e) == Smallest(ups, {i \in DOMAIN ups : ups[i].size >= Need(e)})
ForUvs(ups, e) ==
  Else(First({i \in DOMAIN ups : ups[i].size = Span(e)}), SmallestContaining(ups, e))

(* The same among the uploads of one name, the latest first.               *)
NamedForUvs(ups, n, e) ==
  LET named == {i \in DOMAIN ups : ups[i].name = n}
  IN  Else(Latest({i \in named : ups[i].size = Span(e)}),
           Smallest(ups, {i \in named : ups[i].size >= Need(e)}))

(* select_upload_for_generated_text_uvs: the smallest font with cells of   *)
(* this extent.                                                            *)
ForText(ups, e) ==
  LET cell == Span(e) + 1
      Font(u) == /\ u.a8 /\ u.size >= Need(e)
                 /\ u.size % cell = 0 /\ u.size \div cell >= MinColumns
  IN  Else(Smallest(ups, {i \in DOMAIN ups : Font(ups[i])}), SmallestContaining(ups, e))

(* Mutant: the size of the texture decides before its name.                *)
WithUvsSizeFirst(ups, n, state, e) ==
  Else(ForUvs(ups, e), Else(ByNameContaining(ups, n, e), NamedForUvs(ups, n, e)))

(* rasterize_draw and rasterize_triangle_strip_record, for explicit UVs.   *)
WithUvs(ups, n, state, e) ==
  Else(ByNameContaining(ups, n, e),
       Else(NamedForUvs(ups, n, e),
            Else(ForUvs(ups, e),
                 IF state \notin Pointers \cup {NoName, n} THEN NamedForUvs(ups, state, e) ELSE None)))

(* For UVs that are generated from a glyph of a text.                      *)
WithText(ups, n, e) ==
  IF n \in Pointers THEN Else(ByNameContaining(ups, n, e), ForText(ups, e)) ELSE WithUvs(ups, n, NoName, e)

(* A draw without UVs takes the latest of its name, whatever its size.     *)
WithoutUvs(ups, n) == ByName(ups, n)
===============================================================================
