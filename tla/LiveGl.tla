-------------------------------- MODULE LiveGl --------------------------------
(***************************************************************************)
(* The live OpenGL presenter of the eapp runtime (sys/eapp/live_gl.rs and  *)
(* its handlers in sys/eapp/mod.rs): the guest's OpenGLES imports assemble *)
(* a frame, a DMA buffer may lie under it, and whole frames go to the      *)
(* window.  The presenter is enabled, and its gate B is open.              *)
(*                                                                         *)
(* A pixel is the sources of what is seen there: the pass of the guest over*)
(* the DMA buffer, and the guest frames of the draws, of their arrays and  *)
(* of the chars of their text; there is one text object.  Translations,    *)
(* colours and the vertical flip only move or tint the picture.  Ordinals  *)
(* that change no state are left out.                                      *)
(***************************************************************************)
EXTENDS GlTextures

CONSTANTS
  SolidName,    \* handle 3, of quads that are filled with one colour
  MaxFrames, MaxPasses, MaxUploads, MaxDraws, MaxChars  \* bounds

ASSUME LiveGlAssumption == /\ MaxFrames \in Nat \ {0}
                           /\ {MaxPasses, MaxDraws, MaxChars} \subseteq Nat

VARIABLES
  continuous,   \* continuous_capture: CLICKY_GL_LIVE_CONTINUOUS is set
  frame,        \* frame_counter of the runtime
  boundary,     \* it differs from last_frame_counter
  gl,           \* what reset_for_frame resets, and the state of the frame
  material,     \* current_handle and current_state_ptr
  uploads, pendingName,
  shot,         \* prev_draw_handles and captured_first_frame
  dma,          \* the DMA buffer, and whether its end was ever written
  window        \* presented_buffer, and what the window shows of it

textureVars == <<uploads, pendingName>>
vars == <<continuous, frame, boundary, gl, material, textureVars, shot, dma, window>>

Rows == {"top", "bottom"}       \* the first and the last bytes of the buffer
Slots == {0, 1, 2}              \* array 0 holds positions, 1 or 2 texture coordinates
Names0 == Names \cup {NoName}

Clear == [dma |-> <<>>, frames |-> {}, opaque |-> FALSE]
Blank == [r \in Rows |-> Clear]
NoArray == [kind |-> "none", frame |-> 0, current |-> FALSE]
NoText == [chars |-> <<>>, eaten |-> 0]     \* the frames of the recorded chars

(* reset_for_frame: whether a frame is active survives.                    *)
NewFrame(g) == [g EXCEPT !.arrays = [s \in Slots |-> NoArray], !.enabled = {},
                         !.fb = Blank, !.draws = <<>>, !.counted = 0, !.text = NoText]

Init ==
  /\ continuous \in BOOLEAN
  /\ frame = 1 /\ boundary = FALSE
  /\ gl = NewFrame([active |-> FALSE, overlaid |-> FALSE, arrays |-> <<>>, enabled |-> {},
                    fb |-> Blank, draws |-> <<>>, counted |-> 0, text |-> NoText])
  /\ material = [handle |-> NoName, state |-> NoName]
  /\ uploads = <<>> /\ pendingName = NoName
  /\ shot = [prev |-> <<>>, captured |-> FALSE]
  /\ dma = [rows |-> [r \in Rows |-> 0], dirty |-> FALSE, reached |-> FALSE]
  /\ window = Blank

-------------------------------------------------------------------------------
(* Mutant: the picture of the last frame is drawn over.                    *)
AtCallUncleared == IF boundary THEN [NewFrame(gl) EXCEPT !.fb = gl.fb] ELSE gl

(* Every OpenGLES import first notices a new guest frame.                  *)
AtCall == IF boundary THEN NewFrame(gl) ELSE gl
GlCall(g) == gl' = g /\ boundary' = FALSE

(* begin_frame; an active frame only stays active.                         *)
Begun(g) == [g EXCEPT !.active = TRUE, !.overlaid = FALSE]

(* overlay_dma_rgb565: the buffer shows through where nothing opaque was   *)
(* drawn, and every pixel is opaque after it.                              *)
Under(g, r) == IF g.fb[r].opaque THEN g.fb[r]
               ELSE [g.fb[r] EXCEPT !.dma = <<dma.rows[r]>>, !.opaque = TRUE]
Overlaid(g) == [g EXCEPT !.overlaid = TRUE, !.fb = [r \in Rows |-> Under(g, r)]]

(* Mutant: such a frame shows its empty picture.                           *)
ShownBlack(g) == g.fb

(* complete_frame: a frame without draws and overlay keeps the picture.    *)
Shown(g) == IF g.draws = <<>> /\ ~g.overlaid THEN window ELSE g.fb
Completed(g) == [g EXCEPT !.active = FALSE]

(* Ordinal 158.                                                            *)
CandidateBegin ==
  /\ GlCall(IF continuous THEN Begun(AtCall) ELSE AtCall)
  /\ UNCHANGED <<continuous, frame, material, textureVars, shot, dma, window>>

(* Ordinal 157: the DMA buffer under the frame, unless it is still filled  *)
(* with its 0x2d; a frame that never began is begun here.                  *)
CandidatePresent ==
  /\ LET hasDma == \E r \in Rows : dma.rows[r] # 0
         over(g) == IF hasDma THEN Overlaid(g) ELSE g
         first == over(AtCall)
         g == IF first.active THEN first ELSE over(Begun(first))
     IN  IF continuous
         THEN GlCall(Completed(g)) /\ window' = Shown(g)
         ELSE GlCall(AtCall) /\ UNCHANGED window
  /\ UNCHANGED <<continuous, frame, material, textureVars, shot, dma>>

-------------------------------------------------------------------------------
(* Ordinal 137: a valid array is also enabled; 40 enables any.             *)
DefineArray(s, kind) ==
  /\ GlCall([AtCall EXCEPT !.arrays[s] = [kind |-> kind, frame |-> frame, current |-> TRUE],
                           !.enabled = IF kind = "bad" THEN @ ELSE @ \cup {s}])
  /\ UNCHANGED <<continuous, frame, material, textureVars, shot, dma, window>>

EnableArray(s) ==
  /\ GlCall([AtCall EXCEPT !.enabled = @ \cup {s}])
  /\ UNCHANGED <<continuous, frame, material, textureVars, shot, dma, window>>

(* Ordinal 159: the arrays are those of an earlier material now.           *)
BindMaterial(n, state) ==
  /\ GlCall([AtCall EXCEPT !.arrays = [s \in Slots |-> [AtCall.arrays[s] EXCEPT !.current = FALSE]]])
  /\ material' = [handle |-> n, state |-> state]
  /\ UNCHANGED <<continuous, frame, textureVars, shot, dma, window>>

(* Ordinal 45 with a descriptor that is itself the texture names the next  *)
(* upload; with a pointer to one it uploads its pixels, once.              *)
NameTexture(n) ==
  /\ GlCall(AtCall) /\ pendingName' = n
  /\ UNCHANGED <<continuous, frame, material, uploads, shot, dma, window>>

ResourceUpload(n, size, a8, src) ==
  /\ GlCall(AtCall) /\ Len(uploads) < MaxUploads
  /\ LET known == \E i \in DOMAIN uploads :
                     uploads[i] = [name |-> uploads[i].name, size |-> size, a8 |-> a8,
                                   src |-> src, resource |-> TRUE]
     IN  uploads' = IF known THEN uploads
                    ELSE Append(uploads, [name |-> n, size |-> size, a8 |-> a8,
                                          src |-> src, resource |-> TRUE])
  /\ UNCHANGED <<continuous, frame, material, pendingName, shot, dma, window>>

(* Ordinal 4 names the next upload unless it has a name already.           *)
BindTexture(n) ==
  /\ GlCall(AtCall)
  /\ pendingName' = IF pendingName = NoName THEN n ELSE pendingName
  /\ UNCHANGED <<continuous, frame, material, uploads, shot, dma, window>>

(* Ordinal 99 uses the name up; an upload that fails changes nothing.      *)
UploadTexture(size, a8, src) ==
  /\ GlCall(AtCall) /\ Len(uploads) < MaxUploads
  /\ uploads' = Append(uploads, [name |-> pendingName, size |-> size, a8 |-> a8,
                                 src |-> src, resource |-> FALSE])
  /\ pendingName' = NoName
  /\ UNCHANGED <<continuous, frame, material, shot, dma, window>>

-------------------------------------------------------------------------------
(* live_decode_positions_range and live_decode_uvs_range_any_epoch: arrays *)
(* of an earlier material, or of no draw yet, serve as well; a solid colour*)
(* must belong to this material.  Array 2 serves if array 1 is not defined.*)
Usable(g, s, kind) == g.arrays[s].kind = kind /\ s \in g.enabled
HasPositions(g) == Usable(g, 0, "pos")
UvSlot(g) == IF g.arrays[1].kind # "none" THEN 1 ELSE 2
HasUvs(g) == Usable(g, UvSlot(g), "uv")
IsSolid(g) == /\ material.handle = SolidName
              /\ Usable(g, 1, "colour") /\ g.arrays[1].current

(* The frames of this draw and of the arrays it takes.                     *)
Taken(g) == {frame, g.arrays[0].frame}
              \cup IF IsSolid(g) \/ HasUvs(g) THEN {g.arrays[UvSlot(g)].frame} ELSE {}

(* A draw of used, painted on rows.  It blends with what was there, unless *)
(* it covers it.                                                           *)
Painted(g, rows, cover, used) ==
  [g EXCEPT !.fb = [r \in Rows |->
     IF r \in rows
     THEN [g.fb[r] EXCEPT !.frames = @ \cup used, !.opaque = @ \/ cover]
     ELSE g.fb[r]]]

(* live_capture_frame: the picture as it is goes to the window.            *)
Captured(g) == g.fb

(* live_finalize_draws.  In the diagnostic mode the first frame of four    *)
(* draws whose handles repeat those of the last one is captured.           *)
Finalize(g, records) ==
  LET n == IF records = <<>> THEN 1 ELSE Len(records)
      all == g.draws \o records
      done == [g EXCEPT !.draws = all, !.counted = @ + n]
      four == ~continuous /\ done.counted = 4
      capture == four /\ shot.prev = <<all>> /\ ~shot.captured
  IN  /\ GlCall(done)
      /\ shot' = IF four THEN [prev |-> <<all>>, captured |-> shot.captured \/ capture] ELSE shot
      /\ window' = IF capture THEN Captured(g) ELSE window

Records(n) == [i \in 1 .. n |-> material.handle]

(* A draw that looks for a glyph: the state block has its UVs, or it is    *)
(* found by its char, or there is none after all.                          *)
Glyphs == {"none", "static", "found", "failed"}
Looks(glyph) == glyph \in {"found", "failed"}
HasUvsOf(glyph) == glyph \in {"static", "found"}
CharLeft(g) == g.text.eaten < Len(g.text.chars)

(* Mutant: a char is used up although none was recorded.                   *)
TextUnchecked(g, glyph) == IF Looks(glyph) THEN [g EXCEPT !.text.eaten = @ + 1] ELSE g

(* take_text_char_for_draw: a recorded char is used up even if no glyph can*)
(* be decoded from it.  Without one, the text in guest memory is searched. *)
Text(g, glyph) ==
  IF Looks(glyph) /\ CharLeft(g) THEN [g EXCEPT !.text.eaten = @ + 1] ELSE g
CharTaken(g, glyph) == IF glyph = "found" /\ CharLeft(g) THEN {g.text.chars[g.text.eaten + 1]} ELSE {}

QuadTexture(g, glyph, e) ==
  IF HasUvsOf(glyph) THEN WithText(uploads, material.handle, e)
  ELSE IF HasUvs(g) THEN WithUvs(uploads, material.handle, material.state, e)
  ELSE WithoutUvs(uploads, material.handle)

(* A glyph has its own UVs, so that the array of them is not taken.        *)
QuadTaken(g, glyph) ==
  IF HasUvsOf(glyph) /\ ~IsSolid(g) THEN {frame, g.arrays[0].frame} \cup CharTaken(g, glyph)
  ELSE Taken(g)

(* Ordinal 37, mode 7: a single quad may take its UVs from a glyph.        *)
DrawQuads(groups, glyph, e, rows, cover) ==
  /\ groups > 1 => glyph = "none"
  /\ Len(gl.draws) + groups <= MaxDraws /\ gl.counted + groups <= MaxDraws
  /\ LET began == IF continuous THEN [AtCall EXCEPT !.active = TRUE] ELSE AtCall
         g == Text(began, glyph)
     IN  IF ~HasPositions(began) THEN Finalize(began, Records(1))
         ELSE IF IsSolid(g) \/ QuadTexture(g, glyph, e) # None
         THEN Finalize(Painted(g, rows, cover, QuadTaken(began, glyph)), Records(groups))
         ELSE Finalize(g, Records(groups))
  /\ UNCHANGED <<continuous, frame, material, textureVars, dma>>

(* rasterize_triangle_strip_record: the strip as a whole has one texture.  *)
Strip(g, e, rows, cover) ==
  IF ~HasPositions(g) THEN Finalize(g, <<>>)
  ELSE IF HasUvs(g) /\ WithUvs(uploads, material.handle, material.state, e) # None
  THEN Finalize(Painted(g, rows, cover, Taken(g)), Records(1))
  ELSE Finalize(g, Records(1))

(* Ordinal 37, mode 5.                                                     *)
DrawStrip(e, rows, cover) ==
  /\ Len(gl.draws) < MaxDraws /\ gl.counted < MaxDraws
  /\ Strip(IF continuous THEN [AtCall EXCEPT !.active = TRUE] ELSE AtCall, e, rows, cover)
  /\ UNCHANGED <<continuous, frame, material, textureVars, dma>>

(* Ordinal 38 begins a frame as ordinal 158 does.                          *)
DrawElements(e, rows, cover) ==
  /\ Len(gl.draws) < MaxDraws /\ gl.counted < MaxDraws
  /\ Strip(IF continuous /\ ~AtCall.active THEN Begun(AtCall) ELSE AtCall, e, rows, cover)
  /\ UNCHANGED <<continuous, frame, material, textureVars, dma>>

(* Any other mode, range or index type: counted, but no record.            *)
DrawUnsupported ==
  /\ gl.counted < MaxDraws
  /\ Finalize(AtCall, <<>>)
  /\ UNCHANGED <<continuous, frame, material, textureVars, dma>>

-------------------------------------------------------------------------------
(* The guest formats a char, at an address that step() watches.            *)
PushChar ==
  /\ Len(gl.text.chars) < MaxChars
  /\ gl' = [gl EXCEPT !.text.chars = Append(@, frame)]
  /\ UNCHANGED <<continuous, frame, boundary, material, textureVars, shot, dma, window>>

(* handle_bootstrap_return: the guest frame is over.                       *)
FrameReturn ==
  /\ frame < MaxFrames
  /\ frame' = frame + 1 /\ boundary' = TRUE
  /\ UNCHANGED <<continuous, gl, material, textureVars, shot, dma, window>>

(* The guest writes a row of a picture into the DMA buffer.                *)
Stored(r, p, reached) ==
  /\ dma' = [rows |-> [dma.rows EXCEPT ![r] = p], dirty |-> TRUE, reached |-> reached]
  /\ UNCHANGED <<continuous, frame, boundary, gl, material, textureVars, shot, window>>

(* w32 notes how far the buffer was ever written; w8 and w16 do not.       *)
DmaWrite32(r, p) == Stored(r, p, dma.reached \/ r = "bottom")
DmaWriteNarrow(r, p) == Stored(r, p, dma.reached)

(* step(), every 10000 steps: maybe_present_dma_frame, without a boundary. *)
DmaDue == dma.dirty /\ ~gl.active /\ dma.reached

PresentDmaFrame ==
  /\ DmaDue
  /\ LET g == Overlaid(Begun(gl))
     IN  gl' = Completed(g) /\ window' = Shown(g)
  /\ dma' = [dma EXCEPT !.dirty = FALSE]
  /\ UNCHANGED <<continuous, frame, boundary, material, textureVars, shot>>

-------------------------------------------------------------------------------
Draw(rows, e, cover) ==
  \/ \E groups \in 1 .. 2, glyph \in Glyphs : DrawQuads(groups, glyph, e, rows, cover)
  \/ DrawStrip(e, rows, cover) \/ DrawElements(e, rows, cover)
  \/ DrawUnsupported

Arrays == \/ \E s \in Slots, kind \in {"pos", "uv", "colour", "bad"} : DefineArray(s, kind)
          \/ \E s \in Slots : EnableArray(s)

Textures == \/ \E n \in Names : NameTexture(n) \/ BindTexture(n)
            \/ \E size \in Sizes, a8 \in BOOLEAN, src \in Sources :
                  \/ UploadTexture(size, a8, src)
                  \/ \E n \in Names : ResourceUpload(n, size, a8, src)

Next ==
  \/ CandidateBegin \/ CandidatePresent \/ Arrays \/ Textures
  \/ \E n, state \in Names0 : BindMaterial(n, state)
  \/ \E rows \in SUBSET Rows, e \in Extents, cover \in BOOLEAN : Draw(rows, e, cover)
  \/ PushChar \/ FrameReturn \/ PresentDmaFrame
  \/ \E r \in Rows, p \in 1 .. MaxPasses : DmaWrite32(r, p) \/ DmaWriteNarrow(r, p)

Spec == Init /\ [][Next]_vars

(* The presenter is polled by step().                                      *)
FairSpec == Spec /\ WF_vars(PresentDmaFrame)

-------------------------------------------------------------------------------
Pixel == [dma : {<<>>} \cup {<<p>> : p \in 0 .. MaxPasses}, frames : SUBSET (1 .. MaxFrames),
          opaque : BOOLEAN]
ArrayDef == [kind : {"none", "pos", "uv", "colour", "bad"}, frame : 0 .. MaxFrames, current : BOOLEAN]

TypeOK ==
  /\ continuous \in BOOLEAN /\ boundary \in BOOLEAN
  /\ frame \in 1 .. MaxFrames
  /\ gl.active \in BOOLEAN /\ gl.overlaid \in BOOLEAN
  /\ gl.arrays \in [Slots -> ArrayDef] /\ gl.enabled \subseteq Slots
  /\ gl.fb \in [Rows -> Pixel] /\ window \in [Rows -> Pixel]
  /\ gl.draws \in Seq(Names0) /\ gl.counted \in Len(gl.draws) .. MaxDraws
  /\ gl.text.chars \in Seq(1 .. MaxFrames) /\ Len(gl.text.chars) <= MaxChars
  /\ gl.text.eaten \in 0 .. Len(gl.text.chars)
  /\ material \in [handle : Names0, state : Names0]
  /\ uploads \in Seq(Upload) /\ pendingName \in Names0
  /\ shot.prev \in Seq(Seq(Names0)) /\ Len(shot.prev) <= 1 /\ shot.captured \in BOOLEAN
  /\ dma.rows \in [Rows -> 0 .. MaxPasses]

(* A picture in the window shows the draws of one guest frame only, drawn  *)
(* from arrays and chars of that frame, wherever begin, present and the    *)
(* DMA frames fall in it.                                                  *)
OneFramePicture ==
  \E f \in 1 .. MaxFrames : \A r \in Rows : window[r].frames \subseteq {f}

(* What a draw shows does not depend on what the game uploads for others:  *)
(* a draw with texture coordinates of its own, or without any, that shows  *)
(* a texture with the name of its material, shows it until another of this *)
(* name comes.  Of a glyph this does not hold: it takes any smaller font.  *)
NameAt(i) == IF i = None THEN NoName ELSE uploads[i].name
TextureStays ==
  [][uploads' # uploads =>
       \A n \in Names \ {uploads'[Len(uploads')].name} :
         /\ WithoutUvs(uploads', n) = WithoutUvs(uploads, n)
         /\ \A state \in Names0, e \in Extents :
              LET i == WithUvs(uploads, n, state, e)
              IN  NameAt(i) = n => WithUvs(uploads', n, state, e) = i]_uploads

(* As long as the DMA buffer is not used, a game that idles in a loop of   *)
(* frames without draws keeps the picture it has drawn.                    *)
IdleKeepsPicture ==
  [][continuous /\ AtCall.draws = <<>> /\ (\A r \in Rows : dma.rows[r] = 0)
       => window' = window]_vars

(* The overlay of a DMA frame, as overlay_dma_rgb565 describes it: what is *)
(* in the DMA buffer, and on top of it what the frame has drawn.           *)
DmaIsBackground ==
  [][PresentDmaFrame => \A r \in Rows : window'[r].frames = {} => window'[r].dma = <<dma.rows[r]>>]_vars
===============================================================================
