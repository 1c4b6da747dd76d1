----------------------------- MODULE LiveGl_proofs -----------------------------
(***************************************************************************)
(* For any textures, names and number of frames, and any guest: a picture  *)
(* in the window never mixes two guest frames, the state keeps its type, a *)
(* game that idles keeps its picture, and a texture that a draw shows by   *)
(* its name is not displaced by an upload under another name.              *)
(***************************************************************************)
EXTENDS LiveGl, SequenceTheorems, WellFoundedInduction, TLAPS

(* What the proof needs to know of the presenter's record: its arrays, its *)
(* framebuffer and its text.                                               *)
Texts == [chars : Seq(1 .. MaxFrames), eaten : Nat]
Shape(g) == /\ {"arrays", "fb", "text"} \subseteq DOMAIN g
            /\ DOMAIN g.arrays = Slots
            /\ DOMAIN g.fb = Rows
            /\ \A r \in Rows : "frames" \in DOMAIN g.fb[r]
            /\ g.text \in Texts

(* The framebuffer shows draws of frame f only ...                         *)
Shows(g, f) == \A r \in Rows : g.fb[r].frames \subseteq {f}

(* ... and the arrays and chars that a draw would take are of this frame.  *)
Fresh(g) == /\ \A s \in Slots : g.arrays[s].kind # "none" => g.arrays[s].frame = frame
            /\ \A i \in DOMAIN g.text.chars : g.text.chars[i] = frame

Good(g) == Shape(g) /\ Shows(g, frame) /\ Fresh(g)

(* The window's picture alone is not inductive.  Between the end of a guest*)
(* frame and the next OpenGLES import the framebuffer is of an older frame,*)
(* which a DMA picture may still present; after the import it is of this   *)
(* one, and so are the arrays and the chars.                               *)
IInv == /\ frame \in 1 .. MaxFrames /\ boundary \in BOOLEAN
        /\ Shape(gl)
        /\ \E f \in 1 .. MaxFrames : Shows(gl, f)
        /\ ~boundary => Good(gl)
        /\ OneFramePicture

(* A text without chars, ...                                               *)
LEMMA NoTextFits == NoText \in Texts /\ DOMAIN NoText.chars = {} /\ Len(NoText.chars) = 0
<1>1. <<>> \in Seq(1 .. MaxFrames) /\ DOMAIN <<>> = {} /\ Len(<<>>) = 0
  BY EmptySeq
<1> QED BY <1>1 DEF NoText, Texts

(* ... and a framebuffer in which nothing was drawn, fit every frame.      *)
LEMMA NewFrameGood ==
  ASSUME NEW g, Shape(g)
  PROVE  Good(NewFrame(g))
<1> DEFINE new == NewFrame(g)
<1>1. /\ {"arrays", "fb", "text"} \subseteq DOMAIN new
      /\ new.fb = Blank /\ new.arrays = [s \in Slots |-> NoArray] /\ new.text = NoText
  BY DEF NewFrame, Shape
<1>2. \A r \in Rows : new.fb[r] = Clear
  BY <1>1 DEF Blank
<1>3. "frames" \in DOMAIN Clear /\ Clear.frames = {}
  BY DEF Clear
<1>4. (\A s \in Slots : new.arrays[s] = NoArray) /\ NoArray.kind = "none"
  BY <1>1 DEF NoArray
<1>5. DOMAIN new.fb = Rows /\ DOMAIN new.arrays = Slots
  BY <1>1 DEF Blank
<1> HIDE DEF new
<1>6. Good(new)
  BY <1>1, <1>2, <1>3, <1>4, <1>5, NoTextFits DEF Good, Shape, Shows, Fresh
<1> QED BY <1>6 DEF new

(* Noticing a new frame makes the presenter's record one of this frame.    *)
LEMMA AtCallGood ==
  ASSUME IInv
  PROVE  Good(AtCall)
<1>1. CASE boundary
  BY <1>1, NewFrameGood DEF IInv, AtCall
<1>2. CASE ~boundary
  BY <1>2 DEF IInv, AtCall
<1> QED BY <1>1, <1>2

(* A handler may set any other field.                                      *)
LEMMA SameArraysAndPicture ==
  ASSUME NEW g, NEW h, NEW f, Shape(g), Shows(g, f),
         {"arrays", "fb", "text"} \subseteq DOMAIN h,
         h.arrays = g.arrays, h.fb = g.fb, h.text = g.text
  PROVE  Shape(h) /\ Shows(h, f) /\ (Fresh(g) => Fresh(h))
BY DEF Shape, Shows, Fresh

LEMMA BegunKeeps ==
  ASSUME NEW g, NEW f, Shape(g), Shows(g, f)
  PROVE  /\ Shape(Begun(g)) /\ Shows(Begun(g), f) /\ (Fresh(g) => Fresh(Begun(g)))
         /\ Shape(Completed(g)) /\ Shows(Completed(g), f) /\ (Fresh(g) => Fresh(Completed(g)))
<1>1. /\ {"arrays", "fb", "text"} \subseteq DOMAIN Begun(g)
      /\ Begun(g).arrays = g.arrays /\ Begun(g).fb = g.fb /\ Begun(g).text = g.text
  BY DEF Begun, Shape
<1>2. /\ {"arrays", "fb", "text"} \subseteq DOMAIN Completed(g)
      /\ Completed(g).arrays = g.arrays /\ Completed(g).fb = g.fb /\ Completed(g).text = g.text
  BY DEF Completed, Shape
<1> QED BY <1>1, <1>2, SameArraysAndPicture

(* The DMA buffer under the picture adds no draw to it.                    *)
LEMMA OverlaidKeeps ==
  ASSUME NEW g, NEW f, Shape(g), Shows(g, f)
  PROVE  Shape(Overlaid(g)) /\ Shows(Overlaid(g), f) /\ (Fresh(g) => Fresh(Overlaid(g)))
<1> DEFINE h == Overlaid(g)
           pic == [r \in Rows |-> Under(g, r)]
<1>1. \A r \in Rows : "frames" \in DOMAIN Under(g, r) /\ Under(g, r).frames = g.fb[r].frames
  BY DEF Under, Shape
<1>2. /\ {"arrays", "fb", "text"} \subseteq DOMAIN h /\ h.arrays = g.arrays
      /\ h.text = g.text /\ h.fb = pic
  BY DEF Overlaid, Shape
<1>3. DOMAIN pic = Rows /\ \A r \in Rows : pic[r] = Under(g, r)
  OBVIOUS
<1> HIDE DEF h, pic
<1>4. Shape(h) /\ Shows(h, f) /\ (Fresh(g) => Fresh(h))
  BY <1>1, <1>2, <1>3 DEF Shape, Shows, Fresh
<1> QED BY <1>4 DEF h

(* What a draw takes is of this frame: its arrays and its char, ...        *)
LEMMA TakenFresh ==
  ASSUME NEW g, Good(g), HasPositions(g), NEW glyph
  PROVE  Taken(g) \subseteq {frame} /\ QuadTaken(g, glyph) \subseteq {frame}
<1>1. g.arrays[0].frame = frame
  BY DEF Good, Fresh, HasPositions, Usable, Slots
<1>2. IsSolid(g) \/ HasUvs(g) => g.arrays[UvSlot(g)].frame = frame
  <2>1. UvSlot(g) \in Slots
    BY DEF UvSlot, Slots
  <2>2. IsSolid(g) \/ HasUvs(g) => g.arrays[UvSlot(g)].kind # "none"
    BY DEF IsSolid, HasUvs, Usable, UvSlot
  <2> QED BY <2>1, <2>2 DEF Good, Fresh
<1>3. CharTaken(g, glyph) \subseteq {frame}
  <2>1. g.text \in Texts /\ \A i \in DOMAIN g.text.chars : g.text.chars[i] = frame
    BY DEF Good, Shape, Fresh
  <2>2. g.text.chars \in Seq(1 .. MaxFrames) /\ g.text.eaten \in Nat
    BY <2>1 DEF Texts
  <2>3. DOMAIN g.text.chars = 1 .. Len(g.text.chars) /\ Len(g.text.chars) \in Nat
    BY <2>2, LenProperties
  <2>4. CharLeft(g) => g.text.eaten + 1 \in DOMAIN g.text.chars
    BY <2>2, <2>3 DEF CharLeft
  <2> QED BY <2>1, <2>4 DEF CharTaken
<1> QED BY <1>1, <1>2, <1>3 DEF Taken, QuadTaken

(* ... and so is the picture after it.                                     *)
LEMMA PaintedGood ==
  ASSUME NEW g, NEW rows, NEW cover, NEW used, used \subseteq {frame}, Good(g)
  PROVE  Good(Painted(g, rows, cover, used))
<1> DEFINE drawn(r) == [g.fb[r] EXCEPT !.frames = @ \cup used, !.opaque = @ \/ cover]
           h == Painted(g, rows, cover, used)
<1>1. /\ {"arrays", "fb", "text"} \subseteq DOMAIN h /\ h.arrays = g.arrays /\ h.text = g.text
      /\ h.fb = [r \in Rows |-> IF r \in rows THEN drawn(r) ELSE g.fb[r]]
  BY DEF Painted, Good, Shape
<1>2. \A r \in Rows : "frames" \in DOMAIN drawn(r) /\ drawn(r).frames = g.fb[r].frames \cup used
  BY DEF Good, Shape
<1>3. \A r \in Rows : h.fb[r] = drawn(r) \/ h.fb[r] = g.fb[r]
  BY <1>1
<1>4. DOMAIN h.fb = Rows
  BY <1>1
<1> HIDE DEF drawn, h
<1>5. \A r \in Rows : "frames" \in DOMAIN h.fb[r] /\ h.fb[r].frames \subseteq {frame}
  BY <1>2, <1>3 DEF Good, Shape, Shows
<1>6. Good(h)
  BY <1>1, <1>4, <1>5 DEF Good, Shape, Shows, Fresh
<1> QED BY <1>6 DEF h

(* A handler that leaves a good record, and the window alone or with the   *)
(* picture of that record, keeps the invariant.                            *)
LEMMA CallKeeps ==
  ASSUME IInv, NEW h, Good(h), GlCall(h), UNCHANGED frame,
         window' = window \/ window' = h.fb
  PROVE  IInv'
<1>1. gl' = h /\ boundary' = FALSE /\ frame' = frame
  BY DEF GlCall
<1>2. frame' \in 1 .. MaxFrames /\ Shows(gl, frame)' /\ Shape(gl)' /\ Fresh(gl)'
  BY <1>1 DEF IInv, Good, Shape, Shows, Fresh
<1>3. OneFramePicture'
  BY <1>1, <1>2 DEF IInv, Good, OneFramePicture, Shows
<1>4. \E f \in 1 .. MaxFrames : Shows(gl', f)
  BY <1>1 DEF IInv, Good
<1> QED BY <1>1, <1>2, <1>3, <1>4 DEF IInv, Good, Shows, Shape, Fresh

(* The end of a draw call: the diagnostic capture shows the picture of the *)
(* draw that ended it.                                                     *)
LEMMA FinalizeKeeps ==
  ASSUME IInv, NEW g, NEW records, Good(g), Finalize(g, records), UNCHANGED frame
  PROVE  IInv'
<1> DEFINE n == IF records = <<>> THEN 1 ELSE Len(records)
           all == g.draws \o records
           h == [g EXCEPT !.draws = all, !.counted = @ + n]
<1>1. {"arrays", "fb", "text"} \subseteq DOMAIN h
      /\ h.arrays = g.arrays /\ h.fb = g.fb /\ h.text = g.text
  BY DEF Good, Shape
<1>2. GlCall(h) /\ (window' = window \/ window' = g.fb)
  BY DEF Finalize, Captured
<1> HIDE DEF h
<1>3. Good(h)
  BY <1>1, SameArraysAndPicture DEF Good
<1> QED BY <1>1, <1>2, <1>3, CallKeeps

(* A strip or an indexed draw, painted or not.                             *)
LEMMA StripKeeps ==
  ASSUME IInv, NEW g, NEW e, NEW rows, NEW cover, Good(g), Strip(g, e, rows, cover),
         UNCHANGED frame
  PROVE  IInv'
<1>1. CASE ~HasPositions(g)
  BY <1>1, FinalizeKeeps DEF Strip
<1>2. CASE HasPositions(g) /\ Finalize(Painted(g, rows, cover, Taken(g)), Records(1))
  BY <1>2, TakenFresh, PaintedGood, FinalizeKeeps
<1>3. CASE HasPositions(g) /\ Finalize(g, Records(1))
  BY <1>3, FinalizeKeeps
<1> QED BY <1>1, <1>2, <1>3 DEF Strip

(* begin_frame and the draws that only make the frame active.              *)
LEMMA ActiveGood ==
  ASSUME NEW g, Good(g)
  PROVE  /\ Good([g EXCEPT !.active = TRUE]) /\ Good(Begun(g))
         /\ Good(Completed(g)) /\ Good(Overlaid(g))
<1> DEFINE h == [g EXCEPT !.active = TRUE]
<1>1. {"arrays", "fb", "text"} \subseteq DOMAIN h
      /\ h.arrays = g.arrays /\ h.fb = g.fb /\ h.text = g.text
  BY DEF Good, Shape
<1> HIDE DEF h
<1>2. Good(h)
  BY <1>1, SameArraysAndPicture DEF Good
<1>3. Good(Begun(g)) /\ Good(Completed(g)) /\ Good(Overlaid(g))
  BY BegunKeeps, OverlaidKeeps DEF Good
<1> QED BY <1>2, <1>3 DEF h

LEMMA TextGood ==
  ASSUME NEW g, Good(g), NEW glyph
  PROVE  Good(Text(g, glyph)) /\ (HasPositions(g) => HasPositions(Text(g, glyph)))
<1> DEFINE text == [g.text EXCEPT !.eaten = @ + 1]
           h == [g EXCEPT !.text = text]
<1>1. Text(g, glyph) = g \/ Text(g, glyph) = h
  BY DEF Text
<1>2. text \in Texts /\ text.chars = g.text.chars
  BY DEF Good, Shape, Texts
<1>3. /\ {"arrays", "fb", "text"} \subseteq DOMAIN h /\ h.arrays = g.arrays
      /\ h.fb = g.fb /\ h.enabled = g.enabled /\ h.text = text
  BY DEF Good, Shape
<1> HIDE DEF text, h
<1>4. Good(h)
  BY <1>2, <1>3 DEF Good, Shape, Shows, Fresh
<1>5. HasPositions(g) => HasPositions(h)
  BY <1>3 DEF HasPositions, Usable
<1> QED BY <1>1, <1>4, <1>5

LEMMA QuadsKeep ==
  ASSUME IInv, NEW groups, NEW glyph, NEW e, NEW rows, NEW cover,
         DrawQuads(groups, glyph, e, rows, cover)
  PROVE  IInv'
<1> DEFINE began == IF continuous THEN [AtCall EXCEPT !.active = TRUE] ELSE AtCall
           g == Text(began, glyph)
           used == QuadTaken(began, glyph)
<1>1. Good(began)
  BY AtCallGood, ActiveGood
<1>2. \/ ~HasPositions(began) /\ Finalize(began, Records(1))
      \/ HasPositions(began) /\ Finalize(Painted(g, rows, cover, used), Records(groups))
      \/ HasPositions(began) /\ Finalize(g, Records(groups))
  BY DEF DrawQuads
<1>3. UNCHANGED frame
  BY DEF DrawQuads
<1> HIDE DEF began
<1>4. Good(g)
  BY <1>1, TextGood
<1>5. HasPositions(began) => used \subseteq {frame}
  BY <1>1, TakenFresh
<1> HIDE DEF g, used
<1> QED BY <1>1, <1>2, <1>3, <1>4, <1>5, PaintedGood, FinalizeKeeps

(* Arrays that are defined, enabled or made those of an older material.    *)
LEMMA ArraysKeep ==
  ASSUME IInv, Arrays \/ \E n, state \in Names0 : BindMaterial(n, state)
  PROVE  IInv'
<1> DEFINE a == AtCall
<1>1. Good(a)
  BY AtCallGood
<1> HIDE DEF a
<1>2. ASSUME NEW s \in Slots, NEW kind, DefineArray(s, kind)
      PROVE  IInv'
  <2> DEFINE def == [kind |-> kind, frame |-> frame, current |-> TRUE]
             h == [a EXCEPT !.arrays[s] = def,
                            !.enabled = IF kind = "bad" THEN @ ELSE @ \cup {s}]
  <2>1. {"arrays", "fb", "text"} \subseteq DOMAIN h /\ h.fb = a.fb /\ h.text = a.text
        /\ h.arrays = [a.arrays EXCEPT ![s] = def]
    BY <1>1 DEF Good, Shape
  <2>2. GlCall(h) /\ UNCHANGED <<frame, window>>
    BY <1>2 DEF DefineArray, a
  <2>3. def.frame = frame
    OBVIOUS
  <2> HIDE DEF h, def
  <2>4. Good(h)
    BY <1>1, <2>1, <2>3 DEF Good, Shape, Shows, Fresh
  <2> QED BY <2>2, <2>4, CallKeeps
<1>3. ASSUME NEW s \in Slots, EnableArray(s)
      PROVE  IInv'
  <2> DEFINE h == [a EXCEPT !.enabled = @ \cup {s}]
  <2>1. {"arrays", "fb", "text"} \subseteq DOMAIN h /\ h.fb = a.fb /\ h.arrays = a.arrays
        /\ h.text = a.text
    BY <1>1 DEF Good, Shape
  <2>2. GlCall(h) /\ UNCHANGED <<frame, window>>
    BY <1>3 DEF EnableArray, a
  <2> HIDE DEF h
  <2>3. Good(h)
    BY <1>1, <2>1, SameArraysAndPicture DEF Good
  <2> QED BY <2>2, <2>3, CallKeeps
<1>4. ASSUME NEW n, NEW state, BindMaterial(n, state)
      PROVE  IInv'
  <2> DEFINE old(s) == [a.arrays[s] EXCEPT !.current = FALSE]
             olds == [s \in Slots |-> old(s)]
             h == [a EXCEPT !.arrays = olds]
  <2>1. {"arrays", "fb", "text"} \subseteq DOMAIN h /\ h.fb = a.fb /\ h.arrays = olds
        /\ h.text = a.text
    BY <1>1 DEF Good, Shape
  <2>2. GlCall(h) /\ UNCHANGED <<frame, window>>
    BY <1>4 DEF BindMaterial, a
  <2>3. \A s \in Slots : old(s).kind = a.arrays[s].kind /\ old(s).frame = a.arrays[s].frame
    OBVIOUS
  <2>4. DOMAIN olds = Slots /\ \A s \in Slots : olds[s] = old(s)
    OBVIOUS
  <2> HIDE DEF h, old, olds
  <2>5. Good(h)
    BY <1>1, <2>1, <2>3, <2>4 DEF Good, Shape, Shows, Fresh
  <2> QED BY <2>2, <2>5, CallKeeps
<1> QED BY <1>2, <1>3, <1>4 DEF Arrays

(* Ordinals 157 and 158: the DMA buffer lies under the frame once or twice.*)
LEMMA CandidatesKeep ==
  ASSUME IInv, CandidateBegin \/ CandidatePresent
  PROVE  IInv'
<1>1. Good(AtCall)
  BY AtCallGood
<1>2. CASE CandidateBegin
  BY <1>1, <1>2, ActiveGood, CallKeeps DEF CandidateBegin
<1>3. CASE CandidatePresent
  <2> DEFINE hasDma == \E r \in Rows : dma.rows[r] # 0
             over(g) == IF hasDma THEN Overlaid(g) ELSE g
             first == over(AtCall)
             g == IF first.active THEN first ELSE over(Begun(first))
  <2>1. Good(first)
    BY <1>1, ActiveGood
  <2>2. Good(g)
    <3>1. Good(Begun(first))
      BY <2>1, ActiveGood
    <3> HIDE DEF first
    <3> QED BY <2>1, <3>1, ActiveGood
  <2>3. UNCHANGED frame /\ (\/ GlCall(Completed(g)) /\ window' = Shown(g)
                            \/ GlCall(AtCall) /\ UNCHANGED window)
    BY <1>3 DEF CandidatePresent
  <2> HIDE DEF g
  <2>4. Good(Completed(g)) /\ Completed(g).fb = g.fb
    BY <2>2, ActiveGood DEF Completed, Good, Shape
  <2>5. Shown(g) = window \/ Shown(g) = g.fb
    BY DEF Shown
  <2> QED BY <1>1, <2>3, <2>4, <2>5, CallKeeps
<1> QED BY <1>2, <1>3

(* Uploads change neither the picture nor the arrays.                      *)
LEMMA TexturesKeep ==
  ASSUME IInv, Textures
  PROVE  IInv'
<1>1. GlCall(AtCall) /\ UNCHANGED <<frame, window>>
  BY DEF Textures, NameTexture, BindTexture, UploadTexture, ResourceUpload
<1> QED BY <1>1, AtCallGood, CallKeeps

LEMMA DrawsKeep ==
  ASSUME IInv, NEW rows, NEW e, NEW cover, Draw(rows, e, cover)
  PROVE  IInv'
<1> DEFINE a == AtCall
<1>1. Good(a) /\ Good([a EXCEPT !.active = TRUE]) /\ Good(Begun(a))
  BY AtCallGood, ActiveGood
<1>2. CASE DrawStrip(e, rows, cover)
  BY <1>1, <1>2, StripKeeps DEF DrawStrip
<1>3. CASE DrawElements(e, rows, cover)
  BY <1>1, <1>3, StripKeeps DEF DrawElements
<1>4. CASE DrawUnsupported
  BY <1>1, <1>4, FinalizeKeeps DEF DrawUnsupported
<1> QED BY <1>2, <1>3, <1>4, QuadsKeep DEF Draw

(* A DMA frame between two guest calls completes the picture as it is,     *)
(* perhaps that of an older guest frame, but of one.                       *)
LEMMA DmaFrameKeeps ==
  ASSUME IInv, PresentDmaFrame
  PROVE  IInv'
<1> DEFINE g == Overlaid(Begun(gl))
<1>1. PICK f \in 1 .. MaxFrames : Shows(gl, f) /\ (~boundary => f = frame)
  BY DEF IInv, Good
<1>2. Shape(g) /\ Shows(g, f) /\ (Fresh(gl) => Fresh(g))
  BY <1>1, BegunKeeps, OverlaidKeeps DEF IInv
<1>3. gl' = Completed(g) /\ window' = Shown(g) /\ UNCHANGED <<frame, boundary>>
  BY DEF PresentDmaFrame
<1> HIDE DEF g
<1>4. /\ Shape(gl') /\ Shows(gl', f) /\ (Fresh(gl) => Fresh(gl'))
  BY <1>2, <1>3, BegunKeeps
<1>5. \E h \in 1 .. MaxFrames : \A r \in Rows : window'[r].frames \subseteq {h}
  BY <1>2, <1>3 DEF Shown, Shows, IInv, OneFramePicture
<1>6. ~boundary => Fresh(gl') /\ Shows(gl', frame)
  BY <1>1, <1>4 DEF IInv, Good
<1> QED BY <1>3, <1>4, <1>5, <1>6 DEF IInv, Good, OneFramePicture, Shape, Shows, Fresh

LEMMA InitHolds == Init => IInv
<1> SUFFICES ASSUME Init PROVE IInv
  OBVIOUS
<1> DEFINE g == [active |-> FALSE, overlaid |-> FALSE, arrays |-> <<>>, enabled |-> {},
                 fb |-> Blank, draws |-> <<>>, counted |-> 0, text |-> NoText]
<1>1. /\ {"arrays", "fb", "text"} \subseteq DOMAIN NewFrame(g) /\ NewFrame(g).text = NoText
      /\ NewFrame(g).fb = Blank /\ NewFrame(g).arrays = [s \in Slots |-> NoArray]
  BY DEF NewFrame
<1>2. gl = NewFrame(g) /\ frame = 1 /\ boundary = FALSE /\ window = Blank
  BY DEF Init
<1> HIDE DEF g
<1>3. \A r \in Rows : Blank[r] = Clear /\ "frames" \in DOMAIN Clear /\ Clear.frames = {}
  BY DEF Blank, Clear
<1>4. DOMAIN Blank = Rows /\ \A s \in Slots : [t \in Slots |-> NoArray][s].kind = "none"
  BY DEF Blank, NoArray
<1>5. Good(gl)
  BY <1>1, <1>2, <1>3, <1>4, NoTextFits DEF Good, Shape, Shows, Fresh
<1>6. 1 \in 1 .. MaxFrames
  BY LiveGlAssumption
<1>7. OneFramePicture
  BY <1>2, <1>3, <1>6 DEF OneFramePicture
<1> QED BY <1>2, <1>5, <1>6, <1>7 DEF IInv, Good

LEMMA NextKeeps == IInv /\ [Next]_vars => IInv'
<1> SUFFICES ASSUME IInv, [Next]_vars PROVE IInv'
  OBVIOUS
<1>1. CASE CandidateBegin \/ CandidatePresent
  BY <1>1, CandidatesKeep
<1>2. CASE Arrays \/ \E n, state \in Names0 : BindMaterial(n, state)
  BY <1>2, ArraysKeep
<1>3. CASE Textures
  BY <1>3, TexturesKeep
<1>4. CASE \E rows \in SUBSET Rows, e \in Extents, cover \in BOOLEAN : Draw(rows, e, cover)
  BY <1>4, DrawsKeep
<1>5. CASE PushChar
  <2> DEFINE chars == Append(gl.text.chars, frame)
             text == [gl.text EXCEPT !.chars = chars]
             h == [gl EXCEPT !.text = text]
  <2>1. gl.text \in Texts /\ frame \in 1 .. MaxFrames
    BY DEF IInv, Shape
  <2>2. /\ chars \in Seq(1 .. MaxFrames)
        /\ (\A i \in DOMAIN gl.text.chars : gl.text.chars[i] = frame)
             => \A i \in DOMAIN chars : chars[i] = frame
    BY <2>1, AppendProperties, LenProperties DEF Texts
  <2> HIDE DEF chars
  <2>3. text \in Texts /\ text.chars = chars
    BY <2>1, <2>2 DEF Texts
  <2>4. /\ {"arrays", "fb", "text"} \subseteq DOMAIN h /\ h.arrays = gl.arrays
        /\ h.fb = gl.fb /\ h.text = text
    BY DEF IInv, Shape
  <2>5. gl' = h /\ UNCHANGED <<frame, boundary, window>>
    BY <1>5 DEF PushChar, chars
  <2> HIDE DEF h, text
  <2>6. Shape(gl') /\ (Good(gl) => Good(gl')) /\ \A f : Shows(gl, f) => Shows(gl', f)
    BY <2>2, <2>3, <2>4, <2>5 DEF IInv, Good, Shape, Shows, Fresh
  <2> QED BY <2>5, <2>6 DEF IInv, Good, Shape, Shows, Fresh, OneFramePicture
<1>6. CASE FrameReturn
  <2>1. UNCHANGED <<gl, window>> /\ boundary' = TRUE /\ frame < MaxFrames /\ frame' = frame + 1
    BY <1>6 DEF FrameReturn
  <2>2. frame' \in 1 .. MaxFrames
    BY <2>1, LiveGlAssumption DEF IInv
  <2> QED BY <2>1, <2>2 DEF IInv, Good, Shape, Shows, Fresh, OneFramePicture
<1>7. CASE PresentDmaFrame
  BY <1>7, DmaFrameKeeps
<1>8. CASE UNCHANGED <<frame, boundary, gl, window>>
  BY <1>8 DEF IInv, Good, Shape, Shows, Fresh, OneFramePicture
<1>9. CASE \E r \in Rows, p \in 1 .. MaxPasses : DmaWrite32(r, p) \/ DmaWriteNarrow(r, p)
  BY <1>8, <1>9 DEF DmaWrite32, DmaWriteNarrow, Stored
<1>10. CASE UNCHANGED vars
  BY <1>8, <1>10 DEF vars
<1> QED BY <1>1, <1>2, <1>3, <1>4, <1>5, <1>6, <1>7, <1>9, <1>10 DEF Next

(* A picture in the window shows the draws of one guest frame only, drawn  *)
(* from arrays of that frame: complete_frame, the diagnostic capture and   *)
(* maybe_present_dma_frame (sys/eapp/mod.rs) may fall between any two of   *)
(* the guest's imports.                                                    *)
THEOREM OneFramePictureHolds == Spec => []OneFramePicture
<1>1. IInv => OneFramePicture
  BY DEF IInv
<1> QED BY InitHolds, NextKeeps, <1>1, PTL DEF Spec

-------------------------------------------------------------------------------
(* The presenter's record, field by field.                                 *)
ArrayDefs == [Slots -> ArrayDef]
Enabled == SUBSET Slots
Pictures == [Rows -> Pixel]
Draws == Seq(Names0)
GlRecord == [active : BOOLEAN, overlaid : BOOLEAN, arrays : ArrayDefs, enabled : Enabled,
             fb : Pictures, draws : Draws, counted : Nat, text : Texts]

(* The guest never wrote the DMA buffer.                                   *)
Untouched == \A r \in Rows : dma.rows[r] = 0

(* Every record is of a call that was counted; no char is taken twice; what*)
(* was never written is not laid under a frame.                            *)
Typed(g) == /\ g \in GlRecord
            /\ Untouched => ~g.overlaid
            /\ Len(g.draws) <= g.counted /\ g.counted <= MaxDraws
            /\ g.text.eaten <= Len(g.text.chars) /\ Len(g.text.chars) <= MaxChars

(* OneFramePicture's invariant gives the frames of the arrays; this one the*)
(* types of the other fields, and that a buffer that was never written is  *)
(* neither dirty nor laid under a frame.                                   *)
TInv == /\ continuous \in BOOLEAN
        /\ Typed(gl) /\ window \in [Rows -> Pixel]
        /\ material \in [handle : Names0, state : Names0]
        /\ uploads \in Seq(Upload) /\ pendingName \in Names0
        /\ shot \in [prev : Seq(Seq(Names0)), captured : BOOLEAN] /\ Len(shot.prev) <= 1
        /\ dma \in [rows : [Rows -> 0 .. MaxPasses], dirty : BOOLEAN, reached : BOOLEAN]
        /\ Untouched => ~dma.dirty

(* An empty picture is a picture.                                          *)
LEMMA BlankTyped == Clear \in Pixel /\ Blank \in [Rows -> Pixel]
<1>1. Clear \in Pixel
  BY DEF Clear, Pixel
<1> QED BY <1>1 DEF Blank

(* reset_for_frame.                                                        *)
LEMMA NewFrameOfTyped ==
  ASSUME NEW g \in GlRecord, Untouched => ~g.overlaid
  PROVE  /\ Typed(NewFrame(g)) /\ NewFrame(g).draws = <<>> /\ NewFrame(g).counted = 0
         /\ NewFrame(g).overlaid = g.overlaid
<1> DEFINE none == [s \in Slots |-> NoArray]
           h == NewFrame(g)
<1>1. none \in [Slots -> ArrayDef]
  BY LiveGlAssumption DEF NoArray, ArrayDef
<1>2. /\ NoText \in Texts /\ NoText.eaten <= Len(NoText.chars)
      /\ Len(NoText.chars) <= MaxChars
  BY NoTextFits, LiveGlAssumption DEF NoText
<1>3. <<>> \in Seq(Names0) /\ Len(<<>>) = 0
  BY EmptySeq
<1>4. h = [g EXCEPT !.arrays = none, !.enabled = {},
                    !.fb = Blank, !.draws = <<>>, !.counted = 0, !.text = NoText]
  BY DEF NewFrame
<1> HIDE DEF none
<1>5. h \in GlRecord
  <2>1. none \in ArrayDefs /\ {} \in Enabled /\ Blank \in Pictures /\ <<>> \in Draws
        /\ NoText \in Texts
    BY <1>1, <1>2, <1>3, BlankTyped DEF ArrayDefs, Enabled, Pictures, Draws
  <2>2. h = [active |-> g.active, overlaid |-> g.overlaid, arrays |-> none, enabled |-> {},
             fb |-> Blank, draws |-> <<>>, counted |-> 0, text |-> NoText]
    BY <1>4 DEF GlRecord
  <2>3. g.active \in BOOLEAN /\ g.overlaid \in BOOLEAN
    BY DEF GlRecord
  <2> QED BY <2>1, <2>2, <2>3 DEF GlRecord
<1>6. h.draws = <<>> /\ h.counted = 0 /\ h.text = NoText /\ h.overlaid = g.overlaid
  BY <1>4 DEF GlRecord
<1> HIDE DEF h
<1>7. 0 <= MaxDraws
  BY LiveGlAssumption
<1>8. Typed(h)
  BY <1>2, <1>3, <1>5, <1>6, <1>7 DEF Typed
<1> QED BY <1>6, <1>8 DEF h

(* What a handler may do to a record of this type.                         *)
LEMMA FlagsTyped ==
  ASSUME NEW g, Typed(g)
  PROVE  /\ Typed([g EXCEPT !.active = TRUE]) /\ [g EXCEPT !.active = TRUE].draws = g.draws
         /\ [g EXCEPT !.active = TRUE].counted = g.counted
         /\ [g EXCEPT !.active = TRUE].overlaid = g.overlaid
         /\ Typed(Begun(g)) /\ Begun(g).draws = g.draws /\ ~Begun(g).overlaid
         /\ Begun(g).counted = g.counted
         /\ Typed(Completed(g)) /\ Completed(g).overlaid = g.overlaid
<1>1. ASSUME NEW h, h \in GlRecord, h.draws = g.draws, h.counted = g.counted, h.text = g.text,
             h.overlaid = g.overlaid \/ h.overlaid = FALSE
      PROVE  Typed(h)
  BY <1>1 DEF Typed
<1>2. /\ [g EXCEPT !.active = TRUE] \in GlRecord /\ Begun(g) \in GlRecord
      /\ Completed(g) \in GlRecord
  BY DEF Typed, GlRecord, Begun, Completed
<1>3. \A h \in {[g EXCEPT !.active = TRUE], Begun(g), Completed(g)} :
         /\ h.draws = g.draws /\ h.counted = g.counted /\ h.text = g.text
         /\ h.overlaid = g.overlaid \/ h.overlaid = FALSE
  BY DEF Typed, GlRecord, Begun, Completed
<1>4. /\ ~Begun(g).overlaid /\ Completed(g).overlaid = g.overlaid
      /\ [g EXCEPT !.active = TRUE].overlaid = g.overlaid
  BY DEF Typed, GlRecord, Begun, Completed
<1> QED BY <1>1, <1>2, <1>3, <1>4

(* Another picture, or other arrays.                                       *)
LEMMA PictureTyped ==
  ASSUME NEW g, Typed(g), NEW h \in GlRecord,
         h.draws = g.draws, h.counted = g.counted, h.text = g.text,
         h.overlaid = g.overlaid \/ ~Untouched
  PROVE  Typed(h)
BY DEF Typed

(* overlay_dma_rgb565, once there is something in the buffer.              *)
LEMMA OverlaidTyped ==
  ASSUME TInv, NEW g, Typed(g), ~Untouched
  PROVE  Typed(Overlaid(g)) /\ Overlaid(g).draws = g.draws
<1> DEFINE pic == [r \in Rows |-> Under(g, r)]
           h == Overlaid(g)
<1>1. g.fb \in [Rows -> Pixel]
  BY DEF Typed, GlRecord, Pictures
<1>2. ASSUME NEW r \in Rows PROVE Under(g, r) \in Pixel
  <2>1. dma.rows[r] \in 0 .. MaxPasses /\ g.fb[r] \in Pixel
    BY <1>1 DEF TInv
  <2> DEFINE x == <<dma.rows[r]>>
             q == g.fb[r]
  <2>2. x \in {<<>>} \cup {<<p>> : p \in 0 .. MaxPasses} /\ q \in Pixel
    BY <2>1
  <2>3. Under(g, r) = q \/ Under(g, r) = [q EXCEPT !.dma = x, !.opaque = TRUE]
    BY DEF Under
  <2> HIDE DEF x, q
  <2>4. [q EXCEPT !.dma = x, !.opaque = TRUE] \in Pixel
    BY <2>2 DEF Pixel
  <2> QED BY <2>2, <2>3, <2>4
<1>3. pic \in Pictures
  BY <1>2 DEF Pictures
<1>4. h = [g EXCEPT !.overlaid = TRUE, !.fb = pic]
  BY DEF Overlaid
<1> HIDE DEF pic
<1>5. h \in GlRecord /\ h.draws = g.draws /\ h.counted = g.counted /\ h.text = g.text
  BY <1>3, <1>4 DEF Typed, GlRecord
<1> QED BY <1>5, PictureTyped DEF h

(* A draw paints frames that exist.                                        *)
LEMMA PaintedTyped ==
  ASSUME IInv, NEW g, Typed(g), NEW rows, NEW cover \in BOOLEAN, NEW used, used \subseteq {frame}
  PROVE  /\ Typed(Painted(g, rows, cover, used)) /\ Painted(g, rows, cover, used).draws = g.draws
         /\ Painted(g, rows, cover, used).counted = g.counted
<1> DEFINE drawn(r) == [g.fb[r] EXCEPT !.frames = @ \cup used, !.opaque = @ \/ cover]
           pic == [r \in Rows |-> IF r \in rows THEN drawn(r) ELSE g.fb[r]]
           h == Painted(g, rows, cover, used)
<1>1. used \subseteq 1 .. MaxFrames
  BY DEF IInv
<1>2. g.fb \in [Rows -> Pixel]
  BY DEF Typed, GlRecord, Pictures
<1>3. ASSUME NEW r \in Rows PROVE drawn(r) \in Pixel
  <2> DEFINE q == g.fb[r]
             fs == q.frames \cup used
             op == q.opaque \/ cover
  <2>1. q \in Pixel
    BY <1>2
  <2>2. drawn(r) = [q EXCEPT !.frames = fs, !.opaque = op]
    BY <2>1 DEF Pixel
  <2>3. fs \subseteq 1 .. MaxFrames
    BY <1>1, <2>1 DEF Pixel
  <2>4. op \in BOOLEAN
    OBVIOUS
  <2> HIDE DEF q, fs, op
  <2>5. [q EXCEPT !.frames = fs, !.opaque = op] \in Pixel
    BY <2>1, <2>3, <2>4 DEF Pixel
  <2> QED BY <2>2, <2>5
<1>4. pic \in Pictures
  <2> HIDE DEF drawn
  <2> QED BY <1>2, <1>3 DEF Pictures
<1>5. h = [g EXCEPT !.fb = pic]
  BY DEF Painted
<1> HIDE DEF pic
<1>6. /\ h \in GlRecord /\ h.draws = g.draws /\ h.counted = g.counted /\ h.text = g.text
      /\ h.overlaid = g.overlaid
  BY <1>4, <1>5 DEF Typed, GlRecord
<1> QED BY <1>6, PictureTyped DEF h

(* A char is taken only if one is left.                                    *)
LEMMA TextTyped ==
  ASSUME NEW g, Typed(g), NEW glyph
  PROVE  /\ Typed(Text(g, glyph)) /\ Text(g, glyph).draws = g.draws
         /\ Text(g, glyph).counted = g.counted
<1> DEFINE taken == [g.text EXCEPT !.eaten = @ + 1]
           h == [g EXCEPT !.text = taken]
<1>1. g.text \in Texts /\ Len(g.text.chars) \in Nat /\ Len(g.text.chars) <= MaxChars
  BY LenProperties DEF Typed, GlRecord, Texts
<1>2. /\ taken \in Texts /\ taken.chars = g.text.chars
      /\ CharLeft(g) => taken.eaten <= Len(g.text.chars)
  BY <1>1 DEF Texts, CharLeft
<1>3. Text(g, glyph) = IF Looks(glyph) /\ CharLeft(g) THEN h ELSE g
  BY DEF Text
<1> HIDE DEF taken
<1>4. ASSUME CharLeft(g)
      PROVE  Typed(h) /\ h.draws = g.draws /\ h.counted = g.counted
  <2>1. h \in GlRecord
    BY <1>2 DEF Typed, GlRecord
  <2>2. /\ h.draws = g.draws /\ h.counted = g.counted /\ h.text = taken
        /\ h.overlaid = g.overlaid
    BY DEF Typed, GlRecord
  <2> HIDE DEF h
  <2> QED BY <1>1, <1>2, <1>4, <2>1, <2>2 DEF Typed
<1> QED BY <1>3, <1>4

(* Noticing a new guest frame resets the counts.                           *)
LEMMA AtCallTyped ==
  ASSUME TInv
  PROVE  /\ Typed(AtCall) /\ AtCall.overlaid = gl.overlaid
         /\ Len(AtCall.draws) <= Len(gl.draws) /\ AtCall.counted <= gl.counted
<1>1. Len(<<>>) = 0 /\ Len(gl.draws) \in Nat /\ gl.counted \in Nat
  <2>1. gl.draws \in Seq(Names0) /\ gl.counted \in Nat
    BY DEF TInv, Typed, GlRecord, Draws
  <2> QED BY <2>1, LenProperties, EmptySeq
<1>2. CASE boundary
  BY <1>1, <1>2, NewFrameOfTyped DEF AtCall, TInv, Typed
<1>3. CASE ~boundary
  BY <1>1, <1>3 DEF AtCall, TInv
<1> QED BY <1>2, <1>3

(* The records of a draw call name its material.                           *)
LEMMA RecordsTyped ==
  ASSUME TInv, NEW n \in Nat
  PROVE  Records(n) \in Seq(Names0) /\ Len(Records(n)) = n
<1>1. material.handle \in Names0
  BY DEF TInv
<1>2. Records(n) \in [1 .. n -> Names0]
  BY <1>1 DEF Records
<1>3. Records(n) \in Seq(Names0)
  BY <1>2, SeqDef
<1>4. /\ DOMAIN Records(n) = 1 .. n /\ DOMAIN Records(n) = 1 .. Len(Records(n))
      /\ Len(Records(n)) \in Nat
  BY <1>2, <1>3, LenProperties
<1> QED BY <1>3, <1>4

(* A step of the presenter that keeps the other state typed.               *)
LEMMA CallTyped ==
  ASSUME TInv, NEW h, Typed(h), GlCall(h), window' \in [Rows -> Pixel],
         UNCHANGED <<continuous, material, textureVars, shot, dma>>
  PROVE  TInv'
<1>1. gl' = h
  BY DEF GlCall
<1> QED BY <1>1 DEF TInv, Typed, textureVars, Untouched

(* live_finalize_draws, as long as the bound leaves room for the records.  *)
LEMMA FinalizeTyped ==
  ASSUME TInv, NEW g, Typed(g), NEW records \in Seq(Names0), Finalize(g, records),
         Len(g.draws) + Len(records) <= MaxDraws,
         g.counted + (IF records = <<>> THEN 1 ELSE Len(records)) <= MaxDraws,
         UNCHANGED <<continuous, material, textureVars, dma>>
  PROVE  TInv'
<1> DEFINE n == IF records = <<>> THEN 1 ELSE Len(records)
           all == g.draws \o records
           c == g.counted + n
           h == [g EXCEPT !.draws = all, !.counted = c]
<1>1. all \in Seq(Names0) /\ Len(all) = Len(g.draws) + Len(records)
  <2>1. g.draws \in Seq(Names0)
    BY DEF Typed, GlRecord, Draws
  <2> QED BY <2>1, ConcatProperties
<1>2. Len(g.draws) \in Nat /\ Len(records) \in Nat /\ g.counted \in Nat /\ Len(<<>>) = 0
  <2>1. g.draws \in Seq(Names0) /\ g.counted \in Nat
    BY DEF Typed, GlRecord, Draws
  <2> QED BY <2>1, LenProperties, EmptySeq
<1>3. c \in Nat /\ Len(all) <= c /\ c <= MaxDraws
  BY <1>1, <1>2 DEF Typed
<1>4. all \in Draws
  BY <1>1 DEF Draws
<1>5. /\ gl' = h
      /\ shot' = shot \/ \E b \in BOOLEAN : shot' = [prev |-> <<all>>, captured |-> b]
      /\ window' = window \/ window' = g.fb
  <2>1. [g EXCEPT !.draws = all, !.counted = @ + n] = h
    BY DEF Typed, GlRecord
  <2>2. gl' = [g EXCEPT !.draws = all, !.counted = @ + n]
    BY DEF Finalize, GlCall
  <2>3. window' = window \/ window' = g.fb
    BY DEF Finalize, Captured
  <2>4. shot' = shot \/ \E b \in BOOLEAN : shot' = [prev |-> <<all>>, captured |-> b]
    <3> DEFINE four == ~continuous /\ [g EXCEPT !.draws = all, !.counted = @ + n].counted = 4
               capture == four /\ shot.prev = <<all>> /\ ~shot.captured
    <3>1. shot' = IF four THEN [prev |-> <<all>>, captured |-> shot.captured \/ capture] ELSE shot
      BY DEF Finalize
    <3>2. (shot.captured \/ capture) \in BOOLEAN
      BY DEF TInv
    <3> HIDE DEF four, capture, all
    <3> QED BY <3>1, <3>2
  <2> QED BY <2>1, <2>2, <2>3, <2>4
<1> HIDE DEF all, c
<1>6. /\ h \in GlRecord /\ h.draws = all /\ h.counted = c /\ h.text = g.text
      /\ h.overlaid = g.overlaid
  BY <1>3, <1>4 DEF Typed, GlRecord
<1> HIDE DEF h
<1>7. Typed(h)
  BY <1>3, <1>6 DEF Typed
<1>8. g.fb \in [Rows -> Pixel]
  BY DEF Typed, GlRecord, Pictures
<1>9. shot' \in [prev : Seq(Seq(Names0)), captured : BOOLEAN] /\ Len(shot'.prev) <= 1
  <2> DEFINE one == <<all>>
  <2>1. one \in Seq(Seq(Names0)) /\ Len(one) = 1
    BY <1>1
  <2>2. shot' = shot \/ \E b \in BOOLEAN : shot' = [prev |-> one, captured |-> b]
    BY <1>5
  <2> HIDE DEF one
  <2>3. CASE shot' = shot
    BY <2>3 DEF TInv
  <2>4. ASSUME NEW b \in BOOLEAN, shot' = [prev |-> one, captured |-> b]
        PROVE  shot' \in [prev : Seq(Seq(Names0)), captured : BOOLEAN] /\ Len(shot'.prev) <= 1
    <3>1. shot' \in [prev : Seq(Seq(Names0)), captured : BOOLEAN]
      BY <2>1, <2>4
    <3>2. shot'.prev = one
      BY <2>4
    <3>3. Len(shot'.prev) = 1
      BY <2>1, <3>2, Zenon
    <3> QED BY <3>1, <3>3
  <2> QED BY <2>2, <2>3, <2>4
<1> QED BY <1>5, <1>7, <1>8, <1>9 DEF TInv, Typed, textureVars, Untouched

(* The guards of the draws leave that room, after a reset as well.         *)
LEMMA QuadsTyped ==
  ASSUME IInv, TInv, NEW groups \in 1 .. 2, NEW glyph, NEW e, NEW rows, NEW cover \in BOOLEAN,
         DrawQuads(groups, glyph, e, rows, cover)
  PROVE  TInv'
<1> DEFINE began == IF continuous THEN [AtCall EXCEPT !.active = TRUE] ELSE AtCall
           g == Text(began, glyph)
           used == QuadTaken(began, glyph)
           p == Painted(g, rows, cover, used)
<1>1. /\ Len(gl.draws) + groups <= MaxDraws /\ gl.counted + groups <= MaxDraws
      /\ UNCHANGED <<continuous, material, textureVars, dma>>
      /\ \/ Finalize(began, Records(1))
         \/ HasPositions(began) /\ Finalize(p, Records(groups))
         \/ Finalize(g, Records(groups))
  BY DEF DrawQuads
<1>2. /\ Typed(began) /\ began.draws = AtCall.draws /\ began.counted = AtCall.counted
  BY AtCallTyped, FlagsTyped
<1>3. Good(began)
  BY AtCallGood, ActiveGood
<1> HIDE DEF began
<1>4. Typed(g) /\ g.draws = AtCall.draws /\ g.counted = AtCall.counted
  BY <1>2, TextTyped
<1>5. HasPositions(began) => used \subseteq {frame}
  BY <1>3, TakenFresh
<1> HIDE DEF g, used
<1>6. HasPositions(began) => Typed(p) /\ p.draws = AtCall.draws /\ p.counted = AtCall.counted
  BY <1>4, <1>5, PaintedTyped
<1> HIDE DEF p
<1>7. ASSUME NEW h, Typed(h), h.draws = AtCall.draws, h.counted = AtCall.counted,
             NEW n \in 1 .. groups, Finalize(h, Records(n))
      PROVE  TInv'
  <2>1. Records(n) \in Seq(Names0) /\ Len(Records(n)) = n /\ Records(n) # <<>>
    BY RecordsTyped, EmptySeq
  <2>2. Len(h.draws) <= Len(gl.draws) /\ h.counted <= gl.counted
    BY <1>7, AtCallTyped
  <2>3. Len(h.draws) \in Nat /\ h.counted \in Nat /\ Len(gl.draws) \in Nat /\ gl.counted \in Nat
    BY <1>7, LenProperties DEF TInv, Typed, GlRecord, Draws
  <2>4. n \in Nat /\ groups \in Nat /\ n <= groups /\ MaxDraws \in Nat
    BY <1>7, LiveGlAssumption
  <2>5. Len(h.draws) + n <= MaxDraws
    BY <1>1, <2>2, <2>3, <2>4
  <2>6. h.counted + n <= MaxDraws
    BY <1>1, <2>2, <2>3, <2>4
  <2> QED BY <1>1, <1>7, <2>1, <2>5, <2>6, FinalizeTyped
<1>8. 1 \in 1 .. groups /\ groups \in 1 .. groups
  OBVIOUS
<1> QED BY <1>1, <1>2, <1>4, <1>6, <1>7, <1>8

(* A draw that is one record, or one that is counted only.                 *)
LEMMA OneMoreTyped ==
  ASSUME TInv, Len(gl.draws) < MaxDraws, gl.counted < MaxDraws,
         UNCHANGED <<continuous, material, textureVars, dma>>,
         NEW g, Typed(g), Len(g.draws) <= Len(gl.draws), g.counted <= gl.counted,
         NEW rs \in {<<>>, Records(1)}, Finalize(g, rs)
  PROVE  TInv'
<1>1. Records(1) \in Seq(Names0) /\ Len(Records(1)) = 1 /\ <<>> \in Seq(Names0) /\ Len(<<>>) = 0
  BY RecordsTyped, EmptySeq
<1>2. Len(g.draws) \in Nat /\ g.counted \in Nat /\ Len(gl.draws) \in Nat /\ gl.counted \in Nat
  BY LenProperties DEF TInv, Typed, GlRecord, Draws
<1>3. /\ Len(g.draws) + Len(rs) <= MaxDraws
      /\ g.counted + (IF rs = <<>> THEN 1 ELSE Len(rs)) <= MaxDraws
  <2> DEFINE n == IF rs = <<>> THEN 1 ELSE Len(rs)
  <2>1. n = 1 /\ Len(rs) \in {0, 1}
    BY <1>1
  <2> HIDE DEF n
  <2>2. MaxDraws \in Nat
    BY LiveGlAssumption
  <2>3. Len(g.draws) + 1 <= MaxDraws /\ Len(g.draws) + 0 <= MaxDraws /\ g.counted + 1 <= MaxDraws
    BY <1>2, <2>2
  <2>4. Len(g.draws) + Len(rs) <= MaxDraws
    BY <2>1, <2>3
  <2>5. g.counted + n <= MaxDraws
    BY <2>1, <2>3
  <2> QED BY <2>4, <2>5 DEF n
<1> QED BY <1>1, <1>3, FinalizeTyped

(* A strip or an indexed draw is one record.                               *)
LEMMA StripTyped ==
  ASSUME IInv, TInv, Len(gl.draws) < MaxDraws, gl.counted < MaxDraws,
         UNCHANGED <<continuous, material, textureVars, dma>>,
         NEW g, Typed(g), Good(g), Len(g.draws) <= Len(gl.draws), g.counted <= gl.counted,
         NEW e, NEW rows, NEW cover \in BOOLEAN, Strip(g, e, rows, cover)
  PROVE  TInv'
<1>1. CASE Finalize(g, <<>>) \/ Finalize(g, Records(1))
  BY <1>1, OneMoreTyped
<1>2. CASE HasPositions(g) /\ Finalize(Painted(g, rows, cover, Taken(g)), Records(1))
  <2> DEFINE p == Painted(g, rows, cover, Taken(g))
  <2>1. Typed(p) /\ p.draws = g.draws /\ p.counted = g.counted
    BY <1>2, TakenFresh, PaintedTyped
  <2> HIDE DEF p
  <2>2. Finalize(p, Records(1))
    BY <1>2 DEF p
  <2> QED BY <2>1, <2>2, OneMoreTyped
<1> QED BY <1>1, <1>2 DEF Strip

(* Every way to draw.                                                      *)
LEMMA DrawsTyped ==
  ASSUME IInv, TInv, NEW rows, NEW e, NEW cover \in BOOLEAN, Draw(rows, e, cover)
  PROVE  TInv'
<1> DEFINE a == AtCall
           b == [a EXCEPT !.active = TRUE]
<1>1. /\ Good(a) /\ Good(b) /\ Good(Begun(a))
      /\ Typed(a) /\ Typed(b) /\ Typed(Begun(a))
  BY AtCallGood, ActiveGood, AtCallTyped, FlagsTyped
<1>2. /\ b.draws = a.draws /\ Begun(a).draws = a.draws
      /\ b.counted = a.counted /\ Begun(a).counted = a.counted
      /\ Len(a.draws) <= Len(gl.draws) /\ a.counted <= gl.counted
  BY AtCallTyped, FlagsTyped
<1>3. CASE DrawStrip(e, rows, cover)
  <2>1. \E g \in {a, b} : Strip(g, e, rows, cover)
    BY <1>3 DEF DrawStrip
  <2>2. /\ Len(gl.draws) < MaxDraws /\ gl.counted < MaxDraws
        /\ UNCHANGED <<continuous, material, textureVars, dma>>
    BY <1>3 DEF DrawStrip
  <2> HIDE DEF a, b
  <2> QED BY <1>1, <1>2, <2>1, <2>2, StripTyped
<1>4. CASE DrawElements(e, rows, cover)
  <2>1. \E g \in {a, Begun(a)} : Strip(g, e, rows, cover)
    BY <1>4 DEF DrawElements
  <2>2. /\ Len(gl.draws) < MaxDraws /\ gl.counted < MaxDraws
        /\ UNCHANGED <<continuous, material, textureVars, dma>>
    BY <1>4 DEF DrawElements
  <2> HIDE DEF a, b
  <2> QED BY <1>1, <1>2, <2>1, <2>2, StripTyped
<1>5. CASE DrawUnsupported
  <2>1. Finalize(a, <<>>) /\ gl.counted < MaxDraws /\ UNCHANGED <<continuous, material, textureVars, dma>>
    BY <1>5 DEF DrawUnsupported
  <2>2. Len(a.draws) \in Nat /\ a.counted \in Nat /\ Len(gl.draws) \in Nat /\ gl.counted \in Nat
    BY <1>1, LenProperties DEF TInv, Typed, GlRecord, Draws
  <2>3. /\ Len(a.draws) + 0 <= MaxDraws /\ a.counted + 1 <= MaxDraws
    BY <1>2, <2>1, <2>2, LiveGlAssumption DEF TInv, Typed
  <2>4. <<>> \in Seq(Names0) /\ Len(<<>>) = 0
    BY EmptySeq
  <2> HIDE DEF a
  <2> QED BY <1>1, <2>1, <2>3, <2>4, FinalizeTyped
<1>6. CASE \E groups \in 1 .. 2, glyph \in Glyphs : DrawQuads(groups, glyph, e, rows, cover)
  BY <1>6, QuadsTyped
<1> QED BY <1>3, <1>4, <1>5, <1>6 DEF Draw

(* Ordinals 157 and 158.                                                   *)
LEMMA CandidatesTyped ==
  ASSUME IInv, TInv, CandidateBegin \/ CandidatePresent
  PROVE  TInv'
<1>1. Typed(AtCall) /\ Typed(Begun(AtCall)) /\ window \in [Rows -> Pixel]
  BY AtCallTyped, FlagsTyped DEF TInv
<1>2. CASE CandidateBegin
  <2>1. /\ GlCall(Begun(AtCall)) \/ GlCall(AtCall)
        /\ UNCHANGED <<continuous, material, textureVars, shot, dma, window>>
    BY <1>2 DEF CandidateBegin
  <2> QED BY <1>1, <2>1, CallTyped
<1>3. CASE CandidatePresent
  <2> DEFINE hasDma == \E r \in Rows : dma.rows[r] # 0
             over(g) == IF hasDma THEN Overlaid(g) ELSE g
             first == over(AtCall)
             g == IF first.active THEN first ELSE over(Begun(first))
  <2>1. hasDma => ~Untouched
    BY DEF Untouched
  <2>2. Typed(first)
    BY <1>1, <2>1, OverlaidTyped
  <2>3. UNCHANGED <<continuous, material, textureVars, shot, dma>> /\
          (\/ GlCall(Completed(g)) /\ window' = Shown(g)
           \/ GlCall(AtCall) /\ UNCHANGED window)
    BY <1>3 DEF CandidatePresent
  <2> HIDE DEF hasDma, first
  <2>4. Typed(g)
    <3>1. Typed(Begun(first))
      BY <2>2, FlagsTyped
    <3> QED BY <2>1, <2>2, <3>1, OverlaidTyped
  <2> HIDE DEF g
  <2>5. Typed(Completed(g))
    BY <2>4, FlagsTyped
  <2>6. Shown(g) = window \/ Shown(g) = g.fb
    BY DEF Shown
  <2>7. g.fb \in [Rows -> Pixel]
    BY <2>4 DEF Typed, GlRecord, Pictures
  <2> QED BY <1>1, <2>3, <2>5, <2>6, <2>7, CallTyped
<1> QED BY <1>2, <1>3

(* Ordinals 40, 137 and 159.                                               *)
LEMMA ArraysTyped ==
  ASSUME IInv, TInv, Arrays \/ \E n, state \in Names0 : BindMaterial(n, state)
  PROVE  TInv'
<1> DEFINE a == AtCall
<1>1. Typed(a) /\ a.arrays \in [Slots -> ArrayDef] /\ a.enabled \in SUBSET Slots
  BY AtCallTyped DEF Typed, GlRecord, ArrayDefs, Enabled
<1>2. window \in [Rows -> Pixel] /\ frame \in 0 .. MaxFrames
  BY LiveGlAssumption DEF TInv, IInv
<1>3. ASSUME NEW arrays \in ArrayDefs, NEW enabled \in Enabled, NEW h,
             h = [a EXCEPT !.arrays = arrays, !.enabled = enabled]
      PROVE  Typed(h)
  <2>1. /\ h \in GlRecord /\ h.draws = a.draws /\ h.counted = a.counted /\ h.text = a.text
        /\ h.overlaid = a.overlaid
    BY <1>1, <1>3 DEF Typed, GlRecord
  <2> QED BY <1>1, <2>1, PictureTyped
<1> HIDE DEF a
<1>4. ASSUME NEW s \in Slots, NEW kind \in {"pos", "uv", "colour", "bad"}, DefineArray(s, kind)
      PROVE  TInv'
  <2> DEFINE def == [kind |-> kind, frame |-> frame, current |-> TRUE]
             arrays == [a.arrays EXCEPT ![s] = def]
             enabled == IF kind = "bad" THEN a.enabled ELSE a.enabled \cup {s}
             h == [a EXCEPT !.arrays = arrays, !.enabled = enabled]
  <2>1. def \in ArrayDef
    BY <1>2 DEF ArrayDef
  <2>2. arrays \in ArrayDefs /\ enabled \in Enabled
    <3> HIDE DEF def
    <3> QED BY <1>1, <2>1 DEF ArrayDefs, Enabled
  <2>3. /\ GlCall([a EXCEPT !.arrays[s] = def, !.enabled = IF kind = "bad" THEN @ ELSE @ \cup {s}])
        /\ UNCHANGED <<continuous, material, textureVars, shot, dma, window>>
    BY <1>4 DEF DefineArray, a
  <2>4. [a EXCEPT !.arrays[s] = def, !.enabled = IF kind = "bad" THEN @ ELSE @ \cup {s}] = h
    <3> HIDE DEF def
    <3> QED BY <1>1 DEF Typed, GlRecord
  <2> HIDE DEF arrays, enabled, def
  <2>5. Typed(h)
    BY <1>3, <2>2
  <2> HIDE DEF h
  <2> QED BY <1>2, <2>3, <2>4, <2>5, CallTyped
<1>5. ASSUME NEW s \in Slots, EnableArray(s)
      PROVE  TInv'
  <2> DEFINE enabled == a.enabled \cup {s}
             arrays == a.arrays
             h == [a EXCEPT !.arrays = arrays, !.enabled = enabled]
  <2>1. arrays \in ArrayDefs /\ enabled \in Enabled
    BY <1>1 DEF ArrayDefs, Enabled
  <2>2. [a EXCEPT !.enabled = @ \cup {s}] = h
    BY <1>1 DEF Typed, GlRecord
  <2>3. /\ GlCall([a EXCEPT !.enabled = @ \cup {s}])
        /\ UNCHANGED <<continuous, material, textureVars, shot, dma, window>>
    BY <1>5 DEF EnableArray, a
  <2> HIDE DEF arrays, enabled
  <2>4. Typed(h)
    BY <1>3, <2>1
  <2> HIDE DEF h
  <2> QED BY <1>2, <2>2, <2>3, <2>4, CallTyped
<1>6. ASSUME NEW n \in Names0, NEW state \in Names0, BindMaterial(n, state)
      PROVE  TInv'
  <2> DEFINE old(s) == [a.arrays[s] EXCEPT !.current = FALSE]
             olds == [s \in Slots |-> old(s)]
             enabled == a.enabled
             h == [a EXCEPT !.arrays = olds, !.enabled = enabled]
  <2>1. \A s \in Slots : old(s) \in ArrayDef
    BY <1>1 DEF ArrayDef
  <2>2. olds \in ArrayDefs /\ enabled \in Enabled
    <3> HIDE DEF old
    <3> QED BY <1>1, <2>1 DEF ArrayDefs, Enabled
  <2>3. GlCall([a EXCEPT !.arrays = olds]) /\ material' = [handle |-> n, state |-> state]
        /\ UNCHANGED <<continuous, textureVars, shot, dma, window>>
    BY <1>6 DEF BindMaterial, a
  <2> HIDE DEF olds
  <2>4. [a EXCEPT !.arrays = olds] = h
    BY <1>1 DEF Typed, GlRecord
  <2> HIDE DEF enabled
  <2>5. Typed(h)
    BY <1>3, <2>2
  <2> HIDE DEF h
  <2>6. gl' = h
    BY <2>3, <2>4 DEF GlCall
  <2> QED BY <1>2, <2>3, <2>5, <2>6 DEF TInv, Typed, textureVars, Untouched
<1> QED BY <1>4, <1>5, <1>6 DEF Arrays

(* Names and uploads.                                                      *)
LEMMA TexturesTyped ==
  ASSUME IInv, TInv, Textures
  PROVE  TInv'
<1> DEFINE Uploaded == \E name \in Names0, size \in Sizes, a8, res \in BOOLEAN, src \in Sources :
                         uploads' = Append(uploads, [name |-> name, size |-> size, a8 |-> a8,
                                                     src |-> src, resource |-> res])
<1>1. GlCall(AtCall) /\ UNCHANGED <<continuous, material, shot, dma, window>>
  BY DEF Textures, NameTexture, BindTexture, UploadTexture, ResourceUpload
<1>2. pendingName' \in Names0
  BY DEF Textures, NameTexture, BindTexture, UploadTexture, ResourceUpload, TInv, Names0
<1>3. uploads' = uploads \/ Uploaded
  BY DEF Textures, NameTexture, BindTexture, UploadTexture, ResourceUpload, TInv, Names0
<1>4. ASSUME Uploaded PROVE uploads' \in Seq(Upload)
  <2>1. PICK name \in Names0, size \in Sizes, a8, res \in BOOLEAN, src \in Sources :
          uploads' = Append(uploads, [name |-> name, size |-> size, a8 |-> a8,
                                      src |-> src, resource |-> res])
    BY <1>4
  <2>2. [name |-> name, size |-> size, a8 |-> a8, src |-> src, resource |-> res] \in Upload
    BY DEF Upload, Names0
  <2> QED BY <2>1, <2>2, AppendProperties DEF TInv
<1> HIDE DEF Uploaded
<1>5. gl' = AtCall /\ Typed(AtCall)
  BY <1>1, AtCallTyped DEF GlCall
<1>6. uploads' \in Seq(Upload)
  BY <1>3, <1>4 DEF TInv
<1> QED BY <1>1, <1>2, <1>5, <1>6 DEF TInv, Typed, Untouched

(* The guest's writes to the DMA buffer; what is written is not 0.         *)
LEMMA StoredTyped ==
  ASSUME TInv, NEW r \in Rows, NEW p \in 1 .. MaxPasses, NEW reached \in BOOLEAN,
         Stored(r, p, reached)
  PROVE  TInv'
<1> DEFINE rows == [dma.rows EXCEPT ![r] = p]
<1>1. /\ dma' = [rows |-> rows, dirty |-> TRUE, reached |-> reached]
      /\ UNCHANGED <<continuous, gl, material, textureVars, shot, window>>
  BY DEF Stored
<1>2. rows \in [Rows -> 0 .. MaxPasses] /\ rows[r] # 0
  BY DEF TInv
<1> HIDE DEF rows
<1>3. /\ dma' \in [rows : [Rows -> 0 .. MaxPasses], dirty : BOOLEAN, reached : BOOLEAN]
      /\ dma'.rows[r] # 0
  BY <1>1, <1>2
<1>4. ~Untouched'
  BY <1>3 DEF Untouched
<1> QED BY <1>1, <1>3, <1>4 DEF TInv, Typed, textureVars

(* A DMA frame is due only if the buffer was written.                      *)
LEMMA DmaFrameTyped ==
  ASSUME TInv, PresentDmaFrame
  PROVE  TInv'
<1> DEFINE g == Overlaid(Begun(gl))
           d == [dma EXCEPT !.dirty = FALSE]
<1>1. gl' = Completed(g) /\ window' = Shown(g) /\ dma' = d /\ dma.dirty
      /\ UNCHANGED <<continuous, material, textureVars, shot>>
  BY DEF PresentDmaFrame, DmaDue
<1>2. ~Untouched
  BY <1>1 DEF TInv
<1>3. Typed(g)
  BY <1>2, FlagsTyped, OverlaidTyped DEF TInv
<1> HIDE DEF g
<1>4. Typed(Completed(g)) /\ g.fb \in [Rows -> Pixel]
  BY <1>3, FlagsTyped DEF Typed, GlRecord, Pictures
<1>5. window' \in [Rows -> Pixel]
  BY <1>1, <1>4 DEF Shown, TInv
<1>6. /\ d \in [rows : [Rows -> 0 .. MaxPasses], dirty : BOOLEAN, reached : BOOLEAN]
      /\ d.rows = dma.rows /\ ~d.dirty
  BY DEF TInv
<1> HIDE DEF d
<1>7. dma'.rows = dma.rows /\ ~dma'.dirty
  BY <1>1, <1>6
<1> QED BY <1>1, <1>2, <1>4, <1>5, <1>6, <1>7 DEF TInv, Typed, textureVars, Untouched

(* A recorded char.                                                        *)
LEMMA PushTyped ==
  ASSUME IInv, TInv, PushChar
  PROVE  TInv'
<1> DEFINE chars == Append(gl.text.chars, frame)
           text == [gl.text EXCEPT !.chars = chars]
           h == [gl EXCEPT !.text = text]
<1>1. gl.text \in Texts /\ gl.text.eaten <= Len(gl.text.chars) /\ frame \in 1 .. MaxFrames
  BY DEF IInv, TInv, Typed, GlRecord
<1>2. chars \in Seq(1 .. MaxFrames) /\ Len(chars) = Len(gl.text.chars) + 1
      /\ Len(gl.text.chars) \in Nat
  BY <1>1, AppendProperties, LenProperties DEF Texts
<1>3. Len(gl.text.chars) < MaxChars /\ MaxChars \in Nat
  BY LiveGlAssumption DEF PushChar
<1>4. gl' = h
  <2>1. gl' = [gl EXCEPT !.text.chars = Append(@, frame)]
    BY DEF PushChar
  <2> QED BY <2>1, <1>1 DEF TInv, Typed, GlRecord, Texts
<1> HIDE DEF chars
<1>5. text \in Texts /\ text.chars = chars /\ text.eaten = gl.text.eaten /\ text.eaten \in Nat
  BY <1>1, <1>2 DEF Texts
<1>6. text.eaten <= Len(text.chars) /\ Len(text.chars) <= MaxChars
  BY <1>1, <1>2, <1>3, <1>5
<1> HIDE DEF text
<1>7. /\ h \in GlRecord /\ h.draws = gl.draws /\ h.counted = gl.counted /\ h.text = text
      /\ h.overlaid = gl.overlaid
  BY <1>5 DEF TInv, Typed, GlRecord
<1> HIDE DEF h
<1>8. Typed(h)
  BY <1>6, <1>7 DEF TInv, Typed
<1> QED BY <1>4, <1>8 DEF PushChar, TInv, Typed, textureVars, Untouched

(* A runtime that has just started has drawn and written nothing.          *)
LEMMA InitTyped == Init => TInv
<1> SUFFICES ASSUME Init PROVE TInv
  OBVIOUS
<1> DEFINE none == [s \in Slots |-> NoArray]
           zero == [r \in Rows |-> 0]
<1>1. none \in ArrayDefs
  BY LiveGlAssumption DEF NoArray, ArrayDef, ArrayDefs
<1>2. /\ NoText \in Texts /\ NoText.eaten <= Len(NoText.chars)
      /\ Len(NoText.chars) <= MaxChars
  BY NoTextFits, LiveGlAssumption DEF NoText
<1>3. <<>> \in Seq(Names0) /\ Len(<<>>) = 0 /\ <<>> \in Seq(Upload) /\ <<>> \in Draws
      /\ <<>> \in Seq(Seq(Names0))
  BY EmptySeq DEF Draws
<1>4. NoName \in Names0 /\ {} \in Enabled /\ Blank \in Pictures
  BY BlankTyped DEF Names0, Enabled, Pictures
<1>5. gl = [active |-> FALSE, overlaid |-> FALSE, arrays |-> none, enabled |-> {},
            fb |-> Blank, draws |-> <<>>, counted |-> 0, text |-> NoText]
  BY DEF Init, NewFrame
<1> HIDE DEF none
<1>6. gl \in GlRecord
  BY <1>1, <1>2, <1>3, <1>4, <1>5 DEF GlRecord
<1>7. Typed(gl)
  BY <1>2, <1>3, <1>5, <1>6, LiveGlAssumption DEF Typed
<1>8. zero \in [Rows -> 0 .. MaxPasses] /\ \A r \in Rows : zero[r] = 0
  BY LiveGlAssumption
<1>9. dma = [rows |-> zero, dirty |-> FALSE, reached |-> FALSE]
  BY DEF Init
<1> HIDE DEF zero
<1>10. /\ dma \in [rows : [Rows -> 0 .. MaxPasses], dirty : BOOLEAN, reached : BOOLEAN]
       /\ Untouched /\ ~dma.dirty
  BY <1>8, <1>9, LiveGlAssumption DEF Untouched
<1>11. /\ continuous \in BOOLEAN /\ window = Blank /\ material = [handle |-> NoName, state |-> NoName]
       /\ uploads = <<>> /\ pendingName = NoName /\ shot = [prev |-> <<>>, captured |-> FALSE]
  BY DEF Init
<1> QED BY <1>3, <1>4, <1>7, <1>10, <1>11, BlankTyped DEF TInv

(* Every step of the guest and of the runtime.                             *)
LEMMA NextTyped == IInv /\ TInv /\ [Next]_vars => TInv'
<1> SUFFICES ASSUME IInv, TInv, [Next]_vars PROVE TInv'
  OBVIOUS
<1>1. CASE CandidateBegin \/ CandidatePresent
  BY <1>1, CandidatesTyped
<1>2. CASE Arrays \/ \E n, state \in Names0 : BindMaterial(n, state)
  BY <1>2, ArraysTyped
<1>3. CASE Textures
  BY <1>3, TexturesTyped
<1>4. CASE \E rows \in SUBSET Rows, e \in Extents, cover \in BOOLEAN : Draw(rows, e, cover)
  BY <1>4, DrawsTyped
<1>5. CASE PushChar
  BY <1>5, PushTyped
<1>6. CASE FrameReturn
  BY <1>6 DEF FrameReturn, TInv, Typed, textureVars, Untouched
<1>7. CASE PresentDmaFrame
  BY <1>7, DmaFrameTyped
<1>8. CASE \E r \in Rows, p \in 1 .. MaxPasses : DmaWrite32(r, p) \/ DmaWriteNarrow(r, p)
  <2>1. PICK r \in Rows, p \in 1 .. MaxPasses : DmaWrite32(r, p) \/ DmaWriteNarrow(r, p)
    BY <1>8
  <2>2. dma.reached \in BOOLEAN /\ (dma.reached \/ r = "bottom") \in BOOLEAN
    BY DEF TInv
  <2> QED BY <2>1, <2>2, StoredTyped DEF DmaWrite32, DmaWriteNarrow
<1>9. CASE UNCHANGED vars
  BY <1>9 DEF vars, TInv, Typed, textureVars, Untouched
<1> QED BY <1>1, <1>2, <1>3, <1>4, <1>5, <1>6, <1>7, <1>8, <1>9 DEF Next

(* What TypeOK says is part of the invariant.                              *)
LEMMA TypesFollow == IInv /\ TInv => TypeOK
<1> SUFFICES ASSUME IInv, TInv PROVE TypeOK
  OBVIOUS
<1>1. /\ gl.active \in BOOLEAN /\ gl.overlaid \in BOOLEAN
      /\ gl.arrays \in [Slots -> ArrayDef] /\ gl.enabled \subseteq Slots
      /\ gl.fb \in [Rows -> Pixel] /\ gl.draws \in Seq(Names0) /\ gl.counted \in Nat
      /\ gl.text.chars \in Seq(1 .. MaxFrames) /\ gl.text.eaten \in Nat
  BY DEF TInv, Typed, GlRecord, ArrayDefs, Enabled, Pictures, Draws, Texts
<1>2. gl.counted \in Len(gl.draws) .. MaxDraws
  BY <1>1, LenProperties, LiveGlAssumption DEF TInv, Typed
<1>3. gl.text.eaten \in 0 .. Len(gl.text.chars) /\ Len(gl.text.chars) <= MaxChars
  BY <1>1, LenProperties DEF TInv, Typed
<1> QED BY <1>1, <1>2, <1>3 DEF TInv, IInv, TypeOK

(* The window of an idle game: no picture of an empty frame is shown, no   *)
(* capture is taken, and no DMA frame is due.                              *)
LEMMA IdleStep ==
  ASSUME IInv, TInv, [Next]_vars, continuous, AtCall.draws = <<>>, Untouched
  PROVE  window' = window
<1>1. CASE CandidatePresent
  <2> DEFINE g == IF AtCall.active THEN AtCall ELSE Begun(AtCall)
  <2>1. window' = Shown(g)
    BY <1>1 DEF CandidatePresent, Untouched
  <2>2. g.draws = <<>> /\ ~g.overlaid
    BY AtCallTyped, FlagsTyped DEF Typed
  <2> HIDE DEF g
  <2> QED BY <2>1, <2>2 DEF Shown
<1>2. CASE \E rows \in SUBSET Rows, e \in Extents, cover \in BOOLEAN : Draw(rows, e, cover)
  <2>1. ASSUME NEW g, NEW rs, Finalize(g, rs) PROVE window' = window
    BY <2>1 DEF Finalize
  <2> QED BY <1>2, <2>1 DEF Draw, DrawQuads, DrawStrip, DrawElements, DrawUnsupported, Strip
<1>3. CASE PresentDmaFrame
  BY <1>3 DEF PresentDmaFrame, DmaDue, TInv
<1>4. CASE CandidateBegin \/ Arrays \/ Textures \/ PushChar \/ FrameReturn
           \/ \E n, state \in Names0 : BindMaterial(n, state)
  BY <1>4 DEF CandidateBegin, Arrays, DefineArray, EnableArray, Textures, NameTexture, BindTexture,
       UploadTexture, ResourceUpload, PushChar, FrameReturn, BindMaterial
<1>5. CASE \E r \in Rows, p \in 1 .. MaxPasses : DmaWrite32(r, p) \/ DmaWriteNarrow(r, p)
  BY <1>5 DEF DmaWrite32, DmaWriteNarrow, Stored
<1>6. CASE UNCHANGED vars
  BY <1>6 DEF vars
<1> QED BY <1>1, <1>2, <1>3, <1>4, <1>5, <1>6 DEF Next

(* The state keeps its type: a frame counts at least the draws it records, *)
(* no char of a text is taken that was not recorded, and the DMA buffer's  *)
(* rows are of passes the guest made (sys/eapp/mod.rs, live_gl.rs).        *)
THEOREM TypeCorrect == Spec => []TypeOK
BY InitHolds, InitTyped, NextKeeps, NextTyped, TypesFollow, PTL DEF Spec

(* A game that loops over frames without draws keeps its picture as long as*)
(* it never wrote the DMA buffer: complete_frame presents nothing for such *)
(* a frame, and no stale overlay or dirty flag brings a DMA frame up.      *)
THEOREM IdleGamesKeepTheirPicture == Spec => IdleKeepsPicture
<1>1. IInv /\ TInv /\ [Next]_vars
       => [continuous /\ AtCall.draws = <<>> /\ (\A r \in Rows : dma.rows[r] = 0)
             => window' = window]_vars
  BY IdleStep DEF Untouched
<1> QED BY <1>1, InitHolds, InitTyped, NextKeeps, NextTyped, PTL DEF Spec, IdleKeepsPicture

-------------------------------------------------------------------------------
(* The texture of a draw.  Of a set of indices there is a least ...        *)
LEMMA LeastExists ==
  ASSUME NEW S, S \subseteq Nat, S # {}
  PROVE  \E x \in S : \A y \in S : x <= y
<1>1. PICK x \in S : \A y \in S : ~ (<<y, x>> \in OpToRel(<, Nat))
  BY WFMin, NatLessThanWellFounded
<1>2. \A y \in S : ~ (y < x)
  BY <1>1 DEF OpToRel
<1> QED BY <1>2

(* ... and, among the first n, a last one.                                 *)
LEMMA LatestIsIn ==
  ASSUME NEW n \in Nat, NEW S, S \subseteq 1 .. n, S # {}
  PROVE  Latest(S) \in S
<1> DEFINE T == {n - i : i \in S}
<1>1. T \subseteq Nat /\ T # {}
  OBVIOUS
<1>2. PICK x \in T : \A y \in T : x <= y
  BY <1>1, LeastExists
<1>3. PICK i \in S : x = n - i
  BY <1>2
<1>4. \A j \in S : j <= i
  <2> SUFFICES ASSUME NEW j \in S PROVE j <= i
    OBVIOUS
  <2>1. n - j \in T
    OBVIOUS
  <2> QED BY <1>2, <1>3, <2>1
<1> QED BY <1>4 DEF Latest

LEMMA FirstIsIn ==
  ASSUME NEW S, S \subseteq Nat, S # {}
  PROVE  First(S) \in S
BY LeastExists DEF First

LEMMA SmallestIsIn ==
  ASSUME NEW ups, NEW S, S \subseteq Nat, S # {}, \A i \in S : ups[i].size \in Nat
  PROVE  Smallest(ups, S) \in S
<1> DEFINE T == {ups[i].size : i \in S}
           M == {i \in S : \A j \in S : ups[i].size <= ups[j].size}
<1>1. PICK x \in T : \A y \in T : x <= y
  <2>1. T \subseteq Nat /\ T # {}
    OBVIOUS
  <2> QED BY <2>1, LeastExists
<1>2. PICK i \in S : x = ups[i].size
  BY <1>1
<1>3. i \in M
  BY <1>1, <1>2
<1>4. First(M) \in M
  BY <1>3, FirstIsIn
<1> QED BY <1>4 DEF Smallest

(* What is chosen by name has the name, and something is chosen if any of  *)
(* the name has the size or contains the extent.                           *)
LEMMA NamedIsNamed ==
  ASSUME NEW ups \in Seq(Upload), NEW n, NEW e
  PROVE  LET i == NamedForUvs(ups, n, e)
         IN  /\ i # None => ups[i].name = n
             /\ i = None => \A j \in DOMAIN ups : ups[j].name = n =>
                              ups[j].size # Span(e) /\ ~(ups[j].size >= Need(e))
<1> DEFINE named == {i \in DOMAIN ups : ups[i].name = n}
           exact == {i \in named : ups[i].size = Span(e)}
           fitting == {i \in named : ups[i].size >= Need(e)}
<1>1. Len(ups) \in Nat /\ DOMAIN ups = 1 .. Len(ups) /\ \A i \in DOMAIN ups : ups[i] \in Upload
  BY LenProperties, ElementOfSeq
<1>2. exact # {} => Latest(exact) \in exact
  BY <1>1, LatestIsIn
<1>3. fitting # {} => Smallest(ups, fitting) \in fitting
  <2>1. fitting \subseteq DOMAIN ups /\ DOMAIN ups \subseteq Nat
    BY <1>1
  <2>2. \A i \in DOMAIN ups : ups[i].size \in Sizes
    BY <1>1 DEF Upload
  <2>3. \A i \in fitting : ups[i].size \in Nat
    BY <2>1, <2>2, TexturesAssumption
  <2> QED BY <2>1, <2>3, SmallestIsIn
<1>4. (exact = {} => Latest(exact) = None) /\ (fitting = {} => Smallest(ups, fitting) = None)
  BY DEF Latest, Smallest, First
<1>5. None \notin DOMAIN ups
  BY <1>1 DEF None
<1>6. NamedForUvs(ups, n, e) = Else(Latest(exact), Smallest(ups, fitting))
  BY DEF NamedForUvs
<1> QED BY <1>2, <1>3, <1>4, <1>5, <1>6 DEF Else

(* What is chosen by size has it or contains the extent.                   *)
LEMMA SizedFits ==
  ASSUME NEW ups \in Seq(Upload), NEW e, ForUvs(ups, e) # None
  PROVE  LET i == ForUvs(ups, e)
         IN  i \in DOMAIN ups /\ (ups[i].size = Span(e) \/ ups[i].size >= Need(e))
<1> DEFINE exact == {i \in DOMAIN ups : ups[i].size = Span(e)}
           fitting == {i \in DOMAIN ups : ups[i].size >= Need(e)}
<1>1. Len(ups) \in Nat /\ DOMAIN ups = 1 .. Len(ups) /\ \A i \in DOMAIN ups : ups[i] \in Upload
  BY LenProperties, ElementOfSeq
<1>2. exact # {} => First(exact) \in exact
  <2>1. exact \subseteq Nat
    BY <1>1
  <2> QED BY <2>1, FirstIsIn
<1>3. fitting # {} => Smallest(ups, fitting) \in fitting
  <2>1. fitting \subseteq DOMAIN ups /\ DOMAIN ups \subseteq Nat
    BY <1>1
  <2>2. \A i \in DOMAIN ups : ups[i].size \in Sizes
    BY <1>1 DEF Upload
  <2>3. \A i \in fitting : ups[i].size \in Nat
    BY <2>1, <2>2, TexturesAssumption
  <2> QED BY <2>1, <2>3, SmallestIsIn
<1>4. (exact = {} => First(exact) = None) /\ (fitting = {} => Smallest(ups, fitting) = None)
  BY DEF Smallest, First
<1>5. ForUvs(ups, e) = Else(First(exact), Smallest(ups, fitting))
  BY DEF ForUvs, SmallestContaining
<1> QED BY <1>2, <1>3, <1>4, <1>5 DEF Else

(* A texture that has the name was chosen by it: what is chosen by size or *)
(* by the state's name has it only if the two choices by name find one.    *)
LEMMA NameDecides ==
  ASSUME NEW ups \in Seq(Upload), NEW n \in Names, NEW state, NEW e,
         WithUvs(ups, n, state, e) # None, ups[WithUvs(ups, n, state, e)].name = n
  PROVE  ByNameContaining(ups, n, e) # None \/ NamedForUvs(ups, n, e) # None
<1> SUFFICES ASSUME ByNameContaining(ups, n, e) = None, NamedForUvs(ups, n, e) = None
             PROVE  FALSE
  OBVIOUS
<1> DEFINE i == WithUvs(ups, n, state, e)
<1>1. \/ ForUvs(ups, e) # None /\ i = ForUvs(ups, e)
      \/ state # n /\ i = NamedForUvs(ups, state, e)
  BY DEF WithUvs, Else
<1>2. CASE ForUvs(ups, e) # None /\ i = ForUvs(ups, e)
  BY <1>2, SizedFits, NamedIsNamed
<1>3. CASE state # n /\ i = NamedForUvs(ups, state, e)
  BY <1>3, NamedIsNamed
<1> QED BY <1>1, <1>2, <1>3

(* An upload under another name leaves the choices by this name alone.     *)
LEMMA OthersKeepNames ==
  ASSUME NEW ups \in Seq(Upload), NEW u \in Upload, NEW n, u.name # n, NEW e
  PROVE  LET more == Append(ups, u)
         IN  /\ ByName(more, n) = ByName(ups, n)
             /\ ByNameContaining(more, n, e) = ByNameContaining(ups, n, e)
             /\ NamedForUvs(more, n, e) = NamedForUvs(ups, n, e)
<1> DEFINE more == Append(ups, u)
           named == {i \in DOMAIN ups : ups[i].name = n}
<1>1. /\ Len(ups) \in Nat /\ DOMAIN ups = 1 .. Len(ups)
      /\ DOMAIN more = 1 .. Len(ups) + 1
      /\ more[Len(ups) + 1] = u /\ \A i \in 1 .. Len(ups) : more[i] = ups[i]
  BY LenProperties, AppendProperties
<1> HIDE DEF more
<1>2. {i \in DOMAIN more : more[i].name = n} = named /\ \A i \in named : more[i] = ups[i]
  BY <1>1
<1>3. ByName(more, n) = ByName(ups, n)
  BY <1>2 DEF ByName
<1>4. ByNameContaining(more, n, e) = ByNameContaining(ups, n, e)
  <2>1. ByName(ups, n) # None => ByName(ups, n) \in named
    <3>1. named # {} => Latest(named) \in named
      BY <1>1, LatestIsIn
    <3> QED BY <3>1 DEF ByName, Latest
  <2> QED BY <1>2, <1>3, <2>1 DEF ByNameContaining
<1>5. NamedForUvs(more, n, e) = NamedForUvs(ups, n, e)
  <2> DEFINE fitting == {i \in named : ups[i].size >= Need(e)}
  <2>1. {i \in named : more[i].size = Span(e)} = {i \in named : ups[i].size = Span(e)}
    BY <1>2
  <2>2. {i \in named : more[i].size >= Need(e)} = fitting
    BY <1>2
  <2>3. Smallest(more, fitting) = Smallest(ups, fitting)
    <3>1. {i \in fitting : \A j \in fitting : more[i].size <= more[j].size}
            = {i \in fitting : \A j \in fitting : ups[i].size <= ups[j].size}
      BY <1>2
    <3> QED BY <3>1 DEF Smallest
  <2> QED BY <1>2, <2>1, <2>2, <2>3 DEF NamedForUvs
<1> QED BY <1>3, <1>4, <1>5 DEF more

(* An import that changes the uploads adds one.                            *)
LEMMA UploadsGrow ==
  ASSUME TInv, TInv', [Next]_vars, uploads' # uploads
  PROVE  \E u \in Upload : uploads' = Append(uploads, u)
<1>1. CASE Textures
  <2>1. PICK u : uploads' = Append(uploads, u)
    BY <1>1 DEF Textures, NameTexture, BindTexture, UploadTexture, ResourceUpload
  <2>2. uploads \in Seq(Upload) /\ uploads' \in Seq(Upload)
    BY DEF TInv
  <2>3. uploads'[Len(uploads')] = u /\ Len(uploads') \in DOMAIN uploads'
    BY <2>1, <2>2, AppendProperties, LenProperties
  <2>4. u \in Upload
    BY <2>2, <2>3, ElementOfSeq, LenProperties
  <2> QED BY <2>1, <2>4
<1>2. CASE \E rows \in SUBSET Rows, e \in Extents, cover \in BOOLEAN : Draw(rows, e, cover)
  BY <1>2 DEF Draw, DrawQuads, DrawStrip, DrawElements, DrawUnsupported, textureVars
<1>3. CASE CandidateBegin \/ CandidatePresent \/ Arrays \/ PushChar \/ FrameReturn
           \/ PresentDmaFrame \/ \E n, state \in Names0 : BindMaterial(n, state)
  BY <1>3 DEF CandidateBegin, CandidatePresent, Arrays, DefineArray, EnableArray, PushChar, FrameReturn,
       PresentDmaFrame, BindMaterial, textureVars
<1>4. CASE \E r \in Rows, p \in 1 .. MaxPasses : DmaWrite32(r, p) \/ DmaWriteNarrow(r, p)
  BY <1>4 DEF DmaWrite32, DmaWriteNarrow, Stored, textureVars
<1>5. CASE UNCHANGED vars
  BY <1>5 DEF vars, textureVars
<1> QED BY <1>1, <1>2, <1>3, <1>4, <1>5 DEF Next

(* A draw with texture coordinates of its own, or without any, that shows  *)
(* a texture of its material's name is shown the same after uploads for    *)
(* other names (rasterize_draw, rasterize_triangle_strip_record), for any  *)
(* list of uploads, sizes, formats, extents and states.                    *)
THEOREM TexturesStay == Spec => TextureStays
<1> DEFINE Step == uploads' # uploads =>
             \A n \in Names \ {uploads'[Len(uploads')].name} :
               /\ WithoutUvs(uploads', n) = WithoutUvs(uploads, n)
               /\ \A state \in Names0, e \in Extents :
                    LET i == WithUvs(uploads, n, state, e)
                    IN  NameAt(i) = n => WithUvs(uploads', n, state, e) = i
<1>1. TInv /\ TInv' /\ [Next]_vars => Step
  <2> SUFFICES ASSUME TInv, TInv', [Next]_vars, uploads' # uploads,
                      NEW n \in Names \ {uploads'[Len(uploads')].name}
               PROVE  /\ WithoutUvs(uploads', n) = WithoutUvs(uploads, n)
                      /\ \A state \in Names0, e \in Extents :
                           LET i == WithUvs(uploads, n, state, e)
                           IN  NameAt(i) = n => WithUvs(uploads', n, state, e) = i
    OBVIOUS
  <2>1. PICK u \in Upload : uploads' = Append(uploads, u)
    BY UploadsGrow
  <2>2. uploads \in Seq(Upload)
    BY DEF TInv
  <2>3. uploads'[Len(uploads')] = u
    BY <2>1, <2>2, AppendProperties
  <2>4. u.name # n
    BY <2>3
  <2>5. WithoutUvs(uploads', n) = WithoutUvs(uploads, n)
    BY <2>1, <2>2, <2>4, OthersKeepNames DEF WithoutUvs
  <2>6. ASSUME NEW state \in Names0, NEW e \in Extents, NameAt(WithUvs(uploads, n, state, e)) = n
        PROVE  WithUvs(uploads', n, state, e) = WithUvs(uploads, n, state, e)
    <3>1. /\ ByNameContaining(uploads', n, e) = ByNameContaining(uploads, n, e)
          /\ NamedForUvs(uploads', n, e) = NamedForUvs(uploads, n, e)
      BY <2>1, <2>2, <2>4, OthersKeepNames
    <3>2. /\ WithUvs(uploads, n, state, e) # None
          /\ uploads[WithUvs(uploads, n, state, e)].name = n
      BY <2>6, TexturesAssumption DEF NameAt
    <3>3. ByNameContaining(uploads, n, e) # None \/ NamedForUvs(uploads, n, e) # None
      BY <2>2, <3>2, NameDecides
    <3> QED BY <3>1, <3>3 DEF WithUvs, Else
  <2> QED BY <2>5, <2>6
<1> QED BY <1>1, InitHolds, InitTyped, NextKeeps, NextTyped, PTL DEF Spec, TextureStays
===============================================================================
