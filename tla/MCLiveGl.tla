------------------------------- MODULE MCLiveGl -------------------------------
(* Four guests for LiveGl in one run, chosen in the initial state: one that*)
(* assembles frames over a DMA buffer, one that uploads textures and draws *)
(* with them, one that draws glyphs, and one for the diagnostic capture.   *)
EXTENDS LiveGl

TwoNames == {"font", "sprite"}
OnePointer == {"font"}
TwoSizes == {1, 2}
OneSource == {"pixels"}
MCExtents == {[lo |-> 0, hi |-> 1], [lo |-> 1, hi |-> 2], [lo |-> 0, hi |-> 2]}
Some == [lo |-> 0, hi |-> 1]

VARIABLE guest

MCInit == /\ Init /\ guest \in {"frames", "textures", "glyphs", "capture"}
          /\ continuous = (guest # "capture")

MCFrames ==
  /\ guest = "frames"
  /\ \/ CandidateBegin \/ CandidatePresent \/ FrameReturn \/ PresentDmaFrame
     \/ \E kind \in {"pos", "bad"} : DefineArray(0, kind)
     \/ EnableArray(0)
     \/ \E r \in Rows, p \in 1 .. MaxPasses : DmaWrite32(r, p) \/ DmaWriteNarrow(r, p)
     \/ uploads = <<>> /\ UploadTexture(1, FALSE, "pixels")
     \/ /\ gl.counted < 2
        /\ \/ \E rows \in {{"top"}, Rows}, cover \in BOOLEAN : DrawQuads(1, "none", Some, rows, cover)
           \/ DrawStrip(Some, {"top"}, TRUE) \/ DrawElements(Some, {"top"}, TRUE)
           \/ DrawUnsupported

MCTextures ==
  /\ guest = "textures"
  /\ Textures

MCGlyphs ==
  /\ guest = "glyphs"
  /\ \/ PushChar \/ FrameReturn
     \/ DefineArray(0, "pos")
     \/ \E kind \in {"uv", "colour"} : DefineArray(1, kind)
     \/ DefineArray(2, "uv")
     \/ \E n \in Names : BindMaterial(n, NoName)
     \/ uploads = <<>> /\ \E a8 \in BOOLEAN : UploadTexture(2, a8, "pixels")
     \/ /\ gl.counted < 2
        /\ \E e \in MCExtents : \/ \E groups \in 1 .. 2, glyph \in Glyphs :
                                    DrawQuads(groups, glyph, e, {"top"}, TRUE)
                               \/ DrawStrip(e, {"top"}, TRUE)

MCCapture ==
  /\ guest = "capture"
  /\ \/ CandidateBegin \/ CandidatePresent \/ FrameReturn
     \/ DefineArray(0, "pos") \/ DefineArray(1, "uv")
     \/ \E n \in Names : BindMaterial(n, NoName)
     \/ uploads = <<>> /\ UploadTexture(1, FALSE, "pixels")
     \/ \E groups \in 1 .. 2 : DrawQuads(groups, "none", Some, {"top"}, TRUE)

MCNext == (MCFrames \/ MCTextures \/ MCGlyphs \/ MCCapture) /\ UNCHANGED guest

MCSpec == MCInit /\ [][MCNext]_<<vars, guest>> /\ WF_<<vars, guest>>(PresentDmaFrame /\ UNCHANGED guest)
===============================================================================
