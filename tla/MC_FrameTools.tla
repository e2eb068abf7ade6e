---------------------------- MODULE MC_FrameTools ----------------------------
EXTENDS FrameTools

\* Two pixels, the first is the region.
MCPixels == {1, 2}
MCFrames == SUBSET MCPixels
MCNear == {<<f, f>> : f \in MCFrames}
MCRegion == {1}
=============================================================================
