--------------------------- MODULE MC_FrameSettle ---------------------------
EXTENDS FrameSettle

\* Three shades; neighbours are within tolerance, the outer two are not.
MCFrames == 0..2
MCNear == {p \in MCFrames \X MCFrames : p[1] <= p[2] + 1 /\ p[2] <= p[1] + 1}
=============================================================================
