--------------------------- MODULE MCArtifactInstall ---------------------------
EXTENDS ArtifactInstall, TLC

CONSTANTS r1, r2, b1, b2, i1, i2, i3, i4

TwoRefs == {r1, r2}
OneRef == {r1}
TwoBuilds == {b1, b2}
FourIds == {i1, i2, i3, i4}
ThreeIds == {i1, i2, i3}
Renamings == Permutations(TwoRefs) \cup Permutations(TwoBuilds) \cup Permutations(ThreeIds)
=============================================================================
