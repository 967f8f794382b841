----------------------- MODULE MCArtifactWithholding -----------------------
\* Two entries, two credential values, and three objects on one run directory.
EXTENDS ArtifactWithholding
=============================================================================
