-------------------------- MODULE MCAttachControl --------------------------
EXTENDS AttachControl, TLC

\* A stream is told from another only by what its client does.
StreamSymmetry == Permutations(Streams)
=============================================================================
