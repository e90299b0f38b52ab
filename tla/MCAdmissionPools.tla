--------------------------- MODULE MCAdmissionPools ---------------------------
\* AdmissionPools for TLC: descriptors and peers are interchangeable.
EXTENDS AdmissionPools, TLC

MCSymmetry == Permutations(Fds) \cup Permutations(Peers)
=============================================================================
