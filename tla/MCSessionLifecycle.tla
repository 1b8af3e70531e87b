------------------------ MODULE MCSessionLifecycle ------------------------
EXTENDS SessionLifecycle, TLC

\* Each handler serves one request and they differ in nothing else.
HandlerSymmetry == Permutations(Handlers)
=============================================================================
