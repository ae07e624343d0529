--------------------------- MODULE MCExternalEdit ---------------------------
\* Contents and jobs are interchangeable: none is named in the specification.
EXTENDS ExternalEdit, TLC

CONSTANTS t1, t2, t3, j1, j2

Symmetry == Permutations(Text) \cup Permutations(Job)
=============================================================================
