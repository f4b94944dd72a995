--------------------------- MODULE MCAdaptiveEngine ---------------------------
\* Four items in two batches; two ticks to begin with, four at most.
EXTENDS AdaptiveEngine

InBatch == [i \in Item |-> IF i <= 3 THEN 1 ELSE 2]
=============================================================================
