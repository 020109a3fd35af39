--------------------------- MODULE MCWritePipeline ---------------------------
EXTENDS WritePipeline

\* The second write is one the server refuses.
MCBad == {2}
=============================================================================
