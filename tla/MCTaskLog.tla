----------------------------- MODULE MCTaskLog -----------------------------
EXTENDS TaskLog

\* Sizes that meet the limit of the output exactly, stay below it or pass it.
ChunkSizes == 1..2
=============================================================================
