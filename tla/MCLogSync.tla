----------------------------- MODULE MCLogSync -----------------------------
EXTENDS LogSync
=============================================================================
