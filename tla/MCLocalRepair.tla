--------------------------- MODULE MCLocalRepair ---------------------------
EXTENDS LocalRepair
=============================================================================
