--------------------------- MODULE MCRotatingOutput ---------------------------
EXTENDS RotatingOutput
===============================================================================
