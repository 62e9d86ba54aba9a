---------------------------- MODULE MCRestartingIO ----------------------------
EXTENDS RestartingIO
===============================================================================
