----------------------------- MODULE MCKeyMonitor -----------------------------
EXTENDS KeyMonitor
===============================================================================
