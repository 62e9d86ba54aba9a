------------------------------ MODULE MCAnalysis ------------------------------
EXTENDS Analysis
===============================================================================
