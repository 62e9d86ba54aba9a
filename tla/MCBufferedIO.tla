----------------------------- MODULE MCBufferedIO -----------------------------
(***************************************************************************)
(* BufferedIO on a queue of three snapshots: every position of the         *)
(* eviction cursor, and its wrap.                                          *)
(***************************************************************************)
EXTENDS BufferedIO
===============================================================================
