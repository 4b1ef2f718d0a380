--------------------------- MODULE MCSessionLoader ---------------------------
(* Two sources share one body thread; small pages, short windows.          *)
EXTENDS SessionLoader
CONSTANTS a, b
=============================================================================
