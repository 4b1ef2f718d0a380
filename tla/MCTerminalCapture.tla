------------------------- MODULE MCTerminalCapture -------------------------
(* Values for TLC. *)
EXTENDS TerminalCapture

\* Plain output beyond the cap, a window title, an escape left unfinished.
MCOutputs == {<<"out", "out", "out">>, <<"esc", "]", "bel">>, <<"esc">>}
=============================================================================
