--------------------------- MODULE MCTerminalTabs ---------------------------
(* Small instances of TerminalTabs for TLC.                                 *)
EXTENDS TerminalTabs
=============================================================================
