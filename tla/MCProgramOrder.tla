--------------------------- MODULE MCProgramOrder ---------------------------
(* ProgramOrder on every graph of a few nodes, for TLC.                    *)
EXTENDS ProgramOrder


MCFour == 1 .. 4
=============================================================================
