-------------------------- MODULE MCServerProgram --------------------------
(***************************************************************************)
(* Three browsers, a table of at most one row, two tickets at start-up for *)
(* the eight of the code.  v23.1 and v23.2 are as v23 in this module.      *)
(***************************************************************************)
EXTENDS ServerProgram

AllPrograms == {v21, v22, v23, v23_1, v23_2}
AskedFor == {"stats", "create", "late"}
=============================================================================
