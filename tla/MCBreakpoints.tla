--------------------------- MODULE MCBreakpoints ---------------------------
(* Four addresses, one of them not an instruction, a table of three and    *)
(* four stubs: every order of installs, removals and step-overs, holes in  *)
(* the table, and both ways of running out.                                *)
EXTENDS Breakpoints
=============================================================================
