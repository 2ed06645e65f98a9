---------------------------- MODULE MCWorkspace ----------------------------
(* A room whose one page writes code and draws while the partner draws.     *)
EXTENDS Workspace

CONSTANTS ann, bob

DrawAndType == {<<ann, "code">>, <<ann, "board">>, <<bob, "board">>}
=============================================================================
