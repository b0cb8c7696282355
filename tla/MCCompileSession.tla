-------------------------- MODULE MCCompileSession --------------------------
(***************************************************************************)
(* A project whose main document has a chapter, and a letter beside it     *)
(* that is a main document of its own; the projects are one or two.  Each  *)
(* budget is a scenario: what the user and other windows do at most.       *)
(***************************************************************************)
EXTENDS CompileSession, TLC

CONSTANTS thesis, book, main, chapter, letter, one, two

Roots == main :> main @@ chapter :> main @@ letter :> letter

Quiet == [press |-> 0, tagged |-> 0, edit |-> 0, tab |-> 0, project |-> 0,
          reset |-> 0, stop |-> 0, remote |-> 0]
Scenarios ==
  { [Quiet EXCEPT !.press = 2, !.edit = 2, !.stop = 1],
    [Quiet EXCEPT !.press = 2, !.edit = 1, !.tab = 1],
    [Quiet EXCEPT !.press = 2, !.tagged = 1, !.tab = 1],
    [Quiet EXCEPT !.press = 1, !.tagged = 1, !.tab = 2],
    [Quiet EXCEPT !.press = 2, !.reset = 1, !.edit = 1],
    [Quiet EXCEPT !.press = 2, !.project = 2],
    [Quiet EXCEPT !.press = 1, !.remote = 2, !.edit = 1],
    [Quiet EXCEPT !.press = 1, !.remote = 1, !.project = 2] }

(* Only what the user does: compile, type and change tabs.                 *)
Typing == {[Quiet EXCEPT !.press = 2, !.edit = 1, !.tab = 1]}
=============================================================================
