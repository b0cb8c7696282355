--------------------------- MODULE MCProjectIndex ---------------------------
(***************************************************************************)
(* A main document, its chapter, and a letter that is a main document of   *)
(* its own.  Each budget is a scenario.                                    *)
(***************************************************************************)
EXTENDS ProjectIndex, TLC

CONSTANTS thesis, main, chapter, letter

Roots == main :> main @@ chapter :> main @@ letter :> letter

Quiet == [open |-> 1, edit |-> 0, tab |-> 0, tree |-> 0, bad |-> 0,
          fail |-> 0, merge |-> 0]
Scenarios ==
  { [Quiet EXCEPT !.edit = 2, !.tree = 1],
    [Quiet EXCEPT !.edit = 1, !.tab = 2, !.merge = 1],
    [Quiet EXCEPT !.open = 3, !.edit = 1],
    [Quiet EXCEPT !.edit = 1, !.fail = 1, !.bad = 1, !.tree = 1],
    [Quiet EXCEPT !.tab = 1, !.bad = 1, !.tree = 1] }
=============================================================================
