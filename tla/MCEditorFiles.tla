---------------------------- MODULE MCEditorFiles ----------------------------
(***************************************************************************)
(* A main document and a bibliography: edits while a project is closed, a  *)
(* save fails, somebody else changes the document, the project is restored,*)
(* the document is deleted, and the bibliography is opened.                *)
(***************************************************************************)
EXTENDS EditorFiles

CONSTANTS main, bib

Quiet == [open |-> {main}, preload |-> {}, shared |-> {main},
          edit |-> 1, fault |-> 0, close |-> 0, restore |-> 0, delete |-> 0,
          load |-> 0, other |-> 0]
Sessions ==
  { [Quiet EXCEPT !.open = {main, bib}, !.edit = 2, !.close = 1, !.fault = 1],
    [Quiet EXCEPT !.edit = 2, !.other = 1],
    [Quiet EXCEPT !.close = 1, !.other = 1],
    [Quiet EXCEPT !.other = 2],
    [Quiet EXCEPT !.restore = 1, !.other = 1],
    [Quiet EXCEPT !.open = {main, bib}, !.delete = 1, !.other = 1],
    [Quiet EXCEPT !.preload = {bib}, !.shared = {bib}, !.load = 1,
                  !.other = 1] }
=============================================================================
