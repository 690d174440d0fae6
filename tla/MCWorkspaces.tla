---------------------------- MODULE MCWorkspaces ----------------------------
(* Two windows and a dialog on up to three workspaces, and an app that names one. *)
EXTENDS Workspaces, TLC

CONSTANTS v, w, dialog, app

MCWindows == {v, w, dialog}
MCFleeting == {dialog}
MCApps == {app}

Symmetry == Permutations({v, w})
=============================================================================
