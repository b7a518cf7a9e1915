----------------------------- MODULE MCWindows -----------------------------
(* The main window and room for two dialogs at a time, so that any two     *)
(* kinds meet in either order; two sizes.                                  *)
EXTENDS ClientWindows
=============================================================================
