------------------------------ MODULE MCBrowser ------------------------------
(***************************************************************************)
(* Constants for checking Browser.tla.  One wheel unit is 40 pixels; a     *)
(* page of extent 0 fits the window.                                       *)
(***************************************************************************)
EXTENDS Browser

\* Two tabs, two pages, tall and short, and one event in flight with a text
\* behind it.
MCUrls == {"home", "other"}
MCExtents == {0, 2}
MCTurns == {-1, 1}
MCChars == {1, 2}
=============================================================================
