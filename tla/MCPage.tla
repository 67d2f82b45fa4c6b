-------------------------------- MODULE MCPage --------------------------------
(***************************************************************************)
(* Constants for checking Page.tla: small pages that nest what click cares *)
(* about, and fragments of one item.                                       *)
(***************************************************************************)
EXTENDS Page, TLC

CONSTANTS x1, x2, x3, x4

Item(kind, up) == [kind |-> kind, up |-> up]

MCAddresses == {x1, x2, x3, x4}
MCPages == {
  <<Item("plain", 0), Item("script", 1)>>,     \* <body><script>
  <<Item("a", 0), Item("input", 1)>>,          \* an input in a link
  <<Item("plain", 0), Item("input", 1)>>,      \* one that a click does not leave
  <<Item("form", 0), Item("button", 1)>>}
MCFragments == {<<>>, <<Item("input", 0)>>}

Symm == Permutations(MCAddresses)
=============================================================================
