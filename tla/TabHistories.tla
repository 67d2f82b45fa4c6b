---------------------------- MODULE TabHistories ----------------------------
(***************************************************************************)
(* What a user of the window can rely on: every tab is a stack of visited  *)
(* pages whose top is the page shown, exactly one tab is current, and the  *)
(* back button undoes one visit of the current tab and nothing else.       *)
(*                                                                         *)
(* Abstract specification.  Browser.tla implements it (BackIsUndo there,   *)
(* proved in BrowserProofs.tla).                                           *)
(***************************************************************************)
EXTENDS Naturals, Sequences, SequencesExt

CONSTANT Urls        \* the addresses a tab can show

VARIABLES stacks,    \* stacks[t]: pages visited in tab t, the shown one last
          current    \* the tab in front; 0 before the first one opens

vars == <<stacks, current>>

Init == stacks = <<>> /\ current = 0

\* A new tab opens in front and shows one page.
Open(u) ==
  /\ stacks' = Append(stacks, <<u>>)
  /\ current' = Len(stacks) + 1

\* The current tab moves on to another page.
Visit(u) ==
  /\ current \in DOMAIN stacks
  /\ stacks' = [stacks EXCEPT ![current] = Append(@, u)]
  /\ UNCHANGED current

\* The current tab returns to the page before the one it shows.
Back ==
  /\ current \in DOMAIN stacks
  /\ Len(stacks[current]) > 1
  /\ stacks' = [stacks EXCEPT ![current] = Front(@)]
  /\ UNCHANGED current

\* Another open tab comes to the front, as it was left.
Switch(t) ==
  /\ t \in DOMAIN stacks
  /\ current' = t
  /\ UNCHANGED stacks

Next ==
  \/ \E u \in Urls : Open(u) \/ Visit(u)
  \/ Back
  \/ \E t \in DOMAIN stacks : Switch(t)

Spec == Init /\ [][Next]_vars
=============================================================================
