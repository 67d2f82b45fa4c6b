----------------------------- MODULE MCGuestBook -----------------------------
(***************************************************************************)
(* Constants for checking GuestBook.tla.                                   *)
(***************************************************************************)
EXTENDS GuestBook, TLC

CONSTANTS b1, b2, t1, t2, u1, u2, k1, k2, n1, n2, n3, n4

OneBrowser == {b1}
TwoBrowsers == {b1, b2}
OneTab == {t1}
TwoTabs == {t1, t2}
OneUser == {u1}
TwoUsers == {u1, u2}
OneToken == {k1}
TwoTokens == {k1, k2}
TwoNonces == {n1, n2}
FourNonces == {n1, n2, n3, n4}

\* Interchangeable values; no property that is checked with this symmetry is
\* temporal.
Symm == Permutations(TwoTabs) \cup Permutations(TwoUsers) \cup Permutations(FourNonces)
=============================================================================
