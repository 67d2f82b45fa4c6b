------------------------------- MODULE Tickets -------------------------------
(***************************************************************************)
(* What the guest book promises about its forms.  A form is a ticket: it   *)
(* is issued to one user, it lives until a newer one takes its place or it *)
(* is used, and using it signs the book once, in the name of the user it   *)
(* was issued to, and brings the next ticket.                              *)
(*                                                                         *)
(* Abstract specification.  GuestBook.tla implements it (ByTicket there).  *)
(***************************************************************************)
EXTENDS Sequences

CONSTANTS Users, Forms, None

VARIABLES issuedTo,   \* issuedTo[f]: the user form f was made for, or None
          live,       \* the forms that can still sign
          book        \* the entries: [user, nonce of the form]

vars == <<issuedTo, live, book>>

Init ==
  /\ issuedTo = [f \in Forms |-> None]
  /\ live = {}
  /\ book = <<>>

\* A new form for u; old, if there is such a form, can no longer sign.
Replace(old, f, u) ==
  /\ issuedTo[f] = None
  /\ issuedTo' = [issuedTo EXCEPT ![f] = u]
  /\ live' = (live \ {old}) \cup {f}

\* A page with a form is shown.
Issue(f, u) ==
  /\ \E old \in live \cup {None} : Replace(old, f, u)
  /\ UNCHANGED book

\* Form f is used, and next takes its place.
Sign(f, next) ==
  /\ f \in live
  /\ Replace(f, next, issuedTo[f])
  /\ book' = Append(book, [user |-> issuedTo[f], nonce |-> f])

\* The server starts again.
Forget ==
  /\ live' = {} /\ book' = <<>>
  /\ UNCHANGED issuedTo

Next ==
  \/ \E f \in Forms, u \in Users : Issue(f, u)
  \/ \E f, g \in Forms : Sign(f, g)
  \/ Forget

Spec == Init /\ [][Next]_vars
=============================================================================
