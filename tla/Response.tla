------------------------------- MODULE Response -------------------------------
(***************************************************************************)
(* What URL::request makes of the bytes it has read (src/Url.cpp).         *)
(***************************************************************************)
EXTENDS Strings

CRLF == <<13, 10>>
Blank == 32
Colon == 58

\* parse_response's index when it leaves its loop, in lines numbered from 1:
\* behind the first empty line.  None where a line has no second part or the
\* lines end first, which is undefined.
BehindHead(lines) ==
  LET ends == {i \in 2..Len(lines) : lines[i] = <<>>}
      stop == CHOOSE i \in ends : \A j \in ends : i <= j
  IN IF ends # {} /\ \A i \in 2..(stop - 1) : Find(lines[i], <<Colon>>, 1) # None
     THEN stop + 1
     ELSE None

StatusLineRead(line) == Len(Split(line, <<Blank>>)) >= 3

BugBody(response, lines, index) == lines[index]

\* The body is looked for: its text, as far as it is known to start at the line
\* behind the head, in the whole response.  No byte of it is NUL here.
Body(response, lines, index) ==
  LET start == Len(FlattenSeq([i \in 1..(index - 1) |-> lines[i] \o CRLF])) + 1
      text == From(response, start)
  IN From(response, Find(response, text, 1))

\* The body, or None where reading is undefined.
Read(response) ==
  LET lines == Split(response, CRLF)
      index == BehindHead(lines)
  IN IF ~StatusLineRead(lines[1]) \/ index = None THEN None
     ELSE IF index > Len(lines) THEN None ELSE Body(response, lines, index)
=============================================================================
