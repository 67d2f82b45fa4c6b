-------------------------------- MODULE Markup --------------------------------
(***************************************************************************)
(* Text in markup: what the server writes for an entry (html_escape,       *)
(* Server/server.cpp) and how the browser cuts a page into texts and tags  *)
(* (HTMLParser::parse, src/HTMLParser.cpp).  HTMLParser.tla goes on from   *)
(* there.                                                                  *)
(***************************************************************************)
EXTENDS Attributes

\* ASCII
Lt == 60   Gt == 62   Bang == 33   AmpLt == <<38, 108, 116>>   AmpGt == <<38, 103, 116>>
EntityLt == <<38, 108, 116, 59>>   EntityGt == <<38, 103, 116, 59>>

\* The name is written without its semicolon, and the sign itself after it.
HtmlEscape(s) ==
  FlattenSeq([i \in DOMAIN s |->
    CASE s[i] = Lt -> AmpLt \o <<Lt>>
      [] s[i] = Gt -> AmpGt \o <<Gt>>
      [] OTHER -> <<s[i]>>])

Text(word) ==
  IF \A i \in DOMAIN word : word[i] \in White THEN <<>>
  ELSE <<[kind |-> "text", text |-> word]>>

\* A tag without a name in it, such as <>: what is read then is undefined.
Undefined == [kind |-> "undefined", text |-> <<>>]

\* Declarations and comments begin with !.
ItemOf(tag) ==
  CASE tag.name = None -> <<Undefined>>
    [] tag.name # None /\ At(tag.name, 1, <<Bang>>) -> <<>>
    [] OTHER -> <<[kind |-> "tag", text |-> tag.name, attributes |-> tag.attributes]>>

Tag(word) == ItemOf(GetAttributes(word))

BugTurn(body, state, i) ==
  LET add(c) == [state EXCEPT !.word = Append(@, c)]
  IN CASE body[i] = Lt -> [state EXCEPT !.inTag = TRUE, !.word = <<>>]
       [] body[i] = Gt -> [state EXCEPT !.inTag = FALSE, !.word = <<>>,
                                        !.items = @ \o Tag(state.word)]
       [] OTHER -> add(body[i])

\* One turn of parse's loop at byte i of body.
Turn(body, state, i) ==
  LET entity(name) == ~state.inTag /\ At(body, i, name)
      add(c, skip) == [state EXCEPT !.word = Append(@, c), !.skip = skip]
  IN CASE state.skip > 0 -> [state EXCEPT !.skip = @ - 1]
       [] state.skip = 0 /\ body[i] = Lt ->
            [state EXCEPT !.inTag = TRUE, !.word = <<>>, !.items = @ \o Text(state.word)]
       [] state.skip = 0 /\ body[i] = Gt ->
            [state EXCEPT !.inTag = FALSE, !.word = <<>>, !.items = @ \o Tag(state.word)]
       [] state.skip = 0 /\ entity(EntityLt) -> add(Lt, 3)
       [] state.skip = 0 /\ entity(EntityGt) -> add(Gt, 3)
       [] OTHER -> add(body[i], 0)

\* The texts and tags of a page; what is left at its end, a tag cut short too,
\* is a text.
Scan(body) ==
  LET begin == [inTag |-> FALSE, word |-> <<>>, skip |-> 0, items |-> <<>>]
      scanned[n \in 0..Len(body)] == IF n = 0 THEN begin ELSE Turn(body, scanned[n - 1], n)
      end == scanned[Len(body)]
  IN end.items \o Text(end.word)
=============================================================================
