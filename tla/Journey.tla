------------------------------- MODULE Journey -------------------------------
(***************************************************************************)
(* What becomes of a text on its way: an address or a link to a request,   *)
(* what is typed in the guest book's form to an entry, and the entry to    *)
(* what the next page shows.  It composes                                  *)
(*   Address   resolving and parsing (src/Url.cpp),                        *)
(*   FormBody  encoding and decoding (include/url.hpp, Server/),           *)
(*   Response  head and body of an answer (src/Url.cpp),                   *)
(*   Markup    escaping and scanning (Server/, src/HTMLParser.cpp), with   *)
(*             the attributes of tags.                                       *)
(* One user, logged in, with one tab; the sessions and the users' races    *)
(* are GuestBook's, the bytes on the way Exchange's.                       *)
(***************************************************************************)
EXTENDS Address, FormBody, Markup, Response

CONSTANTS
  Server,      \* the host and port the server's policy names
  Alias,       \* another host name of the server
  Elsewhere,   \* a host with other pages, at port 80
  Typed,       \* addresses the user types
  Links,       \* href of the pages' links
  Keys,        \* what one key adds to a field, a sequence of bytes
  Tags,        \* tags on pages of other hosts: [name, attributes], see WriteTag
  Earlier,     \* entries, or None, that may be there before
  Limit,       \* of a comment: 100
  MaxText, MaxPath   \* bounds: bytes in the fields, lexemes of a path

ASSUME BoundsAssumption == {Limit, MaxText, MaxPath} \subseteq Nat

Bytes == 0..255

Without(text, bytes) == \A i \in DOMAIN text : text[i] \notin bytes

IsWord(s) == s # <<>> /\ Without(s, White \cup {EqualSign, Quote})

\* What is not between double quotes is one word, or nothing; a tag ends at its
\* end, and does not begin like a comment.
IsAttribute(a) ==
  /\ {a.key, a.value} \subseteq Seq(Bytes \ {Lt, Gt}) /\ IsWord(a.key)
  /\ \/ a.form = "bare" /\ a.value = <<>>
     \/ a.form \in {"plain", "single"} /\ IsWord(a.value) /\ Head(a.value) # Apostrophe
     \/ a.form = "quoted" /\ Without(a.value, {Quote})

ASSUME TagsAssumption ==
  \A t \in Tags :
    /\ t.name \in Seq(Bytes \ ({Lt, Gt} \cup 65..90)) /\ IsWord(t.name) /\ Head(t.name) # Bang
    /\ t.attributes \in Seq([key : Seq(Bytes), form : STRING, value : Seq(Bytes)])
    /\ \A i \in DOMAIN t.attributes : IsAttribute(t.attributes[i])

ASSUME TextsAssumption ==
  /\ Keys \cup (Earlier \ {None}) \subseteq Seq(Bytes)
  /\ Typed \cup Links \subseteq Seq(Lexemes) /\ {"add", "comment.js"} \subseteq Names

VARIABLES
  phase,     \* "user", "page" or "script" (waiting for that answer), "gone"
  here,      \* m_history.back(), or None
  answer,    \* the response being read
  page,      \* what the tab shows: texts and tags
  edited,    \* the values of the page's inputs that were clicked, by name
  focus,     \* the name of the input in m_focus, or None
  checked,   \* comment.js has set its listeners
  allow,     \* its allow_submit
  entry,     \* the newest of ENTRIES, or None
  sent,      \* history variable: the comment submitted, or none: see Submitted
  whole      \* history variable: the last page was read to its end

vars == <<phase, here, answer, page, edited, focus, checked, allow, entry, sent, whole>>

-----------------------------------------------------------------------------
(* The server, its pages reduced to what a text passes *)

\* "H 2 O", a header, an empty line.
HeadOf == <<72, 32, 50, 32, 79>> \o CRLF \o <<67, 58, 49>> \o CRLF \o CRLF

TagOf(b) == <<Lt, b, Gt>>
ScriptTag == 115   \* the script element of the book
InputTag == 105
FormTag == 98      \* the button that ends its form
Comment_js == <<67, 59>>

\* The line show_comments writes, " by " and the user's name in two bytes.
Signed(text) == text \o <<Space, 117>>

GuestName == <<103>>
NonceName == <<97>>
Nonce == <<55>>
NameKey == <<110>>
ValueKey == <<118>>

\* An attribute is a key, or has a value in one of three forms.
WriteAttribute(a) ==
  a.key \o CASE a.form = "bare" -> <<>>
             [] a.form = "plain" -> <<EqualSign>> \o a.value
             [] a.form = "single" -> <<EqualSign, Apostrophe>> \o a.value \o <<Apostrophe>>
             [] a.form = "quoted" -> <<EqualSign, Quote>> \o a.value \o <<Quote>>

WriteTag(t) ==
  <<Lt>> \o t.name \o
  FlattenSeq([i \in DOMAIN t.attributes |-> <<Space>> \o WriteAttribute(t.attributes[i])]) \o <<Gt>>

Plain(key, text) == [key |-> key, form |-> "plain", value |-> text]
Input(attributes) == WriteTag([name |-> <<InputTag>>, attributes |-> attributes])

BookPage(newest) ==
  TagOf(ScriptTag) \o
  Input(<<Plain(NameKey, GuestName)>>) \o
  Input(<<Plain(NameKey, NonceName), Plain(ValueKey, Nonce)>>) \o TagOf(FormTag) \o
  (IF newest = None THEN <<>>
   ELSE TagOf(112) \o HtmlEscape(Signed(newest)) \o <<Lt, 47, 112, Gt>>)

NotFound == TagOf(104) \o CRLF \o TagOf(105)

\* add_entry: the comment it keeps, None if it is too long.
Accepted(fields) ==
  LET guest == Param(fields, GuestName)
  IN IF guest = None THEN None ELSE IF Len(guest) <= Limit THEN guest ELSE None

AtServer(u) == ~u.tls /\ [host |-> u.host, port |-> u.port] \in {Server, Alias}
Reachable(u) == AtServer(u) \/ (~u.tls /\ u.host = Elsewhere /\ u.port = <<"80">>)

Adds(u, post) == AtServer(u) /\ post # None /\ u.path = <<"/", "add">>
Taken(post) == Param(Fields(Decode(post)), NonceName) = Nonce

\* do_request: the newest entry after a request, and the page.
EntryAfter(u, post) ==
  IF Adds(u, post) /\ Taken(post) /\ Accepted(Fields(Decode(post))) # None
  THEN Accepted(Fields(Decode(post)))
  ELSE entry

\* Another host has a page with any one tag, or with <>, at the addresses that
\* are typed.
HasTag(u) == ~AtServer(u) /\ u.text \in Typed

PagesFor(u, post) ==
  IF HasTag(u) THEN {WriteTag(t) : t \in Tags} \cup {<<Lt, Gt>>}
  ELSE IF \/ AtServer(u) /\ post = None /\ u.path = <<"/">>
          \/ Adds(u, post) /\ Taken(post)
  THEN {BookPage(EntryAfter(u, post))}
  ELSE {NotFound}

-----------------------------------------------------------------------------
(* The browser *)

Init ==
  /\ phase = "user" /\ here = None /\ answer = <<>> /\ page = <<>>
  /\ edited = <<>> /\ focus = None /\ checked = FALSE /\ allow = TRUE
  /\ entry \in Earlier /\ sent = <<>> /\ whole = FALSE

\* Tab::load of address u up to the request.  An address that does not parse,
\* or a host that does not answer, ends the program.
Load(u, post) ==
  IF u = None
  THEN phase' = "gone" /\ UNCHANGED <<here, answer, entry>>
  ELSE IF ~Reachable(u)
  THEN phase' = "gone" /\ UNCHANGED <<here, answer, entry>>
  ELSE /\ phase' = "page" /\ here' = u
       /\ \E html \in PagesFor(u, post) : answer' = HeadOf \o html
       /\ entry' = EntryAfter(u, post)

\* The bounds: a form with an input clicked is sent, not left behind, and the
\* journey ends with the page that answers the comment.
CanLeave == phase = "user" /\ edited = <<>> /\ sent = <<>>

Visit ==
  /\ CanLeave
  /\ \E text \in Typed : Load(Parse(text), None)
  /\ focus' = None
  /\ UNCHANGED <<page, edited, checked, allow, sent, whole>>

\* Tab::click on a link.
Follow ==
  /\ CanLeave /\ here # None
  /\ \E link \in Links :
       /\ Len(here.path) + Len(link) < MaxPath
       /\ Load(Resolve(here, link), None)
  /\ focus' = None
  /\ UNCHANGED <<page, edited, checked, allow, sent, whole>>

IsTag(item, tag) == item.kind = "tag" /\ item.text = <<tag>>
Shows(tag) == \E i \in DOMAIN page : IsTag(page[i], tag)

\* The policy's origin, from the header every answer of the server carries.
Allowed(u) ==
  AtServer(here) => Origin(u) = [scheme |-> <<"http">>, host |-> Server.host, port |-> Server.port]

\* The rest of request and load.  The server may end at any byte; what was read
\* until then is the response.  The bounds: after a comment, and of a page with
\* somebody else's tag, only the whole is of interest.
ReadPage(k) ==
  /\ phase = "page"
  /\ (sent # <<>> \/ HasTag(here) => k = Len(answer))
  /\ LET html == Read(SubSeq(answer, 1, k))
         items == Scan(html)
         script == Resolve(here, <<"comment.js">>)
     IN IF html = None \/ Contains(items, Undefined)
        THEN phase' = "gone" /\ UNCHANGED <<answer, page>>
        ELSE /\ page' = items
             /\ IF Shows(ScriptTag)' /\ Allowed(script)
                THEN /\ phase' = "script"
                     /\ \E file \in {Comment_js, <<>>} : answer' = HeadOf \o file
                ELSE phase' = "user" /\ answer' = <<>>
  /\ whole' = (k = Len(answer))
  /\ edited' = <<>> /\ checked' = FALSE /\ allow' = TRUE
  /\ UNCHANGED <<here, focus, entry, sent>>

\* What is not the whole of comment.js does not evaluate, and its listeners go
\* to the form.
ReadScript(k) ==
  /\ phase = "script"
  /\ (sent # <<>> => k = Len(answer))
  /\ LET code == Read(SubSeq(answer, 1, k))
     IN IF code = None
        THEN phase' = "gone" /\ UNCHANGED checked
        ELSE phase' = "user" /\ checked' = (code = Comment_js /\ Shows(FormTag))
  /\ answer' = <<>>
  /\ UNCHANGED <<here, page, edited, focus, allow, entry, sent, whole>>

\* What the engine counts: bytes that do not continue a character.
Characters(text) == Cardinality({i \in DOMAIN text : text[i] \notin 128..191})

\* The bounds: one comment, in the book, and on a page read to its end.
CanType == phase = "user" /\ Shows(FormTag) /\ AtServer(here) /\ whole /\ sent = <<>>

\* The items of the form: those in front of its button.
Form ==
  LET button == CHOOSE i \in DOMAIN page :
                  IsTag(page[i], FormTag) /\ \A j \in 1..(i - 1) : ~IsTag(page[j], FormTag)
  IN SubSeq(page, 1, button - 1)

\* Tab::submit_form: the inputs that have a name, in their order.
InputTags == SelectSeq(Form, LAMBDA item :
                  IsTag(item, InputTag) /\ NameKey \in DOMAIN item.attributes)

\* A click on an input empties it, the hidden one too, which is drawn like any
\* other; no key, no listener.
ClickField ==
  /\ CanType
  /\ \E input \in ToSet(InputTags) :
       LET name == input.attributes[NameKey]
       IN focus' = name /\ edited' = (name :> <<>>) @@ edited
  /\ UNCHANGED <<phase, here, answer, page, checked, allow, entry, sent, whole>>

\* A click on nothing.
ClickBeside ==
  /\ CanType
  /\ focus' = None
  /\ UNCHANGED <<phase, here, answer, page, edited, checked, allow, entry, sent, whole>>

\* The keydown listener, of every input, runs before the key is handled.
LengthCheck ==
  allow' = IF checked THEN Characters(edited[focus]) <= Limit ELSE allow

\* The bytes in all fields that were clicked.
Filled == FoldFunction(LAMBDA text, n : Len(text) + n, 0, edited)

\* A key that writes nothing, as shift.
PressKey ==
  /\ CanType /\ focus # None
  /\ LengthCheck
  /\ UNCHANGED <<phase, here, answer, page, edited, focus, checked, entry, sent, whole>>

Type ==
  /\ CanType /\ focus # None
  /\ \E key \in Keys :
       /\ Filled + Len(key) <= MaxText
       /\ edited' = [edited EXCEPT ![focus] = @ \o key]
  /\ LengthCheck
  /\ UNCHANGED <<phase, here, answer, page, focus, checked, entry, sent, whole>>

Backspace ==
  /\ CanType /\ focus # None
  /\ edited' = [edited EXCEPT ![focus] = IF @ = <<>> THEN @ ELSE Front(@)]
  /\ LengthCheck
  /\ UNCHANGED <<phase, here, answer, page, focus, checked, entry, sent, whole>>

Content(input) ==
  LET name == input.attributes[NameKey]
  IN IF name \in DOMAIN edited THEN edited[name]
     ELSE IF ValueKey \in DOMAIN input.attributes THEN input.attributes[ValueKey]
     ELSE <<>>

FormData ==
  LET field(input) == Encode(input.attributes[NameKey]) \o <<Equals>> \o Encode(Content(input))
  IN FlattenSeq([i \in DOMAIN InputTags |->
                   (IF i = 1 THEN <<>> ELSE <<Amp>>) \o field(InputTags[i])])

\* The value of the input of a name.
ValueOf(name) ==
  Content(CHOOSE input \in ToSet(InputTags) : input.attributes[NameKey] = name)

\* What is submitted, the page's nonce clicked or not, comment.js there or not, and
\* whether the server takes the form.
Submitted(action, post) ==
  [text |-> ValueOf(GuestName), nonce |-> ValueOf(NonceName),
   retyped |-> NonceName \in DOMAIN edited, checked |-> checked,
   taken |-> Adds(action, post) /\ Taken(post)]


\* A click on the button; the listener of the form may prevent the rest.
Submit ==
  /\ CanType
  /\ IF checked => allow
     THEN \E action \in {Resolve(here, <<"add">>)}, post \in {FormData} :
            Load(action, post) /\ sent' = <<Submitted(action, post)>>
     ELSE UNCHANGED <<phase, here, answer, entry, sent>>
  /\ focus' = None
  /\ UNCHANGED <<page, edited, checked, allow, whole>>

Next ==
  \/ Visit \/ Follow
  \/ \E k \in 0..Len(answer) : ReadPage(k) \/ ReadScript(k)
  \/ ClickField \/ ClickBeside \/ PressKey \/ Type \/ Backspace \/ Submit

Spec == Init /\ [][Next]_vars

-----------------------------------------------------------------------------
(* Properties *)

\* The form is taken if and only if the nonce's field holds the page's nonce, left
\* alone or typed anew, whatever is typed as the comment, from every address the
\* form is shown at; and then a comment without & that fits the server's limit
\* becomes the entry byte by byte, after one encoding and one decoding.
CommentSurvives ==
  \A s \in ToSet(sent) :
    /\ Without(s.nonce, {Amp}) => s.taken = (s.nonce = Nonce)
    /\ s.nonce = Nonce /\ Without(s.text, {Amp}) /\ Len(s.text) <= Limit => entry = s.text


\* The book, read to its end, shows the newest entry as it was written, in one
\* text, if and only if the entry has none of the signs html_escape spells out
\* and no entity, which html_escape does not spell out and the browser does read.
ShownAsWritten ==
  phase = "user" /\ Shows(FormTag) /\ AtServer(here) /\ whole /\ entry # None =>
    (/\ Without(entry, {Lt, Gt})
     /\ Find(entry, EntityLt, 1) = None /\ Find(entry, EntityGt, 1) = None
     <=> \E i \in DOMAIN page : page[i].text = Signed(entry))

\* The head of an answer that is cut decides: without all of it reading is
\* undefined, with nothing else the head is taken for the page, and beyond that
\* the tab shows the beginning of the page, the last item in part.
CutExplained ==
  phase = "page" /\ sent = <<>> =>
    LET all == Scan(SubSeq(answer, Len(HeadOf) + 1, Len(answer)))
    IN \A k \in 0..Len(answer) :
      LET html == Read(SubSeq(answer, 1, k))
          body == SubSeq(answer, Len(HeadOf) + 1, k)
          shown == Scan(html)
      IN /\ (html = None) = (k < Len(HeadOf))
         /\ (k = Len(HeadOf) => html = HeadOf)
         /\ (k > Len(HeadOf) =>
               html = body /\ (shown # <<>> => IsPrefix(Front(shown), all)))

\* What a tag's author meant by some of its attributes: the last one of a key
\* counts, in whatever case.
Meant(attributes, those) ==
  LET key(i) == Casefold(attributes[i].key)
      last(k) == CHOOSE i \in those :
                   key(i) = k /\ \A j \in those : j > i => key(j) # k
  IN [k \in {key(i) : i \in those} |-> attributes[last(k)].value]

\* A value in quotes with an = in it costs its attribute, unless the = is all of it.
IsLost(a) == a.form = "quoted" /\ a.value # <<EqualSign>> /\ Contains(a.value, EqualSign)

\* A tag is read as it was written, in each form of its attributes, but for two
\* things.  An attribute that is lost costs nothing else.  Empty quotes cost their
\* attribute and what is behind it; what stands in front of it is still read,
\* unless something behind has the same name.
AttributesExplained ==
  phase = "page" /\ HasTag(here) =>
    \A t \in Tags : answer = HeadOf \o WriteTag(t) =>
      LET read == Head(Scan(WriteTag(t)))
          empty == {i \in DOMAIN t.attributes :
                      t.attributes[i].form = "quoted" /\ t.attributes[i].value = <<>>}
          kept == {i \in DOMAIN t.attributes : ~IsLost(t.attributes[i])}
          front(i) == Meant(t.attributes, kept \cap 1..(i - 1))
          rest(i) == SubSeq(t.attributes, i, Len(t.attributes))
          behind(i) == Casefold(WriteTag([name |-> t.name, attributes |-> rest(i)]))
      IN /\ read.text = t.name
         /\ empty = {} => read.attributes = Meant(t.attributes, kept)
         /\ \A i \in empty :
              (\A j \in empty : i <= j) =>
                \A k \in DOMAIN front(i) :
                  /\ k \in DOMAIN read.attributes
                  /\ (Find(behind(i), k, 1) = None => read.attributes[k] = front(i)[k])

\* A link within the site stays on the site: one that starts with / names the
\* path, one that climbs no higher than the root replaces what is behind the slash
\* it climbs to, the one with as many slashes behind it as the link has levels.
\* And the address kept in the history parses to itself, which go_back relies on.
LinksStay ==
  phase = "user" /\ here # None /\ edited = <<>> =>
    /\ Parse(here.text) = here
    /\ \A link \in Links : Find(link, Marker, 1) = None =>
         LET u == Resolve(here, link)
             behind(i) == {j \in DOMAIN here.path : j > i /\ here.path[j] = "/"}
             stays(path) == /\ u # None
                            /\ u.tls = here.tls /\ Origin(u) = Origin(here)
                            /\ u.path = path
         IN IF At(link, 1, <<"/">>)
            THEN ~At(link, 1, <<"/", "/">>) => stays(link)
            ELSE \A i \in DOMAIN here.path :
                   here.path[i] = "/" /\ Cardinality(behind(i)) = Levels(link)
                     => stays(SubSeq(here.path, 1, i) \o From(link, 2 * Levels(link) + 1))
=============================================================================
