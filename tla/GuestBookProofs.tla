--------------------------- MODULE GuestBookProofs ---------------------------
(***************************************************************************)
(* Proofs about the guest book (GuestBook.tla) for any number of browsers, *)
(* tabs, accounts and restarts.                                            *)
(***************************************************************************)
EXTENDS GuestBook, SequenceTheorems, TLAPS

-----------------------------------------------------------------------------
(* The handlers, sorted by what they do to the server's memory *)

\* do_it answers with a page that leaves sessions and entries alone.
Message(b, k) ==
  /\ \E kind \in {"loginForm", "script", "message"} : ShowMessage(b, k, kind)
  /\ UNCHANGED entries

\* do_it answers with the book, for session s of token k; an accepted comment
\* that fits has been added.
Book(b, k, s) ==
  /\ ShowComments(b, k, s)
  /\ \/ /\ UNCHANGED entries
        /\ s = sessions[k] \/ \E u \in Users : s = [sessions[k] EXCEPT !.user = u]
     \/ /\ s = sessions[k] /\ Accepts(s, request[b])
        /\ entries' = Append(entries, [user |-> s.user, nonce |-> request[b].nonce])

Handle(b) ==
  /\ server = "up" /\ serving = b /\ conn[b] = "sent"
  /\ \E k \in TokenOf(b) : Message(b, k) \/ \E s \in Session : Book(b, k, s)

LEMMA SessionType ==
  ASSUME TypeOK, NEW k \in Tokens
  PROVE  sessions[k] \in Session
BY DEF TypeOK

LEMMA TokenType ==
  ASSUME TypeOK, NEW b \in Browsers
  PROVE  TokenOf(b) \subseteq Tokens
<1>1. jar[b] \in Tokens \cup {None}
  BY DEF TypeOK
<1>2. QED
  BY <1>1 DEF TokenOf

\* What a browser in the middle of a request asked for.
LEMMA RequestType ==
  ASSUME TypeOK, NEW b \in Browsers, conn[b] # "idle"
  PROVE  request[b] \in Request
BY DEF TypeOK

LEMMA ServeIsHandle ==
  ASSUME TypeOK, NEW b \in Browsers, Serve(b)
  PROVE  ReadTruncated(b) \/ Handle(b)
<1>1. CASE ReadTruncated(b)
  BY <1>1
<1>2. CASE Home(b)
  <2>1. server = "up" /\ serving = b /\ conn[b] = "sent" /\ UNCHANGED entries
    BY <1>2 DEF Home, Serving
  <2>2. PICK k \in TokenOf(b) : ShowComments(b, k, sessions[k])
    BY <1>2 DEF Home
  <2>3. sessions[k] \in Session
    BY TokenType, SessionType
  <2>4. Book(b, k, sessions[k])
    BY <2>1, <2>2 DEF Book
  <2>5. QED
    BY <2>1, <2>3, <2>4 DEF Handle
<1>3. CASE LoginForm(b) \/ Script(b) \/ NotFound(b)
  <2>1. server = "up" /\ serving = b /\ conn[b] = "sent" /\ UNCHANGED entries
    BY <1>3 DEF LoginForm, Script, NotFound, Serving
  <2>2. PICK k \in TokenOf(b) : \E kind \in {"loginForm", "script", "message"} :
                                  ShowMessage(b, k, kind)
    BY <1>3 DEF LoginForm, Script, NotFound
  <2>3. QED
    BY <2>1, <2>2 DEF Handle, Message
<1>4. CASE Login(b)
  <2>1. server = "up" /\ serving = b /\ conn[b] = "sent" /\ UNCHANGED entries
    BY <1>4 DEF Login, Serving
  <2>2. PICK k \in TokenOf(b) :
          IF request[b].user # None
          THEN ShowComments(b, k, [sessions[k] EXCEPT !.user = request[b].user])
          ELSE ShowMessage(b, k, "message")
    BY <1>4 DEF Login
  <2>3. CASE request[b].user = None
    BY <2>1, <2>2, <2>3 DEF Handle, Message
  <2>4. CASE request[b].user # None
    <3> DEFINE s == [sessions[k] EXCEPT !.user = request[b].user]
    <3>1. request[b].user \in Users
      BY <2>1, <2>4, RequestType DEF Request
    <3>2. s \in Session
      BY <3>1, TokenType, SessionType DEF Session
    <3>3. Book(b, k, s)
      BY <2>1, <2>2, <2>4, <3>1 DEF Book
    <3>4. QED
      BY <2>1, <3>2, <3>3 DEF Handle
  <2>5. QED
    BY <2>3, <2>4
<1>5. CASE Add(b)
  <2>1. server = "up" /\ serving = b /\ conn[b] = "sent"
    BY <1>5 DEF Add, Serving
  <2>2. PICK k \in TokenOf(b) :
          IF Accepts(sessions[k], request[b])
          THEN /\ entries' = IF request[b].fits
                             THEN Append(entries, [user |-> sessions[k].user,
                                                   nonce |-> request[b].nonce])
                             ELSE entries
               /\ ShowComments(b, k, sessions[k])
          ELSE ShowMessage(b, k, "message") /\ UNCHANGED entries
    BY <1>5 DEF Add
  <2>3. sessions[k] \in Session
    BY TokenType, SessionType
  <2>4. CASE Accepts(sessions[k], request[b])
    <3>1. Book(b, k, sessions[k])
      BY <2>2, <2>4 DEF Book
    <3>2. QED
      BY <2>1, <2>3, <3>1 DEF Handle
  <2>5. CASE ~Accepts(sessions[k], request[b])
    BY <2>1, <2>2, <2>5 DEF Handle, Message
  <2>6. QED
    BY <2>4, <2>5
<1>6. QED
  BY <1>1, <1>2, <1>3, <1>4, <1>5 DEF Serve

-----------------------------------------------------------------------------
(* Types *)

ServerTypes ==
  /\ server \in {"up", "hung", "down"}
  /\ backlog \in Seq(Browsers) /\ serving \in Browsers \cup {None}
  /\ sessions \in [Tokens -> Session]
  /\ entries \in Seq([user : Users, nonce : Nonces])
  /\ tokensDrawn \subseteq Tokens
  /\ greeted \in [Nonces -> Users \cup {None}]
  /\ restarts \in Nat

ConnTypes ==
  /\ conn \in [Browsers -> {"idle", "open", "sent", "answered"}]
  /\ request \in [Browsers -> Request \cup {None}]
  /\ reply \in [Browsers -> Reply \cup {None}]
  /\ \A b \in Browsers : IF conn[b] = "idle" THEN request[b] = None ELSE request[b] \in Request
  /\ \A b \in Browsers : IF conn[b] = "answered" THEN reply[b] \in Reply ELSE reply[b] = None

ViewTypes ==
  /\ alive \in [Browsers -> BOOLEAN]
  /\ jar \in [Browsers -> Tokens \cup {None}]
  /\ page \in [Browsers -> [Tabs -> Page]]
  /\ newest \in [Browsers -> Nonces \cup {None}]

LEMMA TypeParts == TypeOK <=> ServerTypes /\ ConnTypes /\ ViewTypes
BY DEF TypeOK, ServerTypes, ConnTypes, ViewTypes

LEMMA NewTypes ==
  ASSUME ServerTypes', ConnTypes', ViewTypes'
  PROVE  TypeOK'
BY DEF TypeOK, ServerTypes, ConnTypes, ViewTypes

LEMMA InitTypes == Init => TypeOK
<1> SUFFICES ASSUME Init PROVE TypeOK
  OBVIOUS
<1>1. NoSession \in Session
  BY DEF NoSession, Session
<1>2. ServerTypes
  BY <1>1 DEF Init, ServerTypes
<1>3. ConnTypes
  BY DEF Init, ConnTypes
<1>4. [kind |-> "blank", form |-> None] \in Page
  BY DEF Page
<1>5. ViewTypes
  BY <1>4 DEF Init, ViewTypes
<1>6. QED
  BY <1>2, <1>3, <1>5, TypeParts

LEMMA ConnectTypes ==
  ASSUME TypeOK, NEW b \in Browsers, NEW r \in Request, Connect(b, r),
         reply' = reply \/ reply' = [reply EXCEPT ![b] = None],
         conn[b] = "answered" => reply' = [reply EXCEPT ![b] = None]
  PROVE  ServerTypes' /\ ConnTypes'
<1> USE TypeParts
<1>1. backlog' \in Seq(Browsers)
  <2>1. CASE server = "down"
    BY <2>1 DEF Connect, ServerTypes
  <2>2. CASE server # "down"
    BY <2>2, AppendProperties DEF Connect, ServerTypes
  <2>3. QED
    BY <2>1, <2>2
<1>2. ServerTypes'
  BY <1>1 DEF Connect, ServerTypes
<1>3. /\ conn' \in [Browsers -> {"idle", "open", "sent", "answered"}]
      /\ request' \in [Browsers -> Request \cup {None}]
      /\ reply' \in [Browsers -> Reply \cup {None}]
  BY DEF Connect, ConnTypes
<1>4. conn'[b] = "open" /\ request'[b] = r /\ reply'[b] = None
  BY DEF Connect, ConnTypes
<1>5. \A c \in Browsers \ {b} : conn'[c] = conn[c] /\ request'[c] = request[c] /\ reply'[c] = reply[c]
  BY DEF Connect, ConnTypes
<1>6. ConnTypes'
  BY <1>3, <1>4, <1>5 DEF ConnTypes
<1>7. QED
  BY <1>2, <1>6

LEMMA ActTypes ==
  ASSUME TypeOK, NEW b \in Browsers, Act(b)
  PROVE  TypeOK'
<1>1. PICK t \in Tabs : Visit(b, t) \/ SubmitLogin(b, t) \/ SubmitEntry(b, t)
  BY DEF Act
<1>2. conn[b] = "idle" /\ UNCHANGED <<alive, jar, page, reply, newest>>
  BY <1>1 DEF Visit, SubmitLogin, SubmitEntry
<1>3. page[b][t].form \in Nonces \cup {None}
  BY TypeParts DEF ViewTypes, Page
<1>4. PICK r \in Request : Connect(b, r)
  <2>1. CASE Visit(b, t)
    <3>1. PICK route \in {"home", "loginForm", "unknown"} :
            Connect(b, [route |-> route, tab |-> t, user |-> None, nonce |-> None, fits |-> TRUE])
      BY <2>1 DEF Visit
    <3>2. [route |-> route, tab |-> t, user |-> None, nonce |-> None, fits |-> TRUE] \in Request
      BY DEF Request, Routes
    <3>3. QED
      BY <3>1, <3>2
  <2>2. CASE SubmitLogin(b, t)
    <3>1. PICK u \in Users \cup {None} :
            Connect(b, [route |-> "login", tab |-> t, user |-> u, nonce |-> None, fits |-> TRUE])
      BY <2>2 DEF SubmitLogin
    <3>2. [route |-> "login", tab |-> t, user |-> u, nonce |-> None, fits |-> TRUE] \in Request
      BY DEF Request, Routes
    <3>3. QED
      BY <3>1, <3>2
  <2>3. CASE SubmitEntry(b, t)
    <3>1. PICK fits \in BOOLEAN :
            Connect(b, [route |-> "add", tab |-> t, user |-> None,
                        nonce |-> page[b][t].form, fits |-> fits])
      BY <2>3 DEF SubmitEntry
    <3>2. [route |-> "add", tab |-> t, user |-> None,
           nonce |-> page[b][t].form, fits |-> fits] \in Request
      BY <1>3 DEF Request, Routes
    <3>3. QED
      BY <3>1, <3>2
  <2>4. QED
    BY <1>1, <2>1, <2>2, <2>3
<1>5. ServerTypes' /\ ConnTypes'
  BY <1>2, <1>4, ConnectTypes
<1>6. ViewTypes'
  BY <1>2, TypeParts DEF ViewTypes
<1>7. QED
  BY <1>5, <1>6, NewTypes

LEMMA ReceiveTypes ==
  ASSUME TypeOK, NEW b \in Browsers, Receive(b)
  PROVE  TypeOK'
<1> USE TypeParts
<1>1. conn[b] = "answered" /\ reply[b] \in Reply /\ request[b] \in Request
  BY DEF Receive, ConnTypes
<1>2. reply' = [reply EXCEPT ![b] = None]
  BY DEF Receive
<1>3. jar' \in [Browsers -> Tokens \cup {None}] /\ alive' = alive
  BY <1>1 DEF Receive, ViewTypes, Reply
<1>4. CASE reply[b].kind = "script"
  <2>1. /\ conn' = [conn EXCEPT ![b] = "idle"] /\ request' = [request EXCEPT ![b] = None]
        /\ UNCHANGED <<serverVars, page, newest>>
    BY <1>4 DEF Receive
  <2>2. ServerTypes'
    BY <2>1 DEF serverVars, ServerTypes
  <2>3. ConnTypes'
    BY <1>2, <2>1 DEF ConnTypes
  <2>4. ViewTypes'
    BY <1>3, <2>1 DEF ViewTypes
  <2>5. QED
    BY <2>2, <2>3, <2>4, NewTypes
<1>5. CASE reply[b].kind # "script"
  <2> DEFINE shown == [kind |-> reply[b].kind, form |-> reply[b].form]
  <2>1. shown \in Page /\ request[b].tab \in Tabs /\ reply[b].form \in Nonces \cup {None}
    BY <1>1, <1>5 DEF Page, Reply, Request
  <2>2. /\ page' = [page EXCEPT ![b][request[b].tab] = shown]
        /\ newest' = [newest EXCEPT ![b] = IF reply[b].form = None THEN @ ELSE reply[b].form]
    BY <1>5 DEF Receive
  <2> HIDE DEF shown
  <2>3. page' \in [Browsers -> [Tabs -> Page]]
    BY <2>1, <2>2 DEF ViewTypes
  <2>4. newest' \in [Browsers -> Nonces \cup {None}]
    BY <2>1, <2>2 DEF ViewTypes
  <2>5. ViewTypes'
    BY <1>3, <2>3, <2>4 DEF ViewTypes
  <2>6. CASE conn' = [conn EXCEPT ![b] = "idle"] /\ request' = [request EXCEPT ![b] = None]
             /\ UNCHANGED serverVars
    <3>1. ServerTypes'
      BY <2>6 DEF serverVars, ServerTypes
    <3>2. ConnTypes'
      BY <1>2, <2>6 DEF ConnTypes
    <3>3. QED
      BY <2>5, <3>1, <3>2, NewTypes
  <2>7. CASE Connect(b, [request[b] EXCEPT !.route = "script"])
    <3>1. [request[b] EXCEPT !.route = "script"] \in Request
      BY <1>1 DEF Request, Routes
    <3>2. ServerTypes' /\ ConnTypes'
      BY <1>2, <2>7, <3>1, ConnectTypes
    <3>3. QED
      BY <2>5, <3>2, NewTypes
  <2>8. QED
    BY <1>5, <2>6, <2>7 DEF Receive
<1>6. QED
  BY <1>4, <1>5

LEMMA OtherBrowserTypes ==
  ASSUME TypeOK, NEW b \in Browsers, Write(b) \/ LoseServer(b) \/ Die(b)
  PROVE  TypeOK'
<1> USE TypeParts
<1>1. UNCHANGED <<serverVars, jar, page, reply, newest>>
  BY DEF Write, LoseServer, Die
<1>2. ServerTypes'
  BY <1>1 DEF serverVars, ServerTypes
<1>3. alive' \in [Browsers -> BOOLEAN]
  BY DEF Write, LoseServer, Die, ViewTypes
<1>4. ViewTypes'
  BY <1>1, <1>3 DEF ViewTypes
<1>5. ConnTypes'
  <2>1. CASE UNCHANGED <<conn, request>>
    BY <1>1, <2>1 DEF ConnTypes
  <2>2. CASE Write(b)
    BY <1>1, <2>2 DEF Write, ConnTypes
  <2>3. CASE /\ conn[b] \in {"open", "sent"}
             /\ conn' = [conn EXCEPT ![b] = "idle"] /\ request' = [request EXCEPT ![b] = None]
    BY <1>1, <2>3 DEF ConnTypes
  <2>4. QED
    BY <2>1, <2>2, <2>3 DEF LoseServer, Die
<1>6. QED
  BY <1>2, <1>4, <1>5, NewTypes

LEMMA AnswerTypes ==
  ASSUME TypeOK, NEW b \in Browsers, NEW k \in Tokens, conn[b] = "sent",
         NEW kind \in {"book", "loginForm", "message", "script"},
         NEW form \in Nonces \cup {None}, Answer(b, k, kind, form),
         sessions' \in [Tokens -> Session],
         entries' \in Seq([user : Users, nonce : Nonces]),
         greeted' \in [Nonces -> Users \cup {None}]
  PROVE  TypeOK'
<1> USE TypeParts
<1>1. /\ tokensDrawn' = tokensDrawn \cup {k}
      /\ UNCHANGED <<restarts, alive, jar, page, request, newest>>
  BY DEF Answer
<1>2. server' \in {"up", "hung", "down"} /\ backlog' \in Seq(Browsers) /\ serving' = None
  BY EmptySeq DEF Answer, Stop, ServerTypes
<1>3. ServerTypes'
  BY <1>1, <1>2 DEF ServerTypes
<1>4. ViewTypes'
  BY <1>1 DEF ViewTypes
<1>5. ConnTypes'
  <2>1. CASE UNCHANGED <<conn, reply>>
    BY <1>1, <2>1 DEF ConnTypes
  <2>2. CASE ~ UNCHANGED <<conn, reply>>
    <3> DEFINE r == [kind |-> kind, form |-> form, setCookie |-> IF jar[b] = None THEN k ELSE None]
    <3>1. conn' = [conn EXCEPT ![b] = "answered"] /\ reply' = [reply EXCEPT ![b] = r]
      BY <2>2 DEF Answer
    <3>2. r \in Reply
      BY DEF Reply
    <3> HIDE DEF r
    <3>3. request[b] \in Request
      BY DEF ConnTypes
    <3>4. QED
      BY <1>1, <3>1, <3>2, <3>3 DEF ConnTypes
  <2>3. QED
    BY <2>1, <2>2
<1>6. QED
  BY <1>3, <1>4, <1>5, NewTypes

LEMMA MessageTypes ==
  ASSUME TypeOK, NEW b \in Browsers, NEW k \in Tokens, conn[b] = "sent", Message(b, k)
  PROVE  TypeOK'
<1>1. PICK kind \in {"loginForm", "script", "message"} : ShowMessage(b, k, kind)
  BY DEF Message
<1>2. Answer(b, k, kind, None) /\ UNCHANGED <<sessions, entries, greeted>>
  BY <1>1 DEF Message, ShowMessage
<1>3. /\ sessions' \in [Tokens -> Session]
      /\ entries' \in Seq([user : Users, nonce : Nonces])
      /\ greeted' \in [Nonces -> Users \cup {None}]
  BY <1>2 DEF TypeOK
<1>4. QED
  BY <1>2, <1>3, AnswerTypes

\* What ShowComments leaves in the server's memory: session s with nonce n, if
\* it has a user, else session s as it is.
Shown(b, k, s, n) ==
  /\ greeted[n] = None
  /\ sessions' = [sessions EXCEPT ![k] = WithNonce(s, n)]
  /\ greeted' = IF s.user = None THEN greeted ELSE [greeted EXCEPT ![n] = s.user]
  /\ Answer(b, k, "book", IF s.user = None THEN None ELSE n)

LEMMA ShowCommentsIsShown ==
  ASSUME TypeOK, NEW b \in Browsers, NEW k \in Tokens, NEW s \in Session,
         ShowComments(b, k, s)
  PROVE  \E n \in Nonces : Shown(b, k, s, n)
<1>1. PICK n \in {m \in Nonces : greeted[m] = None} :
        LET shown == WithNonce(s, n) IN
        /\ sessions' = [sessions EXCEPT ![k] = shown]
        /\ greeted' = IF s.user = None THEN greeted ELSE [greeted EXCEPT ![n] = s.user]
        /\ Answer(b, k, "book", IF s.user = None THEN None ELSE shown.nonce)
  BY DEF ShowComments
<1>2. s.user # None => WithNonce(s, n).nonce = n
  BY DEF WithNonce, Session
<1>3. QED
  BY <1>1, <1>2 DEF Shown

LEMMA BookTypes ==
  ASSUME TypeOK, NEW b \in Browsers, NEW k \in Tokens, NEW s \in Session,
         conn[b] = "sent", Book(b, k, s)
  PROVE  TypeOK'
<1> USE TypeParts
<1>1. PICK n \in Nonces : Shown(b, k, s, n)
  BY ShowCommentsIsShown DEF Book
<1>2. s.user \in Users \cup {None} /\ WithNonce(s, n) \in Session
  BY DEF WithNonce, Session
<1>3. sessions' \in [Tokens -> Session]
  BY <1>1, <1>2 DEF Shown, ServerTypes
<1>4. greeted' \in [Nonces -> Users \cup {None}]
  BY <1>1, <1>2 DEF Shown, ServerTypes
<1>5. entries' \in Seq([user : Users, nonce : Nonces])
  <2>1. CASE entries' = entries
    BY <2>1 DEF ServerTypes
  <2>2. CASE /\ Accepts(s, request[b])
             /\ entries' = Append(entries, [user |-> s.user, nonce |-> request[b].nonce])
    <3>1. s.user \in Users /\ request[b].nonce \in Nonces
      BY <1>2, <2>2 DEF Accepts, Session
    <3>2. [user |-> s.user, nonce |-> request[b].nonce] \in [user : Users, nonce : Nonces]
      BY <3>1
    <3>3. QED
      BY <2>2, <3>2, AppendProperties DEF ServerTypes
  <2>3. QED
    BY <2>1, <2>2 DEF Book
<1>6. Answer(b, k, "book", IF s.user = None THEN None ELSE n)
  BY <1>1 DEF Shown
<1>7. QED
  BY <1>3, <1>4, <1>5, <1>6, AnswerTypes

LEMMA ServeTypes ==
  ASSUME TypeOK, NEW b \in Browsers, Serve(b)
  PROVE  TypeOK'
<1>1. CASE ReadTruncated(b)
  <2>1. /\ server' \in {"up", "hung", "down"} /\ backlog' \in Seq(Browsers)
        /\ serving' \in Browsers \cup {None}
    BY <1>1, TypeParts, EmptySeq DEF ReadTruncated, Stop, ServerTypes
  <2>2. UNCHANGED <<sessions, entries, tokensDrawn, greeted, restarts, browserVars>>
    BY <1>1 DEF ReadTruncated
  <2>3. ServerTypes' /\ ConnTypes' /\ ViewTypes'
    BY <2>1, <2>2, TypeParts DEF browserVars, ServerTypes, ConnTypes, ViewTypes
  <2>4. QED
    BY <2>3, NewTypes
<1>2. CASE Handle(b)
  <2>1. PICK k \in TokenOf(b) : Message(b, k) \/ \E s \in Session : Book(b, k, s)
    BY <1>2 DEF Handle
  <2>2. k \in Tokens /\ conn[b] = "sent"
    BY <1>2, TokenType DEF Handle
  <2>3. QED
    BY <2>1, <2>2, MessageTypes, BookTypes
<1>3. QED
  BY <1>1, <1>2, ServeIsHandle

LEMMA MainTypes ==
  ASSUME TypeOK, Accept \/ Restart
  PROVE  TypeOK'
<1> USE TypeParts
<1>1. UNCHANGED browserVars
  BY DEF Accept, Restart
<1>2. ConnTypes' /\ ViewTypes'
  BY <1>1 DEF browserVars, ConnTypes, ViewTypes
<1>3. CASE Accept
  <2>1. Head(backlog) \in Browsers /\ Tail(backlog) \in Seq(Browsers)
    BY <1>3, HeadTailProperties DEF Accept, ServerTypes
  <2>2. ServerTypes'
    BY <1>3, <2>1 DEF Accept, ServerTypes
  <2>3. QED
    BY <1>2, <2>2, NewTypes
<1>4. CASE Restart
  <2>1. NoSession \in Session
    BY DEF NoSession, Session
  <2>2. ServerTypes'
    BY <1>4, <2>1, EmptySeq DEF Restart, ServerTypes
  <2>3. QED
    BY <1>2, <2>2, NewTypes
<1>5. QED
  BY <1>3, <1>4

\* Every variable of server and browsers holds a value of its type.
THEOREM TypeCorrect == Spec => []TypeOK
<1>1. Init => TypeOK
  BY InitTypes
<1>2. TypeOK /\ [Next]_vars => TypeOK'
  <2> SUFFICES ASSUME TypeOK, [Next]_vars PROVE TypeOK'
    OBVIOUS
  <2>1. CASE UNCHANGED vars
    BY <2>1 DEF vars, serverVars, browserVars, TypeOK
  <2>2. CASE Accept \/ Restart
    BY <2>2, MainTypes
  <2>3. ASSUME NEW b \in Browsers,
               Act(b) \/ Write(b) \/ Receive(b) \/ LoseServer(b) \/ Die(b) \/ Serve(b)
        PROVE  TypeOK'
    BY <2>3, ActTypes, ReceiveTypes, OtherBrowserTypes, ServeTypes
  <2>4. QED
    BY <2>1, <2>2, <2>3 DEF Next
<1>3. QED
  BY <1>1, <1>2, PTL DEF Spec

-----------------------------------------------------------------------------
(* Forms: the nonces of sessions and entries *)

\* The nonce a session waits for was drawn for the session's user.
NonceGreets ==
  \A k \in Tokens : sessions[k].nonce # None =>
    sessions[k].user # None /\ greeted[sessions[k].nonce] = sessions[k].user

\* No two sessions wait for one nonce.
NoncesApart ==
  \A k, l \in Tokens :
    sessions[k].nonce # None /\ sessions[k].nonce = sessions[l].nonce => k = l

\* No session waits for a nonce that signed an entry.
NoncesUnspent ==
  \A k \in Tokens, i \in DOMAIN entries : sessions[k].nonce # entries[i].nonce

\* A form that signed once could sign again only if its nonce were still, or
\* again, waited for: that is what FormSignsOnce lacks to be inductive.
FormsInv ==
  NonceGreets /\ NoncesApart /\ NoncesUnspent /\ FormSignsOnce /\ SignedAsGreeted

LEMMA FormsFrame ==
  ASSUME FormsInv, UNCHANGED <<sessions, entries, greeted>>
  PROVE  FormsInv'
BY DEF FormsInv, NonceGreets, NoncesApart, NoncesUnspent, FormSignsOnce, SignedAsGreeted

LEMMA EntryType ==
  ASSUME TypeOK, NEW i \in DOMAIN entries
  PROVE  entries[i].nonce \in Nonces /\ entries[i].user \in Users
<1>1. entries \in Seq([user : Users, nonce : Nonces])
  BY DEF TypeOK
<1>2. i \in 1..Len(entries)
  BY <1>1, LenProperties
<1>3. entries[i] \in [user : Users, nonce : Nonces]
  BY <1>1, <1>2, ElementOfSeq
<1>4. QED
  BY <1>3

\* The book is shown after a request that added nothing.
LEMMA BookKeepsForms ==
  ASSUME TypeOK, FormsInv, NEW k \in Tokens, NEW s \in Session, NEW n \in Nonces,
         NEW b \in Browsers, Shown(b, k, s, n), UNCHANGED entries,
         s = sessions[k] \/ \E u \in Users : s = [sessions[k] EXCEPT !.user = u]
  PROVE  FormsInv'
<1> DEFINE shown == WithNonce(s, n)
<1>1. /\ sessions \in [Tokens -> Session] /\ greeted \in [Nonces -> Users \cup {None}]
      /\ entries \in Seq([user : Users, nonce : Nonces])
  BY DEF TypeOK
<1>2. None \notin Nonces /\ None \notin Users
  BY NoneAssumption
<1>3. \A i \in DOMAIN entries : entries[i].nonce \in Nonces /\ entries[i].user \in Users
  BY EntryType
<1>4. greeted[n] = None /\ sessions' = [sessions EXCEPT ![k] = shown]
  BY DEF Shown
<1>5. CASE s.user = None
  <2>1. s = sessions[k]
    BY <1>1, <1>2, <1>5 DEF Session
  <2>2. shown = s /\ greeted' = greeted
    BY <1>5 DEF Shown, WithNonce
  <2>3. sessions' = sessions
    BY <1>1, <1>4, <2>1, <2>2
  <2>4. QED
    BY <2>2, <2>3, FormsFrame
<1>6. CASE s.user # None
  <2>1. shown = [s EXCEPT !.nonce = n] /\ greeted' = [greeted EXCEPT ![n] = s.user]
    BY <1>6 DEF Shown, WithNonce
  <2>2. shown.user = s.user /\ shown.nonce = n /\ s.user \in Users
    BY <1>6, <2>1 DEF Session
  <2> HIDE DEF shown
  <2>3. \A l \in Tokens : sessions[l].nonce # n
    BY <1>2, <1>4 DEF FormsInv, NonceGreets
  <2>4. \A i \in DOMAIN entries : entries[i].nonce # n
    BY <1>2, <1>3, <1>4 DEF FormsInv, SignedAsGreeted
  <2>5. \A l \in Tokens : sessions'[l] = IF l = k THEN shown ELSE sessions[l]
    BY <1>1, <1>4
  <2>6. \A m \in Nonces : greeted'[m] = IF m = n THEN s.user ELSE greeted[m]
    BY <1>1, <2>1
  <2>7. \A l \in Tokens : sessions[l].nonce \in Nonces \cup {None}
    BY <1>1 DEF Session
  <2>8. NonceGreets'
    BY <1>2, <2>2, <2>3, <2>5, <2>6, <2>7 DEF FormsInv, NonceGreets
  <2>9. NoncesApart'
    BY <2>2, <2>3, <2>5 DEF FormsInv, NoncesApart
  <2>10. NoncesUnspent'
    BY <2>2, <2>4, <2>5 DEF FormsInv, NoncesUnspent
  <2>11. FormSignsOnce' /\ SignedAsGreeted'
    BY <1>3, <2>4, <2>6 DEF FormsInv, FormSignsOnce, SignedAsGreeted
  <2>12. QED
    BY <2>8, <2>9, <2>10, <2>11 DEF FormsInv
<1>7. QED
  BY <1>5, <1>6

\* The book is shown after a comment that was taken and added.
LEMMA EntryKeepsForms ==
  ASSUME TypeOK, FormsInv, NEW k \in Tokens, NEW n \in Nonces, NEW b \in Browsers,
         Shown(b, k, sessions[k], n), Accepts(sessions[k], request[b]),
         entries' = Append(entries, [user |-> sessions[k].user, nonce |-> request[b].nonce])
  PROVE  FormsInv'
<1> DEFINE e == [user |-> sessions[k].user, nonce |-> sessions[k].nonce]
           shown == WithNonce(sessions[k], n)
<1>1. /\ sessions \in [Tokens -> Session] /\ greeted \in [Nonces -> Users \cup {None}]
      /\ entries \in Seq([user : Users, nonce : Nonces])
  BY DEF TypeOK
<1>2. None \notin Nonces /\ None \notin Users
  BY NoneAssumption
<1>3. \A i \in DOMAIN entries : entries[i].nonce \in Nonces /\ entries[i].user \in Users
  BY EntryType
<1>4. /\ sessions[k].user \in Users /\ sessions[k].nonce \in Nonces
      /\ entries' = Append(entries, e)
  BY <1>1 DEF Accepts, Session
<1>5. e \in [user : Users, nonce : Nonces]
  BY <1>4
<1>6. shown = [sessions[k] EXCEPT !.nonce = n] /\ greeted' = [greeted EXCEPT ![n] = sessions[k].user]
  BY <1>2, <1>4 DEF Shown, WithNonce
<1>7. shown.user = sessions[k].user /\ shown.nonce = n
  BY <1>1, <1>6 DEF Session
<1>8. greeted[n] = None /\ sessions' = [sessions EXCEPT ![k] = shown]
  BY DEF Shown
<1>9. e.user = sessions[k].user /\ e.nonce = sessions[k].nonce
  OBVIOUS
<1> HIDE DEF shown, e
<1>10. /\ DOMAIN entries' = DOMAIN entries \cup {Len(entries) + 1}
       /\ \A i \in DOMAIN entries : i # Len(entries) + 1 /\ entries'[i] = entries[i]
       /\ entries'[Len(entries) + 1] = e
  BY <1>1, <1>4, <1>5, AppendProperties
<1>11. \A l \in Tokens : sessions[l].nonce # n
  BY <1>2, <1>8 DEF FormsInv, NonceGreets
<1>12. \A i \in DOMAIN entries : entries[i].nonce # n
  BY <1>2, <1>3, <1>8 DEF FormsInv, SignedAsGreeted
<1>13. \A l \in Tokens : sessions'[l] = IF l = k THEN shown ELSE sessions[l]
  BY <1>1, <1>8
<1>14. \A m \in Nonces : greeted'[m] = IF m = n THEN sessions[k].user ELSE greeted[m]
  BY <1>1, <1>6
<1>15. \A l \in Tokens : sessions[l].nonce \in Nonces \cup {None}
  BY <1>1 DEF Session
<1>16. greeted[e.nonce] = e.user /\ e.nonce # n
  BY <1>2, <1>4, <1>9, <1>11 DEF FormsInv, NonceGreets
<1>17. NonceGreets'
  BY <1>2, <1>4, <1>7, <1>11, <1>13, <1>14, <1>15 DEF FormsInv, NonceGreets
<1>18. NoncesApart'
  BY <1>7, <1>11, <1>13 DEF FormsInv, NoncesApart
<1>19. NoncesUnspent'
  <2>1. \A l \in Tokens \ {k} : sessions[l].nonce # e.nonce
    BY <1>2, <1>4, <1>9 DEF FormsInv, NoncesApart
  <2>2. \A l \in Tokens : sessions'[l].nonce # e.nonce
    BY <1>7, <1>13, <1>16, <2>1
  <2>3. \A l \in Tokens, i \in DOMAIN entries : sessions'[l].nonce # entries[i].nonce
    BY <1>7, <1>12, <1>13 DEF FormsInv, NoncesUnspent
  <2>4. QED
    BY <1>10, <2>2, <2>3 DEF NoncesUnspent
<1>20. FormSignsOnce'
  <2>1. \A i \in DOMAIN entries : entries[i].nonce # e.nonce
    BY <1>9 DEF FormsInv, NoncesUnspent
  <2>2. QED
    BY <1>10, <2>1 DEF FormsInv, FormSignsOnce
<1>21. SignedAsGreeted'
  <2>1. \A i \in DOMAIN entries' : entries'[i].nonce \in Nonces /\ entries'[i].nonce # n
    BY <1>3, <1>4, <1>9, <1>10, <1>12, <1>16
  <2>2. \A i \in DOMAIN entries' : greeted[entries'[i].nonce] = entries'[i].user
    BY <1>10, <1>16 DEF FormsInv, SignedAsGreeted
  <2>3. QED
    BY <1>14, <2>1, <2>2 DEF SignedAsGreeted
<1>22. QED
  BY <1>17, <1>18, <1>19, <1>20, <1>21 DEF FormsInv

LEMMA ServeKeepsForms ==
  ASSUME TypeOK, FormsInv, NEW b \in Browsers, Serve(b)
  PROVE  FormsInv'
<1>1. CASE ReadTruncated(b)
  BY <1>1, FormsFrame DEF ReadTruncated
<1>2. CASE Handle(b)
  <2>1. PICK k \in TokenOf(b) : Message(b, k) \/ \E s \in Session : Book(b, k, s)
    BY <1>2 DEF Handle
  <2>2. k \in Tokens
    BY TokenType
  <2>3. CASE Message(b, k)
    BY <2>3, FormsFrame DEF Message, ShowMessage
  <2>4. ASSUME NEW s \in Session, Book(b, k, s) PROVE FormsInv'
    <3>1. PICK n \in Nonces : Shown(b, k, s, n)
      BY <2>2, <2>4, ShowCommentsIsShown DEF Book
    <3>2. QED
      BY <2>2, <2>4, <3>1, BookKeepsForms, EntryKeepsForms DEF Book
  <2>5. QED
    BY <2>1, <2>3, <2>4
<1>3. QED
  BY <1>1, <1>2, ServeIsHandle

LEMMA RestartKeepsForms ==
  ASSUME Restart
  PROVE  FormsInv'
<1>1. \A k \in Tokens : sessions'[k].nonce = None
  BY DEF Restart, NoSession
<1>2. DOMAIN entries' = {}
  BY DEF Restart
<1>3. QED
  BY <1>1, <1>2 DEF FormsInv, NonceGreets, NoncesApart, NoncesUnspent, FormSignsOnce, SignedAsGreeted

LEMMA FormsInductive == TypeOK /\ FormsInv /\ [Next]_vars => FormsInv'
<1> SUFFICES ASSUME TypeOK, FormsInv, [Next]_vars PROVE FormsInv'
  OBVIOUS
<1>1. CASE UNCHANGED vars
  BY <1>1, FormsFrame DEF vars, serverVars
<1>2. CASE Accept
  BY <1>2, FormsFrame DEF Accept
<1>3. CASE Restart
  BY <1>3, RestartKeepsForms
<1>4. ASSUME NEW b \in Browsers, Act(b) \/ Write(b) \/ Receive(b) \/ LoseServer(b) \/ Die(b)
      PROVE  FormsInv'
  <2>1. UNCHANGED <<sessions, entries, greeted>>
    BY <1>4 DEF Act, Visit, SubmitLogin, SubmitEntry, Connect, Write, Receive, LoseServer, Die,
                serverVars
  <2>2. QED
    BY <2>1, FormsFrame
<1>5. ASSUME NEW b \in Browsers, Serve(b) PROVE FormsInv'
  BY <1>5, ServeKeepsForms
<1>6. QED
  BY <1>1, <1>2, <1>3, <1>4, <1>5 DEF Next

LEMMA FormsInitially == Init => FormsInv
<1> SUFFICES ASSUME Init PROVE FormsInv
  OBVIOUS
<1>1. DOMAIN entries = {} /\ \A k \in Tokens : sessions[k].nonce = None
  BY DEF Init, NoSession
<1>2. QED
  BY <1>1 DEF FormsInv, NonceGreets, NoncesApart, NoncesUnspent, FormSignsOnce, SignedAsGreeted

\* However often, from however many tabs, before and after how many restarts a
\* form is sent: the book holds at most one entry of it.
THEOREM FormsSignOnce == Spec => []FormSignsOnce
<1>1. FormsInv => FormSignsOnce
  BY DEF FormsInv
<1>2. QED
  BY <1>1, FormsInitially, FormsInductive, TypeCorrect, PTL DEF Spec

\* Every entry carries the name of the user its form was made for.
THEOREM EntriesAsGreeted == Spec => []SignedAsGreeted
<1>1. FormsInv => SignedAsGreeted
  BY DEF FormsInv
<1>2. QED
  BY <1>1, FormsInitially, FormsInductive, TypeCorrect, PTL DEF Spec

-----------------------------------------------------------------------------
(* Tickets: the entries, the waiting nonces and the greetings are all there is
   to see of a step *)

tickets == <<greeted, LiveForms, entries>>

\* The nonce of session s of token k, if it waits for one, gives way to n.
LEMMA FormReplaced ==
  ASSUME TypeOK, FormsInv, NEW b \in Browsers, NEW k \in Tokens, NEW s \in Session,
         NEW n \in Nonces, Shown(b, k, s, n), s.user # None
  PROVE  /\ s.user \in Users
         /\ sessions[k].nonce \in LiveForms \cup {None}
         /\ Ticket!Replace(sessions[k].nonce, n, s.user)
<1>1. sessions \in [Tokens -> Session] /\ greeted \in [Nonces -> Users \cup {None}]
  BY DEF TypeOK
<1>2. s.user \in Users /\ sessions[k].nonce \in LiveForms \cup {None}
  BY DEF Session, LiveForms
<1>3. WithNonce(s, n).nonce = n
  BY DEF WithNonce, Session
<1>4. \A l \in Tokens : sessions'[l].nonce = IF l = k THEN n ELSE sessions[l].nonce
  BY <1>1, <1>3 DEF Shown
<1>5. n # None
  BY NoneAssumption
<1>6. LiveForms' = (LiveForms \ {sessions[k].nonce}) \cup {n}
  <2>1. \A l \in Tokens \ {k} : sessions[l].nonce # None => sessions[l].nonce # sessions[k].nonce
    BY DEF FormsInv, NoncesApart
  <2>2. LiveForms' = {sessions'[l].nonce : l \in Tokens} \ {None}
    BY DEF LiveForms
  <2>3. LiveForms' = ({sessions[l].nonce : l \in Tokens \ {k}} \cup {n}) \ {None}
    BY <1>4, <2>2
  <2>4. {sessions[l].nonce : l \in Tokens \ {k}} \ {None} = LiveForms \ {sessions[k].nonce}
    BY <2>1 DEF LiveForms
  <2>5. QED
    BY <1>5, <2>3, <2>4
<1>7. greeted[n] = None /\ greeted' = [greeted EXCEPT ![n] = s.user]
  BY DEF Shown
<1>8. QED
  BY <1>2, <1>6, <1>7 DEF Ticket!Replace

LEMMA ServeByTicket ==
  ASSUME TypeOK, FormsInv, NEW b \in Browsers, Serve(b)
  PROVE  Ticket!Next \/ UNCHANGED tickets
<1>1. CASE ReadTruncated(b)
  BY <1>1 DEF ReadTruncated, tickets, LiveForms
<1>2. CASE Handle(b)
  <2>1. PICK k \in TokenOf(b) : Message(b, k) \/ \E s \in Session : Book(b, k, s)
    BY <1>2 DEF Handle
  <2>2. k \in Tokens
    BY TokenType
  <2>3. CASE Message(b, k)
    BY <2>3 DEF Message, ShowMessage, tickets, LiveForms
  <2>4. ASSUME NEW s \in Session, Book(b, k, s) PROVE Ticket!Next \/ UNCHANGED tickets
    <3>1. PICK n \in Nonces : Shown(b, k, s, n)
      BY <2>2, <2>4, ShowCommentsIsShown DEF Book
    <3>2. CASE s.user = None
      <4>1. s = sessions[k] /\ UNCHANGED entries
        <5>1. \A u \in Users : [sessions[k] EXCEPT !.user = u].user # None
          BY <2>2, SessionType, NoneAssumption DEF Session
        <5>2. QED
          BY <2>4, <3>2, <5>1 DEF Book, Accepts
      <4>2. sessions' = sessions /\ greeted' = greeted
        BY <2>2, <3>1, <3>2, <4>1 DEF Shown, WithNonce, TypeOK
      <4>3. QED
        BY <4>1, <4>2 DEF tickets, LiveForms
    <3>3. CASE s.user # None /\ UNCHANGED entries
      <4>1. Ticket!Issue(n, s.user)
        BY <2>2, <3>1, <3>3, FormReplaced DEF Ticket!Issue
      <4>2. QED
        BY <2>2, <3>1, <3>3, <4>1, FormReplaced DEF Ticket!Next
    <3>4. CASE /\ s.user # None /\ s = sessions[k] /\ Accepts(s, request[b])
               /\ entries' = Append(entries, [user |-> s.user, nonce |-> request[b].nonce])
      <4> DEFINE f == sessions[k].nonce
      <4>1. f \in Nonces /\ f \in LiveForms /\ f = request[b].nonce
        BY <2>2, <3>4, SessionType DEF Accepts, Session, LiveForms
      <4>2. greeted[f] = s.user
        BY <2>2, <3>4, <4>1, NoneAssumption DEF FormsInv, NonceGreets
      <4>3. Ticket!Replace(f, n, greeted[f])
        BY <2>2, <3>1, <3>4, <4>2, FormReplaced
      <4>4. Ticket!Sign(f, n)
        BY <3>4, <4>1, <4>2, <4>3 DEF Ticket!Sign
      <4>5. QED
        BY <4>1, <4>4 DEF Ticket!Next
    <3>5. QED
      BY <2>4, <3>2, <3>3, <3>4 DEF Book, Accepts
  <2>5. QED
    BY <2>1, <2>3, <2>4
<1>3. QED
  BY <1>1, <1>2, ServeIsHandle

LEMMA StepByTicket ==
  TypeOK /\ FormsInv /\ [Next]_vars => Ticket!Next \/ UNCHANGED tickets
<1> SUFFICES ASSUME TypeOK, FormsInv, [Next]_vars PROVE Ticket!Next \/ UNCHANGED tickets
  OBVIOUS
<1>1. CASE UNCHANGED <<sessions, entries, greeted>>
  BY <1>1 DEF tickets, LiveForms
<1>2. CASE Restart
  <2>1. LiveForms' = {}
    BY <1>2 DEF Restart, NoSession, LiveForms
  <2>2. Ticket!Forget
    BY <1>2, <2>1 DEF Restart, Ticket!Forget
  <2>3. QED
    BY <2>2 DEF Ticket!Next
<1>3. CASE UNCHANGED vars
  BY <1>1, <1>3 DEF vars, serverVars
<1>4. CASE Accept
  BY <1>1, <1>4 DEF Accept
<1>5. ASSUME NEW b \in Browsers, Act(b) \/ Write(b) \/ Receive(b) \/ LoseServer(b) \/ Die(b)
      PROVE  UNCHANGED <<sessions, entries, greeted>>
  BY <1>5 DEF Act, Visit, SubmitLogin, SubmitEntry, Connect, Write, Receive, LoseServer, Die,
              serverVars
<1>6. ASSUME NEW b \in Browsers, Serve(b) PROVE Ticket!Next \/ UNCHANGED tickets
  BY <1>6, ServeByTicket
<1>7. QED
  BY <1>1, <1>2, <1>3, <1>4, <1>5, <1>6 DEF Next

\* The server implements Tickets: every entry is one use of the live form it
\* names, by the user that form was made for, and no step does anything else to
\* the book, the forms and the greetings.
THEOREM SignedByTicket == Spec => ByTicket
<1>1. Init => Ticket!Init
  <2> SUFFICES ASSUME Init PROVE Ticket!Init
    OBVIOUS
  <2>1. LiveForms = {}
    BY DEF Init, NoSession, LiveForms
  <2>2. QED
    BY <2>1 DEF Init, Ticket!Init
<1>2. TypeOK /\ FormsInv /\ [Next]_vars => [Ticket!Next]_(Ticket!vars)
  BY StepByTicket DEF Ticket!vars, tickets
<1>3. QED
  BY <1>1, <1>2, FormsInitially, FormsInductive, TypeCorrect, PTL DEF Spec, ByTicket, Ticket!Spec

-----------------------------------------------------------------------------
(* The newest form *)

\* The cookie and the newest form browser b will have once it has received what
\* is on its way.
Cookie(b) ==
  IF conn[b] = "answered" /\ reply[b].setCookie # None THEN reply[b].setCookie ELSE jar[b]
Newest(b) ==
  IF conn[b] = "answered" /\ reply[b].form # None THEN reply[b].form ELSE newest[b]

CookiesDrawn == \A b \in Browsers : Cookie(b) \in tokensDrawn \cup {None}

CookiesApart ==
  \A b, c \in Browsers : Cookie(b) # None /\ Cookie(b) = Cookie(c) => b = c

\* A token nobody was given has no form waiting.
UndrawnEmpty == \A k \in Tokens \ tokensDrawn : sessions[k].nonce = None

ScriptsHaveNoForm ==
  \A b \in Browsers : conn[b] = "answered" /\ reply[b].kind = "script" => reply[b].form = None

NewestLives ==
  \A b \in Browsers :
    alive[b] /\ Cookie(b) # None => sessions[Cookie(b)].nonce \in {None, Newest(b)}

NewestInv ==
  CookiesDrawn /\ CookiesApart /\ UndrawnEmpty /\ ScriptsHaveNoForm /\ NewestLives

\* A step that changes neither what the sessions wait for, unless it empties
\* them, nor what the browsers have or will have.
LEMMA NewestFrame ==
  ASSUME TypeOK, NewestInv, tokensDrawn' = tokensDrawn,
         \A k \in Tokens : sessions'[k].nonce \in {None, sessions[k].nonce},
         \A b \in Browsers : /\ Cookie(b)' = Cookie(b) /\ Newest(b)' = Newest(b)
                             /\ alive'[b] => alive[b],
         ScriptsHaveNoForm'
  PROVE  NewestInv'
<1>1. \A b \in Browsers : Cookie(b) # None => Cookie(b) \in Tokens
  BY DEF NewestInv, CookiesDrawn, TypeOK
<1>2. CookiesDrawn' /\ CookiesApart'
  BY DEF NewestInv, CookiesDrawn, CookiesApart
<1>3. UndrawnEmpty'
  BY DEF NewestInv, UndrawnEmpty
<1>4. NewestLives'
  BY <1>1 DEF NewestInv, NewestLives
<1>5. QED
  BY <1>2, <1>3, <1>4 DEF NewestInv

\* No browser but b has, or will have, a token do_it may take for b.
LEMMA TokenIsOwn ==
  ASSUME TypeOK, NewestInv, NEW b \in Browsers, conn[b] = "sent", NEW k \in TokenOf(b)
  PROVE  /\ \A c \in Browsers \ {b} : Cookie(c) # k
         /\ sessions[k].nonce # None /\ alive[b] => jar[b] = k /\ sessions[k].nonce = newest[b]
<1>1. k \in Tokens /\ k # None
  BY TokenType, NoneAssumption
<1>2. Cookie(b) = jar[b] /\ Newest(b) = newest[b]
  BY DEF Cookie, Newest
<1>3. CASE jar[b] # None
  <2>1. k = jar[b]
    BY <1>3 DEF TokenOf
  <2>2. QED
    BY <1>1, <1>2, <2>1 DEF NewestInv, CookiesApart, NewestLives
<1>4. CASE jar[b] = None
  <2>1. k \in Tokens \ tokensDrawn
    BY <1>4 DEF TokenOf
  <2>2. QED
    BY <1>1, <2>1 DEF NewestInv, CookiesDrawn, UndrawnEmpty
<1>5. QED
  BY <1>3, <1>4

\* An answer with a form sent to the session that waits for it, or one without
\* a form that leaves the session waiting for what it did.
LEMMA AnswerKeepsNewest ==
  ASSUME TypeOK, NewestInv, NEW b \in Browsers, conn[b] = "sent", NEW k \in TokenOf(b),
         NEW kind, NEW form \in Nonces \cup {None}, kind = "script" => form = None,
         Answer(b, k, kind, form),
         NEW s \in Session, sessions' = [sessions EXCEPT ![k] = s],
         s.nonce = form \/ (form = None /\ s.nonce = sessions[k].nonce)
  PROVE  NewestInv'
<1>1. k \in Tokens /\ k # None
  BY TokenType, NoneAssumption
<1>2. /\ sessions \in [Tokens -> Session] /\ conn \in [Browsers -> {"idle", "open", "sent", "answered"}]
      /\ reply \in [Browsers -> Reply \cup {None}]
  BY DEF TypeOK
<1>3. tokensDrawn' = tokensDrawn \cup {k} /\ UNCHANGED <<alive, jar, newest>>
  BY DEF Answer
<1>4. \A l \in Tokens : sessions'[l] = IF l = k THEN s ELSE sessions[l]
  BY <1>1, <1>2
<1>5. \A c \in Browsers \ {b} : conn'[c] = conn[c] /\ reply'[c] = reply[c]
  BY <1>2 DEF Answer
<1>6. \A c \in Browsers \ {b} : Cookie(c)' = Cookie(c) /\ Newest(c)' = Newest(c)
  BY <1>3, <1>5 DEF Cookie, Newest
<1>7. \A c \in Browsers : Cookie(c) # None => Cookie(c) \in Tokens
  BY DEF NewestInv, CookiesDrawn, TypeOK
<1>8. UndrawnEmpty'
  BY <1>3, <1>4 DEF NewestInv, UndrawnEmpty
<1>9. CASE alive[b]
  <2> DEFINE r == [kind |-> kind, form |-> form, setCookie |-> IF jar[b] = None THEN k ELSE None]
  <2>1. conn'[b] = "answered" /\ reply'[b] = r
    BY <1>2, <1>9 DEF Answer
  <2>2. Cookie(b)' = k
    <3>1. CASE jar[b] = None
      BY <1>1, <2>1, <3>1 DEF Cookie
    <3>2. CASE jar[b] # None
      <4>1. k = jar[b]
        BY <3>2 DEF TokenOf
      <4>2. QED
        BY <1>3, <2>1, <3>2, <4>1 DEF Cookie
    <3>3. QED
      BY <3>1, <3>2
  <2>3. Newest(b)' = IF form # None THEN form ELSE newest[b]
    BY <1>3, <2>1 DEF Newest
  <2>4. ScriptsHaveNoForm'
    BY <1>5, <2>1 DEF NewestInv, ScriptsHaveNoForm
  <2>5. CookiesDrawn' /\ CookiesApart'
    BY <1>3, <1>6, <2>2, TokenIsOwn DEF NewestInv, CookiesDrawn, CookiesApart
  <2>6. s.nonce \in {None, Newest(b)'}
    BY <1>9, <2>3, TokenIsOwn
  <2>7. NewestLives'
    BY <1>1, <1>3, <1>4, <1>6, <1>7, <2>2, <2>6, TokenIsOwn DEF NewestInv, NewestLives
  <2>8. QED
    BY <1>8, <2>4, <2>5, <2>7 DEF NewestInv
<1>10. CASE ~alive[b]
  <2>1. UNCHANGED <<conn, reply>>
    BY <1>10 DEF Answer
  <2>2. \A c \in Browsers : Cookie(c)' = Cookie(c) /\ Newest(c)' = Newest(c)
    BY <1>3, <2>1 DEF Cookie, Newest
  <2>3. CookiesDrawn' /\ CookiesApart' /\ ScriptsHaveNoForm'
    BY <1>3, <2>1, <2>2 DEF NewestInv, CookiesDrawn, CookiesApart, ScriptsHaveNoForm
  <2>4. NewestLives'
    BY <1>3, <1>4, <1>7, <1>10, <2>2, TokenIsOwn DEF NewestInv, NewestLives
  <2>5. QED
    BY <1>8, <2>3, <2>4 DEF NewestInv
<1>11. QED
  BY <1>9, <1>10

LEMMA ServeKeepsNewest ==
  ASSUME TypeOK, FormsInv, NewestInv, NEW b \in Browsers, Serve(b)
  PROVE  NewestInv'
<1>1. CASE ReadTruncated(b)
  <2>1. UNCHANGED <<sessions, tokensDrawn, alive, jar, conn, reply, newest>>
    BY <1>1 DEF ReadTruncated, browserVars
  <2>2. \A c \in Browsers : Cookie(c)' = Cookie(c) /\ Newest(c)' = Newest(c)
    BY <2>1 DEF Cookie, Newest
  <2>3. ScriptsHaveNoForm'
    BY <2>1 DEF NewestInv, ScriptsHaveNoForm
  <2>4. QED
    BY <2>1, <2>2, <2>3, NewestFrame
<1>2. CASE Handle(b)
  <2>1. PICK k \in TokenOf(b) : Message(b, k) \/ \E s \in Session : Book(b, k, s)
    BY <1>2 DEF Handle
  <2>2. k \in Tokens /\ conn[b] = "sent"
    BY <1>2, TokenType DEF Handle
  <2>3. CASE Message(b, k)
    <3>1. PICK kind \in {"loginForm", "script", "message"} :
            Answer(b, k, kind, None) /\ UNCHANGED sessions
      BY <2>3 DEF Message, ShowMessage
    <3>2. sessions[k] \in Session /\ sessions' = [sessions EXCEPT ![k] = sessions[k]]
      BY <2>2, <3>1 DEF TypeOK
    <3>3. QED
      BY <2>2, <3>1, <3>2, AnswerKeepsNewest
  <2>4. ASSUME NEW s \in Session, Book(b, k, s) PROVE NewestInv'
    <3>1. PICK n \in Nonces : Shown(b, k, s, n)
      BY <2>2, <2>4, ShowCommentsIsShown DEF Book
    <3> DEFINE x == WithNonce(s, n)
               form == IF s.user = None THEN None ELSE n
    <3>2. sessions' = [sessions EXCEPT ![k] = x] /\ Answer(b, k, "book", form)
      BY <3>1 DEF Shown
    <3>3. x \in Session /\ form \in Nonces \cup {None}
      BY DEF WithNonce, Session
    <3>4. x.nonce = form
      <4>1. CASE s.user # None
        BY <4>1 DEF WithNonce, Session
      <4>2. CASE s.user = None
        <5>1. s = sessions[k]
          <6>1. \A u \in Users : [sessions[k] EXCEPT !.user = u].user # None
            BY <2>2, SessionType, NoneAssumption DEF Session
          <6>2. QED
            BY <2>4, <4>2, <6>1 DEF Book
        <5>2. s.nonce = None
          BY <2>2, <4>2, <5>1 DEF FormsInv, NonceGreets
        <5>3. QED
          BY <4>2, <5>2 DEF WithNonce
      <4>3. QED
        BY <4>1, <4>2
    <3> HIDE DEF x, form
    <3>5. QED
      BY <2>2, <3>2, <3>3, <3>4, AnswerKeepsNewest
  <2>5. QED
    BY <2>1, <2>3, <2>4
<1>3. QED
  BY <1>1, <1>2, ServeIsHandle

\* Receiving moves the cookie and the form from the reply to the browser.
LEMMA ReceiveKeepsNewest ==
  ASSUME TypeOK, NewestInv, NEW b \in Browsers, Receive(b)
  PROVE  NewestInv'
<1>1. /\ conn \in [Browsers -> {"idle", "open", "sent", "answered"}]
      /\ jar \in [Browsers -> Tokens \cup {None}] /\ newest \in [Browsers -> Nonces \cup {None}]
      /\ reply \in [Browsers -> Reply \cup {None}]
  BY DEF TypeOK
<1>2. /\ conn[b] = "answered" /\ reply' = [reply EXCEPT ![b] = None] /\ alive' = alive
      /\ jar' = [jar EXCEPT ![b] = IF reply[b].setCookie = None THEN @ ELSE reply[b].setCookie]
  BY DEF Receive
<1>3. UNCHANGED <<sessions, tokensDrawn>>
  BY DEF Receive, Connect, serverVars
<1>4. conn' = [conn EXCEPT ![b] = "idle"] \/ conn' = [conn EXCEPT ![b] = "open"]
  BY DEF Receive, Connect
<1>5. newest' = [newest EXCEPT ![b] = IF reply[b].form = None THEN @ ELSE reply[b].form]
  <2>1. CASE reply[b].kind = "script"
    <3>1. reply[b].form = None
      BY <1>2, <2>1 DEF NewestInv, ScriptsHaveNoForm
    <3>2. newest' = newest
      BY <2>1 DEF Receive
    <3>3. QED
      BY <1>1, <3>1, <3>2
  <2>2. CASE reply[b].kind # "script"
    BY <2>2 DEF Receive
  <2>3. QED
    BY <2>1, <2>2
<1>6. \A c \in Browsers \ {b} :
        conn'[c] = conn[c] /\ reply'[c] = reply[c] /\ jar'[c] = jar[c] /\ newest'[c] = newest[c]
  BY <1>1, <1>2, <1>4, <1>5
<1>7. /\ conn'[b] # "answered"
      /\ jar'[b] = IF reply[b].setCookie = None THEN jar[b] ELSE reply[b].setCookie
      /\ newest'[b] = IF reply[b].form = None THEN newest[b] ELSE reply[b].form
  BY <1>1, <1>2, <1>4, <1>5
<1>8. \A c \in Browsers : Cookie(c)' = Cookie(c) /\ Newest(c)' = Newest(c)
  BY <1>2, <1>6, <1>7 DEF Cookie, Newest
<1>9. ScriptsHaveNoForm'
  BY <1>6, <1>7 DEF NewestInv, ScriptsHaveNoForm
<1>10. QED
  BY <1>2, <1>3, <1>8, <1>9, NewestFrame

\* The other steps of the browsers and of the server's loop.
LEMMA OthersKeepNewest ==
  ASSUME TypeOK, NewestInv, NEW b,
         \/ Accept \/ Restart
         \/ b \in Browsers /\ (Act(b) \/ Write(b) \/ LoseServer(b) \/ Die(b))
  PROVE  NewestInv'
<1>1. conn \in [Browsers -> {"idle", "open", "sent", "answered"}]
  BY DEF TypeOK
<1>2. UNCHANGED <<tokensDrawn, jar, newest, reply>>
  BY DEF Act, Visit, SubmitLogin, SubmitEntry, Connect, Write, LoseServer, Die, Accept, Restart,
         serverVars, browserVars
<1>3. \A k \in Tokens : sessions'[k].nonce \in {None, sessions[k].nonce}
  <2>1. CASE Restart
    BY <2>1 DEF Restart, NoSession
  <2>2. CASE ~Restart
    <3>1. sessions' = sessions
      BY <2>2 DEF Act, Visit, SubmitLogin, SubmitEntry, Connect, Write, LoseServer, Die, Accept,
                  serverVars
    <3>2. QED
      BY <3>1
  <2>3. QED
    BY <2>1, <2>2
<1>4. alive' = alive \/ alive' = [alive EXCEPT ![b] = FALSE]
  BY DEF Act, Visit, SubmitLogin, SubmitEntry, Write, LoseServer, Die, Accept, Restart,
         browserVars
<1>5. \A c \in Browsers : alive'[c] => alive[c]
  BY <1>4 DEF TypeOK
<1>6. \A c \in Browsers : conn'[c] = "answered" <=> conn[c] = "answered"
  <2>1. CASE conn' = conn
    BY <2>1
  <2>2. CASE conn[b] # "answered" /\ \E x \in {"idle", "open", "sent"} :
               conn' = [conn EXCEPT ![b] = x]
    BY <1>1, <2>2
  <2>3. QED
    BY <2>1, <2>2 DEF Act, Visit, SubmitLogin, SubmitEntry, Connect, Write, LoseServer, Die,
                      Accept, Restart, browserVars
<1>7. \A c \in Browsers : Cookie(c)' = Cookie(c) /\ Newest(c)' = Newest(c)
  BY <1>2, <1>6 DEF Cookie, Newest
<1>8. ScriptsHaveNoForm'
  BY <1>2, <1>6 DEF NewestInv, ScriptsHaveNoForm
<1>9. QED
  BY <1>2, <1>3, <1>5, <1>7, <1>8, NewestFrame

LEMMA NewestInductive == TypeOK /\ FormsInv /\ NewestInv /\ [Next]_vars => NewestInv'
<1> SUFFICES ASSUME TypeOK, FormsInv, NewestInv, [Next]_vars PROVE NewestInv'
  OBVIOUS
<1>1. CASE UNCHANGED vars
  BY <1>1 DEF vars, serverVars, browserVars, NewestInv, CookiesDrawn, CookiesApart, UndrawnEmpty,
              ScriptsHaveNoForm, NewestLives, Cookie, Newest
<1>2. CASE Accept \/ Restart
  BY <1>2, OthersKeepNewest
<1>3. ASSUME NEW b \in Browsers,
             Act(b) \/ Write(b) \/ Receive(b) \/ LoseServer(b) \/ Die(b) \/ Serve(b)
      PROVE  NewestInv'
  BY <1>3, OthersKeepNewest, ReceiveKeepsNewest, ServeKeepsNewest
<1>4. QED
  BY <1>1, <1>2, <1>3 DEF Next

LEMMA NewestInitially == Init => NewestInv
<1> SUFFICES ASSUME Init PROVE NewestInv
  OBVIOUS
<1>1. \A b \in Browsers : conn[b] = "idle" /\ Cookie(b) = None
  BY DEF Init, Cookie
<1>2. \A k \in Tokens : sessions[k].nonce = None
  BY DEF Init, NoSession
<1>3. QED
  BY <1>1, <1>2 DEF NewestInv, CookiesDrawn, CookiesApart, UndrawnEmpty, ScriptsHaveNoForm,
                    NewestLives

\* Of all the forms a browser's tabs show, the server takes the one it sent
\* last, or none if it was restarted.
THEOREM NewestFormLives == Spec => []OnlyNewestFormLives
<1>1. NewestInv => OnlyNewestFormLives
  BY DEF NewestInv, NewestLives, OnlyNewestFormLives, Cookie, Newest
<1>2. Init => TypeOK /\ FormsInv /\ NewestInv
  BY InitTypes, FormsInitially, NewestInitially
<1>3. QED
  BY <1>1, <1>2, FormsInitially, FormsInductive, NewestInductive, TypeCorrect, PTL DEF Spec
=============================================================================
