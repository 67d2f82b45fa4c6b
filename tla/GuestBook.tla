------------------------------ MODULE GuestBook ------------------------------
(***************************************************************************)
(* The guest book server (Server/) and the browser processes that talk to  *)
(* it.  The server is one process that serves one connection at a time:    *)
(* connections wait in the kernel's backlog, an accepted one is read to    *)
(* the end of its request, answered and closed.  Everything it knows is in *)
(* memory.                                                                 *)
(*                                                                         *)
(* A browser process is one thread with several tabs and one cookie jar;   *)
(* it waits for the answer of every request it makes.                      *)
(*                                                                         *)
(* Session tokens and form nonces are random numbers (31 bits, and 0 to    *)
(* 10 000 000).  The model draws values not drawn before.                  *)
(***************************************************************************)
EXTENDS Naturals, Sequences, FiniteSets

CONSTANTS Browsers, Tabs, Users,
          Tokens,        \* session tokens
          Nonces,        \* form nonces
          None,
          MaxEntries, MaxRestarts   \* bounds

ASSUME NoneAssumption == None \notin Browsers \cup Tabs \cup Users \cup Tokens \cup Nonces
ASSUME BoundsAssumption == MaxEntries \in Nat /\ MaxRestarts \in Nat

VARIABLES
  \* the server process
  server,     \* "up", "hung" (in an endless loop) or "down"
  backlog,    \* connections not yet accepted, by browser
  serving,    \* the connection being served, or None
  sessions,   \* SESSIONS: token -> [user, nonce], None where the key is missing
  entries,    \* ENTRIES added since the start: [user, nonce of the form]
  \* the browsers
  alive,      \* the process runs
  jar,        \* cookie the jar holds for the server, or None
  page,       \* page[b][t]: what tab t shows: [kind, form]
  conn,       \* "idle", "open" (connected), "sent" (request written), "answered"
  request,    \* the request in flight
  reply,      \* the response in flight
  \* history variables
  tokensDrawn,
  greeted,    \* greeted[n]: the user the form with nonce n was made for
  newest,     \* newest[b]: nonce of the last form browser b received
  restarts

serverVars == <<server, backlog, serving, sessions, entries, tokensDrawn, greeted, restarts>>
browserVars == <<alive, jar, page, conn, request, reply, newest>>
vars == <<serverVars, browserVars>>

NoSession == [user |-> None, nonce |-> None]
Session == [user : Users \cup {None}, nonce : Nonces \cup {None}]

\* GET / and /login, POST / and /add, GET /comment.js, and what the server does
\* not know, such as the GET /add of going back to a page that was posted.
Routes == {"home", "loginForm", "login", "add", "script", "unknown"}

\* user is None for credentials LOGINS does not hold, fits tells whether the
\* comment has at most 100 characters.
Request == [route : Routes, tab : Tabs, user : Users \cup {None},
            nonce : Nonces \cup {None}, fits : BOOLEAN]
Page == [kind : {"blank", "book", "loginForm", "message"}, form : Nonces \cup {None}]
Reply == [kind : {"book", "loginForm", "message", "script"}, form : Nonces \cup {None},
          setCookie : Tokens \cup {None}]

Init ==
  /\ server = "up" /\ backlog = <<>> /\ serving = None
  /\ sessions = [k \in Tokens |-> NoSession]
  /\ entries = <<>> /\ restarts = 0 /\ tokensDrawn = {}
  /\ greeted = [n \in Nonces |-> None]
  /\ alive = [b \in Browsers |-> TRUE]
  /\ jar = [b \in Browsers |-> None]
  /\ page = [b \in Browsers |-> [t \in Tabs |-> [kind |-> "blank", form |-> None]]]
  /\ conn = [b \in Browsers |-> "idle"]
  /\ request = [b \in Browsers |-> None] /\ reply = [b \in Browsers |-> None]
  /\ newest = [b \in Browsers |-> None]

-----------------------------------------------------------------------------
(* Browsers *)

\* URL::request connects; a server that is down refuses.
Connect(b, r) ==
  /\ conn' = [conn EXCEPT ![b] = "open"]
  /\ request' = [request EXCEPT ![b] = r]
  /\ backlog' = IF server = "down" THEN backlog ELSE Append(backlog, b)
  /\ UNCHANGED <<server, serving, sessions, entries, tokensDrawn, greeted, restarts>>

\* The bounds: every request in flight can still draw a nonce and add an entry.
Room ==
  LET inFlight == Cardinality({b \in Browsers : conn[b] \in {"open", "sent"}}) IN
  /\ inFlight < Cardinality({n \in Nonces : greeted[n] = None})
  /\ Len(entries) + inFlight < MaxEntries

\* An address is typed, a link followed or the back button used.
Visit(b, t) ==
  /\ alive[b] /\ conn[b] = "idle" /\ Room
  /\ \E route \in {"home", "loginForm", "unknown"} :
       Connect(b, [route |-> route, tab |-> t, user |-> None, nonce |-> None, fits |-> TRUE])
  /\ UNCHANGED <<alive, jar, page, reply, newest>>

SubmitLogin(b, t) ==
  /\ alive[b] /\ conn[b] = "idle" /\ Room
  /\ page[b][t].kind = "loginForm"
  /\ \E u \in Users \cup {None} :
       Connect(b, [route |-> "login", tab |-> t, user |-> u, nonce |-> None, fits |-> TRUE])
  /\ UNCHANGED <<alive, jar, page, reply, newest>>

\* comment.js checks the length before the last key is added, or does not run
\* at all, so a comment too long may be sent.
SubmitEntry(b, t) ==
  /\ alive[b] /\ conn[b] = "idle" /\ Room
  /\ page[b][t].form # None
  /\ \E fits \in BOOLEAN :
       Connect(b, [route |-> "add", tab |-> t, user |-> None,
                   nonce |-> page[b][t].form, fits |-> fits])
  /\ UNCHANGED <<alive, jar, page, reply, newest>>

\* The request is written to the socket.
Write(b) ==
  /\ alive[b] /\ conn[b] = "open"
  /\ conn' = [conn EXCEPT ![b] = "sent"]
  /\ UNCHANGED <<serverVars, alive, jar, page, request, reply, newest>>

\* The response arrives: the cookie is stored and the tab shows the page.  A
\* guest book page asks for comment.js before the browser does anything else,
\* unless the policy forbids the script.
Receive(b) ==
  /\ alive[b] /\ conn[b] = "answered"
  /\ jar' = [jar EXCEPT ![b] = IF reply[b].setCookie = None THEN @ ELSE reply[b].setCookie]
  /\ reply' = [reply EXCEPT ![b] = None]
  /\ \/ /\ reply[b].kind = "script"
        /\ conn' = [conn EXCEPT ![b] = "idle"]
        /\ request' = [request EXCEPT ![b] = None]
        /\ UNCHANGED <<serverVars, page, newest>>
     \/ /\ reply[b].kind # "script"
        /\ page' = [page EXCEPT ![b][request[b].tab] =
                      [kind |-> reply[b].kind, form |-> reply[b].form]]
        /\ newest' = [newest EXCEPT ![b] = IF reply[b].form = None THEN @ ELSE reply[b].form]
        /\ \/ /\ conn' = [conn EXCEPT ![b] = "idle"]
              /\ request' = [request EXCEPT ![b] = None]
              /\ UNCHANGED serverVars
           \/ /\ reply[b].kind = "book" /\ Room
              /\ Connect(b, [request[b] EXCEPT !.route = "script"])
  /\ UNCHANGED alive

\* The connection is gone with the server.  Tab::load catches that for a script
\* and nobody catches it for the page: the process ends.
LoseServer(b) ==
  /\ alive[b] /\ conn[b] \in {"open", "sent"}
  /\ serving # b /\ b \notin {backlog[i] : i \in DOMAIN backlog}
  /\ \/ /\ request[b].route = "script"
        /\ conn' = [conn EXCEPT ![b] = "idle"]
        /\ request' = [request EXCEPT ![b] = None]
        /\ UNCHANGED alive
     \/ /\ request[b].route # "script"
        /\ alive' = [alive EXCEPT ![b] = FALSE]
        /\ UNCHANGED <<conn, request>>
  /\ UNCHANGED <<serverVars, jar, page, reply, newest>>

\* The user closes the window or the process crashes, whatever it waits for.
Die(b) ==
  /\ alive[b]
  /\ alive' = [alive EXCEPT ![b] = FALSE]
  /\ UNCHANGED <<serverVars, jar, page, conn, request, reply, newest>>

-----------------------------------------------------------------------------
(* The server *)

BugAcceptNewest ==
  /\ server = "up" /\ serving = None /\ backlog # <<>>
  /\ serving' = backlog[Len(backlog)] /\ backlog' = SubSeq(backlog, 1, Len(backlog) - 1)
  /\ UNCHANGED <<server, sessions, entries, tokensDrawn, greeted, restarts, browserVars>>

\* main takes the oldest connection.
Accept ==
  /\ server = "up" /\ serving = None /\ backlog # <<>>
  /\ serving' = Head(backlog) /\ backlog' = Tail(backlog)
  /\ UNCHANGED <<server, sessions, entries, tokensDrawn, greeted, restarts, browserVars>>

\* exit, or an assertion: every connection is reset.
Stop == server' = "down" /\ backlog' = <<>> /\ serving' = None

\* do_it's session: the cookie's, or a new one under a random token.
TokenOf(b) == IF jar[b] # None THEN {jar[b]} ELSE Tokens \ tokensDrawn

\* The end of do_it, for any route: answer, with Set-Cookie if the request had
\* no cookie, and close.  Writing to a browser that is gone may fail, which
\* ends the server.
Answer(b, k, kind, form) ==
  /\ tokensDrawn' = tokensDrawn \cup {k}
  /\ \/ /\ alive[b]
        /\ conn' = [conn EXCEPT ![b] = "answered"]
        /\ reply' = [reply EXCEPT ![b] =
             [kind |-> kind, form |-> form, setCookie |-> IF jar[b] = None THEN k ELSE None]]
        /\ serving' = None /\ UNCHANGED <<server, backlog>>
     \/ /\ ~alive[b]
        /\ \/ serving' = None /\ UNCHANGED <<server, backlog>>
           \/ Stop
        /\ UNCHANGED <<conn, reply>>
  /\ UNCHANGED <<restarts, alive, jar, page, request, newest>>

Serving(b, route) ==
  /\ server = "up" /\ serving = b /\ conn[b] = "sent" /\ request[b].route = route

BugNonceKept(s, n) == IF s.user = None \/ s.nonce # None THEN s ELSE [s EXCEPT !.nonce = n]

\* show_comments: a session with a user gets a new nonce and a form with it.
WithNonce(s, n) == IF s.user = None THEN s ELSE [s EXCEPT !.nonce = n]

\* Session s of token k is stored and its book page sent.
ShowComments(b, k, s) ==
  \E n \in {m \in Nonces : greeted[m] = None} :
    LET shown == WithNonce(s, n) IN
    /\ sessions' = [sessions EXCEPT ![k] = shown]
    /\ greeted' = IF s.user = None THEN greeted ELSE [greeted EXCEPT ![n] = s.user]
    /\ Answer(b, k, "book", IF s.user = None THEN None ELSE shown.nonce)

BugMessageSpendsForm(b, k, kind) ==
  \E n \in {m \in Nonces : greeted[m] = None} :
    /\ sessions' = [sessions EXCEPT ![k] = WithNonce(sessions[k], n)]
    /\ greeted' = IF sessions[k].user = None THEN greeted
                  ELSE [greeted EXCEPT ![n] = sessions[k].user]
    /\ Answer(b, k, kind, None)

\* A page without a form, the session as it was.
ShowMessage(b, k, kind) ==
  /\ Answer(b, k, kind, None)
  /\ UNCHANGED <<sessions, greeted>>

Home(b) ==
  /\ Serving(b, "home")
  /\ \E k \in TokenOf(b) : ShowComments(b, k, sessions[k])
  /\ UNCHANGED entries

LoginForm(b) ==
  /\ Serving(b, "loginForm")
  /\ \E k \in TokenOf(b) : ShowMessage(b, k, "loginForm")
  /\ UNCHANGED entries

Script(b) ==
  /\ Serving(b, "script")
  /\ \E k \in TokenOf(b) : ShowMessage(b, k, "script")
  /\ UNCHANGED entries

NotFound(b) ==
  /\ Serving(b, "unknown")
  /\ \E k \in TokenOf(b) : ShowMessage(b, k, "message")
  /\ UNCHANGED entries

BugLoginKeepsForm(b) ==
  /\ Serving(b, "login")
  /\ \E k \in TokenOf(b) :
       IF request[b].user # None
       THEN /\ sessions' = [sessions EXCEPT ![k].user = request[b].user]
            /\ Answer(b, k, "message", None)
            /\ UNCHANGED greeted
       ELSE ShowMessage(b, k, "message")
  /\ UNCHANGED entries

\* do_login: the session keeps its token, and its page a new form.
Login(b) ==
  /\ Serving(b, "login")
  /\ \E k \in TokenOf(b) :
       IF request[b].user # None
       THEN ShowComments(b, k, [sessions[k] EXCEPT !.user = request[b].user])
       ELSE ShowMessage(b, k, "message")
  /\ UNCHANGED entries

BugMissingNonceAccepted(s, r) == s.nonce = None \/ s.nonce = r.nonce

\* add_entry takes the form if somebody is logged in and the nonce is the one
\* of the last page shown to the session.
Accepts(s, r) == s.user # None /\ s.nonce # None /\ s.nonce = r.nonce

\* A comment that does not fit is dropped, and the form spent, without a word.
Add(b) ==
  /\ Serving(b, "add")
  /\ \E k \in TokenOf(b) :
       IF Accepts(sessions[k], request[b])
       THEN /\ entries' = IF request[b].fits
                          THEN Append(entries, [user |-> sessions[k].user,
                                                nonce |-> request[b].nonce])
                          ELSE entries
            /\ ShowComments(b, k, sessions[k])
       ELSE ShowMessage(b, k, "message") /\ UNCHANGED entries

\* The browser died before its request was complete.  No request line fails the
\* assertion of do_it and a short body its read; an end of file inside the
\* headers is never noticed by read_headers, which reads it for ever.
ReadTruncated(b) ==
  /\ server = "up" /\ serving = b /\ ~alive[b] /\ conn[b] = "open"
  /\ Stop \/ (server' = "hung" /\ UNCHANGED <<backlog, serving>>)
  /\ UNCHANGED <<sessions, entries, tokensDrawn, greeted, restarts, browserVars>>

\* The operator ends the process and starts it again: memory is lost.
Restart ==
  /\ restarts < MaxRestarts
  /\ restarts' = restarts + 1
  /\ server' = "up" /\ backlog' = <<>> /\ serving' = None
  /\ sessions' = [k \in Tokens |-> NoSession]
  /\ entries' = <<>>
  /\ UNCHANGED <<tokensDrawn, greeted, browserVars>>

Serve(b) ==
  \/ Home(b) \/ LoginForm(b) \/ Script(b) \/ NotFound(b) \/ Login(b) \/ Add(b)
  \/ ReadTruncated(b)

Act(b) == \E t \in Tabs : Visit(b, t) \/ SubmitLogin(b, t) \/ SubmitEntry(b, t)

Next ==
  \/ Accept \/ Restart
  \/ \E b \in Browsers : Act(b) \/ Write(b) \/ Receive(b) \/ LoseServer(b) \/ Die(b) \/ Serve(b)

Spec == Init /\ [][Next]_vars

\* The server process and every living browser are scheduled again and again; a
\* user need not act, a browser need not die, the operator need not restart.
Fairness ==
  /\ WF_vars(Accept)
  /\ \A b \in Browsers : WF_vars(Write(b)) /\ WF_vars(Receive(b)) /\ WF_vars(Serve(b))

FairSpec == Spec /\ Fairness

-----------------------------------------------------------------------------
(* Properties *)

TypeOK ==
  /\ server \in {"up", "hung", "down"}
  /\ backlog \in Seq(Browsers) /\ serving \in Browsers \cup {None}
  /\ sessions \in [Tokens -> Session]
  /\ entries \in Seq([user : Users, nonce : Nonces])
  /\ alive \in [Browsers -> BOOLEAN]
  /\ jar \in [Browsers -> Tokens \cup {None}]
  /\ page \in [Browsers -> [Tabs -> Page]]
  /\ conn \in [Browsers -> {"idle", "open", "sent", "answered"}]
  /\ request \in [Browsers -> Request \cup {None}]
  /\ reply \in [Browsers -> Reply \cup {None}]
  /\ \A b \in Browsers : IF conn[b] = "idle" THEN request[b] = None ELSE request[b] \in Request
  /\ \A b \in Browsers : IF conn[b] = "answered" THEN reply[b] \in Reply ELSE reply[b] = None
  /\ tokensDrawn \subseteq Tokens
  /\ greeted \in [Nonces -> Users \cup {None}]
  /\ newest \in [Browsers -> Nonces \cup {None}]
  /\ restarts \in Nat

\* However many tabs show it and however often it is sent, one form signs the
\* book at most once: add_entry replaces the nonce it has taken.
FormSignsOnce ==
  \A i, j \in DOMAIN entries : entries[i].nonce = entries[j].nonce => i = j

\* An entry carries the name its form greeted ("Hello, ..."), although another
\* tab of the browser may have logged in as somebody else since.
SignedAsGreeted ==
  \A i \in DOMAIN entries : entries[i].user = greeted[entries[i].nonce]

\* The form the server would take from a browser is the last one this browser
\* was given: an older tab's form is refused, the newest one never is, unless
\* the server has forgotten the session.
OnlyNewestFormLives ==
  \A b \in Browsers :
    alive[b] /\ jar[b] # None /\ conn[b] # "answered" =>
      sessions[jar[b]].nonce \in {None, newest[b]}

LiveForms == {sessions[k].nonce : k \in Tokens} \ {None}

Ticket == INSTANCE Tickets WITH
  Forms <- Nonces, issuedTo <- greeted, live <- LiveForms, book <- entries

\* The book is signed by ticket: whatever tabs, log-ins, repeated submissions,
\* lost connections and restarts do, what is written is what Tickets allows.
ByTicket == Ticket!Spec

\* While the server runs, a request that was sent is answered, whoever else
\* connects: one connection at a time, in the order of arrival.
ServedWhileUp ==
  [](server = "up" /\ restarts = 0 /\ \A b \in Browsers : alive[b])
    => \A b \in Browsers : conn[b] = "sent" ~> conn[b] = "answered"
=============================================================================
