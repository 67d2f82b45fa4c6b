------------------------------- MODULE Address -------------------------------
(***************************************************************************)
(* Addresses (src/Url.cpp).  The text of an address is cut into lexemes:   *)
(* ":", "/", "..", and names without these signs.                          *)
(***************************************************************************)
EXTENDS Strings

CONSTANT Names   \* of hosts, ports and what is in a path

Lexemes == {":", "/", "..", "http", "https", "80", "443"} \cup Names

Marker == <<":", "/", "/">>
Up == <<"..", "/">>
Schemes == {<<"http">>, <<"https">>}

ASSUME NoAddressAssumption ==
  LET texts == Seq(Lexemes) IN
  None \notin [text : texts, scheme : texts, host : texts, port : texts, path : texts, tls : BOOLEAN]

\* URL::URL and URL::parse.  None stands for the exception.
Parse(text) ==
  LET schemeEnd == Find(text, Marker, 1)
      scheme == Before(text, schemeEnd)
      hostStart == schemeEnd + 3
      pathStart == Find(text, <<"/">>, hostStart)
      authority == IF pathStart = None THEN From(text, hostStart)
                   ELSE SubSeq(text, hostStart, pathStart - 1)
      colon == Find(authority, <<":">>, 1)
      default == IF scheme = <<"http">> THEN <<"80">> ELSE <<"443">>
      port == IF colon = None THEN default ELSE From(authority, colon + 1)
  IN IF schemeEnd = None \/ scheme \notin Schemes THEN None
     ELSE [text |-> IF pathStart = None THEN Append(text, "/") ELSE text,
           scheme |-> scheme,
           host |-> Before(authority, colon),
           port |-> port,
           path |-> IF pathStart = None THEN <<"/">> ELSE From(text, pathStart),
           tls |-> scheme # <<"http">> /\ port # <<"80">>]

BugDirectory(text) == text

\* Where a relative link starts.
Directory(text) == Before(text, FindLast(text, "/"))

\* One turn of the loop over ../ per level.
Climb(dir, levels) ==
  LET climbed[n \in Nat] == IF n = 0 THEN dir ELSE Directory(climbed[n - 1])
  IN climbed[levels]

Levels(link) ==
  CHOOSE n \in 0..Len(link) :
    /\ \A i \in 1..n : At(link, 2 * i - 1, Up)
    /\ ~At(link, 2 * n + 1, Up)

\* URL::resolve, from the address u.
Resolve(u, link) ==
  CASE Find(link, Marker, 1) # None -> Parse(link)
    [] Find(link, Marker, 1) = None /\ At(link, 1, <<"/", "/">>) ->
         Parse(u.scheme \o <<":">> \o link)
    [] Find(link, Marker, 1) = None /\ At(link, 1, <<"/">>) /\ ~At(link, 1, <<"/", "/">>) ->
         Parse(u.scheme \o Marker \o u.host \o <<":">> \o u.port \o link)
    [] OTHER ->
         Parse(Climb(Directory(u.text), Levels(link)) \o <<"/">>
               \o From(link, 2 * Levels(link) + 1))

\* URL::origin
Origin(u) == [scheme |-> u.scheme, host |-> u.host, port |-> u.port]
=============================================================================
