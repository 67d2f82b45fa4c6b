------------------------------- MODULE FormBody -------------------------------
(***************************************************************************)
(* The body of a submitted form: the browser writes every value percent-   *)
(* encoded (include/url.hpp), the server decodes the body as a whole and   *)
(* cuts it into fields then (Server/riolib.hpp, Server/server.cpp).        *)
(*                                                                         *)
(* A text is a sequence of bytes.                                          *)
(***************************************************************************)
EXTENDS Strings

\* ASCII
Space == 32   Percent == 37   Amp == 38   Plus == 43   Equals == 61

Unreserved == (65..90) \cup (97..122) \cup (48..57) \cup {45, 46, 95, 126}

HexDigit(n) == IF n < 10 THEN 48 + n ELSE 55 + n
HexValue(b) == IF b < 65 THEN b - 48 ELSE b - 55

BugEncodeByte(b) ==
  CASE b = Space -> <<Plus>>
    [] b \in Unreserved \cup {Plus} -> <<b>>
    [] OTHER -> <<Percent, HexDigit(b \div 16), HexDigit(b % 16)>>

EncodeByte(b) ==
  CASE b = Space -> <<Plus>>
    [] b \in Unreserved -> <<b>>
    [] OTHER -> <<Percent, HexDigit(b \div 16), HexDigit(b % 16)>>

Encode(s) == FlattenSeq([i \in DOMAIN s |-> EncodeByte(s[i])])

\* A % without two bytes behind it is dropped.  The two are hexadecimal, or
\* stoi would throw: only the browser's encoder writes bodies here.
Decode(s) ==
  LET from[i \in 1..(Len(s) + 1)] ==
        CASE i > Len(s) -> <<>>
          [] i <= Len(s) /\ s[i] = Plus -> <<Space>> \o from[i + 1]
          [] i <= Len(s) /\ s[i] = Percent /\ i + 2 <= Len(s) ->
               <<16 * HexValue(s[i + 1]) + HexValue(s[i + 2])>> \o from[i + 3]
          [] i <= Len(s) /\ s[i] = Percent /\ i + 2 > Len(s) -> from[i + 1]
          [] OTHER -> <<s[i]>> \o from[i + 1]
  IN from[1]

\* form_decode.  A field without = is its own name and value.
Fields(body) ==
  LET parts == Split(body, <<Amp>>)
      equals(f) == Find(f, <<Equals>>, 1)
  IN [i \in DOMAIN parts |->
       [name |-> Before(parts[i], equals(parts[i])),
        value |-> IF equals(parts[i]) = None THEN parts[i]
                  ELSE From(parts[i], equals(parts[i]) + 1)]]

BugParam(fields, name) ==
  LET at == Find([i \in DOMAIN fields |-> fields[i].name], <<name>>, 1)
  IN IF at = None THEN None ELSE fields[at].value

\* params[name]: the last field of a name stays.
Param(fields, name) ==
  LET at == FindLast([i \in DOMAIN fields |-> fields[i].name], name)
  IN IF at = None THEN None ELSE fields[at].value
=============================================================================
