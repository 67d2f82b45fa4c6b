------------------------------ MODULE MCJourney ------------------------------
(***************************************************************************)
(* Constants for checking Journey.tla.                                     *)
(***************************************************************************)
EXTENDS Journey

MCNames == {"127.0.0.1", "localhost", "8000", "site", "a", "b", "add", "comment.js"}

MCServer == [host |-> <<"127.0.0.1">>, port |-> <<"8000">>]
MCAlias == [host |-> <<"localhost">>, port |-> <<"8000">>]
MCElsewhere == <<"site">>

Http == <<"http", ":", "/", "/">>

\* With and without a path, under both names, and one that does not parse.
MCTyped == {
  Http \o <<"127.0.0.1", ":", "8000">>,
  Http \o <<"localhost", ":", "8000", "/">>,
  Http \o <<"site", "/", "a", "/", "b">>,
  <<"site">>}

\* Up to two levels up and down, from the root, to another host.
MCLinks ==
  {up \o down : up \in {<<>>, <<"..", "/">>, <<"..", "/", "..", "/">>},
                down \in {<<>>, <<"a">>, <<"a", "/", "b">>}}
  \cup {<<"/">>, <<"/", "a", "/", "b">>, <<"/", "/", "site">>,
        Http \o <<"localhost", ":", "8000">>}

\* The names of both fields, so that one can hold a field of the other's name;
\* the nonce; the signs of a form's body and of an encoding; and a character of two
\* bytes.
MCKeys == {<<97>>, <<103>>, <<55>>, <<32>>, <<37>>, <<38>>, <<43>>, <<61>>, <<195, 169>>}

\* Each form, two cases of one key, and the values in quotes that are read in
\* another way: with an =, only an =, empty.
MCAttributes == {
  [key |-> <<97>>, form |-> "bare", value |-> <<>>],
  [key |-> <<65>>, form |-> "plain", value |-> <<112>>],
  [key |-> <<100>>, form |-> "single", value |-> <<113>>],
  [key |-> <<97>>, form |-> "quoted", value |-> <<112, 32, 113>>],
  [key |-> <<100>>, form |-> "quoted", value |-> <<112, 61, 113>>],
  [key |-> <<100>>, form |-> "quoted", value |-> <<61>>],
  [key |-> <<100>>, form |-> "quoted", value |-> <<>>]}

MCTags == {[name |-> <<116>>, attributes |-> s] : s \in BoundedSeq(MCAttributes, 2)}

\* Also an entry that makes an input in the page, and one that spells an entity.
MCEarlier == {None, <<60, 105, 32, 110, 61, 103, 32, 62>>, <<38, 108, 116, 59>>}
=============================================================================
