------------------------------ MODULE MCCascade ------------------------------
(***************************************************************************)
(* Constants for checking Cascade.tla: a list in a list, with a text in    *)
(* each entry.                                                             *)
(***************************************************************************)
EXTENDS Cascade, TLC

MCWords == {"ul", "UL", "li", "color", "COLOR", "red", "blue", "back", "size", "half", "large"}
MCFold == [w \in MCWords |-> CASE w = "UL" -> "ul" [] w = "COLOR" -> "color" [] OTHER -> w]

\* Whole rules, one of each priority and two that are equal, a rule left open,
\* declarations with and without a semicolon, and what can be in the way.
MCPieces == {
  <<"li", "open", "COLOR", "colon", "red", "close">>,
  <<"UL", "li", "open", "size", "colon", "half", "semicolon", "color", "colon", "blue", "close">>,
  <<"li", "open", "back", "colon", "red", "semicolon", "color", "colon", "blue", "semicolon">>,
  <<"color", "colon", "red", "semicolon">>,
  <<"size", "colon", "half">>, <<"size", "colon", "large", "semicolon">>,
  <<"li">>, <<"open">>, <<"close">>, <<"semicolon">>, <<"junk">>, <<"nul">>}

\* The page before had no rules of its own, or one for list entries.
MCOldRules == {<<>>, <<[sel |-> <<"li">>, decls |-> ("back" :> "blue") @@ ("color" :> "blue")]>>}

MCParent == <<0, 1, 2, 2, 4, 5>>
MCName == <<"ul", "li", "text", "ul", "li", "text">>
MCInherited == {"size", "color"}
MCDefault == [p \in MCInherited |-> IF p = "size" THEN [unit |-> "px", n |-> 1600] ELSE "black"]
MCSizeOf == [w \in MCWords |-> IF w = "half" THEN [unit |-> "percent", n |-> 50]
                               ELSE [unit |-> "none", n |-> 0]]
=============================================================================
