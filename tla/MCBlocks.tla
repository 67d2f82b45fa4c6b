------------------------------- MODULE MCBlocks -------------------------------
(***************************************************************************)
(* Constants for checking HTMLParser.tla and Blocks.tla: one tag of each   *)
(* kind that parser or layout tell apart - of the head or not, void or     *)
(* not, block or not, one that is a box - and two texts, one of which      *)
(* reads "p".                                                              *)
(***************************************************************************)
EXTENDS Blocks

MCTags == {"html", "head", "body", "title", "p", "b", "br", "input", "button"}
MCTexts == {"text", "text p"}
MCHeadTags == {"title"}
MCVoidTags == {"br", "input"}
MCBlockElements == {"html", "body", "p", "text p"}
=============================================================================
