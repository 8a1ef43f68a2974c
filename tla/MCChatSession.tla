--------------------------- MODULE MCChatSession ---------------------------
(* Instances of ChatSession for TLC. *)
EXTENDS ChatSession

CONSTANTS c1, c2

MCChats    == {c1, c2}
MCOneChat  == {c1}
=============================================================================
