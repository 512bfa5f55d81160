------------------------ MODULE MCConversationService ------------------------
(* ConversationService on small instances. *)
EXTENDS ConversationService

CONSTANTS s1, s2   \* starters
=============================================================================
