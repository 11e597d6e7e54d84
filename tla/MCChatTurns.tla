----------------------------- MODULE MCChatTurns -----------------------------
(* Three messages of one session.  The first may take any route; the other *)
(* two keep out of the tool loop, so that one loop runs while the messages *)
(* after it arrive, abort it and overtake one another.                     *)
EXTENDS ChatTurns, TLC

CONSTANTS m1, m2, m3, chat, read, patch

MCSessionOf == [t \in Turns |-> chat]
MCRoutesOf == [t \in Turns |-> IF t = m1 THEN Routes ELSE {"casual"}]

LaterTurns == Permutations({m2, m3})
=============================================================================
