----------------------------- MODULE MessageLog -----------------------------
(***************************************************************************)
(* What a channel or a thread promises about its messages, seen from the   *)
(* committed rows: a message is posted once, may be edited until it is     *)
(* removed and never changes after that; messages go only one by one, or   *)
(* all of them when the thread itself is dissolved, and then none is       *)
(* posted any more.                                                        *)
(***************************************************************************)
EXTENDS Naturals

CONSTANTS Ids, Contents, NoContent

VARIABLES
    text,   \* id -> NoContent, a content, "gone" (removed) or "lost"
            \* (never to be used: not committed, or dissolved)
    open    \* the channel or thread exists

vars == <<text, open>>

Init ==
    /\ text = [m \in Ids |-> NoContent]
    /\ open = TRUE

Become(m, what) ==
    /\ text' = [text EXCEPT ![m] = what]
    /\ UNCHANGED open

Post(m, c) == open /\ text[m] = NoContent /\ Become(m, c)

Edit(m, c) == text[m] \in Contents /\ Become(m, c)

Remove(m) == text[m] \in Contents /\ Become(m, "gone")

Abandon(m) == text[m] = NoContent /\ Become(m, "lost")

Dissolve ==
    /\ open
    /\ open' = FALSE
    /\ text' = [m \in Ids |-> IF text[m] = NoContent THEN NoContent ELSE "lost"]

Next ==
    \/ \E m \in Ids, c \in Contents : Post(m, c) \/ Edit(m, c)
    \/ \E m \in Ids : Remove(m) \/ Abandon(m)
    \/ Dissolve

Spec == Init /\ [][Next]_vars
=============================================================================
