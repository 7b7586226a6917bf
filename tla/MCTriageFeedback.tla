--------------------------- MODULE MCTriageFeedback ---------------------------
(***************************************************************************)
(* An instance of TriageFeedback: the conversation repeats the text of the *)
(* inline comment, and holds a note without a severity marker.             *)
(***************************************************************************)
EXTENDS TriageFeedback

MCText ==
    [c \in Comments |-> IF c \in Inline \/ c \in Conversation \ General THEN "finding"
                        ELSE IF c \in General THEN "note" ELSE "review"]

=============================================================================
