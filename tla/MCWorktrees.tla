---------------------------- MODULE MCWorktrees ----------------------------
\* Two tasks: the commands of a run that provisions and discards for one, the
\* end of a run, with its sweep, for the other.
EXTENDS Worktrees, TLC

CONSTANTS t1, t2

BothEnds ==
    (t1 :> {"implement", "leg", "remove", "pruneStale", "abort"}) @@ (t2 :> {"commit"})
        @@ (Sweeper :> {"clean"})

=============================================================================
