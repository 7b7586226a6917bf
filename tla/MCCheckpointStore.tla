-------------------------- MODULE MCCheckpointStore --------------------------
(* CheckpointStore as an instance, for TLC and for modules that also speak *)
(* of other files: its names stay behind Store, its properties keep theirs.*)
(* Commands are interchangeable.                                           *)
EXTENDS TLC

CONSTANTS Procs, Issues, MaxClock, MaxSaves, Absent, Torn
VARIABLES content, proc, clock, saves, writes, raced

Store == INSTANCE CheckpointStore

ASSUME StoreConstants == Store!StoreAssumption /\ Store!NoFileAssumption

StoreSpec == Store!Spec

CommandSymmetry == Permutations(Procs)

\* CheckpointStore: no file holds a checkpoint of another task (#226 D6, #250),
\* whatever order resolves, loads and saves of concurrent commands take.
TaskFileHoldsItsIssue == Store!TaskFileHoldsItsIssue

\* CheckpointStore: a file holds every update saved to it since it was created,
\* unless two commands worked on it at once (file-state-repository.ts).
NothingLostWithoutRace == Store!NothingLostWithoutRace
==============================================================================
