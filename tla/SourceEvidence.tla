--------------------------- MODULE SourceEvidence ---------------------------
(***************************************************************************)
(* What the incremental registry promises about the evidence of a source:  *)
(* each source has one authoritative acquisition at a time, readers see    *)
(* all of that acquisition and nothing else, and it changes only when a    *)
(* run commits, for all the sources that run acquired in one step.  Among  *)
(* committed runs the one with the greatest (finish time, run id) is the   *)
(* authority, so a source's register is last-writer-wins.                  *)
(*                                                                         *)
(* RegistryPipeline implements this specification: a run is a long series  *)
(* of separate store writes and may die between any two of them.           *)
(***************************************************************************)
EXTENDS Integers

CONSTANTS
  Source,     \* configured source ids
  Format,     \* what a source record is about
  RunId,      \* run identifiers, ordered
  NoRun,      \* "no run", not a RunId
  Time        \* the finish times a run report may carry

VARIABLES
  acquired,   \* [RunId -> SUBSET Source]: the sources a run has acquired
  batch,      \* [RunId -> [Source -> SUBSET Format]]: and what it got
  finished,   \* [RunId -> Time or -1]: finish time of a committed run, else -1
  authority,  \* [Source -> RunId or NoRun]
  visible     \* [Source -> SUBSET Format]: what a reader of the source gets

vars == <<acquired, batch, finished, authority, visible>>

Committed(r) == finished[r] >= 0

Init ==
  /\ acquired = [r \in RunId |-> {}]
  /\ batch = [r \in RunId |-> [s \in Source |-> {}]]
  /\ finished = [r \in RunId |-> -1]
  /\ authority = [s \in Source |-> NoRun]
  /\ visible = [s \in Source |-> {}]

(* A run that has not committed finishes acquiring source s as a whole.    *)
Acquire(r, s) ==
  /\ ~Committed(r)
  /\ s \notin acquired[r]
  /\ acquired' = [acquired EXCEPT ![r] = @ \cup {s}]
  /\ \E fs \in SUBSET Format : batch' = [batch EXCEPT ![r][s] = fs]
  /\ UNCHANGED <<finished, authority, visible>>

(* A run dies before it commits: what it acquired is lost.                 *)
Abandon(r) ==
  /\ ~Committed(r)
  /\ acquired' = [acquired EXCEPT ![r] = {}]
  /\ batch' = [batch EXCEPT ![r] = [s \in Source |-> {}]]
  /\ UNCHANGED <<finished, authority, visible>>

(* r, finishing at time t, takes precedence over the authority of s.       *)
Overrides(r, t, s) ==
  \/ authority[s] = NoRun
  \/ finished[authority[s]] < t
  \/ finished[authority[s]] = t /\ authority[s] < r

Commit(r, t) ==
  LET taken == {s \in acquired[r] : Overrides(r, t, s)}
  IN /\ ~Committed(r)
     /\ finished' = [finished EXCEPT ![r] = t]
     /\ authority' = [s \in Source |-> IF s \in taken THEN r ELSE authority[s]]
     /\ visible' = [s \in Source |-> IF s \in taken THEN batch[r][s] ELSE visible[s]]
     /\ UNCHANGED <<acquired, batch>>

Next ==
  \E r \in RunId :
    \/ \E s \in Source : Acquire(r, s)
    \/ Abandon(r)
    \/ \E t \in Time : Commit(r, t)

Spec == Init /\ [][Next]_vars

=============================================================================
