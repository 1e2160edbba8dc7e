------------------------- MODULE MCGovernedClaims -------------------------
(* Instances of GovernedClaims for TLC.                                    *)
EXTENDS GovernedClaims, TLC

CONSTANTS dpc, nara, wikidata, f1, f2, r1, r2

\* Formats are interchangeable, and so are rules.
ClaimSymmetry == Permutations(Format) \cup Permutations(Rule)

\* Jobs that overlap leave one format alone, to bound the run: where two
\* formats are written, one job has the store at a time.
Untouched(f) ==
  /\ canonical_formats[f].state = "absent"
  /\ f \notin Targets({c \in Claim : claims[c] # "absent"})
  /\ \A j \in Job : f \notin touched[j] \cup Targets(generated[j])

NarrowOverlap ==
  (\E j \in Job : contended[j]) => \E f \in Format : Untouched(f)

NarrowSpec == Init /\ [][Next /\ NarrowOverlap']_vars

=============================================================================
