--------------------------- MODULE SnapshotCache ---------------------------
(***************************************************************************)
(* The snapshot directory of a source: one file per distinct payload,      *)
(* named by its digest, and an index from what was asked for to the        *)
(* payload that answered it.                                               *)
(*                                                                         *)
(* Storing a snapshot is two writes, the file and then the whole index;    *)
(* neither is atomic, so a process that dies in one leaves it torn.  A     *)
(* torn file is only ever one the index does not name yet, and the next    *)
(* store of the payload sees a digest that differs and writes it again.    *)
(* A torn index cannot be read and is never repaired: json.loads raises    *)
(* in every later run that looks at it.                                    *)
(*                                                                         *)
(* An adapter hands a payload over with Store and goes on when nothing is  *)
(* pending.  One process at a time works on a directory.                   *)
(***************************************************************************)
EXTENDS Integers, Sequences, FiniteSets, TLC

CONSTANT None  \* nothing

VARIABLES
  index,      \* .snapshot_index.json: key -> payload
  indexTorn,  \* is the index file cut short?
  whole,      \* the payloads whose file is complete
  scraps,     \* the payloads whose file is cut short
  pending     \* the snapshot being stored, or NoStore

cacheVars == <<index, indexTorn, whole, scraps, pending>>

NoStore == [key |-> None, payload |-> None, stage |-> "done"]

CacheInit ==
  /\ index = <<>>
  /\ indexTorn = FALSE
  /\ whole = {}
  /\ scraps = {}
  /\ pending = NoStore

-----------------------------------------------------------------------------
(* Reading: an entry counts when its file exists, whatever is in it.       *)

Cached(key) == key \in DOMAIN index /\ index[key] \in whole \cup scraps

(* Storing: the index is loaded first, so nothing starts on a torn one.    *)

Store(key, payload) ==
  /\ pending = NoStore
  /\ ~indexTorn
  /\ pending' = [key |-> key, payload |-> payload, stage |-> "file"]
  /\ UNCHANGED <<index, indexTorn, whole, scraps>>

\* The slip: a file that is already there is taken to be the payload.
WrongWriteFile ==
  /\ pending.stage = "file"
  /\ whole' = whole \cup ({pending.payload} \ scraps)
  /\ pending' = [pending EXCEPT !.stage = "index"]
  /\ UNCHANGED <<index, indexTorn, scraps>>

\* The file is written unless it exists with the right digest.
WriteFile ==
  /\ pending.stage = "file"
  /\ whole' = whole \cup {pending.payload}
  /\ scraps' = scraps \ {pending.payload}
  /\ pending' = [pending EXCEPT !.stage = "index"]
  /\ UNCHANGED <<index, indexTorn>>

WriteIndex ==
  /\ pending.stage = "index"
  /\ index' = [key \in DOMAIN index \cup {pending.key} |->
                 IF key = pending.key THEN pending.payload ELSE index[key]]
  /\ pending' = NoStore
  /\ UNCHANGED <<indexTorn, whole, scraps>>

(* The process dies, perhaps in the middle of one of the two writes.       *)

CacheLeftBehind ==
  /\ pending' = NoStore
  /\ \/ UNCHANGED <<index, indexTorn, whole, scraps>>
     \/ /\ pending.stage = "file"
        /\ pending.payload \notin whole
        /\ scraps' = scraps \cup {pending.payload}
        /\ UNCHANGED <<index, indexTorn, whole>>
     \/ /\ pending.stage = "index"
        /\ index' = <<>>
        /\ indexTorn' = TRUE
        /\ UNCHANGED <<whole, scraps>>

-----------------------------------------------------------------------------
(* What the index names is there, complete: a snapshot is never replayed   *)
(* from a file that a dying process cut short, because the file is written *)
(* before the entry and checked against its digest                         *)
(* (_store_snapshot_bytes).                                                *)

IndexedSnapshotsAreWhole == \A key \in DOMAIN index : index[key] \in whole

=============================================================================
