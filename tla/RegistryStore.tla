--------------------------- MODULE RegistryStore ---------------------------
(***************************************************************************)
(* The registry store behind its interface: what a run of the pipeline     *)
(* writes, how each backend files it, and what an identifier lookup, the   *)
(* current view and the institution's list answer from it.                 *)
(*                                                                         *)
(* The interface names a document by a key; the backends differ in what    *)
(* becomes of the key.  Memory keeps identifier rows without their source  *)
(* and appends overlays, the file store makes a file name of the key in    *)
(* which different characters become the same one, MongoDB replaces by a   *)
(* filter on the key's fields.  The file store truncates a file before it  *)
(* writes it, and json.loads raises on every later read of a collection    *)
(* that holds a file a dying process left truncated.                       *)
(*                                                                         *)
(* Only formats, identifier rows and overlays are kept here: the other     *)
(* collections are written the same way and are not read by a lookup.      *)
(***************************************************************************)
EXTENDS Integers, FiniteSets, SequencesExt

CONSTANTS
  NoField,       \* no identifiers field, as in documents of old versions
  Cut,           \* a file that was cut short
  StoreFormat,   \* canonical ids
  Value,         \* identifier values of one kind
  Safe(_),       \* the value as it survives in a file name
  Registries,    \* registries a run may persist
  MaxPersist     \* bound: runs on one store

(* A registry maps the formats it has to what is stored of them: their     *)
(* identifier claims as pairs of a value and a source, and whether the     *)
(* institution has an overlay for them.                                    *)
ASSUME StoreConstants ==
  \A registry \in Registries :
    /\ DOMAIN registry \subseteq StoreFormat /\ IsFiniteSet(DOMAIN registry)
    /\ \A f \in DOMAIN registry :
         /\ IsFiniteSet(registry[f].claims)
         /\ \A claim \in registry[f].claims : claim[1] \in Value

VARIABLES
  backend,   \* "memory", "file" or "mongo"
  kept,      \* what the backend holds: name -> document
  promise,   \* history: the last document written under each key
  writes,    \* the writes the run has left, in batches: one per format
  truncated, \* is the file of the next write truncated already?
  persists   \* runs so far

storeVars == <<backend, kept, promise, writes, truncated, persists>>

-----------------------------------------------------------------------------
(* Documents and their keys.                                               *)

FormatKey(f) == [in |-> "canonical_formats", format |-> f]
RowKey(f, claim) ==
  [in |-> "format_identifiers", format |-> f, value |-> claim[1],
   source |-> claim[2]]
OverlayKey(f, run) ==
  [in |-> "institution_policy_overlays", format |-> f, run |-> run]

FormatDoc(f, ids, current) == [format |-> f, ids |-> ids, current |-> current]
RowDoc(f, claim) == [format |-> f, value |-> claim[1]]
OverlayDoc(f) == [format |-> f]

MemoryName(key) ==
  IF key.in = "format_identifiers"
    THEN [in |-> key.in, format |-> key.format, value |-> key.value]
    ELSE key
FileName(key) ==
  IF key.in = "format_identifiers"
    THEN [key EXCEPT !.value = Safe(@)]
    ELSE key
MongoFilter(key) == key

Name(key) ==
  CASE backend = "memory" -> MemoryName(key)
    [] backend = "file"   -> FileName(key)
    [] backend = "mongo"  -> MongoFilter(key)

-----------------------------------------------------------------------------
(* Reading.                                                                *)

Documents(collection) ==
  {kept[n] : n \in {n \in DOMAIN kept : n.in = collection}}
Unreadable(collection) == Cut \in Documents(collection)
CurrentIn(docs) == {d \in docs : d.current}

FileView == CurrentIn(Documents("canonical_formats"))
MongoView == {d \in Documents("canonical_formats") : d.current}

\* Current formats that list the value, and those of old versions whose
\* rows do; more than one format may, and the backends pick in orders of
\* their own.
Listing(docs, value) ==
  {d.format : d \in {e \in CurrentIn(docs) :
                       e.ids # NoField /\ value \in e.ids}}
OldVersions(docs, rows, value) ==
  {d.format : d \in {e \in CurrentIn(docs) :
     /\ e.ids = NoField
     /\ \E r \in rows : r.value = value /\ r.format = e.format}}

FindInMemory(value) ==
  LET docs == Documents("canonical_formats") IN
    IF Listing(docs, value) # {}
      THEN Listing(docs, value)
      ELSE OldVersions(docs, Documents("format_identifiers"), value)

\* The slip: the rows are believed whatever the format lists.
WrongFindInFile(value) ==
  LET rows == Documents("format_identifiers") IN
    IF Listing(FileView, value) # {}
      THEN Listing(FileView, value)
      ELSE {d.format : d \in {e \in FileView :
              \E r \in rows : r.value = value /\ r.format = e.format}}

FindInFile(value) ==
  IF Listing(FileView, value) # {}
    THEN Listing(FileView, value)
    ELSE OldVersions(FileView, Documents("format_identifiers"), value)

FindInMongo(value) ==
  IF Listing(MongoView, value) # {}
    THEN Listing(MongoView, value)
    ELSE {d.format : d \in {e \in MongoView :
            /\ e.ids = NoField
            /\ [format |-> e.format, value |-> value]
                 \in Documents("format_identifiers")}}

PolicyFormats ==
  {d.format : d \in CurrentIn(Documents("canonical_formats"))} \cap
  {o.format : o \in Documents("institution_policy_overlays")}

-----------------------------------------------------------------------------
(* Writing.                                                                *)

Upsert(docs, name, doc) ==
  [n \in DOMAIN docs \cup {name} |-> IF n = name THEN doc ELSE docs[n]]

Put(key, doc) ==
  /\ kept' = Upsert(kept, Name(key), doc)
  /\ promise' = Upsert(promise, key, doc)

Row(f, claim) == [key |-> RowKey(f, claim), doc |-> RowDoc(f, claim)]

\* A format, its identifier rows, its overlay.
FormatWrites(registry, f, run) ==
  LET stored == registry[f] IN
    <<[key |-> FormatKey(f),
       doc |-> FormatDoc(f, {c[1] : c \in stored.claims}, TRUE)]>>
      \o SetToSeq({Row(f, c) : c \in stored.claims})
      \o IF stored.overlay
           THEN <<[key |-> OverlayKey(f, run), doc |-> OverlayDoc(f)]>>
           ELSE <<>>

\* The formats of the view that the registry does not have any more.
Removals(registry, view) ==
  SetToSeq({[key |-> FormatKey(d.format), doc |-> [d EXCEPT !.current = FALSE]] :
              d \in {e \in view : e.format \notin DOMAIN registry}})

\* The writes of a run: format by format, then the removals, if any.
Persisted(registry, run, view) ==
  LET formats  == SetToSeq(DOMAIN registry)
      removals == Removals(registry, view)
  IN [i \in DOMAIN formats |-> FormatWrites(registry, formats[i], run)]
       \o IF removals = <<>> THEN <<>> ELSE <<removals>>

NextWrite == Head(Head(writes))

WritesAfter ==
  LET batch == Tail(Head(writes)) IN
    (IF batch = <<>> THEN <<>> ELSE <<batch>>) \o Tail(writes)

-----------------------------------------------------------------------------
Empty ==
  /\ kept = <<>>
  /\ promise = <<>>

\* A store that is new, or one a version without identifiers fields filled.
OldDocuments(f, values) ==
  LET rows == {RowKey(f, <<v, "old">>) : v \in values} IN
    [k \in {FormatKey(f)} \cup rows |->
       IF k = FormatKey(f) THEN FormatDoc(f, NoField, TRUE)
       ELSE [format |-> f, value |-> k.value]]

StoreInit ==
  /\ backend \in {"memory", "file", "mongo"}
  /\ \/ Empty
     \/ /\ backend # "memory"
        /\ \E f \in StoreFormat, values \in SUBSET Value :
             /\ promise = OldDocuments(f, values)
             /\ kept = [n \in {Name(k) : k \in DOMAIN promise} |->
                          promise[CHOOSE k \in DOMAIN promise : Name(k) = n]]
  /\ writes = <<>>
  /\ truncated = FALSE
  /\ persists = 0

\* A run reads the view, which a truncated file prevents, and builds a
\* registry; its writes follow.
StartRun(registry) ==
  /\ writes = <<>>
  /\ ~Unreadable("canonical_formats")
  /\ persists < MaxPersist
  /\ persists' = persists + 1
  /\ writes' = Persisted(registry, persists', FileView)
  /\ UNCHANGED <<backend, kept, promise, truncated>>

WriteDocument ==
  /\ writes # <<>>
  /\ backend # "file"
  /\ Put(NextWrite.key, NextWrite.doc)
  /\ writes' = WritesAfter
  /\ UNCHANGED <<backend, truncated, persists>>

TruncateFile ==
  /\ writes # <<>>
  /\ backend = "file"
  /\ ~truncated
  /\ truncated' = TRUE
  /\ kept' = Upsert(kept, Name(NextWrite.key), Cut)
  /\ UNCHANGED <<backend, promise, writes, persists>>

FillFile ==
  /\ truncated
  /\ Put(NextWrite.key, NextWrite.doc)
  /\ writes' = WritesAfter
  /\ truncated' = FALSE
  /\ UNCHANGED <<backend, persists>>

\* The process dies; memory dies with it.
StoreProcessDies ==
  /\ writes # <<>>
  /\ writes' = <<>>
  /\ truncated' = FALSE
  /\ IF backend = "memory"
       THEN kept' = <<>> /\ promise' = <<>>
       ELSE UNCHANGED <<kept, promise>>
  /\ UNCHANGED <<backend, persists>>

\* A new directory, database or process.
OpenNewStore ==
  /\ writes = <<>>
  /\ kept' = <<>>
  /\ promise' = <<>>
  /\ persists' = 0
  /\ UNCHANGED <<backend, writes, truncated>>

StoreNext ==
  \/ \E registry \in Registries : StartRun(registry)
  \/ WriteDocument \/ TruncateFile \/ FillFile
  \/ StoreProcessDies \/ OpenNewStore

StoreSpec == StoreInit /\ [][StoreNext]_storeVars

-----------------------------------------------------------------------------
(* Properties.                                                             *)

(* Whatever the backend makes of the keys, and in the middle of a run and  *)
(* after a run that died too, a lookup, the view and the institution's     *)
(* list answer what the documents written through the interface say, or    *)
(* raise because a file they read is truncated: a row of a withdrawn       *)
(* identifier is never believed (the docstring of find_by_identifier), and *)
(* the file store does what the MongoDB store would (docs/DECISIONS.md).   *)
(* The exception is a row of an old version whose file name is that of     *)
(* another row.                                                            *)

PromisedIn(collection) ==
  {promise[k] : k \in {k \in DOMAIN promise : k.in = collection}}
PromisedFor(value) ==
  LET docs == PromisedIn("canonical_formats") IN
    IF Listing(docs, value) # {}
      THEN Listing(docs, value)
      ELSE OldVersions(docs, PromisedIn("format_identifiers"), value)
SharedName(value) == \E v \in Value \ {value} : Safe(v) = Safe(value)
Found(value) ==
  CASE backend = "memory" -> FindInMemory(value)
    [] backend = "file"   -> FindInFile(value)
    [] backend = "mongo"  -> FindInMongo(value)

StoresAnswerAlike ==
  ~Unreadable("canonical_formats") =>
    /\ MongoView = CurrentIn(PromisedIn("canonical_formats"))
    /\ ~Unreadable("format_identifiers") =>
         \A v \in Value :
           \/ Found(v) = PromisedFor(v)
           \/ backend = "file" /\ SharedName(v)
    /\ ~Unreadable("institution_policy_overlays") =>
         PolicyFormats =
           {d.format : d \in CurrentIn(PromisedIn("canonical_formats"))} \cap
           {o.format : o \in PromisedIn("institution_policy_overlays")}

=============================================================================
