--------------------------- MODULE MCPersistence ---------------------------
(***************************************************************************)
(* An instance for TLC of what the builder keeps outside its process: the  *)
(* snapshots of the source adapters, the registry store, claims made by    *)
(* backfills and the files of the LOC crosswalk.  Each part has state of   *)
(* its own, so a behaviour is that of one part, chosen at the start.       *)
(***************************************************************************)
EXTENDS WikidataAcquisition, NaraAcquisition, RegistryStore,
        CriterionMapping, LocBridge

CONSTANTS wikidata, nara_dpf, store, mappings, crosswalk

VARIABLE part

TwoQueries == <<"direct", "context">>
TwoParts == <<"core", "aliases">>
Overlapping == <<{1, 2, 3}, {1, 2}>>

\* MIME types "text/x-c" and "text/x-c++" share a file name.
SameFileName(value) == IF value = "text/x-c++" THEN "text/x-c" ELSE value
StoredAs(rows, overlay) == [claims |-> rows, overlay |-> overlay]
FourRegistries ==
  {"f1" :> StoredAs({<<"text/x-c", "pronom">>, <<"text/x-c", "loc">>}, TRUE),
   "f1" :> StoredAs({<<"text/plain", "pronom">>}, FALSE),
   "f2" :> StoredAs({<<"text/x-c", "pronom">>, <<"text/x-c++", "pronom">>}, TRUE),
   "f1" :> StoredAs({<<"text/plain", "loc">>}, TRUE) @@
     "f2" :> StoredAs({<<"text/x-c++", "loc">>}, FALSE)}

\* One rule reads the field of LOC records, one the evidence collection.
YesNo == "open" :> "documented" @@ "closed" :> "undocumented"
FieldRule(status) ==
  [id |-> "loc.disclosure", source |-> "loc", status |-> status,
   decidedBy |-> "curator", field |-> "disclosure", related |-> FALSE,
   collection |-> FALSE, values |-> YesNo]
ItemRule ==
  [id |-> "qnl.evidence", source |-> "qnl", status |-> "accepted",
   decidedBy |-> "curator", field |-> "value", related |-> FALSE,
   collection |-> TRUE, values |-> YesNo]
RatingRule == [FieldRule("accepted") EXCEPT !.field = "risk rating"]
ThreeMappings ==
  {{FieldRule("accepted"), ItemRule}, {FieldRule("draft")},
   {FieldRule("accepted"), RatingRule}}

Fdd == <<"loc", "fdd1">>
Row1 == <<"qnl", "row1">>
Row2 == <<"qnl", "row2">>
Refers(record, scope) == [record |-> record, scope |-> scope]
TwoViews ==
  {"f1" :> [refs |-> {Refers(Fdd, "puid_range"), Refers(Row1, "own")},
            items |-> {Item("QNL", "open"), Item("QNL", "closed")}] @@
     "f2" :> [refs |-> {Refers(Fdd, "own")}, items |-> {}],
   "f1" :> [refs |-> {Refers(Fdd, "exact_puid_cross_reference"),
                      Refers(Row2, "own")},
            items |-> {Item(Absent, "closed")}]}
TwoRuns == {Fdd :> "open", Fdd :> "unstated"}
AHumanClaim ==
  [key |-> [format |-> "f1", source |-> "curator", record |-> Absent,
            rule |-> Absent, institution |-> Absent],
   value |-> "documented"]

\* Two FDDs of one PUID, of which one copies it in its own record; a family
\* of several PUIDs; a row with a note and one that mentions no PUID.
Says(fdds, puids, signals, title) ==
  [fddColumn |-> fdds, puidColumn |-> puids, signals |-> signals, title |-> title,
   note |-> signals # {}, blank |-> FALSE]
Crosswalk ==
  "w1" :> Says({"fdd1"}, {"fmt/1"}, {}, "Foo") @@
  "w2" :> Says({"fdd2"}, {"fmt/1"}, {}, "Foo") @@
  "w3" :> Says({"fdd2"}, {"fmt/2"}, {}, "Foo Family") @@
  "w4" :> Says({"fdd2"}, {"fmt/1", "fmt/2"}, {}, "Foo") @@
  "w5" :> Says({"fdd1"}, {"fmt/2"}, {"review"}, "Foo") @@
  "w6" :> Says({"fdd1"}, {}, {"no match"}, "Foo")
TwoEditions == <<{"w1", "w2", "w6"}, {"w1", "w3", "w4", "w5"}>>
Titles == [i \in {"fdd1", "fdd2", "fmt/1", "fmt/2"} |->
             IF i = "fmt/2" THEN "Foo 2" ELSE "Foo"]
Versions == [n \in {"Foo", "Foo 2", "Foo Family"} |->
               IF n = "Foo 2" THEN {"2"} ELSE {}]
Copies == [f \in {"fdd1", "fdd2"} |-> IF f = "fdd2" THEN {"fmt/1"} ELSE {}]
Held(loc, pronom) == [loc |-> loc, pronom |-> pronom]
MayHold == {Held({"fdd1"}, {"fmt/1", "fmt/2"}), Held({"fdd1", "fdd2"}, {}),
            Held({"fdd1", "fdd2"}, {"fmt/1", "fmt/2"})}

Init ==
  /\ part \in {wikidata, nara_dpf, store, mappings, crosswalk}
  /\ CacheInit
  /\ WikidataInit
  /\ NaraInit
  /\ MappingInit /\ (part # mappings => mapping = {FieldRule("draft")})
  /\ IF part = store
       THEN StoreInit
       ELSE backend = "memory" /\ Empty /\ writes = <<>> /\ truncated = FALSE
            /\ persists = 0
  /\ BridgeInit
  /\ part # crosswalk => BridgeStart(Held({"fdd1", "fdd2"}, {}))

Next ==
  /\ UNCHANGED part
  /\ \/ /\ part = wikidata
        /\ WikidataNext
        /\ UNCHANGED <<naraVars, storeVars, mappingVars, bridgeVars>>
     \/ /\ part = nara_dpf
        /\ NaraNext
        /\ UNCHANGED <<wikidataVars, storeVars, mappingVars, bridgeVars>>
     \/ /\ part = store
        /\ StoreNext
        /\ UNCHANGED <<cacheVars, wikidataVars, naraVars, mappingVars, bridgeVars>>
     \/ /\ part = mappings
        /\ MappingNext
        /\ UNCHANGED <<cacheVars, wikidataVars, naraVars, storeVars, bridgeVars>>
     \/ /\ part = crosswalk
        /\ BridgeNext
        /\ UNCHANGED <<cacheVars, wikidataVars, naraVars, storeVars, mappingVars>>

Spec ==
  Init /\ [][Next]_<<part, cacheVars, wikidataVars, naraVars, storeVars,
                     mappingVars, bridgeVars>>

=============================================================================
