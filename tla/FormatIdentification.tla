------------------------ MODULE FormatIdentification ------------------------
(***************************************************************************)
(* From the text a request names a format by to the formats it assesses.   *)
(*                                                                         *)
(* The text is resolved exactly, then in its normalized variants; what is  *)
(* left unresolved an AI provider may settle, among candidates of the      *)
(* registry only.  A machine request assesses one format or none; a human  *)
(* one fans out over every PUID the identification found plausible.        *)
(* Each step reads the registry anew, and the builder publishes and        *)
(* withdraws documents between any two of them.                            *)
(*                                                                         *)
(* About says of each document what the matchers look at; how text is      *)
(* compared is left to it.  The rank of a document stands for its place in *)
(* the listing and in the order of labels.  A canonical id matches no      *)
(* other field.  The version a candidate shows comes from its document or  *)
(* from its source records.                                                *)
(***************************************************************************)
EXTENDS Integers, Sequences, FiniteSets, SequencesExt

CONSTANTS
  Doc,              \* format documents
  About,            \* their content
  Text,             \* what a request may ask about
  Reads,            \* text -> how it reads: variants, version, PUID or not
  Nothing,          \* no resolution, no identification, no answer
  MatchLimit,       \* AMBIGUOUS_MATCH_LIMIT
  ShortlistLimit,   \* fuzzy_candidate_limit
  RequestLimit,     \* the request's limit
  AssessmentLimit,  \* human_format_assessment_limit
  MaxPublish        \* bound: registry changes during a request

VARIABLES
  registry,   \* the documents that are current
  published,  \* registry changes so far
  query,      \* the request
  found,      \* the identification, or Nothing
  pool,       \* human: documents found plausible, then one per PUID
  answer,     \* the response, or Nothing
  sole        \* history: ids that were the only best match of the text

identificationVars ==
  <<registry, published, query, found, pool, answer, sole>>

Id(d) == About[d].id
Ids(docs) == {Id(d) : d \in docs}

ASSUME IdentificationConstants ==
  /\ IsFiniteSet(Doc) /\ \A d \in Doc : About[d].rank \in Int
  /\ MatchLimit \in Nat \ {0}
  /\ \A t \in Text : Reads[t].variants \in Seq(Text)
  /\ \A d, e \in Doc : Id(d) \in Text => About[e].tier[Id(d)] = 0

NoQuery == [pc |-> "none", kind |-> Nothing, text |-> Nothing, ai |-> FALSE,
            variant |-> 1, base |-> Nothing, candidates |-> {},
            todo |-> <<>>, assessed |-> {}]

IdentificationStart(docs) ==
  /\ registry = docs
  /\ published = 0
  /\ query = NoQuery
  /\ found = Nothing
  /\ pool = {}
  /\ answer = Nothing
  /\ sole = {}

IdentificationInit ==
  \E docs \in SUBSET Doc :
    /\ \A d, e \in docs : Id(d) = Id(e) => d = e
    /\ IdentificationStart(docs)

-----------------------------------------------------------------------------
(* Exact resolution.                                                       *)

\* How strongly a document matches; 0 if not at all.
Tier(d, text) ==
  IF text = Id(d) THEN 100
  ELSE IF text \in Text THEN About[d].tier[text]
  ELSE 0

Best(docs, text) ==
  {d \in docs : /\ Tier(d, text) > 0
                /\ \A e \in docs : Tier(e, text) <= Tier(d, text)}

\* Documents whose names contain the text come first, then listing order.
Named(d, text) == text \in Text /\ About[d].named[text]

Before(d, e, text) ==
  \/ Named(d, text) /\ ~Named(e, text)
  \/ Named(d, text) = Named(e, text) /\ About[d].rank < About[e].rank

Shown(docs, text) ==
  {d \in docs : Cardinality({e \in docs : Before(e, d, text)}) < MatchLimit}

\* What else a resolution can rest on than a tier.
ByProvider == 1
ByVersions == 2

NotFound == [status |-> "not_found", type |-> 0, matches |-> {}]

\* The slip: the first of several best matches is taken.
WrongResolve(text) ==
  LET best == Best(registry, text) IN
    IF best = {} THEN NotFound
    ELSE [status |-> "resolved",
          type |-> Tier(CHOOSE d \in best : TRUE, text),
          matches |-> {d \in best : \A e \in best : ~Before(e, d, text)}]

Resolve(text) ==
  LET best == Best(registry, text) IN
    IF best = {} THEN NotFound
    ELSE [status  |-> IF Cardinality(best) = 1 THEN "resolved" ELSE "ambiguous",
          type    |-> Tier(CHOOSE d \in best : TRUE, text),
          matches |-> Shown(best, text)]

IsResolved(resolution) == resolution.status = "resolved"
TheMatch(resolution) == CHOOSE d \in resolution.matches : TRUE

-----------------------------------------------------------------------------
(* The registry changes.                                                   *)

\* The ids that are the only best match of a text or of a variant of it.
SoleMatches(docs, text) ==
  {Id(d) : d \in {e \in docs :
                    \E t \in {text} \cup Range(Reads[text].variants) :
                      Best(docs, t) = {e}}}

Publishing ==
  /\ query.pc \notin {"none", "done"}
  /\ published < MaxPublish
  /\ published' = published + 1
  /\ sole' = sole \cup SoleMatches(registry', query.text)
  /\ UNCHANGED <<query, found, pool, answer>>

PublishFormat(d) ==
  /\ d \notin registry
  /\ registry' = {e \in registry : Id(e) # Id(d)} \cup {d}
  /\ Publishing

WithdrawFormat(d) ==
  /\ d \in registry
  /\ registry' = registry \ {d}
  /\ Publishing

-----------------------------------------------------------------------------
(* Identification.                                                         *)

AskAbout(kind, text, ai) ==
  /\ query.pc = "none"
  /\ query' = [NoQuery EXCEPT !.pc = "exact", !.kind = kind, !.text = text,
                              !.ai = ai]
  /\ sole' = SoleMatches(registry, text)
  /\ UNCHANGED <<registry, published, found, pool, answer>>

Identified(resolution, type, ai) ==
  /\ found' = [status |-> resolution.status, type |-> type,
               matches |-> resolution.matches, ai |-> ai,
               candidates |-> query.candidates, wanted |-> {}]
  /\ query' = [query EXCEPT !.pc = "identified"]

ReadExact ==
  /\ query.pc = "exact"
  /\ LET resolution == Resolve(query.text) IN
       IF IsResolved(resolution)
         THEN Identified(resolution, resolution.type, "none")
         ELSE /\ query' = [query EXCEPT !.pc = "variants", !.base = resolution]
              /\ UNCHANGED found
  /\ UNCHANGED <<registry, published, pool, answer, sole>>

Variants == Reads[query.text].variants

\* An ambiguous variant stands in for a text that matches nothing.
ReadVariant ==
  /\ query.pc = "variants"
  /\ query.variant <= Len(Variants)
  /\ LET resolution == Resolve(Variants[query.variant]) IN
       IF IsResolved(resolution)
         THEN Identified(resolution, resolution.type, "none")
         ELSE /\ query' =
                   [query EXCEPT
                      !.variant = @ + 1,
                      !.base = IF @ = NotFound THEN resolution ELSE @]
              /\ UNCHANGED found
  /\ UNCHANGED <<registry, published, pool, answer, sole>>

Exhausted == query.pc = "variants" /\ query.variant > Len(Variants)

\* Several documents with one identifier, MIME type or extension are for a
\* person to tell apart; only names and aliases go to the provider.
UnsafeForAI == query.base.status = "ambiguous" /\ query.base.type \notin {85, 50}

KeepBase ==
  /\ Exhausted
  /\ ~query.ai \/ UnsafeForAI
  /\ Identified(query.base, query.base.type, "none")
  /\ UNCHANGED <<registry, published, pool, answer, sole>>

\* The documents most like the text, above the floor.
Shortlist(docs, text) ==
  LET liked == {d \in docs : About[d].score[text] >= Reads[text].floor}
      Ahead(d) == {e \in liked :
                     \/ About[e].score[text] > About[d].score[text]
                     \/ /\ About[e].score[text] = About[d].score[text]
                        /\ About[e].rank < About[d].rank}
  IN
    {d \in liked : Cardinality(Ahead(d)) < ShortlistLimit}

GatherCandidates ==
  /\ Exhausted
  /\ query.ai /\ ~UnsafeForAI
  /\ query' = [query EXCEPT
                 !.pc = "provider",
                 !.candidates = IF query.base.status = "ambiguous"
                                  THEN query.base.matches
                                  ELSE Shortlist(registry, query.text)]
  /\ UNCHANGED <<registry, published, found, pool, answer, sole>>

\* The provider is sure enough of one of the candidates.
ProviderMatches(d) ==
  /\ query.pc = "provider"
  /\ d \in query.candidates
  /\ Identified([status |-> "resolved", matches |-> {d}], ByProvider, "match")
  /\ UNCHANGED <<registry, published, pool, answer, sole>>

ProviderHesitates(docs) ==
  /\ query.pc = "provider"
  /\ docs \subseteq query.candidates
  /\ Cardinality(docs) >= 2
  /\ query' = [query EXCEPT !.pc = "identified"]
  /\ found' = [status |-> "ambiguous", type |-> ByProvider, matches |-> docs,
               ai |-> "ambiguous", candidates |-> query.candidates,
               wanted |-> Ids(docs)]
  /\ UNCHANGED <<registry, published, pool, answer, sole>>

\* The versions of one label the text may mean without saying which.
VersionFamily(docs) ==
  /\ Cardinality(docs) >= 2
  /\ Cardinality({About[d].version : d \in docs}) >= 2
  /\ \A d \in docs : /\ About[d].version \notin {Nothing, Reads[query.text].version}
                     /\ About[d].family[query.text]

VersionFamilies ==
  LET Group(d) == {e \in query.candidates :
                     About[e].label = About[d].label /\ About[e].version # Nothing}
  IN
    {g \in {Group(d) : d \in query.candidates} : VersionFamily(g)}

\* A failure ("error"), a match it is not sure of or that is not among the
\* candidates ("match"), or no match at all: the programmatic result stays,
\* unless the candidates of an answered no-match are versions of one format.
\* What ids the provider listed is kept with the result.
ProviderFails(how, listed) ==
  /\ query.pc = "provider"
  /\ how \in {"error", "match", "no_match"}
  /\ query.candidates = {} => how = "no_match" /\ listed = {}
  /\ how = "error" => listed = {}
  /\ query' = [query EXCEPT !.pc = "identified"]
  /\ LET retained == [status |-> query.base.status, type |-> query.base.type,
                      matches |-> query.base.matches, ai |-> how,
                      candidates |-> query.candidates, wanted |-> Ids(listed)]
         largest == {g \in VersionFamilies :
                       \A h \in VersionFamilies : Cardinality(h) <= Cardinality(g)}
     IN
       IF how = "no_match" /\ query.base = NotFound /\ largest # {}
         THEN \E g \in largest :
                found' = [retained EXCEPT !.status = "ambiguous",
                                          !.type = ByVersions,
                                          !.wanted = Ids(g)]
         ELSE found' = retained
  /\ UNCHANGED <<registry, published, pool, answer, sole>>

-----------------------------------------------------------------------------
(* A machine request, or a human one that does not fan out.                *)

\* An identified document is named by its id from here on.
Prepared == IF IsResolved(found) THEN Id(TheMatch(found)) ELSE query.text

Answer(status, docs) ==
  /\ answer' = [status |-> status, docs |-> docs, fanned |-> FALSE]
  /\ query' = [query EXCEPT !.pc = "done"]
  /\ UNCHANGED <<registry, published, found, pool, sole>>

Ambiguous == found.status = "ambiguous"

ReportAmbiguity ==
  /\ query.pc = "single"
  /\ Ambiguous
  /\ Answer("ambiguous",
            {d \in found.candidates : found.wanted = {} \/ Id(d) \in found.wanted})

\* The text or id is resolved against the registry as it is now.
AssessSingle ==
  /\ query.pc = "single"
  /\ ~Ambiguous
  /\ LET resolution == Resolve(Prepared) IN
       IF IsResolved(resolution)
         THEN Answer("ok", resolution.matches)
         ELSE Answer(resolution.status, resolution.matches)

TakeMachinePath ==
  /\ query.pc = "identified"
  /\ query.kind = "machine"
  /\ query' = [query EXCEPT !.pc = "single"]
  /\ UNCHANGED <<registry, published, found, pool, answer, sole>>

-----------------------------------------------------------------------------
(* A human request: one assessment per PUID.                               *)

Now(ids) == {d \in registry : Id(d) \in ids}

\* What the identification lists as plausible: its matches; without any,
\* the candidates the provider was shown, or those of them that are wanted.
Plausible ==
  IF found.matches # {} THEN Ids(found.matches)
  ELSE IF found.wanted # {} THEN found.wanted \cap Ids(found.candidates)
  ELSE Ids(found.candidates)

\* An explicit PUID does not fan out; otherwise each plausible id is looked
\* up again, and the resolved one once more.
TakeHumanPath ==
  /\ query.pc = "identified"
  /\ query.kind = "human"
  /\ query' = IF Reads[query.text].puid
                THEN [query EXCEPT !.pc = "single"]
                ELSE [query EXCEPT !.pc = "pool",
                                   !.todo = SetToSeq(Plausible) \o
                                     IF IsResolved(found)
                                       THEN <<Id(TheMatch(found))>> ELSE <<>>]
  /\ UNCHANGED <<registry, published, found, pool, answer, sole>>

FillPool ==
  /\ query.pc = "pool"
  /\ query.todo # <<>>
  /\ pool' = pool \cup Now({Head(query.todo)})
  /\ query' = [query EXCEPT !.todo = Tail(@)]
  /\ UNCHANGED <<registry, published, found, answer, sole>>

ShareIdentifier(d, e) ==
  \/ About[d].puids \cap About[e].puids # {}
  \/ About[d].authorityIds \cap About[e].authorityIds # {}

\* Documents with a PUID or a LOC or NARA id in common count once: in the
\* order of preference each is kept unless one kept before shares one.
Deduped(docs) ==
  LET Earlier(d, e) == \/ About[d].preferred > About[e].preferred
                       \/ /\ About[d].preferred = About[e].preferred
                          /\ About[d].rank < About[e].rank
      Keep(kept, d) == IF \E e \in kept : ShareIdentifier(d, e)
                         THEN kept ELSE kept \cup {d}
  IN
    FoldLeft(Keep, {}, SetToSortSeq(docs, Earlier))

\* search_family_docs: the first of the label's kin, by how well they match.
FamilyOf(label) ==
  LET Kin(d) == About[d].kin[label]
      members == Deduped({d \in registry : Kin(d) > 0})
      Ahead(d) == {e \in members : \/ Kin(e) > Kin(d)
                                   \/ /\ Kin(e) = Kin(d)
                                      /\ About[e].rank < About[d].rank}
  IN
    {d \in members : Cardinality(Ahead(d)) < RequestLimit}

\* A name or alias stands for its family, too: for what matches the resolved
\* label in its family or, where it names none, in its names.
SearchFamily ==
  /\ query.pc = "pool"
  /\ query.todo = <<>>
  /\ pool' = pool \cup (IF IsResolved(found) /\ found.type \in {85, 50}
                         THEN FamilyOf(About[TheMatch(found)].label) ELSE {})
  /\ query' = [query EXCEPT !.pc = "puids"]
  /\ UNCHANGED <<registry, published, found, answer, sole>>

Puids(docs) == UNION {About[d].puids : d \in docs}

\* The first puids of the pool, each with the document preferred for it.
Selected ==
  {p \in Puids(pool) : Cardinality({o \in Puids(pool) : o < p}) < RequestLimit}

PreferredFor(p) ==
  LET carriers == {d \in registry : p \in About[d].puids} IN
    {d \in carriers : \A e \in carriers :
       \/ About[d].pronom > About[e].pronom
       \/ About[d].pronom = About[e].pronom /\ About[d].rank >= About[e].rank}

\* The first AssessmentLimit of them are assessed, the rest is reported.
\* Without any, the request goes on like a machine one.
IndexPuids ==
  /\ query.pc = "puids"
  /\ LET matched == {p \in Selected : PreferredFor(p) # {}}
         first == {p \in matched : Cardinality({o \in matched : o < p})
                                      < AssessmentLimit}
         Preferred(p) == Id(CHOOSE d \in PreferredFor(p) : TRUE)
     IN
       query' = [query EXCEPT
                   !.pc = IF matched = {} THEN "single" ELSE "fan",
                   !.todo = [i \in DOMAIN SetToSeq(first) |->
                               Preferred(SetToSeq(first)[i])]]
  /\ pool' = {}
  /\ UNCHANGED <<registry, published, found, answer, sole>>

\* Each is resolved once more, by its id.
AssessNext ==
  /\ query.pc = "fan"
  /\ query.todo # <<>>
  /\ query' = [query EXCEPT !.todo = Tail(@),
                            !.assessed = @ \cup Now({Head(query.todo)})]
  /\ UNCHANGED <<registry, published, found, pool, answer, sole>>

FinishFan ==
  /\ query.pc = "fan"
  /\ query.todo = <<>>
  /\ answer' = [status |-> "ok", docs |-> query.assessed, fanned |-> TRUE]
  /\ query' = [query EXCEPT !.pc = "done"]
  /\ UNCHANGED <<registry, published, found, pool, sole>>

IdentificationNext ==
  \/ \E d \in Doc : PublishFormat(d) \/ WithdrawFormat(d)
  \/ \E k \in {"machine", "human"}, t \in Text, ai \in BOOLEAN : AskAbout(k, t, ai)
  \/ ReadExact \/ ReadVariant \/ KeepBase \/ GatherCandidates
  \/ \E d \in Doc : ProviderMatches(d)
  \/ \E docs \in SUBSET Doc : ProviderHesitates(docs)
  \/ \E how \in {"error", "match", "no_match"}, docs \in SUBSET Doc :
       ProviderFails(how, docs)
  \/ TakeMachinePath \/ ReportAmbiguity \/ AssessSingle
  \/ TakeHumanPath \/ FillPool \/ SearchFamily \/ IndexPuids
  \/ AssessNext \/ FinishFan

IdentificationSpec ==
  IdentificationInit /\ [][IdentificationNext]_identificationVars

-----------------------------------------------------------------------------
(* Properties.                                                             *)

(* Ambiguity is reported instead of guessed: the one format a request that *)
(* does not fan out assesses was, at some moment since it was asked, the   *)
(* only best match of its text or of a variant of it, or is a candidate    *)
(* the provider was sure of, whatever the builder publishes and withdraws  *)
(* between the two resolutions (resolve_format, IdentificationResolver,    *)
(* execute_request).                                                       *)

NothingIsGuessed ==
  answer # Nothing /\ answer.status = "ok" /\ ~answer.fanned =>
    \A d \in answer.docs :
      \/ Id(d) \in sole
      \/ found.ai = "match" /\ IsResolved(found) /\ Id(d) = Id(TheMatch(found))

(* A lookup that identified nothing assesses nothing: if the text matches  *)
(* no format and the provider failed, abstained or found no match, the     *)
(* request keeps its not-found outcome (human_puid_candidates: "Do not     *)
(* invent a family expansion from a failed descriptive lookup").           *)

FailedLookupAssessesNothing ==
  answer # Nothing /\ found.status = "not_found" => ~answer.fanned

=============================================================================
