------------------------ MODULE IdentificationProofs ------------------------
(***************************************************************************)
(* A request that does not fan out guesses no format, for any documents,   *)
(* texts and limits, and any publications and withdrawals between two      *)
(* reads.                                                                  *)
(*                                                                         *)
(* What was the only best match at any read of the request is among the    *)
(* ids the history keeps (SoleInv); a result that is resolved is about one *)
(* document, which is among these or which the provider chose (FoundInv).  *)
(* The resolution of its id finds no document with another id.             *)
(***************************************************************************)
EXTENDS FormatIdentification, TLAPS, FiniteSetTheorems

-----------------------------------------------------------------------------
(* Exact resolution.                                                       *)

\* A resolution that is resolved is about the only best match.
LEMMA ResolvedIs ==
  ASSUME registry \subseteq Doc, NEW text, IsResolved(Resolve(text))
  PROVE  \E e \in registry :
           Best(registry, text) = {e} /\ Resolve(text).matches = {e}
<1>. DEFINE best == Best(registry, text)
<1>1. best \subseteq registry
  BY DEF Best
<1>2. IsFiniteSet(best)
  <2>1. best \subseteq Doc
    BY <1>1
  <2>. QED
    BY <2>1, IdentificationConstants, FS_Subset
<1>3. /\ Cardinality(best) = 1
      /\ Resolve(text).matches = Shown(best, text)
  BY DEF Resolve, IsResolved, NotFound
<1>. HIDE DEF best
<1>4. PICK e : best = {e}
  BY <1>2, <1>3, FS_Singleton
<1>5. e \in Doc /\ e \in registry
  BY <1>1, <1>4
<1>6. ~Before(e, e, text)
  BY <1>5, IdentificationConstants DEF Before
<1>7. {x \in {e} : Before(x, e, text)} = {}
  BY <1>6
<1>8. Shown({e}, text) = {e}
  BY <1>7, FS_EmptySet, IdentificationConstants DEF Shown
<1>. QED
  BY <1>3, <1>4, <1>5, <1>8 DEF best

\* An id is the id of what it finds.
LEMMA IdFindsItsOwn ==
  ASSUME registry \subseteq Doc, NEW e \in Doc, NEW x \in Best(registry, Id(e))
  PROVE  Id(x) = Id(e)
<1>1. Tier(x, Id(e)) > 0 /\ x \in Doc
  BY DEF Best
<1>2. Id(e) # Id(x) => Tier(x, Id(e)) = 0
  BY <1>1, IdentificationConstants DEF Tier
<1>. QED
  BY <1>1, <1>2

-----------------------------------------------------------------------------
(* What a request knows.                                                   *)

Later == {"identified", "single", "pool", "puids", "fan", "done"}

IsQuery(q) ==
  q = [pc |-> q.pc, kind |-> q.kind, text |-> q.text, ai |-> q.ai, variant |-> q.variant,
       base |-> q.base, candidates |-> q.candidates, todo |-> q.todo,
       assessed |-> q.assessed]

QueryInv ==
  /\ registry \subseteq Doc
  /\ IsQuery(query)
  /\ query.variant \in Nat \ {0}
  /\ query.pc # "none" => query.text \in Text

SoleInv == query.pc # "none" => SoleMatches(registry, query.text) \subseteq sole

BaseInv == query.pc \in {"variants", "provider"} => ~IsResolved(query.base)

FoundInv ==
  query.pc \in Later /\ IsResolved(found) =>
    \E e \in Doc : found.matches = {e} /\ (Id(e) \in sole \/ found.ai = "match")

AnswerInv ==
  /\ answer # Nothing => query.pc = "done"
  /\ NothingIsGuessed

IdentificationInv == QueryInv /\ SoleInv /\ BaseInv /\ FoundInv

LEMMA IdentificationInitInv == IdentificationInit => IdentificationInv /\ AnswerInv
BY DEF IdentificationInit, IdentificationStart, NoQuery, IdentificationInv, QueryInv,
       IsQuery, SoleInv, BaseInv, FoundInv, Later, AnswerInv, NothingIsGuessed

\* What is the only best match of the text, or of a variant of it, is on
\* record as such.
LEMMA SoleIs ==
  ASSUME IdentificationInv, query.pc # "none",
         NEW t \in {query.text} \cup Range(Reads[query.text].variants),
         NEW e \in registry, Best(registry, t) = {e}
  PROVE  Id(e) \in sole
BY DEF IdentificationInv, SoleInv, SoleMatches

LEMMA PublishStep ==
  ASSUME IdentificationInv, NEW d \in Doc, PublishFormat(d) \/ WithdrawFormat(d)
  PROVE  IdentificationInv' /\ UNCHANGED <<query, found, answer>> /\ query.pc # "done"
<1>1. /\ UNCHANGED <<query, found, answer>>
      /\ query.pc \notin {"none", "done"}
      /\ sole' = sole \cup SoleMatches(registry', query.text)
      /\ registry' \subseteq Doc
  BY DEF PublishFormat, WithdrawFormat, Publishing, IdentificationInv, QueryInv
<1>2. QueryInv'
  BY <1>1 DEF IdentificationInv, QueryInv
<1>3. SoleInv'
  BY <1>1 DEF SoleInv, SoleMatches
<1>4. BaseInv'
  BY <1>1 DEF IdentificationInv, BaseInv, IsResolved
<1>5. FoundInv'
  BY <1>1 DEF IdentificationInv, FoundInv, IsResolved
<1>. QED
  BY <1>1, <1>2, <1>3, <1>4, <1>5 DEF IdentificationInv

LEMMA AskAboutStep ==
  ASSUME IdentificationInv, NEW kind, NEW text \in Text, NEW ai, AskAbout(kind, text, ai)
  PROVE  IdentificationInv'
<1>1. query' = [NoQuery EXCEPT !.pc = "exact", !.kind = kind, !.text = text, !.ai = ai]
  BY DEF AskAbout
<1>2. /\ query' = [pc |-> "exact", kind |-> kind, text |-> text, ai |-> ai, variant |-> 1,
                   base |-> Nothing, candidates |-> {}, todo |-> <<>>, assessed |-> {}]
      /\ query'.pc = "exact" /\ query'.text = text /\ query'.variant = 1
  BY <1>1 DEF NoQuery
<1>3. QueryInv'
  <2>1. IsQuery(query')
    BY <1>2 DEF IsQuery
  <2>2. registry' \subseteq Doc
    BY DEF AskAbout, IdentificationInv, QueryInv
  <2>. QED
    BY <1>2, <2>1, <2>2 DEF QueryInv
<1>4. SoleInv'
  BY <1>2 DEF AskAbout, SoleInv, SoleMatches
<1>5. BaseInv' /\ FoundInv'
  BY <1>2 DEF BaseInv, FoundInv, Later
<1>. QED
  BY <1>3, <1>4, <1>5 DEF IdentificationInv

\* A step that reads the registry, or the provider's answer, and moves on.
LEMMA ReadingStep ==
  ASSUME IdentificationInv, query.pc # "none",
         UNCHANGED <<registry, sole>>,
         IsQuery(query'),
         query'.variant \in Nat \ {0}, query'.text = query.text, query'.pc # "none",
         BaseInv', FoundInv'
  PROVE  IdentificationInv'
<1>1. QueryInv'
  BY DEF IdentificationInv, QueryInv
<1>2. SoleInv'
  BY DEF IdentificationInv, SoleInv, SoleMatches
<1>. QED
  BY <1>1, <1>2 DEF IdentificationInv

\* What a resolution identifies is on record.
LEMMA IdentifiedStep ==
  ASSUME IdentificationInv, query.pc # "none", NEW resolution, NEW type, NEW ai,
         Identified(resolution, type, ai), UNCHANGED <<registry, sole>>,
         IsResolved(resolution) =>
           \E e \in Doc : resolution.matches = {e} /\ (Id(e) \in sole \/ ai = "match")
  PROVE  IdentificationInv'
<1>1. /\ found' = [status |-> resolution.status, type |-> type,
                   matches |-> resolution.matches, ai |-> ai,
                   candidates |-> query.candidates, wanted |-> {}]
      /\ query' = [query EXCEPT !.pc = "identified"]
  BY DEF Identified
<1>2. /\ query'.pc = "identified" /\ query'.variant = query.variant
      /\ query'.text = query.text
      /\ IsQuery(query')
  BY <1>1 DEF IdentificationInv, QueryInv, IsQuery
<1>3. found'.status = resolution.status /\ found'.matches = resolution.matches
      /\ found'.ai = ai
  BY <1>1
<1>4. BaseInv' /\ FoundInv'
  BY <1>2, <1>3 DEF BaseInv, FoundInv, IsResolved
<1>. QED
  BY <1>2, <1>4, ReadingStep DEF IdentificationInv, QueryInv

LEMMA ReadExactStep ==
  ASSUME IdentificationInv, ReadExact
  PROVE  IdentificationInv'
<1>. DEFINE resolution == Resolve(query.text)
<1>1. query.pc = "exact" /\ UNCHANGED <<registry, sole>>
  BY DEF ReadExact
<1>2. CASE IsResolved(resolution)
  <2>1. PICK e \in registry : Best(registry, query.text) = {e} /\ resolution.matches = {e}
    BY <1>2, ResolvedIs DEF IdentificationInv, QueryInv
  <2>2. Id(e) \in sole /\ e \in Doc
    BY <1>1, <2>1, SoleIs DEF IdentificationInv, QueryInv
  <2>3. Identified(resolution, resolution.type, "none")
    BY <1>2 DEF ReadExact
  <2>. HIDE DEF resolution
  <2>. QED
    BY <1>1, <2>1, <2>2, <2>3, IdentifiedStep
<1>3. CASE ~IsResolved(resolution)
  <2>1. query' = [query EXCEPT !.pc = "variants", !.base = resolution]
    BY <1>3 DEF ReadExact
  <2>. HIDE DEF resolution
  <2>2. /\ IsQuery(query')
        /\ query'.variant \in Nat \ {0} /\ query'.text = query.text
        /\ query'.pc = "variants" /\ query'.base = resolution
    BY <2>1 DEF IdentificationInv, QueryInv, IsQuery
  <2>3. BaseInv' /\ FoundInv'
    BY <1>3, <2>2 DEF BaseInv, FoundInv, Later, IsResolved
  <2>. QED
    BY <1>1, <2>2, <2>3, ReadingStep
<1>. QED
  BY <1>2, <1>3

LEMMA ReadVariantStep ==
  ASSUME IdentificationInv, ReadVariant
  PROVE  IdentificationInv'
<1>. DEFINE text == Variants[query.variant]
            resolution == Resolve(text)
            base == IF query.base = NotFound THEN resolution ELSE query.base
<1>1. /\ query.pc = "variants" /\ query.text \in Text
      /\ query.variant \in Nat \ {0} /\ query.variant <= Len(Variants)
      /\ UNCHANGED <<registry, sole>>
  BY DEF ReadVariant, IdentificationInv, QueryInv
<1>2. text \in Range(Reads[query.text].variants)
  <2>1. Variants \in Seq(Text) /\ query.variant \in DOMAIN Variants
    BY <1>1, IdentificationConstants DEF Variants
  <2>. QED
    BY <2>1 DEF Range, Variants
<1>3. CASE IsResolved(resolution)
  <2>1. PICK e \in registry : Best(registry, text) = {e} /\ resolution.matches = {e}
    BY <1>3, ResolvedIs DEF IdentificationInv, QueryInv
  <2>2. Id(e) \in sole /\ e \in Doc
    BY <1>1, <1>2, <2>1, SoleIs DEF IdentificationInv, QueryInv
  <2>3. Identified(resolution, resolution.type, "none")
    BY <1>3 DEF ReadVariant
  <2>. HIDE DEF resolution
  <2>. QED
    BY <1>1, <2>1, <2>2, <2>3, IdentifiedStep
<1>4. CASE ~IsResolved(resolution)
  <2>1. query' = [query EXCEPT !.variant = query.variant + 1, !.base = base]
    BY <1>4 DEF ReadVariant, IdentificationInv, QueryInv
  <2>2. ~IsResolved(base)
    BY <1>1, <1>4 DEF IdentificationInv, BaseInv
  <2>. HIDE DEF base
  <2>3. /\ IsQuery(query') /\ query'.variant \in Nat \ {0} /\ query'.text = query.text
        /\ query'.pc = "variants" /\ query'.base = base
    <3>1. query.variant + 1 \in Nat \ {0}
      BY <1>1
    <3>2. IsQuery(query)
      BY DEF IdentificationInv, QueryInv
    <3>. QED
      BY <1>1, <2>1, <3>1, <3>2 DEF IsQuery
  <2>4. BaseInv' /\ FoundInv'
    BY <2>2, <2>3 DEF BaseInv, FoundInv, Later, IsResolved
  <2>. QED
    BY <1>1, <2>3, <2>4, ReadingStep
<1>. QED
  BY <1>3, <1>4

\* Once the variants are exhausted, what is left is not resolved.
LEMMA KeepBaseStep ==
  ASSUME IdentificationInv, KeepBase
  PROVE  IdentificationInv'
<1>1. query.pc = "variants" /\ UNCHANGED <<registry, sole>>
      /\ Identified(query.base, query.base.type, "none")
  BY DEF KeepBase, Exhausted
<1>2. ~IsResolved(query.base)
  BY <1>1 DEF IdentificationInv, BaseInv
<1>. QED
  BY <1>1, <1>2, IdentifiedStep

LEMMA GatherCandidatesStep ==
  ASSUME IdentificationInv, GatherCandidates
  PROVE  IdentificationInv'
<1>. DEFINE candidates == IF query.base.status = "ambiguous"
                            THEN query.base.matches
                            ELSE Shortlist(registry, query.text)
<1>1. /\ query.pc = "variants" /\ UNCHANGED <<registry, sole>>
      /\ query' = [query EXCEPT !.pc = "provider", !.candidates = candidates]
  BY DEF GatherCandidates, Exhausted
<1>2. ~IsResolved(query.base)
  BY <1>1 DEF IdentificationInv, BaseInv
<1>. HIDE DEF candidates
<1>3. /\ IsQuery(query') /\ query'.variant \in Nat \ {0} /\ query'.text = query.text
      /\ query'.pc = "provider" /\ query'.base = query.base
  BY <1>1 DEF IdentificationInv, QueryInv, IsQuery
<1>4. BaseInv' /\ FoundInv'
  BY <1>2, <1>3 DEF BaseInv, FoundInv, Later, IsResolved
<1>. QED
  BY <1>1, <1>3, <1>4, ReadingStep

LEMMA ProviderMatchesStep ==
  ASSUME IdentificationInv, NEW d \in Doc, ProviderMatches(d)
  PROVE  IdentificationInv'
<1>. DEFINE resolution == [status |-> "resolved", matches |-> {d}]
<1>1. /\ query.pc = "provider" /\ UNCHANGED <<registry, sole>>
      /\ Identified(resolution, ByProvider, "match")
  BY DEF ProviderMatches
<1>2. resolution.matches = {d}
  OBVIOUS
<1>. HIDE DEF resolution
<1>. QED
  BY <1>1, <1>2, IdentifiedStep

\* The provider leaves what it is not sure of unresolved.
LEMMA ProviderLeavesStep ==
  ASSUME IdentificationInv,
         \/ \E docs \in SUBSET Doc : ProviderHesitates(docs)
         \/ \E how \in {"error", "match", "no_match"}, docs \in SUBSET Doc :
              ProviderFails(how, docs)
  PROVE  IdentificationInv'
<1>1. /\ query.pc = "provider" /\ UNCHANGED <<registry, sole>>
      /\ query' = [query EXCEPT !.pc = "identified"]
  BY DEF ProviderHesitates, ProviderFails
<1>2. query.base.status # "resolved"
  BY <1>1 DEF IdentificationInv, BaseInv, IsResolved
<1>3. found'.status \in {"ambiguous", query.base.status}
  <2>1. ASSUME NEW docs, ProviderHesitates(docs)
        PROVE  found'.status = "ambiguous"
    BY <2>1 DEF ProviderHesitates
  <2>2. ASSUME NEW how, NEW docs, ProviderFails(how, docs)
        PROVE  found'.status \in {"ambiguous", query.base.status}
    <3>. DEFINE retained == [status |-> query.base.status, type |-> query.base.type,
                             matches |-> query.base.matches, ai |-> how,
                             candidates |-> query.candidates, wanted |-> Ids(docs)]
    <3>1. \/ found' = retained
          \/ \E g : found' = [retained EXCEPT !.status = "ambiguous", !.type = ByVersions,
                                              !.wanted = Ids(g)]
      BY <2>2, Zenon DEF ProviderFails
    <3>2. retained.status = query.base.status
      OBVIOUS
    <3>3. \A g : [retained EXCEPT !.status = "ambiguous", !.type = ByVersions,
                                  !.wanted = Ids(g)].status = "ambiguous"
      OBVIOUS
    <3>. HIDE DEF retained
    <3>. QED
      BY <3>1, <3>2, <3>3
  <2>. QED
    BY <2>1, <2>2
<1>4. /\ IsQuery(query') /\ query'.variant \in Nat \ {0} /\ query'.text = query.text
      /\ query'.pc = "identified"
  BY <1>1 DEF IdentificationInv, QueryInv, IsQuery
<1>5. BaseInv' /\ FoundInv'
  BY <1>2, <1>3, <1>4 DEF BaseInv, FoundInv, IsResolved
<1>. QED
  BY <1>1, <1>4, <1>5, ReadingStep

\* From the identification to the answer a request moves on, whatever it looks
\* up again.
MovedOn ==
  \E pc \in Later : \E todo, assessed :
    query' = [query EXCEPT !.pc = pc, !.todo = todo, !.assessed = assessed]

LEMMA MovedOnIs ==
  ASSUME QueryInv
  PROVE  /\ \A pc \in Later : query' = [query EXCEPT !.pc = pc] => MovedOn
         /\ \A pc \in Later : \A todo :
              query' = [query EXCEPT !.pc = pc, !.todo = todo] => MovedOn
         /\ \A todo, assessed :
              query.pc \in Later /\ query' = [query EXCEPT !.todo = todo, !.assessed = assessed]
                => MovedOn
         /\ \A todo :
              query.pc \in Later /\ query' = [query EXCEPT !.todo = todo] => MovedOn
<1>1. ASSUME NEW pc, NEW todo, NEW assessed
      PROVE  /\ [query EXCEPT !.pc = pc]
                  = [query EXCEPT !.pc = pc, !.todo = query.todo, !.assessed = query.assessed]
             /\ [query EXCEPT !.pc = pc, !.todo = todo]
                  = [query EXCEPT !.pc = pc, !.todo = todo, !.assessed = query.assessed]
             /\ [query EXCEPT !.todo = todo, !.assessed = assessed]
                  = [query EXCEPT !.pc = query.pc, !.todo = todo, !.assessed = assessed]
             /\ [query EXCEPT !.todo = todo]
                  = [query EXCEPT !.todo = todo, !.assessed = query.assessed]
  BY DEF QueryInv, IsQuery
<1>2. ASSUME NEW pc \in Later, query' = [query EXCEPT !.pc = pc] PROVE MovedOn
  <2>1. query' = [query EXCEPT !.pc = pc, !.todo = query.todo, !.assessed = query.assessed]
    BY <1>1, <1>2
  <2>. QED
    BY <2>1 DEF MovedOn
<1>3. ASSUME NEW pc \in Later, NEW todo, query' = [query EXCEPT !.pc = pc, !.todo = todo]
      PROVE  MovedOn
  <2>1. query' = [query EXCEPT !.pc = pc, !.todo = todo, !.assessed = query.assessed]
    BY <1>1, <1>3
  <2>. QED
    BY <2>1 DEF MovedOn
<1>4. ASSUME NEW todo, NEW assessed, query.pc \in Later,
             query' = [query EXCEPT !.todo = todo, !.assessed = assessed]
      PROVE  MovedOn
  <2>1. query' = [query EXCEPT !.pc = query.pc, !.todo = todo, !.assessed = assessed]
    BY <1>1, <1>4
  <2>. QED
    BY <1>4, <2>1 DEF MovedOn
<1>5. ASSUME NEW todo, query.pc \in Later, query' = [query EXCEPT !.todo = todo]
      PROVE  MovedOn
  <2>1. query' = [query EXCEPT !.todo = todo, !.assessed = query.assessed]
    BY <1>1, <1>5
  <2>. QED
    BY <1>4, <1>5, <2>1
<1>. QED
  BY <1>2, <1>3, <1>4, <1>5

LEMMA LaterStep ==
  ASSUME IdentificationInv,
         \/ TakeMachinePath \/ ReportAmbiguity \/ AssessSingle
         \/ TakeHumanPath \/ FillPool \/ SearchFamily \/ IndexPuids
         \/ AssessNext \/ FinishFan
  PROVE  IdentificationInv'
<1>1. query.pc \in Later /\ UNCHANGED <<registry, found, sole>>
  BY DEF TakeMachinePath, ReportAmbiguity, AssessSingle, Answer, TakeHumanPath, FillPool,
         SearchFamily, IndexPuids, AssessNext, FinishFan, Later
<1>2. MovedOn
  <2>. USE MovedOnIs DEF IdentificationInv
  <2>1. CASE TakeMachinePath \/ SearchFamily
    BY <2>1 DEF TakeMachinePath, SearchFamily, Later
  <2>2. CASE ReportAmbiguity \/ AssessSingle \/ FinishFan
    BY <2>2 DEF ReportAmbiguity, AssessSingle, Answer, FinishFan, Later
  <2>3. CASE AssessNext
    BY <1>1, <2>3 DEF AssessNext
  <2>4. CASE FillPool
    BY <1>1, <2>4 DEF FillPool
  <2>5. CASE IndexPuids
    <3>1. \E pc \in {"single", "fan"} : \E todo :
            query' = [query EXCEPT !.pc = pc, !.todo = todo]
      BY <2>5 DEF IndexPuids
    <3>. QED
      BY <3>1 DEF Later
  <2>6. CASE TakeHumanPath
    <3>1. \/ query' = [query EXCEPT !.pc = "single"]
          \/ \E todo : query' = [query EXCEPT !.pc = "pool", !.todo = todo]
      BY <2>6 DEF TakeHumanPath
    <3>. QED
      BY <3>1 DEF Later
  <2>. QED
    BY <2>1, <2>2, <2>3, <2>4, <2>5, <2>6
<1>3. /\ IsQuery(query') /\ query'.variant = query.variant /\ query'.text = query.text
      /\ query'.pc \in Later
  BY <1>2 DEF MovedOn, IdentificationInv, QueryInv, IsQuery
<1>4. BaseInv' /\ FoundInv'
  BY <1>1, <1>3 DEF IdentificationInv, BaseInv, FoundInv, Later, IsResolved
<1>. QED
  BY <1>1, <1>3, <1>4, ReadingStep DEF IdentificationInv, QueryInv, Later

LEMMA IdentificationStep ==
  ASSUME IdentificationInv, [IdentificationNext]_identificationVars
  PROVE  IdentificationInv'
<1>1. CASE UNCHANGED identificationVars
  BY <1>1 DEF identificationVars, IdentificationInv, QueryInv, IsQuery, SoleInv, SoleMatches,
              BaseInv, FoundInv, IsResolved
<1>. QED
  BY <1>1, PublishStep, AskAboutStep, ReadExactStep, ReadVariantStep, KeepBaseStep,
     GatherCandidatesStep, ProviderMatchesStep, ProviderLeavesStep, LaterStep
     DEF IdentificationNext

-----------------------------------------------------------------------------
(* The answer.                                                             *)

\* The one format that is assessed.
LEMMA AssessSingleStep ==
  ASSUME IdentificationInv, AssessSingle
  PROVE  NothingIsGuessed'
<1>. DEFINE resolution == Resolve(Prepared)
<1>1. query.pc = "single" /\ UNCHANGED <<sole, found>>
  BY DEF AssessSingle, Answer
<1>2. \/ IsResolved(resolution) /\ answer' = [status |-> "ok", docs |-> resolution.matches,
                                              fanned |-> FALSE]
      \/ answer'.status = resolution.status /\ ~IsResolved(resolution)
  BY DEF AssessSingle, Answer
<1>3. resolution.status # "ok"
  BY DEF Resolve, NotFound
<1>4. ASSUME IsResolved(resolution)
      PROVE  \A d \in resolution.matches :
               \/ Id(d) \in sole
               \/ found.ai = "match" /\ IsResolved(found) /\ Id(d) = Id(TheMatch(found))
  <2>1. PICK x \in registry : Best(registry, Prepared) = {x} /\ resolution.matches = {x}
    BY <1>4, ResolvedIs DEF IdentificationInv, QueryInv
  <2>2. CASE ~IsResolved(found)
    <3>1. Prepared = query.text
      BY <2>2 DEF Prepared
    <3>2. Id(x) \in sole
      BY <1>1, <2>1, <3>1, SoleIs
    <3>. QED
      BY <2>1, <3>2
  <2>3. CASE IsResolved(found)
    <3>1. PICK e \in Doc : found.matches = {e} /\ (Id(e) \in sole \/ found.ai = "match")
      BY <1>1, <2>3 DEF IdentificationInv, FoundInv, Later
    <3>2. TheMatch(found) = e /\ Prepared = Id(e)
      BY <2>3, <3>1 DEF TheMatch, Prepared
    <3>3. Id(x) = Id(e)
      BY <2>1, <3>2, IdFindsItsOwn DEF IdentificationInv, QueryInv
    <3>. QED
      BY <2>1, <2>3, <3>1, <3>2, <3>3
  <2>. QED
    BY <2>2, <2>3
<1>. HIDE DEF resolution
<1>5. answer'.status = "ok" => IsResolved(resolution) /\ answer'.docs = resolution.matches
  BY <1>2, <1>3
<1>. QED
  BY <1>1, <1>4, <1>5 DEF NothingIsGuessed, IsResolved, TheMatch

LEMMA AnswerStep ==
  ASSUME IdentificationInv, AnswerInv, [IdentificationNext]_identificationVars
  PROVE  AnswerInv'
<1>1. CASE AssessSingle
  <2>1. query'.pc = "done"
    BY <1>1 DEF AssessSingle, Answer, IdentificationInv, QueryInv, IsQuery
  <2>. QED
    BY <1>1, <2>1, AssessSingleStep DEF AnswerInv
<1>2. CASE ReportAmbiguity
  <2>1. query'.pc = "done" /\ answer'.status = "ambiguous"
    BY <1>2 DEF ReportAmbiguity, Answer, IdentificationInv, QueryInv, IsQuery
  <2>. QED
    BY <2>1 DEF AnswerInv, NothingIsGuessed
<1>3. CASE FinishFan
  <2>1. query'.pc = "done" /\ answer'.fanned
    BY <1>3 DEF FinishFan, IdentificationInv, QueryInv, IsQuery
  <2>. QED
    BY <2>1 DEF AnswerInv, NothingIsGuessed
<1>4. CASE UNCHANGED identificationVars
  BY <1>4 DEF identificationVars, AnswerInv, NothingIsGuessed, IsResolved, TheMatch
<1>5. CASE /\ ~AssessSingle /\ ~ReportAmbiguity /\ ~FinishFan
           /\ ~UNCHANGED identificationVars
  <2>1. UNCHANGED answer /\ query.pc # "done"
    <3>1. ASSUME NEW d \in Doc, PublishFormat(d) \/ WithdrawFormat(d)
          PROVE  UNCHANGED answer /\ query.pc # "done"
      BY <3>1, PublishStep
    <3>2. ASSUME NEW kind, NEW text, NEW ai, AskAbout(kind, text, ai)
          PROVE  UNCHANGED answer /\ query.pc # "done"
      BY <3>2 DEF AskAbout
    <3>3. CASE \/ ReadExact \/ ReadVariant \/ KeepBase \/ GatherCandidates
               \/ TakeMachinePath \/ TakeHumanPath \/ FillPool \/ SearchFamily
               \/ IndexPuids \/ AssessNext
      BY <3>3 DEF ReadExact, ReadVariant, KeepBase, GatherCandidates, Exhausted,
           TakeMachinePath, TakeHumanPath, FillPool, SearchFamily, IndexPuids, AssessNext
    <3>4. ASSUME NEW d, \/ ProviderMatches(d) \/ ProviderHesitates(d)
                        \/ \E how \in {"error", "match", "no_match"} : ProviderFails(how, d)
          PROVE  UNCHANGED answer /\ query.pc # "done"
      BY <3>4 DEF ProviderMatches, ProviderHesitates, ProviderFails
    <3>. QED
      BY <1>5, <3>1, <3>2, <3>3, <3>4 DEF IdentificationNext
  <2>. QED
    BY <2>1 DEF AnswerInv, NothingIsGuessed
<1>. QED
  BY <1>1, <1>2, <1>3, <1>4, <1>5

\* The one format a request assesses was the only best match of its text, or
\* the provider was sure of it, whatever the builder publishes and withdraws.
THEOREM NoFormatIsGuessed == IdentificationSpec => []NothingIsGuessed
<1>1. IdentificationInv /\ AnswerInv /\ [IdentificationNext]_identificationVars
        => (IdentificationInv /\ AnswerInv)'
  BY IdentificationStep, AnswerStep
<1>2. AnswerInv => NothingIsGuessed
  BY DEF AnswerInv
<1>. QED
  BY <1>1, <1>2, IdentificationInitInv, PTL DEF IdentificationSpec

=============================================================================
