------------------------ MODULE GovernedClaimsProofs ------------------------
(***************************************************************************)
(* Theorems about GovernedClaims, for any formats, claim sources and       *)
(* rules, any number of jobs and any overlap of them.                      *)
(***************************************************************************)
EXTENDS GovernedClaims, FiniteSetTheorems, TLAPS

-----------------------------------------------------------------------------
LEMMA NoViewType == NoView \in [Format -> Document]
BY DEF NoView, Document

LEMMA RemovedType ==
  ASSUME NEW doc \in Document
  PROVE  [doc EXCEPT !.state = "removed"] \in Document
BY DEF Document

LEMMA AttachedType ==
  ASSUME TypeOK, NEW j \in Job, NEW f \in Format
  PROVE  Base(j, f) \cup On(materialized[j], f) \subseteq Claim
BY DEF TypeOK, Base, On, Document

(* A loop takes what it has written off its list.                          *)
LEMMA TodoShrinks ==
  ASSUME TypeOK, NEW j \in Job, NEW x, todo' = [todo EXCEPT ![j] = @ \ {x}]
  PROVE  todo' \in [Job -> (SUBSET Claim) \cup (SUBSET Format)]
<1>1. todo[j] \ {x} \in (SUBSET Claim) \cup (SUBSET Format)
  BY DEF TypeOK
<1>. QED
  BY <1>1 DEF TypeOK

LEMMA TypeInit == Init => TypeOK
<1>. SUFFICES ASSUME Init PROVE TypeOK
  OBVIOUS
<1>1. claims \in [Claim -> {"absent", "current", "superseded"}]
  BY DEF Init
<1>2. canonical_formats \in [Format -> Document]
  BY DEF Init, Document, On, CurrentClaims
<1>. QED
  BY <1>1, <1>2, NoViewType DEF Init, TypeOK, Kind, Document

LEMMA StartType ==
  ASSUME TypeOK, NEW j \in Job, NEW k \in Kind, NEW proposed \in SUBSET Claim,
         NEW label \in Active, Start(j, k, proposed), Goto(j, label),
         preflight' \in [Job -> SUBSET Claim]
  PROVE  TypeOK'
<1>1. contended' \in [Job -> BOOLEAN]
  BY DEF Start, TypeOK
<1>. QED
  BY <1>1 DEF Start, Goto, TypeOK, store

LEMMA ForgetType ==
  ASSUME TypeOK, NEW j \in Job, Forget(j)
  PROVE  TypeOK'
BY NoViewType DEF Forget, Goto, TypeOK, store, Kind

LEMMA TypeStep == TypeOK /\ [Next]_vars => TypeOK'
<1>. SUFFICES ASSUME TypeOK, [Next]_vars PROVE TypeOK'
  OBVIOUS
<1>1. ASSUME NEW j \in Job, StartRegistryJob(j) PROVE TypeOK'
  <2>1. preflight' \in [Job -> SUBSET Claim]
    BY <1>1 DEF StartRegistryJob, TypeOK
  <2>2. PICK k \in {"pipeline", "rebuild"} : Start(j, k, {})
    BY <1>1 DEF StartRegistryJob
  <2>. QED
    BY <1>1, <2>1, <2>2, StartType DEF StartRegistryJob, Kind, Active
<1>2. ASSUME NEW j \in Job, StartBackfill(j) PROVE TypeOK'
  <2>1. preflight' \in [Job -> SUBSET Claim]
    BY <1>2 DEF StartBackfill, TypeOK
  <2>2. PICK s \in RiskSource :
          \E proposed \in SUBSET [source : {s}, canonical : CurrentIds(canonical_formats),
                                  rule : Rule] : Start(j, s, proposed)
    BY <1>2 DEF StartBackfill
  <2>3. PICK proposed \in SUBSET [source : {s}, canonical : CurrentIds(canonical_formats),
                                  rule : Rule] : Start(j, s, proposed)
    BY <2>2
  <2>4. proposed \subseteq Claim
    BY DEF Claim, ClaimSource, CurrentIds
  <2>. QED
    BY <1>2, <2>1, <2>3, <2>4, StartType DEF StartBackfill, Kind, ClaimSource, Active
<1>3. ASSUME NEW j \in Job, StartRefresh(j) PROVE TypeOK'
  <2>1. preflight' \in [Job -> SUBSET Claim]
    BY <1>3 DEF StartRefresh, TypeOK, ClaimsOf, CurrentClaims
  <2>2. PICK proposed \in SUBSET [source : {Wikidata},
               canonical : CurrentIds(canonical_formats), rule : Rule] :
          Start(j, Wikidata, proposed)
    BY <1>3 DEF StartRefresh
  <2>3. proposed \subseteq Claim
    BY DEF Claim, ClaimSource, CurrentIds
  <2>. QED
    BY <1>3, <2>1, <2>2, <2>3, StartType DEF StartRefresh, Kind, ClaimSource, Active
<1>4. ASSUME NEW j \in Job, RegistryJobStep(j) PROVE TypeOK'
  <2>1. CASE Reconcile(j)
    <3>1. PICK registry \in SUBSET Format :
            /\ touched' = [touched EXCEPT ![j] = registry]
            /\ todo' = [todo EXCEPT ![j] = registry]
      BY <2>1 DEF Reconcile
    <3>2. touched' \in [Job -> SUBSET Format]
      BY <3>1 DEF TypeOK
    <3>3. todo' \in [Job -> (SUBSET Claim) \cup (SUBSET Format)]
      BY <3>1 DEF TypeOK
    <3>4. Attachable(j) \subseteq Claim
      BY DEF Attachable, CurrentClaims
    <3>. QED
      BY <2>1, <3>2, <3>3, <3>4 DEF Reconcile, Goto, TypeOK, store, plan, Active
  <2>2. CASE BeginRemovals(j)
    BY <2>2 DEF BeginRemovals, CurrentIds, Goto, TypeOK, store, plan, Active
  <2>3. CASE MarkRemoved(j)
    <3>1. canonical_formats' \in [Format -> Document]
      <4>1. PICK f \in todo[j] :
              canonical_formats' = [canonical_formats EXCEPT
                ![f] = [view[j][f] EXCEPT !.state = "removed"]]
        BY <2>3 DEF MarkRemoved
      <4>2. f \in Format => [view[j][f] EXCEPT !.state = "removed"] \in Document
        BY RemovedType DEF TypeOK
      <4>. QED
        BY <4>1, <4>2 DEF TypeOK
    <3>2. todo' \in [Job -> (SUBSET Claim) \cup (SUBSET Format)]
      BY <2>3, TodoShrinks DEF MarkRemoved
    <3>. QED
      BY <2>3, <3>1, <3>2 DEF MarkRemoved, TypeOK, plan
  <2>4. CASE EndRemovals(j)
    BY <2>4 DEF EndRemovals, Goto, TypeOK, store, plan, Active
  <2>. QED
    BY <1>4, <2>1, <2>2, <2>3, <2>4 DEF RegistryJobStep
<1>5. ASSUME NEW j \in Job, ClaimJobStep(j) PROVE TypeOK'
  <2>1. CASE ReadAgain(j)
    BY <2>1 DEF ReadAgain, Goto, TypeOK, store, Active
  <2>2. CASE ReadExisting(j)
    <3>1. ClaimsOf(kind[j]) \subseteq Claim
      BY DEF ClaimsOf, CurrentClaims
    <3>2. status' \in [Job -> {"none", "diverged", "completed", "write_failed",
                              "verification_failed"}]
      BY <2>2 DEF ReadExisting, RemovalsAsPlanned, TypeOK
    <3>3. touched' \in [Job -> SUBSET Format]
      BY <2>2 DEF ReadExisting, CurrentIds, TypeOK
    <3>4. todo' \in [Job -> (SUBSET Claim) \cup (SUBSET Format)]
      BY <2>2, <3>1 DEF ReadExisting, TypeOK
    <3>. QED
      BY <2>2, <3>2, <3>3, <3>4 DEF ReadExisting, Goto, TypeOK, store, plan, Active
  <2>3. CASE SupersedeClaim(j)
    <3>1. todo' \in [Job -> (SUBSET Claim) \cup (SUBSET Format)]
      BY <2>3, TodoShrinks DEF SupersedeClaim
    <3>2. claims' \in [Claim -> {"absent", "current", "superseded"}]
      BY <2>3 DEF SupersedeClaim, TypeOK
    <3>. QED
      BY <2>3, <3>1, <3>2 DEF SupersedeClaim, TypeOK, plan
  <2>4. CASE BeginSaveClaims(j)
    BY <2>4 DEF BeginSaveClaims, Goto, TypeOK, store, plan, Active
  <2>5. CASE SaveClaim(j)
    <3>1. todo' \in [Job -> (SUBSET Claim) \cup (SUBSET Format)]
      BY <2>5, TodoShrinks DEF SaveClaim
    <3>2. claims' \in [Claim -> {"absent", "current", "superseded"}]
      BY <2>5 DEF SaveClaim, TypeOK
    <3>. QED
      BY <2>5, <3>1, <3>2 DEF SaveClaim, TypeOK, plan
  <2>6. CASE BeginMaterialize(j)
    <3>1. ClaimsOf(Wikidata) \subseteq Claim
      BY DEF ClaimsOf, CurrentClaims
    <3>. QED
      BY <2>6, <3>1 DEF BeginMaterialize, Goto, TypeOK, store, plan, Active
  <2>7. CASE EndUpserts(j)
    BY <2>7 DEF EndUpserts, Goto, TypeOK, store, plan, Active
  <2>8. CASE Verify(j)
    BY <2>8 DEF Verify, Goto, TypeOK, store, plan, Active
  <2>. QED
    BY <1>5, <2>1, <2>2, <2>3, <2>4, <2>5, <2>6, <2>7, <2>8 DEF ClaimJobStep
<1>6. ASSUME NEW j \in Job, UpsertCanonical(j) PROVE TypeOK'
  <2>1. PICK f \in todo[j] :
          /\ canonical_formats' = [canonical_formats EXCEPT
               ![f] = [state |-> "current",
                       attached |-> Base(j, f) \cup On(materialized[j], f)]]
          /\ todo' = [todo EXCEPT ![j] = @ \ {f}]
    BY <1>6 DEF UpsertCanonical
  <2>2. canonical_formats' \in [Format -> Document]
    BY <2>1, AttachedType DEF TypeOK, Document
  <2>3. todo' \in [Job -> (SUBSET Claim) \cup (SUBSET Format)]
    BY <2>1, TodoShrinks
  <2>. QED
    BY <1>6, <2>2, <2>3 DEF UpsertCanonical, TypeOK, plan
<1>7. ASSUME NEW j \in Job, Finish(j) \/ Crash(j) PROVE TypeOK'
  BY <1>7, ForgetType DEF Finish, Crash
<1>8. CASE UNCHANGED vars
  BY <1>8 DEF vars, TypeOK
<1>. QED
  BY <1>1, <1>2, <1>3, <1>4, <1>5, <1>6, <1>7, <1>8 DEF Next

(* Type correctness of the claim layers and of every job.                  *)
THEOREM TypeCorrect == Spec => []TypeOK
BY TypeInit, TypeStep, PTL DEF Spec

-----------------------------------------------------------------------------
(* What a job holds in memory was claimed, too: the documents it read, the *)
(* claims it attaches and, while it saves claims, those already written.   *)

ViewsWereClaimed ==
  \A j \in Job, f \in Format : \A c \in view[j][f].attached :
    c.canonical = f /\ claims[c] # "absent"

SavedWereClaimed ==
  \A j \in Job : pc[j] = "save" =>
    \A c \in generated[j] \ todo[j] : claims[c] # "absent"

MaterializedWereClaimed ==
  \A j \in Job : \A c \in materialized[j] : claims[c] # "absent"

MemoryWasClaimed ==
  ViewsWereClaimed /\ SavedWereClaimed /\ MaterializedWereClaimed

(* Claims are superseded but never deleted.                                *)
LEMMA ClaimsPersist ==
  ASSUME TypeOK, [Next]_vars
  PROVE  \A c \in Claim : claims[c] # "absent" => claims'[c] # "absent"
<1>1. ASSUME NEW j \in Job, SupersedeClaim(j) \/ SaveClaim(j)
      PROVE  \A c \in Claim : claims[c] # "absent" => claims'[c] # "absent"
  <2>1. PICK d \in todo[j] : \/ claims' = [claims EXCEPT ![d] = "superseded"]
                            \/ claims' = [claims EXCEPT ![d] = "current"]
    BY <1>1 DEF SupersedeClaim, SaveClaim
  <2>. QED
    BY <2>1 DEF TypeOK
<1>2. CASE UNCHANGED claims
  BY <1>2
<1>3. (\E j \in Job : SupersedeClaim(j) \/ SaveClaim(j)) \/ UNCHANGED claims
  BY DEF Next, vars, store, StartRegistryJob, StartBackfill, StartRefresh, Start,
         RegistryJobStep, Reconcile, BeginRemovals, MarkRemoved, EndRemovals,
         ClaimJobStep, ReadAgain, ReadExisting, BeginSaveClaims, BeginMaterialize,
         EndUpserts, Verify, UpsertCanonical, Finish, Crash, Forget
<1>. QED
  BY <1>1, <1>2, <1>3

LEMMA ClaimedInit == Init => AttachedWasClaimed /\ MemoryWasClaimed
BY DEF Init, AttachedWasClaimed, MemoryWasClaimed, ViewsWereClaimed,
       SavedWereClaimed, MaterializedWereClaimed, NoView, On, CurrentClaims

(* The view stays claimed: a document is written from the document a job   *)
(* read and from what it attaches.                                         *)
LEMMA AttachedStep ==
  ASSUME TypeOK, AttachedWasClaimed, MemoryWasClaimed, [Next]_vars
  PROVE  AttachedWasClaimed'
<1>1. \A f \in Format : canonical_formats[f].attached \subseteq Claim
  BY DEF TypeOK, Document
<1>2. CASE UNCHANGED canonical_formats
  BY <1>1, <1>2, ClaimsPersist DEF AttachedWasClaimed
<1>3. ASSUME NEW j \in Job, MarkRemoved(j) PROVE AttachedWasClaimed'
  <2>1. PICK g \in todo[j] :
          canonical_formats' = [canonical_formats EXCEPT
            ![g] = [view[j][g] EXCEPT !.state = "removed"]]
    BY <1>3 DEF MarkRemoved
  <2>2. \A f \in Format : canonical_formats'[f].attached
           \in {canonical_formats[f].attached, view[j][f].attached}
    BY <2>1 DEF TypeOK, Document
  <2>3. UNCHANGED claims
    BY <1>3 DEF MarkRemoved
  <2>. QED
    BY <2>2, <2>3 DEF AttachedWasClaimed, MemoryWasClaimed, ViewsWereClaimed
<1>4. ASSUME NEW j \in Job, UpsertCanonical(j) PROVE AttachedWasClaimed'
  <2>1. PICK g \in todo[j] :
          canonical_formats' = [canonical_formats EXCEPT
            ![g] = [state |-> "current",
                    attached |-> Base(j, g) \cup On(materialized[j], g)]]
    BY <1>4 DEF UpsertCanonical
  <2>2. \A f \in Format : canonical_formats'[f].attached
           \in {canonical_formats[f].attached, Base(j, f) \cup On(materialized[j], f)}
    BY <2>1 DEF TypeOK, Document
  <2>3. \A f \in Format : \A c \in Base(j, f) \cup On(materialized[j], f) :
          c.canonical = f /\ claims[c] # "absent"
    BY DEF Base, On, MemoryWasClaimed, ViewsWereClaimed, MaterializedWereClaimed
  <2>4. UNCHANGED claims
    BY <1>4 DEF UpsertCanonical
  <2>. QED
    BY <2>2, <2>3, <2>4 DEF AttachedWasClaimed
<1>5. \/ UNCHANGED canonical_formats
      \/ \E j \in Job : MarkRemoved(j) \/ UpsertCanonical(j)
  BY DEF Next, vars, store, StartRegistryJob, StartBackfill, StartRefresh, Start,
         RegistryJobStep, Reconcile, BeginRemovals, EndRemovals, ClaimJobStep,
         ReadAgain, ReadExisting, SupersedeClaim, BeginSaveClaims, SaveClaim,
         BeginMaterialize, EndUpserts, Verify, Finish, Crash, Forget
<1>. QED
  BY <1>2, <1>3, <1>4, <1>5

(* What jobs hold stays claimed.                                           *)
LEMMA ViewsStep ==
  ASSUME TypeOK, AttachedWasClaimed, MemoryWasClaimed, [Next]_vars
  PROVE  ViewsWereClaimed'
<1>. DEFINE Claimed(docs) == \A f \in Format : \A c \in docs[f].attached :
                               c.canonical = f /\ claims[c] # "absent"
<1>1. ASSUME NEW j \in Job PROVE Claimed(view'[j])
  <2>1. \/ UNCHANGED view
        \/ \E i \in Job : view' = [view EXCEPT ![i] = canonical_formats]
        \/ \E i \in Job : view' = [view EXCEPT ![i] = NoView]
    <3>1. ASSUME NEW i \in Job, StartRegistryJob(i) \/ StartBackfill(i) \/ StartRefresh(i)
          PROVE  view' = [view EXCEPT ![i] = canonical_formats]
      BY <3>1 DEF StartRegistryJob, StartBackfill, StartRefresh, Start
    <3>2. ASSUME NEW i \in Job, ReadAgain(i)
          PROVE  view' = [view EXCEPT ![i] = canonical_formats] \/ UNCHANGED view
      BY <3>2 DEF ReadAgain
    <3>3. ASSUME NEW i \in Job, Finish(i) \/ Crash(i)
          PROVE  view' = [view EXCEPT ![i] = NoView]
      BY <3>3 DEF Finish, Crash, Forget
    <3>4. ASSUME NEW i \in Job, RegistryJobStep(i) \/ UpsertCanonical(i)
          PROVE  UNCHANGED view
      BY <3>4 DEF RegistryJobStep, Reconcile, BeginRemovals, MarkRemoved, EndRemovals,
                  UpsertCanonical, plan
    <3>5. ASSUME NEW i \in Job,
                 \/ ReadExisting(i) \/ SupersedeClaim(i) \/ BeginSaveClaims(i)
                 \/ SaveClaim(i) \/ BeginMaterialize(i) \/ EndUpserts(i) \/ Verify(i)
          PROVE  UNCHANGED view
      BY <3>5 DEF ReadExisting, SupersedeClaim, BeginSaveClaims, SaveClaim,
                  BeginMaterialize, EndUpserts, Verify, plan
    <3>. QED
      BY <3>1, <3>2, <3>3, <3>4, <3>5 DEF Next, ClaimJobStep, vars
  <2>2. view'[j] \in {view[j], canonical_formats, NoView}
    BY <2>1 DEF TypeOK
  <2>. QED
    BY <2>2 DEF AttachedWasClaimed, MemoryWasClaimed, ViewsWereClaimed, NoView
<1>2. view' \in [Job -> [Format -> Document]]
  BY TypeStep DEF TypeOK
<1>3. \A j \in Job, f \in Format : view'[j][f].attached \subseteq Claim
  BY <1>2 DEF Document
<1>. QED
  BY <1>1, <1>3, ClaimsPersist DEF ViewsWereClaimed

LEMMA SavedStep ==
  ASSUME TypeOK, MemoryWasClaimed, [Next]_vars
  PROVE  SavedWereClaimed'
<1>. SUFFICES ASSUME NEW j \in Job, pc'[j] = "save",
                     NEW c \in generated'[j] \ todo'[j]
              PROVE  claims'[c] # "absent"
  BY DEF SavedWereClaimed
<1>0. c \in Claim
  BY TypeStep DEF TypeOK
<1>1. CASE BeginSaveClaims(j)
  BY <1>1 DEF BeginSaveClaims, plan, TypeOK
<1>2. CASE SaveClaim(j)
  <2>1. PICK d \in todo[j] : /\ claims' = [claims EXCEPT ![d] = "current"]
                             /\ todo' = [todo EXCEPT ![j] = @ \ {d}]
    BY <1>2 DEF SaveClaim
  <2>2. CASE c = d
    BY <1>0, <2>1, <2>2 DEF TypeOK
  <2>3. CASE c # d
    <3>1. c \in generated[j] \ todo[j] /\ pc[j] = "save"
      BY <1>2, <2>1, <2>3 DEF SaveClaim, plan, TypeOK
    <3>. QED
      BY <1>0, <3>1, ClaimsPersist DEF MemoryWasClaimed, SavedWereClaimed
  <2>. QED
    BY <2>2, <2>3
<1>3. CASE pc[j] = "save" /\ generated'[j] = generated[j] /\ todo'[j] = todo[j]
  BY <1>0, <1>3, ClaimsPersist DEF MemoryWasClaimed, SavedWereClaimed
<1>4. \/ BeginSaveClaims(j)
      \/ SaveClaim(j)
      \/ pc[j] = "save" /\ generated'[j] = generated[j] /\ todo'[j] = todo[j]
  <2>1. ASSUME NEW i \in Job,
               StartRegistryJob(i) \/ StartBackfill(i) \/ StartRefresh(i)
        PROVE  pc[j] = "save" /\ generated'[j] = generated[j] /\ todo'[j] = todo[j]
    BY <2>1 DEF TypeOK, StartRegistryJob, StartBackfill, StartRefresh, Start, Goto
  <2>2. ASSUME NEW i \in Job, RegistryJobStep(i)
        PROVE  pc[j] = "save" /\ generated'[j] = generated[j] /\ todo'[j] = todo[j]
    BY <2>2 DEF TypeOK, RegistryJobStep, Reconcile, BeginRemovals, MarkRemoved,
                EndRemovals, Goto, plan
  <2>3. ASSUME NEW i \in Job,
               \/ ReadAgain(i) \/ ReadExisting(i) \/ SupersedeClaim(i)
               \/ BeginMaterialize(i) \/ EndUpserts(i) \/ Verify(i)
        PROVE  pc[j] = "save" /\ generated'[j] = generated[j] /\ todo'[j] = todo[j]
    BY <2>3 DEF TypeOK, ReadAgain, ReadExisting, SupersedeClaim, BeginMaterialize,
                EndUpserts, Verify, Goto, plan
  <2>4. ASSUME NEW i \in Job, UpsertCanonical(i) \/ Finish(i) \/ Crash(i)
        PROVE  pc[j] = "save" /\ generated'[j] = generated[j] /\ todo'[j] = todo[j]
    BY <2>4 DEF TypeOK, UpsertCanonical, Finish, Crash, Forget, Goto, plan
  <2>5. ASSUME NEW i \in Job, i # j, BeginSaveClaims(i) \/ SaveClaim(i)
        PROVE  pc[j] = "save" /\ generated'[j] = generated[j] /\ todo'[j] = todo[j]
    BY <2>5 DEF TypeOK, BeginSaveClaims, SaveClaim, Goto, plan
  <2>. QED
    BY <2>1, <2>2, <2>3, <2>4, <2>5 DEF Next, ClaimJobStep, vars
<1>. QED
  BY <1>1, <1>2, <1>3, <1>4

LEMMA MaterializedStep ==
  ASSUME TypeOK, MemoryWasClaimed, [Next]_vars
  PROVE  MaterializedWereClaimed'
<1>. SUFFICES ASSUME NEW j \in Job, NEW c \in materialized'[j]
              PROVE  claims'[c] # "absent"
  BY DEF MaterializedWereClaimed
<1>0. c \in Claim
  BY TypeStep DEF TypeOK
<1>1. CASE Reconcile(j)
  BY <1>1, <1>0, ClaimsPersist DEF Reconcile, Attachable, CurrentClaims, TypeOK
<1>2. CASE BeginMaterialize(j)
  BY <1>2, <1>0, ClaimsPersist DEF BeginMaterialize, ClaimsOf, CurrentClaims, TypeOK,
     MemoryWasClaimed, SavedWereClaimed
<1>3. CASE c \in materialized[j]
  BY <1>3, <1>0, ClaimsPersist DEF MemoryWasClaimed, MaterializedWereClaimed
<1>4. Reconcile(j) \/ BeginMaterialize(j) \/ c \in materialized[j]
  <2>1. ASSUME NEW i \in Job, i # j, Reconcile(i) \/ BeginMaterialize(i)
        PROVE  c \in materialized[j]
    BY <2>1 DEF Reconcile, BeginMaterialize, TypeOK
  <2>2. ASSUME NEW i \in Job, Finish(i) \/ Crash(i)
        PROVE  c \in materialized[j]
    BY <2>2 DEF Finish, Crash, Forget, TypeOK
  <2>3. ASSUME UNCHANGED materialized PROVE c \in materialized[j]
    BY <2>3
  <2>4. \/ UNCHANGED materialized
        \/ \E i \in Job : \/ Reconcile(i) \/ BeginMaterialize(i)
                          \/ Finish(i) \/ Crash(i)
    BY DEF Next, vars, StartRegistryJob, StartBackfill, StartRefresh, Start,
           RegistryJobStep, BeginRemovals, MarkRemoved, EndRemovals, ClaimJobStep,
           ReadAgain, ReadExisting, SupersedeClaim, BeginSaveClaims, SaveClaim,
           EndUpserts, Verify, UpsertCanonical
  <2>. QED
    BY <2>1, <2>2, <2>3, <2>4
<1>. QED
  BY <1>1, <1>2, <1>3, <1>4

(* What a canonical document carries was claimed, whatever jobs die or     *)
(* overlap: claims are written before they are attached.                   *)
THEOREM AttachmentsAreClaimed == Spec => []AttachedWasClaimed
<1>1. Init => TypeOK /\ AttachedWasClaimed /\ MemoryWasClaimed
  BY TypeInit, ClaimedInit
<1>2. TypeOK /\ AttachedWasClaimed /\ MemoryWasClaimed /\ [Next]_vars
        => (TypeOK /\ AttachedWasClaimed /\ MemoryWasClaimed)'
  BY TypeStep, AttachedStep, ViewsStep, SavedStep, MaterializedStep
     DEF MemoryWasClaimed
<1>. QED
  BY <1>1, <1>2, PTL DEF Spec

-----------------------------------------------------------------------------
(* A job that has the store to itself.  What holds of such a job is kept   *)
(* by its own steps; a step of any other job ends its being alone.         *)

JobStep(j) ==
  \/ StartRegistryJob(j)
  \/ StartBackfill(j)
  \/ StartRefresh(j)
  \/ RegistryJobStep(j)
  \/ ClaimJobStep(j)
  \/ UpsertCanonical(j)
  \/ Finish(j)
  \/ Crash(j)

LEMMA NextIsJobStep == Next <=> \E j \in Job : JobStep(j)
BY DEF Next, JobStep

(* Two jobs that are active at once know that they are contended.          *)
Together ==
  \A i, j \in Job :
    i # j /\ pc[i] \in Active /\ pc[j] \in Active => contended[i]

Starts(q) ==
  /\ pc[q] = "idle"
  /\ contended' = [i \in Job |->
       IF i = q THEN {o \in Job : pc[o] \in Active} # {}
       ELSE contended[i] \/ pc[i] \in Active]

(* A step of job q, as seen from outside.                                  *)
LEMMA StepOutside ==
  ASSUME TypeOK, NEW q \in Job, JobStep(q)
  PROVE  /\ \E label \in {"idle", "over"} \cup Active : pc' = [pc EXCEPT ![q] = label]
         /\ \/ Starts(q)
            \/ /\ pc[q] \in Active /\ pc'[q] = "over"
               /\ contended' = [contended EXCEPT ![q] = FALSE]
            \/ pc[q] \in Active /\ contended' = contended
<1>1. CASE StartRegistryJob(q) \/ StartBackfill(q) \/ StartRefresh(q)
  <2>1. PICK k, proposed : Start(q, k, proposed)
    BY <1>1 DEF StartRegistryJob, StartBackfill, StartRefresh
  <2>2. \E label \in Active : pc' = [pc EXCEPT ![q] = label]
    <3>1. CASE StartRegistryJob(q)
      BY <3>1 DEF StartRegistryJob, Goto, Active
    <3>2. CASE StartBackfill(q)
      BY <3>2 DEF StartBackfill, Goto, Active
    <3>3. CASE StartRefresh(q)
      BY <3>3 DEF StartRefresh, Goto, Active
    <3>. QED
      BY <1>1, <3>1, <3>2, <3>3
  <2>3. pc[q] = "idle" /\ contended' = [i \in Job |->
          IF i = q THEN {o \in Job : pc[o] \in Active} # {}
          ELSE contended[i] \/ i \in {o \in Job : pc[o] \in Active}]
    BY <2>1 DEF Start
  <2>4. Starts(q)
    BY <2>3 DEF Starts
  <2>. QED
    BY <2>2, <2>4
<1>2. CASE RegistryJobStep(q)
  <2>1. pc' = [pc EXCEPT ![q] = pc'[q]] /\ pc'[q] \in Active
    BY <1>2 DEF RegistryJobStep, Reconcile, BeginRemovals, MarkRemoved, EndRemovals,
                Goto, Active, TypeOK
  <2>2. pc[q] \in Active /\ contended' = contended
    BY <1>2 DEF RegistryJobStep, Reconcile, BeginRemovals, MarkRemoved, EndRemovals,
                Active
  <2>. QED
    BY <2>1, <2>2
<1>3. CASE ClaimJobStep(q)
  <2>1. pc' = [pc EXCEPT ![q] = pc'[q]] /\ pc'[q] \in Active
    BY <1>3 DEF ClaimJobStep, ReadAgain, ReadExisting, SupersedeClaim, BeginSaveClaims,
                SaveClaim, BeginMaterialize, EndUpserts, Verify, Goto, Active, TypeOK
  <2>2. pc[q] \in Active /\ contended' = contended
    BY <1>3 DEF ClaimJobStep, ReadAgain, ReadExisting, SupersedeClaim, BeginSaveClaims,
                SaveClaim, BeginMaterialize, EndUpserts, Verify, Active
  <2>. QED
    BY <2>1, <2>2
<1>4. CASE UpsertCanonical(q)
  BY <1>4 DEF UpsertCanonical, Active, TypeOK
<1>5. CASE Finish(q) \/ Crash(q)
  BY <1>5 DEF Finish, Crash, Forget, Goto, Active, TypeOK
<1>. QED
  BY <1>1, <1>2, <1>3, <1>4, <1>5 DEF JobStep

(* It leaves the memory of the other jobs alone.                           *)
LEMMA OthersKeepMemory ==
  ASSUME TypeOK, NEW q \in Job, NEW j \in Job, q # j, JobStep(q)
  PROVE  /\ kind'[j] = kind[j] /\ view'[j] = view[j]
         /\ generated'[j] = generated[j] /\ touched'[j] = touched[j]
         /\ materialized'[j] = materialized[j] /\ todo'[j] = todo[j]
         /\ status'[j] = status[j]
<1>1. CASE StartRegistryJob(q) \/ StartBackfill(q) \/ StartRefresh(q)
  BY <1>1 DEF StartRegistryJob, StartBackfill, StartRefresh, Start, TypeOK
<1>2. CASE RegistryJobStep(q)
  BY <1>2 DEF RegistryJobStep, Reconcile, BeginRemovals, MarkRemoved, EndRemovals,
              plan, TypeOK
<1>3. CASE ReadAgain(q) \/ ReadExisting(q) \/ SupersedeClaim(q) \/ BeginSaveClaims(q)
  BY <1>3 DEF ReadAgain, ReadExisting, RemovalsAsPlanned, SupersedeClaim,
              BeginSaveClaims, plan, TypeOK
<1>4. CASE SaveClaim(q) \/ BeginMaterialize(q) \/ EndUpserts(q) \/ Verify(q)
  BY <1>4 DEF SaveClaim, BeginMaterialize, EndUpserts, Verify, plan, TypeOK
<1>5. CASE UpsertCanonical(q)
  BY <1>5 DEF UpsertCanonical, plan, TypeOK
<1>6. CASE Finish(q) \/ Crash(q)
  BY <1>6 DEF Finish, Crash, Forget, TypeOK
<1>. QED
  BY <1>1, <1>2, <1>3, <1>4, <1>5, <1>6 DEF JobStep, ClaimJobStep

LEMMA TogetherStep ==
  ASSUME TypeOK, Together, NEW q \in Job, JobStep(q)
  PROVE  Together'
<1>. SUFFICES ASSUME NEW i \in Job, NEW j \in Job, i # j,
                     pc'[i] \in Active, pc'[j] \in Active
              PROVE  contended'[i]
  BY DEF Together
<1>1. /\ i # q => pc'[i] = pc[i]
      /\ j # q => pc'[j] = pc[j]
  BY StepOutside DEF TypeOK
<1>2. CASE Starts(q)
  BY <1>1, <1>2 DEF Starts
<1>3. CASE pc'[q] = "over" /\ contended' = [contended EXCEPT ![q] = FALSE]
  <2>1. i # q /\ j # q
    BY <1>3 DEF Active
  <2>2. contended[i]
    BY <1>1, <2>1 DEF Together
  <2>. QED
    BY <1>3, <2>1, <2>2 DEF TypeOK
<1>4. CASE pc[q] \in Active /\ contended' = contended
  BY <1>1, <1>4 DEF Together
<1>. QED
  BY <1>2, <1>3, <1>4, StepOutside

(* Who sees another job step while it is active is contended from then on. *)
LEMMA OthersContend ==
  ASSUME TypeOK, Together, NEW q \in Job, NEW j \in Job, q # j, JobStep(q),
         pc'[j] \in Active
  PROVE  pc'[j] = pc[j] /\ contended'[j]
<1>1. pc'[j] = pc[j]
  BY StepOutside DEF TypeOK
<1>2. CASE Starts(q)
  BY <1>1, <1>2 DEF Starts
<1>3. CASE pc[q] \in Active
  <2>1. contended[j]
    BY <1>1, <1>3 DEF Together
  <2>2. CASE contended' = [contended EXCEPT ![q] = FALSE]
    BY <1>1, <2>1, <2>2 DEF TypeOK
  <2>3. CASE contended' = contended
    BY <1>1, <2>1, <2>3
  <2>. QED
    BY <1>2, <2>2, <2>3, StepOutside
<1>. QED
  BY <1>2, <1>3, StepOutside

(* What a job knows by itself: registry jobs and claim jobs go different   *)
(* ways, a claim job holds claims of its own source only, and those of a   *)
(* refresh are about canonicals that are current in the view it read.      *)
KindFollowed(j) ==
  /\ pc[j] \in {"reconcile", "remove"} => kind[j] \in {"pipeline", "rebuild"}
  /\ pc[j] \in {"reread", "existing", "supersede", "save", "verify"} =>
       kind[j] \in ClaimSource
  /\ pc[j] \in {"reread", "verify"} => kind[j] = Wikidata
  /\ kind[j] \in ClaimSource => \A c \in generated[j] : c.source = kind[j]
  /\ pc[j] = "existing" => Targets(generated[j]) \subseteq CurrentIds(view[j])
  /\ pc[j] # "finish" => status[j] \in {"none", "diverged"}
  /\ status[j] = "completed" => kind[j] = Wikidata

KindInv == \A j \in Job : KindFollowed(j)

LEMMA KindsDiffer == "pipeline" \notin ClaimSource /\ "rebuild" \notin ClaimSource
BY ClaimConstants DEF ClaimSource

LEMMA KindInit == Init => Together /\ KindInv
BY KindsDiffer DEF Init, Together, KindInv, KindFollowed, Active

LEMMA KindOwnStep ==
  ASSUME TypeOK, KindInv, NEW q \in Job, JobStep(q)
  PROVE  KindFollowed(q)'
<1>. USE DEF KindInv, KindFollowed
<1>1. CASE StartRegistryJob(q)
  BY <1>1, KindsDiffer DEF StartRegistryJob, Start, Goto, TypeOK
<1>2. CASE StartBackfill(q)
  <2>1. PICK s \in RiskSource :
          \E proposed \in SUBSET [source : {s}, canonical : CurrentIds(canonical_formats),
                                  rule : Rule] : Start(q, s, proposed)
    BY <1>2 DEF StartBackfill
  <2>2. PICK proposed \in SUBSET [source : {s}, canonical : CurrentIds(canonical_formats),
                                  rule : Rule] : Start(q, s, proposed)
    BY <2>1
  <2>3. /\ kind'[q] = s /\ generated'[q] = proposed /\ view'[q] = canonical_formats
        /\ status'[q] \in {"none", "diverged"} /\ pc'[q] = "existing"
    BY <1>2, <2>2 DEF StartBackfill, Start, Goto, TypeOK
  <2>4. Targets(proposed) \subseteq CurrentIds(canonical_formats)
    BY DEF Targets
  <2>. QED
    BY <2>3, <2>4 DEF ClaimSource, Targets, CurrentIds
<1>3. CASE StartRefresh(q)
  <2>1. PICK proposed \in SUBSET [source : {Wikidata},
               canonical : CurrentIds(canonical_formats), rule : Rule] :
          Start(q, Wikidata, proposed)
    BY <1>3 DEF StartRefresh
  <2>2. /\ kind'[q] = Wikidata /\ generated'[q] = proposed
        /\ status'[q] \in {"none", "diverged"} /\ pc'[q] = "reread"
    BY <1>3, <2>1 DEF StartRefresh, Start, Goto, TypeOK
  <2>. QED
    BY <2>2 DEF ClaimSource
<1>4. CASE RegistryJobStep(q)
  BY <1>4, KindsDiffer DEF RegistryJobStep, Reconcile, BeginRemovals, MarkRemoved,
     EndRemovals, Goto, plan, TypeOK
<1>5. CASE ReadAgain(q)
  BY <1>5 DEF ReadAgain, SameCounts, Goto, Targets, CurrentIds, TypeOK
<1>6. CASE ReadExisting(q)
  BY <1>6 DEF ReadExisting, RemovalsAsPlanned, Goto, plan, TypeOK
<1>7. CASE SupersedeClaim(q) \/ SaveClaim(q)
  BY <1>7 DEF SupersedeClaim, SaveClaim, plan
<1>8. CASE BeginSaveClaims(q) \/ BeginMaterialize(q)
  BY <1>8 DEF BeginSaveClaims, BeginMaterialize, Goto, plan, TypeOK
<1>9. CASE EndUpserts(q) \/ Verify(q)
  BY <1>9 DEF EndUpserts, Verify, Goto, plan, TypeOK
<1>10. CASE UpsertCanonical(q)
  BY <1>10 DEF UpsertCanonical, plan
<1>11. CASE Finish(q) \/ Crash(q)
  BY <1>11, KindsDiffer DEF Finish, Crash, Forget, Goto, TypeOK
<1>. QED
  BY <1>1, <1>2, <1>3, <1>4, <1>5, <1>6, <1>7, <1>8, <1>9, <1>10, <1>11
     DEF JobStep, ClaimJobStep

LEMMA KindStep ==
  ASSUME TypeOK, KindInv, NEW q \in Job, JobStep(q)
  PROVE  KindInv'
<1>1. ASSUME NEW j \in Job, j # q PROVE KindFollowed(j)'
  <2>1. pc'[j] = pc[j]
    BY <1>1, StepOutside DEF TypeOK
  <2>2. /\ kind'[j] = kind[j] /\ view'[j] = view[j]
        /\ generated'[j] = generated[j] /\ status'[j] = status[j]
    BY <1>1, OthersKeepMemory
  <2>. QED
    BY <2>1, <2>2 DEF KindInv, KindFollowed, CurrentIds, Targets
<1>. QED
  BY <1>1, KindOwnStep DEF KindInv

-----------------------------------------------------------------------------
(* A pipeline run that has the store to itself.  The view it read is still *)
(* the view when it begins to write; a document it has written carries the *)
(* current claims, and one it has yet to write or to remove is on its list.*)

Restored(f) == canonical_formats[f].attached = On(CurrentClaims, f)

PipelineAlone(j) ==
  kind[j] = "pipeline" /\ ~contended[j] =>
    /\ pc[j] = "reconcile" => canonical_formats = view[j]
    /\ pc[j] = "upsert" =>
         /\ materialized[j] = CurrentClaims
         /\ \A f \in touched[j] : f \in todo[j] \/ Restored(f)
         /\ \A f \in Format \ touched[j] : canonical_formats[f] = view[j][f]
         /\ todo[j] \subseteq touched[j]
    /\ pc[j] \in {"remove", "finish"} =>
         \A f \in CurrentIds(canonical_formats) :
           (pc[j] = "remove" /\ f \in todo[j]) \/ Restored(f)

LEMMA PipelineOwnStep ==
  ASSUME TypeOK, KindInv, NEW q \in Job, PipelineAlone(q), JobStep(q)
  PROVE  PipelineAlone(q)'
<1>. USE DEF PipelineAlone
<1>0. KindFollowed(q)
  BY DEF KindInv
<1>1. CASE StartRegistryJob(q)
  <2>1. pc'[q] = "reconcile"
    BY <1>1 DEF StartRegistryJob, Goto, TypeOK
  <2>2. view'[q] = canonical_formats /\ canonical_formats' = canonical_formats
    BY <1>1 DEF StartRegistryJob, Start, store, TypeOK
  <2>. QED
    BY <2>1, <2>2
<1>2. CASE StartBackfill(q) \/ StartRefresh(q)
  <2>1. kind'[q] \in ClaimSource
    BY <1>2 DEF StartBackfill, StartRefresh, Start, ClaimSource, TypeOK
  <2>. QED
    BY <2>1, KindsDiffer
<1>3. CASE Reconcile(q)
  <2>1. PICK registry \in SUBSET Format :
          /\ touched' = [touched EXCEPT ![q] = registry]
          /\ todo' = [todo EXCEPT ![q] = registry]
    BY <1>3 DEF Reconcile
  <2>2. /\ touched'[q] = registry /\ todo'[q] = registry /\ pc'[q] = "upsert"
        /\ materialized'[q] = Attachable(q)
    BY <1>3, <2>1 DEF Reconcile, Goto, TypeOK
  <2>3. UNCHANGED <<canonical_formats, claims, kind, view, contended>> /\ pc[q] = "reconcile"
    BY <1>3 DEF Reconcile, store, plan
  <2>. QED
    BY <2>2, <2>3 DEF Attachable, CurrentClaims
<1>4. CASE BeginRemovals(q)
  <2>1. /\ pc[q] = "upsert" /\ pc'[q] = "remove" /\ todo[q] = {}
        /\ todo'[q] = CurrentIds(view[q]) \ touched[q]
        /\ UNCHANGED <<canonical_formats, claims, kind, contended>>
    BY <1>4 DEF BeginRemovals, Goto, store, plan, TypeOK
  <2>2. ASSUME kind[q] = "pipeline", ~contended[q], NEW f \in CurrentIds(canonical_formats)
        PROVE  f \in todo'[q] \/ Restored(f)
    BY <2>1, <2>2 DEF CurrentIds
  <2>. QED
    BY <2>1, <2>2 DEF CurrentIds, Restored, On, CurrentClaims
<1>5. CASE MarkRemoved(q)
  <2>1. PICK g \in todo[q] :
          /\ canonical_formats' = [canonical_formats EXCEPT
               ![g] = [view[q][g] EXCEPT !.state = "removed"]]
          /\ todo' = [todo EXCEPT ![q] = @ \ {g}]
    BY <1>5 DEF MarkRemoved
  <2>2. /\ pc[q] = "remove" /\ pc'[q] = "remove" /\ todo'[q] = todo[q] \ {g}
        /\ UNCHANGED <<claims, kind, contended>>
    BY <1>5, <2>1 DEF MarkRemoved, plan, TypeOK
  <2>3. ASSUME NEW f \in CurrentIds(canonical_formats)'
        PROVE  f # g /\ f \in CurrentIds(canonical_formats)
               /\ canonical_formats'[f] = canonical_formats[f]
    <3>1. f \in Format /\ canonical_formats'[f].state = "current"
      BY <2>3 DEF CurrentIds
    <3>2. CASE f = g
      <4>1. view[q][g] \in Document
        BY <3>1, <3>2 DEF TypeOK
      <4>2. canonical_formats'[g] = [view[q][g] EXCEPT !.state = "removed"]
        BY <2>1, <3>1, <3>2 DEF TypeOK
      <4>. QED
        BY <3>1, <3>2, <4>1, <4>2 DEF Document
    <3>3. CASE f # g
      BY <2>1, <3>1, <3>3 DEF TypeOK, CurrentIds
    <3>. QED
      BY <3>2, <3>3
  <2>. QED
    BY <2>2, <2>3 DEF Restored, On, CurrentClaims
<1>6. CASE EndRemovals(q)
  <2>1. /\ pc[q] = "remove" /\ pc'[q] = "finish" /\ todo[q] = {}
        /\ UNCHANGED <<canonical_formats, claims, kind, contended>>
    BY <1>6 DEF EndRemovals, Goto, store, plan, TypeOK
  <2>. QED
    BY <2>1 DEF Restored, On, CurrentClaims, CurrentIds
<1>7. CASE ClaimJobStep(q)
  <2>1. kind[q] \in ClaimSource
    BY <1>0, <1>7 DEF KindFollowed, ClaimJobStep, ReadAgain, ReadExisting, SupersedeClaim,
       BeginSaveClaims, SaveClaim, BeginMaterialize, EndUpserts, Verify
  <2>2. kind' = kind
    BY <1>7 DEF ClaimJobStep, ReadAgain, ReadExisting, SupersedeClaim, BeginSaveClaims,
       SaveClaim, BeginMaterialize, EndUpserts, Verify, plan
  <2>. QED
    BY <2>1, <2>2, KindsDiffer
<1>8. CASE UpsertCanonical(q)
  <2>1. PICK g \in todo[q] :
          /\ canonical_formats' = [canonical_formats EXCEPT
               ![g] = [state |-> "current",
                       attached |-> Base(q, g) \cup On(materialized[q], g)]]
          /\ todo' = [todo EXCEPT ![q] = @ \ {g}]
    BY <1>8 DEF UpsertCanonical
  <2>2. /\ pc[q] = "upsert" /\ pc'[q] = "upsert" /\ todo'[q] = todo[q] \ {g}
        /\ UNCHANGED <<claims, kind, view, contended, touched, materialized>>
    BY <1>8, <2>1 DEF UpsertCanonical, plan, TypeOK
  <2>. SUFFICES ASSUME kind[q] = "pipeline", ~contended[q] PROVE PipelineAlone(q)'
    BY <2>2
  <2>3. g \in touched[q] /\ g \in Format
    BY <2>2 DEF TypeOK
  <2>4. Restored(g)'
    BY <2>1, <2>2, <2>3 DEF Restored, On, CurrentClaims, Base, TypeOK
  <2>5. \A f \in Format : f # g => canonical_formats'[f] = canonical_formats[f]
    BY <2>1 DEF TypeOK
  <2>6. \A f \in touched[q] : f \in todo'[q] \/ Restored(f)'
    BY <2>2, <2>4, <2>5 DEF Restored, On, CurrentClaims, TypeOK
  <2>. QED
    BY <2>2, <2>3, <2>5, <2>6 DEF CurrentClaims
<1>9. CASE Finish(q) \/ Crash(q)
  BY <1>9 DEF Finish, Crash, Forget, Goto, TypeOK
<1>. QED
  BY <1>1, <1>2, <1>3, <1>4, <1>5, <1>6, <1>7, <1>8, <1>9 DEF JobStep, RegistryJobStep

-----------------------------------------------------------------------------
(* A backfill or refresh that has the store to itself.  What is current of *)
(* its source is still to be superseded or among what it generated, then   *)
(* all of it is, then exactly that.                                        *)

ClaimsAlone(j) ==
  kind[j] \in ClaimSource /\ ~contended[j] =>
    /\ pc[j] = "supersede" => ClaimsOf(kind[j]) \subseteq generated[j] \cup todo[j]
    /\ pc[j] = "save" =>
         /\ todo[j] \subseteq generated[j]
         /\ ClaimsOf(kind[j]) \subseteq generated[j]
         /\ generated[j] \subseteq ClaimsOf(kind[j]) \cup todo[j]
    /\ pc[j] \in {"upsert", "verify", "finish"} =>
         status[j] = "write_failed" \/ ClaimsOf(kind[j]) = generated[j]

LEMMA ClaimsOwnStep ==
  ASSUME TypeOK, KindInv, NEW q \in Job, ClaimsAlone(q), JobStep(q)
  PROVE  ClaimsAlone(q)'
<1>0. KindFollowed(q)
  BY DEF KindInv
<1>1. CASE StartRegistryJob(q) \/ StartBackfill(q) \/ StartRefresh(q)
  <2>1. pc'[q] \in {"reconcile", "existing", "reread"}
    BY <1>1 DEF StartRegistryJob, StartBackfill, StartRefresh, Goto, TypeOK
  <2>. QED
    BY <2>1 DEF ClaimsAlone
<1>2. CASE RegistryJobStep(q)
  <2>1. kind'[q] \notin ClaimSource
    BY <1>0, <1>2, KindsDiffer DEF KindFollowed, RegistryJobStep, Reconcile,
       BeginRemovals, MarkRemoved, EndRemovals, plan
  <2>. QED
    BY <2>1 DEF ClaimsAlone
<1>3. CASE ReadAgain(q)
  <2>1. \/ pc'[q] = "existing"
        \/ pc'[q] = "finish" /\ status'[q] = "write_failed"
    BY <1>3 DEF ReadAgain, Goto, TypeOK
  <2>. QED
    BY <2>1 DEF ClaimsAlone
<1>4. CASE ReadExisting(q)
  <2>1. /\ pc'[q] = "supersede" /\ todo'[q] = ClaimsOf(kind[q]) \ generated[q]
        /\ UNCHANGED <<claims, kind, generated, contended>>
    BY <1>4 DEF ReadExisting, Goto, store, plan, TypeOK
  <2>. QED
    BY <2>1 DEF ClaimsAlone, ClaimsOf, CurrentClaims
<1>5. CASE SupersedeClaim(q)
  <2>1. PICK c \in todo[q] : /\ claims' = [claims EXCEPT ![c] = "superseded"]
                             /\ todo' = [todo EXCEPT ![q] = @ \ {c}]
    BY <1>5 DEF SupersedeClaim
  <2>2. /\ pc[q] = "supersede" /\ pc'[q] = "supersede" /\ todo'[q] = todo[q] \ {c}
        /\ UNCHANGED <<kind, generated, contended>>
    BY <1>5, <2>1 DEF SupersedeClaim, plan, TypeOK
  <2>3. CurrentClaims' \subseteq CurrentClaims \ {c}
    BY <2>1 DEF CurrentClaims, TypeOK
  <2>. QED
    BY <2>2, <2>3 DEF ClaimsAlone, ClaimsOf
<1>6. CASE BeginSaveClaims(q)
  <2>1. /\ pc[q] = "supersede" /\ pc'[q] = "save" /\ todo[q] = {}
        /\ todo'[q] = generated[q]
        /\ UNCHANGED <<claims, kind, generated, contended>>
    BY <1>6 DEF BeginSaveClaims, Goto, store, plan, TypeOK
  <2>. QED
    BY <2>1 DEF ClaimsAlone, ClaimsOf, CurrentClaims
<1>7. CASE SaveClaim(q)
  <2>1. PICK c \in todo[q] : /\ claims' = [claims EXCEPT ![c] = "current"]
                             /\ todo' = [todo EXCEPT ![q] = @ \ {c}]
    BY <1>7 DEF SaveClaim
  <2>2. /\ pc[q] = "save" /\ pc'[q] = "save" /\ todo'[q] = todo[q] \ {c}
        /\ UNCHANGED <<kind, generated, contended>>
    BY <1>7, <2>1 DEF SaveClaim, plan, TypeOK
  <2>. SUFFICES ASSUME kind[q] \in ClaimSource, ~contended[q] PROVE ClaimsAlone(q)'
    BY <2>2 DEF ClaimsAlone
  <2>3. todo[q] \subseteq generated[q] /\ generated[q] \subseteq Claim
    BY <2>2 DEF ClaimsAlone, TypeOK
  <2>4. c \in Claim /\ c.source = kind[q]
    BY <1>0, <2>3 DEF KindFollowed
  <2>5. CurrentClaims' = CurrentClaims \cup {c}
    BY <2>1, <2>4 DEF CurrentClaims, TypeOK
  <2>6. ClaimsOf(kind[q])' = ClaimsOf(kind[q]) \cup {c}
    BY <2>2, <2>4, <2>5 DEF ClaimsOf
  <2>. QED
    BY <2>2, <2>3, <2>6 DEF ClaimsAlone
<1>8. CASE BeginMaterialize(q)
  <2>1. /\ pc[q] = "save" /\ pc'[q] = "upsert" /\ todo[q] = {}
        /\ UNCHANGED <<claims, kind, generated, contended>>
    BY <1>8 DEF BeginMaterialize, Goto, store, plan, TypeOK
  <2>. QED
    BY <2>1 DEF ClaimsAlone, ClaimsOf, CurrentClaims
<1>9. CASE UpsertCanonical(q)
  <2>1. /\ pc[q] = "upsert" /\ pc' = pc /\ status' = status
        /\ UNCHANGED <<claims, kind, generated, contended>>
    BY <1>9 DEF UpsertCanonical, plan
  <2>. QED
    BY <2>1 DEF ClaimsAlone, ClaimsOf, CurrentClaims
<1>10. CASE EndUpserts(q) \/ Verify(q)
  <2>1. /\ pc[q] \in {"upsert", "verify"} /\ pc'[q] \in {"verify", "finish"}
        /\ UNCHANGED <<claims, kind, generated, contended>>
    BY <1>10 DEF EndUpserts, Verify, Goto, store, plan, TypeOK
  <2>2. status[q] # "write_failed"
    BY <1>0, <2>1 DEF KindFollowed
  <2>. QED
    BY <2>1, <2>2 DEF ClaimsAlone, ClaimsOf, CurrentClaims
<1>11. CASE Finish(q) \/ Crash(q)
  BY <1>11, KindsDiffer DEF ClaimsAlone, Finish, Crash, Forget, Goto, TypeOK
<1>. QED
  BY <1>1, <1>2, <1>3, <1>4, <1>5, <1>6, <1>7, <1>8, <1>9, <1>10, <1>11
     DEF JobStep, ClaimJobStep

-----------------------------------------------------------------------------
(* A refresh that has the store to itself.  It writes every canonical one  *)
(* of its edges is about, so that all its edges are attached when it       *)
(* verifies.  Then equal numbers mean that nothing else is attached.       *)

EdgesAttached(j, f) ==
  /\ canonical_formats[f].state = "current"
  /\ On(generated[j], f) \subseteq canonical_formats[f].attached

RefreshAlone(j) ==
  kind[j] = Wikidata /\ ~contended[j] =>
    /\ pc[j] \in {"supersede", "save"} => Targets(generated[j]) \subseteq touched[j]
    /\ pc[j] \in {"upsert", "verify"} =>
         /\ Targets(generated[j]) \subseteq touched[j]
         /\ materialized[j] = generated[j]
         /\ \A f \in touched[j] :
              (pc[j] = "upsert" /\ f \in todo[j]) \/ EdgesAttached(j, f)
    /\ pc[j] = "finish" /\ status[j] = "completed" =>
         AttachedEdges = ClaimsOf(Wikidata)

(* A source has finitely many claims.                                      *)
LEMMA FiniteClaims == IsFiniteSet({c \in Claim : c.source = Wikidata})
<1>. DEFINE W == {c \in Claim : c.source = Wikidata}
            key == [c \in W |-> <<c.canonical, c.rule>>]
<1>1. key \in Injection(W, Format \X Rule)
  <2>1. key \in [W -> Format \X Rule]
    BY DEF Claim
  <2>2. ASSUME NEW a \in W, NEW b \in W, key[a] = key[b] PROVE a = b
    <3>1. a.canonical = b.canonical /\ a.rule = b.rule /\ a.source = b.source
      BY <2>2
    <3>. QED
      BY <3>1 DEF Claim
  <2>. QED
    BY <2>1, <2>2 DEF Injection, IsInjective
<1>2. IsFiniteSet(Format \X Rule)
  BY ClaimConstants, FS_Product
<1>3. IsFiniteSet(W)
  <2>. HIDE DEF W, key
  <2>. QED
    BY <1>1, <1>2, FS_Injection
<1>. QED
  BY <1>3

(* The counts of the verification, where all edges are attached.           *)
LEMMA EqualCounts ==
  ASSUME TypeOK, NEW q \in Job, generated[q] \subseteq AttachedEdges,
         Cardinality(AttachedEdges) = Cardinality(generated[q])
  PROVE  AttachedEdges = generated[q]
<1>1. AttachedEdges \subseteq {c \in Claim : c.source = Wikidata}
  BY DEF AttachedEdges, CurrentIds, TypeOK, Document
<1>2. IsFiniteSet(AttachedEdges)
  BY <1>1, FiniteClaims, FS_Subset
<1>. QED
  BY <1>2, FS_Subset

LEMMA RefreshVerifies ==
  ASSUME TypeOK, KindInv, NEW q \in Job, ClaimsAlone(q), RefreshAlone(q), Verify(q),
         ~contended[q], status'[q] = "completed"
  PROVE  AttachedEdges = ClaimsOf(Wikidata)
<1>1. pc[q] = "verify" /\ kind[q] = Wikidata
  BY DEF Verify, KindInv, KindFollowed
<1>2. Verified(q)
  BY DEF Verify, TypeOK
<1>3. ClaimsOf(Wikidata) = generated[q]
  BY <1>1 DEF ClaimsAlone, ClaimSource, KindInv, KindFollowed
<1>4. \A f \in Targets(generated[q]) : EdgesAttached(q, f)
  BY <1>1 DEF RefreshAlone
<1>5. generated[q] \subseteq AttachedEdges
  <2>1. ASSUME NEW c \in generated[q] PROVE c \in AttachedEdges
    <3>1. c \in Claim /\ c.source = Wikidata
      BY <1>1 DEF KindInv, KindFollowed, ClaimSource, TypeOK
    <3>2. c.canonical \in Format /\ c.canonical \in Targets(generated[q])
      BY <3>1 DEF Claim, Targets
    <3>3. EdgesAttached(q, c.canonical)
      BY <1>4, <3>2
    <3>4. c \in On(generated[q], c.canonical)
      BY DEF On
    <3>. QED
      BY <3>1, <3>2, <3>3, <3>4 DEF EdgesAttached, AttachedEdges, CurrentIds
  <2>. QED
    BY <2>1
<1>. QED
  BY <1>2, <1>3, <1>5, EqualCounts DEF Verified

LEMMA RefreshOwnStep ==
  ASSUME TypeOK, KindInv, NEW q \in Job, ClaimsAlone(q), RefreshAlone(q), JobStep(q)
  PROVE  RefreshAlone(q)'
<1>0. KindFollowed(q)
  BY DEF KindInv
<1>1. CASE StartRegistryJob(q) \/ StartBackfill(q) \/ StartRefresh(q)
  <2>1. pc'[q] \in {"reconcile", "existing", "reread"}
    BY <1>1 DEF StartRegistryJob, StartBackfill, StartRefresh, Goto, TypeOK
  <2>. QED
    BY <2>1 DEF RefreshAlone
<1>2. CASE RegistryJobStep(q)
  <2>1. kind'[q] \notin ClaimSource
    BY <1>0, <1>2, KindsDiffer DEF KindFollowed, RegistryJobStep, Reconcile,
       BeginRemovals, MarkRemoved, EndRemovals, plan
  <2>. QED
    BY <2>1 DEF RefreshAlone, ClaimSource
<1>3. CASE ReadAgain(q)
  <2>1. \/ pc'[q] = "existing"
        \/ pc'[q] = "finish" /\ status'[q] = "write_failed"
    BY <1>3 DEF ReadAgain, Goto, TypeOK
  <2>. QED
    BY <2>1 DEF RefreshAlone
<1>4. CASE ReadExisting(q)
  <2>1. /\ pc[q] = "existing" /\ pc'[q] = "supersede"
        /\ touched'[q] = Targets(generated[q] \cup ClaimsOf(kind[q])) \cap CurrentIds(view[q])
        /\ UNCHANGED generated
    BY <1>4 DEF ReadExisting, Goto, plan, TypeOK
  <2>2. Targets(generated[q]) \subseteq CurrentIds(view[q])
    BY <1>0, <2>1 DEF KindFollowed
  <2>3. Targets(generated[q]) \subseteq touched'[q]
    BY <2>1, <2>2 DEF Targets
  <2>4. Targets(generated[q])' = Targets(generated[q])
    BY <2>1 DEF Targets
  <2>. QED
    BY <2>1, <2>3, <2>4 DEF RefreshAlone
<1>5. CASE SupersedeClaim(q) \/ SaveClaim(q) \/ BeginSaveClaims(q)
  <2>1. /\ pc[q] \in {"supersede", "save"} /\ pc'[q] \in {"supersede", "save"}
        /\ UNCHANGED <<kind, generated, touched, contended>>
    BY <1>5 DEF SupersedeClaim, SaveClaim, BeginSaveClaims, Goto, plan, TypeOK
  <2>. QED
    BY <2>1 DEF RefreshAlone, Targets
<1>6. CASE BeginMaterialize(q)
  <2>1. /\ pc[q] = "save" /\ pc'[q] = "upsert" /\ todo[q] = {} /\ todo'[q] = touched[q]
        /\ kind[q] = Wikidata => materialized'[q] = ClaimsOf(Wikidata)
        /\ UNCHANGED <<kind, generated, touched, contended>>
    BY <1>6 DEF BeginMaterialize, Goto, plan, TypeOK
  <2>. SUFFICES ASSUME kind[q] = Wikidata, ~contended[q] PROVE RefreshAlone(q)'
    BY <2>1 DEF RefreshAlone
  <2>2. ClaimsOf(Wikidata) = generated[q]
    BY <2>1 DEF ClaimsAlone, ClaimSource
  <2>3. Targets(generated[q]) \subseteq touched[q]
    BY <2>1 DEF RefreshAlone
  <2>. QED
    BY <2>1, <2>2, <2>3 DEF RefreshAlone, Targets
<1>7. CASE UpsertCanonical(q)
  <2>1. PICK g \in todo[q] :
          /\ canonical_formats' = [canonical_formats EXCEPT
               ![g] = [state |-> "current",
                       attached |-> Base(q, g) \cup On(materialized[q], g)]]
          /\ todo' = [todo EXCEPT ![q] = @ \ {g}]
    BY <1>7 DEF UpsertCanonical
  <2>2. /\ pc[q] = "upsert" /\ pc'[q] = "upsert" /\ todo'[q] = todo[q] \ {g}
        /\ UNCHANGED <<kind, generated, contended, touched, materialized>>
    BY <1>7, <2>1 DEF UpsertCanonical, plan, TypeOK
  <2>. SUFFICES ASSUME kind[q] = Wikidata, ~contended[q] PROVE RefreshAlone(q)'
    BY <2>2 DEF RefreshAlone
  <2>3. materialized[q] = generated[q]
    BY <2>2 DEF RefreshAlone
  <2>4. ASSUME NEW f \in touched[q] PROVE f \in todo'[q] \/ EdgesAttached(q, f)'
    <3>0. f \in Format
      BY DEF TypeOK
    <3>1. CASE f = g
      BY <2>1, <2>2, <2>3, <3>0, <3>1 DEF EdgesAttached, On, TypeOK
    <3>2. CASE f # g
      <4>1. f \in todo[q] \/ EdgesAttached(q, f)
        BY <2>2 DEF RefreshAlone
      <4>2. canonical_formats'[f] = canonical_formats[f]
        BY <2>1, <3>0, <3>2 DEF TypeOK
      <4>. QED
        BY <2>2, <3>2, <4>1, <4>2 DEF EdgesAttached, On
    <3>. QED
      BY <3>1, <3>2
  <2>. QED
    BY <2>2, <2>3, <2>4 DEF RefreshAlone, Targets
<1>8. CASE EndUpserts(q)
  <2>1. /\ pc[q] = "upsert" /\ todo[q] = {}
        /\ kind[q] = Wikidata => pc'[q] = "verify"
        /\ UNCHANGED <<canonical_formats, kind, generated, touched, materialized, contended>>
    BY <1>8 DEF EndUpserts, Goto, store, plan, TypeOK
  <2>. QED
    BY <2>1 DEF RefreshAlone, EdgesAttached, On, Targets
<1>9. CASE Verify(q)
  <2>1. /\ pc'[q] = "finish"
        /\ UNCHANGED <<canonical_formats, claims, kind, contended>>
    BY <1>9 DEF Verify, Goto, store, plan, TypeOK
  <2>. SUFFICES ASSUME kind[q] = Wikidata, ~contended[q], status'[q] = "completed"
                PROVE  AttachedEdges = ClaimsOf(Wikidata)
    BY <2>1 DEF RefreshAlone, AttachedEdges, CurrentIds, ClaimsOf, CurrentClaims
  <2>. QED
    BY <1>9, RefreshVerifies
<1>10. CASE Finish(q) \/ Crash(q)
  BY <1>10 DEF RefreshAlone, Finish, Crash, Forget, Goto, TypeOK
<1>. QED
  BY <1>1, <1>2, <1>3, <1>4, <1>5, <1>6, <1>7, <1>8, <1>9, <1>10
     DEF JobStep, ClaimJobStep

-----------------------------------------------------------------------------
AloneInv ==
  /\ Together
  /\ KindInv
  /\ \A j \in Job : pc[j] \in Active => PipelineAlone(j) /\ ClaimsAlone(j) /\ RefreshAlone(j)

LEMMA AloneInit == Init => AloneInv
BY KindInit DEF Init, AloneInv, Active

LEMMA AloneStep == TypeOK /\ AloneInv /\ [Next]_vars => AloneInv'
<1>. SUFFICES ASSUME TypeOK, AloneInv, [Next]_vars PROVE AloneInv'
  OBVIOUS
<1>1. ASSUME NEW q \in Job, JobStep(q) PROVE AloneInv'
  <2>1. Together' /\ KindInv'
    BY <1>1, TogetherStep, KindStep DEF AloneInv
  <2>2. PipelineAlone(q)' /\ ClaimsAlone(q)' /\ RefreshAlone(q)'
    <3>1. PipelineAlone(q) /\ ClaimsAlone(q) /\ RefreshAlone(q)
      <4>1. pc[q] \notin Active =>
              pc[q] \notin {"reconcile", "upsert", "remove", "finish", "supersede", "save", "verify"}
        BY DEF Active
      <4>. QED
        BY <4>1 DEF AloneInv, PipelineAlone, ClaimsAlone, RefreshAlone
    <3>. QED
      BY <1>1, <3>1, PipelineOwnStep, ClaimsOwnStep, RefreshOwnStep DEF AloneInv
  <2>3. ASSUME NEW j \in Job, j # q, pc'[j] \in Active
        PROVE  PipelineAlone(j)' /\ ClaimsAlone(j)' /\ RefreshAlone(j)'
    <3>1. contended'[j]
      BY <1>1, <2>3, OthersContend DEF AloneInv
    <3>. QED
      BY <3>1 DEF PipelineAlone, ClaimsAlone, RefreshAlone
  <2>. QED
    BY <2>1, <2>2, <2>3 DEF AloneInv
<1>2. CASE UNCHANGED vars
  BY <1>2 DEF vars, AloneInv, Together, KindInv, KindFollowed, PipelineAlone, Restored,
     ClaimsAlone, RefreshAlone, EdgesAttached, AttachedEdges, CurrentIds, CurrentClaims,
     ClaimsOf, On, Targets
<1>. QED
  BY <1>1, <1>2, NextIsJobStep

LEMMA AloneImplies ==
  TypeOK /\ AloneInv =>
    PipelineRestoresView /\ SourceClaimsReplaced /\ CompletedRefreshIsCoherent
<1>. SUFFICES ASSUME TypeOK, AloneInv
              PROVE  PipelineRestoresView /\ SourceClaimsReplaced
                     /\ CompletedRefreshIsCoherent
  OBVIOUS
<1>1. PipelineRestoresView
  BY DEF AloneInv, PipelineAlone, PipelineRestoresView, Restored, Active
<1>2. SourceClaimsReplaced
  BY DEF AloneInv, ClaimsAlone, SourceClaimsReplaced, Active
<1>3. CompletedRefreshIsCoherent
  <2>. SUFFICES ASSUME NEW j \in Job, pc[j] = "finish", status[j] = "completed",
                       ~contended[j]
                PROVE  AttachedEdges = ClaimsOf(Wikidata)
    BY DEF CompletedRefreshIsCoherent
  <2>1. kind[j] = Wikidata
    BY DEF AloneInv, KindInv, KindFollowed
  <2>. QED
    BY <2>1 DEF AloneInv, RefreshAlone, Active
<1>. QED
  BY <1>1, <1>2, <1>3

LEMMA AloneHolds == Spec => [](TypeOK /\ AloneInv)
<1>1. TypeOK /\ AloneInv /\ [Next]_vars => (TypeOK /\ AloneInv)'
  BY TypeStep, AloneStep
<1>. QED
  BY <1>1, TypeInit, AloneInit, PTL DEF Spec

(* A pipeline run that had the store to itself restores the view from the  *)
(* claims, whatever jobs raced or died before it.                          *)
THEOREM PipelineRestores == Spec => []PipelineRestoresView
BY AloneHolds, AloneImplies, PTL

(* A backfill or refresh that had the store to itself leaves exactly its   *)
(* own claims current for its source.                                      *)
THEOREM ReplacedSource == Spec => []SourceClaimsReplaced
BY AloneHolds, AloneImplies, PTL

(* The counts a refresh compares suffice: one that had the store to itself *)
(* and reports "completed" left exactly the current relationships attached.*)
THEOREM CoherentRefresh == Spec => []CompletedRefreshIsCoherent
BY AloneHolds, AloneImplies, PTL

=============================================================================
