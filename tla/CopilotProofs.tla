--------------------------- MODULE CopilotProofs ----------------------------
(***************************************************************************)
(* Proofs about the drafts, for every number of passages, questions,       *)
(* drafts and requests.  That drafts are grounded rests on two things:     *)
(* what a draft cites stays what retrieve makes of the passages that were  *)
(* stored then, and what retrieve cuts off ranks below all it keeps.       *)
(***************************************************************************)
EXTENDS Copilot, TLAPS, FiniteSetTheorems, WellFoundedInduction

-----------------------------------------------------------------------------
(* Retrieval: the top_k best of a set of passages with distinct ids *)

IdsDistinct(S) == \A o, p \in S : o.id = p.id => o = p

(* Those that come before p. *)
Above(S, p, q) == {o \in Candidates(S, q) : Outranks(o, p, q)}

LEMMA LeastNatural ==
  ASSUME NEW T \in SUBSET Nat, T # {}
  PROVE  \E m \in T : \A n \in T : m <= n
<1>1. PICK m \in T : \A n \in T : <<n, m>> \notin OpToRel(<, Nat)
  BY WFMin, NatLessThanWellFounded, Zenon
<1>2. \A n \in T : ~(n < m)
  BY <1>1 DEF OpToRel
<1>. QED  BY <1>2

LEMMA Finite ==
  ASSUME NEW S, S \subseteq Passage, IdsDistinct(S)
  PROVE  IsFiniteSet(S) /\ IsFiniteSet(Ids(S)) /\ Cardinality(Ids(S)) = Cardinality(S)
<1>1. IsFiniteSet(Ids(S))
  <2>1. Ids(S) \subseteq 1..MaxPassages
    BY DEF Ids, Passage, PassageIds
  <2>2. IsFiniteSet(1..MaxPassages)
    BY CopilotAssumption, FS_Interval
  <2>. QED  BY <2>1, <2>2, FS_Subset
<1>2. ExistsBijection(Ids(S), S)
  <2> DEFINE f == [i \in Ids(S) |-> CHOOSE p \in S : p.id = i]
  <2>1. \A i \in Ids(S) : f[i] \in S /\ f[i].id = i
    BY DEF Ids
  <2>2. \A p \in S : p.id \in Ids(S) /\ f[p.id] = p
    BY <2>1 DEF Ids, IdsDistinct
  <2>3. f \in [Ids(S) -> S]
    BY <2>1
  <2>4. f \in Injection(Ids(S), S)
    BY <2>1, <2>3, Zenon DEF Injection, IsInjective
  <2>5. f \in Surjection(Ids(S), S)
    BY <2>2, <2>3, Zenon DEF Surjection
  <2>. QED  BY <2>4, <2>5, Zenon DEF ExistsBijection, Bijection
<1>. QED  BY <1>1, <1>2, FS_Bijection

LEMMA ScoreIsNatural ==
  ASSUME NEW p \in Passage, NEW q
  PROVE  Score(p, q) \in Nat
<1>1. IsFiniteSet(p.text.words) /\ q.words \cap p.text.words \in SUBSET p.text.words
  BY CopilotAssumption DEF Passage
<1>. QED  BY <1>1, FS_Subset, FS_CardinalityType DEF Score

(* The sort key of retrieve leaves no ties. *)
LEMMA RankIsStrict ==
  ASSUME NEW q, NEW o \in Passage, NEW p \in Passage
  PROVE  /\ ~ (Outranks(o, p, q) /\ Outranks(p, o, q))
         /\ o.id # p.id => Outranks(o, p, q) \/ Outranks(p, o, q)
         /\ \A r \in Passage : Outranks(r, o, q) /\ Outranks(o, p, q) => Outranks(r, p, q)
<1>1. \A r \in Passage : Score(r, q) \in Nat /\ r.id \in Nat
  BY ScoreIsNatural DEF Passage, PassageIds
<1>. QED  BY <1>1 DEF Outranks

(* The further down, the more come before. *)
LEMMA AboveGrows ==
  ASSUME NEW S, S \subseteq Passage, IdsDistinct(S), NEW q,
         NEW o \in Candidates(S, q), NEW p \in Candidates(S, q)
  PROVE  /\ IsFiniteSet(Above(S, p, q)) /\ Cardinality(Above(S, p, q)) \in Nat
         /\ Outranks(o, p, q) =>
              Cardinality(Above(S, o, q)) < Cardinality(Above(S, p, q))
<1>1. S \in SUBSET Passage /\ Candidates(S, q) \in SUBSET S /\ o \in Passage /\ p \in Passage
  BY DEF Candidates
<1>2. \A r : IsFiniteSet(Above(S, r, q)) /\ Cardinality(Above(S, r, q)) \in Nat
  <2> TAKE r
  <2>1. Above(S, r, q) \in SUBSET S
    BY <1>1 DEF Above
  <2>. QED  BY <2>1, Finite, FS_Subset, FS_CardinalityType
<1>3. ASSUME Outranks(o, p, q)
      PROVE  Cardinality(Above(S, o, q)) < Cardinality(Above(S, p, q))
  <2>1. Above(S, o, q) \in SUBSET Above(S, p, q)
    BY <1>1, <1>3, RankIsStrict DEF Above
  <2>2. o \in Above(S, p, q) /\ o \notin Above(S, o, q)
    BY <1>1, <1>3, RankIsStrict DEF Above
  <2>3. /\ Cardinality(Above(S, o, q)) <= Cardinality(Above(S, p, q))
        /\ Cardinality(Above(S, o, q)) # Cardinality(Above(S, p, q))
    BY <1>2, <2>1, <2>2, FS_Subset
  <2>. QED  BY <1>2, <2>3
<1>. QED  BY <1>2, <1>3

(* At most top_k are kept. *)
LEMMA RetrievesAtMostTopK ==
  ASSUME NEW S, S \subseteq Passage, IdsDistinct(S), NEW q \in Questions
  PROVE  Cardinality(Retrieve(S, q)) <= q.topK
<1> DEFINE C == Candidates(S, q)
           R == Retrieve(S, q)
           n(p) == Cardinality(Above(S, p, q))
<1>k. q.topK \in Nat /\ q.topK >= 1
  BY CopilotAssumption
<1>r. R = {p \in C : n(p) < q.topK}
  BY DEF Retrieve, Above
<1>n. \A p \in C : n(p) \in Nat /\ IsFiniteSet(Above(S, p, q))
  BY AboveGrows
<1>1. CASE R = {}
  BY <1>1, <1>k, FS_EmptySet
<1>2. CASE R # {}
  <2>1. PICK w \in R : \A p \in R : n(p) <= n(w)
    <3> DEFINE T == {q.topK - n(p) : p \in R}
    <3>1. T \in SUBSET Nat /\ T # {}
      BY <1>2, <1>r, <1>n, <1>k
    <3>2. PICK m \in T : \A t \in T : m <= t
      BY <3>1, LeastNatural
    <3>3. PICK w \in R : m = q.topK - n(w)
      BY <3>2
    <3>4. \A p \in R : q.topK - n(w) <= q.topK - n(p)
      BY <3>2, <3>3
    <3>5. \A p \in R : n(p) <= n(w)
      BY <3>4, <1>r, <1>n, <1>k
    <3>. QED  BY <3>5
  <2>2. \A p \in R \ {w} : Outranks(p, w, q)
    <3> TAKE p \in R \ {w}
    <3>1. p \in C /\ w \in C /\ p \in S /\ w \in S /\ p \in Passage /\ w \in Passage
      BY <1>r DEF Candidates
    <3>2. ~ Outranks(w, p, q)
      BY <3>1, <2>1, <1>n, AboveGrows
    <3>3. p.id # w.id
      BY <3>1 DEF IdsDistinct
    <3>. QED  BY <3>1, <3>2, <3>3, RankIsStrict
  <2>3. R \ {w} \in SUBSET Above(S, w, q)
    BY <2>2, <1>r DEF Above
  <2>4. IsFiniteSet(R \ {w}) /\ Cardinality(R \ {w}) <= n(w)
    BY <2>3, <1>n, <1>r, FS_Subset
  <2>5. IsFiniteSet(R) /\ Cardinality(R \ {w}) = Cardinality(R) - 1
    <3>1. R \in SUBSET S
      BY DEF Retrieve, Candidates
    <3>2. IsFiniteSet(R)
      BY <3>1, Finite, FS_Subset
    <3>. QED  BY <3>2, FS_RemoveElement
  <2>. QED  BY <2>4, <2>5, <1>r, <1>n, <1>k, FS_CardinalityType
<1>. QED  BY <1>1, <1>2

(* What is cut off was cut off by top_k better ones. *)
LEMMA RetrievesTheBest ==
  ASSUME NEW S, S \subseteq Passage, IdsDistinct(S), NEW q \in Questions,
         NEW missed \in Candidates(S, q), missed \notin Retrieve(S, q)
  PROVE  /\ Cardinality(Retrieve(S, q)) = q.topK
         /\ \A o \in Retrieve(S, q) : Outranks(o, missed, q)
<1> DEFINE C == Candidates(S, q)
           R == Retrieve(S, q)
           n(p) == Cardinality(Above(S, p, q))
<1>k. q.topK \in Nat
  BY CopilotAssumption
<1>r. R = {p \in C : n(p) < q.topK}
  BY DEF Retrieve, Above
<1>n. \A p \in C : n(p) \in Nat /\ IsFiniteSet(Above(S, p, q))
  BY AboveGrows
<1>f. IsFiniteSet(R)
  <2>1. R \in SUBSET S
    BY DEF Retrieve, Candidates
  <2>. QED  BY <2>1, Finite, FS_Subset
<1>1. PICK b \in C \ R : \A p \in C \ R : n(b) <= n(p)
  <2> DEFINE T == {n(p) : p \in C \ R}
  <2>1. T \in SUBSET Nat /\ T # {}
    BY <1>n
  <2>2. PICK m \in T : \A t \in T : m <= t
    BY <2>1, LeastNatural
  <2>. QED  BY <2>2
<1>2. Above(S, b, q) \in SUBSET R
  <2> SUFFICES ASSUME NEW o \in Above(S, b, q)
               PROVE  o \in R
    OBVIOUS
  <2>1. o \in C /\ n(o) < n(b)
    BY AboveGrows DEF Above
  <2>. QED  BY <2>1, <1>1, <1>n
<1>3. q.topK <= n(b)
  BY <1>r, <1>n, <1>k
<1>4. n(b) <= Cardinality(R)
  BY <1>2, <1>f, FS_Subset
<1>5. Cardinality(R) = q.topK
  BY <1>3, <1>4, <1>k, <1>n, <1>f, FS_CardinalityType, RetrievesAtMostTopK
<1>6. ASSUME NEW o \in R
      PROVE  Outranks(o, missed, q)
  <2>1. o \in C /\ o # missed /\ n(o) < n(missed)
    BY <1>r, <1>n, <1>k
  <2>2. o \in S /\ missed \in S /\ o \in Passage /\ missed \in Passage
    BY <2>1 DEF Candidates
  <2>3. o.id # missed.id
    BY <2>1, <2>2 DEF IdsDistinct
  <2>4. ~ Outranks(missed, o, q)
    BY <2>1, <1>n, AboveGrows
  <2>. QED  BY <2>2, <2>3, <2>4, RankIsStrict
<1>. QED  BY <1>5, <1>6

-----------------------------------------------------------------------------
(* The inductive invariant *)

At(ids) == {p \in knowledge : p.id \in ids}

(* What was retrieved is what retrieve makes of the passages stored then. *)
Remembers(q, ids, known) ==
  /\ known \subseteq Ids(knowledge)
  /\ ids = Ids(Retrieve(At(known), q))

ClerkRemembers(c) ==
  /\ clerk[c].pc \in {"generate", "store"} =>
       Remembers(clerk[c].question, clerk[c].matches, clerk[c].known)
  /\ clerk[c].pc = "store" =>
       clerk[c].answer \in GenerateWithFallback(BuildGenerator, clerk[c].matches)
  /\ clerk[c].pc = "decide" => clerk[c].draft \in Ids(drafts)

DraftRemembers(d) ==
  /\ Remembers(d.question, d.citations, d.known)
  /\ d.answer \in GenerateWithFallback(BuildGenerator, d.citations)

(* A verdict is on a draft that is decided. *)
VerdictsDecide == \A v \in verdicts : \E d \in drafts : d.id = v.draft /\ d.status # "pending"

CopilotIInv ==
  /\ CopilotTypeOK
  /\ IdsDistinct(knowledge)
  /\ IdsDistinct(drafts)
  /\ \A c \in Clerks : ClerkRemembers(c)
  /\ \A d \in drafts : DraftRemembers(d)
  /\ VerdictsDecide

-----------------------------------------------------------------------------
ClerkKinds == {ClerkIdle} \cup Retrieved \cup Generated \cup Deciding

LEMMA ClerkKind ==
  ASSUME CopilotTypeOK, NEW c \in Clerks
  PROVE  /\ clerk[c].pc \in {"idle", "generate", "store", "decide"}
         /\ clerk[c].pc = "idle" <=> clerk[c] = ClerkIdle
         /\ clerk[c].pc = "generate" => clerk[c] \in Retrieved
         /\ clerk[c].pc = "store" => clerk[c] \in Generated
         /\ clerk[c].pc = "decide" => clerk[c] \in Deciding
<1>1. clerk[c] \in ClerkKinds
  BY DEF CopilotTypeOK, ClerkKinds
<1>2. CASE clerk[c] = ClerkIdle
  BY <1>2 DEF ClerkIdle
<1>3. CASE clerk[c] \in Retrieved
  BY <1>3 DEF Retrieved, ClerkIdle
<1>4. CASE clerk[c] \in Generated
  BY <1>4 DEF Generated, ClerkIdle
<1>5. CASE clerk[c] \in Deciding
  BY <1>5 DEF Deciding, ClerkIdle
<1>. QED  BY <1>1, <1>2, <1>3, <1>4, <1>5 DEF ClerkKinds

(* A step that sets one clerk. *)
LEMMA OneClerk ==
  ASSUME CopilotTypeOK, NEW c \in Clerks, NEW m \in ClerkKinds,
         clerk' = [clerk EXCEPT ![c] = m]
  PROVE  /\ clerk' \in [Clerks -> ClerkKinds]
         /\ clerk'[c] = m
         /\ \A b \in Clerks : b # c => clerk'[b] = clerk[b]
BY DEF CopilotTypeOK, ClerkKinds

LEMMA IdlingFits ==
  ClerkIdle \in ClerkKinds /\ ClerkIdle.pc = "idle"
BY DEF ClerkKinds, ClerkIdle

LEMMA RetrieveStored ==
  ASSUME NEW S, S \subseteq Passage, NEW q
  PROVE  Retrieve(S, q) \subseteq S /\ Ids(Retrieve(S, q)) \subseteq PassageIds
<1>1. Retrieve(S, q) \subseteq S
  BY DEF Retrieve, Candidates
<1>. QED  BY <1>1 DEF Ids, Passage

(* Both generators answer, with the matches as their context, and refuse without one. *)
LEMMA AnswersAreResults ==
  ASSUME NEW g \in Generators, NEW matches \in SUBSET PassageIds,
         NEW answer \in GenerateWithFallback(g, matches)
  PROVE  /\ answer \in Result
         /\ answer.context = matches
         /\ matches = {} => answer.refusal
         /\ answer.refusal /\ matches # {} => answer.generator = "hosted"
         /\ answer.degraded => g = "hosted"
         /\ answer.generator # g => answer.degraded
<1>1. CASE matches = {}
  <2>1. answer = RefusalText(g)
    BY <1>1 DEF GenerateWithFallback
  <2>. QED  BY <1>1, <2>1 DEF RefusalText, Result, Generators
<1>2. CASE matches # {} /\ g = "deterministic"
  <2>1. answer = Stitched(matches, FALSE)
    BY <1>2 DEF GenerateWithFallback
  <2>. QED  BY <1>2, <2>1 DEF Stitched, Result, Generators
<1>3. CASE matches # {} /\ g # "deterministic"
  <2>1. g = "hosted"
    BY <1>3 DEF Generators
  <2>2. answer \in Completions(matches) \/ answer = Stitched(matches, TRUE)
    BY <1>3 DEF GenerateWithFallback
  <2>3. CASE answer \in Completions(matches)
    BY <1>3, <2>1, <2>3 DEF Completions, Result, Generators
  <2>4. CASE answer = Stitched(matches, TRUE)
    BY <1>3, <2>1, <2>4 DEF Stitched, Result, Generators
  <2>. QED  BY <2>2, <2>3, <2>4
<1>. QED  BY <1>1, <1>2, <1>3

LEMMA BuildsAGenerator == BuildGenerator \in Generators
BY DEF BuildGenerator, Generators

LEMMA CopilotInitInv == CopilotInit => CopilotIInv
BY DEF CopilotInit, CopilotIInv, CopilotTypeOK, IdsDistinct, ClerkRemembers, VerdictsDecide,
       ClerkIdle

-----------------------------------------------------------------------------
(* A new passage has an id none of those known before have. *)
LEMMA IngestInv ==
  ASSUME CopilotIInv, NEW text \in Passages, Ingest(text)
  PROVE  CopilotIInv'
<1>1. PICK i \in PassageIds \ Ids(knowledge) :
        knowledge' = knowledge \cup {[id |-> i, text |-> text]}
  BY DEF Ingest
<1>u. UNCHANGED <<settings, drafts, clerk, verdicts>>
  BY DEF Ingest
<1>2. CopilotTypeOK'
  <2>1. [id |-> i, text |-> text] \in Passage
    BY <1>1 DEF Passage
  <2>. QED  BY <1>1, <1>u, <2>1 DEF CopilotIInv, CopilotTypeOK
<1>3. IdsDistinct(knowledge)'
  BY <1>1 DEF CopilotIInv, IdsDistinct, Ids
<1>4. ASSUME NEW q, NEW ids, NEW known, Remembers(q, ids, known)
      PROVE  Remembers(q, ids, known)'
  <2>1. known \subseteq Ids(knowledge) /\ i \notin known
    BY <1>1, <1>4 DEF Remembers
  <2>2. At(known)' = At(known)
    BY <1>1, <2>1 DEF At
  <2>3. known \subseteq Ids(knowledge')
    BY <1>1, <2>1 DEF Ids
  <2>. QED  BY <1>4, <2>2, <2>3 DEF Remembers
<1>5. \A c \in Clerks : ClerkRemembers(c)'
  BY <1>u, <1>4 DEF CopilotIInv, ClerkRemembers, BuildGenerator
<1>6. \A d \in drafts : DraftRemembers(d)'
  BY <1>u, <1>4 DEF CopilotIInv, DraftRemembers, BuildGenerator
<1>. QED  BY <1>u, <1>2, <1>3, <1>5, <1>6 DEF CopilotIInv, IdsDistinct, VerdictsDecide

(* The steps of one clerk that leave knowledge and drafts alone. *)
LEMMA ClerkStepInv ==
  ASSUME CopilotIInv, NEW c \in Clerks, NEW m \in ClerkKinds,
         clerk' = [clerk EXCEPT ![c] = m],
         UNCHANGED <<settings, knowledge, drafts, verdicts>>,
         ClerkRemembers(c)'
  PROVE  CopilotIInv'
<1>1. /\ clerk' \in [Clerks -> ClerkKinds]
      /\ \A b \in Clerks : b # c => clerk'[b] = clerk[b]
  BY OneClerk DEF CopilotIInv
<1>2. CopilotTypeOK'
  BY <1>1 DEF CopilotIInv, CopilotTypeOK, ClerkKinds
<1>3. \A b \in Clerks : ClerkRemembers(b)'
  BY <1>1 DEF CopilotIInv, ClerkRemembers, Remembers, At, BuildGenerator
<1>4. \A d \in drafts : DraftRemembers(d)'
  BY DEF CopilotIInv, DraftRemembers, Remembers, At, BuildGenerator
<1>. QED  BY <1>2, <1>3, <1>4 DEF CopilotIInv, IdsDistinct, VerdictsDecide

LEMMA StartDraftInv ==
  ASSUME CopilotIInv, NEW c \in Clerks, NEW q \in Questions, StartDraft(c, q)
  PROVE  CopilotIInv'
<1> DEFINE m == [pc |-> "generate", question |-> q, matches |-> Ids(Retrieve(knowledge, q)),
                 known |-> Ids(knowledge)]
<1>1. knowledge \subseteq Passage
  BY DEF CopilotIInv, CopilotTypeOK
<1>2. m \in ClerkKinds
  <2>1. Ids(Retrieve(knowledge, q)) \subseteq PassageIds /\ Ids(knowledge) \subseteq PassageIds
    BY <1>1, RetrieveStored DEF Ids, Passage
  <2>. QED  BY <2>1 DEF ClerkKinds, Retrieved
<1>3. clerk' = [clerk EXCEPT ![c] = m] /\ UNCHANGED <<settings, knowledge, drafts, verdicts>>
  BY DEF StartDraft
<1>4. ClerkRemembers(c)'
  <2>1. clerk'[c] = m
    BY <1>2, <1>3, OneClerk DEF CopilotIInv
  <2>2. At(Ids(knowledge))' = knowledge'
    BY DEF At, Ids
  <2>3. Remembers(q, Ids(Retrieve(knowledge, q)), Ids(knowledge))'
    BY <1>3, <2>2 DEF Remembers
  <2>4. clerk'[c].pc = "generate" /\ clerk'[c].question = q /\ clerk'[c].known = Ids(knowledge')
        /\ clerk'[c].matches = Ids(Retrieve(knowledge', q))
    BY <2>1, <1>3
  <2>. QED  BY <2>3, <2>4 DEF ClerkRemembers, Remembers
<1>. QED  BY <1>2, <1>3, <1>4, ClerkStepInv

LEMMA GenerateDraftInv ==
  ASSUME CopilotIInv, NEW c \in Clerks, GenerateDraft(c)
  PROVE  CopilotIInv'
<1>1. PICK answer \in GenerateWithFallback(BuildGenerator, clerk[c].matches) :
        clerk' = [clerk EXCEPT ![c] =
          [pc |-> "store", question |-> clerk[c].question, matches |-> clerk[c].matches,
           known |-> clerk[c].known, answer |-> answer]]
  BY DEF GenerateDraft
<1> DEFINE m == [pc |-> "store", question |-> clerk[c].question, matches |-> clerk[c].matches,
                 known |-> clerk[c].known, answer |-> answer]
<1>u. clerk[c].pc = "generate" /\ UNCHANGED <<settings, knowledge, drafts, verdicts>>
  BY DEF GenerateDraft
<1>2. clerk[c] \in Retrieved
  BY <1>u, ClerkKind DEF CopilotIInv
<1>3. answer \in Result
  BY <1>2, AnswersAreResults, BuildsAGenerator DEF Retrieved
<1>4. m \in ClerkKinds
  BY <1>2, <1>3 DEF ClerkKinds, Retrieved, Generated
<1>5. ClerkRemembers(c)'
  <2>1. clerk'[c] = m
    BY <1>1, <1>4, OneClerk DEF CopilotIInv
  <2>. QED  BY <1>1, <1>u, <2>1 DEF CopilotIInv, ClerkRemembers, Remembers, At, BuildGenerator
<1>. QED  BY <1>1, <1>u, <1>4, <1>5, ClerkStepInv

(* A request that ends without a change. *)
LEMMA ClerkFailsInv ==
  ASSUME CopilotIInv, NEW c \in Clerks, ClerkFails(c)
  PROVE  CopilotIInv'
<1>1. /\ clerk' = [clerk EXCEPT ![c] = ClerkIdle]
      /\ UNCHANGED <<settings, knowledge, drafts, verdicts>>
  BY DEF ClerkFails
<1>2. ClerkRemembers(c)'
  <2>1. clerk'[c] = ClerkIdle
    BY <1>1, IdlingFits, OneClerk DEF CopilotIInv
  <2>. QED  BY <2>1, IdlingFits DEF ClerkRemembers
<1>. QED  BY <1>1, <1>2, IdlingFits, ClerkStepInv

LEMMA StoreDraftInv ==
  ASSUME CopilotIInv, NEW c \in Clerks, StoreDraft(c)
  PROVE  CopilotIInv'
<1>1. PICK i \in DraftIds \ Ids(drafts) :
        drafts' = drafts \cup
          {[id |-> i, question |-> clerk[c].question, citations |-> clerk[c].matches,
            answer |-> clerk[c].answer, known |-> clerk[c].known, status |-> "pending"]}
  BY DEF StoreDraft, Cited
<1> DEFINE new == [id |-> i, question |-> clerk[c].question, citations |-> clerk[c].matches,
                   answer |-> clerk[c].answer, known |-> clerk[c].known, status |-> "pending"]
<1>u. /\ clerk[c].pc = "store" /\ UNCHANGED <<settings, knowledge, verdicts>>
      /\ clerk' = [clerk EXCEPT ![c] = ClerkIdle]
  BY DEF StoreDraft
<1>2. clerk[c] \in Generated
  BY <1>u, ClerkKind DEF CopilotIInv
<1>3. new \in Draft
  BY <1>1, <1>2 DEF Generated, Draft, DraftStatus
<1>4. /\ clerk' \in [Clerks -> ClerkKinds] /\ clerk'[c] = ClerkIdle
      /\ \A b \in Clerks : b # c => clerk'[b] = clerk[b]
  BY <1>u, IdlingFits, OneClerk DEF CopilotIInv
<1>5. CopilotTypeOK'
  BY <1>1, <1>u, <1>3, <1>4 DEF CopilotIInv, CopilotTypeOK, ClerkKinds
<1>6. IdsDistinct(drafts)'
  BY <1>1 DEF CopilotIInv, IdsDistinct, Ids
<1>7. \A b \in Clerks : ClerkRemembers(b)'
  <2>1. Ids(drafts) \subseteq Ids(drafts')
    BY <1>1 DEF Ids
  <2>. QED  BY <1>u, <1>4, <2>1, IdlingFits
            DEF CopilotIInv, ClerkRemembers, Remembers, At, BuildGenerator
<1>8. \A d \in drafts' : DraftRemembers(d)'
  <2>1. DraftRemembers(new)
    BY <1>u DEF CopilotIInv, ClerkRemembers, DraftRemembers
  <2>. QED  BY <1>1, <1>u, <2>1 DEF CopilotIInv, DraftRemembers, Remembers, At, BuildGenerator
<1>9. VerdictsDecide'
  BY <1>1, <1>u DEF CopilotIInv, VerdictsDecide
<1>. QED  BY <1>u, <1>5, <1>6, <1>7, <1>8, <1>9 DEF CopilotIInv, IdsDistinct

LEMMA StartApprovalInv ==
  ASSUME CopilotIInv, NEW c \in Clerks, NEW d \in drafts, StartApproval(c, d)
  PROVE  CopilotIInv'
<1> DEFINE m == [pc |-> "decide", draft |-> d.id]
<1>1. clerk' = [clerk EXCEPT ![c] = m] /\ UNCHANGED <<settings, knowledge, drafts, verdicts>>
  BY DEF StartApproval
<1>2. d.id \in DraftIds /\ d.id \in Ids(drafts)
  BY DEF CopilotIInv, CopilotTypeOK, Draft, Ids
<1>3. m \in ClerkKinds
  BY <1>2 DEF ClerkKinds, Deciding
<1>4. ClerkRemembers(c)'
  <2>1. clerk'[c] = m
    BY <1>1, <1>3, OneClerk DEF CopilotIInv
  <2>. QED  BY <1>1, <1>2, <2>1 DEF ClerkRemembers
<1>. QED  BY <1>1, <1>3, <1>4, ClerkStepInv

(* The UPDATE touches nothing but the status of the row that has the id. *)
LEMMA DecideDraftInv ==
  ASSUME CopilotIInv, NEW c \in Clerks, NEW verdict \in {"approved", "rejected"},
         DecideDraft(c, verdict)
  PROVE  CopilotIInv'
<1> DEFINE i == clerk[c].draft
           new(d) == IF d.id = i THEN [d EXCEPT !.status = verdict] ELSE d
<1>u. /\ clerk[c].pc = "decide" /\ UNCHANGED <<settings, knowledge>>
      /\ drafts' = {new(d) : d \in drafts}
      /\ clerk' = [clerk EXCEPT ![c] = ClerkIdle]
      /\ verdicts' = verdicts \cup {[draft |-> i, verdict |-> verdict]}
  BY DEF DecideDraft
<1>1. i \in DraftIds /\ i \in Ids(drafts)
  BY <1>u, ClerkKind DEF CopilotIInv, Deciding, ClerkRemembers
<1>2. ASSUME NEW d \in drafts
      PROVE  /\ new(d) \in Draft /\ new(d).id = d.id
             /\ new(d).question = d.question /\ new(d).citations = d.citations
             /\ new(d).answer = d.answer /\ new(d).known = d.known
             /\ d.id = i => new(d).status = verdict
             /\ d.id # i => new(d).status = d.status
  BY DEF CopilotIInv, CopilotTypeOK, Draft, DraftStatus
<1>v. \A e : e \in drafts' <=> \E d \in drafts : e = new(d)
  BY <1>u
<1> HIDE DEF new
<1>3. /\ clerk' \in [Clerks -> ClerkKinds] /\ clerk'[c] = ClerkIdle
      /\ \A b \in Clerks : b # c => clerk'[b] = clerk[b]
  BY <1>u, IdlingFits, OneClerk DEF CopilotIInv
<1>4. CopilotTypeOK'
  <2>1. drafts' \subseteq Draft
    BY <1>v, <1>2
  <2>2. verdicts' \subseteq Verdict
    BY <1>u, <1>1 DEF CopilotIInv, CopilotTypeOK, Verdict
  <2>. QED  BY <1>u, <1>3, <2>1, <2>2 DEF CopilotIInv, CopilotTypeOK, ClerkKinds
<1>5. IdsDistinct(drafts')
  <2> SUFFICES ASSUME NEW d \in drafts, NEW e \in drafts, new(d).id = new(e).id
               PROVE  new(d) = new(e)
    BY <1>v DEF IdsDistinct
  <2>1. d = e
    BY <1>2 DEF CopilotIInv, IdsDistinct
  <2>. QED  BY <2>1
<1>6. Ids(drafts') = Ids(drafts)
  <2>1. \A d \in drafts : new(d) \in drafts' /\ new(d).id = d.id
    BY <1>v, <1>2
  <2>2. \A e \in drafts' : \E d \in drafts : e.id = d.id
    BY <1>v, <1>2
  <2>. QED  BY <2>1, <2>2 DEF Ids
<1>7. \A b \in Clerks : ClerkRemembers(b)'
  BY <1>u, <1>3, <1>6, IdlingFits
     DEF CopilotIInv, ClerkRemembers, Remembers, At, BuildGenerator
<1>8. \A d \in drafts' : DraftRemembers(d)'
  <2> TAKE e \in drafts'
  <2>1. PICK d \in drafts : e = new(d)
    BY <1>v
  <2>2. DraftRemembers(d)
    BY DEF CopilotIInv
  <2>3. /\ e.question = d.question /\ e.citations = d.citations
        /\ e.answer = d.answer /\ e.known = d.known
    BY <1>2, <2>1
  <2>. QED  BY <1>u, <2>2, <2>3 DEF DraftRemembers, Remembers, At, BuildGenerator
<1>9. VerdictsDecide'
  <2> SUFFICES ASSUME NEW v \in verdicts'
               PROVE  \E d \in drafts' : d.id = v.draft /\ d.status # "pending"
    BY DEF VerdictsDecide
  <2>1. \E d \in drafts : d.id = v.draft /\ (d.id # i => d.status # "pending")
    BY <1>u, <1>1 DEF CopilotIInv, VerdictsDecide, Ids
  <2>2. PICK d \in drafts : d.id = v.draft /\ (d.id # i => d.status # "pending")
    BY <2>1
  <2>3. new(d) \in drafts' /\ new(d).id = v.draft /\ new(d).status # "pending"
    BY <1>v, <1>2, <2>2
  <2>. QED  BY <2>3
<1>. QED  BY <1>4, <1>5, <1>7, <1>8, <1>9, <1>u DEF CopilotIInv, IdsDistinct

-----------------------------------------------------------------------------
LEMMA CopilotNextInv == CopilotIInv /\ [CopilotNext]_copilotVars => CopilotIInv'
<1> SUFFICES ASSUME CopilotIInv, [CopilotNext]_copilotVars
             PROVE  CopilotIInv'
  OBVIOUS
<1>1. CASE UNCHANGED copilotVars
  BY <1>1 DEF copilotVars, CopilotIInv, CopilotTypeOK, IdsDistinct, ClerkRemembers,
              DraftRemembers, Remembers, At, BuildGenerator, VerdictsDecide
<1>2. ASSUME NEW text \in Passages, Ingest(text) PROVE CopilotIInv'
  BY <1>2, IngestInv
<1>3. ASSUME NEW c \in Clerks,
             \/ \E q \in Questions : StartDraft(c, q)
             \/ GenerateDraft(c) \/ StoreDraft(c) \/ ClerkFails(c)
             \/ \E d \in drafts : StartApproval(c, d)
             \/ \E verdict \in {"approved", "rejected"} : DecideDraft(c, verdict)
      PROVE  CopilotIInv'
  BY <1>3, StartDraftInv, GenerateDraftInv, StoreDraftInv, ClerkFailsInv, StartApprovalInv,
     DecideDraftInv
<1>. QED  BY <1>1, <1>2, <1>3 DEF CopilotNext

(* Every behaviour keeps the inductive invariant. *)
THEOREM CopilotInvariant == CopilotSpec => []CopilotIInv
BY CopilotInitInv, CopilotNextInv, PTL DEF CopilotSpec

(* Every behaviour keeps the types. *)
THEOREM CopilotTypes == CopilotSpec => []CopilotTypeOK
<1>1. CopilotIInv => CopilotTypeOK
  BY DEF CopilotIInv
<1>. QED  BY <1>1, CopilotInvariant, PTL

(* The context of a draft's answer is exactly what the draft cites, and this is the best of what
   was stored when the question was asked, whatever arrived since; a draft that cites nothing
   refuses, and a refusal over passages came from the hosted model. *)
THEOREM AnswersAreGrounded == CopilotSpec => []DraftsAreGrounded
<1>1. CopilotIInv => DraftsAreGrounded
  <2> SUFFICES ASSUME CopilotIInv, NEW d \in drafts
               PROVE  LET cited == {p \in knowledge : p.id \in d.citations}
                          missed == {p \in knowledge : p.id \in d.known \ d.citations} IN
                      /\ Ids(cited) = d.citations
                      /\ d.answer.context = d.citations
                      /\ d.citations = {} => d.answer.refusal
                      /\ d.answer.refusal /\ d.citations # {} => d.answer.generator = "hosted"
                      /\ cited \subseteq Candidates(knowledge, d.question)
                      /\ Cardinality(d.citations) <= d.question.topK
                      /\ \A p \in missed \cap Candidates(knowledge, d.question) :
                           /\ Cardinality(d.citations) = d.question.topK
                           /\ \A o \in cited : Outranks(o, p, d.question)
                      /\ d.answer.degraded => settings.provider = "hosted" /\ settings.keyed
                      /\ d.answer.generator # BuildGenerator => d.answer.degraded
    BY DEF DraftsAreGrounded
  <2> DEFINE q == d.question
             S == At(d.known)
             R == Retrieve(S, q)
             cited == {p \in knowledge : p.id \in d.citations}
             missed == {p \in knowledge : p.id \in d.known \ d.citations}
  <2>t. d \in Draft /\ knowledge \subseteq Passage /\ IdsDistinct(knowledge)
    BY DEF CopilotIInv, CopilotTypeOK
  <2>d. q \in Questions /\ d.citations \in SUBSET PassageIds
    BY <2>t DEF Draft
  <2>s. S \subseteq knowledge /\ S \subseteq Passage /\ IdsDistinct(S)
    BY <2>t DEF At, IdsDistinct
  <2>r. R \subseteq S /\ R \subseteq Passage /\ IdsDistinct(R)
    BY <2>s DEF IdsDistinct, Retrieve, Candidates
  <2>1. d.citations = Ids(R)
    BY DEF CopilotIInv, DraftRemembers, Remembers
  <2>2. cited = R
    BY <2>1, <2>t, <2>s, <2>r DEF IdsDistinct, Ids
  <2>3. /\ d.answer.context = d.citations
        /\ d.citations = {} => d.answer.refusal
        /\ d.answer.refusal /\ d.citations # {} => d.answer.generator = "hosted"
        /\ d.answer.degraded => BuildGenerator = "hosted"
        /\ d.answer.generator # BuildGenerator => d.answer.degraded
    BY <2>d, AnswersAreResults, BuildsAGenerator DEF CopilotIInv, DraftRemembers
  <2>4. d.answer.degraded => settings.provider = "hosted" /\ settings.keyed
    BY <2>3 DEF BuildGenerator
  <2>5. cited \subseteq Candidates(knowledge, q)
    BY <2>2, <2>s DEF Retrieve, Candidates
  <2>6. Cardinality(d.citations) = Cardinality(R) /\ Cardinality(R) <= q.topK
    BY <2>1, <2>d, <2>s, <2>r, Finite, RetrievesAtMostTopK
  <2>7. ASSUME NEW p \in missed \cap Candidates(knowledge, q)
        PROVE  Cardinality(R) = q.topK /\ \A o \in R : Outranks(o, p, q)
    <3>1. p \in Candidates(S, q)
      BY DEF Candidates, At
    <3>2. p \notin R
      BY <2>1 DEF Ids
    <3>. QED  BY <3>1, <3>2, <2>d, <2>s, RetrievesTheBest
  <2>. QED  BY <2>1, <2>2, <2>3, <2>4, <2>5, <2>6, <2>7
<1>. QED  BY <1>1, CopilotInvariant, PTL

(* A draft that an answered approval decided is not taken up for approval again. *)
THEOREM DecidedStayDecided == CopilotSpec => ApprovalsOverlap
<1> DEFINE Step == \A c \in Clerks :
                     clerk[c].pc = "idle" /\ clerk'[c].pc = "decide" =>
                       \A v \in verdicts : v.draft # clerk'[c].draft
<1>1. CopilotIInv /\ [CopilotNext]_copilotVars => [Step]_copilotVars
  <2> SUFFICES ASSUME CopilotIInv, CopilotNext, NEW c \in Clerks,
                      clerk[c].pc = "idle", clerk'[c].pc = "decide", NEW v \in verdicts
               PROVE  v.draft # clerk'[c].draft
    OBVIOUS
  <2>t. CopilotTypeOK /\ clerk[c] = ClerkIdle
    BY ClerkKind DEF CopilotIInv
  <2>1. PICK d \in drafts : StartApproval(c, d)
    <3>1. ASSUME NEW b \in Clerks, NEW m, clerk' = [clerk EXCEPT ![b] = m], m.pc # "decide"
          PROVE  FALSE
      <4>1. clerk'[c] = m \/ clerk'[c] = clerk[c]
        BY <3>1, <2>t DEF CopilotTypeOK
      <4>. QED  BY <3>1, <4>1
    <3>2. clerk' # clerk
      OBVIOUS
    <3>3. PICK b \in Clerks :
            \/ \E q \in Questions : StartDraft(b, q)
            \/ GenerateDraft(b) \/ StoreDraft(b) \/ ClerkFails(b)
            \/ \E d \in drafts : StartApproval(b, d)
            \/ \E verdict \in {"approved", "rejected"} : DecideDraft(b, verdict)
      BY <3>2 DEF CopilotNext, Ingest
    <3>4. ~ (\E q \in Questions : StartDraft(b, q)) /\ ~ GenerateDraft(b)
      BY <3>1 DEF StartDraft, GenerateDraft
    <3>5. /\ ~ StoreDraft(b) /\ ~ ClerkFails(b)
          /\ ~ \E verdict \in {"approved", "rejected"} : DecideDraft(b, verdict)
      BY <3>1 DEF StoreDraft, ClerkFails, DecideDraft, ClerkIdle
    <3>6. PICK d \in drafts : StartApproval(b, d)
      BY <3>3, <3>4, <3>5
    <3>7. b = c
      BY <3>6, <2>t DEF StartApproval, CopilotTypeOK
    <3>. QED  BY <3>6, <3>7
  <2>2. clerk'[c].draft = d.id /\ d.status = "pending"
    BY <2>1, <2>t DEF StartApproval, Undecided, CopilotTypeOK
  <2>. QED  BY <2>2 DEF CopilotIInv, VerdictsDecide, IdsDistinct
<1>. QED  BY <1>1, CopilotInvariant, PTL DEF CopilotSpec, ApprovalsOverlap
=============================================================================
