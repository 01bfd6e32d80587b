------------------------------ MODULE Copilot -------------------------------
(***************************************************************************)
(* Knowledge, answer drafts and their approval in services/copilot-rag.    *)
(*                                                                         *)
(* The endpoints are plain functions, so each request runs on a thread of  *)
(* its own, with a connection of its own to one SQLite file: a statement   *)
(* is atomic and anything may happen between two of them, and while the    *)
(* hosted model is asked.                                                  *)
(*                                                                         *)
(* A text is the set of its tokens.  An id or the like that the code takes *)
(* from a random generator is any unused one.                              *)
(***************************************************************************)
EXTENDS Naturals, FiniteSets

CONSTANTS
  Clerks,         \* requests being served at a time
  Passages,       \* bodies of POST /knowledge: their words and what they are filed under
  Questions,      \* bodies of POST /drafts: words, the scope asked for, top_k
  Unscoped,       \* a policy_id or claim_id that is None
  MaxPassages,    \* bound: passages stored
  MaxDrafts       \* bound: drafts stored

ASSUME CopilotAssumption ==
  /\ \A p \in Passages : IsFiniteSet(p.words)
  /\ \A q \in Questions : q.topK \in 1..10
  /\ MaxPassages \in Nat /\ MaxDrafts \in Nat

VARIABLES
  settings,       \* the environment variables COPILOT_LLM_*
  knowledge,      \* table knowledge
  drafts,         \* table drafts
  clerk,          \* per thread: the request it serves
  verdicts        \* history: the approvals answered with 200

copilotVars == <<settings, knowledge, drafts, clerk, verdicts>>

-----------------------------------------------------------------------------
PassageIds == 1..MaxPassages   \* in the order of (created_at, id)
Passage == [id: PassageIds, text: Passages]
DraftIds == 1..MaxDrafts

Settings == [provider: {"deterministic", "hosted", "unknown"}, keyed: BOOLEAN]
Generators == {"deterministic", "hosted"}

(* GenerationResult: the passages the text was written from, or that were given to the model
   that wrote it, and whether it is the refusal. *)
Result == [context: SUBSET PassageIds, refusal: BOOLEAN,
           generator: Generators, degraded: BOOLEAN]

DraftStatus == {"pending", "approved", "rejected"}
Draft == [id: DraftIds, question: Questions, citations: SUBSET PassageIds, answer: Result,
          known: SUBSET PassageIds,   \* history: what was stored when the passages were retrieved
          status: DraftStatus]

ClerkIdle == [pc |-> "idle"]
Retrieved == [pc: {"generate"}, question: Questions, matches: SUBSET PassageIds,
              known: SUBSET PassageIds]
Generated == [pc: {"store"}, question: Questions, matches: SUBSET PassageIds,
              known: SUBSET PassageIds, answer: Result]
Deciding == [pc: {"decide"}, draft: DraftIds]

Verdict == [draft: DraftIds, verdict: {"approved", "rejected"}]

CopilotTypeOK ==
  /\ settings \in Settings
  /\ knowledge \subseteq Passage
  /\ drafts \subseteq Draft
  /\ clerk \in [Clerks -> {ClerkIdle} \cup Retrieved \cup Generated \cup Deciding]
  /\ verdicts \subseteq Verdict

CopilotInit ==
  /\ settings \in Settings
  /\ knowledge = {}
  /\ drafts = {}
  /\ clerk = [c \in Clerks |-> ClerkIdle]
  /\ verdicts = {}

-----------------------------------------------------------------------------
Ids(S) == {x.id : x \in S}

(* ingest and ingest_upload: one INSERT.  created_at was read before it, by a wall clock:
   the new passage may rank anywhere among those stored. *)
Ingest(text) ==
  /\ \E i \in PassageIds \ Ids(knowledge) :
       knowledge' = knowledge \cup {[id |-> i, text |-> text]}
  /\ UNCHANGED <<settings, drafts, clerk, verdicts>>

-----------------------------------------------------------------------------
Admits(wanted, filed) == wanted = Unscoped \/ filed \in {Unscoped, wanted}
InScope(p, q) == Admits(q.policy, p.text.policy) /\ Admits(q.claim, p.text.claim)
Score(p, q) == Cardinality(q.words \cap p.text.words)
Candidates(S, q) == {p \in S : InScope(p, q) /\ Score(p, q) > 0}

(* The sort key of retrieve: higher scores first, then older passages. *)
Outranks(o, p, q) ==
  \/ Score(o, q) > Score(p, q)
  \/ Score(o, q) = Score(p, q) /\ o.id < p.id

(* scored[:limit] after the sort *)
Retrieve(S, q) ==
  {p \in Candidates(S, q) :
     Cardinality({o \in Candidates(S, q) : Outranks(o, p, q)}) < q.topK}

StartDraft(c, q) ==
  /\ clerk[c] = ClerkIdle
  /\ clerk' = [clerk EXCEPT ![c] =
       [pc |-> "generate", question |-> q, matches |-> Ids(Retrieve(knowledge, q)),
        known |-> Ids(knowledge)]]
  /\ UNCHANGED <<settings, knowledge, drafts, verdicts>>

-----------------------------------------------------------------------------
BuildGenerator ==
  IF settings.provider = "hosted" /\ settings.keyed THEN "hosted" ELSE "deterministic"

(* Both generators refuse when nothing was retrieved, the hosted one without asking. *)
RefusalText(generator) ==
  [context |-> {}, refusal |-> TRUE, generator |-> generator, degraded |-> FALSE]

Stitched(matches, degraded) ==
  [context |-> matches, refusal |-> FALSE, generator |-> "deterministic",
   degraded |-> degraded]

(* The hosted model is given the matches as its only context and is told to reply with the
   refusal if they do not contain the answer: its text is one or the other. *)
Completions(matches) ==
  [context: {matches}, refusal: BOOLEAN, generator: {"hosted"}, degraded: {FALSE}]

(* generate_with_fallback: any failure of the provider ends in the stitched answer. *)
GenerateWithFallback(generator, matches) ==
  IF matches = {} THEN {RefusalText(generator)}
  ELSE IF generator = "deterministic" THEN {Stitched(matches, FALSE)}
  ELSE Completions(matches) \cup {Stitched(matches, TRUE)}

GenerateDraft(c) ==
  LET me == clerk[c] IN
  /\ me.pc = "generate"
  /\ \E answer \in GenerateWithFallback(BuildGenerator, me.matches) :
       clerk' = [clerk EXCEPT ![c] =
         [pc |-> "store", question |-> me.question, matches |-> me.matches,
          known |-> me.known, answer |-> answer]]
  /\ UNCHANGED <<settings, knowledge, drafts, verdicts>>

CitedAgain(me) == Ids(Retrieve(knowledge, me.question))   \* mutant: looked up when stored
Cited(me) == me.matches

StoreDraft(c) ==
  LET me == clerk[c] IN
  /\ me.pc = "store"
  /\ \E d \in DraftIds \ Ids(drafts) :
       drafts' = drafts \cup
         {[id |-> d, question |-> me.question, citations |-> Cited(me), answer |-> me.answer,
           known |-> me.known, status |-> "pending"]}
  /\ clerk' = [clerk EXCEPT ![c] = ClerkIdle]
  /\ UNCHANGED <<settings, knowledge, verdicts>>

-----------------------------------------------------------------------------
Decidable(d) == d.status # "approved"   \* mutant: a rejected draft may be decided again
Undecided(d) == d.status = "pending"

(* The SELECT of approve_draft: 404 and 409 leave everything as it is. *)
StartApproval(c, d) ==
  /\ clerk[c] = ClerkIdle
  /\ Undecided(d)
  /\ clerk' = [clerk EXCEPT ![c] = [pc |-> "decide", draft |-> d.id]]
  /\ UNCHANGED <<settings, knowledge, drafts, verdicts>>

(* Its UPDATE, which asks for the id only; 200. *)
DecideDraft(c, verdict) ==
  LET me == clerk[c] IN
  /\ me.pc = "decide"
  /\ drafts' = {IF d.id = me.draft THEN [d EXCEPT !.status = verdict] ELSE d : d \in drafts}
  /\ clerk' = [clerk EXCEPT ![c] = ClerkIdle]
  /\ verdicts' = verdicts \cup {[draft |-> me.draft, verdict |-> verdict]}
  /\ UNCHANGED <<settings, knowledge>>

(* 500, whatever fails: the database, the timeout setting that is no number; or the process
   dies, thread by thread. *)
ClerkFails(c) ==
  /\ clerk[c] # ClerkIdle
  /\ clerk' = [clerk EXCEPT ![c] = ClerkIdle]
  /\ UNCHANGED <<settings, knowledge, drafts, verdicts>>

CopilotNext ==
  \/ \E text \in Passages : Ingest(text)
  \/ \E c \in Clerks :
       \/ \E q \in Questions : StartDraft(c, q)
       \/ GenerateDraft(c) \/ StoreDraft(c) \/ ClerkFails(c)
       \/ \E d \in drafts : StartApproval(c, d)
       \/ \E verdict \in {"approved", "rejected"} : DecideDraft(c, verdict)

CopilotSpec == CopilotInit /\ [][CopilotNext]_copilotVars

-----------------------------------------------------------------------------
(* README.md:19-20 of the service, "Grounded or refused": the answer of a draft was written from
   exactly the passages its row cites, although knowledge arrives while it is being generated;
   it is the refusal if there are none, and a refusal over passages is the hosted model's own.
   They are passages of the scope asked for, and one known by then was left out only for top_k
   better ones.  What the fallback wrote, and only that, is marked degraded (main.py:103-117,
   179-194; generator.py:161-172, 199-219). *)
DraftsAreGrounded ==
  \A d \in drafts :
    LET cited == {p \in knowledge : p.id \in d.citations}
        missed == {p \in knowledge : p.id \in d.known \ d.citations} IN
    /\ Ids(cited) = d.citations
    /\ d.answer.context = d.citations
    /\ d.citations = {} => d.answer.refusal
    /\ d.answer.refusal /\ d.citations # {} => d.answer.generator = "hosted"
    /\ cited \subseteq Candidates(knowledge, d.question)
    /\ Cardinality(d.citations) <= d.question.topK
    /\ \A p \in missed \cap Candidates(knowledge, d.question) :
         /\ Cardinality(d.citations) = d.question.topK
         /\ \A o \in cited : Outranks(o, p, d.question)
    /\ d.answer.degraded => settings.provider = "hosted" /\ settings.keyed
    /\ d.answer.generator # BuildGenerator => d.answer.degraded

(* Once an approval of a draft was answered with 200, no later request gets as far as deciding
   it (409, main.py:206): a decision is overwritten only by a request that overlapped the one
   it overwrites. *)
ApprovalsOverlap ==
  [][\A c \in Clerks :
       clerk[c].pc = "idle" /\ clerk'[c].pc = "decide" =>
         \A v \in verdicts : v.draft # clerk'[c].draft]_copilotVars
=============================================================================
