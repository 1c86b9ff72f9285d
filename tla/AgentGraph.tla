----------------------------- MODULE AgentGraph -----------------------------
(***************************************************************************)
(* One run of InterviewGraph: the supervisor routes a question to          *)
(* specialists, which search the published knowledge, drafts an answer     *)
(* from their evidence, has it verified, repairs it within its budgets and *)
(* publishes what was verified, or a conservative answer.  What the models *)
(* say is arbitrary; meanwhile documents are published and taken down and  *)
(* the grant may be revoked.                                               *)
(*                                                                         *)
(* InterviewService.ask answers a single question without the graph: it    *)
(* retrieves once, has an answer written and revalidates its citations.    *)
(***************************************************************************)
EXTENDS Integers, Sequences, FiniteSets, SequencesExt

CONSTANTS
  Chunks,           \* chunks that some published version has
  ScopeOf,          \* document_scope of a chunk's document
  ProjectOf,        \* its project, or None
  PlannedChunks,    \* project chunks of documents whose knowledge_status is planned
  Projects,         \* the projects of the access grant
  None,
  TopK,             \* rag_top_k
  MaxToolCalls,     \* agent_*_max_tool_calls
  MaxSpecialists,   \* agent_supervisor_max_specialist_calls
  MaxVerifications, \* agent_verification_max_runs
  MaxRepairs,       \* agent_max_answer_repairs
  MaxSteps,         \* agent_max_graph_steps
  OutputLimit,      \* most evidence of a SpecialistAgentOutput
  EvidenceLimit     \* most evidence of a VerificationAgentInput

Agents == {"profile", "project", "technical"}
Statuses == {"answered", "answered_with_boundary", "partial_answer", "insufficient_evidence",
             "access_restricted"}

ASSUME ChunkAssumption ==
  /\ ScopeOf \in [Chunks -> Agents]
  /\ ProjectOf \in [Chunks -> Projects \cup {None}]
  /\ PlannedChunks \subseteq {c \in Chunks : ScopeOf[c] = "project"}
  /\ IsFiniteSet(Chunks)
ASSUME BudgetAssumption ==
  /\ {TopK, MaxToolCalls, MaxSpecialists, MaxVerifications} \subseteq Nat \ {0}
  /\ MaxRepairs \in {0, 1}
  /\ MaxSteps \in Nat /\ MaxSteps >= 5
  /\ {OutputLimit, EvidenceLimit} \subseteq Nat

VARIABLES
  published,  \* chunks that are published, enabled and embedded
  revoked,    \* the grant was revoked or has expired
  effective,  \* effective_project_ids
  node,       \* the node that runs, or how the run ended
  selected,   \* selected_agents that were not called yet
  agent,      \* the specialist that runs: its evidence and its tool calls
  registry,   \* evidence_registry, by chunk
  draft,      \* status and citations of the draft
  current,    \* the evidence that the last revalidation of this draft found
  standing,   \* and what of it was published and granted at that moment
  passed,     \* verification_result
  final,      \* the published answer
  count       \* graph steps, specialist calls, repairs, verification runs

environment == <<published, revoked>>
run == <<effective, node, selected, agent, registry, draft, current, standing, passed, final, count>>
vars == <<environment, run>>

Nodes == {"routing", "specialists", "searching", "drafting", "verification", "judging", "repair",
          "finalize"} \cup {"retrieving", "answering", "citing"}
Endings == {"end", "failed", "invalid"}

NoAnswer == [status |-> "insufficient_evidence", citations |-> {}]
NoAgent == [name |-> None, evidence |-> {}, calls |-> 0]
Answers == [status : Statuses, citations : SUBSET Chunks]

TypeOK ==
  /\ published \subseteq Chunks
  /\ revoked \in BOOLEAN
  /\ effective \subseteq Projects
  /\ node \in Nodes \cup Endings
  /\ selected \in Seq(Agents)
  /\ agent \in [name : Agents \cup {None}, evidence : SUBSET Chunks, calls : Nat]
  /\ registry \subseteq Chunks
  /\ draft \in Answers
  /\ {current, standing} \subseteq SUBSET Chunks
  /\ passed \in BOOLEAN
  /\ final \in Answers
  /\ count \in [steps : Nat, specialists : Nat, repairs : Nat, verifications : Nat]

\* resolve_project_scope: the projects asked for that the grant has, if any.
Init ==
  /\ published \in SUBSET Chunks
  /\ revoked = FALSE
  /\ effective \in SUBSET Projects \ {{}}
  /\ node \in {"routing", "retrieving"}
  /\ selected = <<>>
  /\ agent = NoAgent
  /\ registry = {}
  /\ draft = NoAnswer
  /\ current = {} /\ standing = {}
  /\ passed = FALSE
  /\ final = NoAnswer
  /\ count = [steps |-> 0, specialists |-> 0, repairs |-> 0, verifications |-> 0]

Step(next) == /\ count' = [count EXCEPT !.steps = @ + 1]
              /\ node' = next

-----------------------------------------------------------------------------
(* Retrieval.                                                              *)

\* _scope_filters: the chunks that a query over some scopes and projects may find.
Searchable(scopes, projects) ==
  {c \in published : /\ ~revoked
                     /\ ScopeOf[c] \in scopes
                     /\ ScopeOf[c] = "project" => ProjectOf[c] \in projects}

\* Mutant of ToolProjects: an empty intersection falls back to what was asked for.
ToolProjectsAsked(requested) ==
  IF requested \cap effective = {} THEN requested ELSE requested \cap effective

\* ProjectAgentTools.call: what a step asks for counts only within the scope.
ToolProjects(requested) == IF requested = {} THEN effective ELSE requested \cap effective

\* search: the top_k nearest of them, whatever is near.
Nearest(scopes, projects) ==
  {E \in SUBSET Searchable(scopes, projects) : Cardinality(E) <= TopK}

\* _retrieve: less those of a repeated content and those that exceed the context budget.
Retrieve(scopes, projects) == UNION {SUBSET E : E \in Nearest(scopes, projects)}

\* _revalidation_scope
RevalidationScopes(E) ==
  LET scopes == {ScopeOf[c] : c \in E}
  IN IF Cardinality(scopes) = 1 THEN scopes
     ELSE IF scopes \subseteq {"profile", "project"} THEN {"profile", "project"}
     ELSE Agents

\* revalidate: one query over the chunks that were found.
StillFound(E, scopes, projects) == E \cap Searchable(scopes, projects)

Revalidated(E) == StillFound(E, RevalidationScopes(E), effective)

KnowledgeType(c) ==
  CASE ScopeOf[c] = "profile" -> "profile_fact"
    [] ScopeOf[c] = "technical" -> "technical_knowledge"
    [] c \in PlannedChunks -> "planned_solution"
    [] OTHER -> "project_fact"

-----------------------------------------------------------------------------
(* Routing and specialists.                                                *)

\* Any specialists in any order; none when the model's output stays invalid.
Route ==
  /\ node = "routing"
  /\ \E S \in SUBSET Agents : selected' \in SetToSeqs(S)
  /\ Step("specialists")
  /\ UNCHANGED <<environment, effective, agent, registry, draft, current, standing,
                 passed, final>>

\* ask_specialist; the loop ends when all were asked or the budget is used up.
AskSpecialist ==
  /\ node = "specialists"
  /\ selected # <<>> /\ count.specialists < MaxSpecialists
  /\ agent' = [NoAgent EXCEPT !.name = Head(selected)]
  /\ selected' = Tail(selected)
  /\ count' = [count EXCEPT !.specialists = @ + 1]
  /\ node' = "searching"
  /\ UNCHANGED <<environment, effective, registry, draft, current, standing,
                 passed, final>>

SpecialistsDone ==
  /\ node = "specialists"
  /\ selected = <<>> \/ count.specialists >= MaxSpecialists
  /\ Step("drafting")
  /\ UNCHANGED <<environment, effective, selected, agent, registry, draft, current, standing,
                 passed, final>>

\* Mutant of Search: every step starts from a fresh local state.
SearchAfresh ==
  /\ node = "searching"
  /\ \E requested \in SUBSET Projects : \E E \in Retrieve({agent.name}, ToolProjects(requested)) :
       agent' = [agent EXCEPT !.evidence = E]
  /\ UNCHANGED <<environment, effective, node, selected, registry, draft, current, standing, passed,
                 final, count>>

\* Mutant of Search: one call too many.
SearchOnceMore ==
  /\ node = "searching"
  /\ agent.calls <= MaxToolCalls
  /\ \E requested \in SUBSET Projects : \E E \in Retrieve({agent.name}, ToolProjects(requested)) :
       agent' = [agent EXCEPT !.evidence = @ \cup E, !.calls = @ + 1]
  /\ UNCHANGED <<environment, effective, node, selected, registry, draft, current, standing, passed,
                 final, count>>

\* A step of the specialist's model calls a tool.
Search ==
  /\ node = "searching"
  /\ agent.calls < MaxToolCalls
  /\ \E requested \in SUBSET Projects : \E E \in Retrieve({agent.name}, ToolProjects(requested)) :
       agent' = [agent EXCEPT !.evidence = @ \cup E, !.calls = @ + 1]
  /\ UNCHANGED <<environment, effective, node, selected, registry, draft, current, standing, passed,
                 final, count>>

\* _register_output of a specialist's evidence; a longer list than its schema has
\* is a ValidationError, which nobody catches.
Register(E) ==
  /\ IF Cardinality(E) > OutputLimit
     THEN node' = "invalid" /\ registry' = registry
     ELSE node' = "specialists" /\ registry' = registry \cup E
  /\ agent' = NoAgent
  /\ UNCHANGED <<environment, effective, selected, draft, current, standing, passed, final, count>>

\* The step finishes, with handles of which the unknown ones are left out ...
FinishSearch ==
  /\ node = "searching"
  /\ \E E \in SUBSET agent.evidence : Cardinality(E) <= OutputLimit /\ Register(E)

\* ... or calls a tool beyond the budget, which returns all that was found ...
ExhaustBudget ==
  /\ node = "searching"
  /\ agent.calls >= MaxToolCalls
  /\ Register(agent.evidence)

\* ... or stays invalid after its retry.
SpecialistErrs ==
  /\ node = "searching"
  /\ Register({})

-----------------------------------------------------------------------------
(* Draft, verification, repair.                                            *)

\* InterviewSupervisorAgent.draft: unknown handles are dropped, an answer needs
\* evidence, and one that mixes facts with principles or plans says so.
Drafts ==
  IF registry = {} THEN {NoAnswer}
  ELSE {a \in Answers :
          LET types == {KnowledgeType(c) : c \in a.citations}
          IN /\ a.citations \subseteq registry
             /\ a.citations = {} => a.status # "answered"
             /\ /\ "project_fact" \in types
                /\ types \cap {"technical_knowledge", "planned_solution"} # {}
                => a.status # "answered"}

Draft ==
  /\ node = "drafting"
  /\ draft' \in Drafts
  /\ current' = {} /\ standing' = {}
  /\ Step("verification")
  /\ UNCHANGED <<environment, effective, selected, agent, registry, passed, final>>

\* Mutant of Revalidate: evidence that was found once is not looked up again.
RevalidateOnce ==
  /\ node = "verification"
  /\ current' = IF count.verifications = 0 THEN Revalidated(registry) ELSE registry
  /\ standing' = registry \cap Searchable(Agents, effective)
  /\ node' = "judging"
  /\ UNCHANGED <<environment, effective, selected, agent, registry, draft, passed, final, count>>

\* VerificationAgent.run, the deterministic part: a registry that its input has no
\* room for is a ValidationError.
Revalidate ==
  /\ node = "verification"
  /\ IF Cardinality(registry) > EvidenceLimit
     THEN node' = "invalid" /\ UNCHANGED <<current, standing>>
     ELSE /\ node' = "judging"
          /\ current' = Revalidated(registry)
          /\ standing' = registry \cap Searchable(Agents, effective)
  /\ UNCHANGED <<environment, effective, selected, agent, registry, draft, passed, final, count>>

\* check_evidence_scope, check_access_grant_scope
InScope(E) == \A c \in E : ScopeOf[c] = "project" => ProjectOf[c] \in effective

CanRepair(steps, verifications) ==
  /\ count.repairs < MaxRepairs
  /\ verifications < MaxVerifications
  /\ steps + 3 <= MaxSteps

\* The model's verdict counts only when every citation is current.
Passes(verdict) == verdict /\ draft.citations \subseteq current /\ InScope(registry)

\* _semantic_check, whose output that stays invalid is a verdict too: not passed.
Judge ==
  /\ node = "judging"
  /\ \E verdict \in BOOLEAN : passed' = Passes(verdict)
  /\ count' = [count EXCEPT !.steps = @ + 1, !.verifications = @ + 1]
  /\ node' = IF ~passed' /\ CanRepair(count'.steps, count'.verifications)
             THEN "repair" ELSE "finalize"
  /\ UNCHANGED <<environment, effective, selected, agent, registry, draft, current, standing, final>>

\* Mutant of Repair: does not count.
RepairUncounted ==
  /\ node = "repair"
  /\ draft' \in Drafts
  /\ current' = {} /\ standing' = {}
  /\ Step("verification")
  /\ UNCHANGED <<environment, effective, selected, agent, registry, passed, final>>

Repair ==
  /\ node = "repair"
  /\ draft' \in Drafts
  /\ current' = {} /\ standing' = {}
  /\ count' = [count EXCEPT !.steps = @ + 1, !.repairs = @ + 1]
  /\ node' = "verification"
  /\ UNCHANGED <<environment, effective, selected, agent, registry, passed, final>>

\* Mutant of Conservative: keeps the citations of the draft that failed.
ConservativeCiting ==
  [status |-> IF registry = {} THEN "insufficient_evidence" ELSE "partial_answer",
   citations |-> draft.citations]

Conservative ==
  [status |-> IF registry = {} THEN "insufficient_evidence" ELSE "partial_answer",
   citations |-> {}]

Finalize ==
  /\ node = "finalize"
  /\ final' = IF passed THEN draft ELSE Conservative
  /\ Step("end")
  /\ UNCHANGED <<environment, effective, selected, agent, registry, draft, current, standing, passed>>

-----------------------------------------------------------------------------
(* InterviewService.ask, once the question was charged.                    *)

RetrieveOnce ==
  /\ node = "retrieving"
  /\ registry' \in Retrieve({"profile", "project"}, effective)
  /\ node' = IF registry' = {} THEN "end" ELSE "answering"
  /\ UNCHANGED <<environment, effective, selected, agent, draft, current, standing, passed, final,
                 count>>

\* Either no answer, or one that cites something of what was found; an output that
\* stays invalid fails the request.
Answer ==
  /\ node = "answering"
  /\ \/ node' = "end" /\ draft' = draft
     \/ /\ node' = "citing"
        /\ \E C \in SUBSET registry \ {{}} : draft' = [status |-> "answered", citations |-> C]
  /\ UNCHANGED <<environment, effective, selected, agent, registry, current, standing, passed, final,
                 count>>

\* Mutant of Cite: the citations are not looked up again.
CiteUnchecked ==
  /\ node = "citing"
  /\ current' = Revalidated(registry)
  /\ standing' = registry \cap Searchable(Agents, effective)
  /\ passed' = TRUE
  /\ final' = draft
  /\ node' = "end"
  /\ UNCHANGED <<environment, effective, selected, agent, registry, draft, count>>

\* The answer is given when everything it cites can still be found.
Cite ==
  /\ node = "citing"
  /\ current' = Revalidated(registry)
  /\ standing' = registry \cap Searchable(Agents, effective)
  /\ passed' = (draft.citations \subseteq current')
  /\ final' = IF passed' THEN draft ELSE NoAnswer
  /\ node' = "end"
  /\ UNCHANGED <<environment, effective, selected, agent, registry, draft, count>>

-----------------------------------------------------------------------------

\* A provider or the retrieval is unavailable, a model's output stays invalid, or
\* the run exceeds its timeout.
Fail ==
  /\ node \in Nodes
  /\ node' = "failed"
  /\ UNCHANGED <<environment, effective, selected, agent, registry, draft, current, standing, passed,
                 final, count>>

-----------------------------------------------------------------------------
(* The administrators, meanwhile.                                          *)

Publish(c) ==
  /\ c \notin published
  /\ published' = published \cup {c}
  /\ UNCHANGED revoked

TakeDown(c) ==
  /\ c \in published
  /\ published' = published \ {c}
  /\ UNCHANGED revoked

Revoke ==
  /\ ~revoked
  /\ revoked' = TRUE
  /\ UNCHANGED published

Manage ==
  /\ node \in Nodes
  /\ (\E c \in Chunks : Publish(c) \/ TakeDown(c)) \/ Revoke
  /\ UNCHANGED run

Run ==
  \/ Route \/ AskSpecialist \/ SpecialistsDone
  \/ Search \/ FinishSearch \/ ExhaustBudget \/ SpecialistErrs
  \/ Draft \/ Revalidate \/ Judge \/ Repair \/ Finalize
  \/ RetrieveOnce \/ Answer \/ Cite

Next == Run \/ Fail \/ Manage

Spec == Init /\ [][Next]_vars

\* Every call of a model or of the retrieval returns or times out.
FairSpec == Spec /\ WF_vars(Run)

-----------------------------------------------------------------------------
(* Properties.                                                             *)

\* What is published was verified as it is: every citation of the final answer was
\* published and within the grant at some moment after the draft that cites it was
\* written, however long ago it was found; and an answer that cites anything passed
\* its verification.
CitationsRevalidated ==
  node = "end" => /\ final.citations \subseteq standing
                  /\ final.citations # {} => passed /\ final = draft

\* Evidence comes from the projects asked for and granted, whatever a model asks
\* its tools for, and each specialist finds its own kind only.
EvidenceInScope ==
  /\ InScope(registry \cup agent.evidence)
  /\ \A c \in agent.evidence : ScopeOf[c] = agent.name

\* "Budgets are enforced by the code": no model's output makes the graph exceed
\* one, the steps that a repair still needs included.
BudgetsKept ==
  /\ count.steps <= MaxSteps
  /\ count.specialists <= MaxSpecialists
  /\ count.repairs <= MaxRepairs
  /\ count.verifications <= MaxVerifications
  /\ agent.calls <= MaxToolCalls

\* What a run may still do at most: the calls of its specialists, the nodes before
\* its end, and the three of every repair.
SpecialistWork ==
  (MaxSpecialists - count.specialists) * (MaxToolCalls + 2)
    + IF node = "searching" THEN MaxToolCalls - agent.calls + 1 ELSE 0
NodesLeft ==
  CASE node = "routing" -> 6
    [] node \in {"specialists", "searching"} -> 5
    [] node = "drafting" -> 4
    [] node \in {"verification", "retrieving"} -> 3
    [] node \in {"judging", "answering"} -> 2
    [] OTHER -> 1
Work ==
  IF node \in Endings THEN 0
  ELSE NodesLeft + 3 * (MaxRepairs - count.repairs) + SpecialistWork

\* Every step of a run brings it nearer to its end, whatever the models answer, so
\* that it makes no more than a fixed number of calls, however their outputs loop
\* through specialists, tools, verification and repair; and a run that has ended
\* stays as it is.
WorkShrinks ==
  [][/\ {Work, Work'} \subseteq Nat
     /\ Work' < Work \/ UNCHANGED run]_vars

\* The run ends, whatever the models answer.
RunEnds == <>(node \in Endings)

-----------------------------------------------------------------------------
(* What the documents say and the code does not keep.                      *)

\* "When a budget is reached, stop calling and degrade safely to the evidence there
\* is": no run ends because there is too much of it.
BudgetsDegrade == node # "invalid"
=============================================================================
